------------------------------ MODULE Workdir ------------------------------
(***************************************************************************)
(* The git work directory of one project (build.checkout, workspace.py)    *)
(* and everything that switches it: deployments under the project's lock,  *)
(* and without a lock previews, approved changes and the code view. One    *)
(* profile, development, whose image tags previews and deployments share.  *)
(*                                                                         *)
(* A commit is what its files hold: the pushed commit it is based on and   *)
(* the approved changes on top of it. Files that differ from the checked-  *)
(* out commit are the changes applied and not yet committed; of those, the *)
(* ones that add files survive git reset --hard until git add knows them.  *)
(***************************************************************************)
EXTENDS Integers, FiniteSets

CONSTANTS
    Callers,        \* threads
    None,           \* a lock nobody holds
    Changes,        \* changes proposed in chat sessions
    New,            \* those of them that add files
    Chat,           \* the sessions' branches: "chat", or "main" on request
    Ops,            \* what this instance exercises; with "overlap", anything
                    \* at any time, without it deployments alone overlap
    Faults,         \* {"git"} when commands fail
    MaxPushes, MaxCrashes  \* bounds of the model

ASSUME WorkdirAssumption ==
    /\ None \notin Callers
    /\ New \subseteq Changes
    /\ Chat \subseteq {"main", "chat"}
    /\ Ops \subseteq {"deploy", "pin", "preview", "apply", "view", "reject", "overlap"}
    /\ Faults \subseteq {"git"}
    /\ MaxPushes \in Nat /\ MaxCrashes \in Nat

Commit == [base : 0..MaxPushes, changes : SUBSET Changes]
NoCommit == [base |-> 0, changes |-> {}, missing |-> TRUE]
Pushed(n) == [base |-> n, changes |-> {}]

VARIABLES
    origin,         \* pushes to the project's branch
    hooks,          \* background tasks of the webhook
    cloned,         \* the directory holds a repository
    tracking,       \* origin/main as last fetched
    ref,            \* [branch -> its commit]
    head,           \* the branch that is checked out
    dirt,           \* changes in the files that are not in the index
    staged,         \* changes in the index that are not committed
    lock,           \* the project's deployment lock
    image,          \* the image built last, at first that of an earlier deployment
    change,         \* [change -> its status]
    call,           \* [caller -> the frame of its request]
    crashes

git == <<cloned, tracking, ref, head, dirt, staged>>
vars == <<origin, hooks, git, lock, image, change, call, crashes>>

\* What an image is tagged with and what it holds; latest: history, at least
\* the pushes it is expected to hold, 0 when it need not be the latest.
Image == [tag : Commit, files : Commit, deployed : BOOLEAN, latest : 0..MaxPushes]

\* asked: history, what was pushed when the request came.
Frame == [op : {"deploy", "preview", "apply", "view"},
          at : {"idle", "exists", "clone", "fetch", "switch", "reset", "pin", "resolve",
                "branch", "force", "patch", "add", "commit", "save", "build"},
          pin : -1..MaxPushes, branch : {"main", "chat"},
          change : Changes \cup {None}, sha : Commit, asked : 0..MaxPushes]
NoCall == [op |-> "view", at |-> "idle", pin |-> -1, branch |-> "main",
           change |-> None, sha |-> Pushed(0), asked |-> 0]

TypeOK ==
    /\ origin \in 0..MaxPushes /\ hooks \in 0..origin
    /\ cloned \in BOOLEAN /\ tracking \in 0..origin
    /\ head \in {"main", "chat", "detached"} /\ dirt \subseteq Changes /\ staged \subseteq Changes
    /\ ref \in [{"main", "chat", "detached"} -> Commit \cup {NoCommit}]
    /\ ref[head] \in Commit /\ ref[head].base <= tracking
    /\ lock \in Callers \cup {None}
    /\ image \in Image
    /\ change \in [Changes -> {"proposed", "applied", "rejected"}]
    /\ call \in [Callers -> Frame]
    /\ crashes \in 0..MaxCrashes

Init ==
    /\ origin = 0 /\ hooks = 0
    /\ cloned = FALSE /\ tracking = 0 /\ dirt = {} /\ staged = {}
    /\ ref = [b \in {"main", "chat", "detached"} |->
                 IF b = "main" THEN Pushed(0) ELSE NoCommit]
    /\ head = "main"
    /\ lock = None
    /\ image = [tag |-> Pushed(0), files |-> Pushed(0), deployed |-> FALSE, latest |-> 0]
    /\ change = [c \in Changes |-> "proposed"]
    /\ call = [h \in Callers |-> NoCall]
    /\ crashes = 0

\* The files in the directory.
Files == [ref[head] EXCEPT !.changes = @ \cup staged \cup dirt]

Goes(h, to) == call' = [call EXCEPT ![h].at = to]
Starts(h, op) ==
    /\ call[h].at = "idle" /\ op \in Ops
    /\ \/ "overlap" \in Ops
       \/ \A g \in Callers : call[g].at = "idle"
       \/ op \in {"deploy", "pin"} /\ \A g \in Callers : call[g].op = "deploy" \/ call[g].at = "idle"
Ends(h) ==
    /\ call' = [call EXCEPT ![h] = NoCall]
    /\ lock' = IF lock = h THEN None ELSE lock

----------------------------------------------------------------------------
(* Requests.                                                               *)

\* A push, and the event it sends to the platform.
Push ==
    /\ origin < MaxPushes
    /\ origin' = origin + 1
    /\ hooks' = hooks + 1
    /\ UNCHANGED <<git, lock, image, change, call, crashes>>

\* Mutant: the lock is not looked at.
DeployUnlocked(h, pin) ==
    /\ Starts(h, IF pin = -1 THEN "deploy" ELSE "pin")
    /\ lock' = h
    /\ call' = [call EXCEPT ![h] = [NoCall EXCEPT !.op = "deploy", !.at = "exists", !.pin = pin,
                                              !.asked = origin]]
    /\ UNCHANGED <<origin, hooks, git, image, change, crashes>>

\* A deployment, of a given commit when one is named; refused without the lock.
Deploy(h, pin) ==
    /\ Starts(h, IF pin = -1 THEN "deploy" ELSE "pin")
    /\ lock = None /\ lock' = h
    /\ call' = [call EXCEPT ![h] = [NoCall EXCEPT !.op = "deploy", !.at = "exists", !.pin = pin,
                                              !.asked = origin]]
    /\ UNCHANGED <<origin, hooks, git, image, change, crashes>>

\* _deploy_task: the event is skipped while a deployment is in progress.
Webhook(h) ==
    /\ hooks > 0 /\ Starts(h, "deploy")
    /\ hooks' = hooks - 1
    /\ IF lock = None
       THEN /\ lock' = h
            /\ call' = [call EXCEPT ![h] = [NoCall EXCEPT !.op = "deploy", !.at = "exists",
                                                    !.asked = origin]]
       ELSE UNCHANGED <<lock, call>>
    /\ UNCHANGED <<origin, git, image, change, crashes>>

Begin(h, frame) ==
    /\ Starts(h, frame.op)
    /\ call' = [call EXCEPT ![h] = frame]
    /\ UNCHANGED <<origin, hooks, git, lock, image, change, crashes>>

Preview(h, b) == Begin(h, [NoCall EXCEPT !.op = "preview", !.at = "exists", !.branch = b])
View(h) == Begin(h, [NoCall EXCEPT !.at = "exists"])
Apply(h, c, b) ==
    /\ change[c] = "proposed"
    /\ Begin(h, [NoCall EXCEPT !.op = "apply", !.at = "exists", !.branch = b, !.change = c])

\* reject_change looks at no status.
Reject(c) ==
    /\ "reject" \in Ops
    /\ change' = [change EXCEPT ![c] = "rejected"]
    /\ UNCHANGED <<origin, hooks, git, lock, image, call, crashes>>

----------------------------------------------------------------------------
(* checkout(), one git command at a time.                                  *)

LooksForGit(h) ==
    /\ call[h].at = "exists"
    /\ Goes(h, IF cloned THEN "fetch" ELSE "clone")
    /\ UNCHANGED git

\* rmtree and git clone: what another thread made in between is gone.
Clone(h) ==
    /\ call[h].at = "clone"
    /\ cloned' = TRUE /\ tracking' = origin
    /\ ref' = [b \in DOMAIN ref |-> IF b = "main" THEN Pushed(origin) ELSE NoCommit]
    /\ head' = "main" /\ dirt' = {} /\ staged' = {}
    /\ Goes(h, "pin")

\* Mutant: no fetch once there is a clone.
FetchNothing(h) ==
    /\ call[h].at = "fetch"
    /\ Goes(h, "switch")
    /\ UNCHANGED git

Fetch(h) ==
    /\ call[h].at = "fetch"
    /\ tracking' = origin
    /\ Goes(h, "switch")
    /\ UNCHANGED <<cloned, ref, head, dirt, staged>>

\* git checkout: uncommitted changes are carried along.
SwitchToMain(h) ==
    /\ call[h].at = "switch"
    /\ head' = "main"
    /\ Goes(h, "reset")
    /\ UNCHANGED <<cloned, tracking, ref, dirt, staged>>

\* Mutant: reset without --hard keeps the files.
ResetSoft(h) ==
    /\ call[h].at = "reset"
    /\ ref' = [ref EXCEPT ![head] = Pushed(tracking)]
    /\ Goes(h, "pin")
    /\ UNCHANGED <<cloned, tracking, head, dirt, staged>>

\* git reset --hard origin/main, of whichever branch is checked out by now;
\* files it does not know stay.
Reset(h) ==
    /\ call[h].at = "reset"
    /\ ref' = [ref EXCEPT ![head] = Pushed(tracking)]
    /\ dirt' = dirt \cap New /\ staged' = {}
    /\ Goes(h, "pin")
    /\ UNCHANGED <<cloned, tracking, head>>

\* git checkout <sha>, when a commit is given.
Pin(h) ==
    /\ call[h].at = "pin" /\ call[h].pin <= tracking
    /\ IF call[h].pin = -1 THEN UNCHANGED git
       ELSE /\ head' = "detached"
            /\ ref' = [ref EXCEPT !["detached"] = Pushed(call[h].pin)]
            /\ UNCHANGED <<cloned, tracking, dirt, staged>>
    /\ Goes(h, "resolve")

\* What checkout() and the preview's git rev-parse are followed by.
After(f) ==
    CASE f.op = "deploy" -> "build"
      [] f.op = "view" -> "idle"
      [] f.op = "preview" -> IF f.branch = "main" THEN "build" ELSE "branch"
      [] f.op = "apply" -> IF f.branch = "main" THEN "patch" ELSE "force"

\* git rev-parse HEAD.
Resolve(h) ==
    /\ call[h].at = "resolve"
    /\ call' = [call EXCEPT ![h] =
           IF After(call[h]) = "idle" THEN NoCall
           ELSE [@ EXCEPT !.sha = ref[head], !.at = After(call[h])]]
    /\ UNCHANGED git

\* The preview's git checkout <branch>, and its own rev-parse.
SwitchToBranch(h) ==
    /\ call[h].at = "branch" /\ ref["chat"] # NoCommit
    /\ head' = "chat"
    /\ call' = [call EXCEPT ![h].branch = "main", ![h].at = "resolve"]
    /\ UNCHANGED <<cloned, tracking, ref, dirt, staged>>

----------------------------------------------------------------------------
(* ensure_branch and apply_diff.                                           *)

\* git checkout -B: the branch starts again from what is checked out.
ForceBranch(h) ==
    /\ call[h].at = "force"
    /\ head' = call[h].branch
    /\ ref' = [ref EXCEPT ![call[h].branch] = ref[head]]
    /\ Goes(h, "patch")
    /\ UNCHANGED <<cloned, tracking, dirt, staged>>

\* git apply.
Patch(h) ==
    /\ call[h].at = "patch" /\ call[h].change \notin Files.changes
    /\ dirt' = dirt \cup {call[h].change}
    /\ Goes(h, "add")
    /\ UNCHANGED <<cloned, tracking, ref, head, staged>>

\* git add -A.
Add(h) ==
    /\ call[h].at = "add"
    /\ staged' = staged \cup dirt /\ dirt' = {}
    /\ Goes(h, "commit")
    /\ UNCHANGED <<cloned, tracking, ref, head>>

\* git commit, on the branch that is checked out by now.
CommitFiles(h) ==
    /\ call[h].at = "commit" /\ staged # {}
    /\ ref' = [ref EXCEPT ![head].changes = @ \cup staged]
    /\ staged' = {}
    /\ Goes(h, "save")
    /\ UNCHANGED <<cloned, tracking, head, dirt>>

GitStep(h) ==
    \/ LooksForGit(h) \/ Clone(h) \/ Fetch(h) \/ SwitchToMain(h) \/ Reset(h)
    \/ Pin(h) \/ Resolve(h) \/ SwitchToBranch(h)
    \/ ForceBranch(h) \/ Patch(h) \/ Add(h) \/ CommitFiles(h)

\* The row of the change, after the awaits.
Save(h) ==
    /\ call[h].at = "save"
    /\ change' = [change EXCEPT ![call[h].change] = "applied"]
    /\ call' = [call EXCEPT ![h] = NoCall]
    /\ UNCHANGED <<origin, hooks, git, lock, image, crashes>>

\* docker build: the tag names the commit, the files are those of the directory.
Build(h) ==
    /\ call[h].at = "build"
    /\ LET newest == call[h].op = "deploy" /\ call[h].pin = -1 IN
       image' = [tag |-> call[h].sha, files |-> Files, deployed |-> call[h].op = "deploy",
                 latest |-> IF newest THEN call[h].asked ELSE 0]
    /\ Ends(h)
    /\ UNCHANGED <<origin, hooks, git, change, crashes>>

\* A command that cannot do what it is asked, or fails for another reason.
Stuck(f) ==
    \/ f.at = "pin" /\ f.pin > tracking
    \/ f.at = "branch" /\ ref["chat"] = NoCommit
    \/ f.at = "patch" /\ f.change \in Files.changes
    \/ f.at = "commit" /\ staged = {}
Fails(h) ==
    /\ call[h].at \notin {"idle", "exists", "save"}
    /\ Stuck(call[h]) \/ "git" \in Faults
    /\ Ends(h)
    /\ UNCHANGED <<origin, hooks, git, image, change, crashes>>

\* The platform dies: the directory stays as it is.
Crash ==
    /\ crashes < MaxCrashes
    /\ crashes' = crashes + 1
    /\ hooks' = 0 /\ lock' = None
    /\ call' = [h \in Callers |-> NoCall]
    /\ UNCHANGED <<origin, git, image, change>>

CallStep(h) ==
    \/ GitStep(h) /\ UNCHANGED <<origin, hooks, lock, image, change, crashes>>
    \/ Save(h) \/ Build(h) \/ Fails(h)

Next ==
    \/ Push \/ Crash
    \/ \E h \in Callers : Webhook(h) \/ View(h) \/ CallStep(h)
    \/ \E h \in Callers, pin \in -1..origin : Deploy(h, pin)
    \/ \E h \in Callers, b \in {"main", "chat"} : Preview(h, b)
    \/ \E h \in Callers, c \in Changes, b \in Chat : Apply(h, c, b)
    \/ \E c \in Changes : Reject(c)

Spec == Init /\ [][Next]_vars

----------------------------------------------------------------------------
(* Properties.                                                             *)

\* An image holds the files of the commit its tag names, whatever a failed or
\* interrupted request left in the directory; the one exception are new files
\* of a change whose approval was interrupted, which no reset removes.
ImageIsItsCommit ==
    /\ image.files.base = image.tag.base
    /\ image.tag.changes \subseteq image.files.changes
    /\ image.files.changes \ image.tag.changes \subseteq New

\* Only pushed files are deployed, no change that was merely approved, and of
\* leftovers new files at most.
DeploysPushed == image.deployed => image.files.changes \subseteq New

\* A deployment that names no commit deploys all that was pushed before it was
\* asked for, and more when a push comes before its fetch.
DeploysLatest == image.latest <= image.files.base
=============================================================================
