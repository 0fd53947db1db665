------------------------------ MODULE Registry ------------------------------
(***************************************************************************)
(* Organisations, projects and their repositories: what the platform's     *)
(* tables say and what Gitea holds (services/gitea_sync.py, gitea.py,      *)
(* upload.py, self_deploy.py, api/orgs.py, api/projects.py).               *)
(*                                                                         *)
(* Handlers run in threads and interleave at every call to Gitea and every *)
(* commit; upload_project runs in the event loop, where it is interrupted  *)
(* only while it waits for bytes of the upload.                            *)
(***************************************************************************)
EXTENDS Naturals

CONSTANTS
    Orgs, Names,
    BadNames,       \* names NAME_RE refuses; only Gitea's own users make them
    SelfOrg, Console,   \* SELF_DEPLOY_ORG_NAME, SELF_CONSOLE_PROJECT_NAME
    Requests,       \* requests under way at a time
    Gitea, User,    \* authors of files that no upload brought
    None,
    Asked,          \* the names users ask for
    MaxEvents,      \* bound of the model: requests, edits, deployments, restarts
    MaxSyncs,       \* bound of the model: synchronisations
    Faults          \* of {"gitea", "raise", "clone", "reject"}

ASSUME RegistryAssumption ==
    /\ SelfOrg \in Orgs /\ Console \in Names \ BadNames /\ Asked \subseteq Names \ BadNames
    /\ None \notin Orgs \cup Names \cup Requests \cup {Gitea, User}
    /\ MaxEvents \in Nat /\ MaxSyncs \in Nat

VARIABLES
    org,            \* names in table organizations
    project,        \* [name -> its row in table projects, or None]
    unit,           \* projects with a container
    forge,          \* Gitea's organisations
    repo,           \* [organisation, name -> the repository's files, or None]
    dir,            \* [name -> work_dir/name, or None]
    req,            \* [request -> its frame]
    sync,           \* the frame of POST /orgs/sync
    late,           \* history: repositories made since the sync listed their organisation
    blind,          \* history: organisations the sync could not list
    gone,           \* history: repositories deleted in Gitea
    crossed,        \* history: names uploaded twice at once, once as a folder
    clean,          \* history: since the sync began nothing else happened, nothing failed
    events, syncs   \* bounds of the model

db == <<org, project, unit>>
git == <<forge, repo, late, gone>>
count == <<events, syncs>>
vars == <<db, git, dir, req, sync, blind, crossed, clean, count>>

Happens == events < MaxEvents /\ events' = events + 1 /\ UNCHANGED syncs

\* An uploaded tree has two files; the first is the signature file the type is
\* detected from.  Gitea's own first commit brings the other one only.
Files == {1, 2}
Content == [Files -> Requests \cup {Gitea, User, None}]
Empty == [f \in Files |-> None]
AutoInit == [Empty EXCEPT ![2] = Gitea]
Typed(content) == content[1] # None
WholeOf(r) == [f \in Files |-> r]
Repos == Orgs \X Names

\* direct: git_url was given, and is not the repository of the organisation.
Project == [org : Orgs \cup {None}, direct : BOOLEAN, by : Requests \cup {None}]
Workdir == [files : Content, origin : BOOLEAN]

Frame == [at : {"idle", "org", "orgrow", "receive", "repo", "push", "hook", "row"},
          kind : {"none", "org", "create", "zip", "folder"},
          org : Orgs \cup {None}, name : Names \cup {None}, file : Files]
NoCall == [at |-> "idle", kind |-> "none", org |-> None, name |-> None, file |-> 1]

\* todo: organisations of the pass that are left; names: existing_project_names;
\* seen: gitea_repo_names_by_org; left: repositories or projects of organisation
\* o that are left.
Sync == [at : {"idle", "next", "list", "import", "second", "fix", "erase", "done"},
         mode : {"create", "delete"}, o : Orgs \cup {None},
         todo : SUBSET Orgs, orgs : SUBSET Orgs, names : SUBSET Names,
         seen : [Orgs -> (SUBSET Names) \cup {None}], left : SUBSET Names]
NoSync == [at |-> "idle", mode |-> "create", o |-> None, todo |-> {}, orgs |-> {},
           names |-> {}, seen |-> [o \in Orgs |-> None], left |-> {}]

ASSUME NoneIsNoRecord == None \notin Project \cup Content \cup Workdir

\* bootstrap_console_deploy: the console as a project of SelfOrg with its own
\* git_url, if the setting says so and no project has its name.
Registered(on) == on /\ project[Console] = None
ConsoleRow == [org |-> SelfOrg, direct |-> TRUE, by |-> None]
NoProjects == [n \in Names |-> None]

Init ==
    /\ \/ org = {} /\ project = NoProjects
       \/ org = {SelfOrg} /\ project = [NoProjects EXCEPT ![Console] = ConsoleRow]
    /\ unit = {}
    /\ forge \in SUBSET {SelfOrg}
    /\ repo = [x \in Repos |-> None]
    /\ dir = [n \in Names |-> None]
    /\ req = [r \in Requests |-> NoCall]
    /\ sync = NoSync
    /\ late = {} /\ blind = {} /\ gone = {} /\ crossed = {} /\ clean = FALSE
    /\ events = 0 /\ syncs = 0

----------------------------------------------------------------------------
Goes(r, to) == req' = [req EXCEPT ![r].at = to]
Ends(r) == req' = [req EXCEPT ![r] = NoCall]
Uploads(r) == req[r].kind \in {"zip", "folder"}
Own(r) == <<req[r].org, req[r].name>>

\* A request is taken: whatever the sync does from here on is not alone.
Takes(r, frame) ==
    /\ req[r].at = "idle" /\ Happens
    /\ req' = [req EXCEPT ![r] = frame]
    /\ clean' = FALSE
    /\ UNCHANGED <<db, git, sync, blind>>
Continues == clean' = FALSE /\ UNCHANGED <<sync, blind, crossed, count>>

\* The event loop is free for upload r: no other upload is between two waits.
Loop(r) == \A q \in Requests \ {r} :
              Uploads(q) => req[q].at \in {"receive", "idle"}

\* ensure_repo: the repository of x exists afterwards, with content if it is new.
Ensured(x, content) ==
    /\ repo' = IF repo[x] = None THEN [repo EXCEPT ![x] = content] ELSE repo
    /\ late' = IF repo[x] = None THEN late \cup {x} ELSE late

----------------------------------------------------------------------------
(* Creating organisations and projects                                     *)

OrgRequest(r, o) ==
    /\ o \notin org
    /\ Takes(r, [NoCall EXCEPT !.at = "org", !.kind = "org", !.org = o])
    /\ UNCHANGED <<dir, crossed>>

\* ensure_org: 201 and 422 are the same.
EnsureOrg(r) ==
    /\ req[r].at = "org"
    /\ forge' = forge \cup {req[r].org}
    /\ Goes(r, "orgrow")
    /\ Continues /\ UNCHANGED <<db, repo, late, gone, dir>>

\* A row of that name, inserted since it was looked for, ends the request.
InsertOrg(r) ==
    /\ req[r].at = "orgrow"
    /\ org' = org \cup {req[r].org}
    /\ Ends(r)
    /\ Continues /\ UNCHANGED <<project, unit, git, dir>>

\* POST /projects, of an organisation or (org None) with a git_url.
CreateRequest(r, o, n) ==
    /\ project[n] = None /\ o \in org \cup {None}
    /\ Takes(r, [NoCall EXCEPT !.at = IF o = None THEN "row" ELSE "repo",
                               !.kind = "create", !.org = o, !.name = n])
    /\ UNCHANGED <<dir, crossed>>

\* POST /projects/upload empties work_dir/name; of a folder it opens the first
\* file before it waits.
UploadRequest(r, kind, o, n) ==
    /\ project[n] = None /\ o \in org /\ Loop(r)
    /\ Takes(r, [NoCall EXCEPT !.at = "receive", !.kind = kind, !.org = o, !.name = n])
    /\ dir' = [dir EXCEPT ![n] = IF kind = "zip" THEN None
                  ELSE [files |-> [Empty EXCEPT ![1] = r], origin |-> FALSE]]
    /\ crossed' = IF \E q \in Requests : /\ req[q].at = "receive" /\ req[q].name = n
                                         /\ "folder" \in {kind, req[q].kind}
                  THEN crossed \cup {n} ELSE crossed

Staged(r, files) ==
    LET old == dir[req[r].name] IN
    dir' = [dir EXCEPT ![req[r].name] =
               [files |-> [f \in Files |-> IF f \in files THEN r
                                           ELSE IF old = None THEN None ELSE old.files[f]],
                origin |-> old # None /\ old.origin]]

\* The zip is read and unpacked, or the folder's next file is opened.
Receive(r) ==
    /\ req[r].at = "receive" /\ Loop(r)
    /\ \/ req[r].kind = "zip" /\ Staged(r, Files) /\ Goes(r, "repo")
       \/ /\ req[r].kind = "folder" /\ req[r].file = 1
          /\ Staged(r, {2})
          /\ req' = [req EXCEPT ![r].file = 2]
       \/ req[r].kind = "folder" /\ req[r].file = 2 /\ Goes(r, "repo") /\ UNCHANGED dir
    /\ Continues /\ UNCHANGED <<db, git>>

\* What an upload leaves when it ends early: an empty work_dir/name.
Abandons(r) ==
    /\ Ends(r)
    /\ dir' = IF Uploads(r) THEN [dir EXCEPT ![req[r].name] = None] ELSE dir
    /\ Continues /\ UNCHANGED <<db, git>>

\* UploadRejected: too many files or bytes, an unsafe path.
Reject(r) == "reject" \in Faults /\ req[r].at = "receive" /\ Loop(r) /\ Abandons(r)

EnsureRepo(r) ==
    /\ req[r].at = "repo" /\ req[r].org \in forge
    /\ Ensured(Own(r), IF Uploads(r) THEN Empty ELSE AutoInit)
    /\ Goes(r, IF Uploads(r) THEN "push" ELSE "hook")
    /\ Continues /\ UNCHANGED <<db, forge, gone, dir>>

\* Mutant: the failure is passed over, as that of the webhook is.
GiteaPasses(r) ==
    /\ req[r].at = "repo" /\ (req[r].org \notin forge \/ "gitea" \in Faults)
    /\ Goes(r, "row")
    /\ Continues /\ UNCHANGED <<db, git, dir>>

\* Gitea refuses or is not reached; an organisation it does not have is refused.
GiteaFails(r) ==
    /\ \/ req[r].at = "repo" /\ (req[r].org \notin forge \/ "gitea" \in Faults)
       \/ req[r].at = "org" /\ "gitea" \in Faults
    /\ Abandons(r)

\* init_repo_and_push: a remote that is there already, or commits the
\* repository has already, make git fail.
Pushable(r) ==
    /\ dir[req[r].name] # None /\ ~dir[req[r].name].origin
    /\ repo[Own(r)] = Empty

Pushes(r) ==
    /\ repo' = [repo EXCEPT ![Own(r)] = dir[req[r].name].files]
    /\ dir' = [dir EXCEPT ![req[r].name].origin = TRUE]
    /\ Goes(r, "hook")
    /\ Continues /\ UNCHANGED <<db, forge, late, gone>>

\* Mutant: the push is forced.
PushForced(r) == req[r].at = "push" /\ dir[req[r].name] # None /\ Pushes(r)
Push(r) == req[r].at = "push" /\ Pushable(r) /\ Pushes(r)

PushFails(r) ==
    /\ req[r].at = "push" /\ (~Pushable(r) \/ "gitea" \in Faults)
    /\ Abandons(r)

\* ensure_webhook: its GiteaError is passed over, any other exception is not.
Hook(r) ==
    /\ req[r].at = "hook"
    /\ Goes(r, "row")
    /\ Continues /\ UNCHANGED <<db, git, dir>>

HookRaises(r) == "raise" \in Faults /\ req[r].at = "hook" /\ Abandons(r)

\* The row; one of that name, inserted since it was looked for, ends the request.
Insert(r) ==
    /\ req[r].at = "row"
    /\ project' = IF project[req[r].name] # None THEN project
                  ELSE [project EXCEPT ![req[r].name] =
                           [org |-> req[r].org, direct |-> req[r].org = None,
                            by |-> IF Uploads(r) THEN r ELSE None]]
    /\ Ends(r)
    /\ Continues /\ UNCHANGED <<org, unit, git, dir>>

----------------------------------------------------------------------------
(* sync_from_gitea                                                         *)

Alone == UNCHANGED <<dir, req, crossed, count>>
SyncAborts == sync' = [sync EXCEPT !.at = "idle"] /\ UNCHANGED <<db, git, blind>>

\* The names the platform knows, and Gitea's organisations.
SyncBegin(mode) ==
    /\ sync.at \in {"idle", "done"} /\ syncs < MaxSyncs
    /\ syncs' = syncs + 1
    /\ sync' = [NoSync EXCEPT !.at = "next", !.mode = mode, !.todo = forge, !.orgs = org,
                              !.names = {n \in Names : project[n] # None}]
    /\ late' = {} /\ blind' = {}
    /\ clean' = \A r \in Requests : req[r].at = "idle"
    /\ UNCHANGED <<db, forge, repo, gone, dir, req, crossed, events>>

\* An organisation of Gitea gets its row.
SyncOrg(o) ==
    /\ sync.at = "next" /\ o \in sync.todo
    /\ o \notin org \/ o \in sync.orgs
    /\ org' = org \cup {o}
    /\ sync' = [sync EXCEPT !.at = "list", !.o = o, !.todo = @ \ {o}]
    /\ Alone /\ UNCHANGED <<project, unit, git, blind, clean>>

InForge(o) == {n \in Names : repo[<<o, n>>] # None}
Lists(o, found) ==
    /\ sync' = [sync EXCEPT !.seen[o] = found,
                            !.left = found \ (BadNames \cup sync.names),
                            !.at = IF @ = "list" THEN "import" ELSE @]
    /\ late' = late \ ({o} \X Names)
    /\ UNCHANGED <<db, forge, repo, gone, blind>>

\* Mutant: the first page only.
ListedFirst(o) == Lists(o, {n \in InForge(o) : n = CHOOSE m \in InForge(o) : TRUE})
\* The repositories of organisation o, all pages.
Listed(o) == Lists(o, InForge(o))

SyncList == sync.at = "list" /\ Listed(sync.o) /\ Alone /\ UNCHANGED clean

\* A repository nobody knows: cloned, its type detected, its row inserted.
Importable(n) == repo[<<sync.o, n>>] # None /\ Typed(repo[<<sync.o, n>>])

SyncImport(n) ==
    /\ sync.at = "import" /\ n \in sync.left
    /\ Importable(n) /\ project[n] = None
    /\ project' = [project EXCEPT ![n] = [org |-> sync.o, direct |-> FALSE, by |-> None]]
    /\ sync' = [sync EXCEPT !.left = @ \ {n}, !.names = @ \cup {n}]
    /\ Alone /\ UNCHANGED <<org, unit, git, blind, clean>>

\* It cannot be cloned, or has no signature file.
SyncSkip(n) ==
    /\ sync.at = "import" /\ n \in sync.left
    /\ ~Importable(n) \/ "clone" \in Faults
    /\ sync' = [sync EXCEPT !.left = @ \ {n}]
    /\ clean' = (clean /\ ~Importable(n))
    /\ Alone /\ UNCHANGED <<db, git, blind>>

\* A row inserted meanwhile, or Gitea, ends the whole synchronisation.
SyncRaises ==
    /\ \/ sync.at = "next" /\ \E o \in sync.todo : o \in org \ sync.orgs
       \/ sync.at = "list" /\ "gitea" \in Faults
       \/ sync.at = "import" /\ \E n \in sync.left : Importable(n) /\ project[n] # None
       \/ /\ sync.at = "fix" /\ sync.mode = "create" /\ sync.left # {}
          /\ sync.o \notin forge \/ "gitea" \in Faults
    /\ SyncAborts /\ Alone /\ UNCHANGED clean

\* From the repositories of one organisation to the next, to the second pass
\* over the platform's own organisations, and to its end.
SyncNext ==
    /\ \/ /\ sync.at = "import" /\ sync.left = {}
          /\ sync' = [sync EXCEPT !.at = "next"]
       \/ /\ sync.at = "next" /\ sync.todo = {}
          /\ sync' = [sync EXCEPT !.at = "second", !.todo = org]
       \/ /\ sync.at = "fix" /\ sync.left = {}
          /\ sync' = [sync EXCEPT !.at = "second"]
       \/ /\ sync.at = "second" /\ sync.todo = {}
          /\ sync' = [sync EXCEPT !.at = "done"]
    /\ Alone /\ UNCHANGED <<db, git, blind, clean>>

\* An organisation Gitea did not list is looked at by itself.
SyncLooks(o) ==
    /\ sync.at = "second" /\ o \in sync.todo /\ sync.seen[o] = None
    /\ Listed(o)
    /\ Alone /\ UNCHANGED clean

\* Any GiteaError counts as an organisation without repositories.
SyncBlind(o) ==
    /\ sync.at = "second" /\ o \in sync.todo /\ sync.seen[o] = None
    /\ "gitea" \in Faults
    /\ sync' = [sync EXCEPT !.seen[o] = {}]
    /\ blind' = blind \cup {o}
    /\ clean' = FALSE
    /\ Alone /\ UNCHANGED <<db, git>>

Compares(o, found) ==
    /\ sync.at = "second" /\ o \in sync.todo /\ sync.seen[o] # None
    /\ sync' = [sync EXCEPT !.at = "fix", !.o = o, !.todo = @ \ {o},
                    !.left = {n \in Names \ found : project[n] # None /\ project[n].org = o}]
    /\ Alone /\ UNCHANGED <<db, git, blind, clean>>

\* Mutant: a repository of the name in any organisation will do.
ComparesAll(o) == Compares(o, UNION {sync.seen[p] : p \in {q \in Orgs : sync.seen[q] # None}})
\* The organisation's projects whose repository was not seen.
SyncCompares(o) == Compares(o, sync.seen[o])

\* _delete_project stops the containers, then removes the rows.
SyncStops ==
    /\ sync.at = "fix" /\ sync.mode = "delete" /\ sync.left # {}
    /\ sync' = [sync EXCEPT !.at = "erase"]
    /\ unit' = unit \ {CHOOSE n \in sync.left : TRUE}
    /\ Alone /\ UNCHANGED <<org, project, git, blind, clean>>

SyncErases ==
    /\ sync.at = "erase"
    /\ LET n == CHOOSE m \in sync.left : TRUE IN
          /\ project' = [project EXCEPT ![n] = None]
          /\ sync' = [sync EXCEPT !.at = "fix", !.left = @ \ {n}]
    /\ Alone /\ UNCHANGED <<org, unit, git, blind, clean>>

\* The repository is made again and becomes the project's git_url.
SyncRestores(n) ==
    /\ sync.at = "fix" /\ sync.mode = "create" /\ n \in sync.left
    /\ sync.o \in forge
    /\ Ensured(<<sync.o, n>>, AutoInit)
    /\ project' = [project EXCEPT ![n].direct = FALSE]
    /\ sync' = [sync EXCEPT !.left = @ \ {n}]
    /\ Alone /\ UNCHANGED <<org, unit, forge, gone, blind, clean>>

----------------------------------------------------------------------------
(* Around the platform                                                     *)

\* Somebody works in Gitea itself.
Edits ==
    /\ Happens
    /\ clean' = FALSE
    /\ UNCHANGED <<db, dir, req, sync, blind, crossed>>
MakesOrg(o) == o \notin forge /\ forge' = forge \cup {o} /\ Edits
                  /\ UNCHANGED <<repo, late, gone>>
MakesRepo(o, n, content) ==
    /\ o \in forge /\ repo[<<o, n>>] = None
    /\ Ensured(<<o, n>>, content)
    /\ Edits /\ UNCHANGED <<forge, gone>>
DropsRepo(o, n) ==
    /\ repo[<<o, n>>] # None
    /\ repo' = [repo EXCEPT ![<<o, n>>] = None]
    /\ gone' = gone \cup {<<o, n>>} /\ late' = late \ {<<o, n>>}
    /\ Edits /\ UNCHANGED forge

\* A deployment of a registered project (Deployer).
Deployed(n) ==
    /\ project[n] # None /\ n \notin unit
    /\ unit' = unit \cup {n}
    /\ Happens /\ clean' = FALSE
    /\ UNCHANGED <<org, project, git, dir, req, sync, blind, crossed>>

\* The platform restarts, and registers its console if it is told to.
Restart(on) ==
    /\ Happens
    /\ req' = [r \in Requests |-> NoCall]
    /\ sync' = NoSync
    /\ clean' = FALSE
    /\ org' = IF Registered(on) THEN org \cup {SelfOrg} ELSE org
    /\ project' = IF Registered(on) THEN [project EXCEPT ![Console] = ConsoleRow] ELSE project
    /\ UNCHANGED <<unit, git, dir, blind, crossed>>

RequestStep(r) ==
    \/ EnsureOrg(r) \/ InsertOrg(r) \/ Receive(r) \/ Reject(r)
    \/ EnsureRepo(r) \/ GiteaFails(r) \/ Push(r) \/ PushFails(r)
    \/ Hook(r) \/ HookRaises(r) \/ Insert(r)

SyncStep ==
    \/ \E o \in Orgs : SyncOrg(o) \/ SyncLooks(o) \/ SyncBlind(o) \/ SyncCompares(o)
    \/ \E n \in Names : SyncImport(n) \/ SyncSkip(n) \/ SyncRestores(n)
    \/ SyncList \/ SyncRaises \/ SyncNext \/ SyncStops \/ SyncErases

Next ==
    \/ \E r \in Requests, o \in Orgs : OrgRequest(r, o)
    \/ \E r \in Requests, o \in Orgs \cup {None}, n \in Asked : CreateRequest(r, o, n)
    \/ \E r \in Requests, kind \in {"zip", "folder"}, o \in Orgs, n \in Asked :
          UploadRequest(r, kind, o, n)
    \/ \E r \in Requests : RequestStep(r)
    \/ \E mode \in {"create", "delete"} : SyncBegin(mode)
    \/ SyncStep
    \/ \E o \in Orgs : MakesOrg(o)
    \/ \E o \in Orgs, n \in Names : DropsRepo(o, n)
    \/ \E o \in Orgs, n \in Names, c \in {Empty, WholeOf(User)} : MakesRepo(o, n, c)
    \/ \E n \in Names : Deployed(n)
    \/ \E on \in BOOLEAN : Restart(on)

Spec == Init /\ [][Next]_vars

----------------------------------------------------------------------------
(* Properties.                                                             *)

\* A synchronisation nobody interferes with makes the two sides agree: the
\* organisations of Gitea are the platform's, a project of an organisation has
\* its repository there, a repository whose type can be told has a project
\* (one that lost its name to a project this synchronisation deleted waits for
\* the next), and no container outlives a project this synchronisation deleted.
Converged ==
    sync.at = "done" /\ clean =>
        /\ forge \subseteq org
        /\ \A n \in unit \cap sync.names : project[n] # None
        /\ \A n \in Names : project[n] # None /\ project[n].org # None
                               => repo[<<project[n].org, n>>] # None
        /\ \A o \in Orgs, n \in Names \ BadNames :
              repo[<<o, n>>] # None /\ Typed(repo[<<o, n>>]) =>
                  project[n] # None \/ (sync.mode = "delete" /\ n \in sync.names)

\* Whatever happens beside it, a synchronisation deletes a project only when
\* Gitea does not hold its repository, but for two cases: the repository was
\* made after its organisation was listed, or the organisation could not be
\* listed.
DeletesOnlyMissing ==
    [][\A n \in Names : project[n] # None /\ project'[n] = None =>
          \/ repo[<<project[n].org, n>>] = None
          \/ <<project[n].org, n>> \in late
          \/ project[n].org \in blind]_vars

\* A project of an organisation has a repository, whatever failed while it was
\* registered and whoever registered it, unless the repository was deleted in
\* Gitea.  (The console has an address of its own.)
HasRepository ==
    \A n \in Names : LET p == project[n] IN
        p # None /\ p.org # None /\ ~p.direct =>
            repo[<<p.org, n>>] # None \/ <<p.org, n>> \in gone

\* The repository of an uploaded project holds that upload's files, all of them
\* and no others, whatever other uploads of the name were tried before or
\* meanwhile, if none of those under way at once is of a folder.
UploadedWhole ==
    \A n \in Names : LET p == project[n] IN
        p # None /\ p.by # None /\ n \notin crossed =>
            repo[<<p.org, n>>] = WholeOf(p.by) \/ <<p.org, n>> \in gone
=============================================================================
