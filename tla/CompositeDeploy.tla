--------------------------- MODULE CompositeDeploy ---------------------------
(***************************************************************************)
(* The deployment pipeline of one composite project in one build profile   *)
(* (services/deployer.py: deploy_composite_sync, _restore_component,       *)
(* deploy_composite_queued, rollback_composite).                           *)
(*                                                                         *)
(* A composite project has two components, backend and frontend, each with *)
(* its own container; the proxy routes /api/ to one and / to the other.    *)
(* An attempt, deployment or rollback, makes one row per component, which  *)
(* share a group.  A start of a container is one step here: DockerRuntime  *)
(* looks inside.                                                           *)
(***************************************************************************)
EXTENDS Integers, FiniteSets

CONSTANTS
    Callers,        \* threads of the control plane
    Images,         \* commits
    NoImage,        \* the empty image_tag
    None,           \* a lock nobody holds
    PortEnd,        \* host ports are 1..PortEnd
    MaxAttempts,    \* bound of the model: deployments and rollbacks ever made
    MaxCrashes,     \* bound of the model: times the control plane dies
    Ops,            \* what the users and the environment do in this instance
    Breaks          \* the components whose build or start may fail

Components == {"backend", "frontend"}

ASSUME CompositeAssumption ==
    /\ NoImage \notin Images
    /\ None \notin Callers
    /\ PortEnd \in Nat /\ MaxAttempts \in Nat /\ MaxCrashes \in Nat
    /\ Breaks \subseteq Components

VARIABLES
    lock,           \* _locks[project.id]: caller or None
    row,            \* [attempt -> [component -> row of table deployments]]
    made,           \* attempts whose rows were inserted
    live,           \* [component -> its container]
    route,          \* [component -> port the proxy sends its path to, or 0]
    job,            \* [caller -> the frame of its pipeline]
    proven,         \* history: <<component, image>> that passed a health check
    issued,         \* bound of the model: requests made
    crashes

vars == <<lock, row, made, live, route, job, proven, issued, crashes>>

Attempts == 1..MaxAttempts
Ports == 1..PortEnd

Row == [status : {"none", "building", "running", "failed", "stopped"},
        image : Images \cup {NoImage}]
Blank == [status |-> "none", image |-> NoImage]

Container == [port : Ports \cup {0}, image : Images \cup {NoImage}]
NoContainer == [port |-> 0, image |-> NoImage]

\* on: the component the loop is at; endpoints: the ports of the containers
\* started; failed: failed_component; target: the attempt whose row
\* _restore_component went back to, or the group rollback_composite selected;
\* flip: the restored row was stopped when it was read, so that running is
\* written with the next commit.
Job == [at : {"idle", "lock", "checkout", "build", "start", "restore", "finish",
              "commit", "settle", "unlock", "rstart", "rproxy", "rinsert", "rmark",
              "rmark2"},
        on : Components, image : Images \cup {NoImage}, rec : Attempts \cup {0},
        endpoints : [Components -> Ports \cup {0}],
        failed : Components \cup {"none"},
        target : Attempts \cup {0}, flip : BOOLEAN]
NoJob == [at |-> "idle", on |-> "backend", image |-> NoImage, rec |-> 0,
          endpoints |-> [c \in Components |-> 0], failed |-> "none",
          target |-> 0, flip |-> FALSE]

TypeOK ==
    /\ lock \in Callers \cup {None}
    /\ row \in [Attempts -> [Components -> Row]]
    /\ made \in 0..MaxAttempts
    /\ live \in [Components -> Container]
    /\ route \in [Components -> Ports \cup {0}]
    /\ job \in [Callers -> Job]
    /\ proven \subseteq Components \X Images
    /\ issued \in 0..MaxAttempts
    /\ crashes \in 0..MaxCrashes

Init ==
    /\ lock = None
    /\ row = [a \in Attempts |-> [c \in Components |-> Blank]]
    /\ made = 0
    /\ live = [c \in Components |-> NoContainer]
    /\ route = [c \in Components |-> 0]
    /\ job = [h \in Callers |-> NoJob]
    /\ proven = {}
    /\ issued = 0
    /\ crashes = 0

----------------------------------------------------------------------------
Other(c) == IF c = "backend" THEN "frontend" ELSE "backend"
Goes(h, to) == job' = [job EXCEPT ![h].at = to]

\* allocate_port(): the first port nobody listens on.
FreePort(p) ==
    /\ \A c \in Components : live[c].port # p
    /\ \A q \in Ports : q < p => \E c \in Components : live[c].port = q

\* A start() of component c that passes its check: the new container on a
\* free port, the old one gone.
Starts(c, i, p) ==
    /\ FreePort(p)
    /\ live' = [live EXCEPT ![c] = [port |-> p, image |-> i]]
    /\ proven' = proven \cup {<<c, i>>}

\* The rows of a new attempt, both inserted by one commit.
InsertRows(status, images) ==
    /\ made < MaxAttempts
    /\ made' = made + 1
    /\ row' = [row EXCEPT ![made + 1] =
                   [c \in Components |-> [status |-> status, image |-> images[c]]]]

\* _mark_previous_stopped(row of attempt a, component c), and what the same
\* transaction wrote before it.
Marked(rows, a, c) ==
    [b \in Attempts |-> IF b # a /\ rows[b][c].status = "running"
                        THEN [rows[b] EXCEPT ![c].status = "stopped"] ELSE rows[b]]

\* The rows _restore_component chooses among.
ReleasedAttempts(c) == {a \in Attempts : /\ row[a][c].status \in {"stopped", "running"}
                                         /\ row[a][c].image # NoImage}

----------------------------------------------------------------------------
(* deploy_composite_sync                                                   *)

\* A webhook or POST /deploy runs the pipeline in a thread.
DeployRequest(h) ==
    /\ "deploy" \in Ops /\ issued < MaxAttempts
    /\ job[h].at = "idle"
    /\ issued' = issued + 1
    /\ job' = [job EXCEPT ![h] = [NoJob EXCEPT !.at = "lock"]]
    /\ UNCHANGED <<lock, row, made, live, route, proven, crashes>>

\* deploy_composite_queued: the rows come first; a worker calls the pipeline.
QueueRequest(h) ==
    /\ "queue" \in Ops /\ issued < MaxAttempts
    /\ job[h].at = "idle"
    /\ issued' = issued + 1
    /\ InsertRows("building", [c \in Components |-> NoImage])
    /\ job' = [job EXCEPT ![h] = [NoJob EXCEPT !.at = "lock", !.rec = made + 1]]
    /\ UNCHANGED <<lock, live, route, proven, crashes>>

\* lock.acquire(blocking=False): taken, or refused with the rows closed.
Acquire(h) ==
    /\ job[h].at = "lock" /\ lock = None
    /\ lock' = h
    /\ Goes(h, "checkout")
    /\ UNCHANGED <<row, made, live, route, proven, issued, crashes>>

Busy(h) ==
    /\ job[h].at = "lock" /\ lock # None
    /\ row' = IF job[h].rec = 0 THEN row
              ELSE [row EXCEPT ![job[h].rec] =
                        [c \in Components |-> [@[c] EXCEPT !.status = "failed"]]]
    /\ job' = [job EXCEPT ![h] = NoJob]
    /\ UNCHANGED <<lock, made, live, route, proven, issued, crashes>>

\* The commit is known; a pipeline without queued rows makes its own.
Checkout(h, i) ==
    /\ job[h].at = "checkout"
    /\ IF job[h].rec = 0
       THEN /\ InsertRows("building", [c \in Components |-> NoImage])
            /\ job' = [job EXCEPT ![h].at = "build", ![h].image = i, ![h].rec = made + 1]
       ELSE /\ job' = [job EXCEPT ![h].at = "build", ![h].image = i]
            /\ UNCHANGED <<row, made>>
    /\ UNCHANGED <<lock, live, route, proven, issued, crashes>>

\* An exception nothing in the pipeline handles: checkout, a project without
\* the two folders, a docker APIError, a restore that cannot start, a proxy
\* that cannot be configured.  Rows stay as they are.
Escape(h) ==
    /\ "escape" \in Ops
    /\ job[h].at \in {"checkout", "build", "start", "restore", "finish"}
    /\ Goes(h, "unlock")
    /\ UNCHANGED <<lock, row, made, live, route, proven, issued, crashes>>

\* The component's image is built and its row names it.
Build(h) ==
    /\ job[h].at = "build"
    /\ row' = [row EXCEPT ![job[h].rec][job[h].on].image = job[h].image]
    /\ Goes(h, "start")
    /\ UNCHANGED <<lock, made, live, route, proven, issued, crashes>>

\* The container runs; the loop goes on to the frontend, or is done.
Start(h) ==
    /\ job[h].at = "start"
    /\ \E p \in Ports :
          /\ Starts(job[h].on, job[h].image, p)
          /\ job' = [job EXCEPT
                ![h].endpoints[job[h].on] = p,
                ![h].at = IF job[h].on = "backend" THEN "build" ELSE "finish",
                ![h].on = "frontend"]
    /\ UNCHANGED <<lock, row, made, route, issued, crashes>>

\* BuildError or RuntimeError: the component's row is closed, the loop ends.
ComponentFails(h) ==
    /\ job[h].at \in {"build", "start"} /\ job[h].on \in Breaks
    /\ row' = [row EXCEPT ![job[h].rec][job[h].on].status = "failed"]
    /\ job' = [job EXCEPT ![h].at = "restore", ![h].failed = job[h].on]
    /\ UNCHANGED <<lock, made, live, route, proven, issued, crashes>>

\* _restore_component goes back to attempt t for the failed component.
RestoreFrom(h, t) ==
    LET c == job[h].failed IN
    /\ \E p \in Ports :
            /\ Starts(c, row[t][c].image, p)
            /\ job' = [job EXCEPT ![h].at = "finish", ![h].target = t,
                                  ![h].flip = row[t][c].status = "stopped",
                                  ![h].endpoints[c] = p]
    /\ UNCHANGED <<lock, row, made, route, issued, crashes>>

\* Mutant: the rows are read oldest first.
RestoreOldest(h) ==
    /\ job[h].at = "restore"
    /\ \E t \in ReleasedAttempts(job[h].failed) :
          /\ \A a \in ReleasedAttempts(job[h].failed) : t <= a
          /\ RestoreFrom(h, t)

\* The newest released image of the component is started; its row becomes
\* running with the next commit.
Restore(h) ==
    /\ job[h].at = "restore"
    /\ \E t \in ReleasedAttempts(job[h].failed) :
          /\ \A a \in ReleasedAttempts(job[h].failed) : a <= t
          /\ RestoreFrom(h, t)

\* NoRollbackTarget is passed over.
NothingToRestore(h) ==
    /\ job[h].at = "restore"
    /\ ReleasedAttempts(job[h].failed) = {}
    /\ Goes(h, "finish")
    /\ UNCHANGED <<lock, row, made, live, route, proven, issued, crashes>>

Complete(h) == \A c \in Components : job[h].endpoints[c] # 0

\* Mutant: the component that was restored keeps its route.
ConfigureBuilt(h) ==
    /\ job[h].at = "finish" /\ Complete(h)
    /\ route' = [c \in Components |-> IF c = job[h].failed THEN route[c]
                                      ELSE job[h].endpoints[c]]
    /\ job' = [job EXCEPT ![h].at = "commit", ![h].on = "backend"]
    /\ UNCHANGED <<lock, row, made, live, proven, issued, crashes>>

\* Both endpoints: configure_paths, once.
Configure(h) ==
    /\ job[h].at = "finish" /\ Complete(h)
    /\ route' = job[h].endpoints
    /\ job' = [job EXCEPT ![h].at = "commit", ![h].on = "backend"]
    /\ UNCHANGED <<lock, row, made, live, proven, issued, crashes>>

\* The row _restore_component changed, written by whichever commit comes first.
Restored(h) == IF ~job[h].flip THEN row
               ELSE [row EXCEPT ![job[h].target][job[h].failed].status = "running"]

\* One commit for a component that did not fail.
Commits(h, rows) ==
    /\ job[h].at = "commit"
    /\ row' = rows
    /\ job' = [job EXCEPT ![h].on = "frontend", ![h].flip = @ /\ job[h].on = job[h].failed,
                          ![h].at = IF job[h].on = "backend" THEN "commit" ELSE "settle"]
    /\ UNCHANGED <<lock, made, live, route, proven, issued, crashes>>

\* The rows with the component's own one running.
Released(h) == [Restored(h) EXCEPT ![job[h].rec][job[h].on].status = "running"]

\* Mutant: the failed component is not skipped.
CommitAll(h) == Commits(h, Marked(Released(h), job[h].rec, job[h].on))
\* Its row runs, the others of the component are stopped.
Commit(h) == Commits(h, IF job[h].on = job[h].failed THEN row
                        ELSE Marked(Released(h), job[h].rec, job[h].on))

\* Mutant: the rows the restored one supersedes are forgotten.
SettleForgets(h) ==
    /\ job[h].at = "settle"
    /\ row' = Restored(h)
    /\ Goes(h, "unlock")
    /\ UNCHANGED <<lock, made, live, route, proven, issued, crashes>>

\* The restored row supersedes the others of its component.
Settle(h) ==
    /\ job[h].at = "settle"
    /\ row' = IF job[h].target = 0 THEN row
              ELSE Marked(Restored(h), job[h].target, job[h].failed)
    /\ Goes(h, "unlock")
    /\ UNCHANGED <<lock, made, live, route, proven, issued, crashes>>

\* An endpoint is missing: the proxy is left alone, what is building fails.
GiveUp(h) ==
    /\ job[h].at = "finish" /\ ~Complete(h)
    /\ row' = [Restored(h) EXCEPT ![job[h].rec] =
                   [c \in Components |-> IF @[c].status = "building"
                                         THEN [@[c] EXCEPT !.status = "failed"] ELSE @[c]]]
    /\ Goes(h, "unlock")
    /\ UNCHANGED <<lock, made, live, route, proven, issued, crashes>>

\* The finally of the pipeline.
Unlock(h) ==
    /\ job[h].at = "unlock"
    /\ lock' = None
    /\ job' = [job EXCEPT ![h] = NoJob]
    /\ UNCHANGED <<row, made, live, route, proven, issued, crashes>>

----------------------------------------------------------------------------
(* rollback_composite, which takes no lock.                                *)

\* The groups with an image for both components, whatever became of them.
Groups == {a \in Attempts : \A c \in Components : row[a][c].image # NoImage}
\* The newest of them both of whose rows run.
CurrentGroup == {a \in Groups : /\ \A c \in Components : row[a][c].status = "running"
                                /\ \A b \in Groups : b > a =>
                                      \E c \in Components : row[b][c].status # "running"}
GroupTargets == Groups \ CurrentGroup

\* t is the newest complete group but the current one; c the component that
\* comes first.
RollbackRequest(h, t, c) ==
    /\ "rollback" \in Ops /\ issued < MaxAttempts
    /\ job[h].at = "idle"
    /\ issued' = issued + 1
    /\ t \in GroupTargets /\ \A a \in GroupTargets : a <= t
    /\ \E g \in IF CurrentGroup = {} THEN {0} ELSE CurrentGroup :
          job' = [job EXCEPT ![h] = [NoJob EXCEPT
                !.at = "rstart", !.on = c, !.target = t]]
    /\ UNCHANGED <<lock, row, made, live, route, proven, crashes>>

\* Of the two components, in either order: the rows are walked newest id first,
\* and which of the two is newer depends on how the group was made.
RollbackStart(h) ==
    /\ job[h].at = "rstart"
    /\ \E p \in Ports :
          /\ Starts(job[h].on, row[job[h].target][job[h].on].image, p)
          /\ job' = [job EXCEPT ![h] = [job[h] EXCEPT
                !.endpoints[job[h].on] = p,
                !.at = IF job[h].endpoints[Other(job[h].on)] = 0
                       THEN "rstart" ELSE "rproxy",
                !.on = Other(job[h].on)]]
    /\ UNCHANGED <<lock, row, made, route, issued, crashes>>

\* configure_paths for both, before any row exists.
RollbackConfigure(h) ==
    /\ job[h].at = "rproxy"
    /\ route' = job[h].endpoints
    /\ Goes(h, "rinsert")
    /\ UNCHANGED <<lock, row, made, live, proven, issued, crashes>>

\* A start or the proxy raises; nothing is recorded.
RollbackFails(h) ==
    /\ "escape" \in Ops
    /\ job[h].at \in {"rstart", "rproxy"}
    /\ job' = [job EXCEPT ![h] = NoJob]
    /\ UNCHANGED <<lock, row, made, live, route, proven, issued, crashes>>

\* The rows of the new group, running from the start.
RollbackInsert(h) ==
    /\ job[h].at = "rinsert"
    /\ InsertRows("running", [c \in Components |-> row[job[h].target][c].image])
    /\ job' = [job EXCEPT ![h].at = "rmark", ![h].rec = made + 1]
    /\ UNCHANGED <<lock, live, route, proven, issued, crashes>>

\* _mark_previous_stopped commits once for each of the two.
RollbackMark(h) ==
    /\ job[h].at \in {"rmark", "rmark2"}
    /\ row' = Marked(row, job[h].rec, job[h].on)
    /\ job' = [job EXCEPT ![h] = IF job[h].at = "rmark2" THEN NoJob
                                 ELSE [job[h] EXCEPT !.at = "rmark2", !.on = Other(job[h].on)]]
    /\ UNCHANGED <<lock, made, live, route, proven, issued, crashes>>

----------------------------------------------------------------------------

\* POST /stop removes the container of one component, then of the other.
StopRequest(c) ==
    /\ "stop" \in Ops
    /\ live[c].port # 0
    /\ live' = [live EXCEPT ![c] = NoContainer]
    /\ UNCHANGED <<lock, row, made, route, job, proven, issued, crashes>>

Restart ==
    /\ crashes < MaxCrashes
    /\ crashes' = crashes + 1
    /\ lock' = None
    /\ job' = [h \in Callers |-> NoJob]
    /\ UNCHANGED <<row, made, live, route, proven, issued>>

JobStep(h) ==
    \/ Acquire(h) \/ Busy(h)
    \/ (\E i \in Images : Checkout(h, i)) \/ Escape(h)
    \/ Build(h) \/ Start(h) \/ ComponentFails(h)
    \/ Restore(h) \/ NothingToRestore(h)
    \/ Configure(h) \/ Commit(h) \/ Settle(h) \/ GiveUp(h) \/ Unlock(h)
    \/ RollbackStart(h) \/ RollbackConfigure(h) \/ RollbackFails(h)
    \/ RollbackInsert(h) \/ RollbackMark(h)

Next ==
    \/ \E h \in Callers : DeployRequest(h) \/ QueueRequest(h)
    \/ \E h \in Callers, t \in Attempts, c \in Components : RollbackRequest(h, t, c)
    \/ \E h \in Callers : JobStep(h)
    \/ \E c \in Components : StopRequest(c)
    \/ Restart

Spec == Init /\ [][Next]_vars

----------------------------------------------------------------------------
(* Properties.                                                             *)

\* No pipeline holds anything: nothing runs, or what runs waits for the lock.
Quiet == \A h \in Callers : job[h].at \in {"idle", "lock"}

\* When the pipelines are done, both paths lead to the container of their
\* component: what a deployment or a partial failure leaves behind serves.
RouteServes ==
    Quiet => \A c \in Components : route[c] # 0 => route[c] = live[c].port

\* A row that says it runs or ran, so every row _restore_component goes back
\* to, holds an image that passed its health check as that component, however
\* the deployments of the two components failed and were restored.
ReleasedProven ==
    \A a \in Attempts, c \in Components :
        a \in ReleasedAttempts(c) => <<c, row[a][c].image>> \in proven

\* When the pipelines are done, at most one row of a component runs, also after
\* deployments that finished in another order than their rows were made in,
\* partial failures and restores.
RunningOnce ==
    Quiet => \A c \in Components, a, b \in Attempts :
        row[a][c].status = "running" /\ row[b][c].status = "running" => a = b

\* Putting a component back after a failed deployment changes its port and
\* never the image that serves, as long as the row released last is the one
\* that runs (deployments may finish in another order than they were queued).
RestoredAsServed(h) ==
    job[h].at = "restore" /\ job'[h].at = "finish" =>
        \A c \in Components : \A a \in ReleasedAttempts(c) :
            /\ live[c].port # 0
            /\ row[a][c].status = "running"
            /\ \A b \in ReleasedAttempts(c) : b <= a
            => live'[c].image = live[c].image
RestoreKeepsImage == [][\A h \in Callers : RestoredAsServed(h)]_vars
=============================================================================
