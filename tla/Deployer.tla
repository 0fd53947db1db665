------------------------------ MODULE Deployer ------------------------------
(***************************************************************************)
(* The deployment pipeline of a single-component project                   *)
(* (services/deployer.py: deploy_sync, deploy_queued, rollback) with the   *)
(* job queue (services/jobs.py), the requests of api/projects.py and       *)
(* api/webhooks.py that drive it, the Docker runtime and the reverse proxy.*)
(*                                                                         *)
(* A job is the run of deploy_sync or rollback in one thread.  It is       *)
(* divided at every commit and every call out of the process, the points   *)
(* at which other threads, or a crash of the control plane, come between.  *)
(***************************************************************************)
EXTENDS DockerRuntime, Sequences

CONSTANTS
    Workers,        \* the deploy_workers threads of the job queue
    None,           \* a lock nobody holds
    MaxCrashes      \* bound of the model: times the control plane dies

Threads == Callers \ Workers   \* request threads and webhook background tasks

ASSUME DeployerAssumption ==
    /\ Workers \subseteq Callers
    /\ None \notin Callers
    /\ MaxCrashes \in Nat

VARIABLES
    lock,           \* _locks: [project -> caller or None]
    row,            \* table deployments: [id -> row]
    nRows,          \* ids given out so far
    queue,          \* the executor's queue: ids of rows made by deploy_queued
    job,            \* [caller -> the frame of its deploy_sync or rollback]
    site,           \* [unit -> upstream port in the unit's proxy site file, or 0]
    served,         \* [unit -> upstream port the running proxy has loaded, or 0]
    issued,         \* bound of the model: requests made, at most MaxStarts
    crashes,        \* history: how often the control plane died
    stopped         \* history: somebody has stopped an application

dbVars == <<row, nRows>>
proxyVars == <<site, served>>
depVars == <<lock, row, nRows, queue, job, site, served, issued, crashes>>
vars == <<rtVars, depVars, stopped>>

Ids == 1..MaxStarts     \* every request inserts at most one row

Project(u) == u[1]

Row == [unit : Units, status : {"none", "building", "running", "failed", "stopped"},
        image : Images \cup {NoImage}]
Blank == [unit |-> CHOOSE u \in Units : TRUE, status |-> "none", image |-> NoImage]

Job == [at : {"idle", "lock", "checkout", "build", "start", "proxy", "commit",
              "mark", "unlock"},
        op : {"deploy", "rollback"}, unit : Units, rec : Ids \cup {0},
        image : Images \cup {NoImage}, port : Ports \cup {0}]
NoJob == [at |-> "idle", op |-> "deploy", unit |-> CHOOSE u \in Units : TRUE,
          rec |-> 0, image |-> NoImage, port |-> 0]

TypeOK ==
    /\ RuntimeTypeOK
    /\ lock \in [Projects -> Callers \cup {None}]
    /\ row \in [Ids -> Row]
    /\ nRows \in 0..MaxStarts
    /\ queue \in Seq(Ids)
    /\ job \in [Callers -> Job]
    /\ site \in [Units -> Ports \cup {0}]
    /\ served \in [Units -> Ports \cup {0}]
    /\ issued \in 0..MaxStarts
    /\ crashes \in Nat
    /\ stopped \in BOOLEAN

Init ==
    /\ RuntimeInit
    /\ lock = [p \in Projects |-> None]
    /\ row = [i \in Ids |-> Blank]
    /\ nRows = 0
    /\ queue = <<>>
    /\ job = [h \in Callers |-> NoJob]
    /\ site = [u \in Units |-> 0]
    /\ served = [u \in Units |-> 0]
    /\ issued = 0
    /\ crashes = 0
    /\ stopped = FALSE

----------------------------------------------------------------------------
(* Helpers.                                                                *)

JobGoes(h, to) == job' = [job EXCEPT ![h].at = to]

\* The `finally` of deploy_sync comes next; rollback has none and just ends.
JobEnds(h) ==
    job' = [job EXCEPT ![h] = IF job[h].op = "deploy"
                              THEN [job[h] EXCEPT !.at = "unlock"] ELSE NoJob]

\* The handler `except (BuildError, RuntimeError)` writes the row; a rollback
\* has no row to write.
RecordFailed(h) ==
    row' = IF job[h].op = "deploy"
           THEN [row EXCEPT ![job[h].rec].status = "failed"] ELSE row

\* Mutant: the id counter skips one.
InsertSkips(u, status, i) ==
    /\ nRows < MaxStarts
    /\ nRows' = nRows + 2
    /\ row' = [row EXCEPT ![nRows + 1] = [unit |-> u, status |-> status, image |-> i]]

\* db.add and commit.  The bound never holds it back: a request makes one row.
Insert(u, status, i) ==
    /\ nRows < MaxStarts
    /\ nRows' = nRows + 1
    /\ row' = [row EXCEPT ![nRows + 1] = [unit |-> u, status |-> status, image |-> i]]

----------------------------------------------------------------------------
(* Requests.                                                               *)

\* POST /deploy with wait, or the background task of a git push.
DeployRequest(h, u) ==
    /\ "deploy" \in Ops
    /\ issued < MaxStarts
    /\ h \in Threads /\ job[h].at = "idle"
    /\ issued' = issued + 1
    /\ job' = [job EXCEPT ![h] = [NoJob EXCEPT !.at = "lock", !.unit = u]]
    /\ UNCHANGED <<rtVars, lock, dbVars, queue, proxyVars, crashes, stopped>>

\* deploy_queued: the row is committed before the pipeline is queued.
QueueRequest(u) ==
    /\ "queue" \in Ops
    /\ issued < MaxStarts
    /\ issued' = issued + 1
    /\ Insert(u, "building", NoImage)
    /\ queue' = Append(queue, nRows + 1)
    /\ UNCHANGED <<rtVars, lock, job, proxyVars, crashes, stopped>>

\* Mutant: the task stays in the queue until it has run.
WorkerPeeks(h) ==
    /\ h \in Workers /\ job[h].at = "idle" /\ queue # <<>>
    /\ job' = [job EXCEPT ![h] = [NoJob EXCEPT !.at = "lock", !.rec = Head(queue),
                                              !.unit = row[Head(queue)].unit]]
    /\ UNCHANGED <<rtVars, lock, dbVars, queue, proxyVars, issued, crashes, stopped>>

\* A worker of the executor takes the oldest task.
WorkerTake(h) ==
    /\ h \in Workers /\ job[h].at = "idle" /\ queue # <<>>
    /\ queue' = Tail(queue)
    /\ job' = [job EXCEPT ![h] = [NoJob EXCEPT !.at = "lock", !.rec = Head(queue),
                                              !.unit = row[Head(queue)].unit]]
    /\ UNCHANGED <<rtVars, lock, dbVars, proxyVars, issued, crashes, stopped>>

\* The rows rollback may return to: built, once deployed, older than the
\* newest running row.
Built(u) == {i \in Ids : row[i].unit = u /\ row[i].image # NoImage}
Current(u) == {i \in Built(u) : /\ row[i].status = "running"
                                /\ \A j \in Built(u) : row[j].status = "running" => j <= i}
\* Mutant: any built row, failed ones too.
CandidatesUnfiltered(u) == {i \in Built(u) : \A c \in Current(u) : i < c}
Candidates(u) == {i \in Built(u) : /\ row[i].status \in {"stopped", "running"}
                                   /\ \A c \in Current(u) : i < c}

\* POST /rollback: selects the newest candidate, without taking the lock.
RollbackRequest(h, u) ==
    /\ "rollback" \in Ops
    /\ issued < MaxStarts
    /\ h \in Threads /\ job[h].at = "idle"
    /\ \E t \in Candidates(u) :
         /\ \A c \in Candidates(u) : c <= t
         /\ job' = [job EXCEPT ![h] = [NoJob EXCEPT
                !.at = "start", !.op = "rollback", !.unit = u, !.image = row[t].image]]
         /\ Begin(h, u, row[t].image)
    /\ issued' = issued + 1
    /\ UNCHANGED <<lock, dbVars, queue, proxyVars, crashes, stopped>>

\* POST /stop: the runtime only; rows and proxy keep what they had.
StopRequest(u) ==
    /\ "stop" \in Ops
    /\ Stop(u)
    /\ stopped' = TRUE
    /\ UNCHANGED depVars

----------------------------------------------------------------------------
(* The pipeline.                                                           *)

Acquire(h) ==
    LET p == Project(job[h].unit) IN
    /\ job[h].at = "lock"
    /\ lock[p] = None
    /\ lock' = [lock EXCEPT ![p] = h]
    /\ JobGoes(h, "checkout")
    /\ UNCHANGED <<rtVars, dbVars, queue, proxyVars, issued, crashes, stopped>>

\* Mutant: the refused thread runs the `finally` too and releases the lock.
BusyReleases(h) ==
    /\ job[h].at = "lock"
    /\ lock[Project(job[h].unit)] # None
    /\ lock' = [lock EXCEPT ![Project(job[h].unit)] = None]
    /\ row' = IF job[h].rec = 0 THEN row
              ELSE [row EXCEPT ![job[h].rec].status = "failed"]
    /\ job' = [job EXCEPT ![h] = NoJob]
    /\ UNCHANGED <<rtVars, nRows, queue, proxyVars, issued, crashes, stopped>>

\* DeployInProgress: a queued row is closed, a direct caller gets 409 and a
\* push is skipped.
Busy(h) ==
    /\ job[h].at = "lock"
    /\ lock[Project(job[h].unit)] # None
    /\ row' = IF job[h].rec = 0 THEN row
              ELSE [row EXCEPT ![job[h].rec].status = "failed"]
    /\ job' = [job EXCEPT ![h] = NoJob]
    /\ UNCHANGED <<rtVars, lock, nRows, queue, proxyVars, issued, crashes, stopped>>

\* checkout() resolves the commit; the row is made now unless it was queued.
Checkout(h, i) ==
    /\ job[h].at = "checkout"
    /\ IF job[h].rec = 0
       THEN /\ Insert(job[h].unit, "building", NoImage)
            /\ job' = [job EXCEPT ![h].at = "build", ![h].image = i, ![h].rec = nRows + 1]
       ELSE /\ job' = [job EXCEPT ![h].at = "build", ![h].image = i]
            /\ UNCHANGED dbVars
    /\ UNCHANGED <<rtVars, lock, queue, proxyVars, issued, crashes, stopped>>

\* Mutant: the exception of checkout() skips the `finally`.
CheckoutKeepsLock(h) ==
    /\ job[h].at = "checkout"
    /\ job' = [job EXCEPT ![h] = NoJob]
    /\ UNCHANGED <<rtVars, lock, dbVars, queue, proxyVars, issued, crashes, stopped>>

\* checkout() raises outside the inner try: no row is written.
CheckoutFails(h) ==
    /\ job[h].at = "checkout"
    /\ JobEnds(h)
    /\ UNCHANGED <<rtVars, lock, dbVars, queue, proxyVars, issued, crashes, stopped>>

\* build_image succeeds and its tag is committed; start() is called next.
Build(h) ==
    /\ job[h].at = "build"
    /\ row' = [row EXCEPT ![job[h].rec].image = job[h].image]
    /\ JobGoes(h, "start")
    /\ Begin(h, job[h].unit, job[h].image)
    /\ UNCHANGED <<lock, nRows, queue, proxyVars, issued, crashes, stopped>>

\* BuildError is recorded; another exception (no Dockerfile template) is not.
BuildFails(h) ==
    /\ job[h].at = "build"
    /\ RecordFailed(h) \/ UNCHANGED row
    /\ JobEnds(h)
    /\ UNCHANGED <<rtVars, lock, nRows, queue, proxyVars, issued, crashes, stopped>>

RuntimeStep(h) ==
    /\ StartStep(h) \/ ("daemon" \in Ops /\ NoDaemon(h))
    /\ UNCHANGED <<depVars, stopped>>

Started(h) ==
    /\ job[h].at = "start" /\ call[h].at = "ok"
    /\ Return(h)
    /\ job' = [job EXCEPT ![h].at = "proxy", ![h].port = call[h].port]
    /\ UNCHANGED <<lock, dbVars, queue, proxyVars, issued, crashes, stopped>>

StartFails(h) ==
    /\ job[h].at = "start" /\ call[h].at \in {"RuntimeError", "OtherError"}
    /\ IF call[h].at = "RuntimeError" THEN RecordFailed(h) ELSE UNCHANGED row
    /\ Return(h)
    /\ JobEnds(h)
    /\ UNCHANGED <<lock, nRows, queue, proxyVars, issued, crashes, stopped>>

\* Mutant: the site file is written and the reload forgotten.
ConfigureNoReload(h) ==
    /\ job[h].at = "proxy"
    /\ site' = [site EXCEPT ![job[h].unit] = job[h].port]
    /\ JobGoes(h, "commit")
    /\ UNCHANGED <<rtVars, lock, dbVars, queue, served, issued, crashes, stopped>>

\* proxy.configure writes the unit's site file and reloads the proxy, which
\* reads all site files.  A reload that fails is not noticed (Caddy).
Configure(h) ==
    LET u == job[h].unit IN
    /\ job[h].at = "proxy"
    /\ site' = [site EXCEPT ![u] = job[h].port]
    /\ \/ served' = site'
       \/ "reload" \in Ops /\ UNCHANGED served
    /\ JobGoes(h, "commit")
    /\ UNCHANGED <<rtVars, lock, dbVars, queue, issued, crashes, stopped>>

\* proxy.configure raises IISError, a RuntimeError.
ConfigureFails(h) ==
    /\ "proxy" \in Ops
    /\ job[h].at = "proxy"
    /\ RecordFailed(h)
    /\ JobEnds(h)
    /\ UNCHANGED <<rtVars, lock, nRows, queue, proxyVars, issued, crashes, stopped>>

\* The row becomes running; rollback inserts it here.
Commit(h) ==
    /\ job[h].at = "commit"
    /\ IF job[h].op = "deploy"
       THEN /\ row' = [row EXCEPT ![job[h].rec].status = "running"]
            /\ JobGoes(h, "mark")
            /\ UNCHANGED nRows
       ELSE /\ Insert(job[h].unit, "running", job[h].image)
            /\ job' = [job EXCEPT ![h].at = "mark", ![h].rec = nRows + 1]
    /\ UNCHANGED <<rtVars, lock, queue, proxyVars, issued, crashes, stopped>>

\* Mutant: only rows with a smaller id are superseded.
MarkOlder(h) ==
    /\ job[h].at = "mark"
    /\ row' = [i \in Ids |->
           IF row[i].unit = job[h].unit /\ row[i].status = "running" /\ i < job[h].rec
           THEN [row[i] EXCEPT !.status = "stopped"] ELSE row[i]]
    /\ JobEnds(h)
    /\ UNCHANGED <<rtVars, lock, nRows, queue, proxyVars, issued, crashes, stopped>>

\* _mark_previous_stopped
Mark(h) ==
    /\ job[h].at = "mark"
    /\ row' = [i \in Ids |->
           IF row[i].unit = job[h].unit /\ row[i].status = "running" /\ i # job[h].rec
           THEN [row[i] EXCEPT !.status = "stopped"] ELSE row[i]]
    /\ JobEnds(h)
    /\ UNCHANGED <<rtVars, lock, nRows, queue, proxyVars, issued, crashes, stopped>>

\* Mutant: the worker does not return to the pool.
UnlockStays(h) ==
    /\ job[h].at = "unlock"
    /\ lock' = [lock EXCEPT ![Project(job[h].unit)] = None]
    /\ UNCHANGED <<rtVars, dbVars, queue, job, proxyVars, issued, crashes, stopped>>

Unlock(h) ==
    /\ job[h].at = "unlock"
    /\ lock' = [lock EXCEPT ![Project(job[h].unit)] = None]
    /\ job' = [job EXCEPT ![h] = NoJob]
    /\ UNCHANGED <<rtVars, dbVars, queue, proxyVars, issued, crashes, stopped>>

\* The process dies and restarts: locks, queue and threads are memory, the
\* database, the containers and the proxy are not.
Restart ==
    /\ crashes < MaxCrashes
    /\ Crash
    /\ crashes' = crashes + 1
    /\ lock' = [p \in Projects |-> None]
    /\ queue' = <<>>
    /\ job' = [h \in Callers |-> NoJob]
    /\ UNCHANGED <<dbVars, proxyVars, issued, stopped>>

----------------------------------------------------------------------------

\* One step of the job in thread h.
JobStep(h) ==
    \/ Acquire(h) \/ Busy(h)
    \/ (\E i \in Images : Checkout(h, i)) \/ CheckoutFails(h)
    \/ Build(h) \/ BuildFails(h)
    \/ RuntimeStep(h) \/ Started(h) \/ StartFails(h)
    \/ Configure(h) \/ ConfigureFails(h)
    \/ Commit(h) \/ Mark(h) \/ Unlock(h)

Next ==
    \/ \E h \in Callers, u \in Units : DeployRequest(h, u) \/ RollbackRequest(h, u)
    \/ \E u \in Units : QueueRequest(u) \/ StopRequest(u)
    \/ \E h \in Callers : WorkerTake(h) \/ JobStep(h)
    \/ Restart

Spec == Init /\ [][Next]_vars

\* Threads run until they finish; requests, failures and crashes just happen.
Fairness == \A h \in Callers : WF_vars(JobStep(h)) /\ WF_vars(WorkerTake(h))

FairSpec == Spec /\ Fairness

----------------------------------------------------------------------------
(* Properties.                                                             *)

\* The part of deploy_sync between lock.acquire and lock.release.
InPipeline(h) == job[h].op = "deploy" /\ job[h].at \notin {"idle", "lock"}

\* "At most one deployment per project": no two threads are inside the locked
\* part of deploy_sync for one project, not even one that was refused the lock
\* while another held it, and not across a restart.
LockExclusion ==
    \A g, h \in Callers :
        /\ InPipeline(g) /\ InPipeline(h)
        /\ Project(job[g].unit) = Project(job[h].unit)
        => g = h

\* A building row has one writer: a queued row is in the queue once, or in the
\* hands of one job, and no other row is; so no two threads update one row.
SingleWriter ==
    /\ \A m, n \in 1..Len(queue) : queue[m] = queue[n] => m = n
    /\ \A m \in 1..Len(queue) : /\ row[queue[m]].status = "building"
                                /\ \A h \in Callers : job[h].rec # queue[m]
    /\ \A g, h \in Callers : job[g].rec = job[h].rec /\ job[g].rec # 0 => g = h

\* Two running rows of one unit are a passing state: the thread that committed
\* one of them is about to mark the others stopped.  Only a crash between the
\* two commits leaves both (until the next deployment of the unit).
RunningUnique ==
    crashes = 0 =>
        \A i, j \in Ids :
            /\ i # j
            /\ row[i].unit = row[j].unit
            /\ row[i].status = "running" /\ row[j].status = "running"
            => \E h \in Callers : job[h].at = "mark" /\ job[h].rec \in {i, j}

\* Everything rollback can go back to has been healthy in that unit: a row is
\* running or stopped only if a container of its image passed its own check,
\* whatever deployments, rollbacks, failures and a crash did, until somebody
\* stops an application and frees the port another's check is asking.
TargetsProvenUnlessStopped ==
    ~stopped => \A i \in Ids : row[i].status \in {"running", "stopped"} =>
        <<row[i].unit, row[i].image>> \in proven

\* Zero downtime at the level of containers: whatever the callers do, fail or
\* crash at, a unit that has a healthy container keeps one until somebody stops
\* an application; start() removes the old container only after the new one is
\* healthy, and a failed start() only its own.
ServesUnlessStopped ==
    [][~stopped' => \A u \in Units : Serving(u) => Serving(u)']_<<rtVars, stopped>>

\* The stretch of a job in which the container and the proxy disagree.
Switching(h) ==
    \/ job[h].at \in {"proxy", "commit", "mark"}
    \/ job[h].at = "start" /\ call[h].at = "ok"

\* Traffic follows the table: unless a deployment of the unit is in its switch,
\* the upstream the proxy has loaded is a healthy container of the unit, of the
\* image the running row names.
RouteServes ==
    \A u \in Units :
        (\A h \in Callers : job[h].unit = u => ~Switching(h)) =>
            \A i \in Ids : row[i].unit = u /\ row[i].status = "running" =>
                \E s \in Slots : /\ containers[u][s].up /\ containers[u][s].passed
                                 /\ containers[u][s].port = served[u]
                                 /\ containers[u][s].image = row[i].image

\* The deployments table, seen alone, behaves as DeploymentLog says.
Log == INSTANCE DeploymentLog WITH Unset <- Blank
ImplementsLog == Log!Spec

\* A lock is never kept: whatever fails in the pipeline, its holder releases it
\* (DeployInProgress is a temporary answer).
LockReleased == \A p \in Projects, h \in Callers : lock[p] = h ~> lock[p] # h

\* Every queued deployment is taken up by a worker.
QueueDrains == queue # <<>> ~> queue = <<>>

\* "The failed state and the error are recorded in the row by deploy_sync"
\* (deployer.py:232): no row stays building once nobody works on it.
NoAbandonedRow ==
    \A i \in Ids : row[i].status = "building" =>
        \/ \E m \in 1..Len(queue) : queue[m] = i
        \/ \E h \in Callers : job[h].rec = i
=============================================================================
