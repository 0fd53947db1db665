--------------------------- MODULE DeployerProofs ---------------------------
(***************************************************************************)
(* Proofs about Deployer, for any number of projects, threads, images,     *)
(* ports, requests and crashes: first its lock and its table, then its     *)
(* containers and routes.                                                  *)
(***************************************************************************)
EXTENDS Deployer, TLAPS

USE DEF Slots

----------------------------------------------------------------------------
(* Types.                                                                  *)

LEMMA UnitExists == (CHOOSE u \in Units : TRUE) \in Units
<1>1. PICK p \in Projects, q \in Profiles : TRUE
  BY RuntimeAssumption
<1>2. <<p, q>> \in Units
  BY DEF Units
<1> QED BY <1>2

LEMMA NullTypes == /\ NoContainer \in Container
                   /\ NoCall \in Frame
                   /\ Blank \in Row
                   /\ NoJob \in Job
  BY UnitExists DEF NoContainer, Container, NoCall, Frame, Blank, Row, NoJob, Job

LEMMA NullFields == /\ NoJob.at = "idle" /\ NoJob.op = "deploy" /\ NoJob.rec = 0
                    /\ Blank.status = "none"
  BY DEF NoJob, Blank

\* What the daemon removes leaves well-typed containers.
LEMMA WithoutType ==
  ASSUME RuntimeTypeOK, NEW cid
  PROVE  Without(cid) \in [Units -> [Slots -> Container]]
  BY NullTypes DEF RuntimeTypeOK, Without

LEMMA FoundType ==
  ASSUME RuntimeTypeOK, NEW u \in Units
  PROVE  Found(u) \in Container
  BY DEF RuntimeTypeOK, Found

LEMMA BeginType ==
  ASSUME RuntimeTypeOK, NEW h \in Callers, NEW u \in Units,
         NEW i \in Images \cup {NoImage}, Begin(h, u, i)
  PROVE  RuntimeTypeOK'
  BY NullTypes DEF RuntimeTypeOK, Begin, NoCall, Frame

LEMMA GoesType ==
  ASSUME RuntimeTypeOK, NEW h \in Callers,
         NEW to \in {"health", "retire"} \cup Outcomes, Goes(h, to)
  PROVE  call' \in [Callers -> Frame]
<1>1. [call[h] EXCEPT !.at = to] \in Frame
  BY DEF RuntimeTypeOK, Frame
<1> QED BY <1>1 DEF RuntimeTypeOK, Goes

\* A step of start() keeps the runtime's types.
LEMMA StartStepType ==
  ASSUME RuntimeTypeOK, NEW h \in Callers, StartStep(h) \/ NoDaemon(h)
  PROVE  RuntimeTypeOK'
<1> call[h] \in Frame
  BY DEF RuntimeTypeOK
<1>1. CASE NoDaemon(h)
  BY <1>1, GoesType DEF NoDaemon, RuntimeTypeOK, Outcomes
<1>2. CASE Allocate(h)
  <2>1. CASE Goes(h, "RuntimeError")
    BY <1>2, <2>1, GoesType DEF Allocate, RuntimeTypeOK, Outcomes
  <2>2. CASE ~Goes(h, "RuntimeError")
    <3>1. PICK p \in Ports : call' = [call EXCEPT ![h].at = "find", ![h].port = p]
      BY <1>2, <2>2 DEF Allocate
    <3>2. call' \in [Callers -> Frame]
      BY <3>1 DEF RuntimeTypeOK, Frame
    <3> QED BY <1>2, <3>2 DEF Allocate, RuntimeTypeOK
  <2> QED BY <2>1, <2>2
<1>3. CASE Find(h)
  <2>1. Found(call[h].unit).cid \in Nat
    BY FoundType DEF Frame, Container
  <2>2. call' \in [Callers -> Frame]
    BY <1>3, <2>1 DEF Find, RuntimeTypeOK, Frame
  <2> QED BY <1>3, <2>2 DEF Find, RuntimeTypeOK
<1>4. CASE Run(h)
  <2> DEFINE c(b) == [cid |-> spawned + 1, image |-> call[h].image,
                      port |-> call[h].port, up |-> b, passed |-> FALSE]
  <2>1. \A b \in BOOLEAN : c(b) \in Container
    BY DEF RuntimeTypeOK, Frame, Container
  <2>2. CASE Occupied(call[h].unit, call[h].slot)
    BY <1>4, <2>2, GoesType DEF Run, RuntimeTypeOK, Outcomes
  <2>3. CASE ~Occupied(call[h].unit, call[h].slot)
    <3>1. \E b \in BOOLEAN :
             containers' = [containers EXCEPT ![call[h].unit][call[h].slot] = c(b)]
      BY <1>4, <2>3 DEF Run
    <3>2. containers' \in [Units -> [Slots -> Container]]
      BY <2>1, <3>1 DEF RuntimeTypeOK, Frame
    <3>3. spawned' \in Nat /\ proven' = proven
      BY <1>4, <2>3 DEF Run, RuntimeTypeOK
    <3>4. \A to \in {"health", "OtherError"} :
             [call[h] EXCEPT !.mine = spawned + 1, !.at = to] \in Frame
      <4>1. \A f \in Frame, n \in Nat, to \in {"health", "OtherError"} :
               [f EXCEPT !.mine = n, !.at = to] \in Frame
        BY DEF Frame, Outcomes
      <4>2. spawned + 1 \in Nat
        BY DEF RuntimeTypeOK
      <4> QED BY <4>1, <4>2
    <3>5. \E to \in {"health", "OtherError"} :
             call' = [call EXCEPT ![h].mine = spawned + 1, ![h].at = to]
      BY <1>4, <2>3 DEF Run
    <3>6. call' \in [Callers -> Frame]
      BY <3>4, <3>5 DEF RuntimeTypeOK
    <3> QED BY <3>2, <3>3, <3>6 DEF RuntimeTypeOK
  <2> QED BY <2>2, <2>3
<1>5. CASE HealthPasses(h)
  <2>1. \A v \in Units, s \in Slots :
           [containers[v][s] EXCEPT !.passed = TRUE] \in Container
    <3>1. \A c \in Container : [c EXCEPT !.passed = TRUE] \in Container
      BY DEF Container
    <3> QED BY <3>1 DEF RuntimeTypeOK
  <2>2. containers' \in [Units -> [Slots -> Container]]
    BY <1>5, <2>1 DEF HealthPasses, RuntimeTypeOK
  <2>3. proven' \subseteq Units \X (Images \cup {NoImage})
    BY <1>5 DEF HealthPasses, RuntimeTypeOK, Frame
  <2> QED BY <1>5, <2>2, <2>3, GoesType DEF HealthPasses, RuntimeTypeOK
<1>6. CASE HealthFails(h)
  BY <1>6, WithoutType, GoesType DEF HealthFails, RuntimeTypeOK, Outcomes
<1>7. CASE Retire(h)
  BY <1>7, WithoutType, GoesType DEF Retire, RuntimeTypeOK, Outcomes
<1> QED BY <1>1, <1>2, <1>3, <1>4, <1>5, <1>6, <1>7 DEF StartStep

\* Removing the container _find() returns keeps the runtime's types; so does
\* the end of every frame.
LEMMA StopType ==
  ASSUME RuntimeTypeOK, NEW u \in Units, Stop(u)
  PROVE  RuntimeTypeOK'
  BY WithoutType DEF Stop, RuntimeTypeOK

LEMMA ReturnType ==
  ASSUME RuntimeTypeOK, NEW h \in Callers, Return(h) \/ Crash
  PROVE  RuntimeTypeOK'
  BY NullTypes DEF Return, Crash, RuntimeTypeOK

\* The table keeps its type when a row is inserted or one row's status is set.
LEMMA InsertType ==
  ASSUME TypeOK, NEW u \in Units, NEW status \in {"building", "running"},
         NEW i \in Images \cup {NoImage}, Insert(u, status, i)
  PROVE  row' \in [Ids -> Row] /\ nRows' \in 0..MaxStarts /\ nRows + 1 \in Ids
  BY RuntimeAssumption DEF TypeOK, Insert, Row, Ids

LEMMA StatusType ==
  ASSUME TypeOK, NEW r, NEW status \in {"running", "failed"},
         row' = [row EXCEPT ![r].status = status]
  PROVE  row' \in [Ids -> Row]
  BY DEF TypeOK, Row

LEMMA JobEndsType ==
  ASSUME TypeOK, NEW h \in Callers, JobEnds(h)
  PROVE  job' \in [Callers -> Job]
<1>1. [job[h] EXCEPT !.at = "unlock"] \in Job
  BY DEF TypeOK, Job
<1> QED BY <1>1, NullTypes DEF TypeOK, JobEnds

LEMMA JobGoesType ==
  ASSUME TypeOK, NEW h \in Callers,
         NEW to \in {"checkout", "start", "commit", "mark"}, JobGoes(h, to)
  PROVE  job' \in [Callers -> Job]
<1>1. [job[h] EXCEPT !.at = to] \in Job
  BY DEF TypeOK, Job
<1> QED BY <1>1 DEF TypeOK, JobGoes

\* The steps that give a thread a job keep the types.
LEMMA JobBeginType ==
  ASSUME TypeOK, NEW h \in Callers, NEW u \in Units,
         DeployRequest(h, u) \/ RollbackRequest(h, u) \/ WorkerTake(h)
  PROVE  TypeOK'
<1> USE DEF TypeOK
<1>1. CASE DeployRequest(h, u)
  <2>1. [NoJob EXCEPT !.at = "lock", !.unit = u] \in Job
    BY NullTypes DEF NoJob, Job
  <2>2. issued' \in 0..MaxStarts
    BY <1>1, RuntimeAssumption DEF DeployRequest
  <2> QED BY <1>1, <2>1, <2>2
          DEF DeployRequest, rtVars, dbVars, proxyVars, RuntimeTypeOK
<1>2. CASE RollbackRequest(h, u)
  <2>1. PICK t \in Candidates(u) :
          /\ job' = [job EXCEPT ![h] = [NoJob EXCEPT
                !.at = "start", !.op = "rollback", !.unit = u, !.image = row[t].image]]
          /\ Begin(h, u, row[t].image)
    BY <1>2 DEF RollbackRequest
  <2>2. row[t].image \in Images \cup {NoImage}
    BY DEF Candidates, Built, Row
  <2>3. job' \in [Callers -> Job]
    BY <2>1, <2>2, NullTypes DEF NoJob, Job
  <2>4. RuntimeTypeOK'
    BY <2>1, <2>2, BeginType
  <2>5. issued' \in 0..MaxStarts
    <3>1. issued < MaxStarts /\ issued' = issued + 1
      BY <1>2 DEF RollbackRequest
    <3> QED BY <3>1, RuntimeAssumption
  <2> QED BY <1>2, <2>3, <2>4, <2>5 DEF RollbackRequest, dbVars, proxyVars
<1>3. CASE WorkerTake(h)
  <2>1. Head(queue) \in Ids /\ Tail(queue) \in Seq(Ids)
    BY <1>3 DEF WorkerTake
  <2>2. row[Head(queue)].unit \in Units
    BY <2>1 DEF Row
  <2>3. job' \in [Callers -> Job]
    BY <1>3, <2>1, <2>2, NullTypes DEF WorkerTake, NoJob, Job
  <2> QED BY <1>3, <2>1, <2>3 DEF WorkerTake, rtVars, dbVars, proxyVars, RuntimeTypeOK
<1> QED BY <1>1, <1>2, <1>3

LEMMA QueueRequestType ==
  ASSUME TypeOK, NEW u \in Units, QueueRequest(u)
  PROVE  TypeOK'
<1>1. row' \in [Ids -> Row] /\ nRows' \in 0..MaxStarts /\ nRows + 1 \in Ids
  BY InsertType DEF QueueRequest
<1>2. queue' \in Seq(Ids)
  BY <1>1 DEF QueueRequest, TypeOK
<1>3. issued' \in 0..MaxStarts
  BY RuntimeAssumption DEF QueueRequest, TypeOK
<1> QED BY <1>1, <1>2, <1>3 DEF QueueRequest, TypeOK, rtVars, proxyVars, RuntimeTypeOK

\* So do the steps of a job.
LEMMA JobStepType ==
  ASSUME TypeOK, NEW h \in Callers, JobStep(h)
  PROVE  TypeOK'
<1> USE DEF TypeOK, rtVars, dbVars, proxyVars, RuntimeTypeOK
<1> job[h] \in Job /\ call[h] \in Frame
  OBVIOUS
<1>1. CASE Acquire(h)
  BY <1>1, JobGoesType DEF Acquire
<1>2. CASE Busy(h)
  BY <1>2, StatusType, NullTypes DEF Busy
<1>3. ASSUME NEW i \in Images, Checkout(h, i) PROVE TypeOK'
  <2>1. CASE job[h].rec = 0
    <3>1. row' \in [Ids -> Row] /\ nRows' \in 0..MaxStarts /\ nRows + 1 \in Ids
      BY <1>3, <2>1, InsertType DEF Checkout, Job
    <3>2. [job[h] EXCEPT !.at = "build", !.rec = nRows + 1, !.image = i] \in Job
      BY <3>1 DEF Job
    <3>3. job' = [job EXCEPT ![h] =
                    [job[h] EXCEPT !.at = "build", !.rec = nRows + 1, !.image = i]]
      BY <1>3, <2>1 DEF Checkout
    <3>4. job' \in [Callers -> Job]
      BY <3>2, <3>3
    <3> QED BY <1>3, <3>1, <3>4 DEF Checkout
  <2>2. CASE job[h].rec # 0
    <3>1. [job[h] EXCEPT !.at = "build", !.image = i] \in Job
      BY DEF Job
    <3>2. job' \in [Callers -> Job]
      BY <1>3, <2>2, <3>1 DEF Checkout
    <3> QED BY <1>3, <2>2, <3>2 DEF Checkout
  <2> QED BY <2>1, <2>2
<1>4. CASE CheckoutFails(h)
  BY <1>4, JobEndsType DEF CheckoutFails
<1>5. CASE Build(h)
  <2>1. \A r \in Row : [r EXCEPT !.image = job[h].image] \in Row
    BY DEF Row, Job
  <2>2. row' \in [Ids -> Row]
    BY <1>5, <2>1 DEF Build
  <2>3. RuntimeTypeOK'
    BY <1>5, BeginType DEF Build, Job
  <2> QED BY <1>5, <2>2, <2>3, JobGoesType DEF Build
<1>6. CASE BuildFails(h)
  BY <1>6, JobEndsType, StatusType DEF BuildFails, RecordFailed
<1>7. CASE RuntimeStep(h)
  BY <1>7, StartStepType DEF RuntimeStep, depVars
<1>8. CASE Started(h)
  <2>1. job' \in [Callers -> Job]
    BY <1>8 DEF Started, Job, Frame
  <2> QED BY <1>8, <2>1, ReturnType DEF Started
<1>9. CASE StartFails(h)
  <2>1. row' \in [Ids -> Row]
    BY <1>9, StatusType DEF StartFails, RecordFailed
  <2> QED BY <1>9, <2>1, ReturnType, JobEndsType DEF StartFails
<1>10. CASE Configure(h)
  <2>1. site' \in [Units -> Ports \cup {0}] /\ served' \in [Units -> Ports \cup {0}]
    BY <1>10 DEF Configure, Job
  <2> QED BY <1>10, <2>1, JobGoesType DEF Configure
<1>11. CASE ConfigureFails(h)
  BY <1>11, JobEndsType, StatusType DEF ConfigureFails, RecordFailed
<1>12. CASE Commit(h)
  <2>1. CASE job[h].op = "deploy"
    BY <1>12, <2>1, JobGoesType, StatusType DEF Commit
  <2>2. CASE job[h].op # "deploy"
    <3>1. row' \in [Ids -> Row] /\ nRows' \in 0..MaxStarts /\ nRows + 1 \in Ids
      <4>1. Insert(job[h].unit, "running", job[h].image)
        BY <1>12, <2>2 DEF Commit
      <4>2. job[h].unit \in Units /\ job[h].image \in Images \cup {NoImage}
        BY DEF Job
      <4> QED BY <4>1, <4>2, InsertType
    <3>2. [job[h] EXCEPT !.at = "mark", !.rec = nRows + 1] \in Job
      BY <3>1 DEF Job
    <3>3. job' \in [Callers -> Job]
      BY <1>12, <2>2, <3>2 DEF Commit
    <3> QED BY <1>12, <3>1, <3>3 DEF Commit
  <2> QED BY <2>1, <2>2
<1>13. CASE Mark(h)
  <2>1. \A r \in Row : [r EXCEPT !.status = "stopped"] \in Row
    BY DEF Row
  <2>2. row' \in [Ids -> Row]
    BY <1>13, <2>1 DEF Mark
  <2> QED BY <1>13, <2>2, JobEndsType DEF Mark
<1>14. CASE Unlock(h)
  BY <1>14, NullTypes DEF Unlock
<1> QED BY <1>1, <1>2, <1>3, <1>4, <1>5, <1>6, <1>7, <1>8, <1>9, <1>10, <1>11,
           <1>12, <1>13, <1>14 DEF JobStep

LEMMA InitType == Init => TypeOK
<1> SUFFICES ASSUME Init PROVE TypeOK
  OBVIOUS
<1>1. RuntimeTypeOK
  BY NullTypes DEF Init, RuntimeInit, RuntimeTypeOK
<1>2. job \in [Callers -> Job] /\ row \in [Ids -> Row] /\ queue \in Seq(Ids)
  BY NullTypes DEF Init
<1>3. lock \in [Projects -> Callers \cup {None}] /\ site \in [Units -> Ports \cup {0}]
      /\ served \in [Units -> Ports \cup {0}]
  BY DEF Init
<1>4. nRows \in 0..MaxStarts /\ issued \in 0..MaxStarts /\ crashes \in Nat
  BY RuntimeAssumption DEF Init
<1> QED BY <1>1, <1>2, <1>3, <1>4 DEF Init, TypeOK

LEMMA NextType == TypeOK /\ [Next]_vars => TypeOK'
<1> SUFFICES ASSUME TypeOK, [Next]_vars PROVE TypeOK'
  OBVIOUS
<1>1. ASSUME NEW h \in Callers, NEW u \in Units, DeployRequest(h, u) \/ RollbackRequest(h, u)
      PROVE  TypeOK'
  BY <1>1, JobBeginType
<1>2. ASSUME NEW u \in Units, QueueRequest(u) \/ StopRequest(u) PROVE TypeOK'
  BY <1>2, QueueRequestType, StopType DEF StopRequest, TypeOK, depVars, dbVars, proxyVars
<1>3. ASSUME NEW h \in Callers, WorkerTake(h) \/ JobStep(h) PROVE TypeOK'
  BY <1>3, JobBeginType, UnitExists, JobStepType
<1>4. CASE Restart
  <2>1. RuntimeTypeOK'
    BY <1>4, ReturnType DEF Restart, TypeOK, Crash, RuntimeTypeOK
  <2> QED BY <1>4, <2>1, NullTypes DEF Restart, TypeOK, dbVars, proxyVars
<1>5. CASE UNCHANGED vars
  BY <1>5 DEF TypeOK, vars, rtVars, depVars, dbVars, proxyVars, RuntimeTypeOK
<1> QED BY <1>1, <1>2, <1>3, <1>4, <1>5 DEF Next

\* Every variable keeps its type.
THEOREM TypeCorrect == Spec => []TypeOK
  BY InitType, NextType, PTL DEF Spec

----------------------------------------------------------------------------
(* The inductive invariant.                                                *)

\* Whoever is inside the locked part of deploy_sync holds its project's lock.
LockHeld == \A h \in Callers : InPipeline(h) => lock[Project(job[h].unit)] = h

\* Ids are given out in order: a row that was not inserted yet is blank.
FreshRows == \A i \in Ids : nRows < i => row[i] = Blank

\* What a job knows of its row, stage by stage.
RowKnown(h) ==
    /\ job[h].rec # 0 => job[h].rec <= nRows /\ row[job[h].rec].unit = job[h].unit
    /\ job[h].at = "idle" => job[h].rec = 0
    /\ job[h].op = "deploy" =>
        /\ job[h].at \in {"build", "start", "proxy", "commit", "mark"} => job[h].rec # 0
        /\ job[h].at \in {"lock", "checkout", "build"} /\ job[h].rec # 0 =>
              row[job[h].rec].status = "building" /\ row[job[h].rec].image = NoImage
        /\ job[h].at = "build" => job[h].image \in Images
        /\ job[h].at \in {"start", "proxy", "commit"} =>
              /\ row[job[h].rec].status = "building"
              /\ row[job[h].rec].image # NoImage
    /\ job[h].op = "rollback" =>
        /\ job[h].at \in {"start", "proxy", "commit", "mark"}
        /\ job[h].at # "mark" => job[h].rec = 0 /\ Log!Released(job[h].unit, job[h].image)
        /\ job[h].at = "mark" => job[h].rec # 0
        /\ job[h].image \in Images
    /\ job[h].at = "mark" => row[job[h].rec].status \in {"running", "stopped"}

RowsKnown == \A h \in Callers : RowKnown(h)

\* A queued id names a row that waits to be built.
QueuedRows == \A m \in 1..Len(queue) :
    queue[m] <= nRows /\ row[queue[m]].image = NoImage

IInv == /\ TypeOK /\ LockHeld /\ FreshRows /\ RowsKnown
        /\ QueuedRows /\ SingleWriter /\ RunningUnique

----------------------------------------------------------------------------
(* The lock.                                                               *)

\* A job step of thread h leaves the jobs of the other threads alone; h stays
\* on its unit and its kind of job, or is done.
LEMMA JobStepLocal ==
  ASSUME TypeOK, NEW h \in Callers, JobStep(h)
  PROVE  /\ \A g \in Callers \ {h} : job'[g] = job[g]
         /\ \/ job'[h] = NoJob
            \/ job'[h].unit = job[h].unit /\ job'[h].op = job[h].op
<1> job \in [Callers -> Job] /\ job[h] \in Job
  BY DEF TypeOK
<1>1. CASE Acquire(h) \/ RuntimeStep(h) \/ Build(h) \/ Configure(h)
  BY <1>1 DEF Acquire, RuntimeStep, Build, Configure, JobGoes, depVars, Job
<1>2. CASE Busy(h) \/ Unlock(h)
  BY <1>2 DEF Busy, Unlock
<1>3. CASE CheckoutFails(h) \/ BuildFails(h) \/ StartFails(h) \/ ConfigureFails(h) \/ Mark(h)
  BY <1>3 DEF CheckoutFails, BuildFails, StartFails, ConfigureFails, Mark, JobEnds, Job
<1>4. ASSUME NEW i \in Images, Checkout(h, i)
      PROVE  /\ \A g \in Callers \ {h} : job'[g] = job[g]
             /\ job'[h].unit = job[h].unit /\ job'[h].op = job[h].op
  BY <1>4 DEF Checkout, Job
<1>5. CASE Started(h)
  BY <1>5 DEF Started, Job
<1>6. CASE Commit(h)
  BY <1>6 DEF Commit, JobGoes, Job
<1> QED BY <1>1, <1>2, <1>3, <1>4, <1>5, <1>6 DEF JobStep

\* Only the step that takes the lock enters the locked part.
LEMMA PipelineEntry ==
  ASSUME TypeOK, NEW h \in Callers, JobStep(h), ~Acquire(h), InPipeline(h)'
  PROVE  InPipeline(h)
<1> job \in [Callers -> Job] /\ job[h] \in Job
  BY DEF TypeOK
<1> USE DEF InPipeline, Job
<1>1. CASE RuntimeStep(h) \/ Build(h) \/ Configure(h)
  BY <1>1 DEF RuntimeStep, Build, Configure, JobGoes, depVars
<1>2. CASE Busy(h) \/ Unlock(h)
  BY <1>2 DEF Busy, Unlock, NoJob
<1>3. CASE CheckoutFails(h) \/ BuildFails(h) \/ StartFails(h) \/ ConfigureFails(h) \/ Mark(h)
  BY <1>3 DEF CheckoutFails, BuildFails, StartFails, ConfigureFails, Mark, JobEnds, NoJob
<1>4. ASSUME NEW i \in Images, Checkout(h, i) PROVE InPipeline(h)
  BY <1>4 DEF Checkout
<1>5. CASE Started(h)
  BY <1>5 DEF Started
<1>6. CASE Commit(h)
  BY <1>6 DEF Commit
<1> QED BY <1>1, <1>2, <1>3, <1>4, <1>5, <1>6 DEF JobStep

LEMMA LockHeldStep ==
  ASSUME TypeOK, RowsKnown, LockHeld, [Next]_vars
  PROVE  LockHeld'
<1> SUFFICES ASSUME NEW g \in Callers, InPipeline(g)'
             PROVE  lock'[Project(job'[g].unit)] = g
  BY DEF LockHeld
<1> USE DEF LockHeld
<1> job \in [Callers -> Job] /\ lock \in [Projects -> Callers \cup {None}]
  BY DEF TypeOK
<1>1. ASSUME NEW h \in Callers, NEW u \in Units,
             DeployRequest(h, u) \/ RollbackRequest(h, u) \/ WorkerTake(h)
      PROVE  lock'[Project(job'[g].unit)] = g
  <2>1. CASE g = h
    <3>1. job'[h].at = "lock" \/ job'[h].op = "rollback"
      <4>1. CASE DeployRequest(h, u)
        BY <4>1 DEF DeployRequest, NoJob
      <4>2. CASE RollbackRequest(h, u)
        BY <4>2 DEF RollbackRequest, NoJob
      <4>3. CASE WorkerTake(h)
        BY <4>3 DEF WorkerTake, NoJob
      <4> QED BY <1>1, <4>1, <4>2, <4>3
    <3> QED BY <2>1, <3>1 DEF InPipeline
  <2>2. CASE g # h
    BY <1>1, <2>2 DEF DeployRequest, RollbackRequest, WorkerTake, InPipeline
  <2> QED BY <2>1, <2>2
<1>2. ASSUME NEW u \in Units, QueueRequest(u) \/ StopRequest(u)
      PROVE  lock'[Project(job'[g].unit)] = g
  BY <1>2 DEF QueueRequest, StopRequest, depVars, InPipeline
<1>3. ASSUME NEW h \in Callers, JobStep(h)
      PROVE  lock'[Project(job'[g].unit)] = g
  <2>1. CASE Acquire(h)
    <3>1. CASE g = h
      BY <2>1, <3>1 DEF Acquire, JobGoes, Job, Units, Project
    <3>2. CASE g # h
      BY <2>1, <3>2, DeployerAssumption DEF Acquire, JobGoes, InPipeline
    <3> QED BY <3>1, <3>2
  <2>2. CASE Unlock(h)
    <3>1. g # h /\ job'[g] = job[g]
      BY <1>3, <2>2 DEF Unlock, NoJob, InPipeline
    <3>2. lock[Project(job[h].unit)] = h
      <4>1. job[h].op = "deploy"
        BY <2>2 DEF Unlock, RowsKnown, RowKnown, Job
      <4> QED BY <2>2, <4>1 DEF Unlock, InPipeline
    <3> QED BY <2>2, <3>1, <3>2 DEF Unlock, InPipeline
  <2>3. CASE ~Acquire(h) /\ ~Unlock(h)
    <3>1. lock' = lock
      BY <1>3, <2>3 DEF JobStep, Busy, Checkout, CheckoutFails, Build, BuildFails,
         RuntimeStep, Started, StartFails, Configure, ConfigureFails, Commit, Mark, depVars
    <3>2. InPipeline(g) /\ job'[g].unit = job[g].unit
      <4>1. CASE g = h
        <5>1. InPipeline(g)
          BY <1>3, <2>3, <4>1, PipelineEntry
        <5>2. job'[g] # NoJob
          BY DEF InPipeline, NoJob
        <5> QED BY <1>3, <4>1, <5>1, <5>2, JobStepLocal
      <4>2. CASE g # h
        BY <1>3, <4>2, JobStepLocal DEF InPipeline
      <4> QED BY <4>1, <4>2
    <3> QED BY <3>1, <3>2
  <2> QED BY <2>1, <2>2, <2>3
<1>4. CASE Restart
  BY <1>4 DEF Restart, InPipeline, NoJob
<1>5. CASE UNCHANGED vars
  BY <1>5 DEF vars, depVars, InPipeline
<1> QED BY <1>1, <1>2, <1>3, <1>4, <1>5, UnitExists DEF Next

----------------------------------------------------------------------------
(* The deployments table.                                                  *)

\* What a job step can write: nothing, the outcome or the image of its own
\* building row, a new row, or the supersession of the other rows.
Keeps == UNCHANGED dbVars
Ends(h, s) == /\ job[h].rec # 0 /\ row[job[h].rec].status = "building"
              /\ row' = [row EXCEPT ![job[h].rec].status = s]
              /\ nRows' = nRows
Tags(h) == /\ job[h].rec # 0 /\ row[job[h].rec].status = "building"
           /\ row[job[h].rec].image = NoImage /\ job[h].image \in Images
           /\ row' = [row EXCEPT ![job[h].rec].image = job[h].image]
           /\ nRows' = nRows
Opens(h) == /\ job[h].rec = 0 /\ Insert(job[h].unit, "building", NoImage)
Writes(h) == \/ Keeps \/ Ends(h, "failed") \/ Tags(h) \/ Opens(h)
             \/ Commit(h) /\ job[h].op = "deploy" /\ Ends(h, "running")
             \/ Commit(h) /\ job[h].op = "rollback" /\ job[h].rec = 0
             \/ Mark(h)

LEMMA JobStepWrites ==
  ASSUME TypeOK, RowsKnown, NEW h \in Callers, JobStep(h)
  PROVE  Writes(h)
<1> job[h] \in Job /\ RowKnown(h)
  BY DEF TypeOK, RowsKnown
<1> USE DEF RowKnown, Writes, Job
<1>1. CASE Acquire(h) \/ CheckoutFails(h) \/ RuntimeStep(h) \/ Started(h)
             \/ Configure(h) \/ Unlock(h)
  BY <1>1 DEF Acquire, CheckoutFails, RuntimeStep, Started, Configure, Unlock,
              Keeps, dbVars, depVars
<1>2. CASE Busy(h)
  <2>1. job[h].at = "lock" /\ job[h].op = "deploy"
    BY <1>2 DEF Busy
  <2> QED BY <1>2, <2>1 DEF Busy, Keeps, Ends, dbVars
<1>3. ASSUME NEW i \in Images, Checkout(h, i) PROVE Writes(h)
  BY <1>3 DEF Checkout, Keeps, Opens
<1>4. CASE Build(h)
  <2>1. job[h].at = "build" /\ job[h].op = "deploy"
    BY <1>4 DEF Build
  <2> QED BY <1>4, <2>1 DEF Build, Tags
<1>5. CASE BuildFails(h) \/ StartFails(h) \/ ConfigureFails(h)
  <2>1. job[h].at \in {"build", "start", "proxy"} /\ nRows' = nRows
    BY <1>5 DEF BuildFails, StartFails, ConfigureFails
  <2>2. RecordFailed(h) \/ row' = row
    BY <1>5 DEF BuildFails, StartFails, ConfigureFails
  <2> QED BY <2>1, <2>2 DEF RecordFailed, Keeps, Ends, dbVars
<1>6. CASE Commit(h)
  <2>1. job[h].at = "commit"
    BY <1>6 DEF Commit
  <2> QED BY <1>6, <2>1 DEF Commit, Ends
<1>7. CASE Mark(h)
  BY <1>7
<1> QED BY <1>1, <1>2, <1>3, <1>4, <1>5, <1>6, <1>7 DEF JobStep

\* The row a job holds is its own.
Settled(i) == row[i].status \in {"running", "stopped"}

\* No row is taken from another job, and a settled row stays settled, with
\* its unit and image.
LEMMA JobStepTable ==
  ASSUME TypeOK, RowsKnown, FreshRows, NEW h \in Callers, JobStep(h)
  PROVE  /\ nRows <= nRows' /\ FreshRows'
         /\ \A i \in Ids : i <= nRows =>
              /\ row'[i].unit = row[i].unit
              /\ i # job[h].rec =>
                   /\ row'[i].image = row[i].image
                   /\ row'[i].status # row[i].status => Settled(i) /\ Settled(i)'
              /\ Settled(i) => Settled(i)' /\ row'[i].image = row[i].image
<1> USE DEF Settled
<1> row \in [Ids -> Row] /\ nRows \in 0..MaxStarts /\ Ids = 1..MaxStarts
  BY DEF TypeOK, Ids
<1> MaxStarts \in Nat
  BY RuntimeAssumption
<1> job[h].rec \in Ids \cup {0} /\ job[h].rec <= nRows
  <2>1. job[h].rec \in Ids \cup {0}
    BY DEF TypeOK, Job
  <2> QED BY <2>1 DEF RowsKnown, RowKnown
<1>1. CASE Keeps
  BY <1>1 DEF Keeps, dbVars, FreshRows
<1>2. ASSUME NEW s \in {"failed", "running"}, Ends(h, s)
      PROVE  /\ nRows <= nRows' /\ FreshRows'
             /\ \A i \in Ids : i # job[h].rec => row'[i] = row[i]
             /\ row'[job[h].rec].unit = row[job[h].rec].unit
             /\ ~Settled(job[h].rec)
  BY <1>2 DEF Ends, FreshRows, Row
<1>3. CASE Tags(h)
  BY <1>3 DEF Tags, FreshRows, Row
<1>4. ASSUME NEW u, NEW s, NEW i, Insert(u, s, i)
      PROVE  /\ nRows <= nRows' /\ FreshRows'
             /\ \A k \in Ids : k <= nRows => row'[k] = row[k]
  BY <1>4 DEF Insert, FreshRows
<1>5. CASE Mark(h)
  <2>1. \A i \in Ids : \/ row'[i] = row[i]
                       \/ /\ row[i].status = "running"
                          /\ row'[i] = [row[i] EXCEPT !.status = "stopped"]
    BY <1>5 DEF Mark
  <2>2. \A i \in Ids : nRows < i => row'[i] = row[i]
    <3>1. Blank.status # "running"
      BY DEF Blank
    <3> QED BY <2>1, <3>1 DEF FreshRows
  <2>3. nRows' = nRows
    BY <1>5 DEF Mark
  <2>4. FreshRows'
    BY <2>2, <2>3 DEF FreshRows
  <2>5. \A i \in Ids : /\ row'[i].unit = row[i].unit
                       /\ row'[i].image = row[i].image
                       /\ row'[i].status # row[i].status => Settled(i) /\ Settled(i)'
                       /\ Settled(i) => Settled(i)'
    <3>1. \A i \in Ids : row[i] \in Row
      OBVIOUS
    <3> HIDE DEF Settled
    <3>2. \A i \in Ids : row'[i] = row[i] => (Settled(i) <=> Settled(i)')
      BY DEF Settled
    <3>3. \A i \in Ids : /\ row[i].status = "running"
                         /\ row'[i] = [row[i] EXCEPT !.status = "stopped"]
                         => /\ row'[i].unit = row[i].unit
                            /\ row'[i].image = row[i].image
                            /\ Settled(i) /\ Settled(i)'
      BY <3>1 DEF Row, Settled
    <3> QED BY <2>1, <3>2, <3>3
  <2> QED BY <2>3, <2>4, <2>5
<1>6. CASE Commit(h) /\ job[h].op = "rollback"
  BY <1>4, <1>6 DEF Commit
<1>7. CASE Ends(h, "failed") \/ Ends(h, "running")
  BY <1>2, <1>7
<1>8. CASE Opens(h)
  BY <1>4, <1>8 DEF Opens
<1> QED BY <1>1, <1>3, <1>5, <1>6, <1>7, <1>8, JobStepWrites DEF Writes

\* What some row of a unit has released stays released.
LEMMA ReleasedStays ==
  ASSUME TypeOK, RowsKnown, FreshRows, NEW h \in Callers, JobStep(h),
         NEW u, NEW i, Log!Released(u, i)
  PROVE  Log!Released(u, i)'
<1>1. PICK k \in Ids : row[k].unit = u /\ row[k].image = i /\ Settled(k)
  BY DEF Log!Released, Settled
<1>2. k <= nRows
  <2>1. Blank.status \notin {"running", "stopped"}
    BY DEF Blank
  <2> QED BY <1>1, <2>1, RuntimeAssumption DEF FreshRows, Settled, TypeOK, Ids
<1>3. row'[k].unit = u /\ row'[k].image = i /\ Settled(k)'
  BY <1>1, <1>2, JobStepTable
<1> QED BY <1>3 DEF Log!Released, Settled

\* The job that ends knows nothing; the one that goes to the `finally` only
\* keeps its row.
LEMMA JobEndsKnown ==
  ASSUME TypeOK, RowsKnown, FreshRows, NEW h \in Callers, JobStep(h), JobEnds(h)
  PROVE  RowKnown(h)'
<1> job \in [Callers -> Job] /\ job[h] \in Job /\ RowKnown(h)
  BY DEF TypeOK, RowsKnown
<1>1. CASE job[h].op = "deploy"
  <2>1. job'[h] = [job[h] EXCEPT !.at = "unlock"]
    BY <1>1 DEF JobEnds
  <2>2. job[h].rec # 0 => job[h].rec <= nRows' /\ row'[job[h].rec].unit = job[h].unit
    <3>1. job[h].rec # 0 => /\ job[h].rec \in Ids /\ job[h].rec <= nRows
                             /\ row[job[h].rec].unit = job[h].unit
      BY DEF RowKnown, Job
    <3>2. nRows \in Nat /\ nRows' \in Nat /\ nRows <= nRows' /\ Ids \subseteq Nat
      BY JobStepTable, JobStepType DEF TypeOK, Ids
    <3>3. ASSUME NEW r \in Ids, r = job[h].rec PROVE r <= nRows' /\ row'[r].unit = row[r].unit
      BY <3>1, <3>2, <3>3, JobStepTable
    <3> QED BY <3>1, <3>3
  <2> QED BY <1>1, <2>1, <2>2 DEF RowKnown, Job
<1>2. CASE job[h].op # "deploy"
  BY <1>2 DEF JobEnds, NoJob, RowKnown
<1> QED BY <1>1, <1>2

LEMMA RowKnownOwn ==
  ASSUME TypeOK, RowsKnown, FreshRows, NEW h \in Callers, JobStep(h)
  PROVE  RowKnown(h)'
<1> /\ job \in [Callers -> Job] /\ job[h] \in Job /\ RowKnown(h)
    /\ row \in [Ids -> Row] /\ nRows \in 0..MaxStarts /\ MaxStarts \in Nat
    /\ Ids = 1..MaxStarts
  BY RuntimeAssumption DEF TypeOK, RowsKnown, Ids
<1> USE DEF RowKnown, Job
<1>1. CASE Busy(h) \/ Unlock(h)
  BY <1>1 DEF Busy, Unlock, NoJob
<1>2. CASE CheckoutFails(h) \/ BuildFails(h) \/ StartFails(h) \/ ConfigureFails(h) \/ Mark(h)
  <2>1. JobEnds(h)
    BY <1>2 DEF CheckoutFails, BuildFails, StartFails, ConfigureFails, Mark
  <2> QED BY <2>1, JobEndsKnown
<1>3. ASSUME row' = row, nRows' = nRows, job'[h] \in Job,
             job'[h].rec = job[h].rec, job'[h].op = job[h].op,
             job'[h].unit = job[h].unit, job'[h].image = job[h].image,
             \/ job'[h].at = job[h].at
             \/ job[h].at = "lock" /\ job'[h].at = "checkout"
             \/ job[h].at = "start" /\ job'[h].at = "proxy"
             \/ job[h].at = "proxy" /\ job'[h].at = "commit"
      PROVE  RowKnown(h)'
  BY <1>3 DEF Log!Released
<1>4. CASE Acquire(h) \/ RuntimeStep(h) \/ Started(h) \/ Configure(h)
  BY <1>3, <1>4, JobStepType
  DEF Acquire, RuntimeStep, Started, Configure, JobGoes, depVars, dbVars, TypeOK
<1>5. ASSUME NEW i \in Images, Checkout(h, i) PROVE RowKnown(h)'
  <2>1. CASE job[h].rec = 0
    BY <1>5, <2>1 DEF Checkout, Insert
  <2>2. CASE job[h].rec # 0
    BY <1>5, <2>2 DEF Checkout, dbVars
  <2> QED BY <2>1, <2>2
<1>6. CASE Build(h)
  BY <1>6, RuntimeAssumption DEF Build, JobGoes
<1>7. CASE Commit(h)
  <2>1. CASE job[h].op = "deploy"
    <3>1. /\ job[h].at = "commit" /\ nRows' = nRows
          /\ row' = [row EXCEPT ![job[h].rec].status = "running"]
          /\ job'[h] = [job[h] EXCEPT !.at = "mark"]
      BY <1>7, <2>1 DEF Commit, JobGoes
    <3>2. job[h].rec \in Ids /\ job[h].rec <= nRows /\ row[job[h].rec].unit = job[h].unit
      BY <2>1, <3>1
    <3>3. row'[job[h].rec].status = "running" /\ row'[job[h].rec].unit = job[h].unit
      BY <3>1, <3>2 DEF Row
    <3> QED BY <2>1, <3>1, <3>2, <3>3
  <2>2. CASE job[h].op = "rollback"
    <3>1. /\ nRows + 1 \in Ids /\ nRows' = nRows + 1
          /\ row'[nRows + 1] = [unit |-> job[h].unit, status |-> "running",
                                image |-> job[h].image]
      BY <1>7, <2>2 DEF Commit, Insert
    <3>2. job'[h] = [job[h] EXCEPT !.at = "mark", !.rec = nRows + 1]
      BY <1>7, <2>2 DEF Commit
    <3> QED BY <2>2, <3>1, <3>2
  <2> QED BY <2>1, <2>2
<1> QED BY <1>1, <1>2, <1>4, <1>5, <1>6, <1>7 DEF JobStep

LEMMA RowKnownOther ==
  ASSUME TypeOK, RowsKnown, FreshRows, SingleWriter,
         NEW h \in Callers, JobStep(h), NEW g \in Callers, g # h
  PROVE  RowKnown(g)'
<1>1. job'[g] = job[g] /\ RowKnown(g) /\ job[g] \in Job
  BY JobStepLocal DEF RowsKnown, TypeOK
<1>2. CASE job[g].rec = 0
  <2>1. job[g].at # "mark" /\ nRows' \in Nat
    BY <1>1, <1>2, JobStepType DEF RowKnown, Job, TypeOK
  <2> QED BY <1>1, <1>2, <2>1, ReleasedStays DEF RowKnown
<1>3. CASE job[g].rec # 0
  <2>1. PICK r \in Ids : r = job[g].rec
    BY <1>1, <1>3 DEF Job
  <2>2. r <= nRows /\ r # job[h].rec
    BY <1>1, <1>3, <2>1 DEF RowKnown, SingleWriter
  <2>3. /\ row'[r].unit = row[r].unit /\ row'[r].image = row[r].image
        /\ row'[r].status # row[r].status => Settled(r) /\ Settled(r)'
        /\ Settled(r) => Settled(r)'
        /\ nRows <= nRows'
    BY <2>2, JobStepTable
  <2>4. r <= nRows'
    BY <2>2, <2>3, JobStepType DEF TypeOK, Ids
  <2>5. /\ row[r].status = "building" => row'[r].status = "building"
        /\ row[r].status \in {"running", "stopped"} =>
              row'[r].status \in {"running", "stopped"}
    BY <2>3 DEF Settled
  <2> QED BY <1>1, <1>3, <2>1, <2>3, <2>4, <2>5, ReleasedStays DEF RowKnown, Job
<1> QED BY <1>2, <1>3

\* The row of a job that goes on is the one it had, or one it just inserted.
LEMMA JobStepRec ==
  ASSUME TypeOK, RowsKnown, NEW h \in Callers, JobStep(h)
  PROVE  \/ job'[h].rec \in {0, job[h].rec}
         \/ job[h].rec = 0 /\ job'[h].rec = nRows + 1
<1> job \in [Callers -> Job] /\ job[h] \in Job /\ RowKnown(h)
  BY DEF TypeOK, RowsKnown
<1> USE DEF Job
<1>1. CASE Acquire(h) \/ RuntimeStep(h) \/ Build(h) \/ Configure(h) \/ Started(h)
  BY <1>1 DEF Acquire, RuntimeStep, Build, Configure, Started, JobGoes, depVars
<1>2. CASE Busy(h) \/ Unlock(h)
  BY <1>2 DEF Busy, Unlock, NoJob
<1>3. CASE CheckoutFails(h) \/ BuildFails(h) \/ StartFails(h) \/ ConfigureFails(h) \/ Mark(h)
  BY <1>3 DEF CheckoutFails, BuildFails, StartFails, ConfigureFails, Mark, JobEnds, NoJob
<1>4. ASSUME NEW i \in Images, Checkout(h, i)
      PROVE  \/ job'[h].rec \in {0, job[h].rec}
             \/ job[h].rec = 0 /\ job'[h].rec = nRows + 1
  BY <1>4 DEF Checkout
<1>5. CASE Commit(h)
  BY <1>5 DEF Commit, JobGoes, RowKnown
<1> QED BY <1>1, <1>2, <1>3, <1>4, <1>5 DEF JobStep

LEMMA JobStepQueue ==
  ASSUME NEW h \in Callers, JobStep(h)
  PROVE  queue' = queue /\ crashes' = crashes
BY DEF JobStep, Acquire, Busy, Checkout, CheckoutFails, Build, BuildFails, RuntimeStep,
       Started, StartFails, Configure, ConfigureFails, Commit, Mark, Unlock, depVars

\* The queue's rows are nobody else's.
LEMMA JobStepSingle ==
  ASSUME TypeOK, RowsKnown, FreshRows, QueuedRows, SingleWriter,
         NEW h \in Callers, JobStep(h)
  PROVE  QueuedRows' /\ SingleWriter'
<1>1. queue' = queue /\ \A m \in 1..Len(queue) : queue[m] \in Ids
  BY JobStepQueue DEF TypeOK
<1>2. ASSUME NEW m \in 1..Len(queue)
      PROVE  /\ queue[m] <= nRows' /\ row'[queue[m]].image = NoImage
             /\ row'[queue[m]].status = "building"
             /\ queue[m] # 0 /\ queue[m] # nRows + 1
  <2>1. PICK r \in Ids : r = queue[m]
    BY <1>1
  <2>2. r # job[h].rec /\ r <= nRows /\ row[r].image = NoImage /\ row[r].status = "building"
    BY <1>2, <2>1 DEF SingleWriter, QueuedRows
  <2>3. row'[r].image = NoImage /\ row'[r].status = "building" /\ nRows <= nRows'
    BY <2>2, JobStepTable DEF Settled
  <2>4. r <= nRows' /\ r # 0 /\ r # nRows + 1
    BY <2>2, <2>3, JobStepType DEF TypeOK, Ids
  <2> QED BY <2>1, <2>3, <2>4
<1>3. ASSUME NEW g \in Callers, job'[g].rec # 0
      PROVE  /\ \A m \in 1..Len(queue) : job'[g].rec # queue[m]
             /\ \A f \in Callers : job'[f].rec = job'[g].rec => f = g
  <2>1. \A f \in Callers : job[f].rec = 0 \/ job[f].rec # nRows + 1
    BY DEF RowsKnown, RowKnown, TypeOK, Job, Ids
  <2>2. \A f \in Callers : \/ job'[f].rec \in {0, job[f].rec}
                           \/ f = h /\ job'[f].rec = nRows + 1
    BY JobStepRec, JobStepLocal
  <2>3. \A m \in 1..Len(queue) : job'[g].rec # queue[m]
    BY <1>2, <1>3, <2>2 DEF SingleWriter
  <2>4. \A f \in Callers : job'[f].rec = job'[g].rec => f = g
    BY <1>3, <2>1, <2>2 DEF SingleWriter
  <2> QED BY <2>3, <2>4
<1>4. QueuedRows'
  BY <1>1, <1>2 DEF QueuedRows
<1>5. SingleWriter'
  <2>1. \A m \in 1..Len(queue) : \A h1 \in Callers : job'[h1].rec # queue[m]
    BY <1>2, <1>3
  <2>2. \A m, n \in 1..Len(queue) : queue[m] = queue[n] => m = n
    BY DEF SingleWriter
  <2> QED BY <1>1, <1>2, <1>3, <2>1, <2>2 DEF SingleWriter
<1> QED BY <1>4, <1>5

\* A request that starts a job writes no row; the job knows what it selected.
LEMMA JobBeginTable ==
  ASSUME TypeOK, FreshRows, RowsKnown, QueuedRows, SingleWriter,
         NEW h \in Callers, NEW u \in Units,
         DeployRequest(h, u) \/ RollbackRequest(h, u)
  PROVE  FreshRows' /\ RowsKnown' /\ QueuedRows' /\ SingleWriter'
<1>1. /\ row' = row /\ nRows' = nRows /\ queue' = queue
      /\ job[h].at = "idle" /\ job' = [job EXCEPT ![h] = job'[h]]
      /\ job'[h].rec = 0
  BY DEF DeployRequest, RollbackRequest, TypeOK, dbVars, NoJob
<1>2. RowKnown(h)'
  <2>1. CASE DeployRequest(h, u)
    BY <1>1, <2>1 DEF DeployRequest, RowKnown, NoJob, TypeOK
  <2>2. CASE RollbackRequest(h, u)
    <3>1. PICK t \in Candidates(u) : job' = [job EXCEPT ![h] = [NoJob EXCEPT
               !.at = "start", !.op = "rollback", !.unit = u, !.image = row[t].image]]
      BY <2>2 DEF RollbackRequest
    <3>2. Log!Released(u, row[t].image) /\ row[t].image \in Images
      BY DEF Candidates, Built, Log!Released, TypeOK, Row
    <3>3. Log!Released(u, row[t].image)'
      BY <1>1, <3>2 DEF Log!Released
    <3> QED BY <1>1, <3>1, <3>2, <3>3 DEF RowKnown, NoJob, TypeOK, Log!Released
  <2> QED BY <2>1, <2>2
<1>3. \A g \in Callers : g # h => job'[g] = job[g] /\ RowKnown(g)'
  BY <1>1 DEF RowsKnown, RowKnown, Log!Released, TypeOK
<1>4. RowsKnown'
  BY <1>2, <1>3 DEF RowsKnown
<1>5. SingleWriter'
  <2>1. \A g \in Callers : job'[g].rec \in {0, job[g].rec}
    BY <1>1, <1>3
  <2>2. \A f, g \in Callers : job'[f].rec = job'[g].rec /\ job'[f].rec # 0 => f = g
    BY <2>1 DEF SingleWriter
  <2>3. \A m \in 1..Len(queue) : queue[m] # 0
    <3>1. 0 \notin Ids
      BY DEF Ids
    <3>2. \A m \in 1..Len(queue) : queue[m] \in Ids
      BY DEF TypeOK
    <3> QED BY <3>1, <3>2
  <2>4. \A m \in 1..Len(queue), g \in Callers : job'[g].rec # queue[m]
    BY <2>1, <2>3 DEF SingleWriter
  <2> QED BY <1>1, <2>2, <2>4 DEF SingleWriter
<1> QED BY <1>1, <1>4, <1>5 DEF FreshRows, QueuedRows

\* The worker's job takes the row over from the queue.
LEMMA WorkerTakeTable ==
  ASSUME TypeOK, FreshRows, RowsKnown, QueuedRows, SingleWriter,
         NEW h \in Callers, WorkerTake(h)
  PROVE  FreshRows' /\ RowsKnown' /\ QueuedRows' /\ SingleWriter'
<1>1. row' = row /\ nRows' = nRows /\ queue' = Tail(queue) /\ queue # <<>>
  BY DEF WorkerTake, dbVars
<1>2. PICK r \in Ids : r = Head(queue)
  BY <1>1 DEF TypeOK
<1>3. job' = [job EXCEPT ![h] = [NoJob EXCEPT !.at = "lock", !.rec = r,
                                             !.unit = row[r].unit]]
  BY <1>2 DEF WorkerTake
<1>4. /\ Len(queue') = Len(queue) - 1 /\ Len(queue) \in Nat \ {0}
      /\ \A m \in 1..Len(queue') : queue'[m] = queue[m + 1]
      /\ r = queue[1]
  BY <1>1, <1>2 DEF TypeOK
<1>5. /\ r <= nRows /\ row[r].status = "building" /\ row[r].image = NoImage
      /\ \A g \in Callers : job[g].rec # r
      /\ \A m \in 1..Len(queue') : queue'[m] # r
  BY <1>4 DEF SingleWriter, QueuedRows
<1>6. RowKnown(h)'
  BY <1>1, <1>3, <1>5 DEF RowKnown, NoJob, TypeOK
<1>7. \A g \in Callers : g # h => job'[g] = job[g] /\ RowKnown(g)'
  BY <1>1, <1>3 DEF RowsKnown, RowKnown, Log!Released, TypeOK
<1>8. RowsKnown'
  BY <1>6, <1>7 DEF RowsKnown
<1>9. QueuedRows'
  BY <1>1, <1>4 DEF QueuedRows
<1>10. SingleWriter'
  <2>1. job'[h].rec = r
    BY <1>3 DEF NoJob, TypeOK
  <2>2. \A m, n \in 1..Len(queue') : queue'[m] = queue'[n] => m = n
    BY <1>4 DEF SingleWriter
  <2>3. \A m \in 1..Len(queue') : /\ row[queue'[m]].status = "building"
                                  /\ \A g \in Callers : job'[g].rec # queue'[m]
    BY <1>4, <1>5, <1>7, <2>1 DEF SingleWriter
  <2>4. \A g, f \in Callers : job'[g].rec = job'[f].rec /\ job'[g].rec # 0 => g = f
    BY <1>5, <1>7, <2>1 DEF SingleWriter
  <2> QED BY <1>1, <2>2, <2>3, <2>4 DEF SingleWriter
<1> QED BY <1>1, <1>8, <1>9, <1>10 DEF FreshRows

\* deploy_queued inserts a row and queues it.
LEMMA QueueRequestTable ==
  ASSUME TypeOK, FreshRows, RowsKnown, QueuedRows, SingleWriter,
         NEW u \in Units, QueueRequest(u)
  PROVE  FreshRows' /\ RowsKnown' /\ QueuedRows' /\ SingleWriter'
<1> DEFINE n == nRows + 1
<1>1. /\ nRows \in Nat /\ n \in Ids /\ nRows' = n /\ job' = job
      /\ row' = [row EXCEPT ![n] = [unit |-> u, status |-> "building", image |-> NoImage]]
      /\ queue' = Append(queue, n)
  BY RuntimeAssumption DEF QueueRequest, Insert, TypeOK, Ids
<1>2. \A i \in Ids : i # n => row'[i] = row[i]
  BY <1>1
<1>3. row'[n].status = "building" /\ row'[n].image = NoImage
  BY <1>1 DEF TypeOK
<1>4. FreshRows'
  BY <1>1, <1>2 DEF FreshRows, Ids
<1>5. ASSUME NEW g \in Callers PROVE RowKnown(g)' /\ (job[g].rec = 0 \/ job[g].rec # n)
  <2>1. RowKnown(g) /\ job[g] \in Job
    BY DEF RowsKnown, TypeOK
  <2>2. job[g].rec # n
    BY <1>1, <2>1 DEF RowKnown, Job, Ids
  <2>3. ASSUME NEW v, NEW i, Log!Released(v, i) PROVE Log!Released(v, i)'
    <3>1. PICK k \in Ids : /\ row[k].unit = v /\ row[k].image = i
                           /\ row[k].status \in {"running", "stopped"}
      BY <2>3 DEF Log!Released
    <3>2. row[n].status = "none"
      BY <1>1, NullFields DEF FreshRows
    <3> QED BY <1>2, <3>1, <3>2 DEF Log!Released
  <2>4. job[g].rec # 0 => job[g].rec <= n /\ row'[job[g].rec] = row[job[g].rec]
    BY <1>1, <1>2, <2>1, <2>2 DEF RowKnown, Job, Ids
  <2> QED BY <1>1, <2>1, <2>2, <2>3, <2>4 DEF RowKnown, Job
<1>6. RowsKnown'
  BY <1>5 DEF RowsKnown
<1>7. /\ Len(queue') = Len(queue) + 1 /\ Len(queue) \in Nat
      /\ \A m \in 1..Len(queue) : queue'[m] = queue[m] /\ queue[m] \in Ids
      /\ queue'[Len(queue')] = n
  BY <1>1 DEF TypeOK
<1>8. \A m \in 1..Len(queue) : queue[m] # n /\ queue[m] <= nRows
  BY <1>1, <1>7 DEF QueuedRows, Ids
<1>9. QueuedRows'
  BY <1>1, <1>2, <1>3, <1>7, <1>8 DEF QueuedRows, Ids
<1>10. SingleWriter'
  <2>1. \A m, l \in 1..Len(queue') : queue'[m] = queue'[l] => m = l
    BY <1>7, <1>8 DEF SingleWriter
  <2>2. ASSUME NEW m \in 1..Len(queue')
        PROVE  row'[queue'[m]].status = "building" /\ \A g \in Callers : job[g].rec # queue'[m]
    BY <1>1, <1>2, <1>3, <1>5, <1>7, <1>8 DEF SingleWriter, Ids
  <2> QED BY <1>1, <2>1, <2>2 DEF SingleWriter
<1> QED BY <1>4, <1>6, <1>9, <1>10

\* A restart empties the queue and ends the jobs; the table stays.
LEMMA RestartTable ==
  ASSUME TypeOK, FreshRows, Restart
  PROVE  FreshRows' /\ RowsKnown' /\ QueuedRows' /\ SingleWriter'
<1>1. /\ row' = row /\ nRows' = nRows /\ queue' = <<>>
      /\ \A h \in Callers : job'[h] = NoJob
  BY DEF Restart, dbVars
<1>2. RowsKnown'
  BY <1>1, NullFields DEF RowsKnown, RowKnown
<1>3. SingleWriter'
  BY <1>1, NullFields DEF SingleWriter
<1> QED BY <1>1, <1>2, <1>3 DEF FreshRows, QueuedRows

LEMMA TableStep ==
  ASSUME TypeOK, FreshRows, RowsKnown, QueuedRows, SingleWriter, [Next]_vars
  PROVE  FreshRows' /\ RowsKnown' /\ QueuedRows' /\ SingleWriter'
<1>1. ASSUME NEW h \in Callers, JobStep(h)
      PROVE  FreshRows' /\ RowsKnown' /\ QueuedRows' /\ SingleWriter'
  BY <1>1, JobStepTable, RowKnownOwn, RowKnownOther, JobStepSingle DEF RowsKnown
<1>2. CASE UNCHANGED depVars
  BY <1>2 DEF FreshRows, RowsKnown, RowKnown, QueuedRows, SingleWriter, depVars, dbVars,
              Log!Released
<1>3. ASSUME NEW u \in Units, QueueRequest(u) \/ StopRequest(u)
      PROVE  FreshRows' /\ RowsKnown' /\ QueuedRows' /\ SingleWriter'
  BY <1>2, <1>3, QueueRequestTable DEF StopRequest
<1>4. CASE UNCHANGED vars
  BY <1>2, <1>4 DEF vars
<1> QED BY <1>1, <1>3, <1>4, JobBeginTable, WorkerTakeTable, RestartTable DEF Next

----------------------------------------------------------------------------
(* One running row per unit.                                               *)

\* Only Commit makes a row running, the row of its job.
LEMMA OnlyCommitRuns ==
  ASSUME TypeOK, RowsKnown, NEW h \in Callers, JobStep(h),
         NEW i \in Ids, row'[i].status = "running", row[i].status # "running"
  PROVE  Commit(h) /\ job'[h].rec = i
<1> row \in [Ids -> Row] /\ job \in [Callers -> Job] /\ job[h] \in Job
  BY DEF TypeOK
<1>1. CASE Keeps \/ Ends(h, "failed") \/ Tags(h) \/ Opens(h)
  BY <1>1 DEF Keeps, Ends, Tags, Opens, Insert, dbVars, Row
<1>2. CASE Commit(h) /\ job[h].op = "deploy" /\ Ends(h, "running")
  BY <1>2 DEF Commit, Ends, JobGoes, Job
<1>3. CASE Commit(h) /\ job[h].op = "rollback"
  BY <1>3 DEF Commit, Insert, Job
<1>4. CASE Mark(h)
  BY <1>4 DEF Mark, Row
<1> QED BY <1>1, <1>2, <1>3, <1>4, JobStepWrites DEF Writes

LEMMA RunningUniqueStep ==
  ASSUME TypeOK, FreshRows, RowsKnown, SingleWriter, RunningUnique, [Next]_vars
  PROVE  RunningUnique'
<1> SUFFICES ASSUME crashes' = 0, NEW i \in Ids, NEW j \in Ids, i # j,
                    row'[i].unit = row'[j].unit,
                    row'[i].status = "running", row'[j].status = "running"
             PROVE  \E h \in Callers : job'[h].at = "mark" /\ job'[h].rec \in {i, j}
  BY DEF RunningUnique
<1> DEFINE Goal == \E h \in Callers : job'[h].at = "mark" /\ job'[h].rec \in {i, j}
<1> row \in [Ids -> Row] /\ job \in [Callers -> Job]
  BY DEF TypeOK
<1>1. ASSUME NEW h \in Callers, JobStep(h) PROVE Goal
  <2>1. CASE row[i].status # "running" \/ row[j].status # "running"
    <3>1. Commit(h) /\ job'[h].rec \in {i, j}
      BY <1>1, <2>1, OnlyCommitRuns
    <3>2. job'[h].at = "mark"
      BY <3>1 DEF Commit, JobGoes, Job
    <3> QED BY <3>1, <3>2
  <2>2. CASE row[i].status = "running" /\ row[j].status = "running"
    <3>1. i <= nRows /\ j <= nRows
      BY <2>2, NullFields, RuntimeAssumption DEF FreshRows, TypeOK, Ids
    <3>2. row'[i].unit = row[i].unit /\ row'[j].unit = row[j].unit
      BY <1>1, <3>1, JobStepTable
    <3>3. PICK g \in Callers : job[g].at = "mark" /\ job[g].rec \in {i, j}
      BY <1>1, <2>2, <3>2, JobStepQueue DEF RunningUnique
    <3>4. CASE g # h
      BY <1>1, <3>3, <3>4, JobStepLocal
    <3>5. CASE g = h
      <4>1. CASE RuntimeStep(h)
        BY <3>3, <3>5, <4>1 DEF RuntimeStep, depVars
      <4>2. CASE Mark(h)
        <5>1. row[job[h].rec].unit = job[h].unit
          BY <3>3, <3>5 DEF RowsKnown, RowKnown, Ids
        <5>2. row[i].unit = job[h].unit /\ row[j].unit = job[h].unit
          BY <3>2, <3>3, <3>5, <5>1
        <5>3. \A k \in {i, j} : k # job[h].rec => row'[k].status = "stopped"
          BY <2>2, <4>2, <5>2 DEF Mark, Row
        <5> QED BY <5>3
      <4> QED BY <1>1, <3>3, <3>5, <4>1, <4>2
              DEF JobStep, Acquire, Busy, Checkout, CheckoutFails, Build, BuildFails,
                  Started, StartFails, Configure, ConfigureFails, Commit, Unlock
    <3> QED BY <3>4, <3>5
  <2> QED BY <2>1, <2>2
<1>2. ASSUME UNCHANGED <<row, crashes>>,
             \A g \in Callers : job[g].at = "mark" => job'[g] = job[g]
      PROVE  Goal
  BY <1>2 DEF RunningUnique
<1>3. ASSUME NEW h \in Callers, NEW u \in Units,
             DeployRequest(h, u) \/ RollbackRequest(h, u) \/ WorkerTake(h)
      PROVE  Goal
  BY <1>2, <1>3 DEF DeployRequest, RollbackRequest, WorkerTake, dbVars
<1>4. ASSUME NEW u \in Units, QueueRequest(u) PROVE Goal
  <2>1. row[i].status = "running" /\ row[j].status = "running" /\ row[i].unit = row[j].unit
        /\ job' = job /\ crashes' = crashes
    BY <1>4 DEF QueueRequest, Insert
  <2> QED BY <2>1 DEF RunningUnique
<1>5. ASSUME NEW u \in Units, StopRequest(u) PROVE Goal
  BY <1>2, <1>5 DEF StopRequest, depVars
<1>6. CASE Restart
  BY <1>6 DEF Restart, TypeOK
<1>7. CASE UNCHANGED vars
  BY <1>2, <1>7 DEF vars, depVars
<1> QED BY <1>1, <1>3, <1>4, <1>5, <1>6, <1>7, UnitExists DEF Next

----------------------------------------------------------------------------
(* The theorems.                                                           *)

LEMMA InitInv == Init => IInv
<1> SUFFICES ASSUME Init PROVE IInv
  OBVIOUS
<1>1. /\ nRows = 0 /\ queue = <<>>
      /\ \A h \in Callers : job[h] = NoJob
      /\ \A i \in Ids : row[i] = Blank
  BY DEF Init
<1>2. LockHeld /\ RowsKnown /\ SingleWriter
  BY <1>1, NullFields DEF LockHeld, InPipeline, RowsKnown, RowKnown, SingleWriter
<1>3. FreshRows /\ QueuedRows /\ RunningUnique
  BY <1>1, NullFields DEF FreshRows, QueuedRows, RunningUnique
<1> QED BY <1>2, <1>3, InitType DEF IInv

LEMMA NextInv == IInv /\ [Next]_vars => IInv'
  BY NextType, LockHeldStep, TableStep, RunningUniqueStep DEF IInv

LEMMA Invariance == Spec => []IInv
  BY InitInv, NextInv, PTL DEF Spec

\* Two threads are never in the locked part of deploy_sync for one project.
LEMMA InvExclusion == IInv => LockExclusion
<1> SUFFICES ASSUME IInv, NEW g \in Callers, NEW h \in Callers,
                    InPipeline(g), InPipeline(h),
                    Project(job[g].unit) = Project(job[h].unit)
             PROVE  g = h
  BY DEF LockExclusion
<1> QED BY DEF IInv, LockHeld

THEOREM DeploymentsExclusive == Spec => []LockExclusion
  BY Invariance, InvExclusion, PTL

\* Every building row has one writer: the queue once, or one thread.
THEOREM RowsHaveOneWriter == Spec => []SingleWriter
<1>1. IInv => SingleWriter
  BY DEF IInv
<1> QED BY <1>1, Invariance, PTL

\* Two running rows of a unit only while a thread is about to stop one of
\* them, as long as the control plane has not died.
THEOREM OneRunningRow == Spec => []RunningUnique
<1>1. IInv => RunningUnique
  BY DEF IInv
<1> QED BY <1>1, Invariance, PTL

----------------------------------------------------------------------------
(* The table implements DeploymentLog.                                     *)

LEMMA InitLog == Init => Log!Init
  BY DEF Init, Log!Init

\* Every step of a job is a step of the log, or leaves the table alone.
LEMMA JobStepLog ==
  ASSUME IInv, NEW h \in Callers, JobStep(h)
  PROVE  Log!Next \/ row' = row
<1> /\ row \in [Ids -> Row] /\ job[h] \in Job /\ RowKnown(h)
    /\ nRows \in Nat /\ nRows + 1 # nRows
  BY DEF IInv, TypeOK, RowsKnown
<1> USE DEF Job
<1>1. CASE Keeps
  BY <1>1 DEF Keeps, dbVars
<1>2. CASE Ends(h, "failed")
  <2>1. Log!Fail(job[h].rec)
    BY <1>2 DEF Ends, Log!Fail
  <2> QED BY <1>2, <2>1 DEF Log!Next, Ends
<1>3. CASE Tags(h)
  <2>1. Log!Tag(job[h].rec, job[h].image)
    BY <1>3 DEF Tags, Log!Tag
  <2> QED BY <1>3, <2>1 DEF Log!Next, Tags
<1>4. ASSUME NEW u \in Units, NEW s, NEW i, Insert(u, s, i)
      PROVE  nRows + 1 \in Ids /\ row[nRows + 1].status = "none"
  BY <1>4, NullFields, RuntimeAssumption DEF IInv, FreshRows, Insert, Ids
<1>5. CASE Opens(h)
  <2>1. Log!Open(nRows + 1, job[h].unit)
    BY <1>4, <1>5 DEF Opens, Insert, Log!Open
  <2> QED BY <1>4, <1>5, <2>1 DEF Log!Next, Opens
<1>6. CASE Commit(h) /\ job[h].op = "deploy" /\ Ends(h, "running")
  <2>1. Log!Succeed(job[h].rec)
    BY <1>6 DEF Ends, Commit, RowKnown, Log!Succeed
  <2> QED BY <1>6, <2>1 DEF Log!Next, Ends
<1>7. CASE Commit(h) /\ job[h].op = "rollback"
  <2>1. job[h].image \in Images /\ Log!Released(job[h].unit, job[h].image)
    BY <1>7 DEF Commit, RowKnown
  <2>2. Insert(job[h].unit, "running", job[h].image)
    BY <1>7 DEF Commit
  <2>3. Log!Rollback(nRows + 1, job[h].unit, job[h].image)
    BY <1>4, <2>1, <2>2 DEF Insert, Log!Rollback
  <2> QED BY <1>4, <2>1, <2>2, <2>3 DEF Log!Next
<1>8. CASE Mark(h)
  <2>1. /\ job[h].rec \in Ids /\ row[job[h].rec].unit = job[h].unit
        /\ row[job[h].rec].status \in {"running", "stopped"}
    BY <1>8 DEF Mark, RowKnown
  <2>2. Log!Supersede(job[h].rec)
    BY <1>8, <2>1 DEF Mark, Log!Supersede
  <2> QED BY <2>1, <2>2 DEF Log!Next
<1> QED BY <1>1, <1>2, <1>3, <1>5, <1>6, <1>7, <1>8, JobStepWrites
        DEF Writes, IInv

LEMMA NextLog ==
  ASSUME IInv, [Next]_vars
  PROVE  [Log!Next]_row
<1>1. ASSUME NEW u \in Units, QueueRequest(u) PROVE Log!Next
  <2>1. nRows + 1 \in Ids /\ row[nRows + 1].status = "none"
    BY <1>1, NullFields, RuntimeAssumption
    DEF IInv, TypeOK, FreshRows, QueueRequest, Insert, Ids
  <2>2. Log!Open(nRows + 1, u)
    BY <1>1, <2>1 DEF QueueRequest, Insert, Log!Open
  <2> QED BY <2>1, <2>2 DEF Log!Next
<1>2. ASSUME NEW h \in Callers, JobStep(h) PROVE Log!Next \/ row' = row
  BY <1>2, JobStepLog
<1>3. CASE \/ \E h \in Callers, u \in Units : DeployRequest(h, u) \/ RollbackRequest(h, u)
           \/ \E u \in Units : StopRequest(u)
           \/ \E h \in Callers : WorkerTake(h)
           \/ Restart \/ UNCHANGED vars
  BY <1>3 DEF DeployRequest, RollbackRequest, StopRequest, WorkerTake, Restart, vars,
              depVars, dbVars
<1> QED BY <1>1, <1>2, <1>3 DEF Next

\* The table seen alone: rows are opened once, tagged, end once, and are
\* superseded only by a released row of the same unit; rollback releases only
\* what the unit released before.
THEOREM TableImplementsLog == Spec => ImplementsLog
<1>1. IInv /\ [Next]_vars => [Log!Next]_row
  BY NextLog
<1> QED BY InitLog, <1>1, Invariance, PTL DEF Spec, ImplementsLog, Log!Spec

----------------------------------------------------------------------------
(***************************************************************************)
(* The containers: what start() leaves behind, that a unit keeps a healthy *)
(* container, that rollback only goes back to images that were healthy,    *)
(* and what the routes point to.                                           *)
(***************************************************************************)

----------------------------------------------------------------------------
(* The inductive invariant: what a frame of start() knows of the daemon.   *)

\* A frame belongs to the job of its thread.
FrameOfJob(h) == call[h].at # "idle" =>
    /\ job[h].at = "start"
    /\ call[h].unit = job[h].unit
    /\ call[h].image = job[h].image

\* The container a frame has made is a container of the daemon's making, and
\* there is none before Run.
MineKnown(h) ==
    /\ call[h].mine <= spawned
    /\ call[h].at \in {"idle", "allocate", "find", "run"} => call[h].mine = 0
    /\ call[h].at = "health" => call[h].mine # 0

\* The container a frame has found is older than its own and, as long as it
\* exists, in the other slot of the unit.
OldKnown(h) == call[h].at \in {"run", "health", "retire"} =>
    /\ call[h].old <= spawned
    /\ call[h].at # "run" => call[h].old < call[h].mine
    /\ \A u \in Units, s \in Slots :
          call[h].old # 0 /\ containers[u][s].cid = call[h].old =>
              u = call[h].unit /\ s # call[h].slot

\* A container passes its check when the frame that made it sees it pass.
Unpassed(h) == call[h].at = "health" =>
    \A u \in Units, s \in Slots :
        containers[u][s].cid = call[h].mine => ~containers[u][s].passed

\* Every container has its own id, every frame its own container.
IdsUnique ==
    /\ \A u, v \in Units, s, t \in Slots :
          containers[u][s].cid = containers[v][t].cid /\ containers[u][s].cid # 0
          => u = v /\ s = t
    /\ \A g, h \in Callers : call[g].mine = call[h].mine /\ call[g].mine # 0 => g = h

CidsKnown == \A u \in Units, s \in Slots :
    /\ containers[u][s].cid <= spawned
    /\ containers[u][s].up => containers[u][s].cid # 0

FramesKnown == \A h \in Callers :
    FrameOfJob(h) /\ MineKnown(h) /\ OldKnown(h) /\ Unpassed(h)

\* A deployment releases the image its row is tagged with.
RowImage == \A h \in Callers :
    job[h].op = "deploy" /\ job[h].at \in {"start", "proxy", "commit", "mark"} =>
        row[job[h].rec].image = job[h].image

FInv == /\ IInv /\ CidsKnown /\ IdsUnique /\ FramesKnown /\ RowImage
        /\ CleanFailure

----------------------------------------------------------------------------
(* Until somebody stops an application.                                    *)

\* The container a frame asks for its health stands in the frame's slot, the
\* newest of its unit.
MineStands(h) == call[h].at = "health" =>
    LET u == call[h].unit
        s == call[h].slot IN
    /\ containers[u][s].cid = call[h].mine
    /\ containers[u][s].up
    /\ containers[u][s].port = call[h].port
    /\ \A t \in Slots \ {s} : containers[u][t].cid < call[h].mine

\* While the old container stands, so does the healthy one that replaces it.
Replaced(h) == call[h].at = "retire" /\ call[h].old # 0 /\ Exists(call[h].old) =>
    LET c == containers[call[h].unit][call[h].slot] IN
    c.cid = call[h].mine /\ c.up /\ c.passed

\* A unit that serves serves an image that was healthy in it.
Healthy(u, i) == <<u, i>> \in proven /\ Serving(u)

\* What a start() has found healthy, a job is about to release and a row says
\* was released.
ProvenFrames == \A h \in Callers :
    /\ call[h].at \in {"retire", "ok"} => Healthy(call[h].unit, call[h].image)
    /\ job[h].at \in {"proxy", "commit"} => Healthy(job[h].unit, job[h].image)

ProvenRows == \A i \in Ids : Settled(i) => Healthy(row[i].unit, row[i].image)

SInv == /\ \A h \in Callers : MineStands(h) /\ Replaced(h)
        /\ ProvenFrames /\ ProvenRows

ServingInv == FInv /\ (~stopped => SInv)

----------------------------------------------------------------------------
(* Steps of start().                                                       *)

LEMMA NullContainer == /\ NoContainer.cid = 0 /\ ~NoContainer.up
                       /\ NoCall.at = "idle" /\ NoCall.mine = 0
  BY DEF NoContainer, NoCall

\* A step of start() is a step of one frame, which keeps its unit and image.
LEMMA StartStepLocal ==
  ASSUME RuntimeTypeOK, NEW h \in Callers, StartStep(h) \/ NoDaemon(h)
  PROVE  /\ \A g \in Callers \ {h} : call'[g] = call[g]
         /\ call'[h].unit = call[h].unit /\ call'[h].image = call[h].image
         /\ call[h].at \in {"allocate", "find", "run", "health", "retire"}
         /\ call'[h].at # "idle"
<1> call \in [Callers -> Frame] /\ call[h] \in Frame
  BY DEF RuntimeTypeOK
<1> USE DEF Frame, Outcomes
<1>1. CASE Allocate(h) \/ NoDaemon(h)
  BY <1>1 DEF Allocate, NoDaemon, Goes
<1>2. CASE Find(h)
  BY <1>2 DEF Find
<1>3. CASE Run(h)
  BY <1>3 DEF Run, Goes
<1>4. CASE HealthPasses(h) \/ HealthFails(h) \/ Retire(h)
  BY <1>4 DEF HealthPasses, HealthFails, Retire, Goes
<1> QED BY <1>1, <1>2, <1>3, <1>4 DEF StartStep

\* Only Run creates a container, in a slot that is free.
Creates(h) ==
    LET u == call[h].unit
        s == call[h].slot IN
    /\ ~Occupied(u, s)
    /\ spawned' = spawned + 1
    /\ containers'[u][s].cid = spawned + 1
    /\ containers'[u][s].port = call[h].port
    /\ ~containers'[u][s].passed
    /\ \A v \in Units, t \in Slots :
          <<v, t>> # <<u, s>> => containers'[v][t] = containers[v][t]
    /\ call'[h].mine = spawned + 1 /\ call'[h].slot = s /\ call'[h].old = call[h].old
    /\ call'[h].port = call[h].port
    /\ \/ call'[h].at = "health" /\ containers'[u][s].up
       \/ call'[h].at = "OtherError"

\* Every other step keeps the containers or removes some.
Sheds == /\ spawned' = spawned
         /\ \A u \in Units, s \in Slots :
               \/ containers'[u][s] = NoContainer
               \/ /\ containers'[u][s].cid = containers[u][s].cid
                  /\ containers'[u][s].up = containers[u][s].up

LEMMA RunCreates ==
  ASSUME RuntimeTypeOK, NEW h \in Callers, Run(h)
  PROVE  \/ Creates(h)
         \/ /\ UNCHANGED <<containers, spawned>>
            /\ call'[h].at = "OtherError" /\ call'[h].mine = call[h].mine
<1> call \in [Callers -> Frame] /\ call[h] \in Frame
  BY DEF RuntimeTypeOK
<1> DEFINE u == call[h].unit
           s == call[h].slot
           free == ~Listening(call[h].port)
           c == [cid |-> spawned + 1, image |-> call[h].image,
                 port |-> call[h].port, up |-> free, passed |-> FALSE]
<1> u \in Units /\ s \in Slots
  BY DEF Frame
<1>1. CASE Occupied(u, s)
  BY <1>1 DEF Run, Goes, Frame
<1>2. CASE ~Occupied(u, s)
  <2>1. /\ spawned' = spawned + 1
        /\ containers' = [containers EXCEPT ![u][s] = c]
        /\ call' = [call EXCEPT ![h].mine = spawned + 1,
                                ![h].at = IF free THEN "health" ELSE "OtherError"]
    BY <1>2 DEF Run
  <2>2. /\ containers'[u][s] = c
        /\ \A v \in Units, t \in Slots :
              <<v, t>> # <<u, s>> => containers'[v][t] = containers[v][t]
    BY <2>1 DEF RuntimeTypeOK
  <2>3. /\ call'[h].mine = spawned + 1 /\ call'[h].slot = s /\ call'[h].old = call[h].old
        /\ call'[h].port = call[h].port
        /\ call'[h].at = IF free THEN "health" ELSE "OtherError"
    BY <2>1 DEF Frame
  <2>4. /\ containers'[u][s].cid = spawned + 1 /\ containers'[u][s].port = call[h].port
        /\ ~containers'[u][s].passed /\ containers'[u][s].up = free
    BY <2>2
  <2>5. \/ call'[h].at = "health" /\ containers'[u][s].up
        \/ call'[h].at = "OtherError"
    <3> HIDE DEF free
    <3> QED BY <2>3, <2>4
  <2> HIDE DEF free, c
  <2>6. Creates(h)
    BY <1>2, <2>1, <2>2, <2>3, <2>4, <2>5 DEF Creates
  <2> QED BY <2>6
<1> QED BY <1>1, <1>2

LEMMA WithoutSheds ==
  ASSUME RuntimeTypeOK, NEW cid, containers' = Without(cid)
  PROVE  \A u \in Units, s \in Slots :
            IF containers[u][s].cid = cid
            THEN containers'[u][s] = NoContainer
            ELSE containers'[u][s] = containers[u][s]
  BY DEF RuntimeTypeOK, Without

\* The check marks the frame's own container, if that is what answers.
LEMMA HealthPassesMarks ==
  ASSUME RuntimeTypeOK, NEW h \in Callers, HealthPasses(h)
  PROVE  \A u \in Units, s \in Slots :
            /\ containers'[u][s].cid = containers[u][s].cid
            /\ containers'[u][s].up = containers[u][s].up
            /\ containers'[u][s].port = containers[u][s].port
            /\ containers'[u][s].passed =
                  (containers[u][s].passed \/ /\ Answers(call[h].mine, call[h].port)
                                              /\ containers[u][s].cid = call[h].mine)
<1> TAKE u \in Units, s \in Slots
<1> DEFINE mine == Answers(call[h].mine, call[h].port)
           c == containers[u][s]
<1>1. c \in Container
  BY DEF RuntimeTypeOK
<1>2. containers'[u][s] = IF mine /\ c.cid = call[h].mine
                          THEN [c EXCEPT !.passed = TRUE] ELSE c
  BY DEF HealthPasses
<1>3. CASE mine /\ c.cid = call[h].mine
  <2>1. containers'[u][s] = [c EXCEPT !.passed = TRUE]
    BY <1>2, <1>3
  <2> HIDE DEF mine, c
  <2>2. /\ containers'[u][s].cid = c.cid /\ containers'[u][s].up = c.up
        /\ containers'[u][s].port = c.port /\ containers'[u][s].passed = TRUE
    BY <1>1, <2>1 DEF Container
  <2> QED BY <1>3, <2>2 DEF mine, c
<1>4. CASE ~(mine /\ c.cid = call[h].mine)
  <2> HIDE DEF mine, c
  <2> QED BY <1>1, <1>2, <1>4 DEF mine, c, Container
<1> QED BY <1>3, <1>4

LEMMA StartStepSheds ==
  ASSUME RuntimeTypeOK, NEW h \in Callers, StartStep(h) \/ NoDaemon(h)
  PROVE  (Creates(h) /\ Run(h)) \/ Sheds
<1>1. CASE Allocate(h) \/ NoDaemon(h) \/ Find(h)
  BY <1>1 DEF Allocate, NoDaemon, Find, Sheds
<1>2. CASE Run(h)
  BY <1>2, RunCreates DEF Sheds
<1>3. CASE HealthPasses(h)
  BY <1>3, HealthPassesMarks DEF HealthPasses, Sheds
<1>4. CASE HealthFails(h)
  BY <1>4, WithoutSheds DEF HealthFails, Sheds
<1>5. CASE Retire(h)
  BY <1>5, WithoutSheds DEF Retire, Sheds
<1> QED BY <1>1, <1>2, <1>3, <1>4, <1>5 DEF StartStep

----------------------------------------------------------------------------
(* A step of start() keeps what frames know of the daemon.                 *)

LEMMA CidsStep ==
  ASSUME RuntimeTypeOK, CidsKnown, IdsUnique, FramesKnown,
         NEW h \in Callers, StartStep(h) \/ NoDaemon(h)
  PROVE  CidsKnown' /\ spawned <= spawned'
<1> /\ spawned \in Nat /\ call[h] \in Frame
    /\ \A u \in Units, s \in Slots : containers[u][s].cid \in Nat
  BY DEF RuntimeTypeOK, Container
<1>1. CASE Creates(h)
  BY <1>1 DEF Creates, CidsKnown
<1>2. CASE Sheds
  BY <1>2, NullContainer DEF Sheds, CidsKnown
<1> QED BY <1>1, <1>2, StartStepSheds

LEMMA IdsUniqueStep ==
  ASSUME RuntimeTypeOK, CidsKnown, IdsUnique, FramesKnown,
         NEW h \in Callers, StartStep(h) \/ NoDaemon(h)
  PROVE  IdsUnique'
<1> /\ spawned \in Nat /\ call \in [Callers -> Frame]
    /\ call[h].unit \in Units /\ call[h].slot \in Slots
    /\ \A u \in Units, s \in Slots : containers[u][s].cid \in Nat
    /\ \A g \in Callers : call[g].mine \in Nat /\ call[g].mine <= spawned
  BY DEF RuntimeTypeOK, Container, Frame, FramesKnown, MineKnown
<1>1. \A u, v \in Units, s, t \in Slots :
         containers'[u][s].cid = containers'[v][t].cid /\ containers'[u][s].cid # 0
         => u = v /\ s = t
  <2>1. CASE Creates(h)
    <3> DEFINE N(u, s) == <<u, s>> = <<call[h].unit, call[h].slot>>
    <3>1. \A u \in Units, s \in Slots :
             IF N(u, s) THEN containers'[u][s].cid = spawned + 1
             ELSE containers'[u][s].cid = containers[u][s].cid /\ containers[u][s].cid <= spawned
      BY <2>1 DEF Creates, CidsKnown
    <3>2. SUFFICES ASSUME NEW u \in Units, NEW v \in Units, NEW s \in Slots, NEW t \in Slots,
                          containers'[u][s].cid = containers'[v][t].cid,
                          containers'[u][s].cid # 0
                   PROVE  u = v /\ s = t
      OBVIOUS
    <3>3. N(u, s) <=> N(v, t)
      <4> HIDE DEF N
      <4> QED BY <3>1, <3>2
    <3> QED BY <3>1, <3>2, <3>3 DEF IdsUnique
  <2>2. CASE Sheds
    BY <2>2, NullContainer DEF Sheds, IdsUnique
  <2> QED BY <2>1, <2>2, StartStepSheds
<1>2. \/ call'[h].mine = spawned + 1
      \/ call'[h].mine = call[h].mine
  <2>1. CASE Allocate(h) \/ NoDaemon(h) \/ Find(h)
    BY <2>1 DEF Allocate, NoDaemon, Find, Goes, Frame
  <2>2. CASE Run(h)
    BY <2>2, RunCreates DEF Creates
  <2>3. CASE HealthPasses(h) \/ HealthFails(h) \/ Retire(h)
    BY <2>3 DEF HealthPasses, HealthFails, Retire, Goes, Frame
  <2> QED BY <2>1, <2>2, <2>3 DEF StartStep
<1>3. \A g \in Callers \ {h} : call'[g].mine = call[g].mine /\ call'[g].mine <= spawned
  BY StartStepLocal
<1>4. ASSUME NEW f \in Callers, NEW g \in Callers, call'[f].mine = call'[g].mine,
             call'[f].mine # 0
      PROVE  f = g
  BY <1>2, <1>3, <1>4 DEF IdsUnique
<1> QED BY <1>1, <1>4 DEF IdsUnique

\* The frames of the other threads know what they knew.
LEMMA OthersKnown ==
  ASSUME RuntimeTypeOK, CidsKnown, IdsUnique, FramesKnown,
         NEW h \in Callers, StartStep(h) \/ NoDaemon(h), NEW g \in Callers \ {h}
  PROVE  MineKnown(g)' /\ OldKnown(g)' /\ Unpassed(g)'
<1> /\ spawned \in Nat /\ call[g] \in Frame /\ call'[g] = call[g] /\ spawned <= spawned'
    /\ call[h].unit \in Units /\ call[h].slot \in Slots /\ spawned' \in Nat
    /\ \A u \in Units, s \in Slots : containers[u][s].cid \in Nat
    /\ call[g].mine \in Nat /\ call[g].old \in Nat
  BY CidsStep, StartStepLocal, StartStepType DEF RuntimeTypeOK, Container, Frame
<1> MineKnown(g) /\ OldKnown(g) /\ Unpassed(g)
  BY DEF FramesKnown
<1>1. MineKnown(g)'
  BY DEF MineKnown
<1>2. \A u \in Units, s \in Slots :
         \/ containers'[u][s].cid = 0
         \/ containers'[u][s].cid = containers[u][s].cid
         \/ containers'[u][s].cid > spawned
  BY StartStepSheds, NullContainer DEF Creates, Sheds
<1>3. OldKnown(g)'
  BY <1>2 DEF OldKnown
<1>4. Unpassed(g)'
  <2> SUFFICES ASSUME call[g].at = "health", NEW u \in Units, NEW s \in Slots,
                      containers'[u][s].cid = call[g].mine
               PROVE  ~containers'[u][s].passed
    BY DEF Unpassed
  <2>1. containers[u][s].cid = call[g].mine /\ ~containers[u][s].passed
    BY <1>2 DEF MineKnown, Unpassed
  <2>2. containers[u][s].cid # call[h].mine
    BY <2>1 DEF IdsUnique, MineKnown
  <2>3. CASE Allocate(h) \/ NoDaemon(h) \/ Find(h)
    BY <2>1, <2>3 DEF Allocate, NoDaemon, Find
  <2>4. CASE Run(h)
    BY <2>1, <2>4, RunCreates DEF Creates
  <2>5. CASE HealthPasses(h)
    BY <2>1, <2>2, <2>5, HealthPassesMarks
  <2>6. CASE HealthFails(h) \/ Retire(h)
    BY <2>1, <2>6, WithoutSheds DEF HealthFails, Retire, NoContainer
  <2> QED BY <2>3, <2>4, <2>5, <2>6 DEF StartStep
<1> QED BY <1>1, <1>3, <1>4

\* So does the frame that makes the step.
LEMMA OwnKnown ==
  ASSUME RuntimeTypeOK, CidsKnown, IdsUnique, FramesKnown,
         NEW h \in Callers, StartStep(h) \/ NoDaemon(h)
  PROVE  MineKnown(h)' /\ OldKnown(h)' /\ Unpassed(h)'
<1> /\ spawned \in Nat /\ call \in [Callers -> Frame] /\ call[h] \in Frame
    /\ call[h].unit \in Units /\ call[h].slot \in Slots
    /\ \A u \in Units, s \in Slots : containers[u][s].cid \in Nat
    /\ call[h].mine \in Nat /\ call[h].old \in Nat
  BY DEF RuntimeTypeOK, Container, Frame
<1> MineKnown(h) /\ OldKnown(h) /\ Unpassed(h)
  BY DEF FramesKnown
<1> USE DEF Outcomes
<1>1. CASE Allocate(h) \/ NoDaemon(h)
  <2>1. /\ call'[h].at \in {"find"} \cup Outcomes /\ call'[h].mine = 0 /\ spawned' = spawned
    BY <1>1 DEF Allocate, NoDaemon, Goes, MineKnown, Frame
  <2> QED BY <2>1 DEF MineKnown, OldKnown, Unpassed
<1>2. CASE Find(h)
  <2>1. /\ call'[h].at = "run" /\ call'[h].mine = 0 /\ UNCHANGED <<containers, spawned>>
        /\ call'[h].old = Found(call[h].unit).cid /\ call'[h].unit = call[h].unit
        /\ call'[h].slot = IF Occupied(call[h].unit, "a") THEN "b" ELSE "a"
    BY <1>2 DEF Find, MineKnown, Frame
  <2> DEFINE v == call[h].unit
             t == IF Occupied(v, "a") THEN "a" ELSE "b"
  <2>2. Found(v) = containers[v][t] /\ t \in Slots /\ call'[h].slot # t
    <3>1. CASE Occupied(v, "a")
      BY <2>1, <3>1 DEF Found
    <3>2. CASE ~Occupied(v, "a")
      BY <2>1, <3>2 DEF Found
    <3> QED BY <3>1, <3>2
  <2> HIDE DEF t
  <2>3. \A u \in Units, s \in Slots :
           call'[h].old # 0 /\ containers[u][s].cid = call'[h].old => u = v /\ s = t
    BY <2>1, <2>2 DEF IdsUnique
  <2>4. call'[h].old <= spawned
    BY <2>1, <2>2 DEF CidsKnown
  <2>5. OldKnown(h)'
    BY <2>1, <2>2, <2>3, <2>4 DEF OldKnown
  <2> QED BY <2>1, <2>5 DEF MineKnown, Unpassed
<1>3. CASE Run(h)
  <2>1. CASE Creates(h)
    <3>1. MineKnown(h)' /\ Unpassed(h)'
      BY <2>1, StartStepLocal DEF Creates, MineKnown, Unpassed, CidsKnown
    <3>2. OldKnown(h)'
      BY <1>3, <2>1, StartStepLocal DEF Creates, Run, OldKnown, CidsKnown
    <3> QED BY <3>1, <3>2
  <2>2. CASE ~Creates(h)
    BY <1>3, <2>2, RunCreates DEF MineKnown, OldKnown, Unpassed
  <2> QED BY <2>1, <2>2
<1>4. CASE HealthPasses(h)
  <2>1. /\ call'[h].at = "retire" /\ call'[h].mine = call[h].mine
        /\ call'[h].old = call[h].old /\ call'[h].slot = call[h].slot
        /\ call'[h].unit = call[h].unit /\ spawned' = spawned /\ call[h].at = "health"
    BY <1>4 DEF HealthPasses, Goes, Frame
  <2> QED BY <1>4, <2>1, HealthPassesMarks DEF MineKnown, OldKnown, Unpassed
<1>5. CASE HealthFails(h) \/ Retire(h)
  <2>1. /\ call'[h].at \in Outcomes /\ call'[h].mine = call[h].mine /\ spawned' = spawned
    BY <1>5 DEF HealthFails, Retire, Goes, Frame
  <2> QED BY <2>1 DEF MineKnown, OldKnown, Unpassed
<1> QED BY <1>1, <1>2, <1>3, <1>4, <1>5 DEF StartStep

\* Only the failed check ends with RuntimeError after a container was made,
\* and it has removed the container.
LEMMA CleanFailureStep ==
  ASSUME RuntimeTypeOK, CidsKnown, IdsUnique, FramesKnown, CleanFailure,
         NEW h \in Callers, StartStep(h) \/ NoDaemon(h)
  PROVE  CleanFailure'
<1> SUFFICES ASSUME NEW g \in Callers, call'[g].at = "RuntimeError", call'[g].mine # 0,
                    NEW u \in Units, NEW s \in Slots, containers'[u][s].cid = call'[g].mine
             PROVE  FALSE
  BY DEF CleanFailure, Exists
<1> /\ spawned \in Nat /\ call \in [Callers -> Frame] /\ call[h] \in Frame
    /\ \A f \in Callers : call[f].mine \in Nat /\ MineKnown(f)
  BY DEF RuntimeTypeOK, Frame, FramesKnown
<1>1. CASE g # h
  <2>1. call'[g] = call[g] /\ call[g].mine <= spawned
    BY <1>1, StartStepLocal DEF MineKnown
  <2>2. containers[u][s].cid = call[g].mine
    BY <2>1, StartStepSheds, NullContainer DEF Creates, Sheds
  <2> QED BY <2>1, <2>2 DEF CleanFailure, Exists
<1>2. CASE g = h
  <2>1. CASE Allocate(h) \/ NoDaemon(h) \/ Find(h)
    BY <1>2, <2>1 DEF Allocate, NoDaemon, Find, Goes, MineKnown, Frame
  <2>2. CASE Run(h)
    BY <1>2, <2>2, RunCreates DEF Creates
  <2>3. CASE HealthPasses(h) \/ Retire(h)
    BY <1>2, <2>3 DEF HealthPasses, Retire, Goes, Frame
  <2>4. CASE HealthFails(h)
    <3>1. call'[h].mine = call[h].mine
      BY <2>4 DEF HealthFails, Goes, Frame
    <3>2. containers' = Without(call[h].mine)
      BY <1>2, <2>4 DEF HealthFails, Goes, Frame
    <3> QED BY <1>2, <3>1, <3>2, WithoutSheds, NullContainer
  <2> QED BY <2>1, <2>2, <2>3, <2>4 DEF StartStep
<1> QED BY <1>1, <1>2

----------------------------------------------------------------------------
(* The other steps: frames begin and end, and stop() removes a container.  *)

\* What all steps but those of start() and stop() do to the runtime.
Quiet ==
    /\ UNCHANGED <<containers, spawned, proven>>
    /\ \A g \in Callers :
          \/ call'[g] = call[g]
          \/ call'[g] = NoCall
          \/ call'[g].at = "allocate" /\ call'[g].mine = 0

LEMMA BeginQuiet ==
  ASSUME RuntimeTypeOK, NEW h \in Callers, NEW u, NEW i, Begin(h, u, i)
  PROVE  /\ Quiet
         /\ \A g \in Callers \ {h} : call'[g] = call[g]
         /\ call'[h].unit = u /\ call'[h].image = i /\ call'[h].at = "allocate"
<1>1. call' = [call EXCEPT ![h] = [NoCall EXCEPT !.at = "allocate", !.unit = u, !.image = i]]
  BY DEF Begin
<1>2. /\ call'[h] = [NoCall EXCEPT !.at = "allocate", !.unit = u, !.image = i]
      /\ \A g \in Callers \ {h} : call'[g] = call[g]
  BY <1>1 DEF RuntimeTypeOK
<1>3. /\ call'[h].unit = u /\ call'[h].image = i
      /\ call'[h].at = "allocate" /\ call'[h].mine = 0
  BY <1>2 DEF NoCall
<1> QED BY <1>2, <1>3 DEF Quiet, Begin

LEMMA ReturnQuiet ==
  ASSUME RuntimeTypeOK, NEW h \in Callers, Return(h)
  PROVE  /\ Quiet
         /\ \A g \in Callers \ {h} : call'[g] = call[g]
         /\ call'[h] = NoCall
  BY DEF Quiet, Return, RuntimeTypeOK

LEMMA NextQuiet ==
  ASSUME TypeOK, [Next]_vars
  PROVE  \/ Quiet
         \/ \E h \in Callers : RuntimeStep(h)
         \/ \E u \in Units : StopRequest(u)
<1> USE DEF TypeOK
<1>1. ASSUME NEW h \in Callers, NEW u \in Units,
             DeployRequest(h, u) \/ RollbackRequest(h, u)
      PROVE  Quiet
  BY <1>1, BeginQuiet DEF DeployRequest, RollbackRequest, rtVars, Quiet
<1>2. ASSUME NEW u \in Units, QueueRequest(u) PROVE Quiet
  BY <1>2 DEF QueueRequest, rtVars, Quiet
<1>3. ASSUME NEW h \in Callers, WorkerTake(h) PROVE Quiet
  BY <1>3 DEF WorkerTake, rtVars, Quiet
<1>4. ASSUME NEW h \in Callers, JobStep(h), ~RuntimeStep(h) PROVE Quiet
  <2>1. CASE Build(h)
    BY <2>1, BeginQuiet DEF Build
  <2>2. CASE Started(h) \/ StartFails(h)
    BY <2>2, ReturnQuiet DEF Started, StartFails
  <2>3. CASE UNCHANGED rtVars
    BY <2>3 DEF rtVars, Quiet
  <2> QED BY <1>4, <2>1, <2>2, <2>3 DEF JobStep, Acquire, Busy, Checkout, CheckoutFails,
             BuildFails, Configure, ConfigureFails, Commit, Mark, Unlock
<1>5. CASE Restart
  BY <1>5 DEF Restart, Crash, Quiet
<1>6. CASE UNCHANGED vars
  BY <1>6 DEF vars, rtVars, Quiet
<1> QED BY <1>1, <1>2, <1>3, <1>4, <1>5, <1>6 DEF Next

RuntimeKnown == /\ CidsKnown /\ IdsUnique /\ CleanFailure
                /\ \A h \in Callers : MineKnown(h) /\ OldKnown(h) /\ Unpassed(h)

LEMMA QuietKnown ==
  ASSUME RuntimeTypeOK, RuntimeKnown, Quiet
  PROVE  RuntimeKnown'
<1> /\ spawned \in Nat /\ \A g \in Callers : call[g].mine \in Nat
  BY DEF RuntimeTypeOK, Frame
<1> USE DEF RuntimeKnown, Quiet
<1>1. CidsKnown'
  BY DEF CidsKnown
<1>2. IdsUnique'
  <2>1. \A g \in Callers : call'[g].mine # 0 => call'[g].mine = call[g].mine
    BY NullContainer
  <2> QED BY <2>1 DEF IdsUnique
<1>3. CleanFailure'
  BY NullContainer DEF CleanFailure, Exists
<1>4. ASSUME NEW g \in Callers PROVE MineKnown(g)' /\ OldKnown(g)' /\ Unpassed(g)'
  BY NullContainer DEF MineKnown, OldKnown, Unpassed
<1> QED BY <1>1, <1>2, <1>3, <1>4

LEMMA StopKnown ==
  ASSUME RuntimeTypeOK, RuntimeKnown, NEW u \in Units, Stop(u)
  PROVE  RuntimeKnown'
<1>1. /\ UNCHANGED <<spawned, call>>
      /\ \A v \in Units, s \in Slots : \/ containers'[v][s] = containers[v][s]
                                       \/ containers'[v][s] = NoContainer
  BY WithoutSheds DEF Stop
<1> /\ spawned \in Nat /\ \A g \in Callers : call[g].mine \in Nat
  BY DEF RuntimeTypeOK, Frame
<1> USE DEF RuntimeKnown
<1>2. CidsKnown' /\ IdsUnique'
  BY <1>1, NullContainer DEF CidsKnown, IdsUnique
<1>3. CleanFailure'
  BY <1>1, NullContainer DEF CleanFailure, Exists
<1>4. ASSUME NEW g \in Callers PROVE MineKnown(g)' /\ OldKnown(g)' /\ Unpassed(g)'
  BY <1>1, NullContainer DEF MineKnown, OldKnown, Unpassed
<1> QED BY <1>2, <1>3, <1>4

\* A frame follows its job: both begin together, and the job waits for it.
LEMMA FrameOfJobStep ==
  ASSUME TypeOK, NEW g \in Callers, FrameOfJob(g), [Next]_vars
  PROVE  FrameOfJob(g)'
<1> SUFFICES ASSUME call'[g].at # "idle"
             PROVE  /\ job'[g].at = "start"
                    /\ call'[g].unit = job'[g].unit /\ call'[g].image = job'[g].image
  BY DEF FrameOfJob
<1> /\ job \in [Callers -> Job] /\ call \in [Callers -> Frame] /\ RuntimeTypeOK
    /\ job[g] \in Job /\ call[g] \in Frame
  BY DEF TypeOK, RuntimeTypeOK
<1> DEFINE Goal == /\ job'[g].at = "start"
                   /\ call'[g].unit = job'[g].unit /\ call'[g].image = job'[g].image
<1>0. ASSUME call'[g] = call[g], job'[g] = job[g] PROVE Goal
  BY <1>0 DEF FrameOfJob
<1>1. ASSUME NEW h \in Callers, NEW u \in Units, DeployRequest(h, u) \/ WorkerTake(h)
      PROVE  Goal
  <2>1. call' = call /\ job[h].at = "idle" /\ \A f \in Callers \ {h} : job'[f] = job[f]
    BY <1>1 DEF DeployRequest, WorkerTake, rtVars
  <2> QED BY <1>0, <2>1 DEF FrameOfJob
<1>2. ASSUME NEW h \in Callers, NEW u \in Units, RollbackRequest(h, u) PROVE Goal
  <2>1. PICK t \in Candidates(u) :
          /\ job' = [job EXCEPT ![h] = [NoJob EXCEPT
                !.at = "start", !.op = "rollback", !.unit = u, !.image = row[t].image]]
          /\ Begin(h, u, row[t].image)
    BY <1>2 DEF RollbackRequest
  <2>2. CASE g = h
    <3>1. job'[h] = [NoJob EXCEPT
                !.at = "start", !.op = "rollback", !.unit = u, !.image = row[t].image]
      BY <2>1
    <3>2. job'[h].at = "start" /\ job'[h].unit = u /\ job'[h].image = row[t].image
      BY <3>1 DEF NoJob
    <3> QED BY <2>1, <2>2, <3>2, BeginQuiet
  <2>3. CASE g # h
    BY <1>0, <2>1, <2>3, BeginQuiet
  <2> QED BY <2>2, <2>3
<1>3. ASSUME NEW u \in Units, QueueRequest(u) \/ StopRequest(u) PROVE Goal
  BY <1>0, <1>3 DEF QueueRequest, StopRequest, Stop, rtVars, depVars
<1>4. ASSUME NEW h \in Callers, JobStep(h) PROVE Goal
  <2>1. CASE Build(h)
    <3>1. CASE g = h
      <4>1. Begin(h, job[h].unit, job[h].image) /\ JobGoes(h, "start")
        BY <2>1 DEF Build
      <4>2. job'[h].at = "start" /\ job'[h].unit = job[h].unit /\ job'[h].image = job[h].image
        BY <3>1, <4>1 DEF JobGoes, Job
      <4> QED BY <3>1, <4>1, <4>2, BeginQuiet
    <3>2. CASE g # h
      BY <1>0, <1>4, <2>1, <3>2, BeginQuiet, JobStepLocal DEF Build
    <3> QED BY <3>1, <3>2
  <2>2. CASE Started(h) \/ StartFails(h)
    BY <1>0, <1>4, <2>2, ReturnQuiet, JobStepLocal, NullContainer DEF Started, StartFails
  <2>3. CASE RuntimeStep(h)
    BY <1>0, <2>3, StartStepLocal DEF RuntimeStep, depVars, FrameOfJob
  <2>4. CASE call' = call /\ job[h].at # "start"
    BY <1>0, <1>4, <2>4, JobStepLocal DEF FrameOfJob
  <2> QED BY <1>4, <2>1, <2>2, <2>3, <2>4 DEF JobStep, Acquire, Busy, Checkout,
             CheckoutFails, BuildFails, Configure, ConfigureFails, Commit, Mark, Unlock,
             rtVars
<1>5. CASE Restart
  BY <1>5, NullContainer DEF Restart, Crash
<1>6. CASE UNCHANGED vars
  BY <1>0, <1>6 DEF vars, rtVars, depVars
<1> QED BY <1>1, <1>2, <1>3, <1>4, <1>5, <1>6, UnitExists DEF Next

\* Build tags the row with the image the job goes on with.
LEMMA RowImageStep ==
  ASSUME IInv, RowImage, [Next]_vars
  PROVE  RowImage'
<1> SUFFICES ASSUME NEW g \in Callers, job'[g].op = "deploy",
                    job'[g].at \in {"start", "proxy", "commit", "mark"}
             PROVE  row'[job'[g].rec].image = job'[g].image
  BY DEF RowImage
<1> /\ TypeOK /\ RowsKnown /\ FreshRows /\ SingleWriter
    /\ job \in [Callers -> Job] /\ row \in [Ids -> Row] /\ job[g] \in Job
  BY DEF IInv, TypeOK
<1> DEFINE Goal == row'[job'[g].rec].image = job'[g].image
<1>1. ASSUME job'[g] = job[g],
             \A i \in Ids : i <= nRows /\ i = job[g].rec => row'[i].image = row[i].image
      PROVE  Goal
  <2>1. RowKnown(g) /\ row[job[g].rec].image = job[g].image
    BY <1>1 DEF RowsKnown, RowImage
  <2> QED BY <1>1, <2>1 DEF RowKnown, Job
<1>2. ASSUME NEW h \in Callers, JobStep(h) PROVE Goal
  <2>1. CASE g # h
    <3>1. job'[g] = job[g]
      BY <1>2, <2>1, JobStepLocal
    <3>2. job[g].rec = 0 \/ job[g].rec # job[h].rec
      BY <2>1 DEF SingleWriter
    <3> QED BY <1>1, <1>2, <3>1, <3>2, JobStepTable, RuntimeAssumption DEF Ids
  <2>2. CASE g = h
    <3>1. CASE Build(h)
      BY <2>2, <3>1 DEF Build, JobGoes, Job, RowsKnown, RowKnown, Row
    <3>2. CASE Started(h)
      BY <2>2, <3>2 DEF Started, Job, RowImage, dbVars
    <3>3. CASE Configure(h)
      BY <2>2, <3>3 DEF Configure, JobGoes, Job, RowImage, dbVars
    <3>4. CASE RuntimeStep(h)
      BY <1>1, <2>2, <3>4 DEF RuntimeStep, depVars, dbVars
    <3>5. ASSUME NEW i \in Images, Checkout(h, i) PROVE Goal
      BY <2>2, <3>5 DEF Checkout, Job
    <3>6. CASE Acquire(h)
      BY <2>2, <3>6 DEF Acquire, JobGoes, Job
    <3>7. CASE Commit(h)
      <4>1. job[h].op = "deploy" /\ job'[h] = [job[h] EXCEPT !.at = "mark"]
        BY <2>2, <3>7 DEF Commit, JobGoes, Job
      <4>2. job'[h].rec = job[h].rec /\ job'[h].image = job[h].image
        BY <4>1 DEF Job
      <4>3. row'[job[h].rec].image = row[job[h].rec].image
        BY <3>7, <4>1 DEF Commit, RowsKnown, RowKnown, Row, Job
      <4>4. row[job[h].rec].image = job[h].image
        BY <3>7, <4>1 DEF Commit, RowImage
      <4> QED BY <2>2, <4>2, <4>3, <4>4
    <3>8. CASE Busy(h) \/ Unlock(h)
      BY <2>2, <3>8 DEF Busy, Unlock, NoJob
    <3>9. CASE JobEnds(h)
      BY <2>2, <3>9 DEF JobEnds, NoJob, Job
    <3> QED BY <1>2, <2>2, <3>1, <3>2, <3>3, <3>4, <3>5, <3>6, <3>7, <3>8, <3>9
            DEF JobStep, CheckoutFails, BuildFails, StartFails, ConfigureFails, Mark
  <2> QED BY <2>1, <2>2
<1>3. ASSUME NEW h \in Callers, NEW u \in Units,
             DeployRequest(h, u) \/ RollbackRequest(h, u) \/ WorkerTake(h)
      PROVE  Goal
  <2>1. row' = row /\ \A f \in Callers \ {h} : job'[f] = job[f]
    BY <1>3 DEF DeployRequest, RollbackRequest, WorkerTake, dbVars
  <2>2. job'[h].at = "lock" \/ job'[h].op = "rollback"
    <3>1. CASE DeployRequest(h, u)
      BY <3>1 DEF DeployRequest, NoJob
    <3>2. CASE RollbackRequest(h, u)
      BY <3>2 DEF RollbackRequest, NoJob
    <3>3. CASE WorkerTake(h)
      BY <3>3 DEF WorkerTake, NoJob
    <3> QED BY <1>3, <3>1, <3>2, <3>3
  <2> QED BY <1>1, <2>1, <2>2
<1>4. ASSUME NEW u \in Units, QueueRequest(u) PROVE Goal
  BY <1>1, <1>4, RuntimeAssumption DEF QueueRequest, Insert, TypeOK, Ids
<1>5. ASSUME NEW u \in Units, StopRequest(u) PROVE Goal
  BY <1>1, <1>5 DEF StopRequest, depVars, dbVars
<1>6. CASE Restart
  BY <1>6 DEF Restart, NoJob
<1>7. CASE UNCHANGED vars
  BY <1>1, <1>7 DEF vars, depVars, dbVars
<1> QED BY <1>2, <1>3, <1>4, <1>5, <1>6, <1>7, UnitExists DEF Next

LEMMA InitFrames == Init => FInv
<1> SUFFICES ASSUME Init PROVE FInv
  OBVIOUS
<1>1. /\ spawned = 0
      /\ \A h \in Callers : call[h] = NoCall /\ job[h] = NoJob
      /\ \A u \in Units, s \in Slots : containers[u][s] = NoContainer
  BY DEF Init, RuntimeInit
<1>2. CidsKnown /\ IdsUnique /\ CleanFailure
  BY <1>1, NullContainer DEF CidsKnown, IdsUnique, CleanFailure
<1>3. FramesKnown /\ RowImage
  BY <1>1, NullContainer, NullFields
  DEF FramesKnown, FrameOfJob, MineKnown, OldKnown, Unpassed, RowImage
<1> QED BY <1>2, <1>3, InitInv DEF FInv

LEMMA NextFrames == FInv /\ [Next]_vars => FInv'
<1> SUFFICES ASSUME FInv, [Next]_vars PROVE FInv'
  OBVIOUS
<1>1. IInv' /\ RowImage'
  BY NextInv, RowImageStep DEF FInv
<1> TypeOK /\ RuntimeTypeOK /\ RuntimeKnown /\ FramesKnown
  BY DEF FInv, IInv, TypeOK, RuntimeKnown, FramesKnown
<1>2. \A g \in Callers : FrameOfJob(g)'
  BY FrameOfJobStep DEF FramesKnown
<1>3. ASSUME NEW h \in Callers, RuntimeStep(h) PROVE RuntimeKnown'
  <2>1. StartStep(h) \/ NoDaemon(h)
    BY <1>3 DEF RuntimeStep
  <2>2. CidsKnown' /\ IdsUnique' /\ CleanFailure'
    BY <2>1, CidsStep, IdsUniqueStep, CleanFailureStep DEF RuntimeKnown
  <2> QED BY <2>1, <2>2, OthersKnown, OwnKnown DEF RuntimeKnown
<1>4. RuntimeKnown'
  BY <1>3, NextQuiet, QuietKnown, StopKnown DEF StopRequest
<1> QED BY <1>1, <1>2, <1>4 DEF FInv, RuntimeKnown, FramesKnown

\* A start() that ends with RuntimeError, the failure deploy_sync handles,
\* has removed the container it made.
THEOREM FailuresClean == Spec => []CleanFailure
<1>1. FInv => CleanFailure
  BY DEF FInv
<1> QED BY <1>1, InitFrames, NextFrames, PTL DEF Spec

----------------------------------------------------------------------------
(* Until somebody stops an application, a unit that serves keeps serving.  *)

\* Two calls of start() in one unit: the lock admits one deployment, so one
\* of them is a rollback, and the unit has released something and serves.
LEMMA TwoCalls ==
  ASSUME FInv, SInv, NEW g \in Callers, NEW h \in Callers, g # h,
         call[g].at # "idle", call[h].at # "idle", call[g].unit = call[h].unit
  PROVE  Serving(call[g].unit)
<1>1. /\ job[g].at = "start" /\ job[g].unit = call[g].unit
      /\ job[h].at = "start" /\ job[h].unit = call[g].unit
  BY DEF FInv, FramesKnown, FrameOfJob
<1>2. ~(InPipeline(g) /\ InPipeline(h))
  BY <1>1, InvExclusion DEF FInv, LockExclusion
<1>3. job[g] \in Job /\ job[h] \in Job /\ RowKnown(g) /\ RowKnown(h)
  BY DEF FInv, IInv, TypeOK, RowsKnown
<1>4. job[g].op = "rollback" \/ job[h].op = "rollback"
  BY <1>1, <1>2, <1>3 DEF InPipeline, Job
<1>5. \E i : Log!Released(call[g].unit, i)
  BY <1>1, <1>3, <1>4 DEF RowKnown
<1>6. PICK k \in Ids : row[k].unit = call[g].unit /\ Settled(k)
  BY <1>5 DEF Log!Released, Settled
<1> QED BY <1>6 DEF SInv, ProvenRows, Healthy

\* So the container being checked is never overtaken by another new one.
LEMMA NoOvertaking ==
  ASSUME FInv, SInv, NEW g \in Callers, NEW h \in Callers, g # h,
         call[g].at = "health", Run(h), Creates(h)
  PROVE  call[h].unit # call[g].unit
<1> SUFFICES ASSUME call[h].unit = call[g].unit PROVE FALSE
  OBVIOUS
<1> DEFINE u == call[g].unit
<1>1. call[g] \in Frame /\ call[h] \in Frame /\ call[h].at = "run"
  BY DEF FInv, IInv, TypeOK, RuntimeTypeOK, Run
<1>2. PICK s \in Slots : containers[u][s].up /\ containers[u][s].passed
  BY <1>1, TwoCalls DEF Serving
<1>3. /\ containers[u][call[g].slot].cid = call[g].mine /\ call[g].mine # 0
      /\ ~containers[u][call[g].slot].passed
  BY <1>1 DEF SInv, MineStands, FInv, FramesKnown, MineKnown, Unpassed, Frame
<1>4. s # call[g].slot /\ Occupied(u, s) /\ Occupied(u, call[g].slot)
  BY <1>1, <1>2, <1>3 DEF FInv, CidsKnown, Occupied, Frame
<1> QED BY <1>1, <1>4 DEF Creates, Frame

\* Nobody retires the container of a frame that still counts on it.
LEMMA NotRetired ==
  ASSUME FInv, SInv, NEW g \in Callers, NEW h \in Callers, g # h,
         call[h].at = "retire", call[h].old # 0, Exists(call[h].old),
         \/ call[g].at = "health"
         \/ call[g].at = "retire" /\ call[g].old # 0 /\ Exists(call[g].old)
  PROVE  call[h].old # call[g].mine
<1> SUFFICES ASSUME call[h].old = call[g].mine PROVE FALSE
  OBVIOUS
<1> USE DEF Exists
<1>1. /\ call[g] \in Frame /\ call[h] \in Frame
      /\ call[g].unit \in Units /\ call[g].slot \in Slots
      /\ call[h].unit \in Units /\ call[h].slot \in Slots
      /\ call[g].old \in Nat /\ call[g].mine \in Nat
      /\ call[h].old \in Nat /\ call[h].mine \in Nat
  BY DEF FInv, IInv, TypeOK, RuntimeTypeOK, Frame
<1>2. OldKnown(g) /\ OldKnown(h) /\ MineStands(g) /\ Replaced(g) /\ Replaced(h)
  BY DEF FInv, FramesKnown, SInv
<1>3. containers[call[g].unit][call[g].slot].cid = call[g].mine
  BY <1>2 DEF MineStands, Replaced
<1>4. call[g].unit = call[h].unit /\ call[g].slot # call[h].slot
  BY <1>1, <1>2, <1>3 DEF OldKnown
<1>5. containers[call[g].unit][call[h].slot].cid = call[h].mine /\ call[h].old < call[h].mine
  BY <1>2, <1>4 DEF Replaced, OldKnown
<1>6. CASE call[g].at = "health"
  <2>1. call[h].mine < call[g].mine
    BY <1>1, <1>2, <1>4, <1>5, <1>6 DEF MineStands
  <2> QED BY <1>1, <1>5, <2>1
<1>7. CASE call[g].at = "retire" /\ call[g].old # 0 /\ Exists(call[g].old)
  <2>1. call[g].old = call[h].mine
    BY <1>1, <1>2, <1>4, <1>5, <1>7 DEF OldKnown
  <2>2. call[g].old < call[g].mine
    BY <1>2, <1>7 DEF OldKnown
  <2> QED BY <1>1, <1>5, <2>1, <2>2
<1> QED BY <1>6, <1>7

\* A failed check removes a container that never passed; Retire removes one
\* whose replacement is up and has passed.
LEMMA ServingKept ==
  ASSUME FInv, SInv, NEW h \in Callers, StartStep(h) \/ NoDaemon(h),
         NEW u \in Units, Serving(u)
  PROVE  Serving(u)'
<1> RuntimeTypeOK /\ CidsKnown /\ FramesKnown /\ call[h] \in Frame
  BY DEF FInv, IInv, TypeOK, RuntimeTypeOK
<1>1. PICK s \in Slots : containers[u][s].up /\ containers[u][s].passed
  BY DEF Serving
<1>2. CASE Allocate(h) \/ NoDaemon(h) \/ Find(h)
  BY <1>2 DEF Allocate, NoDaemon, Find, Serving
<1>3. CASE Run(h)
  <2>1. containers[u][s].cid # 0
    BY <1>1 DEF CidsKnown
  <2>2. containers'[u][s] = containers[u][s]
    BY <1>3, <2>1, RunCreates DEF Creates, Occupied
  <2> QED BY <1>1, <2>2 DEF Serving
<1>4. CASE HealthPasses(h)
  BY <1>1, <1>4, HealthPassesMarks DEF Serving
<1>5. CASE HealthFails(h)
  <2>1. containers[u][s].cid # call[h].mine
    BY <1>1, <1>5 DEF HealthFails, FramesKnown, Unpassed
  <2>2. containers'[u][s] = containers[u][s]
    BY <1>5, <2>1, WithoutSheds DEF HealthFails
  <2> QED BY <1>1, <2>2 DEF Serving
<1>6. CASE Retire(h)
  <2>1. CASE containers'[u][s] = containers[u][s]
    BY <1>1, <2>1 DEF Serving
  <2>2. CASE containers'[u][s] # containers[u][s]
    <3>1. /\ call[h].old # 0 /\ Exists(call[h].old) /\ call[h].at = "retire"
          /\ containers' = Without(call[h].old) /\ containers[u][s].cid = call[h].old
      BY <1>6, <2>2, WithoutSheds DEF Retire
    <3>2. u = call[h].unit /\ s # call[h].slot /\ call[h].slot \in Slots
      BY <3>1 DEF FramesKnown, OldKnown, Frame
    <3>3. /\ containers[u][call[h].slot].up /\ containers[u][call[h].slot].passed
      BY <3>1, <3>2 DEF SInv, Replaced
    <3>4. containers[u][call[h].slot].cid # call[h].old
      BY <3>1, <3>2 DEF FramesKnown, OldKnown
    <3>5. containers'[u][call[h].slot] = containers[u][call[h].slot]
      BY <3>1, <3>2, <3>4, WithoutSheds
    <3> QED BY <3>2, <3>3, <3>5 DEF Serving
  <2> QED BY <2>1, <2>2
<1> QED BY <1>2, <1>3, <1>4, <1>5, <1>6 DEF StartStep

LEMMA MineStandsStep ==
  ASSUME FInv, SInv, NEW h \in Callers, StartStep(h) \/ NoDaemon(h), NEW g \in Callers
  PROVE  MineStands(g)'
<1> /\ RuntimeTypeOK /\ CidsKnown /\ IdsUnique /\ FramesKnown
    /\ call \in [Callers -> Frame] /\ call[h] \in Frame /\ call[g] \in Frame
    /\ call[g].unit \in Units /\ call[g].slot \in Slots /\ call[g].mine \in Nat
    /\ call[h].unit \in Units /\ call[h].slot \in Slots
    /\ spawned \in Nat /\ \A u \in Units, s \in Slots : containers[u][s].cid \in Nat
    /\ MineStands(g) /\ MineKnown(g)
  BY DEF FInv, IInv, TypeOK, RuntimeTypeOK, Frame, SInv, FramesKnown, Container
<1> DEFINE u == call[g].unit
           s == call[g].slot
<1>1. CASE g = h
  <2>1. CASE Run(h) /\ Creates(h)
    BY <1>1, <2>1, StartStepLocal DEF Creates, MineStands, CidsKnown
  <2>2. CASE ~(Run(h) /\ Creates(h))
    <3>1. call'[h].at # "health"
      <4>1. CASE Allocate(h) \/ NoDaemon(h) \/ Find(h)
        BY <4>1 DEF Allocate, NoDaemon, Find, Goes, Frame
      <4>2. CASE Run(h)
        BY <2>2, <4>2, RunCreates
      <4>3. CASE HealthPasses(h) \/ HealthFails(h) \/ Retire(h)
        BY <4>3 DEF HealthPasses, HealthFails, Retire, Goes, Frame
      <4> QED BY <4>1, <4>2, <4>3 DEF StartStep
    <3> QED BY <1>1, <3>1 DEF MineStands
  <2> QED BY <2>1, <2>2
<1>2. CASE g # h /\ call[g].at = "health"
  <2>1. call'[g] = call[g]
    BY <1>2, StartStepLocal
  <2>2. /\ containers[u][s].cid = call[g].mine /\ containers[u][s].up
        /\ containers[u][s].port = call[g].port
        /\ \A t \in Slots \ {s} : containers[u][t].cid < call[g].mine
        /\ call[g].mine # 0
    BY <1>2 DEF MineStands, MineKnown
  <2>3. ASSUME containers'[u][s].cid = containers[u][s].cid,
               containers'[u][s].up = containers[u][s].up,
               containers'[u][s].port = containers[u][s].port,
               \A t \in Slots \ {s} : \/ containers'[u][t].cid = containers[u][t].cid
                                      \/ containers'[u][t].cid = 0
        PROVE  MineStands(g)'
    BY <2>1, <2>2, <2>3 DEF MineStands
  <2>3a. ASSUME NEW cid, containers' = Without(cid), cid # containers[u][s].cid
        PROVE  MineStands(g)'
    <3>1. containers'[u][s] = containers[u][s]
      BY <2>3a, WithoutSheds
    <3>2. \A t \in Slots : \/ containers'[u][t] = containers[u][t]
                           \/ containers'[u][t] = NoContainer
      BY <2>3a, WithoutSheds
    <3> QED BY <2>3, <3>1, <3>2, NullContainer
  <2>4. CASE Allocate(h) \/ NoDaemon(h) \/ Find(h)
    BY <2>3, <2>4 DEF Allocate, NoDaemon, Find
  <2>5. CASE Run(h)
    <3>1. \A t \in Slots : containers'[u][t] = containers[u][t]
      BY <1>2, <2>5, RunCreates, NoOvertaking DEF Creates
    <3> QED BY <2>3, <3>1
  <2>6. CASE HealthPasses(h)
    BY <2>3, <2>6, HealthPassesMarks
  <2>7. CASE HealthFails(h)
    <3>1. call[h].mine # call[g].mine
      BY <1>2, <2>2 DEF IdsUnique
    <3> QED BY <2>2, <2>3, <2>3a, <2>7, <3>1 DEF HealthFails
  <2>8. CASE Retire(h)
    <3>1. CASE containers' = containers
      BY <2>3, <3>1
    <3>2. CASE containers' # containers
      <4>1. /\ call[h].at = "retire" /\ call[h].old # 0 /\ Exists(call[h].old)
            /\ containers' = Without(call[h].old)
        BY <2>8, <3>2 DEF Retire
      <4>2. call[h].old # call[g].mine
        BY <1>2, <4>1, NotRetired
      <4> QED BY <2>2, <2>3a, <4>1, <4>2
    <3> QED BY <3>1, <3>2
  <2> QED BY <2>4, <2>5, <2>6, <2>7, <2>8 DEF StartStep
<1>3. CASE g # h /\ call[g].at # "health"
  BY <1>3, StartStepLocal DEF MineStands
<1> QED BY <1>1, <1>2, <1>3

\* What answers on the port of a frame that asks is its own container.
LEMMA OwnAnswers ==
  ASSUME FInv, SInv, NEW h \in Callers, HealthPasses(h)
  PROVE  /\ Answers(call[h].mine, call[h].port)
         /\ LET c == containers'[call[h].unit][call[h].slot] IN
            c.cid = call[h].mine /\ c.up /\ c.passed
<1>1. /\ RuntimeTypeOK /\ call[h].unit \in Units /\ call[h].slot \in Slots
      /\ call[h].at = "health" /\ MineStands(h)
  BY DEF FInv, IInv, TypeOK, RuntimeTypeOK, Frame, SInv, HealthPasses
<1>2. Answers(call[h].mine, call[h].port)
  BY <1>1 DEF MineStands, Answers
<1> QED BY <1>1, <1>2, HealthPassesMarks DEF MineStands

LEMMA ReplacedStep ==
  ASSUME FInv, SInv, NEW h \in Callers, StartStep(h) \/ NoDaemon(h), NEW g \in Callers
  PROVE  Replaced(g)'
<1> /\ RuntimeTypeOK /\ CidsKnown /\ IdsUnique /\ FramesKnown
    /\ call \in [Callers -> Frame] /\ call[h] \in Frame /\ call[g] \in Frame
    /\ call[g].unit \in Units /\ call[g].slot \in Slots /\ call[g].mine \in Nat
    /\ call[g].old \in Nat /\ spawned \in Nat
    /\ Replaced(g) /\ OldKnown(g)
  BY DEF FInv, IInv, TypeOK, RuntimeTypeOK, Frame, SInv, FramesKnown
<1> DEFINE u == call[g].unit
           s == call[g].slot
<1>1. CASE g = h
  <2>1. CASE HealthPasses(h)
    <3>1. /\ call'[h].slot = call[h].slot /\ call'[h].mine = call[h].mine
          /\ call'[h].unit = call[h].unit
      BY <2>1 DEF HealthPasses, Goes, Frame
    <3> QED BY <1>1, <2>1, <3>1, OwnAnswers DEF Replaced
  <2>2. CASE ~HealthPasses(h)
    <3>1. call'[h].at # "retire"
      <4>1. CASE Allocate(h) \/ NoDaemon(h) \/ Find(h)
        BY <4>1 DEF Allocate, NoDaemon, Find, Goes, Frame
      <4>2. CASE Run(h)
        BY <4>2, RunCreates DEF Creates
      <4>3. CASE HealthFails(h) \/ Retire(h)
        BY <4>3 DEF HealthFails, Retire, Goes, Frame
      <4> QED BY <2>2, <4>1, <4>2, <4>3 DEF StartStep
    <3> QED BY <1>1, <3>1 DEF Replaced
  <2> QED BY <2>1, <2>2
<1>2. CASE g # h
  <2>1. call'[g] = call[g]
    BY <1>2, StartStepLocal
  <2> SUFFICES ASSUME call[g].at = "retire", call[g].old # 0, Exists(call[g].old)'
               PROVE  LET c == containers'[u][s] IN c.cid = call[g].mine /\ c.up /\ c.passed
    BY <2>1 DEF Replaced
  <2>2. Exists(call[g].old) /\ call[g].old < call[g].mine
    <3>1. PICK v \in Units, t \in Slots : containers'[v][t].cid = call[g].old
      BY <2>1 DEF Exists
    <3>2. call[g].old < call[g].mine /\ call[g].old <= spawned
      BY DEF OldKnown
    <3>3. containers'[v][t].cid \in {0, spawned + 1, containers[v][t].cid}
      BY StartStepSheds, NullContainer DEF Creates, Sheds
    <3>4. containers[v][t].cid = call[g].old
      BY <3>1, <3>2, <3>3
    <3> QED BY <3>2, <3>4 DEF Exists
  <2>3. /\ containers[u][s].cid = call[g].mine /\ containers[u][s].up
        /\ containers[u][s].passed /\ call[g].mine # 0
    BY <2>2 DEF Replaced
  <2>4. CASE Allocate(h) \/ NoDaemon(h) \/ Find(h)
    BY <2>3, <2>4 DEF Allocate, NoDaemon, Find
  <2>5. CASE Run(h)
    BY <2>3, <2>5, RunCreates DEF Creates, Occupied
  <2>6. CASE HealthPasses(h)
    BY <2>3, <2>6, HealthPassesMarks
  <2>7. CASE HealthFails(h)
    <3>1. call[h].mine # call[g].mine
      BY <1>2, <2>3 DEF IdsUnique
    <3> QED BY <2>3, <2>7, <3>1, WithoutSheds DEF HealthFails
  <2>8. CASE Retire(h)
    <3>1. CASE containers' = containers
      BY <2>3, <3>1
    <3>2. CASE containers' # containers
      <4>1. /\ call[h].at = "retire" /\ call[h].old # 0 /\ Exists(call[h].old)
            /\ containers' = Without(call[h].old)
        BY <2>8, <3>2 DEF Retire
      <4>2. call[h].old # call[g].mine
        BY <1>2, <2>2, <4>1, NotRetired
      <4> QED BY <2>3, <4>1, <4>2, WithoutSheds
    <3> QED BY <3>1, <3>2
  <2> QED BY <2>4, <2>5, <2>6, <2>7, <2>8 DEF StartStep
<1> QED BY <1>1, <1>2

\* Nothing else moves a frame to its check or past it, or takes a container.
LEMMA QuietStands ==
  ASSUME SInv, Quiet, NEW g \in Callers
  PROVE  MineStands(g)' /\ Replaced(g)'
<1>1. MineStands(g)'
  BY NullContainer DEF Quiet, SInv, MineStands
<1>2. Replaced(g)'
  BY NullContainer DEF Quiet, SInv, Replaced, Exists
<1> QED BY <1>1, <1>2

\* One step of the whole system keeps what has been proven healthy.
LEMMA HealthyKept ==
  ASSUME FInv, SInv, [Next]_vars, ~stopped', NEW u \in Units
  PROVE  /\ Serving(u) => Serving(u)'
         /\ proven \subseteq proven'
<1>1. CASE Quiet
  BY <1>1 DEF Quiet, Serving
<1>2. ASSUME NEW h \in Callers, RuntimeStep(h)
      PROVE  /\ Serving(u) => Serving(u)'
             /\ proven \subseteq proven'
  <2>1. StartStep(h) \/ NoDaemon(h)
    BY <1>2 DEF RuntimeStep
  <2>2. proven \subseteq proven'
    BY <2>1 DEF StartStep, Allocate, NoDaemon, Find, Run, HealthPasses, HealthFails, Retire
  <2> QED BY <2>1, <2>2, ServingKept
<1>3. ASSUME NEW v \in Units PROVE ~StopRequest(v)
  BY DEF StopRequest
<1> QED BY <1>1, <1>2, <1>3, NextQuiet DEF FInv, IInv

\* Only a passed check takes a frame to its end, and only a frame that ended
\* well takes a job on to its release.
LEMMA ProvenCalls ==
  ASSUME FInv, SInv, [Next]_vars, ~stopped', NEW g \in Callers,
         call'[g].at \in {"retire", "ok"}
  PROVE  Healthy(call[g].unit, call[g].image)'
<1> /\ TypeOK /\ RuntimeTypeOK /\ call \in [Callers -> Frame] /\ call[g] \in Frame
    /\ call[g].unit \in Units
  BY DEF FInv, IInv, TypeOK, RuntimeTypeOK, Frame
<1>1. ASSUME call'[g].unit = call[g].unit, call'[g].image = call[g].image,
             call[g].at \in {"retire", "ok"}
      PROVE  Healthy(call[g].unit, call[g].image)'
  BY <1>1, HealthyKept DEF SInv, ProvenFrames, Healthy
<1>2. CASE Quiet
  BY <1>1, <1>2, NullContainer DEF Quiet
<1>3. ASSUME NEW h \in Callers, StartStep(h) \/ NoDaemon(h)
      PROVE  Healthy(call[g].unit, call[g].image)'
  <2>1. CASE g # h
    BY <1>1, <1>3, <2>1, StartStepLocal
  <2>2. CASE g = h
    <3>1. CASE Allocate(h) \/ NoDaemon(h) \/ Find(h)
      BY <2>2, <3>1 DEF Allocate, NoDaemon, Find, Goes, Frame
    <3>2. CASE Run(h)
      BY <2>2, <3>2, RunCreates DEF Creates
    <3>3. CASE HealthPasses(h)
      <4>1. <<call[h].unit, call[h].image>> \in proven'
        BY <3>3, OwnAnswers DEF HealthPasses
      <4>2. Serving(call[h].unit)'
        BY <1>3, <2>2, <3>3, OwnAnswers, StartStepLocal DEF Serving, Frame
      <4> QED BY <1>3, <2>2, <4>1, <4>2, StartStepLocal DEF Healthy
    <3>4. CASE HealthFails(h)
      BY <2>2, <3>4 DEF HealthFails, Goes, Frame
    <3>5. CASE Retire(h)
      BY <1>1, <1>3, <2>2, <3>5, StartStepLocal DEF Retire
    <3> QED BY <1>3, <3>1, <3>2, <3>3, <3>4, <3>5 DEF StartStep
  <2> QED BY <2>1, <2>2
<1>4. ASSUME NEW v \in Units PROVE ~StopRequest(v)
  BY DEF StopRequest
<1> QED BY <1>2, <1>3, <1>4, NextQuiet DEF RuntimeStep

LEMMA ProvenJobs ==
  ASSUME FInv, SInv, [Next]_vars, ~stopped', NEW g \in Callers,
         job'[g].at \in {"proxy", "commit"}
  PROVE  Healthy(job[g].unit, job[g].image)'
<1> /\ TypeOK /\ job \in [Callers -> Job] /\ job[g] \in Job /\ job[g].unit \in Units
    /\ ProvenFrames
  BY DEF FInv, IInv, TypeOK, Job, SInv
<1>1. ASSUME job'[g].unit = job[g].unit, job'[g].image = job[g].image,
             Healthy(job[g].unit, job[g].image)
      PROVE  Healthy(job[g].unit, job[g].image)'
  BY <1>1, HealthyKept DEF Healthy
<1>2. CASE job'[g] = job[g]
  BY <1>1, <1>2 DEF ProvenFrames
<1>3. CASE JobStep(g)
  <2>1. CASE Started(g)
    <3>1. /\ job'[g].unit = job[g].unit /\ job'[g].image = job[g].image
          /\ call[g].at = "ok"
      BY <2>1 DEF Started, Job
    <3>2. call[g].unit = job[g].unit /\ call[g].image = job[g].image
      BY <3>1 DEF FInv, FramesKnown, FrameOfJob
    <3> QED BY <1>1, <3>1, <3>2 DEF ProvenFrames
  <2>2. CASE Configure(g)
    <3>1. /\ job'[g].unit = job[g].unit /\ job'[g].image = job[g].image
          /\ job[g].at = "proxy"
      BY <2>2 DEF Configure, JobGoes, Job
    <3> QED BY <1>1, <3>1 DEF ProvenFrames
  <2>3. CASE RuntimeStep(g)
    BY <1>2, <2>3 DEF RuntimeStep, depVars
  <2>4. ASSUME NEW i \in Images, Checkout(g, i) PROVE FALSE
    BY <2>4 DEF Checkout, Job
  <2>5. CASE Acquire(g) \/ Build(g) \/ Commit(g)
    BY <2>5 DEF Acquire, Build, Commit, JobGoes, Job
  <2>6. CASE Busy(g) \/ Unlock(g)
    BY <2>6 DEF Busy, Unlock, NoJob
  <2>7. CASE JobEnds(g)
    BY <2>7 DEF JobEnds, NoJob, Job
  <2> QED BY <1>3, <2>1, <2>2, <2>3, <2>4, <2>5, <2>6, <2>7
          DEF JobStep, CheckoutFails, BuildFails, StartFails, ConfigureFails, Mark
<1>4. ASSUME NEW h \in Callers, h # g, JobStep(h) PROVE job'[g] = job[g]
  BY <1>4, JobStepLocal
<1>5. ASSUME NEW h \in Callers, NEW u \in Units,
             DeployRequest(h, u) \/ RollbackRequest(h, u) \/ WorkerTake(h)
      PROVE  job'[g] = job[g]
  <2>1. CASE g # h
    BY <1>5, <2>1 DEF DeployRequest, RollbackRequest, WorkerTake
  <2>2. CASE g = h
    <3>1. CASE DeployRequest(h, u)
      BY <2>2, <3>1 DEF DeployRequest, NoJob
    <3>2. CASE RollbackRequest(h, u)
      BY <2>2, <3>2 DEF RollbackRequest, NoJob
    <3>3. CASE WorkerTake(h)
      BY <2>2, <3>3 DEF WorkerTake, NoJob
    <3> QED BY <1>5, <3>1, <3>2, <3>3
  <2> QED BY <2>1, <2>2
<1>6. CASE \/ \E u \in Units : QueueRequest(u) \/ StopRequest(u)
           \/ UNCHANGED vars
  BY <1>2, <1>6 DEF QueueRequest, StopRequest, vars, depVars
<1>7. CASE Restart
  BY <1>7 DEF Restart, NoJob
<1> QED BY <1>2, <1>3, <1>4, <1>5, <1>6, <1>7, UnitExists DEF Next

\* A row that becomes running or stopped was made so by Commit, with the unit
\* and the image of its job.
LEMMA NewlySettled ==
  ASSUME FInv, NEW h \in Callers, JobStep(h), NEW i \in Ids, Settled(i)', ~Settled(i)
  PROVE  /\ job[h].at = "commit"
         /\ row'[i].unit = job[h].unit /\ row'[i].image = job[h].image
<1> /\ TypeOK /\ RowsKnown /\ row \in [Ids -> Row] /\ job[h] \in Job /\ RowKnown(h)
    /\ nRows \in Nat
  BY DEF FInv, IInv, TypeOK, RowsKnown
<1> USE DEF Settled
<1>1. CASE Keeps \/ Ends(h, "failed") \/ Tags(h) \/ Opens(h)
  BY <1>1 DEF Keeps, Ends, Tags, Opens, Insert, dbVars, Row
<1>2. CASE Commit(h) /\ job[h].op = "deploy" /\ Ends(h, "running")
  <2>1. /\ job[h].at = "commit" /\ i = job[h].rec
        /\ row'[i].unit = row[i].unit /\ row'[i].image = row[i].image
    BY <1>2 DEF Commit, Ends, Row
  <2> QED BY <1>2, <2>1 DEF RowKnown, FInv, RowImage
<1>3. CASE Commit(h) /\ job[h].op = "rollback"
  BY <1>3 DEF Commit, Insert, Job
<1>4. CASE Mark(h)
  BY <1>4 DEF Mark, Row
<1> QED BY <1>1, <1>2, <1>3, <1>4, JobStepWrites DEF Writes

LEMMA ProvenRowsStep ==
  ASSUME FInv, SInv, [Next]_vars, ~stopped'
  PROVE  ProvenRows'
<1> SUFFICES ASSUME NEW i \in Ids, Settled(i)'
             PROVE  Healthy(row[i].unit, row[i].image)'
  BY DEF ProvenRows
<1> /\ TypeOK /\ RowsKnown /\ FreshRows /\ row \in [Ids -> Row] /\ nRows \in Nat
    /\ row[i].unit \in Units
  BY DEF FInv, IInv, TypeOK, Row
<1>1. ASSUME Settled(i), row'[i].unit = row[i].unit, row'[i].image = row[i].image
      PROVE  Healthy(row[i].unit, row[i].image)'
  BY <1>1, HealthyKept DEF SInv, ProvenRows, Healthy
<1>2. ASSUME NEW h \in Callers, JobStep(h)
      PROVE  Healthy(row[i].unit, row[i].image)'
  <2>1. CASE Settled(i)
    <3>1. i <= nRows
      BY <2>1, NullFields DEF FreshRows, Settled, Ids
    <3> QED BY <1>1, <1>2, <2>1, <3>1, JobStepTable
  <2>2. CASE ~Settled(i)
    <3>1. /\ job[h].at = "commit"
          /\ row'[i].unit = job[h].unit /\ row'[i].image = job[h].image
      BY <1>2, <2>2, NewlySettled
    <3>2. Healthy(job[h].unit, job[h].image) /\ job[h].unit \in Units
      BY <3>1 DEF SInv, ProvenFrames, TypeOK, Job
    <3> QED BY <3>1, <3>2, HealthyKept DEF Healthy
  <2> QED BY <2>1, <2>2
<1>3. CASE row' = row
  BY <1>1, <1>3 DEF Settled
<1>4. ASSUME NEW u \in Units, QueueRequest(u)
      PROVE  Healthy(row[i].unit, row[i].image)'
  <2>1. i # nRows + 1 /\ row'[i] = row[i]
    BY <1>4 DEF QueueRequest, Insert, Settled
  <2> QED BY <1>1, <2>1 DEF Settled
<1> QED BY <1>2, <1>3, <1>4 DEF Next, DeployRequest, RollbackRequest, StopRequest,
           WorkerTake, Restart, vars, depVars, dbVars

----------------------------------------------------------------------------
(* The theorems.                                                           *)

LEMMA InitServing == Init => ServingInv
<1> SUFFICES ASSUME Init PROVE SInv
  BY InitFrames DEF ServingInv
<1>1. /\ \A h \in Callers : call[h] = NoCall /\ job[h] = NoJob
      /\ \A i \in Ids : row[i] = Blank
  BY DEF Init, RuntimeInit
<1> QED BY <1>1, NullContainer, NullFields
        DEF SInv, MineStands, Replaced, ProvenFrames, ProvenRows, Settled

LEMMA StoppedStays == [Next]_vars /\ ~stopped' => ~stopped
  BY DEF Next, DeployRequest, RollbackRequest, QueueRequest, StopRequest, WorkerTake,
     JobStep, Acquire, Busy, Checkout, CheckoutFails, Build, BuildFails, RuntimeStep,
     Started, StartFails, Configure, ConfigureFails, Commit, Mark, Unlock, Restart, vars

LEMMA NextServing == ServingInv /\ [Next]_vars => ServingInv'
<1> SUFFICES ASSUME FInv, [Next]_vars, ~stopped', SInv PROVE SInv'
  BY StoppedStays, NextFrames DEF ServingInv
<1>1. ASSUME NEW g \in Callers PROVE MineStands(g)' /\ Replaced(g)'
  <2>1. ASSUME NEW h \in Callers, RuntimeStep(h) PROVE MineStands(g)' /\ Replaced(g)'
    BY <2>1, MineStandsStep, ReplacedStep DEF RuntimeStep
  <2>2. ASSUME NEW u \in Units PROVE ~StopRequest(u)
    BY DEF StopRequest
  <2> QED BY <2>1, <2>2, NextQuiet, QuietStands DEF FInv, IInv
<1>2. ProvenFrames'
  BY ProvenCalls, ProvenJobs DEF ProvenFrames, Healthy, Serving
<1> QED BY <1>1, <1>2, ProvenRowsStep DEF SInv

LEMMA ServingInvariance == Spec => []ServingInv
  BY InitServing, NextServing, PTL DEF Spec

\* Rollback only goes back to what was healthy: a row is running or stopped
\* only if a container of its image passed its own check in that unit, until
\* somebody stops an application.
THEOREM TargetsProven == Spec => []TargetsProvenUnlessStopped
<1>1. ServingInv => TargetsProvenUnlessStopped
  BY DEF ServingInv, SInv, ProvenRows, Settled, Healthy, TargetsProvenUnlessStopped
<1> QED BY <1>1, ServingInvariance, PTL

\* Zero downtime: until somebody stops an application, a unit that has a
\* healthy container has one after every step.
THEOREM ServingNeverEnds == Spec => ServesUnlessStopped
<1> DEFINE Serves == ~stopped' => \A u \in Units : Serving(u) => Serving(u)'
<1>1. ServingInv /\ [Next]_vars => [Serves]_<<rtVars, stopped>>
  <2> SUFFICES ASSUME ServingInv, [Next]_vars, ~stopped', NEW u \in Units, Serving(u)
               PROVE  Serving(u)'
    BY DEF rtVars
  <2> QED BY StoppedStays, HealthyKept DEF ServingInv
<1> QED BY <1>1, ServingInvariance, PTL DEF Spec, ServesUnlessStopped

----------------------------------------------------------------------------
(* Traffic follows the table, where nothing but deployments happens.       *)

\* No application is stopped, nothing is rolled back, the proxy does what it
\* is told and the control plane does not die: each of the five leaves the
\* upstream on something else than the running row (see README).
Calm == Ops \cap {"stop", "rollback", "proxy", "reload"} = {} /\ MaxCrashes = 0

\* A container of this image that is healthy and listens here.
Up(u, p, i) == \E s \in Slots : /\ containers[u][s].up /\ containers[u][s].passed
                                /\ containers[u][s].port = p
                                /\ containers[u][s].image = i

\* From Run on the new container is in its slot, and only its unit's old one
\* beside it.
NewStands(h) == call[h].at \in {"health", "retire"} =>
    LET c == containers[call[h].unit][call[h].slot] IN
    /\ c.cid = call[h].mine /\ c.up
    /\ c.port = call[h].port /\ c.image = call[h].image
    /\ call[h].at = "retire" => c.passed

\* In its switch a job knows where its healthy container listens.
SwitchKnown(h) ==
    /\ job[h].at = "start" /\ call[h].at = "ok" =>
          Up(call[h].unit, call[h].port, call[h].image)
    /\ job[h].at \in {"proxy", "commit", "mark"} =>
          Up(job[h].unit, job[h].port, job[h].image)
    /\ job[h].at \in {"commit", "mark"} => served[job[h].unit] = job[h].port

RouteInv == /\ ~stopped /\ served = site
            /\ \A h \in Callers :
                  job[h].op = "deploy" /\ NewStands(h) /\ SwitchKnown(h)
            /\ RouteServes

\* A deployment has its unit to itself.
LEMMA Alone ==
  ASSUME FInv, RouteInv, NEW g \in Callers, NEW h \in Callers, g # h,
         job[g].at \notin {"idle", "lock"}, job[h].at \notin {"idle", "lock"}
  PROVE  job[g].unit # job[h].unit
  BY InvExclusion DEF FInv, RouteInv, LockExclusion, InPipeline

LEMMA CallsAlone ==
  ASSUME FInv, RouteInv, NEW g \in Callers, NEW h \in Callers, g # h,
         call[g].at # "idle", call[h].at # "idle"
  PROVE  call[g].unit # call[h].unit
<1>1. /\ job[g].at = "start" /\ job[g].unit = call[g].unit
      /\ job[h].at = "start" /\ job[h].unit = call[h].unit
  BY DEF FInv, FramesKnown, FrameOfJob
<1> QED BY <1>1, Alone

\* A step of start() changes the containers of its own unit only.
LEMMA CellsLocal ==
  ASSUME FInv, RouteInv, NEW h \in Callers, StartStep(h) \/ NoDaemon(h),
         NEW v \in Units, v # call[h].unit, NEW s \in Slots
  PROVE  containers'[v][s] = containers[v][s]
<1> /\ RuntimeTypeOK /\ IdsUnique /\ call[h] \in Frame
    /\ call[h].unit \in Units /\ call[h].slot \in Slots
    /\ NewStands(h) /\ MineKnown(h) /\ OldKnown(h)
  BY DEF FInv, IInv, TypeOK, RuntimeTypeOK, Frame, RouteInv, FramesKnown
<1>1. call[h].at = "health" => containers[v][s].cid # call[h].mine
  BY DEF NewStands, MineKnown, IdsUnique
<1>2. CASE Allocate(h) \/ NoDaemon(h) \/ Find(h)
  BY <1>2 DEF Allocate, NoDaemon, Find
<1>3. CASE Run(h)
  BY <1>3, RunCreates DEF Creates
<1>4. CASE HealthPasses(h)
  <2>1. containers'[v][s] = IF /\ Answers(call[h].mine, call[h].port)
                               /\ containers[v][s].cid = call[h].mine
                            THEN [containers[v][s] EXCEPT !.passed = TRUE]
                            ELSE containers[v][s]
    BY <1>4 DEF HealthPasses
  <2>2. containers[v][s].cid # call[h].mine
    BY <1>1, <1>4 DEF HealthPasses
  <2> QED BY <2>1, <2>2
<1>5. CASE HealthFails(h)
  BY <1>1, <1>5, WithoutSheds DEF HealthFails
<1>6. CASE Retire(h)
  <2>1. call[h].old # 0 => containers[v][s].cid # call[h].old
    BY <1>6 DEF Retire, OldKnown
  <2> QED BY <1>6, <2>1, WithoutSheds DEF Retire
<1> QED BY <1>2, <1>3, <1>4, <1>5, <1>6 DEF StartStep

\* A healthy container of an image answers on its port until a start() that
\* found its successor healthy removes it.
LEMMA UpKept ==
  ASSUME FInv, RouteInv, NEW h \in Callers, StartStep(h) \/ NoDaemon(h),
         NEW u \in Units, NEW p, NEW i, Up(u, p, i),
         ~(Retire(h) /\ call[h].unit = u)
  PROVE  Up(u, p, i)'
<1> /\ RuntimeTypeOK /\ CidsKnown /\ call[h] \in Frame /\ Unpassed(h)
  BY DEF FInv, IInv, TypeOK, RuntimeTypeOK, FramesKnown
<1>1. PICK s \in Slots : /\ containers[u][s].up /\ containers[u][s].passed
                         /\ containers[u][s].port = p /\ containers[u][s].image = i
  BY DEF Up
<1> SUFFICES ASSUME containers'[u][s] # containers[u][s] PROVE Up(u, p, i)'
  BY <1>1 DEF Up
<1>2. u = call[h].unit
  BY CellsLocal
<1>3. CASE Allocate(h) \/ NoDaemon(h) \/ Find(h)
  BY <1>3 DEF Allocate, NoDaemon, Find
<1>4. CASE Run(h)
  BY <1>1, <1>4, RunCreates DEF Creates, Occupied, CidsKnown
<1>5. CASE HealthPasses(h)
  <2>1. containers[u][s].cid = call[h].mine /\ call[h].at = "health"
    BY <1>5 DEF HealthPasses
  <2> QED BY <1>1, <2>1 DEF Unpassed
<1>6. CASE HealthFails(h)
  <2>1. containers[u][s].cid = call[h].mine /\ call[h].at = "health"
    BY <1>6, WithoutSheds DEF HealthFails
  <2> QED BY <1>1, <2>1 DEF Unpassed
<1> QED BY <1>2, <1>3, <1>4, <1>5, <1>6 DEF StartStep

LEMMA NewStandsStep ==
  ASSUME FInv, RouteInv, NEW h \in Callers, StartStep(h) \/ NoDaemon(h), NEW g \in Callers
  PROVE  NewStands(g)'
<1> /\ RuntimeTypeOK /\ CidsKnown /\ call \in [Callers -> Frame]
    /\ call[h] \in Frame /\ call[g] \in Frame
    /\ call[h].unit \in Units /\ call[h].slot \in Slots /\ call[g].unit \in Units
    /\ NewStands(g)
  BY DEF FInv, IInv, TypeOK, RuntimeTypeOK, Frame, RouteInv
<1>1. CASE g # h
  <2>1. call'[g] = call[g]
    BY <1>1, StartStepLocal
  <2>2. CASE call[g].at = "idle"
    BY <2>1, <2>2 DEF NewStands
  <2>3. CASE call[g].at # "idle"
    <3>1. call[g].unit # call[h].unit
      BY <1>1, <2>3, CallsAlone, StartStepLocal
    <3>2. call[g].slot \in Slots
      BY DEF Frame
    <3> QED BY <2>1, <3>1, <3>2, CellsLocal DEF NewStands
  <2> QED BY <2>2, <2>3
<1>2. CASE g = h
  <2>1. CASE Allocate(h) \/ NoDaemon(h) \/ Find(h)
    BY <1>2, <2>1 DEF Allocate, NoDaemon, Find, Goes, Frame, NewStands
  <2>2. CASE Run(h)
    <3> DEFINE u == call[h].unit
               s == call[h].slot
               free == ~Listening(call[h].port)
               c == [cid |-> spawned + 1, image |-> call[h].image,
                     port |-> call[h].port, up |-> free, passed |-> FALSE]
    <3>1. CASE Creates(h) /\ call'[h].at = "health"
      <4>1. ~Occupied(u, s) /\ containers' = [containers EXCEPT ![u][s] = c]
        BY <2>2, <3>1 DEF Run, Creates
      <4>2. containers'[u][s].image = call[h].image
        BY <4>1 DEF RuntimeTypeOK
      <4> QED BY <1>2, <3>1, <4>2, StartStepLocal DEF Creates, NewStands
    <3>2. CASE call'[h].at # "health"
      BY <1>2, <2>2, <3>2, RunCreates DEF Creates, NewStands
    <3> QED BY <2>2, <3>1, <3>2, RunCreates
  <2>3. CASE HealthPasses(h)
    <3> DEFINE c == containers[call[h].unit][call[h].slot]
    <3>1. /\ c.cid = call[h].mine /\ c.up /\ c.port = call[h].port /\ c.image = call[h].image
      BY <1>2, <2>3 DEF HealthPasses, NewStands
    <3>2. Answers(call[h].mine, call[h].port)
      BY <3>1 DEF Answers
    <3>3. containers'[call[h].unit][call[h].slot] = [c EXCEPT !.passed = TRUE]
      BY <2>3, <3>1, <3>2 DEF HealthPasses
    <3>4. /\ call'[h].unit = call[h].unit /\ call'[h].slot = call[h].slot
          /\ call'[h].mine = call[h].mine /\ call'[h].port = call[h].port
          /\ call'[h].image = call[h].image
      BY <2>3 DEF HealthPasses, Goes, Frame
    <3>5. c \in Container
      BY DEF RuntimeTypeOK
    <3> DEFINE d == [c EXCEPT !.passed = TRUE]
    <3>6. d.cid = c.cid /\ d.up = c.up /\ d.port = c.port /\ d.image = c.image /\ d.passed
      <4> HIDE DEF c
      <4> QED BY <3>5 DEF Container
    <3>7. containers'[call'[g].unit][call'[g].slot] = d
      BY <1>2, <3>3, <3>4
    <3> HIDE DEF c, d
    <3> QED BY <1>2, <3>1, <3>4, <3>6, <3>7 DEF NewStands
  <2>4. CASE HealthFails(h) \/ Retire(h)
    BY <1>2, <2>4 DEF HealthFails, Retire, Goes, Frame, NewStands, Outcomes
  <2> QED BY <1>2, <2>1, <2>2, <2>3, <2>4 DEF StartStep
<1> QED BY <1>1, <1>2

\* When start() returns, its own container is the healthy one.
LEMMA RetireUp ==
  ASSUME FInv, RouteInv, NEW h \in Callers, Retire(h)
  PROVE  Up(call[h].unit, call[h].port, call[h].image)'
<1> /\ RuntimeTypeOK /\ call \in [Callers -> Frame] /\ call[h] \in Frame
    /\ call[h].unit \in Units /\ call[h].slot \in Slots
    /\ call[h].mine \in Nat /\ call[h].old \in Nat
    /\ NewStands(h) /\ OldKnown(h)
  BY DEF FInv, IInv, TypeOK, RuntimeTypeOK, Frame, RouteInv, FramesKnown
<1>1. /\ containers[call[h].unit][call[h].slot].cid = call[h].mine
      /\ call[h].old < call[h].mine
  BY DEF Retire, NewStands, OldKnown
<1>2. containers'[call[h].unit][call[h].slot] = containers[call[h].unit][call[h].slot]
  BY <1>1, WithoutSheds DEF Retire
<1>3. /\ call'[h].unit = call[h].unit /\ call'[h].port = call[h].port
      /\ call'[h].image = call[h].image
  BY DEF Retire, Goes, Frame
<1> QED BY <1>2, <1>3 DEF Retire, NewStands, Up

\* What is left of the steps when nothing but deployments happens.
LEMMA CalmSteps ==
  ASSUME Calm, FInv, RouteInv, [Next]_vars
  PROVE  \/ \E h \in Callers : JobStep(h) /\ ~ConfigureFails(h)
         \/ /\ UNCHANGED <<rtVars, proxyVars, stopped>>
            /\ \A g \in Callers : \/ job'[g] = job[g]
                                  \/ job[g].at = "idle" /\ job'[g].at = "lock"
                                     /\ job'[g].op = "deploy"
            /\ \A i \in Ids : \/ row'[i] = row[i]
                              \/ row'[i].status = "building"
<1> /\ job \in [Callers -> Job] /\ row \in [Ids -> Row] /\ crashes \in Nat
  BY DEF FInv, IInv, TypeOK
<1>1. ASSUME NEW u \in Units PROVE ~StopRequest(u)
  BY DEF Calm, StopRequest
<1>2. ASSUME NEW h \in Callers, NEW u \in Units PROVE ~RollbackRequest(h, u)
  BY DEF Calm, RollbackRequest
<1>3. ASSUME NEW h \in Callers PROVE ~ConfigureFails(h)
  BY DEF Calm, ConfigureFails
<1>4. ~Restart
  BY DEF Calm, Restart
<1> DEFINE Rest == /\ UNCHANGED <<rtVars, proxyVars, stopped>>
                   /\ \A g \in Callers : \/ job'[g] = job[g]
                                         \/ job[g].at = "idle" /\ job'[g].at = "lock"
                                            /\ job'[g].op = "deploy"
                   /\ \A i \in Ids : \/ row'[i] = row[i]
                                     \/ row'[i].status = "building"
<1>5. ASSUME NEW h \in Callers, NEW u \in Units, DeployRequest(h, u) PROVE Rest
  BY <1>5 DEF DeployRequest, NoJob, dbVars
<1>6. ASSUME NEW h \in Callers, WorkerTake(h) PROVE Rest
  BY <1>6 DEF WorkerTake, NoJob, dbVars
<1>7. ASSUME NEW u \in Units, QueueRequest(u) PROVE Rest
  BY <1>7 DEF QueueRequest, Insert
<1>8. CASE UNCHANGED vars
  BY <1>8 DEF vars, depVars, dbVars, proxyVars
<1> QED BY <1>1, <1>2, <1>3, <1>4, <1>5, <1>6, <1>7, <1>8 DEF Next

\* The proxy has loaded what the site files say, and only Configure changes
\* the upstream of its unit.
LEMMA ProxyStep ==
  ASSUME Calm, FInv, RouteInv, NEW h \in Callers, JobStep(h), ~ConfigureFails(h)
  PROVE  /\ served' = site' /\ ~stopped' /\ job'[h].op = "deploy"
         /\ \A u \in Units : u # job[h].unit \/ ~Configure(h) => served'[u] = served[u]
         /\ Configure(h) => served'[job[h].unit] = job[h].port
<1> /\ job \in [Callers -> Job] /\ site \in [Units -> Ports \cup {0}]
    /\ job[h] \in Job /\ job[h].unit \in Units
    /\ served = site /\ ~stopped /\ job[h].op = "deploy"
  BY DEF FInv, IInv, TypeOK, Job, RouteInv
<1>1. job'[h].op = "deploy"
  <2>1. job'[h] = NoJob \/ job'[h].op = job[h].op
    BY JobStepLocal DEF FInv, IInv
  <2> QED BY <2>1, NullFields
<1>2. CASE Configure(h)
  BY <1>1, <1>2 DEF Configure, Calm
<1>3. CASE ~Configure(h)
  <2>1. UNCHANGED <<proxyVars, stopped>>
    BY <1>3 DEF JobStep, Acquire, Busy, Checkout, CheckoutFails, Build, BuildFails,
       RuntimeStep, Started, StartFails, Commit, Mark, Unlock, depVars, proxyVars
  <2> QED BY <1>1, <1>3, <2>1 DEF proxyVars
<1> QED BY <1>2, <1>3

LEMMA SwitchKnownStep ==
  ASSUME Calm, FInv, RouteInv, NEW h \in Callers, JobStep(h), ~ConfigureFails(h),
         NEW g \in Callers
  PROVE  SwitchKnown(g)'
<1> /\ TypeOK /\ RuntimeTypeOK /\ job \in [Callers -> Job] /\ call \in [Callers -> Frame]
    /\ job[g] \in Job /\ call[g] \in Frame /\ job[h] \in Job /\ call[h] \in Frame
    /\ job[g].unit \in Units /\ call[g].unit \in Units /\ call[h].unit \in Units
    /\ SwitchKnown(g) /\ FrameOfJob(g) /\ FrameOfJob(h)
  BY DEF FInv, IInv, TypeOK, RuntimeTypeOK, Job, Frame, RouteInv, FramesKnown
<1>1. CASE RuntimeStep(h)
  <2>1. /\ StartStep(h) \/ NoDaemon(h)
        /\ job' = job /\ served' = served
        /\ job[h].at = "start" /\ job[h].unit = call[h].unit
    BY <1>1, StartStepLocal DEF RuntimeStep, depVars, proxyVars, FrameOfJob
  <2>2. CASE g # h
    <3>1. call'[g] = call[g]
      BY <2>1, <2>2, StartStepLocal
    <3>2. job[g].at \notin {"idle", "lock"} => job[g].unit # call[h].unit
      BY <2>1, <2>2, Alone
    <3>3. job[g].at = "start" /\ call[g].at = "ok" => job[g].unit = call[g].unit
      BY DEF FrameOfJob
    <3> QED BY <2>1, <3>1, <3>2, <3>3, UpKept DEF SwitchKnown
  <2>3. CASE g = h
    <3>1. call'[h].at = "ok" => Retire(h)
      <4>1. CASE Allocate(h) \/ NoDaemon(h) \/ Find(h)
        BY <4>1 DEF Allocate, NoDaemon, Find, Goes, Frame
      <4>2. CASE Run(h)
        BY <4>2, RunCreates DEF Creates
      <4>3. CASE HealthPasses(h) \/ HealthFails(h)
        BY <4>3 DEF HealthPasses, HealthFails, Goes, Frame
      <4> QED BY <2>1, <4>1, <4>2, <4>3 DEF StartStep
    <3> QED BY <2>1, <2>3, <3>1, RetireUp DEF SwitchKnown
  <2> QED BY <2>2, <2>3
<1>2. CASE ~RuntimeStep(h)
  <2>1. containers' = containers
    BY <1>2 DEF JobStep, Acquire, Busy, Checkout, CheckoutFails, Build, BuildFails, Started,
       StartFails, Configure, ConfigureFails, Commit, Mark, Unlock, Begin, Return, rtVars
  <2>2. \A u, p, i : Up(u, p, i) => Up(u, p, i)'
    BY <2>1 DEF Up
  <2>3. CASE g # h
    <3>1. job'[g] = job[g]
      BY <2>3, JobStepLocal
    <3>2. call'[g] = call[g]
      BY <1>2, <2>3, BeginQuiet, ReturnQuiet DEF JobStep, Acquire, Busy, Checkout, CheckoutFails,
         Build, BuildFails, Started, StartFails, Configure, ConfigureFails, Commit, Mark,
         Unlock, rtVars
    <3>3. job[g].at \in {"commit", "mark"} => served'[job[g].unit] = served[job[g].unit]
      <4>1. CASE Configure(h) /\ job[g].at \in {"commit", "mark"}
        <5>1. job[g].unit # job[h].unit
          BY <2>3, <4>1, Alone DEF Configure
        <5> QED BY <5>1, ProxyStep
      <4>2. CASE ~Configure(h)
        BY <4>2, ProxyStep
      <4> QED BY <4>1, <4>2
    <3> QED BY <2>1, <3>1, <3>2, <3>3 DEF SwitchKnown, Up
  <2>4. CASE g = h
    <3>1. CASE Started(h)
      <4>1. /\ job'[h].at = "proxy" /\ job'[h].unit = call[h].unit
            /\ job'[h].port = call[h].port /\ job'[h].image = call[h].image
        BY <3>1 DEF Started, Job, FrameOfJob
      <4> QED BY <2>1, <2>4, <3>1, <4>1 DEF SwitchKnown, Started, Up
    <3>2. CASE Configure(h)
      <4>1. /\ job'[h].at = "commit" /\ job'[h].unit = job[h].unit
            /\ job'[h].port = job[h].port /\ job'[h].image = job[h].image
            /\ job[h].at = "proxy"
        BY <3>2 DEF Configure, JobGoes, Job
      <4> QED BY <2>1, <2>4, <3>2, <4>1, ProxyStep DEF SwitchKnown, Up
    <3>3. CASE Commit(h)
      <4>1. /\ job'[h].at = "mark" /\ job'[h].unit = job[h].unit
            /\ job'[h].port = job[h].port /\ job'[h].image = job[h].image
            /\ job[h].at = "commit" /\ served' = served
        BY <3>3 DEF Commit, JobGoes, Job, RouteInv, proxyVars
      <4> QED BY <2>1, <2>4, <4>1 DEF SwitchKnown, Up
    <3>4. CASE Build(h)
      <4>1. job'[h].at = "start" /\ call'[h].at = "allocate"
        BY <3>4, BeginQuiet DEF Build, JobGoes, Job
      <4> QED BY <2>4, <4>1 DEF SwitchKnown
    <3>5. CASE job'[h].at \in {"idle", "checkout", "build", "unlock"}
      BY <2>4, <3>5 DEF SwitchKnown
    <3>6. ASSUME NEW i \in Images, Checkout(h, i) PROVE job'[h].at = "build"
      BY <3>6 DEF Checkout, Job
    <3>7. CASE Acquire(h)
      BY <3>5, <3>7 DEF Acquire, JobGoes, Job
    <3>8. CASE Busy(h) \/ Unlock(h)
      BY <3>5, <3>8 DEF Busy, Unlock, NoJob
    <3>9. CASE JobEnds(h)
      BY <3>5, <3>9 DEF JobEnds, NoJob, Job
    <3> QED BY <1>2, <3>1, <3>2, <3>3, <3>4, <3>5, <3>6, <3>7, <3>8, <3>9
            DEF JobStep, CheckoutFails, BuildFails, StartFails, Mark
  <2> QED BY <2>3, <2>4
<1> QED BY <1>1, <1>2

\* Routed(u): RouteServes, for one unit.
Routed(u) ==
    (\A h \in Callers : job[h].unit = u => ~Switching(h)) =>
        \A i \in Ids : row[i].unit = u /\ row[i].status = "running" =>
            Up(u, served[u], row[i].image)

LEMMA RoutedUnits == RouteServes <=> \A u \in Units : Routed(u)
  BY DEF RouteServes, Routed, Up

LEMMA RoutedStep ==
  ASSUME Calm, FInv, RouteInv, NEW h \in Callers, JobStep(h), ~ConfigureFails(h),
         NEW u \in Units
  PROVE  Routed(u)'
<1> SUFFICES ASSUME \A g \in Callers : job'[g].unit = u => ~Switching(g)',
                    NEW i \in Ids, row'[i].unit = u, row'[i].status = "running"
             PROVE  Up(u, served[u], row[i].image)'
  BY DEF Routed
<1> /\ TypeOK /\ RuntimeTypeOK /\ RowsKnown /\ FreshRows /\ SingleWriter
    /\ job \in [Callers -> Job] /\ call \in [Callers -> Frame] /\ row \in [Ids -> Row]
    /\ job[h] \in Job /\ call[h] \in Frame /\ nRows \in Nat /\ Routed(u)
    /\ SwitchKnown(h) /\ FrameOfJob(h)
  BY RoutedUnits DEF FInv, IInv, TypeOK, RuntimeTypeOK, RouteInv, FramesKnown
<1> USE DEF Switching
\* A step that leaves the unit as it was.
<1>1. ASSUME row[i].status = "running", served'[u] = served[u],
             \A p, m : Up(u, p, m) => Up(u, p, m)',
             job[h].unit = u => ~Switching(h)
      PROVE  Up(u, served[u], row[i].image)'
  <2>1. \A g \in Callers \ {h} : job'[g] = job[g]
    BY JobStepLocal
  <2>2. \A g \in Callers \ {h} : call'[g] = call[g]
    <3>1. CASE RuntimeStep(h)
      BY <3>1, StartStepLocal DEF RuntimeStep
    <3>2. CASE ~RuntimeStep(h)
      BY <3>2, BeginQuiet, ReturnQuiet DEF JobStep, Acquire, Busy, Checkout, CheckoutFails,
         Build, BuildFails, Started, StartFails, Configure, ConfigureFails, Commit, Mark,
         Unlock, rtVars
    <3> QED BY <3>1, <3>2
  <2>3. \A g \in Callers : job[g].unit = u => ~Switching(g)
    BY <1>1, <2>1, <2>2
  <2>4. row[i].unit = u /\ row'[i].image = row[i].image
    <3>1. i <= nRows
      BY <1>1, NullFields DEF FreshRows, Ids
    <3> QED BY <1>1, <3>1, JobStepTable DEF Settled
  <2> QED BY <1>1, <2>3, <2>4 DEF Routed
<1>2. CASE RuntimeStep(h)
  <2>1. /\ StartStep(h) \/ NoDaemon(h)
        /\ job' = job /\ served' = served /\ row' = row
        /\ job[h].at = "start" /\ job[h].unit = call[h].unit /\ call[h].at # "ok"
    BY <1>2, StartStepLocal DEF RuntimeStep, depVars, proxyVars, dbVars, FrameOfJob
  <2>2. CASE ~(Retire(h) /\ call[h].unit = u)
    BY <1>1, <2>1, <2>2, UpKept
  <2>3. CASE Retire(h) /\ call[h].unit = u
    <3>1. call'[h].at # "ok"
      BY <2>1, <2>3
    <3>2. containers' = containers
      BY <2>3, <3>1 DEF Retire, Goes, Frame
    <3> QED BY <1>1, <2>1, <3>2 DEF Up
  <2> QED BY <2>2, <2>3
<1>3. CASE ~RuntimeStep(h)
  <2>1. containers' = containers
    BY <1>3 DEF JobStep, Acquire, Busy, Checkout, CheckoutFails, Build, BuildFails, Started,
       StartFails, Configure, ConfigureFails, Commit, Mark, Unlock, Begin, Return, rtVars
  <2>2. \A p, m : Up(u, p, m) => Up(u, p, m)'
    BY <2>1 DEF Up
  <2>3. CASE Mark(h) /\ job[h].unit = u
    <3>1. /\ job[h].rec \in Ids /\ row[job[h].rec].unit = u /\ served' = served
          /\ job[h].at = "mark" /\ job[h].op = "deploy"
      BY <2>3 DEF Mark, RowsKnown, RowKnown, Job, RouteInv, proxyVars
    <3>2. i = job[h].rec /\ row'[i] = row[i]
      BY <2>3, <3>1 DEF Mark, Row
    <3>3. row[i].image = job[h].image
      BY <3>1, <3>2 DEF FInv, RowImage
    <3>4. Up(u, served[u], row[i].image)
      BY <2>3, <3>1, <3>3 DEF SwitchKnown
    <3> QED BY <2>1, <3>1, <3>2, <3>4 DEF Up
  <2>4. CASE ~Mark(h) /\ job[h].unit = u
    <3>1. ~Started(h) /\ ~Configure(h) /\ ~Commit(h)
      <4>1. CASE Started(h)
        BY <2>4, <4>1 DEF Started, Job
      <4>2. CASE Configure(h) \/ Commit(h)
        <5>1. job[h].op = "deploy"
          BY DEF RouteInv
        <5> QED BY <2>4, <4>2, <5>1 DEF Configure, Commit, JobGoes, Job
      <4> QED BY <4>1, <4>2
    <3>2. row[i].status = "running"
      BY <3>1, OnlyCommitRuns
    <3>3. ~Switching(h)
      BY <1>3, <2>4, <3>1 DEF JobStep, Acquire, Busy, Checkout, CheckoutFails, Build,
         BuildFails, StartFails, Unlock
    <3>4. served'[u] = served[u]
      BY <3>1, ProxyStep
    <3> QED BY <1>1, <2>2, <3>2, <3>3, <3>4
  <2>5. CASE job[h].unit # u
    <3>1. row[i].status = "running"
      <4>1. CASE Commit(h)
        <5>1. job'[h].rec # 0 /\ row'[job'[h].rec].unit = job[h].unit /\ job'[h].rec # i
          <6>1. job[h].op = "deploy"
            BY DEF RouteInv
          <6> QED BY <2>5, <4>1, <6>1 DEF Commit, JobGoes, Job, RowsKnown, RowKnown, Row
        <5> QED BY <4>1, <5>1, OnlyCommitRuns
      <4>2. CASE ~Commit(h)
        BY <4>2, OnlyCommitRuns
      <4> QED BY <4>1, <4>2
    <3>2. served'[u] = served[u]
      BY <2>5, ProxyStep
    <3> QED BY <1>1, <2>2, <2>5, <3>1, <3>2
  <2> QED BY <2>3, <2>4, <2>5
<1> QED BY <1>2, <1>3

LEMMA NextRoute == Calm /\ FInv /\ RouteInv /\ [Next]_vars => RouteInv'
<1> SUFFICES ASSUME Calm, FInv, RouteInv, [Next]_vars PROVE RouteInv'
  OBVIOUS
<1>1. ASSUME NEW h \in Callers, JobStep(h), ~ConfigureFails(h) PROVE RouteInv'
  <2>1. \A g \in Callers : job'[g].op = "deploy"
    <3>1. job'[h].op = "deploy"
      BY <1>1, ProxyStep
    <3> QED BY <1>1, <3>1, JobStepLocal DEF RouteInv, FInv, IInv
  <2>2. \A g \in Callers : NewStands(g)'
    <3>1. CASE RuntimeStep(h)
      BY <3>1, NewStandsStep DEF RuntimeStep
    <3>2. CASE Quiet
      BY <3>2, NullContainer DEF Quiet, RouteInv, NewStands
    <3>3. CASE \E f \in Callers : RuntimeStep(f)
      BY <3>3, NewStandsStep DEF RuntimeStep
    <3>4. ASSUME NEW v \in Units PROVE ~StopRequest(v)
      BY DEF StopRequest, Calm
    <3> QED BY <3>1, <3>2, <3>3, <3>4, NextQuiet DEF FInv, IInv
  <2>3. RouteServes'
    BY <1>1, RoutedStep, RoutedUnits DEF RouteServes, Routed, Up, Switching
  <2> QED BY <1>1, <2>1, <2>2, <2>3, ProxyStep, SwitchKnownStep DEF RouteInv
<1>2. ASSUME UNCHANGED <<rtVars, proxyVars, stopped>>,
             \A g \in Callers : \/ job'[g] = job[g]
                                \/ job[g].at = "idle" /\ job'[g].at = "lock"
                                   /\ job'[g].op = "deploy",
             \A i \in Ids : \/ row'[i] = row[i]
                            \/ row'[i].status = "building"
      PROVE  RouteInv'
  <2>1. UNCHANGED <<containers, call, served, site, stopped>>
    BY <1>2 DEF rtVars, proxyVars
  <2>2. \A g \in Callers : SwitchKnown(g)' /\ NewStands(g)' /\ job'[g].op = "deploy"
    BY <1>2, <2>1 DEF RouteInv, SwitchKnown, NewStands, Up
  <2>3. ASSUME NEW u \in Units,
               \A h \in Callers : job'[h].unit = u => ~Switching(h)',
               NEW i \in Ids, row'[i].unit = u, row'[i].status = "running"
        PROVE  Up(u, served[u], row[i].image)'
    <3>1. \A h \in Callers : job[h].unit = u => ~Switching(h)
      BY <1>2, <2>1, <2>3 DEF Switching
    <3>2. row'[i] = row[i]
      BY <1>2, <2>3
    <3> QED BY <2>1, <2>3, <3>1, <3>2, RoutedUnits DEF RouteInv, Routed, Up
  <2>4. RouteServes'
    BY <2>3 DEF RouteServes, Up
  <2> QED BY <2>1, <2>2, <2>4 DEF RouteInv
<1> QED BY <1>1, <1>2, CalmSteps

LEMMA InitRoute == Init => RouteInv
<1> SUFFICES ASSUME Init PROVE RouteInv
  OBVIOUS
<1>1. /\ ~stopped /\ served = site
      /\ \A h \in Callers : call[h] = NoCall /\ job[h] = NoJob
      /\ \A i \in Ids : row[i] = Blank
  BY DEF Init, RuntimeInit
<1> QED BY <1>1, NullContainer, NullFields DEF RouteInv, NewStands, SwitchKnown, RouteServes

\* Traffic follows the table: outside the switch of a deployment the proxy's
\* upstream is a healthy container of the image the running row names.
THEOREM TrafficFollowsTable ==
  ASSUME Calm
  PROVE  Spec => []RouteServes
<1>1. FInv /\ RouteInv /\ [Next]_vars => RouteInv'
  BY NextRoute
<1>2. RouteInv => RouteServes
  BY DEF RouteInv
<1> QED BY <1>1, <1>2, InitRoute, InitFrames, NextFrames, PTL DEF Spec

----------------------------------------------------------------------------
(* The two names of a unit alternate, where one project deploys.           *)

\* With several projects a call may lose its port to another one's, and with
\* rollbacks or a restart two calls meet in one unit: either leaves a
\* container in the second slot.
Solo == /\ "rollback" \notin Ops /\ MaxCrashes = 0
        /\ \A p, q \in Projects : p = q

Midway(h) == call[h].at \in {"run", "health", "retire"}

\* Midway the slots of the unit hold the frame's own container and its old
\* one, or less.
SlotKnown(h) ==
    /\ call[h].at \in {"find", "run"} => ~Listening(call[h].port)
    /\ call[h].at = "run" => ~Occupied(call[h].unit, call[h].slot)
    /\ Midway(h) => \A s \in Slots :
          containers[call[h].unit][s].cid \in
              {0, IF s = call[h].slot THEN call[h].mine ELSE call[h].old}

SlotInv == /\ \A h \in Callers : job[h].op = "deploy" /\ SlotKnown(h)
           /\ \A u \in Units : \/ \E h \in Callers : Midway(h) /\ call[h].unit = u
                               \/ \E s \in Slots : ~Occupied(u, s)

LEMMA OneCall ==
  ASSUME Solo, FInv, SlotInv, NEW g \in Callers, NEW h \in Callers,
         call[g].at # "idle", call[h].at # "idle"
  PROVE  g = h
<1>1. InPipeline(g) /\ InPipeline(h)
  BY DEF FInv, FramesKnown, FrameOfJob, SlotInv, InPipeline
<1>2. Project(job[g].unit) \in Projects /\ Project(job[h].unit) \in Projects
  BY DEF FInv, IInv, TypeOK, Job, Units, Project
<1> QED BY <1>1, <1>2, InvExclusion DEF Solo, FInv, LockExclusion

\* Nothing but its own steps takes a frame out of the middle of start().
LEMMA MidwayStays ==
  ASSUME Solo, FInv, [Next]_vars, NEW g \in Callers, Midway(g), ~RuntimeStep(g)
  PROVE  call'[g] = call[g]
<1> /\ TypeOK /\ RuntimeTypeOK /\ job[g].at = "start" /\ crashes \in Nat
  BY DEF FInv, IInv, TypeOK, FramesKnown, FrameOfJob, Midway
<1>1. ASSUME NEW h \in Callers, NEW u \in Units,
             DeployRequest(h, u) \/ RollbackRequest(h, u) \/ WorkerTake(h)
      PROVE  call'[g] = call[g]
  BY <1>1 DEF Solo, DeployRequest, RollbackRequest, WorkerTake, rtVars
<1>2. ASSUME NEW h \in Callers, JobStep(h) PROVE call'[g] = call[g]
  <2>1. CASE RuntimeStep(h)
    BY <2>1, StartStepLocal DEF RuntimeStep
  <2>2. CASE Build(h)
    BY <2>2, BeginQuiet DEF Build
  <2>3. CASE Started(h) \/ StartFails(h)
    BY <2>3, ReturnQuiet DEF Started, StartFails, Midway
  <2> QED BY <1>2, <2>1, <2>2, <2>3 DEF JobStep, Acquire, Busy, Checkout, CheckoutFails,
             BuildFails, Configure, ConfigureFails, Commit, Mark, Unlock, rtVars
<1>3. ASSUME NEW u \in Units, QueueRequest(u) \/ StopRequest(u) PROVE call'[g] = call[g]
  BY <1>3 DEF QueueRequest, StopRequest, Stop, rtVars
<1>4. ~Restart
  BY DEF Restart, Solo
<1>5. CASE UNCHANGED vars
  BY <1>5 DEF vars, rtVars
<1> QED BY <1>1, <1>2, <1>3, <1>4, <1>5, UnitExists DEF Next

\* A step of start() in thread h, with nobody else in start().
LEMMA SlotRuntimeStep ==
  ASSUME Solo, FInv, SlotInv, NEW h \in Callers, StartStep(h) \/ NoDaemon(h)
  PROVE  /\ \A g \in Callers : SlotKnown(g)'
         /\ \A u \in Units : \/ \E g \in Callers : Midway(g)' /\ call'[g].unit = u
                             \/ \E s \in Slots : ~Occupied(u, s)'
<1> DEFINE v == call[h].unit
           t == call[h].slot
<1> /\ RuntimeTypeOK /\ call \in [Callers -> Frame] /\ call[h] \in Frame
    /\ v \in Units /\ t \in Slots /\ SlotKnown(h) /\ MineKnown(h)
    /\ call'[h].unit = v
    /\ \A u \in Units, s \in Slots : containers[u][s].cid \in Nat
  BY StartStepLocal
  DEF FInv, IInv, TypeOK, RuntimeTypeOK, Frame, SlotInv, FramesKnown, Container
<1>1. ASSUME NEW g \in Callers, g # h PROVE ~Midway(g) /\ SlotKnown(g)'
  <2>1. call[g].at = "idle" /\ call'[g] = call[g]
    BY <1>1, OneCall, StartStepLocal
  <2> QED BY <2>1 DEF SlotKnown, Midway
<1>2. ASSUME NEW u \in Units, u # v \/ ~Midway(h) PROVE \E s \in Slots : ~Occupied(u, s)
  BY <1>1, <1>2 DEF SlotInv
<1> DEFINE Free(u) == \E s \in Slots : ~Occupied(u, s)'
           Goal == SlotKnown(h)' /\ (Midway(h)' \/ Free(v)) /\ \A u \in Units \ {v} : Free(u)
<1> SUFFICES Goal
  BY <1>1
<1>3. CASE Allocate(h) \/ NoDaemon(h)
  <2>1. containers' = containers /\ ~Midway(h)
    BY <1>3 DEF Allocate, NoDaemon, Midway
  <2>2. \/ call'[h].at \in Outcomes
        \/ call'[h].at = "find" /\ ~Listening(call'[h].port)
    BY <1>3 DEF Allocate, NoDaemon, Goes, Frame, Outcomes
  <2>3. SlotKnown(h)'
    BY <2>1, <2>2 DEF SlotKnown, Midway, Listening, Outcomes
  <2> QED BY <1>2, <2>1, <2>3 DEF Occupied
<1>4. CASE Find(h)
  <2>1. /\ containers' = containers /\ ~Midway(h) /\ call[h].at = "find"
        /\ call'[h].at = "run" /\ call'[h].port = call[h].port
        /\ call'[h].mine = call[h].mine /\ call'[h].old = Found(v).cid
        /\ call'[h].slot = IF Occupied(v, "a") THEN "b" ELSE "a"
    BY <1>4 DEF Find, Midway, Frame
  <2>2. /\ ~Occupied(v, call'[h].slot)
        /\ \A s \in Slots \ {call'[h].slot} : containers[v][s] = Found(v)
    <3>1. CASE Occupied(v, "a")
      BY <1>2, <2>1, <3>1 DEF Found
    <3>2. CASE ~Occupied(v, "a")
      BY <2>1, <3>2 DEF Found
    <3> QED BY <3>1, <3>2
  <2>3. SlotKnown(h)'
    BY <2>1, <2>2 DEF SlotKnown, Midway, Listening, Occupied
  <2> QED BY <1>2, <2>1, <2>3 DEF Occupied, Midway
<1>5. CASE Run(h)
  <2>1. Creates(h) /\ call'[h].at = "health"
    BY <1>5 DEF Run, SlotKnown, Creates, Frame, RuntimeTypeOK
  <2>2. SlotKnown(h)'
    BY <1>5, <2>1 DEF Creates, Run, SlotKnown, Midway
  <2>3. \A u \in Units \ {v}, s \in Slots : containers'[u][s] = containers[u][s]
    BY <2>1 DEF Creates
  <2> QED BY <1>2, <2>1, <2>2, <2>3 DEF Midway, Occupied
<1>6. CASE HealthPasses(h)
  <2>1. /\ call[h].at = "health" /\ call'[h].at = "retire" /\ call'[h].slot = t
        /\ call'[h].mine = call[h].mine /\ call'[h].old = call[h].old
        /\ \A u \in Units, s \in Slots : containers'[u][s].cid = containers[u][s].cid
    BY <1>6, HealthPassesMarks DEF HealthPasses, Goes, Frame
  <2>2. SlotKnown(h)'
    BY <2>1 DEF SlotKnown, Midway
  <2> QED BY <1>2, <2>1, <2>2 DEF Midway, Occupied
<1>7. CASE HealthFails(h) \/ Retire(h)
  <2>1. call'[h].at \in Outcomes /\ Midway(h)
    BY <1>7 DEF HealthFails, Retire, Goes, Frame, Outcomes, Midway
  <2>2. SlotKnown(h)'
    BY <2>1 DEF SlotKnown, Midway, Outcomes
  <2>3. \A u \in Units, s \in Slots : \/ containers'[u][s] = containers[u][s]
                                     \/ containers'[u][s] = NoContainer
    BY <1>7, WithoutSheds DEF HealthFails, Retire
  <2>4. Free(v)
    <3>1. CASE HealthFails(h)
      <4>1. containers'[v][t].cid = 0
        BY <2>1, <3>1, WithoutSheds, NullContainer DEF HealthFails, SlotKnown, Exists
      <4> QED BY <4>1 DEF Occupied
    <3>2. CASE Retire(h)
      <4>1. PICK s \in Slots : s # t
        OBVIOUS
      <4>2. containers[v][s].cid \in {0, call[h].old}
        BY <2>1, <4>1 DEF SlotKnown
      <4>3. containers'[v][s].cid = 0
        BY <3>2, <4>2, WithoutSheds, NullContainer DEF Retire, Exists
      <4> QED BY <4>3 DEF Occupied
    <3> QED BY <1>7, <3>1, <3>2
  <2>5. \A u \in Units \ {v} : Free(u)
    BY <1>2, <2>3, NullContainer DEF Occupied
  <2> QED BY <2>2, <2>4, <2>5
<1> QED BY <1>3, <1>4, <1>5, <1>6, <1>7 DEF StartStep

LEMMA NextSlot == Solo /\ FInv /\ SlotInv /\ [Next]_vars => SlotInv'
<1> SUFFICES ASSUME Solo, FInv, SlotInv, [Next]_vars PROVE SlotInv'
  OBVIOUS
<1> TypeOK /\ RuntimeTypeOK /\ crashes \in Nat /\ job \in [Callers -> Job]
  BY DEF FInv, IInv, TypeOK
<1>1. ASSUME NEW g \in Callers PROVE job'[g].op = "deploy"
  <2>1. ASSUME NEW h \in Callers, JobStep(h) PROVE job'[g].op = "deploy"
    BY <2>1, JobStepLocal, NullFields DEF SlotInv
  <2>2. ASSUME NEW h \in Callers, NEW u \in Units,
               DeployRequest(h, u) \/ RollbackRequest(h, u) \/ WorkerTake(h)
        PROVE  job'[g].op = "deploy"
    BY <2>2 DEF Solo, DeployRequest, RollbackRequest, WorkerTake, NoJob, SlotInv
  <2>3. ASSUME NEW u \in Units, QueueRequest(u) \/ StopRequest(u)
        PROVE  job'[g].op = "deploy"
    BY <2>3 DEF QueueRequest, StopRequest, depVars, SlotInv
  <2>4. CASE Restart
    BY <2>4 DEF Restart, Solo
  <2>5. CASE UNCHANGED vars
    BY <2>5 DEF vars, depVars, SlotInv
  <2> QED BY <2>1, <2>2, <2>3, <2>4, <2>5, UnitExists DEF Next
<1>2. ASSUME NEW h \in Callers, RuntimeStep(h) PROVE SlotInv'
  BY <1>1, <1>2, SlotRuntimeStep DEF RuntimeStep, SlotInv, Midway, Occupied
<1>3. CASE ~\E h \in Callers : RuntimeStep(h)
  <2>1. \A g \in Callers : Midway(g) => call'[g] = call[g]
    BY <1>3, MidwayStays
  <2>2. \A g \in Callers : call'[g] = call[g] \/ call'[g].at \in {"idle", "allocate"}
    BY <1>3, NextQuiet, NullContainer DEF Quiet, StopRequest, Stop
  <2>3. \A u \in Units, s \in Slots : \/ containers'[u][s] = containers[u][s]
                                     \/ containers'[u][s] = NoContainer
    BY <1>3, NextQuiet, WithoutSheds DEF Quiet, StopRequest, Stop
  <2>4. \A p : Listening(p)' => Listening(p)
    BY <2>3, NullContainer DEF Listening
  <2>5. ASSUME NEW g \in Callers PROVE SlotKnown(g)'
    <3>1. CASE call'[g] = call[g]
      <4>1. call[g].unit \in Units /\ call[g].slot \in Slots
        BY DEF RuntimeTypeOK, Frame
      <4> QED BY <2>3, <2>4, <3>1, <4>1, NullContainer DEF SlotInv, SlotKnown, Midway, Occupied
    <3>2. CASE call'[g].at \in {"idle", "allocate"}
      BY <3>2 DEF SlotKnown, Midway
    <3> QED BY <2>2, <3>1, <3>2
  <2>6. ASSUME NEW u \in Units
        PROVE  \/ \E h \in Callers : Midway(h)' /\ call'[h].unit = u
               \/ \E s \in Slots : ~Occupied(u, s)'
    <3>1. CASE \E h \in Callers : Midway(h) /\ call[h].unit = u
      BY <2>1, <3>1 DEF Midway
    <3>2. CASE \E s \in Slots : ~Occupied(u, s)
      BY <2>3, <3>2, NullContainer DEF Occupied
    <3> QED BY <3>1, <3>2 DEF SlotInv
  <2> QED BY <1>1, <2>5, <2>6 DEF SlotInv
<1> QED BY <1>2, <1>3

LEMMA InitSlot == Init => SlotInv
<1> SUFFICES ASSUME Init PROVE SlotInv
  OBVIOUS
<1>1. /\ \A h \in Callers : call[h] = NoCall /\ job[h] = NoJob
      /\ \A u \in Units, s \in Slots : containers[u][s] = NoContainer
  BY DEF Init, RuntimeInit
<1> QED BY <1>1, NullContainer, NullFields DEF SlotInv, SlotKnown, Midway, Occupied

\* The name alternation works: where one project deploys, a unit nobody is
\* starting a container in has a free name for the next start().
THEOREM SlotsAlternate ==
  ASSUME Solo
  PROVE  Spec => []SlotFree
<1>1. FInv /\ SlotInv /\ [Next]_vars => SlotInv'
  BY NextSlot
<1>2. SlotInv => SlotFree
  BY DEF SlotInv, SlotFree, Midway
<1> QED BY <1>1, <1>2, InitSlot, InitFrames, NextFrames, PTL DEF Spec
=============================================================================
