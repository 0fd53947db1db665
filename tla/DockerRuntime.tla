--------------------------- MODULE DockerRuntime ---------------------------
(***************************************************************************)
(* The Docker runtime of the platform (services/runtime/docker_runtime.py):*)
(* DockerRuntime.start and DockerRuntime.stop against a Docker daemon that *)
(* several threads of the control plane use at once.                       *)
(*                                                                         *)
(* A unit is a project in a build profile.  It owns two container names,   *)
(* its slots "a" and "b"; start() runs the new container in the slot the   *)
(* old one does not have, waits for the health check and removes the old   *)
(* container.  A call is a stack frame of start() in one thread; it pauses *)
(* wherever the code talks to the daemon, so calls interleave there.       *)
(***************************************************************************)
EXTENDS Integers, FiniteSets

CONSTANTS
    Projects,       \* projects.id
    Profiles,       \* BuildProfile: release, development
    Callers,        \* threads of the control plane
    Images,         \* image tags, one per commit
    NoImage,        \* the empty image_tag
    PortStart, PortEnd,  \* settings.port_range_start, port_range_end
    Ops,            \* what the users and the environment do in this instance
    MaxStarts       \* bound of the model: calls of start() ever made

ASSUME RuntimeAssumption ==
    /\ Projects # {} /\ Profiles # {}
    /\ NoImage \notin Images
    /\ PortStart \in Nat \ {0} /\ PortEnd \in Nat /\ PortStart <= PortEnd
    /\ MaxStarts \in Nat

VARIABLES
    containers,     \* [unit -> [slot -> container]], the daemon's state
    spawned,        \* containers created so far, the source of container ids
    call,           \* [caller -> the frame of its start() call]
    proven          \* history: <<unit, image>> whose container passed its check

rtVars == <<containers, spawned, call, proven>>

Units == Projects \X Profiles
Slots == {"a", "b"}
Ports == PortStart..PortEnd

\* What start() ends with: an endpoint, a RuntimeError, or an exception of
\* another class (docker.errors.APIError is not a RuntimeError).
Outcomes == {"ok", "RuntimeError", "OtherError"}

Container == [cid : Nat, image : Images \cup {NoImage},
              port : Ports \cup {0}, up : BOOLEAN, passed : BOOLEAN]
NoContainer ==
    [cid |-> 0, image |-> NoImage, port |-> 0, up |-> FALSE, passed |-> FALSE]

Frame == [at : {"idle", "allocate", "find", "run", "health", "retire"} \cup Outcomes,
          unit : Units, image : Images \cup {NoImage}, port : Ports \cup {0},
          slot : Slots, old : Nat, mine : Nat]
NoCall == [at |-> "idle", unit |-> CHOOSE u \in Units : TRUE, image |-> NoImage,
           port |-> 0, slot |-> "a", old |-> 0, mine |-> 0]

RuntimeTypeOK ==
    /\ containers \in [Units -> [Slots -> Container]]
    /\ spawned \in Nat
    /\ call \in [Callers -> Frame]
    /\ proven \subseteq Units \X (Images \cup {NoImage})

RuntimeInit ==
    /\ containers = [u \in Units |-> [s \in Slots |-> NoContainer]]
    /\ spawned = 0
    /\ call = [h \in Callers |-> NoCall]
    /\ proven = {}

----------------------------------------------------------------------------
(* The daemon's view of its containers.                                    *)

Occupied(u, s) == containers[u][s].cid # 0
Exists(cid) == \E u \in Units, s \in Slots : containers[u][s].cid = cid
Listening(p) ==
    \E u \in Units, s \in Slots : containers[u][s].up /\ containers[u][s].port = p
Answers(cid, p) ==
    \E u \in Units, s \in Slots :
        /\ containers[u][s].cid = cid
        /\ containers[u][s].up
        /\ containers[u][s].port = p

\* container.remove(force=True) of the container with this id.
Without(cid) ==
    [u \in Units |-> [s \in Slots |->
        IF containers[u][s].cid = cid THEN NoContainer ELSE containers[u][s]]]

\* _find: the container of slot a if there is one, else that of slot b, in
\* whatever state it is (list(all=True)).
Found(u) == IF Occupied(u, "a") THEN containers[u]["a"] ELSE containers[u]["b"]

Goes(h, to) == call' = [call EXCEPT ![h].at = to]

----------------------------------------------------------------------------
(* start(), step by step.                                                  *)

Begin(h, u, i) ==
    /\ call[h].at = "idle"
    /\ call' = [call EXCEPT ![h] = [NoCall EXCEPT !.at = "allocate",
                                                  !.unit = u, !.image = i]]
    /\ UNCHANGED <<containers, spawned, proven>>

\* The daemon cannot be reached: RuntimeError when the SDK or the socket is
\* missing, otherwise the SDK's own exception.
NoDaemon(h) ==
    /\ call[h].at = "allocate"
    /\ \E e \in {"RuntimeError", "OtherError"} : Goes(h, e)
    /\ UNCHANGED <<containers, spawned, proven>>

\* allocate_port() takes the first port nobody listens on, without keeping it.
Allocate(h) ==
    /\ call[h].at = "allocate"
    /\ \/ /\ \A p \in Ports : Listening(p)
          /\ Goes(h, "RuntimeError")
       \/ \E p \in Ports :
            /\ ~Listening(p)
            /\ \A q \in Ports : q < p => Listening(q)
            /\ call' = [call EXCEPT ![h].at = "find", ![h].port = p]
    /\ UNCHANGED <<containers, spawned, proven>>

\* _find() picks the old container and with it the slot of the new one.
Find(h) ==
    LET u == call[h].unit IN
    /\ call[h].at = "find"
    /\ call' = [call EXCEPT ![h].at = "run", ![h].old = Found(u).cid,
                            ![h].slot = IF Occupied(u, "a") THEN "b" ELSE "a"]
    /\ UNCHANGED <<containers, spawned, proven>>

\* containers.run: refused when the name is taken; when the port was taken
\* since, the container is created but does not start.
Run(h) ==
    LET u == call[h].unit
        s == call[h].slot
        free == ~Listening(call[h].port) IN
    /\ call[h].at = "run"
    /\ \/ /\ Occupied(u, s)
          /\ Goes(h, "OtherError")
          /\ UNCHANGED <<containers, spawned>>
       \/ /\ ~Occupied(u, s)
          /\ spawned' = spawned + 1
          /\ containers' = [containers EXCEPT ![u][s] =
                 [cid |-> spawned + 1, image |-> call[h].image,
                  port |-> call[h].port, up |-> free, passed |-> FALSE]]
          /\ call' = [call EXCEPT ![h].mine = spawned + 1,
                 ![h].at = IF free THEN "health" ELSE "OtherError"]
    /\ UNCHANGED proven

\* _wait_healthy asks the host port, whoever listens there.
HealthPasses(h) ==
    LET u == call[h].unit
        mine == Answers(call[h].mine, call[h].port) IN
    /\ call[h].at = "health"
    /\ Listening(call[h].port)
    /\ Goes(h, "retire")
    /\ containers' = [v \in Units |-> [s \in Slots |->
           IF mine /\ containers[v][s].cid = call[h].mine
           THEN [containers[v][s] EXCEPT !.passed = TRUE]
           ELSE containers[v][s]]]
    /\ proven' = IF mine THEN proven \cup {<<u, call[h].image>>} ELSE proven
    /\ UNCHANGED spawned

\* Mutant: an unhealthy container is taken for a healthy one.
HealthIgnored(h) ==
    /\ call[h].at = "health"
    /\ Goes(h, "retire")
    /\ UNCHANGED <<containers, spawned, proven>>

\* Mutant: the failing container is left running.
HealthLeak(h) ==
    /\ call[h].at = "health"
    /\ Goes(h, "RuntimeError")
    /\ UNCHANGED <<containers, spawned, proven>>

\* Mutant: the old container makes room before the new one is known to be healthy.
HealthEvicts(h) ==
    /\ call[h].at = "health"
    /\ IF Exists(call[h].mine)
       THEN /\ containers' = Without(IF call[h].old # 0 THEN call[h].old ELSE call[h].mine)
            /\ Goes(h, "RuntimeError")
       ELSE Goes(h, "OtherError") /\ UNCHANGED containers
    /\ UNCHANGED <<spawned, proven>>

\* The check times out: the new container is removed; when it is gone
\* already, reading its log raises docker's NotFound instead.
HealthFails(h) ==
    /\ call[h].at = "health"
    /\ IF Exists(call[h].mine)
       THEN containers' = Without(call[h].mine) /\ Goes(h, "RuntimeError")
       ELSE Goes(h, "OtherError") /\ UNCHANGED containers
    /\ UNCHANGED <<spawned, proven>>

\* Mutant: the old container is forgotten.
RetireForgets(h) ==
    /\ call[h].at = "retire"
    /\ Goes(h, "ok")
    /\ UNCHANGED <<containers, spawned, proven>>

\* old.remove(force=True): NotFound when another thread removed it first.
Retire(h) ==
    LET old == call[h].old IN
    /\ call[h].at = "retire"
    /\ \/ old = 0 /\ Goes(h, "ok") /\ UNCHANGED containers
       \/ old # 0 /\ Exists(old) /\ Goes(h, "ok") /\ containers' = Without(old)
       \/ old # 0 /\ ~Exists(old) /\ Goes(h, "OtherError") /\ UNCHANGED containers
    /\ UNCHANGED <<spawned, proven>>

\* start() returns or raises in its caller.
Return(h) ==
    /\ call[h].at \in Outcomes
    /\ call' = [call EXCEPT ![h] = NoCall]
    /\ UNCHANGED <<containers, spawned, proven>>

StartStep(h) ==
    \/ Allocate(h) \/ Find(h) \/ Run(h)
    \/ HealthPasses(h) \/ HealthFails(h) \/ Retire(h)

\* stop(): removes the container _find() returns, if any.
Stop(u) ==
    /\ Found(u).cid # 0
    /\ containers' = Without(Found(u).cid)
    /\ UNCHANGED <<spawned, call, proven>>

\* The control plane dies: its frames are gone, the containers stay.
Crash ==
    /\ call' = [h \in Callers |-> NoCall]
    /\ UNCHANGED <<containers, spawned, proven>>

----------------------------------------------------------------------------

\* A container that has answered its own health check.
Serving(u) == \E s \in Slots : containers[u][s].up /\ containers[u][s].passed

\* A start() that reports RuntimeError, the only failure deploy_sync handles,
\* leaves no container of its own behind.
CleanFailure ==
    \A h \in Callers :
        call[h].at = "RuntimeError" /\ call[h].mine # 0 => ~Exists(call[h].mine)

\* The name alternation works as a swap: with no call in progress a unit has
\* at most one container, so the other name is free for the next start().
SlotFree ==
    \A u \in Units :
        (\A h \in Callers : call[h].at # "idle" => call[h].unit # u) =>
            \E s \in Slots : ~Occupied(u, s)
=============================================================================
