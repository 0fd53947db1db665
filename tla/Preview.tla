------------------------------ MODULE Preview ------------------------------
(***************************************************************************)
(* Previews of one project (services/preview.py, api/previews.py): units   *)
(* of their own with a time to live, at most Limit at a time, reclaimed    *)
(* when somebody creates or lists previews after they expired.             *)
(*                                                                         *)
(* Sessions neither flush by themselves nor expire what they hold after a  *)
(* commit (db.py), so the creating thread never writes the status running  *)
(* again: the row was inserted with it.                                    *)
(***************************************************************************)
EXTENDS Integers, FiniteSets

CONSTANTS
    Callers,        \* threads that serve requests
    None,           \* a lock nobody holds
    Limit,          \* MAX_ACTIVE_PREVIEWS
    MaxRows,        \* bound of the model: previews ever made
    Faults          \* what may go wrong in this instance

ASSUME PreviewAssumption ==
    /\ IsFiniteSet(Callers) /\ None \notin Callers
    /\ Limit \in Nat /\ MaxRows \in Nat

Previews == 1..MaxRows

VARIABLES
    lock,           \* _create_lock
    status,         \* [preview -> its status]
    made,           \* rows inserted
    late,           \* previews whose time to live is over
    unit,           \* previews whose container runs
    route,          \* previews the proxy has a site for
    call,           \* [caller -> the frame of its request]
    faults          \* what may go wrong in this behaviour: nothing, or Faults

vars == <<lock, status, made, late, unit, route, call, faults>>

\* op: the request; todo: rows cleanup_expired has yet to look at; id: the
\* preview being created or torn down.
Frame == [op : {"create", "list", "delete"},
          at : {"idle", "lock", "sweep", "stop", "unroute", "count",
                "insert", "build", "start", "configure"},
          todo : SUBSET Previews, id : Previews \cup {0}]
NoCall == [op |-> "list", at |-> "idle", todo |-> {}, id |-> 0]

TypeOK ==
    /\ lock \in Callers \cup {None}
    /\ status \in [Previews -> {"none", "running", "expired", "failed"}]
    /\ made \in 0..MaxRows
    /\ late \subseteq 1..made
    /\ unit \subseteq 1..made /\ route \subseteq 1..made
    /\ call \in [Callers -> Frame]
    /\ faults \subseteq Faults

Init ==
    /\ lock = None
    /\ status = [v \in Previews |-> "none"]
    /\ made = 0
    /\ late = {} /\ unit = {} /\ route = {}
    /\ call = [h \in Callers |-> NoCall]
    /\ faults \in {{}, Faults}

Active == {v \in Previews : status[v] = "running"}
Creating(v) == \E h \in Callers : call[h].op = "create" /\ call[h].id = v
                                  /\ call[h].at \in {"build", "start", "configure"}
Goes(h, to) == call' = [call EXCEPT ![h].at = to]

----------------------------------------------------------------------------
(* Creating a preview.                                                     *)

\* Previews made, and requests that may still make one.
Making == {h \in Callers : /\ call[h].op = "create"
                           /\ call[h].at \notin {"build", "start", "configure"}}

\* POST /preview.
CreateRequest(h) ==
    /\ call[h].at = "idle"
    /\ made + Cardinality(Making) < MaxRows
    /\ call' = [call EXCEPT ![h] = [NoCall EXCEPT !.op = "create", !.at = "lock"]]
    /\ UNCHANGED <<lock, status, made, late, unit, route, faults>>

\* Mutant: the lock is not waited for.
AcquireAnyway(h) ==
    /\ call[h].at = "lock"
    /\ lock' = h
    /\ call' = [call EXCEPT ![h].at = "sweep", ![h].todo = Active]
    /\ UNCHANGED <<status, made, late, unit, route, faults>>

\* Under the lock, first cleanup_expired reads the running rows.
Acquire(h) ==
    /\ call[h].at = "lock" /\ lock = None
    /\ lock' = h
    /\ call' = [call EXCEPT ![h].at = "sweep", ![h].todo = Active]
    /\ UNCHANGED <<status, made, late, unit, route, faults>>

\* TooManyPreviews.
TooMany(h) ==
    /\ call[h].at = "count" /\ Cardinality(Active) >= Limit
    /\ lock' = None
    /\ call' = [call EXCEPT ![h] = NoCall]
    /\ UNCHANGED <<status, made, late, unit, route, faults>>

\* There is room for one more.
Room(h) ==
    /\ call[h].at = "count" /\ Cardinality(Active) < Limit
    /\ Goes(h, "insert")
    /\ UNCHANGED <<lock, status, made, late, unit, route, faults>>

\* The new row counts as running from here on; the lock is free again.
Insert(h) ==
    /\ call[h].at = "insert"
    /\ made' = made + 1
    /\ status' = [status EXCEPT ![made + 1] = "running"]
    /\ lock' = None
    /\ call' = [call EXCEPT ![h].at = "build", ![h].id = made + 1]
    /\ UNCHANGED <<late, unit, route, faults>>

\* checkout and build_image.
Build(h) ==
    /\ call[h].at = "build"
    /\ Goes(h, "start")
    /\ UNCHANGED <<lock, status, made, late, unit, route, faults>>

\* Mutant: the unit is named after the next preview.
StartNext(h) ==
    /\ call[h].at = "start"
    /\ unit' = unit \cup {call[h].id + 1}
    /\ Goes(h, "configure")
    /\ UNCHANGED <<lock, status, made, late, route, faults>>

\* The container passed its check.
Start(h) ==
    /\ call[h].at = "start"
    /\ unit' = unit \cup {call[h].id}
    /\ Goes(h, "configure")
    /\ UNCHANGED <<lock, status, made, late, route, faults>>

\* The site, and the url of the row.
Configure(h) ==
    /\ call[h].at = "configure"
    /\ route' = route \cup {call[h].id}
    /\ call' = [call EXCEPT ![h] = NoCall]
    /\ UNCHANGED <<lock, status, made, late, unit, faults>>

\* Checkout, build, start or the proxy raises: the row is closed, nothing else.
CreateFails(h) ==
    /\ \/ call[h].at \in {"build", "start"}
       \/ call[h].at = "configure" /\ "proxy" \in faults
    /\ status' = [status EXCEPT ![call[h].id] = "failed"]
    /\ call' = [call EXCEPT ![h] = NoCall]
    /\ UNCHANGED <<lock, made, late, unit, route, faults>>

----------------------------------------------------------------------------
(* cleanup_expired and teardown.                                           *)

\* GET /previews.
ListRequest(h) ==
    /\ call[h].at = "idle"
    /\ call' = [call EXCEPT ![h] = [NoCall EXCEPT !.at = "sweep", !.todo = Active]]
    /\ UNCHANGED <<lock, status, made, late, unit, route, faults>>

\* DELETE tears down a running preview, whatever its age.
DeleteRequest(h, v) ==
    /\ call[h].at = "idle" /\ v \in Active
    /\ Creating(v) => "early" \in faults
    /\ call' = [call EXCEPT ![h] = [NoCall EXCEPT !.op = "delete", !.at = "stop", !.id = v]]
    /\ UNCHANGED <<lock, status, made, late, unit, route, faults>>

\* Mutant: the comparison is the wrong way round.
SweepFresh(h) ==
    /\ call[h].at = "sweep"
    /\ \E v \in call[h].todo :
          call' = [call EXCEPT ![h].todo = @ \ {v}, ![h].id = v,
                      ![h].at = IF v \in late THEN "sweep" ELSE "stop"]
    /\ UNCHANGED <<lock, status, made, late, unit, route, faults>>

\* The next of the rows read: torn down when it is expired.
Sweep(h) ==
    /\ call[h].at = "sweep"
    /\ \E v \in call[h].todo :
          call' = [call EXCEPT ![h].todo = @ \ {v}, ![h].id = v,
                      ![h].at = IF v \in late THEN "stop" ELSE "sweep"]
    /\ UNCHANGED <<lock, status, made, late, unit, route, faults>>

\* All rows were looked at.
Swept(h) ==
    /\ call[h].at = "sweep" /\ call[h].todo = {}
    /\ call' = [call EXCEPT ![h] = IF call[h].op = "create" THEN [@ EXCEPT !.at = "count"]
                                  ELSE NoCall]
    /\ UNCHANGED <<lock, status, made, late, unit, route, faults>>

\* runtime.stop, whose exceptions are passed over.
StopUnit(h) ==
    /\ call[h].at = "stop"
    /\ \/ unit' = unit \ {call[h].id}
       \/ "daemon" \in faults /\ UNCHANGED unit
    /\ Goes(h, "unroute")
    /\ UNCHANGED <<lock, status, made, late, route, faults>>

\* Mutant: the site stays.
ExpireOnly(h) ==
    /\ call[h].at = "unroute"
    /\ status' = [status EXCEPT ![call[h].id] = "expired"]
    /\ call' = [call EXCEPT ![h] = IF call[h].op = "delete" THEN NoCall
                                  ELSE [@ EXCEPT !.at = "sweep"]]
    /\ UNCHANGED <<lock, made, late, unit, route, faults>>

\* proxy.remove and the commit.
Expire(h) ==
    /\ call[h].at = "unroute"
    /\ route' = route \ {call[h].id}
    /\ status' = [status EXCEPT ![call[h].id] = "expired"]
    /\ call' = [call EXCEPT ![h] = IF call[h].op = "delete" THEN NoCall
                                  ELSE [@ EXCEPT !.at = "sweep"]]
    /\ UNCHANGED <<lock, made, late, unit, faults>>

\* proxy.remove raises: the request ends, the lock of a create is released.
ExpireFails(h) ==
    /\ "proxy" \in faults
    /\ call[h].at = "unroute"
    /\ lock' = IF lock = h THEN None ELSE lock
    /\ call' = [call EXCEPT ![h] = NoCall]
    /\ UNCHANGED <<status, made, late, unit, route, faults>>

\* The time to live of a preview is over.
Late(v) ==
    /\ v \in 1..made \ late
    /\ Creating(v) => "early" \in faults
    /\ late' = late \cup {v}
    /\ UNCHANGED <<lock, status, made, unit, route, call, faults>>

CallStep(h) ==
    \/ Acquire(h) \/ TooMany(h) \/ Room(h) \/ Insert(h)
    \/ Build(h) \/ Start(h) \/ Configure(h) \/ CreateFails(h)
    \/ Sweep(h) \/ Swept(h) \/ StopUnit(h) \/ Expire(h) \/ ExpireFails(h)

Next ==
    \/ \E h \in Callers : CreateRequest(h) \/ ListRequest(h) \/ CallStep(h)
    \/ \E h \in Callers, v \in Previews : DeleteRequest(h, v)
    \/ \E v \in Previews : Late(v)

Spec == Init /\ [][Next]_vars

\* Threads run until their request is served; nobody has to ask.
Fairness == \A h \in Callers : WF_vars(CallStep(h))
FairSpec == Spec /\ Fairness

----------------------------------------------------------------------------
(* Properties.                                                             *)

\* No more than Limit previews are active, although creations, listings and
\* deletions of several requests overlap.
LimitKept == Cardinality(Active) <= Limit

\* When nothing fails, and no preview is deleted or expires while it is still
\* being created, every container and every site of a preview belongs to an
\* active one: none outlives the row that would have it reclaimed, though
\* deletes and sweeps overlap.
NothingOutlivesRow == faults = {} => unit \cup route \subseteq Active

\* While previews are listed again and again, an expired one is reclaimed.
Reclaimed ==
    faults = {} /\ []<>(\E h \in Callers : call[h].op = "list" /\ call[h].at = "sweep") =>
        \A v \in Previews : v \in late ~> v \notin unit
=============================================================================
