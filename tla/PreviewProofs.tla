--------------------------- MODULE PreviewProofs ---------------------------
(***************************************************************************)
(* The limit on previews, for any number of requests and previews and any  *)
(* combination of faults.                                                  *)
(***************************************************************************)
EXTENDS Preview, FiniteSetTheorems, TLAPS

\* Requests that may still insert a row leave room for it in the bound.
RowsLeft == made + Cardinality(Making) <= MaxRows

\* Rows beyond the last one are unused.
Unused == \A v \in Previews : status[v] # "none" => v <= made

\* A request works on previews that were made.
Handled == \A h \in Callers :
    /\ call[h].todo \subseteq 1..made
    /\ call[h].at \in {"stop", "unroute", "build", "start", "configure"} =>
          call[h].id \in 1..made

\* Only a request that creates counts, with the lock in its hands.
LockHeld == \A h \in Callers :
    /\ call[h].at \in {"count", "insert"} => call[h].op = "create"
    /\ call[h].op = "create" /\ call[h].at \in {"sweep", "stop", "unroute", "count", "insert"} =>
          lock = h

\* The count of a request that is about to insert still holds.
RoomLeft == \A h \in Callers :
    call[h].at = "insert" => Cardinality(Active) < Limit

IInv == TypeOK /\ RowsLeft /\ Unused /\ Handled /\ LockHeld /\ RoomLeft /\ LimitKept

----------------------------------------------------------------------------
(* Sets of previews and of requests are finite.                            *)

LEMMA ActiveFinite == IsFiniteSet(Active) /\ Cardinality(Active) \in Nat
<1>1. IsFiniteSet(Previews)
  BY PreviewAssumption, FS_Interval DEF Previews
<1>2. Active \in SUBSET Previews
  BY DEF Active
<1> QED BY <1>1, <1>2, FS_Subset, FS_CardinalityType

LEMMA MakingFinite == IsFiniteSet(Making) /\ Cardinality(Making) \in Nat
<1>1. Making \in SUBSET Callers
  BY DEF Making
<1> QED BY <1>1, PreviewAssumption, FS_Subset, FS_CardinalityType

\* Fewer active previews, no more of them.
LEMMA ActiveShrinks ==
  ASSUME Active' \subseteq Active
  PROVE  Cardinality(Active') \in Nat /\ Cardinality(Active') <= Cardinality(Active)
  BY ActiveFinite, FS_Subset, FS_CardinalityType

LEMMA MakingShrinks ==
  ASSUME Making' \subseteq Making
  PROVE  Cardinality(Making') \in Nat /\ Cardinality(Making') <= Cardinality(Making)
  BY MakingFinite, FS_Subset, FS_CardinalityType

----------------------------------------------------------------------------
(* Types.                                                                  *)

LEMMA NoCallType == NoCall \in Frame
  BY DEF NoCall, Frame

LEMMA InitInv == Init => IInv
<1> SUFFICES ASSUME Init PROVE IInv
  OBVIOUS
<1>1. Active = {}
  BY DEF Init, Active
<1>2. Making = {}
  BY DEF Init, Making, NoCall
<1>3. Cardinality(Active) = 0 /\ Cardinality(Making) = 0
  BY <1>1, <1>2, FS_EmptySet
<1>4. faults \subseteq Faults
  BY DEF Init
<1> QED BY <1>3, <1>4, NoCallType, PreviewAssumption
        DEF IInv, Init, TypeOK, RowsLeft, Unused, Handled, LockHeld, RoomLeft, LimitKept, NoCall

\* A request about to insert has a row left for it.
LEMMA RoomForRow ==
  ASSUME IInv, NEW h \in Callers, call[h].at = "insert"
  PROVE  made + 1 \in Previews /\ h \in Making
<1>1. h \in Making
  BY DEF Making, IInv, LockHeld
<1>2. Cardinality(Making) # 0
  BY <1>1, MakingFinite, FS_EmptySet
<1>3. made \in Nat /\ MaxRows \in Nat
  BY PreviewAssumption DEF IInv, TypeOK
<1> QED BY <1>1, <1>2, <1>3, MakingFinite DEF IInv, RowsLeft, Previews

\* Every action of a request changes one frame, into another one.
LEMMA CallStepFrame ==
  ASSUME IInv, NEW h \in Callers, CallStep(h)
  PROVE  \E f \in Frame : call' = [call EXCEPT ![h] = f]
<1> USE DEF IInv, TypeOK
<1>1. call[h] \in Frame /\ call[h].todo \subseteq Previews /\ call[h].id \in Previews \cup {0}
  BY DEF Frame
<1>2. CASE Acquire(h)
  <2>1. Active \subseteq Previews
    BY DEF Active
  <2> QED BY <1>2, <1>1, <2>1 DEF Acquire, Frame
<1>3. CASE TooMany(h)
  BY <1>3, NoCallType DEF TooMany
<1>4. CASE Room(h)
  BY <1>4, <1>1 DEF Room, Goes, Frame
<1>5. CASE Build(h)
  BY <1>5, <1>1 DEF Build, Goes, Frame
<1>6. CASE Start(h)
  BY <1>6, <1>1 DEF Start, Goes, Frame
<1>7. CASE StopUnit(h)
  BY <1>7, <1>1 DEF StopUnit, Goes, Frame
<1>8. CASE Swept(h)
  BY <1>8, <1>1, NoCallType DEF Swept, Frame
<1>9. CASE Configure(h) \/ CreateFails(h) \/ ExpireFails(h)
  BY <1>9, NoCallType DEF Configure, CreateFails, ExpireFails
<1>10. CASE Expire(h)
  BY <1>10, <1>1, NoCallType DEF Expire, Frame
<1>11. CASE Sweep(h)
  BY <1>11, <1>1 DEF Sweep, Frame
<1>12. CASE Insert(h)
  <2>1. made + 1 \in Previews
    BY <1>12, RoomForRow DEF Insert
  <2> QED BY <1>12, <1>1, <2>1 DEF Insert, Frame
<1> QED BY <1>2, <1>3, <1>4, <1>5, <1>6, <1>7, <1>8, <1>9, <1>10, <1>11, <1>12 DEF CallStep

\* So does a new request, into a frame that knows rows that were made.
LEMMA RequestFrame ==
  ASSUME IInv, NEW h \in Callers,
         CreateRequest(h) \/ ListRequest(h) \/ \E v \in Previews : DeleteRequest(h, v)
  PROVE  \E f \in Frame :
            /\ call' = [call EXCEPT ![h] = f]
            /\ f.todo \subseteq 1..made
            /\ f.at \in {"stop", "unroute", "build", "start", "configure"} => f.id \in 1..made
            /\ f.at \in {"lock", "sweep", "stop"}
            /\ f.op = "create" => f.at = "lock"
            /\ f.op = "create" => CreateRequest(h)
<1> USE DEF IInv, TypeOK
<1>1. Active \subseteq 1..made /\ Active \subseteq Previews /\ made \in Nat
  BY PreviewAssumption DEF Active, Unused, Previews
<1>2. CASE CreateRequest(h)
  <2> DEFINE f == [NoCall EXCEPT !.op = "create", !.at = "lock"]
  <2>1. f \in Frame /\ f.todo = {} /\ f.at = "lock" /\ f.op = "create"
    BY DEF Frame, NoCall
  <2>2. call' = [call EXCEPT ![h] = f]
    BY <1>2 DEF CreateRequest
  <2> HIDE DEF f
  <2> QED BY <1>2, <2>1, <2>2
<1>3. CASE ListRequest(h)
  <2> DEFINE f == [NoCall EXCEPT !.at = "sweep", !.todo = Active]
  <2>1. f \in Frame /\ f.todo = Active /\ f.at = "sweep" /\ f.op = "list"
    BY <1>1 DEF Frame, NoCall
  <2>2. call' = [call EXCEPT ![h] = f]
    BY <1>3 DEF ListRequest
  <2> HIDE DEF f
  <2> QED BY <1>1, <2>1, <2>2
<1>4. ASSUME NEW v \in Previews, DeleteRequest(h, v)
      PROVE  \E f \in Frame :
                /\ call' = [call EXCEPT ![h] = f]
                /\ f.todo = {} /\ f.id \in 1..made /\ f.at = "stop" /\ f.op = "delete"
  <2> DEFINE f == [NoCall EXCEPT !.op = "delete", !.at = "stop", !.id = v]
  <2>1. f \in Frame /\ f.todo = {} /\ f.id = v /\ f.at = "stop" /\ f.op = "delete"
    BY DEF Frame, NoCall
  <2>2. call' = [call EXCEPT ![h] = f] /\ v \in Active
    BY <1>4 DEF DeleteRequest
  <2> HIDE DEF f
  <2> QED BY <1>1, <2>1, <2>2
<1> QED BY <1>2, <1>3, <1>4

\* What a step of a request leaves of the tables and of the sets of the host.
LEMMA CallStepRest ==
  ASSUME IInv, NEW h \in Callers, CallStep(h)
  PROVE  /\ lock' \in Callers \cup {None}
         /\ status' \in [Previews -> {"none", "running", "expired", "failed"}]
         /\ made' \in 0..MaxRows /\ made <= made'
         /\ late' = late /\ faults' = faults
         /\ unit' \subseteq 1..made' /\ route' \subseteq 1..made'
         /\ Unused'
<1>1. /\ made \in 0..MaxRows /\ made \in Nat /\ MaxRows \in Nat
      /\ lock \in Callers \cup {None}
      /\ status \in [Previews -> {"none", "running", "expired", "failed"}]
      /\ unit \subseteq 1..made /\ route \subseteq 1..made
      /\ Unused
  BY PreviewAssumption DEF IInv, TypeOK
<1>2. call[h].at \in {"build", "start", "configure", "stop", "unroute"} => call[h].id \in 1..made
  BY DEF IInv, Handled
<1>3. CASE UNCHANGED <<status, made, late, unit, route, faults>> /\ lock' \in Callers \cup {None}
  BY <1>1, <1>3 DEF Unused
<1>4. CASE Acquire(h) \/ TooMany(h) \/ Room(h) \/ Build(h) \/ Swept(h) \/ Sweep(h)
           \/ ExpireFails(h)
  BY <1>1, <1>3, <1>4 DEF Acquire, TooMany, Room, Build, Swept, Sweep, ExpireFails
<1>5. CASE Start(h) \/ Configure(h) \/ StopUnit(h)
  <2>1. UNCHANGED <<lock, status, made, late, faults>>
    BY <1>5 DEF Start, Configure, StopUnit
  <2>2. unit' \subseteq 1..made /\ route' \subseteq 1..made
    BY <1>1, <1>2, <1>5 DEF Start, Configure, StopUnit
  <2> QED BY <1>1, <2>1, <2>2 DEF Unused
<1>6. CASE CreateFails(h) \/ Expire(h)
  <2>1. UNCHANGED <<lock, made, late, unit, faults>> /\ call[h].id \in 1..made
    BY <1>2, <1>6 DEF CreateFails, Expire
  <2>2. \E z \in {"failed", "expired"} : status' = [status EXCEPT ![call[h].id] = z]
    BY <1>6 DEF CreateFails, Expire
  <2>3. route' \subseteq route
    BY <1>6 DEF CreateFails, Expire
  <2> QED BY <1>1, <2>1, <2>2, <2>3 DEF Unused, Previews
<1>7. CASE Insert(h)
  <2>1. made + 1 \in Previews
    BY <1>7, RoomForRow DEF Insert
  <2>2. /\ made' = made + 1 /\ status' = [status EXCEPT ![made + 1] = "running"]
        /\ lock' = None /\ UNCHANGED <<late, unit, route, faults>>
    BY <1>7 DEF Insert
  <2> QED BY <1>1, <2>1, <2>2 DEF Unused, Previews
<1> QED BY <1>4, <1>5, <1>6, <1>7 DEF CallStep

\* A request goes on with rows that were made.
LEMMA CallStepHandled ==
  ASSUME IInv, NEW h \in Callers, CallStep(h)
  PROVE  Handled'
<1> USE DEF IInv, TypeOK, Handled
<1>1. made \in Nat /\ call \in [Callers -> Frame]
  BY PreviewAssumption
<1>2. CASE Acquire(h)
  <2>1. Active \subseteq 1..made
    BY <1>1 DEF Active, Unused, Previews
  <2> QED BY <1>1, <1>2, <2>1 DEF Acquire
<1>3. CASE TooMany(h)
  BY <1>1, <1>3 DEF TooMany, NoCall
<1>4. CASE Room(h)
  BY <1>1, <1>4 DEF Room, Goes
<1>5. CASE Build(h)
  BY <1>1, <1>5 DEF Build, Goes
<1>6. CASE Start(h)
  BY <1>1, <1>6 DEF Start, Goes
<1>7. CASE StopUnit(h)
  BY <1>1, <1>7 DEF StopUnit, Goes
<1>8. CASE Swept(h)
  BY <1>1, <1>8 DEF Swept, NoCall
<1>9. CASE Configure(h) \/ CreateFails(h) \/ ExpireFails(h)
  BY <1>1, <1>9 DEF Configure, CreateFails, ExpireFails, NoCall
<1>10. CASE Expire(h)
  BY <1>1, <1>10 DEF Expire, NoCall
<1>11. CASE Sweep(h)
  BY <1>1, <1>11 DEF Sweep
<1>12. CASE Insert(h)
  BY <1>1, <1>12 DEF Insert
<1> QED BY <1>2, <1>3, <1>4, <1>5, <1>6, <1>7, <1>8, <1>9, <1>10, <1>11, <1>12 DEF CallStep

LEMMA RequestHandled ==
  ASSUME IInv, NEW h \in Callers,
         CreateRequest(h) \/ ListRequest(h) \/ \E v \in Previews : DeleteRequest(h, v)
  PROVE  TypeOK' /\ Unused' /\ Handled'
<1>1. PICK f \in Frame :
        /\ call' = [call EXCEPT ![h] = f]
        /\ f.todo \subseteq 1..made
        /\ f.at \in {"stop", "unroute", "build", "start", "configure"} => f.id \in 1..made
  BY RequestFrame
<1>2. UNCHANGED <<lock, status, made, late, unit, route, faults>>
  BY DEF CreateRequest, ListRequest, DeleteRequest
<1> QED BY <1>1, <1>2 DEF IInv, TypeOK, Unused, Handled

LEMMA NextType ==
  ASSUME IInv, [Next]_vars
  PROVE  TypeOK' /\ Unused' /\ Handled'
<1>1. ASSUME NEW h \in Callers, CreateRequest(h) \/ ListRequest(h)
      PROVE TypeOK' /\ Unused' /\ Handled'
  BY <1>1, RequestHandled
<1>2. ASSUME NEW h \in Callers, NEW v \in Previews, DeleteRequest(h, v)
      PROVE TypeOK' /\ Unused' /\ Handled'
  BY <1>2, RequestHandled
<1>3. ASSUME NEW h \in Callers, CallStep(h) PROVE TypeOK' /\ Unused' /\ Handled'
  <2>1. \E f \in Frame : call' = [call EXCEPT ![h] = f]
    BY <1>3, CallStepFrame
  <2>2. call' \in [Callers -> Frame]
    BY <2>1 DEF IInv, TypeOK
  <2>3. /\ lock' \in Callers \cup {None}
        /\ status' \in [Previews -> {"none", "running", "expired", "failed"}]
        /\ made' \in 0..MaxRows /\ made <= made'
        /\ late' = late /\ faults' = faults
        /\ unit' \subseteq 1..made' /\ route' \subseteq 1..made'
        /\ Unused'
    BY <1>3, CallStepRest
  <2>4. late' \subseteq 1..made' /\ faults' \subseteq Faults
    BY <2>3, PreviewAssumption DEF IInv, TypeOK
  <2>5. Handled'
    BY <1>3, CallStepHandled
  <2> QED BY <2>2, <2>3, <2>4, <2>5 DEF TypeOK
<1>4. ASSUME NEW v \in Previews, Late(v) PROVE TypeOK' /\ Unused' /\ Handled'
  BY <1>4 DEF IInv, TypeOK, Unused, Handled, Late
<1>5. CASE UNCHANGED vars
  BY <1>5 DEF IInv, TypeOK, Unused, Handled, vars
<1> QED BY <1>1, <1>2, <1>3, <1>4, <1>5 DEF Next

----------------------------------------------------------------------------
(* Rows and requests: the bound of the model never holds a request back.   *)

\* A step after which no more requests may still insert a row.
LEMMA MakingStep ==
  ASSUME IInv, made' = made, Making' \subseteq Making
  PROVE  RowsLeft'
<1>1. made \in Nat /\ MaxRows \in Nat
  BY PreviewAssumption DEF IInv, TypeOK
<1>2. made + Cardinality(Making) <= MaxRows
  BY DEF IInv, RowsLeft
<1> QED BY <1>1, <1>2, MakingFinite, MakingShrinks DEF RowsLeft

LEMMA RowsLeftStep ==
  ASSUME IInv, [Next]_vars
  PROVE  RowsLeft'
<1>0. call \in [Callers -> Frame] /\ made \in Nat /\ MaxRows \in Nat
  BY PreviewAssumption DEF IInv, TypeOK
<1>1. ASSUME NEW h \in Callers, CreateRequest(h) PROVE RowsLeft'
  <2>1. Making' \subseteq Making \cup {h}
    BY <1>0, <1>1 DEF CreateRequest, Making
  <2>2. IsFiniteSet(Making \cup {h}) /\ Cardinality(Making \cup {h}) \in Nat
        /\ Cardinality(Making \cup {h}) <= Cardinality(Making) + 1
    <3>1. IsFiniteSet(Making \cup {h})
          /\ Cardinality(Making \cup {h}) =
                IF h \in Making THEN Cardinality(Making) ELSE Cardinality(Making) + 1
      BY MakingFinite, FS_AddElement
    <3> QED BY <3>1, MakingFinite
  <2>3. Cardinality(Making') \in Nat /\ Cardinality(Making') <= Cardinality(Making \cup {h})
    BY <2>1, <2>2, FS_Subset, FS_CardinalityType
  <2>4. made' = made /\ made + Cardinality(Making) < MaxRows
    BY <1>1 DEF CreateRequest
  <2> QED BY <1>0, <2>2, <2>3, <2>4, MakingFinite DEF RowsLeft
<1>2. ASSUME NEW h \in Callers, ListRequest(h) \/ \E v \in Previews : DeleteRequest(h, v)
      PROVE RowsLeft'
  <2>1. Making' \subseteq Making
    BY <1>0, <1>2 DEF ListRequest, DeleteRequest, Making, NoCall
  <2>2. made' = made
    BY <1>2 DEF ListRequest, DeleteRequest
  <2> QED BY <2>1, <2>2, MakingStep
<1>3. ASSUME NEW h \in Callers, Insert(h) PROVE RowsLeft'
  <2>1. h \in Making
    BY <1>3, RoomForRow DEF Insert
  <2>2. Making' \subseteq Making \ {h}
    BY <1>0, <1>3 DEF Insert, Making
  <2>3. IsFiniteSet(Making \ {h}) /\ Cardinality(Making \ {h}) = Cardinality(Making) - 1
    BY <2>1, MakingFinite, FS_RemoveElement
  <2>4. Cardinality(Making') \in Nat /\ Cardinality(Making') <= Cardinality(Making) - 1
    BY <2>2, <2>3, FS_Subset, FS_CardinalityType
  <2>5. made' = made + 1 /\ made + Cardinality(Making) <= MaxRows
    BY <1>3 DEF Insert, IInv, RowsLeft
  <2> QED BY <1>0, <2>4, <2>5, MakingFinite DEF RowsLeft
<1>4. ASSUME NEW h \in Callers, CallStep(h), ~Insert(h) PROVE RowsLeft'
  <2>1. made' = made
    BY <1>4 DEF CallStep, Acquire, TooMany, Room, Build, Start, Configure, CreateFails,
                Sweep, Swept, StopUnit, Expire, ExpireFails
  <2>2. \A g \in Callers \ {h} : call'[g] = call[g]
    BY <1>0, <1>4 DEF CallStep, Acquire, TooMany, Room, Build, Start, Configure, CreateFails,
                Sweep, Swept, StopUnit, Expire, ExpireFails, Goes
  <2>3. \/ call'[h] = NoCall \/ call'[h].at \in {"build", "start", "configure"}
        \/ call[h].at \notin {"build", "start", "configure"} /\ call'[h].op = call[h].op
    <3>1. CASE Acquire(h) \/ Room(h) \/ StopUnit(h)
      BY <1>0, <3>1 DEF Acquire, Room, StopUnit, Goes, Frame
    <3>2. CASE TooMany(h) \/ Configure(h) \/ CreateFails(h) \/ ExpireFails(h)
      BY <1>0, <3>2 DEF TooMany, Configure, CreateFails, ExpireFails
    <3>3. CASE Build(h) \/ Start(h)
      BY <1>0, <3>3 DEF Build, Start, Goes, Frame
    <3>4. CASE Swept(h) \/ Expire(h)
      BY <1>0, <3>4 DEF Swept, Expire, Frame
    <3>5. CASE Sweep(h)
      BY <1>0, <3>5 DEF Sweep, Frame
    <3> QED BY <1>4, <3>1, <3>2, <3>3, <3>4, <3>5 DEF CallStep
  <2>4. ASSUME NEW g \in Making' PROVE g \in Making
    <3>1. g \in Callers /\ call'[g].op = "create"
          /\ call'[g].at \notin {"build", "start", "configure"}
      BY <2>4 DEF Making
    <3>2. CASE g = h
      <4>1. call[g].at \notin {"build", "start", "configure"} /\ call[g].op = "create"
        BY <2>3, <3>1, <3>2 DEF NoCall
      <4> QED BY <3>1, <4>1 DEF Making
    <3>3. CASE g # h
      <4>1. call'[g] = call[g]
        BY <2>2, <3>1, <3>3
      <4> QED BY <3>1, <4>1 DEF Making
    <3> QED BY <3>2, <3>3
  <2> QED BY <2>1, <2>4, MakingStep
<1>5. CASE UNCHANGED call /\ UNCHANGED made
  BY <1>5, MakingStep DEF Making
<1> QED BY <1>1, <1>2, <1>3, <1>4, <1>5 DEF Next, Late, vars

----------------------------------------------------------------------------
(* The lock, and what a request that holds it has counted.                 *)

LEMMA LockHeldStep ==
  ASSUME IInv, [Next]_vars
  PROVE  LockHeld'
<1>0. call \in [Callers -> Frame] /\ None \notin Callers
  BY PreviewAssumption DEF IInv, TypeOK
<1>1. ASSUME NEW h \in Callers,
             CreateRequest(h) \/ ListRequest(h) \/ \E v \in Previews : DeleteRequest(h, v)
      PROVE LockHeld'
  <2>1. PICK f \in Frame :
          /\ call' = [call EXCEPT ![h] = f]
          /\ f.at \in {"lock", "sweep", "stop"}
          /\ f.op = "create" => f.at = "lock"
    BY <1>1, RequestFrame
  <2>2. lock' = lock
    BY <1>1 DEF CreateRequest, ListRequest, DeleteRequest
  <2> QED BY <1>0, <2>1, <2>2 DEF IInv, LockHeld
<1>2. ASSUME NEW h \in Callers, Acquire(h) PROVE LockHeld'
  BY <1>0, <1>2 DEF IInv, LockHeld, Acquire, Frame
<1>3. ASSUME NEW h \in Callers, TooMany(h) \/ Insert(h) PROVE LockHeld'
  <2>1. lock = h /\ call[h].op = "create"
    BY <1>3 DEF IInv, LockHeld, TooMany, Insert
  <2>2. \A g \in Callers \ {h} : call'[g] = call[g] /\ lock # g
    BY <1>0, <1>3, <2>1 DEF TooMany, Insert
  <2>3. call'[h].at \in {"idle", "build"}
    BY <1>0, <1>3 DEF TooMany, Insert, NoCall, Frame
  <2> QED BY <2>2, <2>3 DEF IInv, LockHeld
<1>4. ASSUME NEW h \in Callers, Room(h) \/ StopUnit(h) \/ Build(h) \/ Start(h) PROVE LockHeld'
  BY <1>0, <1>4 DEF IInv, LockHeld, Room, StopUnit, Build, Start, Goes, Frame
<1>5. ASSUME NEW h \in Callers, Configure(h) \/ CreateFails(h) PROVE LockHeld'
  BY <1>0, <1>5 DEF IInv, LockHeld, Configure, CreateFails, NoCall
<1>6. ASSUME NEW h \in Callers, Swept(h) \/ Expire(h) PROVE LockHeld'
  BY <1>0, <1>6 DEF IInv, LockHeld, Swept, Expire, NoCall, Frame
<1>7. ASSUME NEW h \in Callers, Sweep(h) PROVE LockHeld'
  BY <1>0, <1>7 DEF IInv, LockHeld, Sweep, Frame
<1>8. ASSUME NEW h \in Callers, ExpireFails(h) PROVE LockHeld'
  BY <1>0, <1>8 DEF IInv, LockHeld, ExpireFails, NoCall
<1>9. CASE UNCHANGED <<lock, call>>
  BY <1>9 DEF IInv, LockHeld
<1> QED BY <1>1, <1>2, <1>3, <1>4, <1>5, <1>6, <1>7, <1>8, <1>9
        DEF Next, CallStep, Late, vars

\* A step that inserts no row and in which no request starts to count on one.
LEMMA LimitLocal ==
  ASSUME IInv, Active' \subseteq Active,
         \A h \in Callers : call'[h].at = "insert" => call[h].at = "insert"
  PROVE  RoomLeft' /\ LimitKept'
<1>1. Limit \in Nat /\ Cardinality(Active) <= Limit
  BY PreviewAssumption DEF IInv, LimitKept
<1> QED BY <1>1, ActiveFinite, ActiveShrinks DEF IInv, RoomLeft, LimitKept

LEMMA LimitStep ==
  ASSUME IInv, [Next]_vars
  PROVE  RoomLeft' /\ LimitKept'
<1>0. /\ call \in [Callers -> Frame] /\ None \notin Callers
      /\ status \in [Previews -> {"none", "running", "expired", "failed"}]
      /\ Limit \in Nat
  BY PreviewAssumption DEF IInv, TypeOK
<1>1. ASSUME NEW h \in Callers,
             CreateRequest(h) \/ ListRequest(h) \/ \E v \in Previews : DeleteRequest(h, v)
      PROVE RoomLeft' /\ LimitKept'
  <2>1. PICK f \in Frame : call' = [call EXCEPT ![h] = f] /\ f.at \in {"lock", "sweep", "stop"}
    BY <1>1, RequestFrame
  <2>2. Active' = Active
    BY <1>1 DEF CreateRequest, ListRequest, DeleteRequest, Active
  <2> QED BY <1>0, <2>1, <2>2, LimitLocal
\* The count is under the limit when the request has read it.
<1>2. ASSUME NEW h \in Callers, Room(h) PROVE RoomLeft' /\ LimitKept'
  <2>1. Active' = Active /\ Cardinality(Active) < Limit
    BY <1>2 DEF Room, Active
  <2> QED BY <2>1 DEF IInv, RoomLeft, LimitKept
\* One row more, and nobody else holds the lock to count on the same room.
<1>3. ASSUME NEW h \in Callers, Insert(h) PROVE RoomLeft' /\ LimitKept'
  <2>1. lock = h /\ Cardinality(Active) < Limit
    BY <1>3 DEF IInv, LockHeld, RoomLeft, Insert
  <2>2. \A g \in Callers : call'[g].at # "insert"
    BY <1>0, <1>3, <2>1 DEF IInv, LockHeld, Insert, Frame
  <2>3. Active' \subseteq Active \cup {made + 1}
    BY <1>0, <1>3 DEF Insert, Active
  <2>4. /\ IsFiniteSet(Active \cup {made + 1})
        /\ Cardinality(Active \cup {made + 1}) =
              IF made + 1 \in Active THEN Cardinality(Active) ELSE Cardinality(Active) + 1
    BY ActiveFinite, FS_AddElement
  <2>5. Cardinality(Active') <= Cardinality(Active \cup {made + 1}) /\ Cardinality(Active') \in Nat
    BY <2>3, <2>4, FS_Subset, FS_CardinalityType
  <2>6. Cardinality(Active') <= Limit
    BY <1>0, <2>1, <2>4, <2>5, ActiveFinite
  <2> QED BY <2>2, <2>6 DEF RoomLeft, LimitKept
<1>4. ASSUME NEW h \in Callers, CallStep(h), ~Room(h), ~Insert(h) PROVE RoomLeft' /\ LimitKept'
  <2>1. Active' \subseteq Active
    <3>1. CASE CreateFails(h) \/ Expire(h)
      BY <1>0, <3>1 DEF CreateFails, Expire, Active
    <3>2. CASE UNCHANGED status
      BY <3>2 DEF Active
    <3> QED BY <1>4, <3>1, <3>2 DEF CallStep, Acquire, TooMany, Build, Start, Configure,
                Sweep, Swept, StopUnit, ExpireFails
  <2>2. \A g \in Callers \ {h} : call'[g] = call[g]
    BY <1>0, <1>4 DEF CallStep, Acquire, TooMany, Build, Start, Configure, CreateFails,
                Sweep, Swept, StopUnit, Expire, ExpireFails, Goes
  <2>3. call'[h].at # "insert"
    <3>1. CASE Acquire(h) \/ StopUnit(h) \/ Build(h) \/ Start(h)
      BY <1>0, <3>1 DEF Acquire, StopUnit, Build, Start, Goes, Frame
    <3>2. CASE TooMany(h) \/ Configure(h) \/ CreateFails(h) \/ ExpireFails(h)
      BY <1>0, <3>2 DEF TooMany, Configure, CreateFails, ExpireFails, NoCall
    <3>3. CASE Swept(h) \/ Expire(h)
      BY <1>0, <3>3 DEF Swept, Expire, Frame, NoCall
    <3>4. CASE Sweep(h)
      BY <1>0, <3>4 DEF Sweep, Frame
    <3> QED BY <1>4, <3>1, <3>2, <3>3, <3>4 DEF CallStep
  <2> QED BY <2>1, <2>2, <2>3, LimitLocal
<1>5. CASE UNCHANGED <<status, call>>
  BY <1>5, LimitLocal DEF Active
<1> QED BY <1>1, <1>2, <1>3, <1>4, <1>5 DEF Next, Late, vars

----------------------------------------------------------------------------

LEMMA Invariance == Spec => []IInv
<1>1. IInv /\ [Next]_vars => IInv'
  BY NextType, RowsLeftStep, LockHeldStep, LimitStep DEF IInv
<1> QED BY <1>1, InitInv, PTL DEF Spec

\* Types: for any number of requests, previews and faults every variable of
\* the previews keeps its type.
THEOREM PreviewTypeCorrect == Spec => []TypeOK
<1>1. IInv => TypeOK
  BY DEF IInv
<1> QED BY <1>1, Invariance, PTL

\* The limit: create_preview_sync counts and inserts under the lock, so no
\* interleaving of creations, sweeps, deletions and failures passes it.
THEOREM PreviewLimit == Spec => []LimitKept
<1>1. IInv => LimitKept
  BY DEF IInv
<1> QED BY <1>1, Invariance, PTL

----------------------------------------------------------------------------
(* What is left behind when nothing fails.                                 *)

\* Request h works on preview v.
Works(h, v) == /\ call[h].at \in {"build", "start", "configure", "stop", "unroute"}
               /\ call[h].id = v

\* The request that creates a preview is alone with it, the row is running, and
\* there is no site yet, and no container before it was started.
CreatorsAlone == \A h \in Callers : call[h].at \in {"build", "start", "configure"} =>
    LET v == call[h].id IN
    /\ call[h].op = "create" /\ status[v] = "running" /\ v \notin late /\ v \notin route
    /\ call[h].at # "configure" => v \notin unit
    /\ \A g \in Callers \ {h} : ~Works(g, v)

\* A request that takes the site away has stopped the container.
StoppedFirst == \A h \in Callers : call[h].at = "unroute" => call[h].id \notin unit

NInv == IInv /\ (faults = {} => CreatorsAlone /\ StoppedFirst /\ NothingOutlivesRow)

LEMMA NewRequestLeaves ==
  ASSUME NInv, faults = {}, NEW h \in Callers,
         CreateRequest(h) \/ ListRequest(h) \/ \E v \in Previews : DeleteRequest(h, v)
  PROVE  (CreatorsAlone /\ StoppedFirst /\ NothingOutlivesRow)'
<1>1. UNCHANGED <<status, late, unit, route, faults>> /\ call \in [Callers -> Frame]
  BY DEF CreateRequest, ListRequest, DeleteRequest, NInv, IInv, TypeOK
<1>2. NothingOutlivesRow'
  BY <1>1 DEF NInv, NothingOutlivesRow, Active
<1>3. CASE CreateRequest(h) \/ ListRequest(h)
  <2>1. /\ call'[h].at \in {"lock", "sweep"}
        /\ \A g \in Callers \ {h} : call'[g] = call[g]
    BY <1>1, <1>3 DEF CreateRequest, ListRequest, NoCall
  <2> QED BY <1>1, <1>2, <2>1 DEF NInv, CreatorsAlone, StoppedFirst, Works
<1>4. ASSUME NEW v \in Previews, DeleteRequest(h, v) PROVE (CreatorsAlone /\ StoppedFirst)'
  <2>1. /\ call'[h].at = "stop" /\ call'[h].id = v
        /\ \A g \in Callers \ {h} : call'[g] = call[g]
    BY <1>1, <1>4 DEF DeleteRequest, NoCall
  <2>2. ~Creating(v)
    BY <1>4 DEF DeleteRequest
  <2>3. \A g \in Callers : call[g].at \in {"build", "start", "configure"} => call[g].id # v
    BY <2>2 DEF Creating, NInv, CreatorsAlone
  <2> QED BY <1>1, <2>1, <2>3 DEF NInv, CreatorsAlone, StoppedFirst, Works
<1> QED BY <1>2, <1>3, <1>4

\* Creating: the row, the container and the site are this request's alone.
LEMMA CreatorLeaves ==
  ASSUME NInv, faults = {}, NEW h \in Callers,
         Insert(h) \/ Build(h) \/ Start(h) \/ Configure(h) \/ CreateFails(h)
  PROVE  (CreatorsAlone /\ StoppedFirst /\ NothingOutlivesRow)'
<1>1. /\ call \in [Callers -> Frame] /\ made \in Nat /\ unit \subseteq 1..made
      /\ route \subseteq 1..made /\ late \subseteq 1..made
      /\ status \in [Previews -> {"none", "running", "expired", "failed"}]
  BY PreviewAssumption DEF NInv, IInv, TypeOK
<1>2. CreatorsAlone /\ StoppedFirst /\ NothingOutlivesRow
  BY DEF NInv
<1>3. CASE Insert(h)
  <2> DEFINE v == made + 1
  <2>1. v \in Previews /\ call[h].op = "create"
    BY <1>3, RoomForRow DEF NInv, IInv, LockHeld, Insert
  <2>2. v \notin unit /\ v \notin route /\ v \notin late
    BY <1>1
  <2>3. \A g \in Callers \ {h} : ~Works(g, v) /\ call'[g] = call[g]
    BY <1>1, <1>3 DEF NInv, IInv, Handled, Works, Insert
  <2>4. call'[h].at = "build" /\ call'[h].id = v /\ call'[h].op = "create"
    BY <1>1, <1>3, <2>1 DEF Insert, Frame
  <2>5. /\ status'[v] = "running" /\ \A u \in Previews \ {v} : status'[u] = status[u]
        /\ UNCHANGED <<late, unit, route, faults>>
    BY <1>1, <1>3, <2>1 DEF Insert
  <2> HIDE DEF v
  <2>6. NothingOutlivesRow'
    BY <1>2, <2>2, <2>5 DEF NothingOutlivesRow, Active
  <2>7. StoppedFirst'
    BY <1>2, <2>3, <2>4, <2>5 DEF StoppedFirst
  <2>8. \A g \in Callers \ {h} : call[g].at \in {"build", "start", "configure"} =>
           call[g].id # v /\ call[g].id \in Previews
    BY <1>1, <2>3, PreviewAssumption DEF Works, NInv, IInv, Handled, Previews, TypeOK
  <2>9. CreatorsAlone'
    BY <1>2, <2>2, <2>3, <2>4, <2>5, <2>8 DEF CreatorsAlone, Works
  <2> QED BY <2>6, <2>7, <2>9
<1>4. CASE ~Insert(h)
  <2> DEFINE v == call[h].id
  <2>1. /\ call[h].at \in {"build", "start", "configure"}
        /\ v \in Previews /\ v \in Nat
        /\ status[v] = "running" /\ v \notin late /\ v \notin route
        /\ call[h].at # "configure" => v \notin unit
        /\ \A g \in Callers \ {h} : ~Works(g, v)
    BY <1>2, <1>4, PreviewAssumption
       DEF CreatorsAlone, Build, Start, Configure, CreateFails, NInv, IInv, Handled, Previews,
           TypeOK
  <2>2. \A g \in Callers \ {h} : call'[g] = call[g]
    BY <1>1, <1>4 DEF Build, Start, Configure, CreateFails, Goes
  <2>3. CASE Build(h) \/ Start(h)
    <3>1. /\ call'[h].id = v /\ call'[h].op = call[h].op
          /\ call'[h].at = IF call[h].at = "build" THEN "start" ELSE "configure"
      BY <1>1, <2>3 DEF Build, Start, Goes, Frame
    <3>2. /\ UNCHANGED <<status, late, route, faults>>
          /\ unit' = unit \/ (unit' = unit \cup {v} /\ call[h].at = "start")
          /\ call[h].at = "build" => unit' = unit
      BY <2>3 DEF Build, Start
    <3> HIDE DEF v
    <3>3. NothingOutlivesRow'
      BY <1>2, <2>1, <3>2 DEF NothingOutlivesRow, Active
    <3>4. \A g \in Callers \ {h} : Works(g, call[g].id) => call[g].id # v
      BY <2>1 DEF Works
    <3>5. StoppedFirst'
      BY <1>2, <2>1, <2>2, <3>1, <3>2, <3>4 DEF StoppedFirst, Works
    <3>6. CreatorsAlone'
      BY <1>2, <2>1, <2>2, <3>1, <3>2, <3>4 DEF CreatorsAlone, Works, v
    <3> QED BY <3>3, <3>5, <3>6
  <2>4. CASE Configure(h) \/ CreateFails(h)
    <3>1. call'[h].at = "idle"
      BY <1>1, <2>4 DEF Configure, CreateFails, NoCall
    <3>2. /\ UNCHANGED <<late, unit, faults>>
          /\ \/ UNCHANGED status /\ route' = route \cup {v}
             \/ status' = [status EXCEPT ![v] = "failed"] /\ UNCHANGED route
                /\ call[h].at # "configure"
      BY <2>4 DEF Configure, CreateFails
    <3> HIDE DEF v
    <3>3. \A u \in Previews \ {v} : status'[u] = status[u]
      BY <1>1, <3>2
    <3>4. NothingOutlivesRow'
      BY <1>2, <2>1, <3>2, <3>3 DEF NothingOutlivesRow, Active
    <3>5. \A g \in Callers \ {h} : call[g].at \in {"build", "start", "configure"} =>
             call[g].id # v /\ call[g].id \in Previews
      BY <1>1, <2>1, PreviewAssumption DEF Works, NInv, IInv, Handled, Previews, TypeOK
    <3>6. StoppedFirst' /\ CreatorsAlone'
      BY <1>2, <2>1, <2>2, <3>1, <3>2, <3>3, <3>5 DEF StoppedFirst, CreatorsAlone, Works
    <3> QED BY <3>4, <3>6
  <2> QED BY <1>4, <2>3, <2>4
<1> QED BY <1>3, <1>4

\* Sweeping and taking down: never a preview that is being created.
LEMMA TeardownLeaves ==
  ASSUME NInv, faults = {}, NEW h \in Callers,
         \/ Acquire(h) \/ TooMany(h) \/ Room(h) \/ Sweep(h) \/ Swept(h)
         \/ StopUnit(h) \/ Expire(h) \/ ExpireFails(h)
  PROVE  (CreatorsAlone /\ StoppedFirst /\ NothingOutlivesRow)'
<1>1. /\ call \in [Callers -> Frame] /\ made \in Nat
      /\ status \in [Previews -> {"none", "running", "expired", "failed"}]
  BY PreviewAssumption DEF NInv, IInv, TypeOK
<1>2. CreatorsAlone /\ StoppedFirst /\ NothingOutlivesRow
  BY DEF NInv
<1>3. \A g \in Callers \ {h} : call'[g] = call[g]
  BY <1>1 DEF Acquire, TooMany, Room, Sweep, Swept, StopUnit, Expire, ExpireFails, Goes
<1>4. ~ExpireFails(h)
  BY DEF ExpireFails
<1>5. CASE Acquire(h) \/ TooMany(h) \/ Room(h) \/ Swept(h)
  <2>1. call'[h].at \in {"sweep", "idle", "insert", "count"}
    BY <1>1, <1>5 DEF Acquire, TooMany, Room, Swept, Goes, Frame, NoCall
  <2>2. UNCHANGED <<status, late, unit, route, faults>>
    BY <1>5 DEF Acquire, TooMany, Room, Swept
  <2> QED BY <1>2, <1>3, <2>1, <2>2
          DEF CreatorsAlone, StoppedFirst, NothingOutlivesRow, Works, Active
<1>6. CASE Sweep(h)
  <2>1. PICK v \in call[h].todo :
          call' = [call EXCEPT ![h].todo = @ \ {v}, ![h].id = v,
                      ![h].at = IF v \in late THEN "stop" ELSE "sweep"]
    BY <1>6 DEF Sweep
  <2>2. call'[h].id = v /\ call'[h].at = IF v \in late THEN "stop" ELSE "sweep"
    BY <1>1, <2>1 DEF Frame
  <2>3. UNCHANGED <<status, late, unit, route, faults>>
    BY <1>6 DEF Sweep
  <2> QED BY <1>2, <1>3, <2>2, <2>3
          DEF CreatorsAlone, StoppedFirst, NothingOutlivesRow, Works, Active
<1>7. CASE StopUnit(h) \/ Expire(h)
  <2> DEFINE v == call[h].id
  <2>1. /\ call[h].at \in {"stop", "unroute"}
        /\ \A g \in Callers : call[g].at \in {"build", "start", "configure"} =>
              call[g].id # v /\ call[g].id \in Previews
        /\ v \in Previews
    <3>1. call[h].at \in {"stop", "unroute"}
      BY <1>7 DEF StopUnit, Expire
    <3>2. \A g \in Callers : call[g].at \in {"build", "start", "configure"} =>
             call[g].id \in Previews
      BY PreviewAssumption DEF NInv, IInv, Handled, Previews, TypeOK
    <3>3. v \in Previews
      BY <3>1, PreviewAssumption DEF NInv, IInv, Handled, Previews, TypeOK
    <3> QED BY <1>2, <3>1, <3>2, <3>3 DEF CreatorsAlone, Works
  <2>2. CASE StopUnit(h)
    <3>1. call'[h].at = "unroute" /\ call'[h].id = v
      BY <1>1, <2>2 DEF StopUnit, Goes, Frame
    <3>2. unit' = unit \ {v} /\ UNCHANGED <<status, late, route, faults>>
      BY <2>2 DEF StopUnit
    <3> HIDE DEF v
    <3> QED BY <1>2, <1>3, <2>1, <3>1, <3>2
            DEF CreatorsAlone, StoppedFirst, NothingOutlivesRow, Works, Active
  <2>3. CASE Expire(h)
    <3>1. call'[h].at \in {"idle", "sweep"}
      BY <1>1, <2>3 DEF Expire, Frame, NoCall
    <3>2. /\ UNCHANGED <<unit, late, faults>> /\ route' = route \ {v}
          /\ status' = [status EXCEPT ![v] = "expired"]
      BY <2>3 DEF Expire
    <3>3. v \notin unit
      BY <1>2, <2>3 DEF StoppedFirst, Expire
    <3> HIDE DEF v
    <3>4. \A u \in Previews \ {v} : status'[u] = status[u]
      BY <1>1, <3>2
    <3> QED BY <1>2, <1>3, <2>1, <3>1, <3>2, <3>3, <3>4
            DEF CreatorsAlone, StoppedFirst, NothingOutlivesRow, Works, Active
  <2> QED BY <1>7, <2>2, <2>3
<1> QED BY <1>4, <1>5, <1>6, <1>7

\* Containers and sites: previews that were started and routed are active, or
\* gone, when nothing fails and no teardown runs into a creation.
THEOREM PreviewsReclaimable == Spec => []NothingOutlivesRow
<1>1. Init => NInv
  <2>1. Init => IInv
    BY InitInv
  <2>2. Init => CreatorsAlone /\ StoppedFirst /\ NothingOutlivesRow
    BY DEF Init, CreatorsAlone, StoppedFirst, NothingOutlivesRow, NoCall
  <2> QED BY <2>1, <2>2 DEF NInv
<1>2. NInv /\ [Next]_vars => NInv'
  <2> SUFFICES ASSUME NInv, [Next]_vars PROVE NInv'
    OBVIOUS
  <2>1. IInv'
    BY NextType, RowsLeftStep, LockHeldStep, LimitStep DEF NInv, IInv
  <2>2. faults' = faults
    BY DEF Next, CreateRequest, ListRequest, DeleteRequest, Late, CallStep, Acquire, TooMany,
           Room, Insert, Build, Start, Configure, CreateFails, Sweep, Swept, StopUnit, Expire,
           ExpireFails, vars
  <2> SUFFICES ASSUME faults = {} PROVE (CreatorsAlone /\ StoppedFirst /\ NothingOutlivesRow)'
    BY <2>1, <2>2 DEF NInv
  <2>3. ASSUME NEW h \in Callers,
               CreateRequest(h) \/ ListRequest(h) \/ \E v \in Previews : DeleteRequest(h, v)
        PROVE  (CreatorsAlone /\ StoppedFirst /\ NothingOutlivesRow)'
    BY <2>3, NewRequestLeaves
  <2>4. ASSUME NEW h \in Callers, CallStep(h)
        PROVE  (CreatorsAlone /\ StoppedFirst /\ NothingOutlivesRow)'
    BY <2>4, CreatorLeaves, TeardownLeaves DEF CallStep
  <2>5. ASSUME NEW v \in Previews, Late(v)
        PROVE  (CreatorsAlone /\ StoppedFirst /\ NothingOutlivesRow)'
    <3>1. /\ ~Creating(v) /\ late' = late \cup {v}
          /\ UNCHANGED <<lock, status, made, unit, route, call, faults>>
      BY <2>5 DEF Late
    <3>2. \A g \in Callers : call[g].at \in {"build", "start", "configure"} => call[g].id # v
      BY <3>1 DEF Creating, NInv, CreatorsAlone
    <3> QED BY <3>1, <3>2 DEF NInv, CreatorsAlone, StoppedFirst, NothingOutlivesRow, Works, Active
  <2>6. CASE UNCHANGED vars
    BY <2>6 DEF vars, NInv, CreatorsAlone, StoppedFirst, NothingOutlivesRow, Works, Active
  <2> QED BY <2>3, <2>4, <2>5, <2>6 DEF Next
<1>3. NInv => NothingOutlivesRow
  BY DEF NInv, NothingOutlivesRow
<1> QED BY <1>1, <1>2, <1>3, PTL DEF Spec
=============================================================================
