--------------------------- MODULE PaymentsProofs ---------------------------
(***************************************************************************)
(* For any number of requests, orders, keys, amounts and crashes, and for  *)
(* any number of tries: one call per order reaches the provider's books,   *)
(* and the table says nothing the provider did not do (Payments.tla).  At  *)
(* the end, the circuit breaker through which the provider is called       *)
(* (CircuitBreaker.tla).                                                   *)
(***************************************************************************)
EXTENDS Payments, TLAPS

\* Request r is confirming, or cancelling, an order.
Confirming(r) == req[r].at # "idle" /\ req[r].kind = "confirm"
Canceling(r) == req[r].at # "idle" /\ req[r].kind = "cancel"

\* A request waits for the provider with a try left, and for an order it knows.
FramesKnown ==
    \A r \in Requests : req[r].at # "idle" =>
        /\ req[r].order \in Orders /\ req[r].key \in Keys
        /\ req[r].tries < Attempts

\* A row has a key as soon as it is there; before, nothing was taken, and after,
\* only with that key, by the tries of one call.
RowsKnown ==
    \A o \in Orders :
        /\ row[o].status # "none" => row[o].key \in Keys
        /\ \A k \in Keys : /\ charges[o][k] <= Attempts
                           /\ charges[o][k] > 0 => row[o].status # "none" /\ row[o].key = k

\* The request that confirms an order is the only one, its row waits for it, and
\* the provider took no more than it has tried.
ConfirmsAlone ==
    \A r \in Requests : Confirming(r) =>
        LET o == req[r].order  k == req[r].key IN
        /\ row[o].status = "ready" /\ row[o].key = k
        /\ \A q \in Requests : Confirming(q) /\ req[q].order = o => q = r
        /\ req[r].at = "post" => charges[o][k] <= req[r].tries
        /\ req[r].at = "answered" => charges[o][k] > 0

\* Requests that cancel an order, any number of them, do so after it was
\* confirmed.
CancelsConfirmed ==
    \A r \in Requests : Canceling(r) =>
        /\ row[req[r].order].status \in {"confirmed", "canceled"}
        /\ row[req[r].order].key = req[r].key
        /\ req[r].at = "answered" => req[r].key \in refunded

IInv == /\ TypeOK /\ FramesKnown /\ RowsKnown /\ ConfirmsAlone /\ CancelsConfirmed
        /\ ProviderAgrees

----------------------------------------------------------------------------
(* Types.                                                                  *)

LEMMA NoFrameType == NoFrame \in Frame
  BY PaymentsAssumption DEF NoFrame, Frame

LEMMA ConfirmType ==
  ASSUME NEW o \in Orders, NEW k \in Keys, NEW a \in Amounts \cup {0},
         NEW at \in {"idle", "post"}, NEW reply \in {"none", "ok", "conflict", "error"}
  PROVE  /\ Confirm(o, k, a, at, reply) \in Frame
         /\ [Confirm(o, k, a, at, reply) EXCEPT !.kind = "cancel"] \in Frame
<1> DEFINE f1 == [NoFrame EXCEPT !.at = at]
           f2 == [f1 EXCEPT !.order = o]
           f3 == [f2 EXCEPT !.key = k]
           f4 == [f3 EXCEPT !.amount = a]
           f5 == [f4 EXCEPT !.reply = reply]
<1>1. f1 \in Frame
  BY NoFrameType DEF Frame
<1>2. f2 \in Frame
  BY <1>1 DEF Frame
<1>3. f3 \in Frame
  BY <1>2 DEF Frame
<1>4. f4 \in Frame
  BY <1>3 DEF Frame
<1>5. f5 \in Frame /\ [f5 EXCEPT !.kind = "cancel"] \in Frame
  BY <1>4 DEF Frame
<1>6. Confirm(o, k, a, at, reply) = f5
  BY DEF Confirm
<1> HIDE DEF f5
<1> QED BY <1>5, <1>6

LEMMA InitIInv == Init => IInv
  BY NoFrameType, PaymentsAssumption
     DEF Init, IInv, TypeOK, FramesKnown, RowsKnown, ConfirmsAlone, CancelsConfirmed,
         ProviderAgrees, Confirming, Canceling, NoFrame, NoRow, Row, Statuses

----------------------------------------------------------------------------
(* What a step does to the frames of requests, the rows and the provider.  *)

\* Request r ends, and changes nothing else.
LEMMA EndsStep ==
  ASSUME NEW r \in Requests, NEW reply \in {"ok", "error"}, TypeOK, Ends(r, reply)
  PROVE  /\ req' \in [Requests -> Frame]
         /\ req'[r].at = "idle"
         /\ \A q \in Requests \ {r} : req'[q] = req[q]
<1> DEFINE f == [req[r] EXCEPT !.at = "idle", !.tries = 0, !.reply = reply]
<1>1. f \in Frame /\ f.at = "idle"
  <2> DEFINE f1 == [req[r] EXCEPT !.at = "idle"]
             f2 == [f1 EXCEPT !.tries = 0]
  <2>1. req[r] \in Frame
    BY DEF TypeOK
  <2>2. f1 \in Frame
    BY <2>1 DEF Frame
  <2>3. f2 \in Frame
    <3>1. 0 \in 0..Attempts
      BY PaymentsAssumption
    <3> HIDE DEF f1
    <3> QED BY <2>2, <3>1 DEF Frame
  <2>4. [f2 EXCEPT !.reply = reply] \in Frame
    BY <2>3 DEF Frame
  <2>5. f.at = "idle"
    BY <2>1 DEF Frame
  <2> QED BY <2>4, <2>5
<1>2. req' = [req EXCEPT ![r] = f]
  BY DEF Ends, TypeOK
<1> QED BY <1>1, <1>2 DEF TypeOK

\* The provider takes a payment once more, or gives one back, or does nothing.
LEMMA ProviderStep ==
  ASSUME NEW r \in Requests, TypeOK, FramesKnown, req[r].at = "post", Executed(r) \/ Untouched
  PROVE  /\ charges' \in [Orders -> [Keys -> Nat]] /\ refunded' \subseteq Keys
         /\ refunded \subseteq refunded'
         /\ req[r].kind = "confirm" => refunded' = refunded
         /\ req[r].kind = "cancel" => charges' = charges
         /\ \A o \in Orders, k \in Keys :
               IF o = req[r].order /\ k = req[r].key
               THEN charges'[o][k] \in {charges[o][k], charges[o][k] + 1}
               ELSE charges'[o][k] = charges[o][k]
         /\ Executed(r) /\ req[r].kind = "confirm" =>
               charges'[req[r].order][req[r].key] = charges[req[r].order][req[r].key] + 1
         /\ Executed(r) /\ req[r].kind = "cancel" => req[r].key \in refunded'
<1>1. req[r] \in Frame /\ req[r].order \in Orders /\ req[r].key \in Keys
  BY DEF TypeOK, FramesKnown
<1>2. req[r].kind \in {"confirm", "cancel"}
  BY <1>1 DEF Frame
<1>3. CASE req[r].kind = "confirm" /\ Executed(r)
  BY <1>1, <1>3 DEF Executed, TypeOK
<1>4. CASE req[r].kind = "cancel" /\ Executed(r)
  BY <1>1, <1>4 DEF Executed, TypeOK
<1>5. CASE Untouched /\ ~Executed(r)
  BY <1>5 DEF Untouched, TypeOK
<1> QED BY <1>2, <1>3, <1>4, <1>5

\* A try of request r is over: it was answered or refused, or it is tried
\* again, or given up.
LEMMA TryStep ==
  ASSUME NEW r \in Requests, TypeOK, FramesKnown,
         Answered(r) \/ Unreachable(r) \/ ReadTimeout(r) \/ Raises(r)
  PROVE  /\ req[r].at = "post" /\ UNCHANGED <<row, issued, crashes>>
         /\ Executed(r) \/ Untouched
         /\ req' \in [Requests -> Frame]
         /\ \A q \in Requests \ {r} : req'[q] = req[q]
         /\ \/ req'[r].at = "idle"
            \/ /\ req'[r].kind = req[r].kind /\ req'[r].order = req[r].order
               /\ req'[r].key = req[r].key
               /\ \/ req'[r].at = "refused" /\ req'[r].tries = req[r].tries
                  \/ req'[r].at = "answered" /\ req'[r].tries = req[r].tries /\ Executed(r)
                  \/ /\ req'[r].at = "post" /\ req'[r].tries = req[r].tries + 1
                     /\ req'[r].tries < Attempts
<1> DEFINE Over == /\ req' \in [Requests -> Frame]
                   /\ \A q \in Requests \ {r} : req'[q] = req[q]
                   /\ \/ req'[r].at = "idle"
                      \/ /\ req'[r].kind = req[r].kind /\ req'[r].order = req[r].order
                         /\ req'[r].key = req[r].key
                         /\ req'[r].at = "post" /\ req'[r].tries = req[r].tries + 1
                         /\ req'[r].tries < Attempts
<1>1. req[r] \in Frame /\ Attempts \in Nat
  BY PaymentsAssumption DEF TypeOK
<1>2. Fails(r) => Over
  <2>1. CASE req[r].tries + 1 < Attempts /\ req[r].at = "post"
    <3>1. [req[r] EXCEPT !.tries = @ + 1] \in Frame
      BY <1>1, <2>1 DEF Frame
    <3>2. Fails(r) => req' = [req EXCEPT ![r] = [req[r] EXCEPT !.tries = @ + 1]]
      BY <2>1 DEF Fails, TypeOK
    <3> DEFINE f == [req[r] EXCEPT !.tries = @ + 1]
    <3>3. /\ f.kind = req[r].kind /\ f.order = req[r].order /\ f.key = req[r].key
          /\ f.at = "post" /\ f.tries = req[r].tries + 1 /\ f.tries < Attempts
      BY <1>1, <2>1 DEF Frame
    <3> HIDE DEF f
    <3>4. Fails(r) => req' = [req EXCEPT ![r] = f]
      BY <3>2 DEF f
    <3> QED BY <3>1, <3>3, <3>4 DEF TypeOK, f
  <2>2. CASE ~(req[r].tries + 1 < Attempts)
    BY <2>2, EndsStep DEF Fails
  <2> QED BY <2>1, <2>2 DEF Answered, Unreachable, ReadTimeout, Raises
<1>3. Ends(r, "error") => Over
  BY EndsStep
<1>4. CASE Answered(r)
  <2>1. PICK at \in {"answered", "refused"} :
            /\ req' = [req EXCEPT ![r] = [req[r] EXCEPT !.at = at]]
            /\ at = "answered" => Executed(r)
    BY <1>4 DEF Answered, TypeOK
  <2>2. [req[r] EXCEPT !.at = at] \in Frame
    BY <1>1 DEF Frame
  <2> QED BY <1>1, <1>4, <2>1, <2>2 DEF Answered, TypeOK, Frame
<1>5. CASE Unreachable(r) \/ ReadTimeout(r) \/ Raises(r)
  BY <1>2, <1>3, <1>5 DEF Unreachable, ReadTimeout, Raises
<1> QED BY <1>4, <1>5

\* The handler of request r writes the row, and ends.
LEMMA WriteStep ==
  ASSUME NEW r \in Requests, NEW status \in Statuses, NEW reply \in {"ok", "error"},
         TypeOK, FramesKnown, req[r].at # "idle", Writes(r, status, reply)
  PROVE  /\ UNCHANGED <<charges, refunded, issued, crashes>>
         /\ row' \in [Orders -> Row] /\ req' \in [Requests -> Frame]
         /\ req'[r].at = "idle"
         /\ \A q \in Requests \ {r} : req'[q] = req[q]
         /\ \A o \in Orders : /\ row'[o].key = row[o].key /\ row'[o].amount = row[o].amount
                              /\ row'[o].status = IF o = req[r].order THEN status
                                                  ELSE row[o].status
<1>1. req[r].order \in Orders
  BY DEF FramesKnown
<1>2. /\ row' \in [Orders -> Row]
      /\ \A o \in Orders : /\ row'[o].key = row[o].key /\ row'[o].amount = row[o].amount
                           /\ row'[o].status = IF o = req[r].order THEN status
                                               ELSE row[o].status
  BY <1>1 DEF Writes, TypeOK, Row
<1> QED BY <1>2, EndsStep DEF Writes

----------------------------------------------------------------------------
(* Every step keeps the invariant, and moves a row only forward.           *)

LEMMA SameRowsForward == ASSUME TypeOK, UNCHANGED row PROVE Forward
  BY DEF Forward, TypeOK, Row

\* Requests that ended: what is left is still so.
LEMMA FewerRequests ==
  ASSUME IInv, UNCHANGED <<row, charges, refunded>>, req' \in [Requests -> Frame],
         \A r \in Requests : req'[r].at = "idle" \/ req'[r] = req[r],
         issued' \in 0..MaxRequests, crashes' \in 0..MaxCrashes
  PROVE  IInv'
  BY DEF IInv, TypeOK, FramesKnown, RowsKnown, ConfirmsAlone, CancelsConfirmed,
         ProviderAgrees, Confirming, Canceling

LEMMA ConfirmNewStep ==
  ASSUME IInv, NEW r \in Requests, NEW o \in Orders, NEW k \in Keys, NEW a \in Amounts,
         ConfirmNew(r, o, k, a)
  PROVE  IInv' /\ Forward
<1> USE DEF IInv
<1>1. /\ row[o].status = "none" /\ UNCHANGED <<charges, refunded, crashes>>
      /\ row'[o] = [status |-> "ready", key |-> k, amount |-> a]
      /\ \A p \in Orders \ {o} : row'[p] = row[p]
      /\ row' \in [Orders -> Row]
  BY DEF ConfirmNew, TypeOK, Row, Statuses
<1>2. /\ req'[r] = Confirm(o, k, a, "post", "none")
      /\ \A q \in Requests \ {r} : req'[q] = req[q]
      /\ req' \in [Requests -> Frame]
  BY ConfirmType DEF ConfirmNew, TypeOK
<1>3. req'[r].at = "post" /\ req'[r].kind = "confirm" /\ req'[r].order = o
      /\ req'[r].key = k /\ req'[r].tries = 0
  BY <1>2 DEF Confirm, NoFrame
<1>4. issued' \in 0..MaxRequests
  BY PaymentsAssumption DEF ConfirmNew, Issue, TypeOK
<1>5. (TypeOK /\ FramesKnown)'
  BY <1>1, <1>2, <1>3, <1>4, PaymentsAssumption DEF TypeOK, FramesKnown
<1>6. RowsKnown'
  BY <1>1 DEF RowsKnown
<1>7. \A p \in Orders, l \in Keys : charges[p][l] \in Nat
  BY DEF TypeOK
<1>8. charges[o][k] = 0
  BY <1>1, <1>7 DEF RowsKnown
<1>9. \A q \in Requests \ {r} : Confirming(q) \/ Canceling(q) => req[q].order # o
  BY <1>1 DEF ConfirmsAlone, CancelsConfirmed
<1>10. ConfirmsAlone'
  BY <1>1, <1>2, <1>3, <1>8, <1>9 DEF ConfirmsAlone, Confirming, FramesKnown
<1>11. CancelsConfirmed'
  BY <1>1, <1>2, <1>3, <1>9 DEF CancelsConfirmed, Canceling, FramesKnown
<1>12. ProviderAgrees' /\ Forward
  <2>1. \A p \in Orders : row[p].status \in Statuses
    BY DEF TypeOK, Row
  <2> QED BY <1>1, <2>1 DEF ProviderAgrees, Forward
<1> QED BY <1>5, <1>6, <1>10, <1>11, <1>12

LEMMA ConfirmKnownStep ==
  ASSUME IInv, NEW r \in Requests, NEW o \in Orders, NEW k \in Keys, NEW a \in Amounts,
         ConfirmKnown(r, o, k, a)
  PROVE  IInv' /\ Forward
<1>1. PICK reply \in {"ok", "conflict"} :
          req' = [req EXCEPT ![r] = Confirm(o, k, a, "idle", reply)]
  BY DEF ConfirmKnown
<1>2. Confirm(o, k, a, "idle", reply) \in Frame
  BY ConfirmType
<1>3. Confirm(o, k, a, "idle", reply).at = "idle"
  BY DEF Confirm, NoFrame
<1>4. issued' \in 0..MaxRequests /\ crashes' \in 0..MaxCrashes
      /\ UNCHANGED <<row, charges, refunded>>
  BY PaymentsAssumption DEF ConfirmKnown, Issue, IInv, TypeOK
<1>5. /\ req' \in [Requests -> Frame]
      /\ \A q \in Requests : req'[q].at = "idle" \/ req'[q] = req[q]
  BY <1>1, <1>2, <1>3 DEF IInv, TypeOK
<1> QED BY <1>4, <1>5, FewerRequests, SameRowsForward DEF IInv

LEMMA CancelStep ==
  ASSUME IInv, NEW r \in Requests, NEW k \in Keys, Cancel(r, k)
  PROVE  IInv' /\ Forward
<1> USE DEF IInv
<1>1. PICK o \in Orders :
          /\ row[o].status = "confirmed" /\ row[o].key = k
          /\ req' = [req EXCEPT ![r] = [Confirm(o, k, 0, "post", "none") EXCEPT !.kind = "cancel"]]
  BY DEF Cancel, RowsOf
<1>2. /\ req'[r].at = "post" /\ req'[r].kind = "cancel" /\ req'[r].order = o
      /\ req'[r].key = k /\ req'[r].tries = 0
      /\ \A q \in Requests \ {r} : req'[q] = req[q]
      /\ req' \in [Requests -> Frame]
  BY <1>1, ConfirmType DEF TypeOK, Confirm, NoFrame
<1>3. /\ issued' \in 0..MaxRequests /\ crashes' \in 0..MaxCrashes
      /\ UNCHANGED <<row, charges, refunded>>
  BY PaymentsAssumption DEF Cancel, Issue, TypeOK
<1>4. (TypeOK /\ FramesKnown)'
  BY <1>2, <1>3, PaymentsAssumption DEF TypeOK, FramesKnown
<1>5. (RowsKnown /\ ProviderAgrees)' /\ Forward
  BY <1>3, SameRowsForward DEF RowsKnown, ProviderAgrees
<1>6. ConfirmsAlone'
  BY <1>2, <1>3 DEF ConfirmsAlone, Confirming
<1>7. CancelsConfirmed'
  BY <1>1, <1>2, <1>3 DEF CancelsConfirmed, Canceling
<1> QED BY <1>4, <1>5, <1>6, <1>7

LEMMA TriesStep ==
  ASSUME IInv, NEW r \in Requests,
         Answered(r) \/ Unreachable(r) \/ ReadTimeout(r) \/ Raises(r)
  PROVE  IInv' /\ Forward
<1> USE DEF IInv
<1> DEFINE o == req[r].order
           k == req[r].key
<1>1. /\ req[r].at = "post" /\ UNCHANGED <<row, issued, crashes>>
      /\ Executed(r) \/ Untouched
      /\ req' \in [Requests -> Frame]
      /\ \A q \in Requests \ {r} : req'[q] = req[q]
      /\ \/ req'[r].at = "idle"
         \/ /\ req'[r].kind = req[r].kind /\ req'[r].order = o /\ req'[r].key = k
            /\ \/ req'[r].at = "refused" /\ req'[r].tries = req[r].tries
               \/ req'[r].at = "answered" /\ req'[r].tries = req[r].tries /\ Executed(r)
               \/ /\ req'[r].at = "post" /\ req'[r].tries = req[r].tries + 1
                  /\ req'[r].tries < Attempts
  BY TryStep
<1>2. /\ charges' \in [Orders -> [Keys -> Nat]] /\ refunded' \subseteq Keys
      /\ refunded \subseteq refunded'
      /\ req[r].kind = "confirm" => refunded' = refunded
      /\ req[r].kind = "cancel" => charges' = charges
      /\ \A p \in Orders, l \in Keys :
            IF p = o /\ l = k THEN charges'[p][l] \in {charges[p][l], charges[p][l] + 1}
            ELSE charges'[p][l] = charges[p][l]
      /\ Executed(r) /\ req[r].kind = "confirm" => charges'[o][k] = charges[o][k] + 1
      /\ Executed(r) /\ req[r].kind = "cancel" => k \in refunded'
  BY <1>1, ProviderStep
<1>3. /\ o \in Orders /\ k \in Keys /\ req[r].tries < Attempts
      /\ req[r].tries \in Nat /\ Attempts \in Nat
      /\ req[r].kind \in {"confirm", "cancel"}
      /\ \A p \in Orders, l \in Keys : charges[p][l] \in Nat /\ charges'[p][l] \in Nat
  BY <1>1, <1>2, PaymentsAssumption DEF FramesKnown, TypeOK, Frame
<1>4. (TypeOK /\ FramesKnown)'
  BY <1>1, <1>2, <1>3 DEF TypeOK, FramesKnown
<1>5. \A p \in Orders, l \in Keys : charges'[p][l] >= charges[p][l]
  BY <1>2, <1>3
<1>6. CASE req[r].kind = "confirm"
  <2>1. /\ row[o].status = "ready" /\ row[o].key = k
        /\ charges[o][k] <= req[r].tries
        /\ \A q \in Requests \ {r} : Confirming(q) => req[q].order # o
    BY <1>1, <1>6 DEF ConfirmsAlone, Confirming
  <2>2. RowsKnown'
    BY <1>1, <1>2, <1>3, <2>1 DEF RowsKnown
  <2>3. ConfirmsAlone'
    <3> SUFFICES ASSUME NEW q \in Requests, Confirming(q)'
                 PROVE  LET p == req'[q].order  l == req'[q].key IN
                        /\ row[p].status = "ready" /\ row[p].key = l
                        /\ \A s \in Requests : Confirming(s)' /\ req'[s].order = p => s = q
                        /\ req'[q].at = "post" => charges'[p][l] <= req'[q].tries
                        /\ req'[q].at = "answered" => charges'[p][l] > 0
      BY <1>1 DEF ConfirmsAlone
    <3>1. CASE q = r
      BY <1>1, <1>2, <1>3, <1>6, <2>1, <3>1 DEF Confirming
    <3>2. CASE q # r
      <4>1. Confirming(q) /\ req'[q] = req[q] /\ req[q].order # o
        BY <1>1, <2>1, <3>2 DEF Confirming
      <4>2. charges'[req[q].order][req[q].key] = charges[req[q].order][req[q].key]
        BY <1>2, <4>1 DEF FramesKnown, Confirming
      <4>3. \A s \in Requests : Confirming(s)' => Confirming(s) /\ req'[s].order = req[s].order
        BY <1>1, <1>6 DEF Confirming
      <4> QED BY <4>1, <4>2, <4>3 DEF ConfirmsAlone
    <3> QED BY <3>1, <3>2
  <2>4. CancelsConfirmed'
    BY <1>1, <1>2, <1>6 DEF CancelsConfirmed, Canceling
  <2>5. ProviderAgrees'
    <3>1. \A p \in Orders : row[p].status \in {"confirmed", "canceled"} => row[p].key \in Keys
      BY DEF RowsKnown
    <3> QED BY <1>1, <1>2, <1>3, <1>5, <3>1 DEF ProviderAgrees
  <2> QED BY <1>1, <1>4, <2>2, <2>3, <2>4, <2>5, SameRowsForward
<1>7. CASE req[r].kind = "cancel"
  <2>1. charges' = charges
    BY <1>2, <1>7
  <2>2. (RowsKnown /\ ProviderAgrees)'
    BY <1>1, <1>2, <2>1 DEF RowsKnown, ProviderAgrees
  <2>3. ConfirmsAlone'
    BY <1>1, <1>7, <2>1 DEF ConfirmsAlone, Confirming
  <2>4. CancelsConfirmed'
    BY <1>1, <1>2, <1>7 DEF CancelsConfirmed, Canceling
  <2> QED BY <1>1, <1>4, <2>2, <2>3, <2>4, SameRowsForward
<1> QED BY <1>3, <1>6, <1>7

\* The request that confirms writes what came of it, the row was ready.
LEMMA ConfirmWrites ==
  ASSUME IInv, NEW r \in Requests, NEW status \in {"confirmed", "failed"},
         NEW reply \in {"ok", "error"}, Confirming(r),
         status = "confirmed" => req[r].at = "answered",
         Writes(r, status, reply)
  PROVE  IInv' /\ Forward
<1> USE DEF IInv
<1> DEFINE o == req[r].order
<1>1. /\ UNCHANGED <<charges, refunded, issued, crashes>>
      /\ row' \in [Orders -> Row] /\ req' \in [Requests -> Frame]
      /\ req'[r].at = "idle"
      /\ \A q \in Requests \ {r} : req'[q] = req[q]
      /\ \A p \in Orders : /\ row'[p].key = row[p].key /\ row'[p].amount = row[p].amount
                           /\ row'[p].status = IF p = o THEN status ELSE row[p].status
  BY WriteStep DEF Confirming, Statuses
<1>2. /\ o \in Orders /\ row[o].status = "ready" /\ row[o].key = req[r].key
      /\ \A q \in Requests \ {r} : Confirming(q) => req[q].order # o
      /\ \A q \in Requests : Canceling(q) => req[q].order # o
      /\ status = "confirmed" => charges[o][req[r].key] > 0
  BY DEF ConfirmsAlone, CancelsConfirmed, FramesKnown, Confirming
<1>3. (TypeOK /\ FramesKnown /\ RowsKnown /\ ProviderAgrees)'
  BY <1>1, <1>2 DEF TypeOK, FramesKnown, RowsKnown, ProviderAgrees
<1>4. ConfirmsAlone'
  BY <1>1, <1>2 DEF ConfirmsAlone, Confirming, FramesKnown
<1>5. CancelsConfirmed'
  BY <1>1, <1>2 DEF CancelsConfirmed, Canceling, FramesKnown
<1>6. Forward
  BY <1>1, <1>2 DEF Forward, TypeOK, Row
<1> QED BY <1>3, <1>4, <1>5, <1>6

LEMMA CancelWrites ==
  ASSUME IInv, NEW r \in Requests, Canceled(r)
  PROVE  IInv' /\ Forward
<1> USE DEF IInv
<1> DEFINE o == req[r].order
<1>1. Canceling(r) /\ req[r].at = "answered" /\ Writes(r, "canceled", "ok")
  BY DEF Canceled, Canceling
<1>2. /\ UNCHANGED <<charges, refunded, issued, crashes>>
      /\ row' \in [Orders -> Row] /\ req' \in [Requests -> Frame]
      /\ req'[r].at = "idle"
      /\ \A q \in Requests \ {r} : req'[q] = req[q]
      /\ \A p \in Orders : /\ row'[p].key = row[p].key /\ row'[p].amount = row[p].amount
                           /\ row'[p].status = IF p = o THEN "canceled" ELSE row[p].status
  BY <1>1, WriteStep DEF Canceling, Statuses
<1>3. /\ o \in Orders /\ row[o].status \in {"confirmed", "canceled"}
      /\ row[o].key \in refunded
      /\ \A q \in Requests : Confirming(q) => req[q].order # o
  BY <1>1 DEF ConfirmsAlone, CancelsConfirmed, FramesKnown, Canceling
<1>4. (TypeOK /\ FramesKnown /\ RowsKnown /\ ProviderAgrees)'
  BY <1>2, <1>3 DEF TypeOK, FramesKnown, RowsKnown, ProviderAgrees
<1>5. ConfirmsAlone'
  BY <1>2, <1>3 DEF ConfirmsAlone, Confirming, FramesKnown
<1>6. CancelsConfirmed'
  BY <1>2, <1>3 DEF CancelsConfirmed, Canceling, FramesKnown
<1>7. Forward
  BY <1>2, <1>3 DEF Forward, TypeOK, Row
<1> QED BY <1>4, <1>5, <1>6, <1>7

LEMMA NextStep == IInv /\ [Next]_vars => IInv' /\ Forward
<1> SUFFICES ASSUME IInv, [Next]_vars PROVE IInv' /\ Forward
  OBVIOUS
<1>1. ASSUME NEW r \in Requests, Confirmed(r) PROVE IInv' /\ Forward
  BY <1>1, ConfirmWrites DEF Confirmed, Confirming
<1>2. ASSUME NEW r \in Requests, ConfirmRefused(r) PROVE IInv' /\ Forward
  BY <1>2, ConfirmWrites DEF ConfirmRefused, Confirming
<1>3. ASSUME NEW r \in Requests, CancelRefused(r) PROVE IInv' /\ Forward
  BY <1>3, EndsStep, FewerRequests, SameRowsForward DEF CancelRefused, IInv, TypeOK
<1>4. CASE Crash
  BY <1>4, NoFrameType, PaymentsAssumption, FewerRequests, SameRowsForward
     DEF Crash, NoFrame, IInv, TypeOK
<1>5. CASE UNCHANGED vars
  BY <1>5, FewerRequests, SameRowsForward DEF vars, IInv, TypeOK
<1> QED BY <1>1, <1>2, <1>3, <1>4, <1>5, ConfirmNewStep, ConfirmKnownStep, CancelStep,
           TriesStep, CancelWrites DEF Next

----------------------------------------------------------------------------

\* The table never says more of a payment than the provider did, for any number
\* of requests, tries and crashes (payments.py writes the row after the answer).
THEOREM TableAgrees == Spec => []ProviderAgrees
<1>1. IInv => ProviderAgrees
  BY DEF IInv
<1> QED BY <1>1, InitIInv, NextStep, PTL DEF Spec

\* One call per order is acted on, however many requests confirm it
\* (payments.py:52 inserts the row before the provider is asked).
THEOREM OneCallPerOrder == Spec => []OneCallCharges
<1>1. IInv => OneCallCharges
  <2> SUFFICES ASSUME IInv, NEW o \in Orders, NEW k \in Keys, NEW l \in Keys
               PROVE  /\ charges[o][k] <= Attempts
                      /\ charges[o][k] > 0 /\ charges[o][l] > 0 => k = l
    BY DEF OneCallCharges
  <2> QED BY DEF IInv, RowsKnown
<1> QED BY <1>1, InitIInv, NextStep, PTL DEF Spec

\* A row keeps what it was made with and moves forward only, although requests
\* wait for the provider between reading and writing it.
THEOREM RowsSettle == Spec => Settled
  BY InitIInv, NextStep, PTL DEF Spec, Settled

----------------------------------------------------------------------------
(* The circuit breaker of a host (services/httpx_retry.py), which makes as *)
(* many attempts as the payment module counts on.                          *)

CONSTANTS Callers, Threshold, Cooldown
VARIABLES failures, opened, age, up, call, clients

Http == INSTANCE MCCircuitBreaker

\* Where the one caller is, the circuit and the counter are as it left them.
InStep(h) ==
  /\ call[h].at = "elapsed" => opened
  /\ call[h].at \in {"send", "answered", "failed", "opening"} => ~opened
  /\ ~opened /\ call[h].at # "opening" => failures < Threshold
  /\ call[h].at = "opening" => failures = Threshold
  /\ call[h].trial => call[h].at \in {"send", "answered", "failed", "opening"}

BreakerTypes ==
  /\ clients \in SUBSET Callers \ {{}}
  /\ failures \in Nat /\ opened \in BOOLEAN
  /\ call \in [Callers -> Http!Frame]
  /\ \A h \in Callers : call[h].at \in {"check", "elapsed", "send"} => call[h].tries < Attempts
  /\ \A h \in Callers \ clients : call[h] = Http!NoCall

LEMMA NoCallFrame == /\ Http!NoCall \in Http!Frame
                     /\ Http!NoCall.at = "idle" /\ Http!NoCall.tries = 0
                     /\ Http!NoCall.trial = FALSE
  BY PaymentsAssumption DEF Http!NoCall, Http!Frame

LEMMA AtOne ==
  \A c \in Callers : BreakerTypes /\ clients = {c} =>
     /\ Http!At({"answered"}) = (call[c].at = "answered")
     /\ Http!At({"failed"}) = (call[c].at = "failed")
     /\ Http!Trying = (call[c].trial /\ call[c].at = "send")
<1> SUFFICES ASSUME NEW c \in Callers, BreakerTypes, clients = {c}
             PROVE  /\ Http!At({"answered"}) = (call[c].at = "answered")
                    /\ Http!At({"failed"}) = (call[c].at = "failed")
                    /\ Http!Trying = (call[c].trial /\ call[c].at = "send")
  OBVIOUS
<1>1. \A h \in Callers \ {c} : call[h].at = "idle" /\ call[h].trial = FALSE
  BY NoCallFrame DEF BreakerTypes
<1>2. call[c].trial \in BOOLEAN
  BY DEF BreakerTypes, Http!Frame
<1> QED BY <1>1, <1>2 DEF Http!At, Http!Trying

\* What BreakerSpec sees of the breaker of caller c.
Seen(c) == IF opened THEN Threshold
           ELSE IF call[c].at = "answered" THEN 0
           ELSE IF call[c].at = "failed" THEN failures + 1 ELSE failures
Tries(c) == call[c].trial /\ call[c].at = "send"

LEMMA SeenIs ==
  \A c \in Callers : BreakerTypes /\ clients = {c} =>
     Http!Streak = Seen(c) /\ Http!Trying = Tries(c)
BY AtOne DEF Http!Streak, Seen, Tries

\* What a step of the one caller does, as BreakerSpec tells it.
Promised(c) ==
  \/ Seen(c)' = 0 /\ Tries(c)' = FALSE
  \/ Seen(c) < Threshold /\ Seen(c)' = Seen(c) + 1 /\ Tries(c)' = FALSE
  \/ Seen(c) = Threshold /\ Seen(c)' = Threshold - 1 /\ Tries(c)' = TRUE
  \/ Tries(c) /\ Tries(c)' = FALSE /\ Seen(c)' = Seen(c)
  \/ Seen(c)' = Seen(c) /\ Tries(c)' = Tries(c)

LEMMA TypesKept ==
  ASSUME Http!BreakerAssumption, BreakerTypes, Http!MCNext
  PROVE  BreakerTypes'
<1>1. clients' = clients
  BY DEF Http!MCNext
<1>2. CASE Http!Tick \/ Http!HostChanges
  BY <1>1, <1>2 DEF Http!Tick, Http!HostChanges, BreakerTypes
<1>3. ASSUME NEW h \in Callers, Http!Request(h) \/ Http!CallStep(h), h \in clients
      PROVE  BreakerTypes'
  <2>1. call[h] \in Http!Frame
    BY DEF BreakerTypes
  <2>2. \A to \in {"check", "elapsed", "send", "answered", "failed", "opening"} :
          [call[h] EXCEPT !.at = to] \in Http!Frame
    BY <2>1 DEF Http!Frame
  <2>3. /\ call' \in [Callers -> Http!Frame] /\ \A g \in Callers \ {h} : call'[g] = call[g]
        /\ call'[h].at \in {"check", "elapsed", "send"} => call'[h].tries < Attempts
    <3>1. CASE Http!Request(h)
      <4>1. [Http!NoCall EXCEPT !.at = "check"] \in Http!Frame
        BY NoCallFrame DEF Http!Frame
      <4>2. [Http!NoCall EXCEPT !.at = "check"].tries = 0
        BY DEF Http!NoCall
      <4> QED BY <3>1, <4>1, <4>2, PaymentsAssumption
                 DEF Http!Request, BreakerTypes
    <3>2. ASSUME NEW to \in {"check", "elapsed", "send", "answered", "opening"},
                 Http!Goes(h, to),
                 to \in {"check", "elapsed", "send"} => call[h].tries < Attempts
          PROVE  /\ call' \in [Callers -> Http!Frame]
                 /\ \A g \in Callers \ {h} : call'[g] = call[g]
                 /\ call'[h].at \in {"check", "elapsed", "send"} => call'[h].tries < Attempts
      BY <3>2, <2>1, <2>2 DEF Http!Goes, BreakerTypes, Http!Frame
    <3>3. Http!Ends(h) =>
            /\ call' \in [Callers -> Http!Frame]
            /\ \A g \in Callers \ {h} : call'[g] = call[g]
            /\ call'[h].at = "idle"
      BY NoCallFrame DEF Http!Ends, BreakerTypes
    <3>4. CASE Http!Check(h) \/ Http!Answer(h) \/ Http!RecordFailure(h)
      BY <3>2, <3>3, <3>4
         DEF Http!Check, Http!Answer, Http!RecordFailure, BreakerTypes
    <3>5. CASE \/ Http!Refuse(h) \/ Http!ReadsNone(h) \/ Http!Passes(h)
               \/ Http!RecordSuccess(h) \/ Http!Open(h)
      BY <3>3, <3>5
         DEF Http!Refuse, Http!ReadsNone, Http!Passes, Http!RecordSuccess,
             Http!Open
    <3>6. CASE Http!HalfOpen(h)
      BY <3>6, <2>1 DEF Http!HalfOpen, BreakerTypes, Http!Frame
    <3>7. CASE Http!Retry(h)
      <4> DEFINE n == call[h].tries + 1
                 to == IF n < Attempts THEN "send" ELSE "failed"
                 f == [call[h] EXCEPT !.tries = n, !.at = to]
      <4>1. n \in 0..Attempts
        BY <2>1, <3>7, PaymentsAssumption
           DEF Http!Retry, BreakerTypes, Http!Frame
      <4>2. to \in {"send", "failed"} /\ (to = "send" => n < Attempts)
        OBVIOUS
      <4>3. call' = [call EXCEPT ![h] = f]
        BY <3>7 DEF Http!Retry, BreakerTypes
      <4> HIDE DEF n, to
      <4>4. f \in Http!Frame /\ f.at = to /\ f.tries = n
        BY <2>1, <4>1, <4>2 DEF Http!Frame
      <4> HIDE DEF f
      <4> QED BY <4>2, <4>3, <4>4 DEF BreakerTypes
    <3> QED BY <1>3, <3>1, <3>4, <3>5, <3>6, <3>7 DEF Http!CallStep
  <2>4. failures' \in Nat /\ opened' \in BOOLEAN
    <3>1. \/ failures' = failures \/ failures' = failures + 1
          \/ failures' = Threshold - 1 \/ failures' = 0
      BY <1>3
         DEF Http!CallStep, Http!Request, Http!Check, Http!Refuse,
             Http!HalfOpen, Http!ReadsNone, Http!Answer, Http!Retry,
             Http!Passes, Http!RecordSuccess, Http!RecordFailure, Http!Open
    <3>2. opened' = opened \/ opened' = TRUE \/ opened' = FALSE
      BY <1>3
         DEF Http!CallStep, Http!Request, Http!Check, Http!Refuse,
             Http!HalfOpen, Http!ReadsNone, Http!Answer, Http!Retry,
             Http!Passes, Http!RecordSuccess, Http!RecordFailure, Http!Open
    <3>3. failures' \in Nat
      BY <3>1 DEF Http!BreakerAssumption, BreakerTypes
    <3> QED BY <3>2, <3>3 DEF BreakerTypes
  <2> QED BY <1>1, <1>3, <2>3, <2>4 DEF BreakerTypes
<1>4. ASSUME NEW h \in Callers, Http!CallStep(h), h \notin clients PROVE FALSE
  BY <1>4, NoCallFrame
     DEF BreakerTypes, Http!CallStep, Http!Check, Http!Refuse, Http!HalfOpen,
         Http!ReadsNone, Http!Answer, Http!Retry, Http!Passes,
         Http!RecordSuccess, Http!RecordFailure, Http!Open
<1> QED BY <1>2, <1>3, <1>4 DEF Http!MCNext, Http!Next

LEMMA CallerStep ==
  ASSUME Http!BreakerAssumption, BreakerTypes, BreakerTypes',
         NEW c \in Callers, clients = {c}, InStep(c), Http!MCNext
  PROVE  InStep(c)' /\ Promised(c)
<1>1. call[c] \in Http!Frame /\ failures \in Nat /\ opened \in BOOLEAN /\ Threshold \in Nat \ {0}
  BY DEF Http!BreakerAssumption, BreakerTypes
<1>2. CASE Http!Tick \/ Http!HostChanges
  BY <1>2 DEF Http!Tick, Http!HostChanges, InStep, Promised, Seen, Tries
<1>3. CASE Http!Request(c)
  <2>1. call'[c].at = "check" /\ call'[c].trial = FALSE
    BY <1>3, <1>1, NoCallFrame DEF Http!Request, BreakerTypes, Http!NoCall
  <2> QED BY <1>1, <1>3, <2>1 DEF Http!Request, InStep, Promised, Seen, Tries
<1>4. ASSUME NEW to, Http!Goes(c, to) PROVE call'[c].at = to /\ call'[c].trial = call[c].trial
  BY <1>1, <1>4 DEF Http!Goes, BreakerTypes, Http!Frame
<1>5. Http!Ends(c) => call'[c].at = "idle" /\ call'[c].trial = FALSE
  BY NoCallFrame DEF Http!Ends, BreakerTypes
<1>6. CASE Http!Check(c)
  BY <1>1, <1>4, <1>6 DEF Http!Check, InStep, Promised, Seen, Tries
<1>7. CASE Http!Answer(c)
  BY <1>1, <1>4, <1>7 DEF Http!Answer, InStep, Promised, Seen, Tries
<1>8. CASE Http!HalfOpen(c)
  <2>1. call'[c].at = "send" /\ call'[c].trial = TRUE
    BY <1>1, <1>8 DEF Http!HalfOpen, BreakerTypes, Http!Frame
  <2> QED BY <1>1, <1>8, <2>1 DEF Http!HalfOpen, InStep, Promised, Seen, Tries
<1>9. CASE Http!Retry(c)
  <2>1. call'[c].at \in {"send", "failed"} /\ call'[c].trial = call[c].trial
    BY <1>1, <1>9 DEF Http!Retry, BreakerTypes, Http!Frame
  <2> QED BY <1>1, <1>9, <2>1 DEF Http!Retry, InStep, Promised, Seen, Tries
<1>10. CASE Http!Refuse(c) \/ Http!ReadsNone(c) \/ Http!Passes(c)
  BY <1>1, <1>5, <1>10
     DEF Http!Refuse, Http!ReadsNone, Http!Passes, InStep, Promised, Seen,
         Tries
<1>11. CASE Http!RecordSuccess(c)
  BY <1>1, <1>5, <1>11 DEF Http!RecordSuccess, InStep, Promised, Seen, Tries
<1>12. CASE Http!RecordFailure(c)
  BY <1>1, <1>4, <1>5, <1>12
     DEF Http!RecordFailure, InStep, Promised, Seen, Tries
<1>13. CASE Http!Open(c)
  BY <1>1, <1>5, <1>13 DEF Http!Open, InStep, Promised, Seen, Tries
<1>14. ASSUME NEW h \in Callers, h # c, Http!Request(h) \/ Http!CallStep(h) PROVE FALSE
  BY <1>14, NoCallFrame
     DEF BreakerTypes, Http!MCNext, Http!CallStep, Http!Check, Http!Refuse,
         Http!HalfOpen, Http!ReadsNone, Http!Answer, Http!Retry, Http!Passes,
         Http!RecordSuccess, Http!RecordFailure, Http!Open
<1> QED BY <1>2, <1>3, <1>6, <1>7, <1>8, <1>9, <1>10, <1>11, <1>12, <1>13,
           <1>14
           DEF Http!MCNext, Http!Next, Http!CallStep

BreakerInv == BreakerTypes /\ \A c \in Callers : clients = {c} => InStep(c)

\* The breaker of a host that one thread calls is BreakerSpec's: it opens after
\* Threshold consecutive failures and lets one trial through when the cooldown
\* is over, for any threshold, cooldown and number of attempts.
THEOREM BreakerKeepsPromise ==
  ASSUME Http!BreakerAssumption
  PROVE  Http!MCSpec => Http!AloneImplementsBreaker
<1> DEFINE Abstract == <<IF Http!Alone THEN Http!Streak ELSE 0, Http!Alone /\ Http!Trying>>
<1>1. Http!MCInit => BreakerInv
  <2>1. SUFFICES ASSUME Http!MCInit PROVE BreakerInv
    OBVIOUS
  <2>2. failures = 0 /\ opened = FALSE /\ clients \in SUBSET Callers \ {{}}
        /\ call = [h \in Callers |-> Http!NoCall]
    BY <2>1 DEF Http!MCInit, Http!Init
  <2>3. BreakerTypes
    BY <2>2, NoCallFrame DEF BreakerTypes
  <2>4. ASSUME NEW c \in Callers PROVE InStep(c)
    BY <2>2, NoCallFrame DEF Http!BreakerAssumption, InStep
  <2> QED BY <2>3, <2>4 DEF BreakerInv
<1>2. BreakerInv /\ [Http!MCNext]_<<Http!vars, clients>> => BreakerInv'
  <2>1. SUFFICES ASSUME BreakerInv, [Http!MCNext]_<<Http!vars, clients>> PROVE BreakerInv'
    OBVIOUS
  <2>2. CASE Http!MCNext
    BY <2>1, <2>2, TypesKept, CallerStep DEF BreakerInv, Http!MCNext
  <2>3. CASE UNCHANGED <<Http!vars, clients>>
    BY <2>3, <2>1 DEF Http!vars, BreakerInv, BreakerTypes, InStep
  <2> QED BY <2>1, <2>2, <2>3
<1>3. Http!MCInit => Http!AloneBreaker!Init
  <2>1. SUFFICES ASSUME Http!MCInit PROVE Http!AloneBreaker!Init
    OBVIOUS
  <2>2. BreakerInv
    BY <1>1, <2>1
  <2>3. CASE Http!Alone
    <3>1. PICK c \in Callers : clients = {c}
      BY <2>3 DEF Http!Alone
    <3>2. Http!Streak = Seen(c) /\ Http!Trying = Tries(c)
      BY <2>2, <3>1, SeenIs DEF BreakerInv
    <3>3. Seen(c) = 0 /\ Tries(c) = FALSE
      BY <2>1, NoCallFrame DEF Http!MCInit, Http!Init, Seen, Tries
    <3> QED BY <2>3, <3>2, <3>3 DEF Http!AloneBreaker!Init
  <2>4. CASE ~Http!Alone
    BY <2>4 DEF Http!AloneBreaker!Init
  <2> QED BY <2>3, <2>4
<1>4. (\A c \in Callers : BreakerTypes /\ clients = {c} =>
         Http!Streak = Seen(c) /\ Http!Trying = Tries(c))'
  BY SeenIs, PTL
<1>5. BreakerInv /\ BreakerInv' /\ [Http!MCNext]_<<Http!vars, clients>> =>
        [Http!AloneBreaker!Next]_Abstract
  <2>1. SUFFICES ASSUME BreakerInv, BreakerInv', Http!MCNext, Http!Alone
                 PROVE  [Http!AloneBreaker!Next]_Abstract
    <3>1. clients' = clients => Http!Alone' = Http!Alone
      BY DEF Http!Alone
    <3>2. CASE ~Http!Alone /\ clients' = clients
      BY <3>1, <3>2
    <3>3. CASE UNCHANGED <<Http!vars, clients>>
      <4>1. Http!Streak' = Http!Streak /\ Http!Trying' = Http!Trying
        BY <3>3 DEF Http!vars, Http!Streak, Http!Trying, Http!At
      <4> QED BY <3>1, <3>3, <4>1
    <3> QED BY <3>2, <3>3 DEF Http!MCNext
  <2>2. clients' = clients /\ Http!Alone' = Http!Alone
    BY <2>1 DEF Http!MCNext, Http!Alone
  <2>3. PICK c \in Callers : clients = {c}
    BY <2>1 DEF Http!Alone
  <2>4. /\ Http!Streak = Seen(c) /\ Http!Trying = Tries(c)
        /\ Http!Streak' = Seen(c)' /\ Http!Trying' = Tries(c)'
    BY <2>1, <2>2, <2>3, <1>4, SeenIs DEF BreakerInv
  <2>5. Promised(c)
    BY <2>1, <2>3, CallerStep DEF BreakerInv
  <2> QED BY <2>1, <2>2, <2>4, <2>5
             DEF Promised, Http!AloneBreaker!Next, Http!AloneBreaker!Answered,
                 Http!AloneBreaker!Failed, Http!AloneBreaker!HalfOpen,
                 Http!AloneBreaker!TrialLost
<1> QED BY <1>1, <1>2, <1>3, <1>5, PTL
           DEF Http!MCSpec, Http!AloneImplementsBreaker, Http!AloneBreaker!Spec
=============================================================================
