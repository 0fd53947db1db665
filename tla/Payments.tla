------------------------------ MODULE Payments ------------------------------
(***************************************************************************)
(* The payment module (api/payments.py, services/toss.py): confirming and  *)
(* cancelling payments at a provider whose answers may be lost.            *)
(*                                                                         *)
(* The handlers are coroutines of one event loop, so what they do between  *)
(* two awaits is one step; the call of the provider is awaited in a thread *)
(* and takes up to Attempts tries (services/httpx_retry.py).               *)
(***************************************************************************)
EXTENDS Naturals, FiniteSets

CONSTANTS
    Requests,       \* HTTP requests the platform serves at the same time
    Orders, Keys, Amounts,
    NoKey,          \* the payment_key of an order without a row
    Attempts,       \* MAX_ATTEMPTS of httpx_retry
    Faults,         \* what may go wrong with a call in this instance
    MaxRequests,    \* bound of the model: requests ever made
    MaxCrashes      \* bound of the model: times the platform dies

ASSUME PaymentsAssumption ==
    /\ NoKey \notin Keys
    /\ Amounts \subseteq Nat
    /\ Attempts \in Nat \ {0} /\ MaxRequests \in Nat /\ MaxCrashes \in Nat

VARIABLES
    row,            \* [order -> its row of table payments]
    req,            \* [request -> its frame]
    charges,        \* provider: [order -> [key -> times the payment was taken]]
    refunded,       \* provider: keys whose payment was given back
    issued, crashes

vars == <<row, req, charges, refunded, issued, crashes>>

Statuses == {"none", "ready", "confirmed", "canceled", "failed"}
Row == [status : Statuses, key : Keys \cup {NoKey}, amount : Amounts \cup {0}]
NoRow == [status |-> "none", key |-> NoKey, amount |-> 0]

\* reply: the answer the last request of this frame got.
Frame == [at : {"idle", "post", "answered", "refused"},
          kind : {"confirm", "cancel"}, order : Orders \cup {NoKey},
          key : Keys \cup {NoKey}, amount : Amounts \cup {0},
          tries : 0..Attempts, reply : {"none", "ok", "conflict", "error"}]
NoFrame == [at |-> "idle", kind |-> "confirm", order |-> NoKey, key |-> NoKey,
            amount |-> 0, tries |-> 0, reply |-> "none"]

TypeOK ==
    /\ row \in [Orders -> Row]
    /\ req \in [Requests -> Frame]
    /\ charges \in [Orders -> [Keys -> Nat]]
    /\ refunded \subseteq Keys
    /\ issued \in 0..MaxRequests
    /\ crashes \in 0..MaxCrashes

Init ==
    /\ row = [o \in Orders |-> NoRow]
    /\ req = [r \in Requests |-> NoFrame]
    /\ charges = [o \in Orders |-> [k \in Keys |-> 0]]
    /\ refunded = {}
    /\ issued = 0
    /\ crashes = 0

\* The request is answered.
Ends(r, reply) == req' = [req EXCEPT ![r].at = "idle", ![r].tries = 0, ![r].reply = reply]
Confirm(o, k, a, at, reply) ==
    [NoFrame EXCEPT !.at = at, !.order = o, !.key = k, !.amount = a, !.reply = reply]
Issue(r) ==
    /\ req[r].at = "idle"
    /\ issued < MaxRequests
    /\ issued' = issued + 1

----------------------------------------------------------------------------
(* confirm_payment                                                         *)

\* The order has no row: it gets one before the provider is asked.
ConfirmNew(r, o, k, a) ==
    /\ Issue(r)
    /\ row[o].status = "none"
    /\ row' = [row EXCEPT ![o] = [status |-> "ready", key |-> k, amount |-> a]]
    /\ req' = [req EXCEPT ![r] = Confirm(o, k, a, "post", "none")]
    /\ UNCHANGED <<charges, refunded, crashes>>

\* Mutant: a payment still in ready is taken up again.
ConfirmAgain(r, o, k, a) ==
    /\ Issue(r)
    /\ row[o].status # "none"
    /\ LET same == row[o].key = k /\ row[o].amount = a
           at == IF same /\ row[o].status = "ready" THEN "post" ELSE "idle"
           reply == IF at = "post" THEN "none"
                    ELSE IF same /\ row[o].status = "confirmed" THEN "ok" ELSE "conflict" IN
       req' = [req EXCEPT ![r] = Confirm(o, k, a, at, reply)]
    /\ UNCHANGED <<row, charges, refunded, crashes>>

\* The order is known: a repeated confirmation gets the recorded payment,
\* anything else 409.
ConfirmKnown(r, o, k, a) ==
    /\ Issue(r)
    /\ row[o].status # "none"
    /\ LET same == row[o] = [status |-> "confirmed", key |-> k, amount |-> a] IN
       req' = [req EXCEPT ![r] = Confirm(o, k, a, "idle", IF same THEN "ok" ELSE "conflict")]
    /\ UNCHANGED <<row, charges, refunded, crashes>>

----------------------------------------------------------------------------
(* cancel_payment                                                          *)

RowsOf(k) == {o \in Orders : row[o].key = k}

\* Mutant: the status is not looked at.
CancelAny(r, k) ==
    /\ Issue(r)
    /\ \E o \in Orders :
          /\ RowsOf(k) = {o}
          /\ req' = [req EXCEPT ![r] = [Confirm(o, k, 0, "post", "none") EXCEPT !.kind = "cancel"]]
    /\ UNCHANGED <<row, charges, refunded, crashes>>

\* A confirmed payment; with no row, several rows of one key, or another
\* status the request is refused and changes nothing.
Cancel(r, k) ==
    /\ Issue(r)
    /\ \E o \in Orders :
          /\ RowsOf(k) = {o} /\ row[o].status = "confirmed"
          /\ req' = [req EXCEPT ![r] = [Confirm(o, k, 0, "post", "none") EXCEPT !.kind = "cancel"]]
    /\ UNCHANGED <<row, charges, refunded, crashes>>

----------------------------------------------------------------------------
(* The provider and the way to it (toss._post, post_with_retry).           *)

\* The provider does what request r asks; it may do a confirmation twice.
Executed(r) ==
    IF req[r].kind = "confirm"
    THEN /\ charges' = [charges EXCEPT ![req[r].order][req[r].key] = @ + 1]
         /\ UNCHANGED refunded
    ELSE /\ charges[req[r].order][req[r].key] > 0 /\ req[r].key \notin refunded
         /\ refunded' = refunded \cup {req[r].key}
         /\ UNCHANGED charges
Untouched == UNCHANGED <<charges, refunded>>

\* The answer arrives: done, or a status of 400 and more.
Answered(r) ==
    /\ req[r].at = "post"
    /\ \/ Executed(r) /\ req' = [req EXCEPT ![r].at = "answered"]
       \/ Untouched /\ req' = [req EXCEPT ![r].at = "refused"]
    /\ UNCHANGED <<row, issued, crashes>>

\* A network error, after the last try an exception that is not a TossError.
Fails(r) ==
    IF req[r].tries + 1 < Attempts THEN req' = [req EXCEPT ![r].tries = @ + 1]
    ELSE Ends(r, "error")

\* The provider is not reached.
Unreachable(r) ==
    /\ "unreachable" \in Faults
    /\ req[r].at = "post"
    /\ Untouched
    /\ Fails(r)
    /\ UNCHANGED <<row, issued, crashes>>

\* ReadTimeout: the provider has the request, its answer does not come.
ReadTimeout(r) ==
    /\ "timeout" \in Faults
    /\ req[r].at = "post"
    /\ Executed(r) \/ Untouched
    /\ Fails(r)
    /\ UNCHANGED <<row, issued, crashes>>

\* An exception that is not retried, or an open circuit: the request ends in
\* an error of the platform, and the row stays as it is.
Raises(r) ==
    /\ "raise" \in Faults
    /\ req[r].at = "post"
    /\ Executed(r) \/ Untouched
    /\ Ends(r, "error")
    /\ UNCHANGED <<row, issued, crashes>>

----------------------------------------------------------------------------
(* What the handlers do with the answer.                                   *)

Writes(r, status, reply) ==
    /\ row' = [row EXCEPT ![req[r].order].status = status]
    /\ Ends(r, reply)
    /\ UNCHANGED <<charges, refunded, issued, crashes>>

Confirmed(r) == req[r].at = "answered" /\ req[r].kind = "confirm" /\ Writes(r, "confirmed", "ok")
Canceled(r) == req[r].at = "answered" /\ req[r].kind = "cancel" /\ Writes(r, "canceled", "ok")

\* TossError; mutant: the status of the answer is not looked at.
ConfirmRefused(r) ==
    req[r].at = "refused" /\ req[r].kind = "confirm" /\ Writes(r, "failed", "error")
CancelRefusedUnseen(r) ==
    req[r].at = "refused" /\ req[r].kind = "cancel" /\ Writes(r, "canceled", "ok")
CancelRefused(r) ==
    /\ req[r].at = "refused" /\ req[r].kind = "cancel"
    /\ Ends(r, "error")
    /\ UNCHANGED <<row, charges, refunded, issued, crashes>>

\* The platform dies: requests are gone, the table and the provider are not.
Crash ==
    /\ crashes < MaxCrashes
    /\ crashes' = crashes + 1
    /\ req' = [r \in Requests |-> NoFrame]
    /\ UNCHANGED <<row, charges, refunded, issued>>

Next ==
    \/ \E r \in Requests, o \in Orders, k \in Keys, a \in Amounts :
          ConfirmNew(r, o, k, a) \/ ConfirmKnown(r, o, k, a)
    \/ \E r \in Requests, k \in Keys : Cancel(r, k)
    \/ \E r \in Requests :
          \/ Answered(r) \/ Unreachable(r) \/ ReadTimeout(r) \/ Raises(r)
          \/ Confirmed(r) \/ Canceled(r) \/ ConfirmRefused(r) \/ CancelRefused(r)
    \/ Crash

Spec == Init /\ [][Next]_vars

----------------------------------------------------------------------------
(* Properties.                                                             *)

\* A payment recorded as confirmed, or cancelled after that, was taken by the
\* provider with the key in the row, and one recorded as cancelled was given
\* back, although the rows are written after the provider's answers and a crash
\* comes between.
ProviderAgrees ==
    \A o \in Orders :
        /\ row[o].status \in {"confirmed", "canceled"} => charges[o][row[o].key] > 0
        /\ row[o].status = "canceled" => row[o].key \in refunded

\* However many requests confirm an order, with one key or several, and
\* whenever the platform dies, the provider acts on one call only; that call's
\* own retries are all it can execute.
OneCallCharges ==
    \A o \in Orders, k, l \in Keys :
        /\ charges[o][k] <= Attempts
        /\ charges[o][k] > 0 /\ charges[o][l] > 0 => k = l

\* What an order was recorded with stays, and its status only ever goes from
\* ready to confirmed or failed, and from confirmed to canceled, although
\* requests for one order overlap while they wait for the provider.
Forward ==
    \A o \in Orders :
        row[o].status # "none" =>
            /\ row'[o].key = row[o].key /\ row'[o].amount = row[o].amount
            /\ <<row[o].status, row'[o].status>> \in
                   {<<s, s>> : s \in Statuses} \cup
                   {<<"ready", "confirmed">>, <<"ready", "failed">>,
                    <<"confirmed", "canceled">>}
Settled == [][Forward]_vars

\* What httpx_retry.py and the README say of the retry: it never makes the
\* provider execute a confirmation twice.
ChargedOnce == \A o \in Orders, k \in Keys : charges[o][k] <= 1
=============================================================================
