--------------------------- MODULE CircuitBreaker ---------------------------
(***************************************************************************)
(* Retry and circuit breaker for calls to one external host                *)
(* (services/httpx_retry.py), used by threads at once and without a lock.  *)
(*                                                                         *)
(* CPython 3.12, the interpreter of the platform's image, switches threads *)
(* at calls and returns: the code between two calls is one step here.      *)
(* Time is the age of the open circuit, which is all the code compares.    *)
(***************************************************************************)
EXTENDS Naturals, FiniteSets

CONSTANTS
    Callers,        \* threads that call the host
    Threshold,      \* FAILURE_THRESHOLD
    Attempts,       \* MAX_ATTEMPTS
    Cooldown        \* COOLDOWN_SECONDS, in ticks

ASSUME BreakerAssumption ==
    /\ Threshold \in Nat \ {0} /\ Attempts \in Nat \ {0} /\ Cooldown \in Nat \ {0}

VARIABLES
    failures,       \* _Breaker.failures
    opened,         \* _Breaker.opened_at is not None
    age,            \* time.monotonic() - opened_at, up to Cooldown
    up,             \* the host answers
    call            \* [caller -> the frame of its request]

vars == <<failures, opened, age, up, call>>

\* trial: this request found the cooldown over.
Frame == [at : {"idle", "check", "elapsed", "send", "answered", "failed", "opening"},
          tries : 0..Attempts, trial : BOOLEAN]
NoCall == [at |-> "idle", tries |-> 0, trial |-> FALSE]

\* The counter passes the threshold by no more than the requests that were
\* under way when the circuit opened.
TypeOK ==
    /\ failures \in 0..(Threshold + Cardinality(Callers))
    /\ opened \in BOOLEAN
    /\ age \in 0..Cooldown
    /\ up \in BOOLEAN
    /\ call \in [Callers -> Frame]

Init ==
    /\ failures = 0 /\ opened = FALSE /\ age = 0
    /\ up = TRUE
    /\ call = [h \in Callers |-> NoCall]

Goes(h, to) == call' = [call EXCEPT ![h].at = to]
Ends(h) == call' = [call EXCEPT ![h] = NoCall]

----------------------------------------------------------------------------

Request(h) ==
    /\ call[h].at = "idle"
    /\ call' = [call EXCEPT ![h] = [NoCall EXCEPT !.at = "check"]]
    /\ UNCHANGED <<failures, opened, age, up>>

\* _check_open: a circuit that is not open lets the request through.
Check(h) ==
    /\ call[h].at = "check"
    /\ Goes(h, IF opened THEN "elapsed" ELSE "send")
    /\ UNCHANGED <<failures, opened, age, up>>

\* CircuitOpenError; mutant: it renews the cooldown.
RefuseExtends(h) ==
    /\ call[h].at = "elapsed" /\ opened /\ age < Cooldown
    /\ age' = 0
    /\ Ends(h)
    /\ UNCHANGED <<failures, opened, up>>
Refuse(h) ==
    /\ call[h].at = "elapsed" /\ opened /\ age < Cooldown
    /\ Ends(h)
    /\ UNCHANGED <<failures, opened, age, up>>

\* The cooldown is over: this request may try.
HalfOpen(h) ==
    /\ call[h].at = "elapsed" /\ opened /\ age = Cooldown
    /\ opened' = FALSE /\ failures' = Threshold - 1
    /\ call' = [call EXCEPT ![h].at = "send", ![h].trial = TRUE]
    /\ UNCHANGED <<age, up>>

\* opened_at was a number when it was tested and is None when it is subtracted:
\* the request ends in a TypeError.
ReadsNone(h) ==
    /\ call[h].at = "elapsed" /\ ~opened
    /\ Ends(h)
    /\ UNCHANGED <<failures, opened, age, up>>

\* The host answers, with whatever status.
Answer(h) ==
    /\ call[h].at = "send" /\ up
    /\ Goes(h, "answered")
    /\ UNCHANGED <<failures, opened, age, up>>

\* A network error; the last attempt is not retried.
Retry(h) ==
    /\ call[h].at = "send" /\ ~up
    /\ call' = [call EXCEPT ![h].tries = @ + 1,
                           ![h].at = IF call[h].tries + 1 < Attempts THEN "send" ELSE "failed"]
    /\ UNCHANGED <<failures, opened, age, up>>

\* Any other exception passes the breaker by.
Passes(h) ==
    /\ call[h].at = "send"
    /\ Ends(h)
    /\ UNCHANGED <<failures, opened, age, up>>

\* _record_success; mutant: it leaves the counter.
RecordSuccessPartly(h) ==
    /\ call[h].at = "answered"
    /\ opened' = FALSE
    /\ Ends(h)
    /\ UNCHANGED <<failures, age, up>>
RecordSuccess(h) ==
    /\ call[h].at = "answered"
    /\ failures' = 0 /\ opened' = FALSE
    /\ Ends(h)
    /\ UNCHANGED <<age, up>>

\* _record_failure, up to the call that reads the clock, and after it; mutant:
\* the error is raised before it is counted.
RaiseUncounted(h) ==
    /\ call[h].at = "failed"
    /\ Ends(h)
    /\ UNCHANGED <<failures, opened, age, up>>
RecordFailure(h) ==
    /\ call[h].at = "failed"
    /\ failures' = failures + 1
    /\ IF failures' >= Threshold THEN Goes(h, "opening") ELSE Ends(h)
    /\ UNCHANGED <<opened, age, up>>
Open(h) ==
    /\ call[h].at = "opening"
    /\ opened' = TRUE /\ age' = 0
    /\ Ends(h)
    /\ UNCHANGED <<failures, up>>

Tick ==
    /\ opened /\ age < Cooldown
    /\ age' = age + 1
    /\ UNCHANGED <<failures, opened, up, call>>

HostChanges ==
    /\ up' = ~up
    /\ UNCHANGED <<failures, opened, age, call>>

CallStep(h) ==
    \/ Check(h) \/ Refuse(h) \/ HalfOpen(h) \/ ReadsNone(h)
    \/ Answer(h) \/ Retry(h) \/ Passes(h)
    \/ RecordSuccess(h) \/ RecordFailure(h) \/ Open(h)

Next ==
    \/ \E h \in Callers : Request(h) \/ CallStep(h)
    \/ Tick
    \/ HostChanges

Spec == Init /\ [][Next]_vars

\* Threads run and time passes; nobody has to call, hosts need not change.
Fairness == WF_vars(Tick) /\ \A h \in Callers : WF_vars(CallStep(h))
FairSpec == Spec /\ Fairness

----------------------------------------------------------------------------
(* Properties.                                                             *)

\* Called by one thread, the breaker counts consecutive failures, opens at the
\* threshold and lets one trial through as BreakerSpec says.  A request counts
\* when the host has answered or its last attempt failed, before it is recorded.
At(places) == \E h \in Callers : call[h].at \in places
Streak == IF opened THEN Threshold
          ELSE IF At({"answered"}) THEN 0
          ELSE IF At({"failed"}) THEN failures + 1 ELSE failures
Trying == \E h \in Callers : call[h].trial /\ call[h].at = "send"
Breaker == INSTANCE BreakerSpec WITH streak <- Streak, trial <- Trying
ImplementsBreaker == Breaker!Spec

\* When the host answers again for good and requests keep coming, the circuit
\* is closed in the end and stays so, whatever races the counter lost before.
Recovers ==
    <>[]up /\ []<>(\E h \in Callers : call[h].at = "check") => <>[]~opened

\* When the host is gone for good, requests that keep failing find the circuit
\* open again and again: a trial never reopens traffic for long.
CutsOff ==
    <>[]~up /\ []<>(\E h \in Callers : call[h].at = "failed") => []<>opened
=============================================================================
