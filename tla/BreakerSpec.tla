---------------------------- MODULE BreakerSpec ----------------------------
(***************************************************************************)
(* What the circuit breaker of services/httpx_retry.py promises for one    *)
(* host: after Threshold consecutive failures it is open; an open circuit  *)
(* lets one trial through, which closes it or opens it again.              *)
(***************************************************************************)
EXTENDS Naturals

CONSTANT Threshold

VARIABLES
    streak,     \* consecutive failures, at most Threshold: then it is open
    trial       \* the trial an open circuit has let through is under way

Init == streak = 0 /\ trial = FALSE

\* An answer, whatever its status, closes the circuit.
Answered == streak' = 0 /\ trial' = FALSE

\* A request all of whose attempts failed.
Failed ==
    /\ streak < Threshold
    /\ streak' = streak + 1
    /\ trial' = FALSE

\* The cooldown is over: one request may try, one failure opens again.
HalfOpen ==
    /\ streak = Threshold
    /\ streak' = Threshold - 1
    /\ trial' = TRUE

\* The trial ended with an error that counts neither way.
TrialLost == trial /\ trial' = FALSE /\ UNCHANGED streak

Next == Answered \/ Failed \/ HalfOpen \/ TrialLost

Spec == Init /\ [][Next]_<<streak, trial>>
=============================================================================
