-------------------------- MODULE MCCircuitBreaker --------------------------
(***************************************************************************)
(* Any set of the threads calls the host.  While it is one thread, the     *)
(* breaker is compared with what it promises.                              *)
(***************************************************************************)
EXTENDS CircuitBreaker

VARIABLE clients

MCInit == Init /\ clients \in SUBSET Callers \ {{}}
MCNext ==
    /\ Next
    /\ \A h \in Callers \ clients : ~Request(h)
    /\ UNCHANGED clients
MCSpec == MCInit /\ [][MCNext]_<<vars, clients>> /\ Fairness

Alone == \E h \in Callers : clients = {h}

\* Called by one thread, the breaker counts consecutive failures, opens at the
\* threshold and lets one trial through, as BreakerSpec says (Breaker).
AloneBreaker == INSTANCE BreakerSpec WITH
    streak <- IF Alone THEN Streak ELSE 0,
    trial <- Alone /\ Trying
AloneImplementsBreaker == AloneBreaker!Spec
=============================================================================
