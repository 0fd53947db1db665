----------------------------- MODULE MCPayments -----------------------------
EXTENDS Payments, TLC

Symmetric == Permutations(Requests) \cup Permutations(Orders) \cup Permutations(Keys)
=============================================================================
