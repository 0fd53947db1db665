----------------------------- MODULE MCRegistry -----------------------------
EXTENDS Registry, TLC

Symmetric == Permutations(Requests)
=============================================================================
