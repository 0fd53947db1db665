----------------------------- MODULE MCWorkdir -----------------------------
EXTENDS Workdir, TLC

Symmetric == Permutations(Callers)
=============================================================================
