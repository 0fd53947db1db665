----------------------------- MODULE MCDeployer -----------------------------
EXTENDS Deployer, TLC

Symmetric == Permutations(Threads) \cup Permutations(Workers) \cup Permutations(Images)
=============================================================================
