-------------------------- MODULE MCHandleRegistries --------------------------
EXTENDS HandleRegistries, TLC

Symmetry == Permutations(Threads) \cup Permutations(Addresses)
=============================================================================
