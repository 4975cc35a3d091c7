----------------------------- MODULE MCLockOrder -----------------------------
EXTENDS LockOrder, TLC

Symmetry == Permutations(Threads)
=============================================================================
