---------------------------- MODULE MCWiltoncall ----------------------------
EXTENDS Wiltoncall, TLC

Symmetry == Permutations(Threads) \cup Permutations(Names) \cup Permutations(Funs)
=============================================================================
