------------------------ MODULE MCWiltoncallRegistry ------------------------
EXTENDS WiltoncallRegistry, TLC

Symmetry == Permutations(Threads) \cup Permutations(Names) \cup Permutations(Funs)
=============================================================================
