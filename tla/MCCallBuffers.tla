---------------------------- MODULE MCCallBuffers ----------------------------
EXTENDS CallBuffers

Symmetry == Permutations(Buffers)
=============================================================================
