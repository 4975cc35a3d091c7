-------------------------- MODULE MCWiltoncallInit --------------------------
EXTENDS WiltoncallInit, TLC

CONSTANTS n1, n2, n3

\* wiltoncall_init registers four calls one after the other; two are enough for
\* a first, a last and a point between them.
TwoBuiltins == <<n1, n2>>
=============================================================================
