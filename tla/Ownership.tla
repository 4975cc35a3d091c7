------------------------------ MODULE Ownership ------------------------------
(***************************************************************************)
(* What the handle registries promise about the objects that pass through  *)
(* them: an object exists exactly as long as somebody owns it, and the     *)
(* owners that own alone have no other owner beside them.                  *)
(***************************************************************************)
CONSTANTS
    Addresses,      \* where objects are
    Owners,
    Sole            \* the owners that own alone

VARIABLES
    owners,         \* who owns the object at each address
    live            \* the addresses that have an object

ownershipVars == <<owners, live>>

Init ==
    /\ owners = [a \in Addresses |-> {}]
    /\ live = {}

Create(a, o) ==
    /\ a \notin live
    /\ live' = live \cup {a}
    /\ owners' = [owners EXCEPT ![a] = {o}]

Share(a, o, p) ==
    /\ o \in owners[a]
    /\ {o, p} \cap Sole = {}
    /\ owners' = [owners EXCEPT ![a] = @ \cup {p}]
    /\ UNCHANGED live

\* o gives what it owns to p, which may be one of those that share it.
Give(a, o, p) ==
    /\ o \in owners[a]
    /\ p \in Sole => owners[a] = {o}
    /\ owners' = [owners EXCEPT ![a] = (@ \ {o}) \cup {p}]
    /\ UNCHANGED live

\* o gives up all of S; an object that nobody else owns is destroyed.
GiveUp(o, S) ==
    /\ \A a \in S : o \in owners[a]
    /\ owners' = [a \in Addresses |-> IF a \in S THEN owners[a] \ {o} ELSE owners[a]]
    /\ live' = {a \in live : owners'[a] # {}}

Next ==
    \/ \E a \in Addresses, o \in Owners : Create(a, o)
    \/ \E a \in Addresses, o, p \in Owners : Share(a, o, p) \/ Give(a, o, p)
    \/ \E o \in Owners, S \in SUBSET Addresses : GiveUp(o, S)

Spec == Init /\ [][Next]_ownershipVars
=============================================================================
