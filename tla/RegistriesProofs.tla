-------------------------- MODULE RegistriesProofs --------------------------
(***************************************************************************)
(* Proofs about the registries of include/wilton/support: those of handles *)
(* (HandleRegistries), for any number of threads and addresses, and that   *)
(* of thread-local values (ThreadLocalRegistry), for any number of threads *)
(* and values.                                                             *)
(*                                                                         *)
(* OwnsAlone is not inductive: it needs that the two registries have no    *)
(* object in common, that what the unique one has nobody else refers to,   *)
(* and that an address without an object has no owner, so that a new       *)
(* object has only the one that created it.                                *)
(***************************************************************************)
EXTENDS HandleRegistries, ThreadLocalRegistry, FiniteSetTheorems, TLAPS

UniqueIsAlone ==
    /\ shared \cap unique = {}
    /\ \A t \in Threads : refs[t] \cap unique = {}

Owned(a) ==
    \/ a \in shared \cup unique
    \/ \E t \in Threads : a \in raw[t] \cup refs[t]

LiveIsOwned == live = {a \in Addresses : Owned(a)}

Inv == TypeOK /\ OwnsAlone /\ UniqueIsAlone /\ LiveIsOwned

-----------------------------------------------------------------------------
(* Every step preserves the invariant.                                     *)

LEMMA NewInv ==
    ASSUME Inv, NEW t \in Threads, NEW a \in Addresses, New(t, a) PROVE Inv'
<1> USE DEF Inv, TypeOK
<1>1. /\ raw' \in [Threads -> SUBSET Addresses]
      /\ \A u \in Threads : raw'[u] = IF u = t THEN raw[u] \cup {a} ELSE raw[u]
  BY DEF Gain, New
<1>2. /\ a \notin shared \cup unique
      /\ \A u \in Threads : a \notin raw[u] \cup refs[u]
  BY DEF New, LiveIsOwned, Owned
<1>3. TypeOK'
  BY <1>1 DEF New
<1>4. OwnsAlone' /\ UniqueIsAlone'
  <2>1. OwnsAlone'
    <3> SUFFICES ASSUME NEW u \in Threads, NEW b \in raw'[u]
                 PROVE  /\ b \notin shared' \cup unique'
                        /\ \A w \in Threads : b \notin refs'[w] /\ (w # u => b \notin raw'[w])
      BY DEF OwnsAlone
    <3>1. CASE b = a
      BY <1>1, <1>2, <3>1 DEF New, OwnsAlone
    <3>2. CASE b # a
      BY <1>1, <3>2 DEF New, OwnsAlone
    <3> QED
      BY <3>1, <3>2
  <2>2. UniqueIsAlone'
    BY DEF New, UniqueIsAlone
  <2> QED
    BY <2>1, <2>2
<1>5. LiveIsOwned'
  BY <1>1 DEF New, LiveIsOwned, Owned
<1> QED
  BY <1>3, <1>4, <1>5

LEMMA DeleteInv ==
    ASSUME Inv, NEW t \in Threads, NEW a \in Addresses, Delete(t, a) PROVE Inv'
<1> USE DEF Inv, TypeOK
<1>1. /\ raw' \in [Threads -> SUBSET Addresses]
      /\ \A u \in Threads : raw'[u] = IF u = t THEN raw[u] \ {a} ELSE raw[u]
  BY DEF Lose, Delete
<1>2. TypeOK'
  BY <1>1 DEF Delete
<1>3. OwnsAlone' /\ UniqueIsAlone'
  BY <1>1 DEF Delete, OwnsAlone, UniqueIsAlone
<1>4. LiveIsOwned'
  BY <1>1 DEF Delete, LiveIsOwned, OwnsAlone, Owned
<1> QED
  BY <1>2, <1>3, <1>4

LEMMA DropRefInv ==
    ASSUME Inv, NEW t \in Threads, NEW a \in Addresses, DropRef(t, a) PROVE Inv'
<1> USE DEF Inv, TypeOK
<1>1. /\ refs' \in [Threads -> SUBSET Addresses]
      /\ \A u \in Threads : refs'[u] = IF u = t THEN refs[u] \ {a} ELSE refs[u]
  BY DEF Lose, DropRef
<1>2. TypeOK'
  BY <1>1 DEF DropRef
<1>3. OwnsAlone' /\ UniqueIsAlone'
  BY <1>1 DEF DropRef, OwnsAlone, UniqueIsAlone
<1>4. LiveIsOwned'
  BY <1>1 DEF DropRef, LiveIsOwned, OwnsAlone, UniqueIsAlone, Owned
<1> QED
  BY <1>2, <1>3, <1>4

LEMMA PutInv ==
    ASSUME Inv, NEW t \in Threads, NEW a \in Addresses,
           SharedPut(t, a) \/ UniquePut(t, a)
    PROVE  Inv'
<1> USE DEF Inv, TypeOK
<1>1. /\ raw' \in [Threads -> SUBSET Addresses]
      /\ \A u \in Threads : raw'[u] = IF u = t THEN raw[u] \ {a} ELSE raw[u]
  BY DEF Lose, SharedPut, UniquePut
<1>2. a \in raw[t] /\ live' = live
  BY DEF SharedPut, UniquePut, OwnsAlone
<1>3. TypeOK'
  BY <1>1 DEF SharedPut, UniquePut
<1>4. OwnsAlone'
  BY <1>1 DEF SharedPut, UniquePut, OwnsAlone
<1>5. UniqueIsAlone'
  BY <1>1 DEF SharedPut, UniquePut, OwnsAlone, UniqueIsAlone
<1>6. \A b \in Addresses : Owned(b)' <=> Owned(b)
  BY <1>1, <1>2 DEF SharedPut, UniquePut, Owned
<1>7. LiveIsOwned'
  BY <1>2, <1>6 DEF LiveIsOwned
<1> QED
  BY <1>3, <1>4, <1>5, <1>7

LEMMA PutExistingInv ==
    ASSUME Inv, NEW t \in Threads, NEW a \in Addresses, PutExisting(t, a) PROVE Inv'
<1> USE DEF Inv, TypeOK
<1>1. /\ refs' \in [Threads -> SUBSET Addresses]
      /\ \A u \in Threads : refs'[u] \subseteq refs[u] /\ refs[u] \subseteq refs'[u] \cup {a}
  BY DEF Lose, PutExisting
<1>2. TypeOK'
  BY <1>1 DEF PutExisting
<1>3. OwnsAlone' /\ UniqueIsAlone'
  BY <1>1 DEF PutExisting, OwnsAlone, UniqueIsAlone
<1>4. LiveIsOwned'
  BY <1>1 DEF PutExisting, LiveIsOwned, Owned
<1> QED
  BY <1>2, <1>3, <1>4

LEMMA TakeInv ==
    ASSUME Inv, NEW t \in Threads, NEW h \in Handles,
           SharedRemove(t, h) \/ Peek(t, h)
    PROVE  Inv'
<1> USE DEF Inv, TypeOK
<1> DEFINE S == {h} \cap shared
<1>1. S \in SUBSET Addresses
  OBVIOUS
<1> HIDE DEF S
<1>2. /\ refs' \in [Threads -> SUBSET Addresses]
      /\ \A u \in Threads : refs'[u] = IF u = t THEN refs[u] \cup S ELSE refs[u]
  BY <1>1 DEF Gain, SharedRemove, Peek, S
<1>3. shared' \subseteq shared /\ shared \subseteq shared' \cup S
  BY DEF SharedRemove, Peek, S
<1>4. UNCHANGED <<live, raw, unique, open>>
  BY DEF SharedRemove, Peek
<1>5. TypeOK'
  BY <1>2, <1>3, <1>4
<1>6. OwnsAlone' /\ UniqueIsAlone'
  BY <1>2, <1>3, <1>4 DEF OwnsAlone, UniqueIsAlone, S
<1>7. LiveIsOwned'
  BY <1>2, <1>3, <1>4 DEF LiveIsOwned, Owned, S
<1> QED
  BY <1>5, <1>6, <1>7

LEMMA UniqueRemoveInv ==
    ASSUME Inv, NEW t \in Threads, NEW h \in Handles, UniqueRemove(t, h) PROVE Inv'
<1> USE DEF Inv, TypeOK
<1> DEFINE S == {h} \cap unique
<1>1. S \in SUBSET Addresses
  OBVIOUS
<1> HIDE DEF S
<1>2. /\ raw' \in [Threads -> SUBSET Addresses]
      /\ \A u \in Threads : raw'[u] = IF u = t THEN raw[u] \cup S ELSE raw[u]
  BY <1>1 DEF Gain, UniqueRemove, S
<1>3. TypeOK'
  BY <1>2 DEF UniqueRemove, S
<1>4. OwnsAlone' /\ UniqueIsAlone'
  BY <1>2 DEF UniqueRemove, OwnsAlone, UniqueIsAlone, S
<1>5. LiveIsOwned'
  BY <1>2 DEF UniqueRemove, LiveIsOwned, Owned, S
<1> QED
  BY <1>3, <1>4, <1>5

LEMMA DestroyInv ==
    ASSUME Inv, DestroyShared \/ DestroyUnique PROVE Inv'
<1> USE DEF Inv, TypeOK
<1>1. TypeOK'
  BY DEF DestroyShared, DestroyUnique
<1>2. OwnsAlone' /\ UniqueIsAlone'
  BY DEF DestroyShared, DestroyUnique, OwnsAlone, UniqueIsAlone
<1>3. LiveIsOwned'
  BY DEF DestroyShared, DestroyUnique, LiveIsOwned, OwnsAlone, UniqueIsAlone, Owned
<1> QED
  BY <1>1, <1>2, <1>3

LEMMA InitInv == Init => Inv
  BY DEF Init, Inv, TypeOK, OwnsAlone, UniqueIsAlone, LiveIsOwned, Owned

LEMMA StepInv == Inv /\ [Next]_vars => Inv'
<1> SUFFICES ASSUME Inv, [Next]_vars PROVE Inv'
  OBVIOUS
<1>1. CASE UNCHANGED vars
  BY <1>1 DEF vars, Inv, TypeOK, OwnsAlone, UniqueIsAlone, LiveIsOwned, Owned
<1> QED
  BY <1>1, NewInv, DeleteInv, DropRefInv, PutInv, PutExistingInv, TakeInv, UniqueRemoveInv,
     DestroyInv DEF Next

\* A plain pointer and an entry of the unique registry are the only owners of
\* their object, for any number of threads and objects.
THEOREM Invariance == Spec => [](TypeOK /\ OwnsAlone)
<1>1. Inv => TypeOK /\ OwnsAlone
  BY DEF Inv
<1> QED
  BY InitInv, StepInv, <1>1, PTL DEF Spec

-----------------------------------------------------------------------------
(* The registries implement Ownership.                                     *)

Raw(t) == <<"raw", t>>

Ref(t) == <<"ref", t>>

SharedRegistry == <<"registry", "shared">>

UniqueRegistry == <<"registry", "unique">>

Owner(x, a) ==
    \/ \E t \in Threads : x = Raw(t) /\ a \in raw[t]
    \/ \E t \in Threads : x = Ref(t) /\ a \in refs[t]
    \/ x = SharedRegistry /\ a \in shared
    \/ x = UniqueRegistry /\ a \in unique

LEMMA OwnersAre ==
    ASSUME NEW a, NEW x
    PROVE  /\ x \in OwnersOf(a) <=> Owner(x, a)
           /\ x \in OwnersOf(a)' <=> Owner(x, a)'
  BY DEF OwnersOf, Owner, Raw, Ref, SharedRegistry, UniqueRegistry

LEMMA OwnersDiffer ==
    /\ \A t, u : Raw(t) # Ref(u) /\ (Raw(t) = Raw(u) => t = u) /\ (Ref(t) = Ref(u) => t = u)
    /\ \A t : {Raw(t), Ref(t)} \cap {SharedRegistry, UniqueRegistry} = {}
    /\ SharedRegistry # UniqueRegistry
  BY DEF Raw, Ref, SharedRegistry, UniqueRegistry

AllOwners == ({"raw", "ref"} \X Threads) \cup Registries

SoleOwners == ({"raw"} \X Threads) \cup {UniqueRegistry}

LEMMA OwnersKinds ==
    /\ \A t \in Threads : Raw(t) \in AllOwners /\ Ref(t) \in AllOwners
    /\ {SharedRegistry, UniqueRegistry} \subseteq AllOwners
    /\ \A t \in Threads : Raw(t) \in SoleOwners /\ Ref(t) \notin SoleOwners
    /\ SharedRegistry \notin SoleOwners /\ UniqueRegistry \in SoleOwners
  BY DEF AllOwners, SoleOwners, Raw, Ref, SharedRegistry, UniqueRegistry, Registries

Unchanged(S) == \A b \in S : \A x : Owner(x, b)' <=> Owner(x, b)

LEMMA OwnersUnchanged ==
    ASSUME NEW S, Unchanged(S) PROVE \A b \in S : OwnersOf(b)' = OwnersOf(b)
<1> SUFFICES ASSUME NEW b \in S, NEW x PROVE x \in OwnersOf(b)' <=> x \in OwnersOf(b)
  OBVIOUS
<1> QED
  BY OwnersAre DEF Unchanged

\* What a step has to show to be one of those of Ownership.
Given(a, o, p) ==
    /\ Owner(o, a)
    /\ \A x : Owner(x, a)' <=> (Owner(x, a) /\ x # o) \/ x = p
    /\ Unchanged(Addresses \ {a})
    /\ live' = live

LEMMA GiveStep ==
    ASSUME NEW a \in Addresses, NEW o, NEW p, Given(a, o, p),
           p \in SoleOwners => \A x : Owner(x, a) => x = o
    PROVE  Ownership!Give(a, o, p)
<1>1. OwnersOf(a)' = (OwnersOf(a) \ {o}) \cup {p}
  <2> SUFFICES ASSUME NEW x
               PROVE  x \in OwnersOf(a)' <=> x \in (OwnersOf(a) \ {o}) \cup {p}
    OBVIOUS
  <2> QED
    BY OwnersAre DEF Given
<1>2. \A b \in Addresses \ {a} : OwnersOf(b)' = OwnersOf(b)
  BY OwnersUnchanged DEF Given
<1>3. o \in OwnersOf(a) /\ live' = live
  BY OwnersAre DEF Given
<1>4. p \in SoleOwners => OwnersOf(a) = {o}
  BY <1>3, OwnersAre
<1> QED
  BY <1>1, <1>2, <1>3, <1>4 DEF Ownership!Give, SoleOwners, UniqueRegistry

Shared(a, o, p) ==
    /\ Owner(o, a)
    /\ \A x : Owner(x, a)' <=> Owner(x, a) \/ x = p
    /\ Unchanged(Addresses \ {a})
    /\ live' = live

LEMMA ShareStep ==
    ASSUME NEW a \in Addresses, NEW o, NEW p, Shared(a, o, p),
           o \notin SoleOwners, p \notin SoleOwners
    PROVE  Ownership!Share(a, o, p)
<1>1. OwnersOf(a)' = OwnersOf(a) \cup {p}
  <2> SUFFICES ASSUME NEW x
               PROVE  x \in OwnersOf(a)' <=> x \in OwnersOf(a) \cup {p}
    OBVIOUS
  <2> QED
    BY OwnersAre DEF Shared
<1>2. \A b \in Addresses \ {a} : OwnersOf(b)' = OwnersOf(b)
  BY OwnersUnchanged DEF Shared
<1>3. o \in OwnersOf(a) /\ live' = live
  BY OwnersAre DEF Shared
<1> QED
  BY <1>1, <1>2, <1>3 DEF Ownership!Share, SoleOwners, UniqueRegistry

GivenUp(o, S) ==
    /\ \A b \in S : Owner(o, b)
    /\ \A b \in S : \A x : Owner(x, b)' <=> Owner(x, b) /\ x # o
    /\ Unchanged(Addresses \ S)
    /\ live' = {b \in live : \E x : Owner(x, b)'}

LEMMA GiveUpStep ==
    ASSUME NEW o, NEW S \in SUBSET Addresses, GivenUp(o, S), live \subseteq Addresses
    PROVE  Ownership!GiveUp(o, S)
<1>1. ASSUME NEW b \in S PROVE OwnersOf(b)' = OwnersOf(b) \ {o} /\ o \in OwnersOf(b)
  <2> SUFFICES ASSUME NEW x
               PROVE  /\ x \in OwnersOf(b)' <=> x \in OwnersOf(b) \ {o}
                      /\ o \in OwnersOf(b)
    OBVIOUS
  <2> QED
    BY OwnersAre DEF GivenUp
<1>2. \A b \in Addresses \ S : OwnersOf(b)' = OwnersOf(b)
  BY OwnersUnchanged DEF GivenUp
<1>3. \A b \in Addresses : OwnersOf(b)' # {} <=> \E x : Owner(x, b)'
  BY OwnersAre
<1>4. live' = {b \in live : OwnersOf(b)' # {}}
  BY <1>3 DEF GivenUp
<1> QED
  BY <1>1, <1>2, <1>4 DEF Ownership!GiveUp

LEMMA CreateStep ==
    ASSUME NEW a \in Addresses, NEW o, a \notin live, live' = live \cup {a},
           \A x : Owner(x, a)' <=> x = o, Unchanged(Addresses \ {a})
    PROVE  Ownership!Create(a, o)
<1>1. OwnersOf(a)' = {o}
  <2> SUFFICES ASSUME NEW x PROVE x \in OwnersOf(a)' <=> x = o
    OBVIOUS
  <2> QED
    BY OwnersAre
<1>2. \A b \in Addresses \ {a} : OwnersOf(b)' = OwnersOf(b)
  BY OwnersUnchanged
<1> QED
  BY <1>1, <1>2 DEF Ownership!Create

-----------------------------------------------------------------------------
(* Each step of the registries is one of Ownership.                        *)

LEMMA NewCreates ==
    ASSUME Inv, NEW t \in Threads, NEW a \in Addresses, New(t, a)
    PROVE  Ownership!Create(a, Raw(t))
<1> USE DEF Inv, TypeOK
<1>1. \A u \in Threads : raw'[u] = IF u = t THEN raw[u] \cup {a} ELSE raw[u]
  BY DEF New, Gain
<1>2. UNCHANGED <<refs, shared, unique>> /\ a \notin live /\ live' = live \cup {a}
  BY DEF New
<1>3. /\ a \notin shared \cup unique
      /\ \A u \in Threads : a \notin raw[u] \cup refs[u]
  BY <1>2 DEF LiveIsOwned, Owned
<1>4. \A x : Owner(x, a)' <=> x = Raw(t)
  BY <1>1, <1>2, <1>3 DEF Owner
<1>5. Unchanged(Addresses \ {a})
  BY <1>1, <1>2 DEF Unchanged, Owner
<1> QED
  BY <1>2, <1>4, <1>5, CreateStep

\* When owners only become fewer, what is left is what is still owned.
LEMMA Survivors ==
    ASSUME Inv, Inv', \A b \in Addresses : \A x : Owner(x, b)' => Owner(x, b)
    PROVE  live' = {b \in live : \E x : Owner(x, b)'}
<1>1. live = {b \in Addresses : \E x : Owner(x, b)}
  BY DEF Inv, LiveIsOwned, Owned, Owner
<1>2. live' = {b \in Addresses : \E x : Owner(x, b)'}
  BY DEF Inv, LiveIsOwned, Owned, Owner
<1> QED
  BY <1>1, <1>2

LEMMA DeleteGivesUp ==
    ASSUME Inv, NEW t \in Threads, NEW a \in Addresses, Delete(t, a)
    PROVE  Ownership!GiveUp(Raw(t), {a})
<1> USE DEF Inv, TypeOK
<1>1. \A u \in Threads : raw'[u] = IF u = t THEN raw[u] \ {a} ELSE raw[u]
  BY DEF Delete, Lose
<1>2. UNCHANGED <<refs, shared, unique>> /\ a \in raw[t]
  BY DEF Delete
<1>3. Owner(Raw(t), a)
  BY <1>2 DEF Owner
<1>4. \A x : Owner(x, a)' <=> Owner(x, a) /\ x # Raw(t)
  BY <1>1, <1>2, OwnersDiffer DEF Owner
<1>5. Unchanged(Addresses \ {a})
  BY <1>1, <1>2 DEF Unchanged, Owner
<1>6. live' = {b \in live : \E x : Owner(x, b)'}
  BY <1>4, <1>5, DeleteInv, Survivors DEF Unchanged
<1>7. GivenUp(Raw(t), {a})
  BY <1>3, <1>4, <1>5, <1>6 DEF GivenUp
<1> QED
  BY <1>7, GiveUpStep

LEMMA DropRefGivesUp ==
    ASSUME Inv, NEW t \in Threads, NEW a \in Addresses, DropRef(t, a)
    PROVE  Ownership!GiveUp(Ref(t), {a})
<1> USE DEF Inv, TypeOK
<1>1. \A u \in Threads : refs'[u] = IF u = t THEN refs[u] \ {a} ELSE refs[u]
  BY DEF DropRef, Lose
<1>2. UNCHANGED <<raw, shared, unique>> /\ a \in refs[t]
  BY DEF DropRef
<1>3. Owner(Ref(t), a)
  BY <1>2 DEF Owner
<1>4. \A x : Owner(x, a)' <=> Owner(x, a) /\ x # Ref(t)
  BY <1>1, <1>2, OwnersDiffer DEF Owner
<1>5. Unchanged(Addresses \ {a})
  BY <1>1, <1>2 DEF Unchanged, Owner
<1>6. live' = {b \in live : \E x : Owner(x, b)'}
  BY <1>4, <1>5, DropRefInv, Survivors DEF Unchanged
<1>7. GivenUp(Ref(t), {a})
  BY <1>3, <1>4, <1>5, <1>6 DEF GivenUp
<1> QED
  BY <1>7, GiveUpStep

LEMMA DestroySharedGivesUp ==
    ASSUME Inv, DestroyShared PROVE Ownership!GiveUp(SharedRegistry, shared)
<1> USE DEF Inv, TypeOK
<1>1. UNCHANGED <<raw, refs, unique>> /\ shared' = {}
  BY DEF DestroyShared
<1>2. \A b \in shared : Owner(SharedRegistry, b)
  BY DEF Owner
<1>3. \A b \in shared : \A x : Owner(x, b)' <=> Owner(x, b) /\ x # SharedRegistry
  BY <1>1, OwnersDiffer DEF Owner
<1>4. Unchanged(Addresses \ shared)
  BY <1>1 DEF Unchanged, Owner
<1>5. live' = {b \in live : \E x : Owner(x, b)'}
  BY <1>3, <1>4, DestroyInv, Survivors DEF Unchanged
<1>6. GivenUp(SharedRegistry, shared)
  BY <1>2, <1>3, <1>4, <1>5 DEF GivenUp
<1> QED
  BY <1>6, GiveUpStep

LEMMA DestroyUniqueGivesUp ==
    ASSUME Inv, DestroyUnique PROVE Ownership!GiveUp(UniqueRegistry, unique)
<1> USE DEF Inv, TypeOK
<1>1. UNCHANGED <<raw, refs, shared>> /\ unique' = {}
  BY DEF DestroyUnique
<1>2. \A b \in unique : Owner(UniqueRegistry, b)
  BY DEF Owner
<1>3. \A b \in unique : \A x : Owner(x, b)' <=> Owner(x, b) /\ x # UniqueRegistry
  BY <1>1, OwnersDiffer DEF Owner
<1>4. Unchanged(Addresses \ unique)
  BY <1>1 DEF Unchanged, Owner
<1>5. live' = {b \in live : \E x : Owner(x, b)'}
  BY <1>3, <1>4, DestroyInv, Survivors DEF Unchanged
<1>6. GivenUp(UniqueRegistry, unique)
  BY <1>2, <1>3, <1>4, <1>5 DEF GivenUp
<1> QED
  BY <1>6, GiveUpStep

LEMMA SharedPutGives ==
    ASSUME Inv, NEW t \in Threads, NEW a \in Addresses, SharedPut(t, a)
    PROVE  Ownership!Give(a, Raw(t), SharedRegistry)
<1> USE DEF Inv, TypeOK
<1>1. \A u \in Threads : raw'[u] = IF u = t THEN raw[u] \ {a} ELSE raw[u]
  BY DEF SharedPut, Lose
<1>2. a \in raw[t] /\ live' = live
  BY DEF SharedPut, OwnsAlone
<1>3. UNCHANGED <<refs, unique>> /\ shared' = shared \cup {a}
  BY DEF SharedPut
<1>4. Owner(Raw(t), a)
  BY <1>2 DEF Owner
<1>5. \A x : Owner(x, a)' <=> (Owner(x, a) /\ x # Raw(t)) \/ x = SharedRegistry
  BY <1>1, <1>2, <1>3, OwnersDiffer DEF Owner
<1>6. Unchanged(Addresses \ {a})
  BY <1>1, <1>3 DEF Unchanged, Owner
<1>7. Given(a, Raw(t), SharedRegistry)
  BY <1>2, <1>4, <1>5, <1>6 DEF Given
<1> QED
  BY <1>7, GiveStep, OwnersKinds

LEMMA UniquePutGives ==
    ASSUME Inv, NEW t \in Threads, NEW a \in Addresses, UniquePut(t, a)
    PROVE  Ownership!Give(a, Raw(t), UniqueRegistry)
<1> USE DEF Inv, TypeOK
<1>1. \A u \in Threads : raw'[u] = IF u = t THEN raw[u] \ {a} ELSE raw[u]
  BY DEF UniquePut, Lose
<1>2. a \in raw[t] /\ live' = live
  BY DEF UniquePut, OwnsAlone
<1>3. UNCHANGED <<refs, shared>> /\ unique' = unique \cup {a}
  BY DEF UniquePut
<1>4. Owner(Raw(t), a) /\ \A x : Owner(x, a) => x = Raw(t)
  BY <1>2 DEF Owner, OwnsAlone
<1>5. \A x : Owner(x, a)' <=> (Owner(x, a) /\ x # Raw(t)) \/ x = UniqueRegistry
  BY <1>1, <1>2, <1>3, OwnersDiffer DEF Owner
<1>6. Unchanged(Addresses \ {a})
  BY <1>1, <1>3 DEF Unchanged, Owner
<1>7. Given(a, Raw(t), UniqueRegistry)
  BY <1>2, <1>4, <1>5, <1>6 DEF Given
<1> QED
  BY <1>4, <1>7, GiveStep, OwnersKinds

LEMMA PutExistingSharesOrGives ==
    ASSUME Inv, NEW t \in Threads, NEW a \in Addresses, PutExisting(t, a)
    PROVE  \/ Ownership!Share(a, Ref(t), SharedRegistry)
           \/ Ownership!Give(a, Ref(t), SharedRegistry)
<1> USE DEF Inv, TypeOK
<1>1. UNCHANGED <<live, raw, unique>> /\ shared' = shared \cup {a} /\ a \in refs[t]
  BY DEF PutExisting
<1>2. Owner(Ref(t), a)
  BY <1>1 DEF Owner
<1>3. CASE refs' = refs
  <2>1. \A x : Owner(x, a)' <=> Owner(x, a) \/ x = SharedRegistry
    BY <1>1, <1>3 DEF Owner
  <2>2. Unchanged(Addresses \ {a})
    BY <1>1, <1>3 DEF Unchanged, Owner
  <2> QED
    BY <1>1, <1>2, <2>1, <2>2, ShareStep, OwnersKinds DEF Shared
<1>4. CASE refs' = Lose(refs, t, a)
  <2>1. \A u \in Threads : refs'[u] = IF u = t THEN refs[u] \ {a} ELSE refs[u]
    BY <1>4 DEF Lose
  <2>2. \A x : Owner(x, a)' <=> (Owner(x, a) /\ x # Ref(t)) \/ x = SharedRegistry
    BY <1>1, <2>1, OwnersDiffer DEF Owner
  <2>3. Unchanged(Addresses \ {a})
    BY <1>1, <2>1 DEF Unchanged, Owner
  <2> QED
    BY <1>1, <1>2, <2>2, <2>3, GiveStep, OwnersKinds DEF Given
<1> QED
  BY <1>3, <1>4 DEF PutExisting

LEMMA SharedRemoveGives ==
    ASSUME Inv, NEW t \in Threads, NEW h \in shared, SharedRemove(t, h)
    PROVE  Ownership!Give(h, SharedRegistry, Ref(t))
<1> USE DEF Inv, TypeOK
<1>1. \A u \in Threads : refs'[u] = IF u = t THEN refs[u] \cup {h} ELSE refs[u]
  BY DEF SharedRemove, Gain
<1>2. UNCHANGED <<live, raw, unique>> /\ shared' = shared \ {h}
  BY DEF SharedRemove
<1>3. Owner(SharedRegistry, h)
  BY DEF Owner
<1>4. \A x : Owner(x, h)' <=> (Owner(x, h) /\ x # SharedRegistry) \/ x = Ref(t)
  BY <1>1, <1>2, OwnersDiffer DEF Owner
<1>5. Unchanged(Addresses \ {h})
  BY <1>1, <1>2 DEF Unchanged, Owner
<1> QED
  BY <1>2, <1>3, <1>4, <1>5, GiveStep, OwnersKinds DEF Given

LEMMA PeekShares ==
    ASSUME Inv, NEW t \in Threads, NEW h \in shared, Peek(t, h)
    PROVE  Ownership!Share(h, SharedRegistry, Ref(t))
<1> USE DEF Inv, TypeOK
<1>1. \A u \in Threads : refs'[u] = IF u = t THEN refs[u] \cup {h} ELSE refs[u]
  BY DEF Peek, Gain
<1>2. UNCHANGED <<live, raw, shared, unique>>
  BY DEF Peek
<1>3. Owner(SharedRegistry, h)
  BY DEF Owner
<1>4. \A x : Owner(x, h)' <=> Owner(x, h) \/ x = Ref(t)
  BY <1>1, <1>2, OwnersDiffer DEF Owner
<1>5. Unchanged(Addresses \ {h})
  BY <1>1, <1>2 DEF Unchanged, Owner
<1> QED
  BY <1>2, <1>3, <1>4, <1>5, ShareStep, OwnersKinds DEF Shared

LEMMA UniqueRemoveGives ==
    ASSUME Inv, NEW t \in Threads, NEW h \in unique, UniqueRemove(t, h)
    PROVE  Ownership!Give(h, UniqueRegistry, Raw(t))
<1> USE DEF Inv, TypeOK
<1>1. \A u \in Threads : raw'[u] = IF u = t THEN raw[u] \cup {h} ELSE raw[u]
  BY DEF UniqueRemove, Gain
<1>2. UNCHANGED <<live, refs, shared>> /\ unique' = unique \ {h}
  BY DEF UniqueRemove
<1>3. Owner(UniqueRegistry, h) /\ \A x : Owner(x, h) => x = UniqueRegistry
  BY DEF Owner, OwnsAlone, UniqueIsAlone
<1>4. \A x : Owner(x, h)' <=> (Owner(x, h) /\ x # UniqueRegistry) \/ x = Raw(t)
  BY <1>1, <1>2, OwnersDiffer DEF Owner
<1>5. Unchanged(Addresses \ {h})
  BY <1>1, <1>2 DEF Unchanged, Owner
<1> QED
  BY <1>2, <1>3, <1>4, <1>5, GiveStep, OwnersKinds DEF Given

LEMMA MissChangesNothing ==
    ASSUME Inv, NEW t \in Threads, NEW h \in Handles,
           \/ h \notin shared /\ (SharedRemove(t, h) \/ Peek(t, h))
           \/ h \notin unique /\ UniqueRemove(t, h)
    PROVE  UNCHANGED vars
  BY DEF Inv, TypeOK, SharedRemove, Peek, UniqueRemove, Gain, vars

LEMMA StutterStep == ASSUME UNCHANGED vars PROVE UNCHANGED Ownership!ownershipVars
  BY DEF vars, Ownership!ownershipVars, OwnersOf

\* Objects exist exactly as long as they are owned, for any number of threads
\* and addresses: every step of the registries and of the threads is one of
\* Ownership or changes nothing.
THEOREM Refinement == Spec => ImplementsOwnership
<1>1. Init => Ownership!Init
  BY DEF Init, Ownership!Init, OwnersOf
<1>2. Inv /\ [Next]_vars => [Ownership!Next]_(Ownership!ownershipVars)
  <2> SUFFICES ASSUME Inv, [Next]_vars
               PROVE  Ownership!Next \/ UNCHANGED Ownership!ownershipVars
    OBVIOUS
  <2>1. CASE UNCHANGED vars
    BY <2>1, StutterStep
  <2>2. shared \subseteq Addresses /\ unique \subseteq Addresses
    BY DEF Inv, TypeOK
  <2>3. ASSUME NEW t \in Threads, NEW a \in Addresses,
               \/ New(t, a) \/ Delete(t, a) \/ DropRef(t, a)
               \/ SharedPut(t, a) \/ PutExisting(t, a) \/ UniquePut(t, a)
        PROVE  Ownership!Next
    BY <2>3, NewCreates, DeleteGivesUp, DropRefGivesUp, SharedPutGives,
       PutExistingSharesOrGives, UniquePutGives, OwnersKinds
    DEF Ownership!Next, AllOwners
  <2>4. ASSUME NEW t \in Threads, NEW h \in Handles,
               SharedRemove(t, h) \/ Peek(t, h) \/ UniqueRemove(t, h)
        PROVE  Ownership!Next \/ UNCHANGED vars
    <3>1. CASE h \in shared /\ (SharedRemove(t, h) \/ Peek(t, h))
      BY <2>2, <3>1, SharedRemoveGives, PeekShares, OwnersKinds DEF Ownership!Next, AllOwners
    <3>2. CASE h \in unique /\ UniqueRemove(t, h)
      BY <2>2, <3>2, UniqueRemoveGives, OwnersKinds DEF Ownership!Next, AllOwners
    <3> QED
      BY <2>4, <3>1, <3>2, MissChangesNothing
  <2>5. ASSUME DestroyShared \/ DestroyUnique PROVE Ownership!Next
    BY <2>2, <2>5, DestroySharedGivesUp, DestroyUniqueGivesUp, OwnersKinds
    DEF Ownership!Next, AllOwners
  <2> QED
    BY <2>1, <2>3, <2>4, <2>5, StutterStep DEF Next
<1> QED
  BY InitInv, StepInv, <1>1, <1>2, PTL DEF Spec, ImplementsOwnership, Ownership!Spec

-----------------------------------------------------------------------------
(* The thread-local registry.  ValueIsOwn is kept by put because the value *)
(* that waits to be put is one, and ReferenceStaysGood holds because put   *)
(* leaves an entry that is there alone.  That what an exception lists is   *)
(* the map as it is needs the mutex: only its holder is inside a method.   *)

Inside(t) == pc[t] \in Methods \cup {"throw"}

MutexIsHolder == \A t \in ThreadIds : Inside(t) <=> mutex = t

PuttingValue == \A t \in ThreadIds : pc[t] \in {"lock_put", "put"} => arg[t] \in Values

\* Keys are listed by dump and by exceptions, and each is one of the map.
ListedAreKeys ==
    \A t \in ThreadIds :
        /\ keys[t] \subseteq Keys
        /\ keys[t] # {} => pc[t] \in {"dump", "throw"}

Held(t) == {map[t], arg[t]} \cup peeked[t]

\* What one thread holds, in the map or by reference, no other does.
HeldApart ==
    \A t, u \in ThreadIds : t # u => Held(t) \cap Held(u) \subseteq {NoValue}

Labels == {"idle", "throw"} \cup Methods \cup {Waiting[m] : m \in Methods}

TlInv ==
    /\ TlTypeOK /\ ValueIsOwn
    /\ MutexIsHolder /\ PuttingValue /\ ListedAreKeys /\ HeldApart

LEMMA WaitingIs ==
    \A m \in Methods :
        /\ Waiting[m] \notin Methods \cup {"idle", "throw"}
        /\ Waiting[m] \in Labels
        /\ Waiting[m] = "lock_put" <=> m = "put"
        /\ Waiting[m] # "put"
<1>1. ASSUME NEW m \in Methods
      PROVE  Waiting[m] = CASE m = "put" -> "lock_put" [] m = "peek" -> "lock_peek"
                            [] m = "remove" -> "lock_remove" [] m = "dump" -> "lock_dump"
  BY DEF Waiting, Methods
<1> QED
  BY <1>1 DEF Methods, Labels

LEMMA GotoIs ==
    ASSUME NEW t \in ThreadIds, NEW label \in Labels, TlTypeOK, Goto(t, label)
    PROVE  /\ pc' \in [ThreadIds -> Labels]
           /\ \A u \in ThreadIds : pc'[u] = IF u = t THEN label ELSE pc[u]
  BY DEF TlTypeOK, Labels, Goto

LEMMA LeaveIs ==
    ASSUME NEW t \in ThreadIds, TlTypeOK, Leave(t)
    PROVE  /\ mutex' = NoThread
           /\ pc' \in [ThreadIds -> Labels]
           /\ \A u \in ThreadIds : pc'[u] = IF u = t THEN "idle" ELSE pc[u]
           /\ arg' \in [ThreadIds -> Values \cup {NoValue}]
           /\ \A u \in ThreadIds : arg'[u] = IF u = t THEN NoValue ELSE arg[u]
           /\ keys' \in [ThreadIds -> SUBSET ThreadIds]
           /\ \A u \in ThreadIds : keys'[u] = IF u = t THEN {} ELSE keys[u]
  BY GotoIs DEF TlTypeOK, Labels, Leave

-----------------------------------------------------------------------------
(* Every step of a thread preserves the invariant.                         *)

LEMMA CallTlInv ==
    ASSUME TlInv, NEW t \in ThreadIds, NEW m \in Methods, Call(t, m) PROVE TlInv'
<1> USE DEF TlInv
<1>1. /\ pc' \in [ThreadIds -> Labels]
      /\ \A u \in ThreadIds : pc'[u] = IF u = t THEN Waiting[m] ELSE pc[u]
  BY GotoIs, WaitingIs DEF Call
<1>2. UNCHANGED <<mutex, map, keys, peeked, alive, mine, left>> /\ pc[t] = "idle"
  BY DEF Call
<1>3. PICK v \in Values \cup {NoValue} :
          /\ m = "put" => v \in Values \ InUse
          /\ m # "put" => v = arg[t]
          /\ arg' \in [ThreadIds -> Values \cup {NoValue}]
          /\ \A u \in ThreadIds : arg'[u] = IF u = t THEN v ELSE arg[u]
  BY DEF Call, TlTypeOK
<1>4. TlTypeOK'
  BY <1>1, <1>2, <1>3 DEF TlTypeOK, Labels
<1>5. ValueIsOwn'
  BY <1>2 DEF ValueIsOwn
<1>6. MutexIsHolder'
  <2>1. "idle" \notin Methods \cup {"throw"}
    BY DEF Methods
  <2>2. \A u \in ThreadIds : Inside(u)' <=> Inside(u)
    BY <1>1, <1>2, <2>1, WaitingIs DEF Inside
  <2> QED
    BY <1>2, <2>2 DEF MutexIsHolder
<1>7. PuttingValue'
  BY <1>1, <1>3, WaitingIs DEF PuttingValue
<1>8. ListedAreKeys'
  BY <1>1, <1>2 DEF ListedAreKeys, Keys
<1>9. HeldApart'
  <2>1. \A u \in ThreadIds : v \in Values \ InUse => v \notin Held(u)
    BY DEF InUse, Held
  <2>2. \A u \in ThreadIds : Held(u)' \subseteq IF u = t THEN Held(u) \cup {v} ELSE Held(u)
    BY <1>2, <1>3 DEF Held
  <2>3. v \in Held(t) \/ v \in Values \ InUse
    BY <1>3 DEF Held
  <2> QED
    BY <2>1, <2>2, <2>3 DEF HeldApart
<1> QED
  BY <1>4, <1>5, <1>6, <1>7, <1>8, <1>9

LEMMA LockTlInv ==
    ASSUME TlInv, NEW t \in ThreadIds, Lock(t) PROVE TlInv'
<1> USE DEF TlInv
<1>1. PICK m \in Methods :
          pc[t] = Waiting[m] /\ mutex = NoThread /\ mutex' = t /\ Goto(t, m)
  BY DEF Lock
<1>2. UNCHANGED <<map, arg, keys, peeked, alive, mine, left>>
  BY DEF Lock
<1>3. /\ pc' \in [ThreadIds -> Labels]
      /\ \A u \in ThreadIds : pc'[u] = IF u = t THEN m ELSE pc[u]
  BY <1>1, GotoIs DEF Labels
<1>4. TlTypeOK'
  BY <1>1, <1>2, <1>3 DEF TlTypeOK, Labels
<1>5. ValueIsOwn' /\ HeldApart'
  BY <1>2 DEF ValueIsOwn, HeldApart, Held
<1>6. MutexIsHolder'
  BY <1>1, <1>3, ValuesAssumption DEF MutexIsHolder, Inside
<1>7. PuttingValue'
  BY <1>1, <1>2, <1>3, WaitingIs DEF PuttingValue, Methods
<1>8. ListedAreKeys'
  BY <1>1, <1>2, <1>3, WaitingIs DEF ListedAreKeys, Keys, Methods
<1> QED
  BY <1>4, <1>5, <1>6, <1>7, <1>8

LEMMA ThrowTlInv ==
    ASSUME TlInv, NEW t \in ThreadIds, pc[t] \in Methods, Throw(t), UNCHANGED alive
    PROVE  TlInv'
<1> USE DEF TlInv
<1>1. /\ pc' \in [ThreadIds -> Labels]
      /\ \A u \in ThreadIds : pc'[u] = IF u = t THEN "throw" ELSE pc[u]
  BY GotoIs DEF Throw, Labels
<1>2. UNCHANGED <<mutex, map, arg, keys, peeked, alive, mine, left>>
  BY DEF Throw
<1>3. TlTypeOK'
  BY <1>1, <1>2 DEF TlTypeOK, Labels
<1>4. ValueIsOwn' /\ HeldApart'
  BY <1>2 DEF ValueIsOwn, HeldApart, Held
<1>5. MutexIsHolder'
  BY <1>1, <1>2 DEF MutexIsHolder, Inside
<1>6. PuttingValue' /\ ListedAreKeys'
  BY <1>1, <1>2 DEF PuttingValue, ListedAreKeys, Keys
<1> QED
  BY <1>3, <1>4, <1>5, <1>6

\* A method that ends without an exception, or whose exception leaves it: the
\* thread may have moved what it put to the map, taken a reference to its own
\* value, or taken the value out.
Ended(t) ==
    /\ Leave(t)
    /\ Inside(t)
    /\ \A u \in ThreadIds \ {t} :
           map'[u] = map[u] /\ peeked'[u] = peeked[u] /\ mine'[u] = mine[u] /\ left'[u] = left[u]
    /\ map'[t] \in {map[t], arg[t], NoValue}
    /\ map' # map => pc[t] \notin {"dump", "throw"}
    /\ peeked'[t] \subseteq peeked[t] \cup {map[t]}

LEMMA EndedTlInv ==
    ASSUME TlInv, NEW t \in ThreadIds, Ended(t), TlTypeOK',
           map'[t] = IF mine'[t] # NoValue THEN mine'[t] ELSE left'[t]
    PROVE  TlInv'
<1> USE DEF TlInv
<1>1. /\ mutex' = NoThread
      /\ \A u \in ThreadIds : pc'[u] = IF u = t THEN "idle" ELSE pc[u]
      /\ \A u \in ThreadIds : arg'[u] = IF u = t THEN NoValue ELSE arg[u]
      /\ \A u \in ThreadIds : keys'[u] = IF u = t THEN {} ELSE keys[u]
  <2>1. Leave(t) /\ TlTypeOK
    BY DEF Ended
  <2> QED
    BY <2>1, LeaveIs
<1>2. mutex = t /\ \A u \in ThreadIds \ {t} : ~Inside(u)
  BY DEF MutexIsHolder, Ended
<1>3. ValueIsOwn'
  BY DEF ValueIsOwn, Ended
<1>4. MutexIsHolder'
  BY <1>1, <1>2, ValuesAssumption DEF MutexIsHolder, Inside, Methods
<1>5. PuttingValue'
  BY <1>1 DEF PuttingValue
<1>6. ListedAreKeys'
  <2>1. \A u \in ThreadIds : keys'[u] = {}
    BY <1>1, <1>2 DEF ListedAreKeys, Inside, Methods
  <2> QED
    BY <2>1 DEF ListedAreKeys
<1>7. HeldApart'
  <2>1. Held(t)' \subseteq Held(t) \cup {NoValue}
    BY <1>1 DEF Held, Ended
  <2>2. \A u \in ThreadIds \ {t} : Held(u)' = Held(u)
    BY <1>1 DEF Held, Ended
  <2> QED
    BY <2>1, <2>2 DEF HeldApart
<1> QED
  BY <1>3, <1>4, <1>5, <1>6, <1>7

LEMMA PutTlInv ==
    ASSUME TlInv, NEW t \in ThreadIds, PutValue(t) PROVE TlInv'
<1> USE DEF TlInv
<1>1. CASE Throw(t)
  BY <1>1, ThrowTlInv DEF PutValue, Methods
<1>2. CASE ~Throw(t)
  <2>1. Leave(t) /\ t \notin Keys /\ pc[t] = "put" /\ UNCHANGED <<peeked, left, alive>>
    BY <1>2 DEF PutValue
  <2>2. /\ map' \in [ThreadIds -> Values \cup {NoValue}]
        /\ mine' \in [ThreadIds -> Values \cup {NoValue}]
        /\ \A u \in ThreadIds : map'[u] = IF u = t THEN arg[t] ELSE map[u]
        /\ \A u \in ThreadIds : mine'[u] = IF u = t THEN arg[t] ELSE mine[u]
    BY <1>2 DEF PutValue, TlTypeOK
  <2>3. TlTypeOK'
    BY <2>1, <2>2, LeaveIs DEF TlTypeOK, Labels
  <2>4. arg[t] \in Values /\ arg[t] # NoValue
    BY <2>1, ValuesAssumption DEF PuttingValue
  <2>5. Ended(t)
    BY <2>1, <2>2 DEF Ended, Inside, Methods
  <2> QED
    BY <2>2, <2>3, <2>4, <2>5, EndedTlInv
<1> QED
  BY <1>1, <1>2

LEMMA PeekTlInv ==
    ASSUME TlInv, NEW t \in ThreadIds, PeekValue(t) PROVE TlInv'
<1> USE DEF TlInv
<1>1. CASE Throw(t)
  BY <1>1, ThrowTlInv DEF PeekValue, Methods
<1>2. CASE ~Throw(t)
  <2>1. Leave(t) /\ t \in Keys /\ pc[t] = "peek" /\ UNCHANGED <<map, mine, left, alive>>
    BY <1>2 DEF PeekValue
  <2>2. map[t] \in Values
    BY <2>1 DEF Keys, TlTypeOK
  <2>3. /\ peeked' \in [ThreadIds -> SUBSET Values]
        /\ \A u \in ThreadIds : peeked'[u] = IF u = t THEN peeked[u] \cup {map[t]} ELSE peeked[u]
    BY <1>2, <2>2 DEF PeekValue, TlTypeOK
  <2>4. TlTypeOK'
    BY <2>1, <2>3, LeaveIs DEF TlTypeOK, Labels
  <2>5. Ended(t)
    BY <2>1, <2>3 DEF Ended, Inside, Methods
  <2> QED
    BY <2>1, <2>4, <2>5, EndedTlInv DEF ValueIsOwn
<1> QED
  BY <1>1, <1>2

LEMMA RemoveTlInv ==
    ASSUME TlInv, NEW t \in ThreadIds, RemoveValue(t) PROVE TlInv'
<1> USE DEF TlInv
<1>1. CASE Throw(t)
  BY <1>1, ThrowTlInv DEF RemoveValue, Methods
<1>2. CASE ~Throw(t)
  <2>1. Leave(t) /\ pc[t] = "remove" /\ UNCHANGED <<peeked, alive>>
    BY <1>2 DEF RemoveValue
  <2>2. /\ map' \in [ThreadIds -> Values \cup {NoValue}]
        /\ mine' \in [ThreadIds -> Values \cup {NoValue}]
        /\ left' \in [ThreadIds -> Values \cup {NoValue}]
        /\ \A u \in ThreadIds : map'[u] = IF u = t THEN NoValue ELSE map[u]
        /\ \A u \in ThreadIds : mine'[u] = IF u = t THEN NoValue ELSE mine[u]
        /\ \A u \in ThreadIds : left'[u] = IF u = t THEN NoValue ELSE left[u]
    <3>1. /\ map' = [map EXCEPT ![t] = NoValue]
          /\ mine' = [mine EXCEPT ![t] = NoValue]
          /\ left' = [left EXCEPT ![t] = NoValue]
      BY <1>2 DEF RemoveValue
    <3> QED
      BY <3>1 DEF TlTypeOK
  <2>3. TlTypeOK'
    BY <2>1, <2>2, LeaveIs DEF TlTypeOK, Labels
  <2>4. Ended(t)
    BY <2>1, <2>2 DEF Ended, Inside, Methods
  <2> QED
    BY <2>2, <2>3, <2>4, EndedTlInv
<1> QED
  BY <1>1, <1>2

LEMMA DumpKeyTlInv ==
    ASSUME TlInv, NEW t \in ThreadIds, DumpKey(t) PROVE TlInv'
<1> USE DEF TlInv
<1>1. PICK k \in Keys : keys' = [keys EXCEPT ![t] = @ \cup {k}]
  BY DEF DumpKey
<1>2. /\ keys' \in [ThreadIds -> SUBSET ThreadIds]
      /\ \A u \in ThreadIds : keys'[u] = IF u = t THEN keys[u] \cup {k} ELSE keys[u]
  BY <1>1 DEF TlTypeOK, Keys
<1>3. UNCHANGED <<mutex, map, pc, arg, peeked, alive, mine, left>> /\ pc[t] \in {"dump", "throw"}
  BY DEF DumpKey
<1>4. TlTypeOK'
  BY <1>2, <1>3 DEF TlTypeOK
<1>5. ListedAreKeys'
  BY <1>2, <1>3 DEF ListedAreKeys, Keys
<1>6. ValueIsOwn' /\ MutexIsHolder' /\ PuttingValue' /\ HeldApart'
  BY <1>3 DEF ValueIsOwn, MutexIsHolder, Inside, PuttingValue, HeldApart, Held
<1> QED
  BY <1>4, <1>5, <1>6

LEMMA DumpEndTlInv ==
    ASSUME TlInv, NEW t \in ThreadIds, DumpEnd(t) PROVE TlInv'
<1>1. Leave(t) /\ pc[t] \in {"dump", "throw"} /\ UNCHANGED <<map, peeked, alive, mine, left>>
  BY DEF DumpEnd
<1>2. TlTypeOK'
  BY <1>1, LeaveIs DEF TlInv, TlTypeOK, Labels
<1>3. Ended(t)
  BY <1>1 DEF Ended, Inside, Methods
<1> QED
  BY <1>1, <1>2, <1>3, EndedTlInv DEF TlInv, ValueIsOwn

LEMMA DropReferenceTlInv ==
    ASSUME TlInv, NEW t \in ThreadIds, DropReference(t) PROVE TlInv'
<1> USE DEF TlInv
<1>1. /\ peeked' \in [ThreadIds -> SUBSET Values]
      /\ \A u \in ThreadIds : peeked'[u] \subseteq peeked[u]
  BY DEF DropReference, TlTypeOK
<1>2. UNCHANGED <<mutex, map, pc, arg, keys, alive, mine, left>>
  BY DEF DropReference
<1>3. TlTypeOK'
  BY <1>1, <1>2 DEF TlTypeOK
<1>4. HeldApart'
  BY <1>1, <1>2 DEF HeldApart, Held
<1>5. ValueIsOwn' /\ MutexIsHolder' /\ PuttingValue' /\ ListedAreKeys'
  BY <1>2 DEF ValueIsOwn, MutexIsHolder, Inside, PuttingValue, ListedAreKeys, Keys
<1> QED
  BY <1>3, <1>4, <1>5

LEMMA ExitStartTlInv ==
    ASSUME TlInv, NEW t \in ThreadIds, Exit(t) \/ Start(t) PROVE TlInv'
<1> USE DEF TlInv
<1>1. UNCHANGED <<mutex, map, pc, arg, keys, peeked>>
  BY DEF Exit, Start
<1>2. TlTypeOK'
  BY <1>1 DEF TlTypeOK, Exit, Start
<1>3. ValueIsOwn'
  BY DEF ValueIsOwn, TlTypeOK, Exit, Start
<1>4. MutexIsHolder' /\ PuttingValue' /\ ListedAreKeys' /\ HeldApart'
  BY <1>1 DEF MutexIsHolder, Inside, PuttingValue, ListedAreKeys, Keys, HeldApart, Held
<1> QED
  BY <1>2, <1>3, <1>4

LEMMA InitTlInv == TlInit => TlInv
<1> SUFFICES ASSUME TlInit PROVE TlInv
  OBVIOUS
<1>1. TlTypeOK
  BY DEF TlInit, TlTypeOK
<1>2. ValueIsOwn /\ MutexIsHolder /\ PuttingValue /\ ListedAreKeys
  BY ValuesAssumption
  DEF TlInit, ValueIsOwn, MutexIsHolder, Inside, Methods, PuttingValue, ListedAreKeys
<1>3. HeldApart
  BY DEF TlInit, HeldApart, Held
<1> QED
  BY <1>1, <1>2, <1>3 DEF TlInv

LEMMA StepTlInv == TlInv /\ [TlNext]_tlVars => TlInv'
<1> SUFFICES ASSUME TlInv, [TlNext]_tlVars PROVE TlInv'
  OBVIOUS
<1>1. CASE UNCHANGED tlVars
  BY <1>1
  DEF tlVars, TlInv, TlTypeOK, ValueIsOwn, MutexIsHolder, Inside, PuttingValue,
      ListedAreKeys, Keys, HeldApart, Held
<1>2. CASE TlNext
  BY <1>2, CallTlInv, LockTlInv, PutTlInv, PeekTlInv, RemoveTlInv, DumpKeyTlInv,
     DumpEndTlInv, DropReferenceTlInv, ExitStartTlInv
  DEF TlNext, Step
<1> QED
  BY <1>1, <1>2

LEMMA TlInvHolds == TlSpec => []TlInv
  BY InitTlInv, StepTlInv, PTL DEF TlSpec

\* The type invariant of the thread-local registry.
THEOREM TlTypeCorrectness == TlSpec => []TlTypeOK
<1>1. TlInv => TlTypeOK
  BY DEF TlInv
<1> QED
  BY <1>1, TlInvHolds, PTL

\* What is in the map for a thread is what it has put, or what an earlier thread
\* of the id left there: for any number of threads, values and reuses of ids.
THEOREM OwnValue == TlSpec => []ValueIsOwn
<1>1. TlInv => ValueIsOwn
  BY DEF TlInv
<1> QED
  BY <1>1, TlInvHolds, PTL

\* No thread has, in the map or by reference, what another has: std::map moves
\* nothing, and the id of the caller is what every method looks up.
THEOREM ThreadsApart == TlSpec => []HeldApart
<1>1. TlInv => HeldApart
  BY DEF TlInv
<1> QED
  BY <1>1, TlInvHolds, PTL

\* The reference that peek returns is good until the thread removes the value.
THEOREM PeekedStays == TlSpec => ReferenceStaysGood
<1>1. ASSUME TlInv, [TlNext]_tlVars, NEW t \in ThreadIds, map[t] \in peeked[t], map'[t] # map[t]
      PROVE  pc[t] = "remove"
  <2>1. map[t] # NoValue
    BY <1>1, ValuesAssumption DEF TlInv, TlTypeOK
  <2>2. PICK u \in ThreadIds : PutValue(u) \/ RemoveValue(u)
    BY <1>1
    DEF tlVars, TlNext, Step, Call, Lock, PeekValue, Throw, DumpKey, DumpEnd,
        DropReference, Exit, Start
  <2>3. u = t
    BY <1>1, <2>2 DEF TlInv, TlTypeOK, PutValue, RemoveValue, Throw
  <2>4. ~PutValue(t)
    BY <1>1, <2>1 DEF PutValue, Keys, Throw
  <2> QED
    BY <2>2, <2>3, <2>4 DEF RemoveValue
<1>2. TlInv /\ [TlNext]_tlVars =>
          \A t \in ThreadIds : map[t] \in peeked[t] /\ map'[t] # map[t] => pc[t] = "remove"
  BY <1>1
<1> QED
  BY <1>2, TlInvHolds, PTL DEF TlSpec, ReferenceStaysGood

\* What dump returns and an exception names is the set of keys at that moment,
\* though it is gathered one by one: nothing is put or removed meanwhile.
THEOREM DumpIsExact ==
    TlSpec => [][\A t \in ThreadIds : DumpEnd(t) => keys[t] = Keys /\ Keys' = Keys]_tlVars
<1>1. ASSUME TlInv PROVE \A t \in ThreadIds : DumpEnd(t) => keys[t] = Keys /\ Keys' = Keys
  BY <1>1 DEF TlInv, ListedAreKeys, DumpEnd, Keys
<1> QED
  BY <1>1, TlInvHolds, PTL DEF TlSpec
-----------------------------------------------------------------------------
(***************************************************************************)
(* The end of a method.  Every method that has begun goes through the map  *)
(* at most once, and the map does not change meanwhile: what remains of    *)
(* MethodsEnd is that the scheduler goes on.                               *)
(***************************************************************************)
\* The statements at most left before the one that leaves the method.
Left(t) == Cardinality(Keys \ keys[t]) + (IF pc[t] \in {"dump", "throw"} THEN 0 ELSE 1)

\* While a thread is inside a method, each of its statements brings the method
\* nearer to its end and no step of another thread brings it further away, also
\* on the way of an exception, which lists the map before it is thrown.
TlMethodsAdvance ==
    [][\A t \in ThreadIds :
           Inside(t) /\ Inside(t)' =>
               /\ Left(t) \in Nat /\ Left(t)' \in Nat
               /\ Left(t)' = Left(t) \/ Left(t)' < Left(t)
               /\ Step(t) => Left(t)' < Left(t)]_tlVars

LEMMA FiniteKeys == TlSpec => []IsFiniteSet(Keys)
<1>1. TlInit => IsFiniteSet(Keys)
  <2>1. TlInit => Keys = {}
    BY DEF TlInit, Keys
  <2> QED
    BY <2>1, FS_EmptySet
<1>2. ASSUME TlInv, IsFiniteSet(Keys), [TlNext]_tlVars PROVE IsFiniteSet(Keys')
  <2>1. CASE Keys' = Keys
    BY <1>2, <2>1
  <2>2. ASSUME NEW t \in ThreadIds, PutValue(t) PROVE IsFiniteSet(Keys')
    <3>1. Keys' \subseteq Keys \cup {t}
      BY <1>2, <2>2 DEF TlInv, TlTypeOK, PutValue, Throw, Keys
    <3> QED
      BY <1>2, <3>1, FS_AddElement, FS_Subset
  <2>3. ASSUME NEW t \in ThreadIds, RemoveValue(t) PROVE IsFiniteSet(Keys')
    <3>1. Keys' \subseteq Keys
      BY <1>2, <2>3 DEF TlInv, TlTypeOK, RemoveValue, Throw, Keys
    <3> QED
      BY <1>2, <3>1, FS_Subset
  <2>4. map' = map \/ \E t \in ThreadIds : PutValue(t) \/ RemoveValue(t)
    BY <1>2
    DEF tlVars, TlNext, Step, Call, Lock, PeekValue, Throw, DumpKey, DumpEnd,
        DropReference, Exit, Start
  <2> QED
    BY <2>1, <2>2, <2>3, <2>4 DEF Keys
<1>3. TlInv /\ IsFiniteSet(Keys) /\ [TlNext]_tlVars => IsFiniteSet(Keys)'
  BY <1>2
<1> QED
  BY <1>1, <1>3, TlInvHolds, PTL DEF TlSpec

\* Nothing another thread does changes what a method has still to do.
LEMMA RestIsOwn ==
    ASSUME TlInv, [TlNext]_tlVars, NEW t \in ThreadIds, Inside(t), ~Step(t)
    PROVE  map' = map /\ pc'[t] = pc[t] /\ keys'[t] = keys[t]
<1> DEFINE Stays == map' = map /\ pc'[t] = pc[t] /\ keys'[t] = keys[t]
<1>1. mutex = t /\ t # NoThread
  BY ValuesAssumption DEF TlInv, MutexIsHolder
<1>2. \A m \in Methods : pc[t] # Waiting[m]
  BY WaitingIs DEF Inside
<1>3. pc[t] # "idle"
  BY DEF Inside, Methods
<1>4. ASSUME NEW u \in ThreadIds, NEW m \in Methods, Call(u, m) PROVE Stays
  <2>1. u # t
    BY <1>3, <1>4 DEF Call
  <2> QED
    BY <1>4, <2>1, GotoIs, WaitingIs DEF Call, TlInv
<1>5. ASSUME NEW u \in ThreadIds, Lock(u) PROVE FALSE
  BY <1>1, <1>5 DEF Lock
<1>6. ASSUME NEW u \in ThreadIds, DropReference(u) \/ Exit(u) \/ Start(u) PROVE Stays
  BY <1>6 DEF DropReference, Exit, Start
<1>7. ASSUME NEW u \in ThreadIds, Step(u) PROVE FALSE
  <2>1. Inside(u)
    BY <1>7
    DEF Step, PutValue, PeekValue, RemoveValue, DumpKey, DumpEnd, Inside, Methods
  <2>2. mutex = u
    BY <2>1 DEF TlInv, MutexIsHolder
  <2> QED
    BY <1>1, <1>7, <2>2
<1>8. CASE UNCHANGED tlVars
  BY <1>8 DEF tlVars
<1> QED
  BY <1>4, <1>5, <1>6, <1>7, <1>8 DEF TlNext

\* A statement that stays in the method begins an exception or lists a key.
LEMMA StatementEndsOrLists ==
    ASSUME TlInv, NEW t \in ThreadIds, Step(t), Inside(t)'
    PROVE  \/ /\ pc[t] \notin {"dump", "throw"} /\ pc'[t] = "throw"
              /\ UNCHANGED <<map, keys>>
           \/ /\ pc'[t] = pc[t] /\ map' = map
              /\ \E k \in Keys \ keys[t] : keys'[t] = keys[t] \cup {k}
<1>1. ~Leave(t)
  BY LeaveIs DEF Inside, Methods, TlInv
<1>2. CASE PutValue(t) \/ PeekValue(t) \/ RemoveValue(t)
  <2>1. pc[t] \in {"put", "peek", "remove"} /\ Throw(t)
    BY <1>1, <1>2 DEF PutValue, PeekValue, RemoveValue
  <2>2. pc'[t] = "throw"
    BY <2>1, GotoIs DEF Throw, TlInv, Labels
  <2> QED
    BY <2>1, <2>2 DEF Throw
<1>3. CASE DumpKey(t)
  <2>1. PICK k \in Keys \ keys[t] : keys' = [keys EXCEPT ![t] = @ \cup {k}]
    BY <1>3 DEF DumpKey
  <2>2. keys'[t] = keys[t] \cup {k}
    BY <2>1 DEF TlInv, TlTypeOK
  <2> QED
    BY <1>3, <2>1, <2>2 DEF DumpKey
<1> QED
  BY <1>1, <1>2, <1>3 DEF Step, DumpEnd

\* What is left of a method decreases with each of its statements and is
\* increased by nobody (the methods of tl_registry and dump_internal).
THEOREM TlAdvance == TlSpec => TlMethodsAdvance
<1>1. ASSUME TlInv, IsFiniteSet(Keys), [TlNext]_tlVars, NEW t \in ThreadIds,
             Inside(t), Inside(t)'
      PROVE  /\ Left(t) \in Nat /\ Left(t)' \in Nat
             /\ Left(t)' = Left(t) \/ Left(t)' < Left(t)
             /\ Step(t) => Left(t)' < Left(t)
  <2> DEFINE W == Keys \ keys[t]
  <2>1. IsFiniteSet(W) /\ Cardinality(W) \in Nat
    BY <1>1, FS_Difference, FS_CardinalityType
  <2>2. Left(t) \in Nat
    BY <2>1 DEF Left
  <2>3. CASE ~Step(t)
    <3>1. map' = map /\ pc'[t] = pc[t] /\ keys'[t] = keys[t]
      BY <1>1, <2>3, RestIsOwn
    <3>2. Left(t)' = Left(t)
      BY <3>1 DEF Left, Keys
    <3> QED
      BY <2>2, <2>3, <3>2
  <2>4. ASSUME Step(t), pc[t] \notin {"dump", "throw"}, pc'[t] = "throw",
               UNCHANGED <<map, keys>>
        PROVE  Left(t)' \in Nat /\ Left(t)' < Left(t)
    <3>1. Left(t) = Cardinality(W) + 1 /\ Left(t)' = Cardinality(W)
      BY <2>1, <2>4 DEF Left, Keys
    <3> QED
      BY <2>1, <3>1
  <2>5. ASSUME Step(t), pc'[t] = pc[t], map' = map,
               NEW k \in Keys \ keys[t], keys'[t] = keys[t] \cup {k}
        PROVE  Left(t)' \in Nat /\ Left(t)' < Left(t)
    <3> DEFINE V == W \ {k}
               rank == IF pc[t] \in {"dump", "throw"} THEN 0 ELSE 1
    <3>1. IsFiniteSet(V) /\ Cardinality(V) = Cardinality(W) - 1
      BY <2>1, <2>5, FS_RemoveElement
    <3>2. Cardinality(V) \in Nat
      BY <3>1, FS_CardinalityType
    <3>3. Keys' \ keys'[t] = V
      BY <2>5 DEF Keys
    <3>4. Left(t)' = Cardinality(V) + rank /\ Left(t) = Cardinality(W) + rank
      BY <2>5, <3>3 DEF Left
    <3> HIDE DEF V, W
    <3> QED
      BY <2>1, <3>1, <3>2, <3>4
  <2> QED
    BY <1>1, <2>2, <2>3, <2>4, <2>5, StatementEndsOrLists
<1>2. TlInv /\ IsFiniteSet(Keys) /\ [TlNext]_tlVars =>
          [\A t \in ThreadIds :
               Inside(t) /\ Inside(t)' =>
                   /\ Left(t) \in Nat /\ Left(t)' \in Nat
                   /\ Left(t)' = Left(t) \/ Left(t)' < Left(t)
                   /\ Step(t) => Left(t)' < Left(t)]_tlVars
  BY <1>1
<1> QED
  BY TlInvHolds, FiniteKeys, <1>2, PTL DEF TlSpec, TlMethodsAdvance
=============================================================================
