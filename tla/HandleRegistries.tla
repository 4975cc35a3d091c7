--------------------------- MODULE HandleRegistries ---------------------------
(***************************************************************************)
(* include/wilton/support/shared_handle_registry.hpp and                   *)
(* unique_handle_registry.hpp: modules hand their objects to the program   *)
(* as handles, which are the addresses of the objects, so that a handle    *)
(* that is kept too long may be that of a later object.  Threads call one  *)
(* registry of each kind.  Every method runs under the registry's mutex    *)
(* and calls nothing foreign but the deleter, so that it is one step.      *)
(***************************************************************************)
CONSTANTS
    Threads,
    Addresses,
    Null            \* the handle 0, which no object has

ASSUME NullAssumption == Null \notin Addresses

VARIABLES
    live,       \* the addresses that have an object
    raw,        \* the objects each thread owns through a plain pointer
    refs,       \* the objects each thread holds a shared_ptr to
    shared,     \* the handles in the shared registry
    unique,     \* the handles in the unique registry
    open        \* the registries that are not destroyed yet

vars == <<live, raw, refs, shared, unique, open>>

TypeOK ==
    /\ live \subseteq Addresses
    /\ raw \in [Threads -> SUBSET Addresses]
    /\ refs \in [Threads -> SUBSET Addresses]
    /\ shared \subseteq Addresses
    /\ unique \subseteq Addresses
    /\ open \subseteq {"shared", "unique"}

Init ==
    /\ live = {}
    /\ raw = [t \in Threads |-> {}]
    /\ refs = [t \in Threads |-> {}]
    /\ shared = {}
    /\ unique = {}
    /\ open = {"shared", "unique"}

-----------------------------------------------------------------------------
Gain(owned, t, S) == [owned EXCEPT ![t] = @ \cup S]

Lose(owned, t, a) == [owned EXCEPT ![t] = @ \ {a}]

\* new: the system gives out an address that is not in use.
New(t, a) ==
    /\ a \notin live
    /\ live' = live \cup {a}
    /\ raw' = Gain(raw, t, {a})
    /\ UNCHANGED <<refs, shared, unique, open>>

\* The owner of a plain pointer deletes the object.
Delete(t, a) ==
    /\ a \in raw[t]
    /\ raw' = Lose(raw, t, a)
    /\ live' = live \ {a}
    /\ UNCHANGED <<refs, shared, unique, open>>

\* put: the registry takes the object over; one that is registered already is
\* not inserted and the deleter destroys it.
SharedPut(t, a) ==
    /\ "shared" \in open
    /\ a \in raw[t]
    /\ raw' = Lose(raw, t, a)
    /\ shared' = shared \cup {a}
    /\ live' = IF a \in shared THEN live \ {a} ELSE live
    /\ UNCHANGED <<refs, unique, open>>

\* put_existing: the caller passes a copy of its shared_ptr, or the last it has.
PutExisting(t, a) ==
    /\ "shared" \in open
    /\ a \in refs[t]
    /\ shared' = shared \cup {a}
    /\ refs' \in {refs, Lose(refs, t, a)}
    /\ UNCHANGED <<live, raw, unique, open>>

\* Variant: the entry is moved out of the map but not erased.
SharedRemoveKept(t, h) ==
    /\ "shared" \in open
    /\ refs' = Gain(refs, t, {h} \cap shared)
    /\ UNCHANGED <<live, raw, shared, unique, open>>

\* remove: whoever comes first has the registry's share, the others null.
SharedRemove(t, h) ==
    /\ "shared" \in open
    /\ refs' = Gain(refs, t, {h} \cap shared)
    /\ shared' = shared \ {h}
    /\ UNCHANGED <<live, raw, unique, open>>

\* Variant: what was found is not compared with the end of the map.
PeekUnfound(t, h) ==
    /\ "shared" \in open
    /\ refs' = Gain(refs, t, {h})
    /\ UNCHANGED <<live, raw, shared, unique, open>>

Peek(t, h) ==
    /\ "shared" \in open
    /\ refs' = Gain(refs, t, {h} \cap shared)
    /\ UNCHANGED <<live, raw, shared, unique, open>>

\* The thread destroys its shared_ptr; the last one calls the deleter.
DropRef(t, a) ==
    /\ a \in refs[t]
    /\ refs' = Lose(refs, t, a)
    /\ live' = IF a \in shared \/ \E u \in Threads : a \in refs'[u]
               THEN live ELSE live \ {a}
    /\ UNCHANGED <<raw, shared, unique, open>>

UniquePut(t, a) ==
    /\ "unique" \in open
    /\ a \in raw[t]
    /\ raw' = Lose(raw, t, a)
    /\ unique' = unique \cup {a}
    /\ live' = IF a \in unique THEN live \ {a} ELSE live
    /\ UNCHANGED <<refs, shared, open>>

\* Variant: the pointer is returned and the unique_ptr keeps it.
UniqueRemoveUnreleased(t, h) ==
    /\ "unique" \in open
    /\ raw' = Gain(raw, t, {h} \cap unique)
    /\ unique' = unique \ {h}
    /\ live' = live \ ({h} \cap unique)
    /\ UNCHANGED <<refs, shared, open>>

\* Variant: the entry stays in the map for the others.
UniqueRemoveKept(t, h) ==
    /\ "unique" \in open
    /\ raw' = Gain(raw, t, {h} \cap unique)
    /\ UNCHANGED <<live, refs, shared, unique, open>>

\* remove: the object is released to the caller.
UniqueRemove(t, h) ==
    /\ "unique" \in open
    /\ raw' = Gain(raw, t, {h} \cap unique)
    /\ unique' = unique \ {h}
    /\ UNCHANGED <<live, refs, shared, open>>

\* The destructors clear the maps.
DestroyShared ==
    /\ "shared" \in open
    /\ open' = open \ {"shared"}
    /\ shared' = {}
    /\ live' = {a \in live : a \in shared => \E t \in Threads : a \in refs[t]}
    /\ UNCHANGED <<raw, refs, unique>>

DestroyUnique ==
    /\ "unique" \in open
    /\ open' = open \ {"unique"}
    /\ unique' = {}
    /\ live' = live \ unique
    /\ UNCHANGED <<raw, refs, shared>>

Handles == Addresses \cup {Null}

Next ==
    \/ \E t \in Threads :
        \/ \E a \in Addresses :
               \/ New(t, a) \/ Delete(t, a) \/ DropRef(t, a)
               \/ SharedPut(t, a) \/ PutExisting(t, a) \/ UniquePut(t, a)
        \/ \E h \in Handles : SharedRemove(t, h) \/ Peek(t, h) \/ UniqueRemove(t, h)
    \/ DestroyShared \/ DestroyUnique

Spec == Init /\ [][Next]_vars

-----------------------------------------------------------------------------
Registries == {<<"registry", "shared">>, <<"registry", "unique">>}

OwnersOf(a) ==
    {<<"raw", t>> : t \in {u \in Threads : a \in raw[u]}}
    \cup {<<"ref", t>> : t \in {u \in Threads : a \in refs[u]}}
    \cup (IF a \in shared THEN {<<"registry", "shared">>} ELSE {})
    \cup (IF a \in unique THEN {<<"registry", "unique">>} ELSE {})

Ownership == INSTANCE Ownership WITH
    Owners <- ({"raw", "ref"} \X Threads) \cup Registries,
    Sole <- ({"raw"} \X Threads) \cup {<<"registry", "unique">>},
    owners <- [a \in Addresses |-> OwnersOf(a)]

\* No object is destroyed while a thread or a registry owns it, none remains
\* when nobody does and none is destroyed twice, although handles are addresses
\* that are used again and threads remove, peek, put and drop in any order.
ImplementsOwnership == Ownership!Spec

\* A plain pointer and the unique registry own alone: two threads that remove
\* one handle never both have the object, and a pointer that its owner puts is
\* not registered already, which is when put destroys what it is given.
OwnsAlone ==
    \A t \in Threads : \A a \in raw[t] :
        /\ a \notin shared \cup unique
        /\ \A u \in Threads : a \notin refs[u] /\ (u # t => a \notin raw[u])
=============================================================================
