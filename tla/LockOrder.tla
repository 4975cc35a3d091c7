------------------------------ MODULE LockOrder ------------------------------
(***************************************************************************)
(* The mutexes of wilton_core together.  Each entry point takes the one of *)
(* its component; three of them run foreign code while they hold it, which *)
(* calls entry points again and so takes further mutexes, the last one     *)
(* first to be given back:                                                 *)
(*                                                                         *)
(*   dyload     wilton_dyload runs the initializer of a library            *)
(*   cleaners   wilton_clean_tls runs the cleaners                         *)
(*   engines    script_engine_map constructs and destroys engines          *)
(*   registry   wiltoncall, which has released it when a callback runs     *)
(*                                                                         *)
(* What foreign code asks for is a parameter.  No mutex is recursive.      *)
(***************************************************************************)
EXTENDS Naturals, Sequences

CONSTANTS
    Threads,
    InitializerAsks,     \* the mutexes that initializers ask for
    CleanerAsks,         \* those that cleaners ask for
    EngineAsks           \* those that constructors and destructors of engines do

Mutexes == {"dyload", "cleaners", "engines", "registry"}

None == "none"

ASSUME LockAssumption ==
    /\ InitializerAsks \subseteq Mutexes
    /\ CleanerAsks \subseteq Mutexes
    /\ EngineAsks \subseteq Mutexes

VARIABLES
    held,        \* the mutexes each thread holds, in the order it took them
    waiting      \* the mutex each thread waits for

vars == <<held, waiting>>

\* No mutex is recursive: what a thread holds is a sequence without repetition.
TypeOK ==
    /\ held \in [Threads -> Seq(Mutexes)]
    /\ \A t \in Threads : \A i, j \in 1..Len(held[t]) :
           held[t][i] = held[t][j] => i = j
    /\ waiting \in [Threads -> Mutexes \cup {None}]

Init ==
    /\ held = [t \in Threads |-> <<>>]
    /\ waiting = [t \in Threads |-> None]

Holds(t, m) == \E i \in 1..Len(held[t]) : held[t][i] = m

Innermost(t) == held[t][Len(held[t])]

-----------------------------------------------------------------------------
\* Variant: the callback runs with the mutex of the registry held.
CallbackAsks == Mutexes

\* No method of wiltoncall_registry runs foreign code.
RegistryAsks == {}

\* What is asked for while a mutex is held.
Asks(m) ==
    {n \in Mutexes :
        \/ m = "dyload"   /\ n \in InitializerAsks
        \/ m = "cleaners" /\ n \in CleanerAsks
        \/ m = "engines"  /\ n \in EngineAsks
        \/ m = "registry" /\ n \in RegistryAsks}

\* An entry point is called: by the code of the thread, which may call any, or
\* by the foreign code that runs under the innermost mutex it holds.
Call(t, m) ==
    /\ waiting[t] = None
    /\ held[t] # <<>> => m \in Asks(Innermost(t))
    /\ waiting' = [waiting EXCEPT ![t] = m]
    /\ UNCHANGED held

\* Variant: the mutexes are recursive.
AcquireRecursive(t) ==
    /\ waiting[t] # None
    /\ \A u \in Threads \ {t} : ~Holds(u, waiting[t])
    /\ held' = [held EXCEPT ![t] = Append(@, waiting[t])]
    /\ waiting' = [waiting EXCEPT ![t] = None]

Acquire(t) ==
    /\ waiting[t] # None
    /\ \A u \in Threads : ~Holds(u, waiting[t])
    /\ held' = [held EXCEPT ![t] = Append(@, waiting[t])]
    /\ waiting' = [waiting EXCEPT ![t] = None]

\* The lock_guard of the innermost entry point goes out of scope.
Release(t) ==
    /\ waiting[t] = None
    /\ held[t] # <<>>
    /\ held' = [held EXCEPT ![t] = SubSeq(@, 1, Len(@) - 1)]
    /\ UNCHANGED waiting

Next ==
    \E t \in Threads : (\E m \in Mutexes : Call(t, m)) \/ Acquire(t) \/ Release(t)

Spec == Init /\ [][Next]_vars

-----------------------------------------------------------------------------
\* Each of these threads waits for a mutex that one of them holds, so that none
\* of them ever goes on.
Circular(S) ==
    /\ S # {}
    /\ \A t \in S : waiting[t] # None /\ \E u \in S : Holds(u, waiting[t])

\* A mutex has one holder, who holds it once: a thread that asks for one that it
\* holds already waits for itself.
OneHolder ==
    \A t, u \in Threads : \A i \in 1..Len(held[t]), j \in 1..Len(held[u]) :
        held[t][i] = held[u][j] => t = u /\ i = j

\* Initializers register calls and cleaners, cleaners erase engines: threads
\* that wait for each other in a circle can come about only through one that
\* constructs or destroys an engine and asks for more than the registry then.
CircularOnlyThroughEngines ==
    \A S \in SUBSET Threads :
        Circular(S) =>
            \E t \in S : Holds(t, "engines") /\ waiting[t] # "registry"
=============================================================================
