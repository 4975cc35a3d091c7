--------------------------- MODULE ScriptEngineMap ---------------------------
(***************************************************************************)
(* include/wilton/support/script_engine_map.hpp: one script engine per     *)
(* thread, constructed under the mutex when the thread first needs it and  *)
(* kept in a std::map under the thread's id.  run_script and               *)
(* run_garbage_collector use the engine through a reference into the map   *)
(* after the mutex is released, while clean_thread_local, called with any  *)
(* id, erases engines.  Scripts call back into the program, so that uses   *)
(* of a thread's engine nest.                                              *)
(***************************************************************************)
EXTENDS Naturals, Sequences

CONSTANTS
    Threads, NoThread,      \* ids of threads
    Engines, NoEngine,      \* engine objects
    MaxDepth                \* bound: uses of an engine nested on one thread

ASSUME EngineAssumption ==
    /\ NoThread \notin Threads
    /\ NoEngine \notin Engines
    /\ MaxDepth \in Nat

VARIABLES
    mutex,      \* the thread that holds the mutex
    engines,    \* the map: thread -> engine
    code,       \* whether the static init code has been loaded
    pc,         \* where in its method each thread is
    want,       \* the id whose engine each thread is erasing
    uses,       \* the references each thread's stack holds, innermost last
    live        \* the engine objects that exist

vars == <<mutex, engines, code, pc, want, uses, live>>

InCriticalSection(t) == pc[t] \in {"find", "load", "construct", "erase"}

Labels == {"idle", "lock_run", "find", "load", "construct", "lock_clean", "erase"}

TypeOK ==
    /\ mutex \in Threads \cup {NoThread}
    /\ engines \in [Threads -> Engines \cup {NoEngine}]
    /\ code \in BOOLEAN
    /\ pc \in [Threads -> Labels]
    /\ want \in [Threads -> Threads \cup {NoThread}]
    /\ uses \in [Threads -> Seq(Engines)]
    /\ live \subseteq Engines

Init ==
    /\ mutex = NoThread
    /\ engines = [t \in Threads |-> NoEngine]
    /\ code = FALSE
    /\ pc = [t \in Threads |-> "idle"]
    /\ want = [t \in Threads |-> NoThread]
    /\ uses = [t \in Threads |-> <<>>]
    /\ live = {}

-----------------------------------------------------------------------------
Goto(t, label) == pc' = [pc EXCEPT ![t] = label]

\* The lock_guard goes out of scope when the method returns or throws.
Unlock(t) == mutex' = NoThread /\ Goto(t, "idle")

\* Variant: what throws leaves the mutex locked.
ThrowLocked(t) == mutex' = t /\ Goto(t, "idle")

Throw(t) == Unlock(t)

\* thread_local_engine returns the reference and the engine is used.
Use(t, e) ==
    /\ Unlock(t)
    /\ uses' = [uses EXCEPT ![t] = Append(@, e)]

CallRun(t) ==
    /\ pc[t] = "idle"
    /\ Len(uses[t]) < MaxDepth
    /\ Goto(t, "lock_run")
    /\ UNCHANGED <<mutex, engines, code, want, uses, live>>

\* clean_thread_local is passed an id by wilton_clean_tls, which anybody calls.
CallClean(t, id) ==
    /\ pc[t] = "idle"
    /\ want' = [want EXCEPT ![t] = id]
    /\ Goto(t, "lock_clean")
    /\ UNCHANGED <<mutex, engines, code, uses, live>>

Lock(t) ==
    /\ mutex = NoThread
    /\ mutex' = t
    /\ \/ pc[t] = "lock_run" /\ Goto(t, "find")
       \/ pc[t] = "lock_clean" /\ Goto(t, "erase")
    /\ UNCHANGED <<engines, code, want, uses, live>>

\* Variant: an engine is constructed for every use.
FindNothing(t) ==
    /\ pc[t] = "find"
    /\ Goto(t, "load")
    /\ UNCHANGED <<mutex, engines, code, want, uses, live>>

Find(t) ==
    /\ pc[t] = "find"
    /\ \/ engines[t] # NoEngine /\ Use(t, engines[t])
       \/ engines[t] = NoEngine /\ Goto(t, "load") /\ UNCHANGED <<mutex, uses>>
    /\ UNCHANGED <<engines, code, want, live>>

\* load_init_code: the static is constructed once; if the configuration or the
\* resource cannot be loaded the exception leaves it to the next caller.
LoadInitCode(t) ==
    /\ pc[t] = "load"
    /\ \/ code' = TRUE /\ Goto(t, "construct") /\ UNCHANGED mutex
       \/ ~code /\ Throw(t) /\ UNCHANGED code
    /\ UNCHANGED <<engines, want, uses, live>>

\* A new engine is none that exists or that a stale reference still refers to.
Referenced == UNION {{uses[t][i] : i \in 1..Len(uses[t])} : t \in Threads}

\* Engine(code) may throw; otherwise the engine is moved into the map.
Construct(t) ==
    /\ pc[t] = "construct"
    /\ \/ /\ \E e \in Engines \ (live \cup Referenced) :
                /\ live' = live \cup {e}
                /\ engines' = [engines EXCEPT ![t] = e]
                /\ Use(t, e)
       \/ Throw(t) /\ UNCHANGED <<engines, uses, live>>
    /\ UNCHANGED <<code, want>>

\* The script, or the garbage collector, has finished.
FinishUse(t) ==
    /\ pc[t] = "idle"
    /\ uses[t] # <<>>
    /\ uses' = [uses EXCEPT ![t] = SubSeq(@, 1, Len(@) - 1)]
    /\ UNCHANGED <<mutex, engines, code, pc, want, live>>

\* Variant: the engine of the calling thread is erased.
EraseOwn(t) ==
    /\ pc[t] = "erase"
    /\ live' = live \ {engines[t]}
    /\ engines' = [engines EXCEPT ![t] = NoEngine]
    /\ want' = [want EXCEPT ![t] = NoThread]
    /\ Unlock(t)
    /\ UNCHANGED <<code, uses>>

\* engines.erase destroys the engine, if the id has one.
Erase(t) ==
    /\ pc[t] = "erase"
    /\ live' = live \ {engines[want[t]]}
    /\ engines' = [engines EXCEPT ![want[t]] = NoEngine]
    /\ want' = [want EXCEPT ![t] = NoThread]
    /\ Unlock(t)
    /\ UNCHANGED <<code, uses>>

Next ==
    \E t \in Threads :
        \/ CallRun(t) \/ (\E id \in Threads : CallClean(t, id))
        \/ Lock(t) \/ Find(t) \/ LoadInitCode(t) \/ Construct(t) \/ Erase(t)
        \/ FinishUse(t)

Spec == Init /\ [][Next]_vars

-----------------------------------------------------------------------------
\* The map is accessed by one thread at a time, and an engine is constructed by
\* one thread at a time; every exception on the way gives the mutex back.
MutualExclusion ==
    \A t \in Threads : InCriticalSection(t) <=> mutex = t

\* An engine serves one thread: the map holds exactly the engines that exist,
\* each under one id, and a reference that is still good is to the engine of
\* the thread that uses it.  An engine replaced while an outer script runs in it
\* would be neither.
EngineOfItsThread ==
    /\ live = {engines[t] : t \in Threads} \ {NoEngine}
    /\ \A t, u \in Threads : t # u /\ engines[t] # NoEngine => engines[t] # engines[u]
    /\ \A t \in Threads : \A i \in 1..Len(uses[t]) :
           uses[t][i] \in live => uses[t][i] = engines[t]

\* An engine in use is destroyed only by a call of clean_thread_local for the
\* id of the thread that uses it: neither the engines constructed for others
\* nor the cleaning of others invalidates the reference.
DestroyedOnlyByCleaning ==
    [][\A t \in Threads : \A i \in 1..Len(uses[t]) :
           uses[t][i] \in live \ live' =>
               \E u \in Threads : pc[u] = "erase" /\ want[u] = t]_vars
=============================================================================
