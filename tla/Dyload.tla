------------------------------- MODULE Dyload -------------------------------
(***************************************************************************)
(* src/dyload: wilton_dyload takes a mutex, looks the name up among those  *)
(* loaded before, has the platform load the shared library, runs the       *)
(* library's wilton_module_init and remembers the name, all with the mutex *)
(* held.  An initializer is foreign code: it may fail, and it may call     *)
(* wilton_dyload itself, which waits for the mutex its own thread holds.   *)
(*                                                                         *)
(* A library is the name its caller passes, name_len bytes long; CString   *)
(* is what the same pointer reads as a NUL-terminated string.  The two     *)
(* differ when the name contains a NUL or is a part of a longer buffer.    *)
(***************************************************************************)
EXTENDS Naturals

CONSTANTS
    Threads, NoThread,
    Libraries, NoLibrary,
    CString,         \* library -> what its name reads as up to the NUL
    Nesting,         \* libraries whose initializer may call wilton_dyload
    MaxLoads         \* bound: initializations of one library

ASSUME DyloadAssumption ==
    /\ NoThread \notin Threads
    /\ NoLibrary \notin Libraries
    /\ CString \in [Libraries -> Libraries]
    /\ Nesting \subseteq Libraries
    /\ MaxLoads \in Nat \ {0}

VARIABLES
    mutex,          \* the thread that holds the mutex
    registry,       \* the names remembered
    pc,             \* where in wilton_dyload each thread is
    loads, wanted, told     \* as in LoadOnce

vars == <<mutex, registry, pc, loads, wanted, told>>

InCriticalSection(t) == pc[t] \in {"enter", "load", "initializer", "insert", "nested"}

TypeOK ==
    /\ mutex \in Threads \cup {NoThread}
    /\ registry \subseteq Libraries
    /\ pc \in [Threads -> {"idle", "lock", "enter", "load", "initializer", "insert", "nested"}]
    /\ loads \in [Libraries -> 0..MaxLoads]
    /\ wanted \in [Threads -> Libraries \cup {NoLibrary}]
    /\ told \in [Threads -> {"none", "loaded", "error"}]

Init ==
    /\ mutex = NoThread
    /\ registry = {}
    /\ pc = [t \in Threads |-> "idle"]
    /\ loads = [lib \in Libraries |-> 0]
    /\ wanted = [t \in Threads |-> NoLibrary]
    /\ told = [t \in Threads |-> "none"]

-----------------------------------------------------------------------------
\* Parameters that are refused change nothing and are left out.
Ask(t, lib) ==
    /\ pc[t] = "idle"
    /\ pc' = [pc EXCEPT ![t] = "lock"]
    /\ wanted' = [wanted EXCEPT ![t] = lib]
    /\ told' = [told EXCEPT ![t] = "none"]
    /\ UNCHANGED <<mutex, registry, loads>>

\* Variant: wilton_dyload runs without the lock_guard.
LockOmitted(t) ==
    /\ pc[t] = "lock"
    /\ mutex' = t
    /\ pc' = [pc EXCEPT ![t] = "enter"]
    /\ UNCHANGED <<registry, loads, wanted, told>>

Lock(t) ==
    /\ pc[t] = "lock"
    /\ mutex = NoThread
    /\ mutex' = t
    /\ pc' = [pc EXCEPT ![t] = "enter"]
    /\ UNCHANGED <<registry, loads, wanted, told>>

\* Variant: an exception leaves without unlocking.
LeaveLocked(t, what) ==
    /\ mutex' = IF what = "error" THEN mutex ELSE NoThread
    /\ pc' = [pc EXCEPT ![t] = "idle"]
    /\ wanted' = [wanted EXCEPT ![t] = NoLibrary]
    /\ told' = [told EXCEPT ![t] = what]

\* wilton_dyload returns, with an error if something threw, and the lock_guard
\* goes out of scope.
Leave(t, what) ==
    /\ mutex' = NoThread
    /\ pc' = [pc EXCEPT ![t] = "idle"]
    /\ wanted' = [wanted EXCEPT ![t] = NoLibrary]
    /\ told' = [told EXCEPT ![t] = what]

Goto(t, label) ==
    /\ pc' = [pc EXCEPT ![t] = label]
    /\ UNCHANGED <<mutex, wanted, told>>

LookUp(t) ==
    /\ pc[t] = "enter"
    /\ \/ wanted[t] \in registry /\ Leave(t, "loaded")
       \/ wanted[t] \notin registry /\ Goto(t, "load")
    /\ UNCHANGED <<registry, loads>>

\* dyload_platform: the library or its entry point may not be found.
LoadPlatform(t) ==
    /\ pc[t] = "load"
    /\ Goto(t, "initializer") \/ Leave(t, "error")
    /\ UNCHANGED <<registry, loads>>

\* Variant: the error of the initializer is ignored.
RunIgnoring(t) ==
    /\ pc[t] = "initializer"
    /\ Goto(t, "insert")
    /\ loads' = [loads EXCEPT ![wanted[t]] = IF @ < MaxLoads THEN @ + 1 ELSE @]
             \/ UNCHANGED loads
    /\ UNCHANGED registry

\* wilton_module_init returns: with an error, or having done its work.
RunInitializer(t) ==
    /\ pc[t] = "initializer"
    /\ \/ /\ loads[wanted[t]] < MaxLoads
          /\ loads' = [loads EXCEPT ![wanted[t]] = @ + 1]
          /\ Goto(t, "insert")
       \/ /\ Leave(t, "error")
          /\ UNCHANGED loads
    /\ UNCHANGED registry

\* The initializer calls wilton_dyload: it locks the mutex once more.
NestedCall(t) ==
    /\ pc[t] = "initializer"
    /\ wanted[t] \in Nesting
    /\ Goto(t, "nested")
    /\ UNCHANGED <<registry, loads>>

\* Variant: the name is remembered after it has been moved from.
InsertMoved(t) ==
    /\ pc[t] = "insert"
    /\ Leave(t, "loaded")
    /\ registry' = registry \cup {wanted'[t]}
    /\ UNCHANGED loads

\* What is remembered is the C string, not the name that was looked up.
Insert(t) ==
    /\ pc[t] = "insert"
    /\ registry' = registry \cup {CString[wanted[t]]}
    /\ Leave(t, "loaded")
    /\ UNCHANGED loads

Step(t) ==
    LookUp(t) \/ LoadPlatform(t) \/ RunInitializer(t) \/ Insert(t)

Next ==
    \E t \in Threads :
        \/ \E lib \in Libraries : Ask(t, lib)
        \/ Lock(t)
        \/ Step(t)
        \/ NestedCall(t)

Spec == Init /\ [][Next]_vars

\* The thread inside wilton_dyload goes on, initializers return, and a free
\* mutex that is waited for is taken by somebody.
Fairness ==
    /\ \A t \in Threads : WF_vars(Step(t))
    /\ WF_vars(\E t \in Threads : Lock(t))

FairSpec == Spec /\ Fairness

-----------------------------------------------------------------------------
Once == INSTANCE LoadOnce

\* Each library is initialized at most once, and who is told that it is loaded
\* finds it initialized, whatever threads ask for it at the same time.
LoadsOnce == Once!Spec

\* The mutex is held by exactly the thread that is inside wilton_dyload, from
\* before the lookup until after the name is remembered or the failure known.
MutualExclusion ==
    \A t \in Threads : InCriticalSection(t) <=> mutex = t

\* A name is remembered when, and only when, its library has been initialized;
\* the thread that has just run the initializer is about to remember it.
RememberedWhenLoaded ==
    \A lib \in Libraries :
        loads[lib] > 0 <=>
            \/ lib \in registry
            \/ \E t \in Threads : pc[t] = "insert" /\ wanted[t] = lib

\* As long as no initializer calls wilton_dyload, every thread that is inside
\* it comes out again: no failure leaves the mutex locked.
BlockedOnlyByNesting ==
    [](\A t \in Threads : pc[t] # "nested") =>
        \A t \in Threads : mutex = t ~> mutex # t

\* The name of a library is its first name_len bytes (wilton.h:33,
\* wilton_dyload.cpp:71): loaded once under that name, it is not loaded again.
InitializedOnce ==
    \A lib \in Libraries : loads[lib] <= 1
=============================================================================
