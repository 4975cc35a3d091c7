----------------------------- MODULE DyloadProofs -----------------------------
(***************************************************************************)
(* Proofs about Dyload, for any number of threads and libraries.  The mutex*)
(* orders whole attempts and what is remembered is the name read as a C    *)
(* string, whatever the names are.  When they are NUL-terminated, a name   *)
(* that is not found is still not initialized when its initializer is run, *)
(* from which it follows that each library is initialized once.            *)
(***************************************************************************)
EXTENDS Dyload, TLAPS

\* A thread inside wilton_dyload knows what it is loading, and remembers only
\* what it has initialized.
Attempts ==
    \A t \in Threads :
        /\ pc[t] = "idle" <=> wanted[t] = NoLibrary
        /\ pc[t] = "insert" => loads[wanted[t]] > 0

\* The names that are remembered are those that the initialized libraries read
\* as, those excepted that a thread is about to remember.
CStringsRemembered ==
    /\ \A lib \in Libraries :
           loads[lib] > 0 =>
               \/ CString[lib] \in registry
               \/ \E t \in Threads : pc[t] = "insert" /\ wanted[t] = lib
    /\ \A name \in registry :
           \E lib \in Libraries : CString[lib] = name /\ loads[lib] > 0

Inv ==
    /\ TypeOK
    /\ MutualExclusion
    /\ Attempts
    /\ CStringsRemembered

\* The initial state satisfies the invariant.
LEMMA InitInv == Init => Inv
  BY DyloadAssumption
  DEF Init, Inv, TypeOK, MutualExclusion, InCriticalSection, Attempts, CStringsRemembered

\* What a thread inside wilton_dyload can rely on.
LEMMA Inside ==
    ASSUME Inv, NEW t \in Threads, InCriticalSection(t)
    PROVE  /\ mutex = t
           /\ wanted[t] \in Libraries
           /\ \A u \in Threads \ {t} : pc[u] \in {"idle", "lock"}
  BY DEF Inv, TypeOK, MutualExclusion, InCriticalSection, Attempts

LEMMA LeaveIs ==
    ASSUME Inv, NEW t \in Threads, NEW what \in {"loaded", "error"}, Leave(t, what)
    PROVE  /\ mutex' = NoThread
           /\ pc' = [pc EXCEPT ![t] = "idle"]
           /\ wanted' = [wanted EXCEPT ![t] = NoLibrary]
           /\ wanted' \in [Threads -> Libraries \cup {NoLibrary}]
           /\ told' \in [Threads -> {"none", "loaded", "error"}]
  BY DEF Leave, Inv, TypeOK

\* A thread that leaves, without anything that was not remembered before being
\* initialized, preserves the invariant.
LEMMA LeaveInv ==
    ASSUME Inv, NEW t \in Threads, NEW what \in {"loaded", "error"}, Leave(t, what),
           InCriticalSection(t), pc[t] # "insert", UNCHANGED <<registry, loads>>
    PROVE  Inv'
<1> USE DyloadAssumption DEF TypeOK, InCriticalSection
<1>1. mutex = t /\ wanted[t] \in Libraries /\ \A u \in Threads \ {t} : pc[u] \in {"idle", "lock"}
  BY Inside
<1>2. TypeOK'
  BY LeaveIs DEF Inv
<1>3. MutualExclusion' /\ Attempts'
  BY <1>1, LeaveIs DEF Inv, MutualExclusion, Attempts
<1>4. CStringsRemembered'
  BY <1>1, LeaveIs DEF Inv, CStringsRemembered
<1> QED
  BY <1>2, <1>3, <1>4 DEF Inv

\* A thread that goes on inside wilton_dyload, before it has initialized anything.
LEMMA GotoInv ==
    ASSUME Inv, NEW t \in Threads, NEW label \in {"load", "initializer", "nested"},
           Goto(t, label), InCriticalSection(t), pc[t] # "insert",
           UNCHANGED <<registry, loads>>
    PROVE  Inv'
<1> USE DyloadAssumption DEF TypeOK, InCriticalSection, Goto
<1>1. mutex = t /\ wanted[t] \in Libraries /\ \A u \in Threads \ {t} : pc[u] \in {"idle", "lock"}
  BY Inside
<1>2. TypeOK' /\ MutualExclusion' /\ Attempts'
  BY <1>1 DEF Inv, MutualExclusion, Attempts
<1>3. CStringsRemembered'
  BY <1>1 DEF Inv, CStringsRemembered
<1> QED
  BY <1>2, <1>3 DEF Inv

\* The initializer has done its work: what it has initialized is new, or was
\* initialized before.
LEMMA InitializedInv ==
    ASSUME Inv, NEW t \in Threads, pc[t] = "initializer", Goto(t, "insert"),
           loads[wanted[t]] < MaxLoads, loads' = [loads EXCEPT ![wanted[t]] = @ + 1],
           UNCHANGED registry
    PROVE  Inv'
<1> USE DyloadAssumption DEF TypeOK, InCriticalSection, Goto
<1>1. mutex = t /\ wanted[t] \in Libraries /\ \A u \in Threads \ {t} : pc[u] \in {"idle", "lock"}
  BY Inside
<1>2. loads' \in [Libraries -> 0..MaxLoads] /\ loads'[wanted[t]] > 0
  BY <1>1 DEF Inv
<1>3. \A lib \in Libraries : lib # wanted[t] => loads'[lib] = loads[lib]
  BY <1>1 DEF Inv
<1>4. TypeOK' /\ MutualExclusion'
  BY <1>1, <1>2 DEF Inv, MutualExclusion
<1>5. Attempts'
  BY <1>1, <1>2 DEF Inv, Attempts
<1>6. CStringsRemembered'
  <2>1. pc'[t] = "insert"
    BY DEF Inv
  <2>2. \A lib \in Libraries : loads'[lib] > 0 => lib = wanted[t] \/ CString[lib] \in registry
    BY <1>1, <1>3 DEF Inv, CStringsRemembered
  <2>3. \A lib \in Libraries : loads[lib] > 0 => loads'[lib] > 0
    BY <1>2, <1>3 DEF Inv
  <2> QED
    BY <2>1, <2>2, <2>3 DEF Inv, CStringsRemembered
<1> QED
  BY <1>4, <1>5, <1>6 DEF Inv

LEMMA InsertInv ==
    ASSUME Inv, NEW t \in Threads, Insert(t) PROVE Inv'
<1> USE DyloadAssumption DEF TypeOK, InCriticalSection
<1>1. /\ mutex = t /\ wanted[t] \in Libraries /\ pc[t] = "insert"
      /\ \A u \in Threads \ {t} : pc[u] \in {"idle", "lock"}
  BY Inside DEF Insert
<1>2. registry' = registry \cup {CString[wanted[t]]} /\ loads' = loads /\ Leave(t, "loaded")
  BY DEF Insert
<1>3. loads[wanted[t]] > 0 /\ CString[wanted[t]] \in Libraries
  BY <1>1 DEF Inv, Attempts
<1>4. TypeOK'
  BY <1>2, <1>3, LeaveIs DEF Inv
<1>5. MutualExclusion' /\ Attempts'
  BY <1>1, <1>2, LeaveIs DEF Inv, MutualExclusion, Attempts
<1>6. CStringsRemembered'
  <2>1. \A lib \in Libraries : loads[lib] > 0 => CString[lib] \in registry'
    BY <1>1, <1>2 DEF Inv, CStringsRemembered
  <2> QED
    BY <1>1, <1>2, <1>3, <2>1 DEF Inv, CStringsRemembered
<1> QED
  BY <1>4, <1>5, <1>6 DEF Inv

\* Every step preserves the invariant.
LEMMA StepInv ==
    ASSUME Inv, [Next]_vars PROVE Inv'
<1> USE DyloadAssumption DEF InCriticalSection
<1>1. ASSUME NEW t \in Threads, NEW lib \in Libraries, Ask(t, lib)
      PROVE  Inv'
  <2>1. TypeOK' /\ MutualExclusion' /\ Attempts'
    BY <1>1 DEF Ask, Inv, TypeOK, MutualExclusion, Attempts
  <2>2. CStringsRemembered'
    BY <1>1 DEF Ask, Inv, TypeOK, CStringsRemembered
  <2> QED
    BY <2>1, <2>2 DEF Inv
<1>2. ASSUME NEW t \in Threads, Lock(t)
      PROVE  Inv'
  <2>1. TypeOK' /\ MutualExclusion' /\ Attempts'
    BY <1>2 DEF Lock, Inv, TypeOK, MutualExclusion, Attempts
  <2>2. CStringsRemembered'
    BY <1>2 DEF Lock, Inv, TypeOK, CStringsRemembered
  <2> QED
    BY <2>1, <2>2 DEF Inv
<1>3. ASSUME NEW t \in Threads, LookUp(t) \/ LoadPlatform(t) \/ NestedCall(t)
      PROVE  Inv'
  BY <1>3, LeaveInv, GotoInv DEF LookUp, LoadPlatform, NestedCall
<1>4. ASSUME NEW t \in Threads, RunInitializer(t)
      PROVE  Inv'
  BY <1>4, LeaveInv, InitializedInv DEF RunInitializer
<1>5. CASE UNCHANGED vars
  BY <1>5 DEF vars, Inv, TypeOK, MutualExclusion, Attempts, CStringsRemembered
<1> QED
  BY <1>1, <1>2, <1>3, <1>4, <1>5, InsertInv DEF Next, Step

\* One thread at a time loads libraries (the lock_guard of wilton_dyload), and a
\* name is remembered when and only when a library has been initialized that
\* reads as it, whether names are NUL-terminated or not.
THEOREM Invariance == Spec => [](TypeOK /\ MutualExclusion /\ CStringsRemembered)
<1>1. Inv => TypeOK /\ MutualExclusion /\ CStringsRemembered
  BY DEF Inv
<1>2. Inv /\ [Next]_vars => Inv'
  BY StepInv
<1> QED
  BY InitInv, <1>1, <1>2, PTL DEF Spec

-----------------------------------------------------------------------------
(* Names that are NUL-terminated.                                          *)

\* Names read as the same C string.
NamesAreTerminated == \A lib \in Libraries : CString[lib] = lib

\* No library is initialized twice, because from the lookup to the end of the
\* initializer the one that is loaded is not initialized.
AttemptIsFirst ==
    /\ \A lib \in Libraries : loads[lib] \in {0, 1}
    /\ \A t \in Threads : pc[t] \in {"load", "initializer", "nested"} => loads[wanted[t]] = 0

LEMMA Remembered ==
    ASSUME NamesAreTerminated, Inv PROVE RememberedWhenLoaded
<1> SUFFICES ASSUME NEW lib \in Libraries
             PROVE  loads[lib] > 0 <=>
                        \/ lib \in registry
                        \/ \E t \in Threads : pc[t] = "insert" /\ wanted[t] = lib
  BY DEF RememberedWhenLoaded
<1>1. lib \in registry => loads[lib] > 0
  BY DEF Inv, CStringsRemembered, NamesAreTerminated
<1>2. \A t \in Threads : pc[t] = "insert" /\ wanted[t] = lib => loads[lib] > 0
  BY DEF Inv, Attempts
<1> QED
  BY <1>1, <1>2 DEF Inv, CStringsRemembered, NamesAreTerminated

LEMMA AttemptStep ==
    ASSUME NamesAreTerminated, Inv, AttemptIsFirst, [Next]_vars
    PROVE  AttemptIsFirst'
<1> USE DEF Inv, TypeOK, AttemptIsFirst
<1>1. ASSUME NEW t \in Threads, NEW lib \in Libraries, Ask(t, lib)
      PROVE  AttemptIsFirst'
  BY <1>1 DEF Ask
<1>2. ASSUME NEW t \in Threads, Lock(t) \/ LoadPlatform(t) \/ NestedCall(t) \/ Insert(t)
      PROVE  AttemptIsFirst'
  <2>1. CASE Lock(t)
    BY <2>1 DEF Lock
  <2>2. CASE Insert(t)
    BY <2>2 DEF Insert, Leave
  <2>3. CASE LoadPlatform(t) \/ NestedCall(t)
    BY <2>3 DEF LoadPlatform, NestedCall, Goto, Leave
  <2> QED
    BY <1>2, <2>1, <2>2, <2>3
<1>3. ASSUME NEW t \in Threads, LookUp(t)
      PROVE  AttemptIsFirst'
  <2>1. CASE Leave(t, "loaded")
    BY <1>3, <2>1 DEF LookUp, Leave
  <2>2. CASE wanted[t] \notin registry /\ Goto(t, "load")
    <3>1. wanted[t] \in Libraries /\ \A u \in Threads : pc[u] # "insert"
      BY <1>3, Inside DEF LookUp, InCriticalSection
    <3>2. loads[wanted[t]] = 0
      BY <2>2, <3>1, Remembered DEF RememberedWhenLoaded
    <3> QED
      BY <1>3, <2>2, <3>2 DEF LookUp, Goto
  <2> QED
    BY <1>3, <2>1, <2>2 DEF LookUp
<1>4. ASSUME NEW t \in Threads, RunInitializer(t)
      PROVE  AttemptIsFirst'
  <2>1. /\ wanted[t] \in Libraries /\ pc[t] = "initializer"
        /\ \A u \in Threads \ {t} : pc[u] \in {"idle", "lock"}
    BY <1>4, Inside DEF RunInitializer, InCriticalSection
  <2>2. loads[wanted[t]] = 0
    BY <2>1
  <2>3. CASE Leave(t, "error") /\ UNCHANGED loads
    BY <2>3 DEF Leave
  <2>4. CASE loads' = [loads EXCEPT ![wanted[t]] = @ + 1] /\ Goto(t, "insert")
    BY <2>1, <2>2, <2>4 DEF Goto
  <2> QED
    BY <1>4, <2>3, <2>4 DEF RunInitializer
<1>5. CASE UNCHANGED vars
  BY <1>5 DEF vars
<1> QED
  BY <1>1, <1>2, <1>3, <1>4, <1>5 DEF Next, Step

LEMMA AttemptHolds ==
    ASSUME NamesAreTerminated PROVE Spec => [](Inv /\ AttemptIsFirst)
<1>1. Init => AttemptIsFirst
  BY DEF Init, AttemptIsFirst
<1>2. Inv /\ [Next]_vars => Inv'
  BY StepInv
<1>3. Inv /\ AttemptIsFirst /\ [Next]_vars => AttemptIsFirst'
  BY AttemptStep
<1> QED
  BY InitInv, <1>1, <1>2, <1>3, PTL DEF Spec

\* When names are NUL-terminated, a name is remembered when and only when its
\* library has been initialized (wilton_dyload).
THEOREM NamesRemembered ==
    ASSUME NamesAreTerminated PROVE Spec => []RememberedWhenLoaded
<1>1. Inv => RememberedWhenLoaded
  BY Remembered
<1> QED
  BY AttemptHolds, <1>1, PTL

\* What wilton.h promises of wilton_dyload: no library is initialized twice.  The
\* run dyload_name shows that it is not so for names with bytes after the NUL.
THEOREM NoneTwice ==
    ASSUME NamesAreTerminated PROVE Spec => []InitializedOnce
<1>1. AttemptIsFirst => InitializedOnce
  BY DEF AttemptIsFirst, InitializedOnce
<1> QED
  BY AttemptHolds, <1>1, PTL

\* Each library is initialized at most once, and who is told that it is loaded
\* finds it initialized (wilton_dyload implements LoadOnce).
THEOREM Refinement ==
    ASSUME NamesAreTerminated
    PROVE  Spec => LoadsOnce
<1>1. Init => Once!Init
  BY DEF Init, Once!Init
<1>2. Inv /\ AttemptIsFirst /\ [Next]_vars => [Once!Next]_(Once!loadVars)
  <2> SUFFICES ASSUME Inv, AttemptIsFirst, [Next]_vars
               PROVE  Once!Next \/ UNCHANGED Once!loadVars
    OBVIOUS
  <2> USE DyloadAssumption DEF Once!loadVars
  <2>1. ASSUME NEW t \in Threads, NEW lib \in Libraries, Ask(t, lib)
        PROVE  Once!Ask(t, lib)
    BY <2>1 DEF Ask, Once!Ask, Inv, Attempts
  <2>2. ASSUME NEW t \in Threads, LookUp(t)
        PROVE  Once!AnswerLoaded(t) \/ UNCHANGED Once!loadVars
    <3>1. wanted[t] \in Libraries
      BY <2>2, Inside DEF LookUp, InCriticalSection
    <3>2. wanted[t] \in registry => loads[wanted[t]] = 1
      BY <3>1, Remembered DEF RememberedWhenLoaded, AttemptIsFirst
    <3> QED
      BY <2>2, <3>1, <3>2 DEF LookUp, Leave, Goto, Once!AnswerLoaded
  <2>3. ASSUME NEW t \in Threads, LoadPlatform(t)
        PROVE  Once!AnswerError(t) \/ UNCHANGED Once!loadVars
    <3>1. wanted[t] \in Libraries /\ loads[wanted[t]] = 0
      BY <2>3, Inside DEF LoadPlatform, InCriticalSection, AttemptIsFirst
    <3> QED
      BY <2>3, <3>1 DEF LoadPlatform, Leave, Goto, Once!AnswerError
  <2>4. ASSUME NEW t \in Threads, RunInitializer(t)
        PROVE  Once!Initialize(t) \/ Once!AnswerError(t)
    <3>1. wanted[t] \in Libraries /\ loads[wanted[t]] = 0
      BY <2>4, Inside DEF RunInitializer, InCriticalSection, AttemptIsFirst
    <3> QED
      BY <2>4, <3>1
      DEF RunInitializer, Leave, Goto, Once!Initialize, Once!AnswerError, Inv, TypeOK
  <2>5. ASSUME NEW t \in Threads, Insert(t)
        PROVE  Once!AnswerLoaded(t)
    <3>1. wanted[t] \in Libraries /\ loads[wanted[t]] = 1
      BY <2>5, Inside DEF Insert, InCriticalSection, Inv, Attempts, AttemptIsFirst
    <3> QED
      BY <2>5, <3>1 DEF Insert, Leave, Once!AnswerLoaded
  <2>6. ASSUME NEW t \in Threads, Lock(t) \/ NestedCall(t)
        PROVE  UNCHANGED Once!loadVars
    BY <2>6 DEF Lock, NestedCall, Goto
  <2>7. CASE UNCHANGED vars
    BY <2>7 DEF vars
  <2> QED
    BY <2>1, <2>2, <2>3, <2>4, <2>5, <2>6, <2>7 DEF Next, Step, Once!Next
<1> QED
  BY AttemptHolds, <1>1, <1>2, PTL DEF Spec, LoadsOnce, Once!Spec
=============================================================================
