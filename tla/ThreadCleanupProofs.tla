------------------------- MODULE ThreadCleanupProofs -------------------------
(***************************************************************************)
(* Proofs about ScriptEngineMap and ThreadCleanup, for any number of       *)
(* threads, engines and cleaners and uses nested to any depth.             *)
(***************************************************************************)
EXTENDS ThreadCleanup, SequenceTheorems, TLAPS

-----------------------------------------------------------------------------
(* The map of script engines on its own.                                   *)

\* What a thread has found out or was told is still so when it acts on it: that
\* the map has no engine for it, and whose engine it erases.
Pending ==
    \A t \in Threads :
        /\ pc[t] \in {"load", "construct"} => engines[t] = NoEngine
        /\ pc[t] \in {"lock_clean", "erase"} => want[t] \in Threads

Inv == TypeOK /\ MutualExclusion /\ EngineOfItsThread /\ Pending

\* What beginning a use does to the references of a thread.
LEMMA Appended ==
    ASSUME NEW s \in Seq(Engines), NEW e \in Engines
    PROVE  /\ Append(s, e) \in Seq(Engines)
           /\ \A i \in 1..Len(Append(s, e)) :
                  \/ Append(s, e)[i] = e
                  \/ i \in 1..Len(s) /\ Append(s, e)[i] = s[i]
  OBVIOUS

\* What finishing the innermost use does.
LEMMA Popped ==
    ASSUME NEW s \in Seq(Engines), s # <<>>
    PROVE  /\ SubSeq(s, 1, Len(s) - 1) \in Seq(Engines)
           /\ \A i \in 1..Len(SubSeq(s, 1, Len(s) - 1)) :
                  i \in 1..Len(s) /\ SubSeq(s, 1, Len(s) - 1)[i] = s[i]
<1>1. Len(s) \in Nat \ {0}
  BY EmptySeq
<1> DEFINE n == Len(s) - 1
<1>2. n \in Nat /\ \A i \in 1..n : s[i] \in Engines
  BY <1>1
<1> HIDE DEF n
<1>3. /\ SubSeq(s, 1, n) \in Seq(Engines)
      /\ Len(SubSeq(s, 1, n)) = n
      /\ \A i \in 1..n : SubSeq(s, 1, n)[i] = s[i]
  BY <1>2, SubSeqProperties
<1> QED
  BY <1>1, <1>3 DEF n

\* A thread that releases the mutex in its critical section leaves nobody in one.
LEMMA Unlocked ==
    ASSUME TypeOK, MutualExclusion, NEW t \in Threads, InCriticalSection(t), Unlock(t)
    PROVE  MutualExclusion' /\ mutex' = NoThread /\ pc' = [pc EXCEPT ![t] = "idle"]
  BY EngineAssumption DEF TypeOK, MutualExclusion, InCriticalSection, Unlock, Goto

\* The initial state satisfies the invariant.
LEMMA InitInv == Init => Inv
<1> SUFFICES ASSUME Init PROVE Inv
  OBVIOUS
<1>1. TypeOK
  <2>1. [t \in Threads |-> <<>>] \in [Threads -> Seq(Engines)]
    BY EmptySeq
  <2> QED
    BY <2>1 DEF Init, TypeOK, Labels
<1>2. MutualExclusion
  BY EngineAssumption DEF Init, MutualExclusion, InCriticalSection
<1>3. Pending
  BY DEF Init, Pending
<1>4. EngineOfItsThread
  BY DEF Init, EngineOfItsThread
<1> QED
  BY <1>1, <1>2, <1>3, <1>4 DEF Inv

\* The steps that change neither the map nor the references.
LEMMA CallInv ==
    ASSUME Inv, NEW t \in Threads, CallRun(t) \/ \E id \in Threads : CallClean(t, id)
    PROVE  Inv'
<1> USE DEF Inv, CallRun, CallClean, Goto
<1>1. TypeOK'
  BY DEF TypeOK, Labels
<1>2. MutualExclusion'
  BY DEF TypeOK, MutualExclusion, InCriticalSection
<1>3. Pending'
  BY DEF TypeOK, Pending
<1>4. EngineOfItsThread'
  BY DEF EngineOfItsThread
<1> QED
  BY <1>1, <1>2, <1>3, <1>4

\* The lock_guard preserves the invariant.
LEMMA LockInv ==
    ASSUME Inv, NEW t \in Threads, Lock(t)
    PROVE  Inv'
<1> USE DEF Inv, Lock, Goto
<1>1. TypeOK' /\ Pending'
  BY DEF TypeOK, Labels, Pending
<1>2. MutualExclusion'
  BY EngineAssumption DEF TypeOK, MutualExclusion, InCriticalSection
<1>3. EngineOfItsThread'
  BY DEF EngineOfItsThread
<1> QED
  BY <1>1, <1>2, <1>3

\* A use begins with the engine of the thread.
LEMMA UseInv ==
    ASSUME Inv, NEW t \in Threads, NEW e \in Engines, InCriticalSection(t), Use(t, e),
           TypeOK', Pending',
           \/ /\ e = engines[t]
              /\ UNCHANGED <<engines, live>>
           \/ /\ engines[t] = NoEngine
              /\ e \notin live \cup Referenced
              /\ live' = live \cup {e}
              /\ engines' = [engines EXCEPT ![t] = e]
    PROVE  Inv'
<1>1. MutualExclusion'
  BY Unlocked DEF Inv, Use
<1>2. /\ uses' = [uses EXCEPT ![t] = Append(uses[t], e)]
      /\ uses \in [Threads -> Seq(Engines)] /\ engines \in [Threads -> Engines \cup {NoEngine}]
      /\ live \subseteq Engines
  BY DEF Inv, TypeOK, Use
<1>3. \A i \in 1..Len(uses'[t]) :
          uses'[t][i] = e \/ (i \in 1..Len(uses[t]) /\ uses'[t][i] = uses[t][i])
  BY <1>2, Appended
<1>4. \A u \in Threads \ {t} : uses'[u] = uses[u]
  BY <1>2
<1>5. engines'[t] = e /\ \A u \in Threads \ {t} : engines'[u] = engines[u]
  BY <1>2
<1>6. /\ live = {engines[u] : u \in Threads} \ {NoEngine}
      /\ \A u, v \in Threads : u # v /\ engines[u] # NoEngine => engines[u] # engines[v]
      /\ \A u \in Threads : \A i \in 1..Len(uses[u]) :
             uses[u][i] \in live => uses[u][i] = engines[u]
  BY DEF Inv, EngineOfItsThread
<1>7. CASE e = engines[t] /\ UNCHANGED <<engines, live>>
  <2>1. EngineOfItsThread'
    BY <1>3, <1>4, <1>6, <1>7 DEF EngineOfItsThread
  <2> QED
    BY <1>1, <2>1 DEF Inv
<1>8. CASE /\ engines[t] = NoEngine /\ e \notin live \cup Referenced
           /\ live' = live \cup {e} /\ engines' = [engines EXCEPT ![t] = e]
  <2>1. live' = {engines'[u] : u \in Threads} \ {NoEngine}
    <3>1. \A x \in live' : x \in {engines'[u] : u \in Threads} \ {NoEngine}
      BY <1>5, <1>6, <1>8, EngineAssumption
    <3>2. \A u \in Threads : engines'[u] # NoEngine => engines'[u] \in live'
      BY <1>5, <1>6, <1>8
    <3> QED
      BY <3>1, <3>2
  <2>2. \A u, v \in Threads : u # v /\ engines'[u] # NoEngine => engines'[u] # engines'[v]
    <3>1. \A u \in Threads : engines[u] # e
      BY <1>6, <1>8, EngineAssumption
    <3> QED
      BY <1>5, <1>6, <3>1
  <2>3. ASSUME NEW u \in Threads, NEW i \in 1..Len(uses[u])
        PROVE  uses[u][i] # e
    BY <1>8 DEF Referenced
  <2>4. ASSUME NEW u \in Threads, NEW i \in 1..Len(uses'[u]), uses'[u][i] \in live'
        PROVE  uses'[u][i] = engines'[u]
    <3>1. CASE u = t
      <4>1. ASSUME i \in 1..Len(uses[t]), uses'[t][i] = uses[t][i], uses[t][i] # e
            PROVE  FALSE
        BY <1>6, <1>8, <2>4, <3>1, <4>1
      <4> QED
        BY <1>3, <1>5, <2>4, <3>1, <4>1
    <3>2. CASE u # t
      BY <1>4, <1>5, <1>6, <1>8, <2>3, <2>4, <3>2
    <3> QED
      BY <3>1, <3>2
  <2>5. EngineOfItsThread'
    BY <2>1, <2>2, <2>4 DEF EngineOfItsThread
  <2> QED
    BY <1>1, <2>5 DEF Inv
<1> QED
  BY <1>7, <1>8

\* Looking up the engine preserves the invariant.
LEMMA FindInv ==
    ASSUME Inv, NEW t \in Threads, Find(t)
    PROVE  Inv'
<1>1. InCriticalSection(t) /\ pc[t] = "find"
  BY DEF Find, InCriticalSection
<1>2. CASE engines[t] # NoEngine /\ Use(t, engines[t])
  <2>1. engines[t] \in Engines /\ UNCHANGED <<engines, code, want, live>>
    BY <1>2 DEF Inv, TypeOK, Find
  <2>2. TypeOK' /\ Pending'
    BY <1>2, <2>1, Appended
    DEF Inv, TypeOK, Labels, Pending, Use, Unlock, Goto
  <2> QED
    BY <1>1, <1>2, <2>1, <2>2, UseInv
<1>3. CASE engines[t] = NoEngine /\ Goto(t, "load") /\ UNCHANGED <<mutex, uses>>
  <2>1. TypeOK' /\ MutualExclusion' /\ Pending'
    BY <1>1, <1>3
    DEF Find, Inv, TypeOK, Labels, MutualExclusion, InCriticalSection, Pending, Goto
  <2>2. EngineOfItsThread'
    BY <1>3 DEF Find, Inv, EngineOfItsThread
  <2> QED
    BY <2>1, <2>2 DEF Inv
<1> QED
  BY <1>2, <1>3 DEF Find

\* What throws preserves the invariant.
LEMMA ThrowInv ==
    ASSUME Inv, NEW t \in Threads, InCriticalSection(t), Throw(t),
           code' \in BOOLEAN, UNCHANGED <<engines, want, uses, live>>
    PROVE  Inv'
<1>1. TypeOK' /\ Pending'
  BY DEF Inv, TypeOK, Labels, Pending, Throw, Unlock, Goto
<1>2. MutualExclusion'
  BY Unlocked DEF Inv, Throw
<1>3. EngineOfItsThread'
  BY DEF Inv, EngineOfItsThread
<1> QED
  BY <1>1, <1>2, <1>3 DEF Inv

\* Loading the init code preserves the invariant.
LEMMA LoadInv ==
    ASSUME Inv, NEW t \in Threads, LoadInitCode(t)
    PROVE  Inv'
<1>1. InCriticalSection(t) /\ pc[t] = "load" /\ UNCHANGED <<engines, want, uses, live>>
  BY DEF LoadInitCode, InCriticalSection
<1>2. CASE code' = TRUE /\ Goto(t, "construct") /\ UNCHANGED mutex
  <2>1. TypeOK' /\ MutualExclusion' /\ Pending'
    BY <1>1, <1>2
    DEF Inv, TypeOK, Labels, MutualExclusion, InCriticalSection, Pending, Goto
  <2>2. EngineOfItsThread'
    BY <1>1 DEF Inv, EngineOfItsThread
  <2> QED
    BY <2>1, <2>2 DEF Inv
<1>3. CASE ~code /\ Throw(t) /\ UNCHANGED code
  <2>1. code' \in BOOLEAN
    BY <1>3 DEF Inv, TypeOK
  <2> QED
    BY <1>1, <1>3, <2>1, ThrowInv
<1> QED
  BY <1>2, <1>3 DEF LoadInitCode

\* Constructing an engine preserves the invariant.
LEMMA ConstructInv ==
    ASSUME Inv, NEW t \in Threads, Construct(t)
    PROVE  Inv'
<1>1. InCriticalSection(t) /\ pc[t] = "construct" /\ UNCHANGED <<code, want>>
  BY DEF Construct, InCriticalSection
<1>2. ASSUME NEW e \in Engines \ (live \cup Referenced),
             live' = live \cup {e}, engines' = [engines EXCEPT ![t] = e], Use(t, e)
      PROVE  Inv'
  <2>1. engines[t] = NoEngine
    BY <1>1 DEF Inv, Pending
  <2>2. TypeOK'
    BY <1>1, <1>2, Appended DEF Inv, TypeOK, Labels, Use, Unlock, Goto
  <2>3. Pending'
    BY <1>1, <1>2 DEF Inv, TypeOK, Pending, Use, Unlock, Goto
  <2> QED
    BY <1>1, <1>2, <2>1, <2>2, <2>3, UseInv
<1>3. CASE Throw(t) /\ UNCHANGED <<engines, uses, live>>
  <2>1. code' \in BOOLEAN
    BY <1>1 DEF Inv, TypeOK
  <2> QED
    BY <1>1, <1>3, <2>1, ThrowInv
<1> QED
  BY <1>2, <1>3 DEF Construct

\* Finishing a use preserves the invariant.
LEMMA FinishInv ==
    ASSUME Inv, NEW t \in Threads, FinishUse(t)
    PROVE  Inv'
<1>1. /\ uses[t] \in Seq(Engines) /\ uses[t] # <<>> /\ uses \in [Threads -> Seq(Engines)]
      /\ uses' = [uses EXCEPT ![t] = SubSeq(uses[t], 1, Len(uses[t]) - 1)]
      /\ UNCHANGED <<mutex, engines, code, pc, want, live>>
  BY DEF Inv, TypeOK, FinishUse
<1>2. uses' \in [Threads -> Seq(Engines)]
  BY <1>1, Popped
<1>3. TypeOK' /\ MutualExclusion' /\ Pending'
  BY <1>1, <1>2 DEF Inv, TypeOK, MutualExclusion, InCriticalSection, Pending
<1>4. \A u \in Threads : \A i \in 1..Len(uses'[u]) :
          i \in 1..Len(uses[u]) /\ uses'[u][i] = uses[u][i]
  BY <1>1, Popped
<1>5. EngineOfItsThread'
  <2>1. UNCHANGED <<engines, live>> /\ EngineOfItsThread
    BY <1>1 DEF Inv
  <2> QED
    BY <1>4, <2>1 DEF EngineOfItsThread
<1> QED
  BY <1>3, <1>5 DEF Inv

\* Erasing an engine preserves the invariant: whoever still refers to it has a
\* reference to an engine that does not exist.
LEMMA EraseInv ==
    ASSUME Inv, NEW t \in Threads, Erase(t)
    PROVE  Inv'
<1> DEFINE id == want[t]
<1>1. /\ InCriticalSection(t) /\ Unlock(t) /\ id \in Threads
      /\ live' = live \ {engines[id]}
      /\ engines' = [engines EXCEPT ![id] = NoEngine]
      /\ want' = [want EXCEPT ![t] = NoThread]
      /\ UNCHANGED <<code, uses>>
  BY DEF Inv, Pending, Erase, InCriticalSection
<1>2. TypeOK' /\ Pending'
  BY <1>1 DEF Inv, TypeOK, Labels, Pending, Unlock, Goto
<1>3. MutualExclusion'
  BY <1>1, Unlocked DEF Inv
<1> HIDE DEF id
<1>4. engines'[id] = NoEngine /\ \A u \in Threads \ {id} : engines'[u] = engines[u]
  BY <1>1 DEF Inv, TypeOK
<1>5. /\ live = {engines[u] : u \in Threads} \ {NoEngine}
      /\ \A u, v \in Threads : u # v /\ engines[u] # NoEngine => engines[u] # engines[v]
      /\ \A u \in Threads : \A i \in 1..Len(uses[u]) :
             uses[u][i] \in live => uses[u][i] = engines[u]
  BY DEF Inv, EngineOfItsThread
<1>6. live' = {engines'[u] : u \in Threads} \ {NoEngine}
  <2>1. \A x \in live' : x \in {engines'[u] : u \in Threads} \ {NoEngine}
    BY <1>1, <1>4, <1>5
  <2>2. \A u \in Threads : engines'[u] # NoEngine => engines'[u] \in live'
    BY <1>1, <1>4, <1>5
  <2> QED
    BY <2>1, <2>2
<1>7. \A u, v \in Threads : u # v /\ engines'[u] # NoEngine => engines'[u] # engines'[v]
  BY <1>4, <1>5
<1>8. ASSUME NEW u \in Threads, NEW i \in 1..Len(uses'[u]), uses'[u][i] \in live'
      PROVE  uses'[u][i] = engines'[u]
  BY <1>1, <1>4, <1>5, <1>8
<1>9. EngineOfItsThread'
  BY <1>6, <1>7, <1>8 DEF EngineOfItsThread
<1> QED
  BY <1>2, <1>3, <1>9 DEF Inv

\* Every step preserves the invariant.
LEMMA StepInv == Inv /\ [Next]_vars => Inv'
<1> SUFFICES ASSUME Inv, [Next]_vars PROVE Inv'
  OBVIOUS
<1>1. CASE UNCHANGED vars
  BY <1>1
  DEF Inv, vars, TypeOK, MutualExclusion, InCriticalSection, EngineOfItsThread, Pending
<1> QED
  BY <1>1, CallInv, LockInv, FindInv, LoadInv, ConstructInv, EraseInv, FinishInv DEF Next

\* Every behaviour satisfies the invariant.
THEOREM Invariance == Spec => []Inv
  BY StepInv, InitInv, PTL DEF Spec

\* The references of a thread that are still good are to the engine the map has
\* for it, which the map has for nobody else.
THEOREM OneEnginePerThread == Spec => [](MutualExclusion /\ EngineOfItsThread)
<1>1. Inv => MutualExclusion /\ EngineOfItsThread
  BY DEF Inv
<1> QED
  BY <1>1, Invariance, PTL

\* An engine in use is destroyed only by clean_thread_local for the id of the
\* thread that uses it.
THEOREM OnlyCleaningDestroys == Spec => DestroyedOnlyByCleaning
<1> DEFINE A == \A t \in Threads : \A i \in 1..Len(uses[t]) :
                    uses[t][i] \in live \ live' =>
                        \E u \in Threads : pc[u] = "erase" /\ want[u] = t
<1>1. Inv /\ [Next]_vars => [A]_vars
  <2> SUFFICES ASSUME Inv, Next, NEW t \in Threads, NEW i \in 1..Len(uses[t]),
                      uses[t][i] \in live \ live'
               PROVE  \E u \in Threads : pc[u] = "erase" /\ want[u] = t
    OBVIOUS
  <2>1. uses[t][i] = engines[t]
    BY DEF Inv, EngineOfItsThread
  <2>2. PICK u \in Threads : Construct(u) \/ Erase(u)
    BY DEF Next, CallRun, CallClean, Lock, Find, LoadInitCode, FinishUse
  <2>3. Erase(u) /\ live' = live \ {engines[want[u]]} /\ want[u] \in Threads
    BY <2>2 DEF Construct, Erase, Inv, Pending
  <2>4. engines[t] = engines[want[u]] /\ engines[t] # NoEngine
    BY <2>1, <2>3, EngineAssumption DEF Inv, TypeOK
  <2>5. want[u] = t
    BY <2>3, <2>4 DEF Inv, EngineOfItsThread
  <2> QED
    BY <2>3, <2>5 DEF Erase
<1> QED
  BY <1>1, Invariance, PTL DEF Spec, DestroyedOnlyByCleaning

-----------------------------------------------------------------------------
(* The cleaners on their own.                                              *)

\* s is the beginning of r.
Begins(s, r) == Len(s) <= Len(r) /\ \A i \in 1..Len(s) : s[i] = r[i]

CleanersLocked == \A t \in Threads : Cl!Iterating(t) <=> cmutex = t

RanInOrder ==
    \A t \in Threads :
        /\ Begins(ran[t], reg)
        /\ Begins(before[t], reg)
        /\ cpc[t] = "idle" => Len(before[t]) <= Len(ran[t])

CleanersInv == Cl!TypeOK /\ CleanersLocked /\ RanInOrder

LEMMA AppendedTo ==
    ASSUME NEW s \in Seq(Cleaners), NEW c \in Cleaners
    PROVE  /\ Append(s, c) \in Seq(Cleaners)
           /\ Len(Append(s, c)) = Len(s) + 1
           /\ Append(s, c)[Len(s) + 1] = c
           /\ \A i \in 1..Len(s) : Append(s, c)[i] = s[i]
  OBVIOUS

LEMMA BeginsIsPrefix ==
    ASSUME NEW s \in Seq(Cleaners), NEW r \in Seq(Cleaners), Begins(s, r)
    PROVE  Cl!IsPrefix(s, r)
<1> DEFINE n == Len(s)
<1>1. n \in Nat /\ Len(r) \in Nat /\ n <= Len(r)
  BY DEF Begins
<1>2. \A i \in 1..n : s[i] = r[i] /\ s[i] \in Cleaners
  BY DEF Begins
<1>3. Len(s) = n
  OBVIOUS
<1> HIDE DEF n
<1>4. /\ SubSeq(s, 1, n) \in Seq(Cleaners) /\ Len(SubSeq(s, 1, n)) = n
      /\ \A i \in 1..n : SubSeq(s, 1, n)[i] = s[i]
  BY <1>1, <1>2, <1>3, SubSeqProperties
<1>5. /\ SubSeq(r, 1, n) \in Seq(Cleaners) /\ Len(SubSeq(r, 1, n)) = n
      /\ \A i \in 1..n : SubSeq(r, 1, n)[i] = r[i]
  BY <1>1, <1>2, SubSeqProperties
<1>6. SubSeq(s, 1, n) = SubSeq(r, 1, n)
  BY <1>1, <1>2, <1>4, <1>5, SeqEqual
<1> QED
  BY <1>1, <1>3, <1>6 DEF Cl!IsPrefix

LEMMA CleanersInit == Cl!Init => CleanersInv
<1> SUFFICES ASSUME Cl!Init PROVE CleanersInv
  OBVIOUS
<1>1. <<>> \in Seq(Cleaners) /\ Len(<<>>) = 0
  BY EmptySeq
<1>2. Cl!TypeOK
  BY <1>1 DEF Cl!Init, Cl!TypeOK
<1>3. CleanersLocked
  BY EngineAssumption DEF Cl!Init, CleanersLocked, Cl!Iterating
<1>4. RanInOrder
  <2> DEFINE e == <<>>
  <2>1. Begins(e, e) /\ Len(e) <= Len(e)
    BY <1>1 DEF Begins
  <2>2. reg = e /\ ran = [t \in Threads |-> e] /\ before = [t \in Threads |-> e]
    BY DEF Cl!Init
  <2> HIDE DEF e
  <2>3. \A t \in Threads : ran[t] = e /\ before[t] = e
    BY <2>2
  <2> QED
    BY <2>1, <2>2, <2>3 DEF RanInOrder
<1> QED
  BY <1>2, <1>3, <1>4 DEF CleanersInv

LEMMA RegisterCleaners ==
    ASSUME CleanersInv, NEW t \in Threads, NEW c \in Cleaners \cup {NoCleaner}, Cl!Register(t, c)
    PROVE  CleanersInv'
<1> USE DEF CleanersInv, Cl!TypeOK
<1>1. c \in Cleaners /\ reg' = Append(reg, c) /\ UNCHANGED <<cmutex, cpc, ran, before>>
  BY DEF Cl!Register
<1>2. Cl!TypeOK'
  BY <1>1, AppendedTo
<1>3. CleanersLocked'
  BY <1>1 DEF CleanersLocked, Cl!Iterating
<1>4. Len(reg') = Len(reg) + 1 /\ \A i \in 1..Len(reg) : reg'[i] = reg[i]
  BY <1>1, AppendedTo
<1>5. ASSUME NEW s \in Seq(Cleaners), Begins(s, reg) PROVE Begins(s, reg')
  BY <1>4, <1>5 DEF Begins
<1>6. RanInOrder'
  BY <1>1, <1>5 DEF RanInOrder
<1> QED
  BY <1>2, <1>3, <1>6

LEMMA CallCleaners ==
    ASSUME CleanersInv, NEW t \in Threads, Cl!CallClean(t) PROVE CleanersInv'
<1> USE DEF CleanersInv, Cl!TypeOK
<1>1. /\ UNCHANGED <<cmutex, reg>> /\ cpc[t] = "idle"
      /\ cpc' = [cpc EXCEPT ![t] = "lock"]
      /\ ran' = [ran EXCEPT ![t] = <<>>]
      /\ before' = [before EXCEPT ![t] = reg]
  BY DEF Cl!CallClean, Cl!Goto
<1>2. <<>> \in Seq(Cleaners) /\ Len(<<>>) = 0
  BY EmptySeq
<1>3. Cl!TypeOK'
  BY <1>1, <1>2
<1>4. CleanersLocked'
  BY <1>1 DEF CleanersLocked, Cl!Iterating
<1>5. RanInOrder'
  BY <1>1, <1>2 DEF RanInOrder, Begins
<1> QED
  BY <1>3, <1>4, <1>5

LEMMA LockCleanersInv ==
    ASSUME CleanersInv, NEW t \in Threads, Cl!Lock(t) PROVE CleanersInv'
<1> USE DEF CleanersInv, Cl!TypeOK
<1>1. /\ UNCHANGED <<reg, ran, before>> /\ cpc[t] = "lock" /\ cmutex = NoThread /\ cmutex' = t
      /\ cpc' = [cpc EXCEPT ![t] = "loop"]
  BY DEF Cl!Lock, Cl!Goto
<1>2. Cl!TypeOK'
  BY <1>1
<1>3. CleanersLocked'
  BY <1>1, EngineAssumption DEF CleanersLocked, Cl!Iterating
<1>4. RanInOrder'
  BY <1>1 DEF RanInOrder
<1> QED
  BY <1>2, <1>3, <1>4

LEMMA RunCleanerInv ==
    ASSUME CleanersInv, NEW t \in Threads, Cl!RunCleaner(t) PROVE CleanersInv'
<1> USE DEF CleanersInv, Cl!TypeOK
<1> DEFINE c == reg[Len(ran[t]) + 1]
<1>1. /\ UNCHANGED <<cmutex, reg, cpc, before>> /\ Len(ran[t]) < Len(reg)
      /\ ran' = [ran EXCEPT ![t] = Append(ran[t], c)]
  BY DEF Cl!RunCleaner
<1>2. c \in Cleaners
  BY <1>1
<1> HIDE DEF c
<1>3. ran'[t] = Append(ran[t], c) /\ \A u \in Threads \ {t} : ran'[u] = ran[u]
  BY <1>1
<1>4. /\ ran'[t] \in Seq(Cleaners) /\ Len(ran'[t]) = Len(ran[t]) + 1
      /\ ran'[t][Len(ran[t]) + 1] = c
      /\ \A i \in 1..Len(ran[t]) : ran'[t][i] = ran[t][i]
  BY <1>2, <1>3, AppendedTo
<1>5. Cl!TypeOK'
  BY <1>1, <1>4
<1>6. CleanersLocked'
  BY <1>1 DEF CleanersLocked, Cl!Iterating
<1>7. Begins(ran'[t], reg)
  BY <1>1, <1>4 DEF Begins, RanInOrder, c
<1>8. RanInOrder'
  BY <1>1, <1>3, <1>4, <1>7 DEF RanInOrder
<1> QED
  BY <1>5, <1>6, <1>8

LEMMA NestedInv ==
    ASSUME CleanersInv, NEW t \in Threads, Cl!NestedCall(t) PROVE CleanersInv'
<1> USE DEF CleanersInv, Cl!TypeOK
<1>1. /\ UNCHANGED <<cmutex, reg, ran, before>> /\ cpc[t] = "loop"
      /\ cpc' = [cpc EXCEPT ![t] = "nested"]
  BY DEF Cl!NestedCall, Cl!Goto
<1> QED
  BY <1>1 DEF CleanersLocked, Cl!Iterating, RanInOrder

LEMMA ReturnCleanedInv ==
    ASSUME CleanersInv, NEW t \in Threads, Cl!ReturnCleaned(t) PROVE CleanersInv'
<1> USE DEF CleanersInv, Cl!TypeOK
<1>1. /\ UNCHANGED <<reg, ran, before>> /\ cpc[t] = "loop" /\ cmutex' = NoThread
      /\ cpc' = [cpc EXCEPT ![t] = "idle"] /\ Len(ran[t]) = Len(reg)
  BY DEF Cl!ReturnCleaned, Cl!Goto
<1>2. Cl!TypeOK'
  BY <1>1
<1>3. CleanersLocked'
  BY <1>1, EngineAssumption DEF CleanersLocked, Cl!Iterating
<1>4. RanInOrder'
  BY <1>1 DEF RanInOrder, Begins
<1> QED
  BY <1>2, <1>3, <1>4

LEMMA CleanersStep == CleanersInv /\ [Cl!Next]_(Cl!vars) => CleanersInv'
<1> SUFFICES ASSUME CleanersInv, [Cl!Next]_(Cl!vars) PROVE CleanersInv'
  OBVIOUS
<1>1. CASE UNCHANGED Cl!vars
  BY <1>1 DEF Cl!vars, CleanersInv, Cl!TypeOK, CleanersLocked, Cl!Iterating, RanInOrder
<1> QED
  BY <1>1, RegisterCleaners, CallCleaners, LockCleanersInv, RunCleanerInv, NestedInv,
     ReturnCleanedInv DEF Cl!Next, Cl!Step

-----------------------------------------------------------------------------
(* The steps of the composition are steps of its parts.                    *)

\* The id that a thread cleans is that of a thread, and whoever is in the
\* functions of one part is where the other expects it: a thread that runs the
\* cleaner of the engine map is at that cleaner, and runs no script.
Placed ==
    \A t \in Threads :
        /\ cpc[t] # "idle" => target[t] \in Threads /\ t \in alive
        /\ pc[t] # "idle" => t \in alive
        /\ pc[t] \in {"lock_run", "find", "load", "construct"} => cpc[t] = "idle"
        /\ pc[t] \in {"lock_clean", "erase"} =>
               /\ cpc[t] = "loop"
               /\ Len(ran[t]) < Len(reg)
               /\ want[t] = target[t]

LEMMA IsEngineMapStep ==
    ASSUME CleanupTypeOK, Placed, [CleanupNext]_cleanupVars
    PROVE  [Next]_vars
<1>1. CASE UNCHANGED cleanupVars
  BY <1>1 DEF cleanupVars
<1>2. CASE UNCHANGED vars
  BY <1>2
<1>3. ASSUME NEW t \in Threads,
             RunEngine(t) \/ LockEngines(t) \/ EngineStep(t) \/ LeaveEngineCleaner(t)
      PROVE  Next
  BY <1>3 DEF RunEngine, LockEngines, EngineStep, LeaveEngineCleaner, Next
<1>4. ASSUME NEW t \in Threads, EnterEngineCleaner(t) PROVE Next
  <2>1. target[t] \in Threads
    BY <1>4 DEF EnterEngineCleaner, AtCleaner, Placed
  <2> QED
    BY <1>4, <2>1 DEF EnterEngineCleaner, Next
<1>5. ASSUME NEW t \in Threads,
             \/ \E c \in Cleaners \cup {NoCleaner} : RegisterCleaner(t, c)
             \/ \E id \in Threads : CleanTls(t, id)
             \/ LockCleaners(t) \/ OtherCleaner(t) \/ ReturnFromClean(t) \/ Exit(t) \/ Start(t)
      PROVE  UNCHANGED vars
  BY <1>5 DEF RegisterCleaner, CleanTls, LockCleaners, OtherCleaner, ReturnFromClean, Exit, Start
<1> QED
  BY <1>1, <1>2, <1>3, <1>4, <1>5 DEF CleanupNext, CleanStep

LEMMA IsCleanersStep ==
    ASSUME [CleanupNext]_cleanupVars PROVE [Cl!Next]_(Cl!vars)
<1>1. CASE UNCHANGED cleanerVars
  BY <1>1 DEF cleanerVars, Cl!vars
<1>2. CASE UNCHANGED cleanupVars
  BY <1>2 DEF cleanupVars, cleanerVars, Cl!vars
<1>3. ASSUME NEW t \in Threads,
             \/ \E c \in Cleaners \cup {NoCleaner} : RegisterCleaner(t, c)
             \/ \E id \in Threads : CleanTls(t, id)
             \/ LockCleaners(t) \/ OtherCleaner(t) \/ ReturnFromClean(t) \/ LeaveEngineCleaner(t)
      PROVE  Cl!Next
  BY <1>3 DEF RegisterCleaner, CleanTls, LockCleaners, OtherCleaner, ReturnFromClean,
              LeaveEngineCleaner, Cl!Next, Cl!Step
<1>4. ASSUME NEW t \in Threads,
             \/ RunEngine(t) \/ LockEngines(t) \/ EngineStep(t) \/ EnterEngineCleaner(t)
             \/ Exit(t) \/ Start(t)
      PROVE  UNCHANGED cleanerVars
  BY <1>4 DEF RunEngine, LockEngines, EngineStep, EnterEngineCleaner, Exit, Start
<1> QED
  BY <1>1, <1>2, <1>3, <1>4 DEF CleanupNext, CleanStep

-----------------------------------------------------------------------------
(* Where threads are.                                                      *)

PlacedInv == Inv /\ CleanupTypeOK /\ CleanersInv /\ Placed

LEMMA LifeTypes ==
    ASSUME CleanupTypeOK, [CleanupNext]_cleanupVars
    PROVE  /\ target' \in [Threads -> Threads \cup {NoThread}]
           /\ alive' \subseteq Threads
           /\ abused' \in BOOLEAN
<1> USE DEF CleanupTypeOK
<1>1. CASE UNCHANGED lifeVars
  BY <1>1 DEF lifeVars
<1>2. CASE UNCHANGED cleanupVars
  BY <1>2 DEF cleanupVars, lifeVars
<1>3. ASSUME NEW t \in Threads, NEW id \in Threads, CleanTls(t, id)
      PROVE  /\ target' \in [Threads -> Threads \cup {NoThread}]
             /\ alive' = alive /\ abused' \in BOOLEAN
  BY <1>3 DEF CleanTls
<1>4. ASSUME NEW t \in Threads, Exit(t) \/ Start(t)
      PROVE  /\ target' = target /\ alive' \subseteq Threads /\ abused' \in BOOLEAN
  BY <1>4 DEF Exit, Start
<1>5. ASSUME NEW t \in Threads,
             \/ RunEngine(t) \/ LockEngines(t) \/ EngineStep(t) \/ CleanStep(t) \/ LockCleaners(t)
             \/ \E c \in Cleaners \cup {NoCleaner} : RegisterCleaner(t, c)
      PROVE  UNCHANGED lifeVars
  BY <1>5 DEF RunEngine, LockEngines, EngineStep, EnterEngineCleaner, CleanStep, LockCleaners,
              RegisterCleaner, OtherCleaner, ReturnFromClean, LeaveEngineCleaner
<1> QED
  BY <1>1, <1>2, <1>3, <1>4, <1>5 DEF CleanupNext

LEMMA EnginesPlaced ==
    ASSUME PlacedInv, NEW t \in Threads,
           RunEngine(t) \/ LockEngines(t) \/ EngineStep(t) \/ EnterEngineCleaner(t)
    PROVE  Placed'
<1> USE DEF PlacedInv, CleanupTypeOK, TypeOK
<1>1. UNCHANGED <<cmutex, reg, cpc, ran, before, target, alive, abused>>
  BY DEF RunEngine, LockEngines, EngineStep, EnterEngineCleaner, cleanerVars, lifeVars
<1>2. CASE RunEngine(t)
  <2>1. /\ want' = want /\ t \in alive /\ cpc[t] = "idle"
        /\ pc' = pc \/ pc' = [pc EXCEPT ![t] = "lock_run"]
    BY <1>2 DEF RunEngine, Free, CallRun, FinishUse, Goto
  <2> QED
    BY <1>1, <2>1 DEF Placed
<1>3. CASE LockEngines(t)
  <2>1. /\ want' = want
        /\ \/ pc[t] = "lock_run" /\ pc' = [pc EXCEPT ![t] = "find"]
           \/ pc[t] = "lock_clean" /\ pc' = [pc EXCEPT ![t] = "erase"]
    BY <1>3 DEF LockEngines, Lock, Goto
  <2> QED
    BY <1>1, <2>1 DEF Placed
<1>4. CASE EngineStep(t)
  <2>1. /\ want' = want /\ pc[t] \in {"find", "load", "construct"}
        /\ \E l \in {"idle", "load", "construct"} : pc' = [pc EXCEPT ![t] = l]
    BY <1>4 DEF EngineStep, Find, LoadInitCode, Construct, Use, Throw, Unlock, Goto
  <2> QED
    BY <1>1, <2>1 DEF Placed
<1>5. CASE EnterEngineCleaner(t)
  <2>1. /\ cpc[t] = "loop" /\ Len(ran[t]) < Len(reg)
        /\ want' = [want EXCEPT ![t] = target[t]]
        /\ pc' = [pc EXCEPT ![t] = "lock_clean"]
    BY <1>5 DEF EnterEngineCleaner, AtCleaner, CallClean, Goto
  <2> QED
    BY <1>1, <2>1 DEF Placed
<1> QED
  BY <1>2, <1>3, <1>4, <1>5

LEMMA CleanersPlaced ==
    ASSUME PlacedInv, NEW t \in Threads,
           \/ \E c \in Cleaners \cup {NoCleaner} : RegisterCleaner(t, c)
           \/ \E id \in Threads : CleanTls(t, id)
           \/ LockCleaners(t) \/ OtherCleaner(t) \/ ReturnFromClean(t)
    PROVE  Placed'
<1> USE DEF PlacedInv, CleanupTypeOK, CleanersInv, Cl!TypeOK
<1>1. UNCHANGED <<pc, want, alive>>
  BY DEF RegisterCleaner, CleanTls, LockCleaners, OtherCleaner, ReturnFromClean, vars, lifeVars
<1>2. ASSUME NEW c \in Cleaners \cup {NoCleaner}, RegisterCleaner(t, c) PROVE Placed'
  <2>1. UNCHANGED <<cpc, ran, target>> /\ c \in Cleaners /\ reg' = Append(reg, c)
    BY <1>2 DEF RegisterCleaner, lifeVars, Cl!Register
  <2>2. Len(reg') = Len(reg) + 1
    BY <2>1, AppendedTo
  <2> QED
    BY <1>1, <2>1, <2>2 DEF Placed
<1>3. ASSUME NEW id \in Threads, CleanTls(t, id) PROVE Placed'
  <2>1. /\ t \in alive /\ pc[t] = "idle" /\ reg' = reg
        /\ cpc' = [cpc EXCEPT ![t] = "lock"]
        /\ ran' = [ran EXCEPT ![t] = <<>>]
        /\ target' = [target EXCEPT ![t] = id]
    BY <1>3 DEF CleanTls, Free, Cl!CallClean, Cl!Goto
  <2> QED
    BY <1>1, <2>1 DEF Placed
<1>4. CASE LockCleaners(t)
  <2>1. /\ cpc[t] = "lock" /\ cpc' = [cpc EXCEPT ![t] = "loop"]
        /\ UNCHANGED <<reg, ran, target>>
    BY <1>4 DEF LockCleaners, Cl!Lock, Cl!Goto, lifeVars
  <2> QED
    BY <1>1, <2>1 DEF Placed
<1>5. CASE OtherCleaner(t)
  <2>1. /\ cpc[t] = "loop" /\ pc[t] = "idle" /\ UNCHANGED <<reg, target>>
        /\ cpc' = cpc \/ cpc' = [cpc EXCEPT ![t] = "nested"]
        /\ \A u \in Threads \ {t} : ran'[u] = ran[u]
    BY <1>5 DEF OtherCleaner, AtCleaner, Cl!RunCleaner, Cl!NestedCall, Cl!Goto, lifeVars
  <2> QED
    BY <1>1, <2>1 DEF Placed
<1>6. CASE ReturnFromClean(t)
  <2>1. /\ Len(ran[t]) = Len(reg) /\ UNCHANGED <<reg, ran, target>>
        /\ cpc[t] = "loop" /\ cpc' = [cpc EXCEPT ![t] = "idle"]
    BY <1>6 DEF ReturnFromClean, Cl!ReturnCleaned, Cl!Goto, lifeVars
  <2>2. pc[t] \notin {"lock_clean", "erase"}
    BY <2>1 DEF Placed
  <2> QED
    BY <1>1, <2>1, <2>2 DEF Placed
<1> QED
  BY <1>2, <1>3, <1>4, <1>5, <1>6

LEMMA LeavePlaced ==
    ASSUME PlacedInv, NEW t \in Threads, LeaveEngineCleaner(t) PROVE Placed'
<1> USE DEF PlacedInv, CleanupTypeOK, TypeOK, CleanersInv, Cl!TypeOK
<1>1. /\ UNCHANGED <<reg, cpc, target, alive>>
      /\ pc' = [pc EXCEPT ![t] = "idle"]
      /\ \A u \in Threads \ {t} : ran'[u] = ran[u] /\ want'[u] = want[u]
  BY DEF LeaveEngineCleaner, Erase, Unlock, Goto, Cl!RunCleaner, lifeVars
<1> QED
  BY <1>1 DEF Placed

LEMMA LifePlaced ==
    ASSUME PlacedInv, NEW t \in Threads, Exit(t) \/ Start(t) PROVE Placed'
<1>1. UNCHANGED <<pc, want, reg, cpc, ran, target>>
  BY DEF Exit, Start, vars, cleanerVars
<1>2. \/ Free(t) /\ alive' = alive \ {t}
      \/ alive' = alive \cup {t}
  BY DEF Exit, Start
<1> QED
  BY <1>1, <1>2 DEF PlacedInv, Placed, Free

LEMMA PlacedInit == CleanupInit => PlacedInv
<1> SUFFICES ASSUME CleanupInit PROVE PlacedInv
  OBVIOUS
<1>1. Inv /\ CleanersInv
  BY InitInv, CleanersInit DEF CleanupInit
<1>2. CleanupTypeOK
  BY <1>1 DEF CleanupInit, CleanupTypeOK, Inv, CleanersInv
<1>3. Placed
  BY DEF CleanupInit, Init, Cl!Init, Placed
<1> QED
  BY <1>1, <1>2, <1>3 DEF PlacedInv

LEMMA PlacedStep == PlacedInv /\ [CleanupNext]_cleanupVars => PlacedInv'
<1> SUFFICES ASSUME PlacedInv, [CleanupNext]_cleanupVars PROVE PlacedInv'
  OBVIOUS
<1>1. Inv'
  BY IsEngineMapStep, StepInv DEF PlacedInv
<1>2. CleanersInv'
  BY IsCleanersStep, CleanersStep DEF PlacedInv
<1>3. CleanupTypeOK'
  BY <1>1, <1>2, LifeTypes DEF PlacedInv, CleanupTypeOK, Inv, CleanersInv
<1>4. Placed'
  <2>1. CASE UNCHANGED cleanupVars
    BY <2>1 DEF PlacedInv, Placed, cleanupVars, vars, cleanerVars, lifeVars
  <2> QED
    BY <2>1, EnginesPlaced, CleanersPlaced, LeavePlaced, LifePlaced
    DEF CleanupNext, CleanStep
<1> QED
  BY <1>1, <1>2, <1>3, <1>4 DEF PlacedInv

-----------------------------------------------------------------------------
(* What the parts promise holds of the composition.                        *)

\* The composition does with the engine map what ScriptEngineMap lets its users
\* do, so that what is proved of the map alone holds here: the ids that
\* wilton_clean_tls passes on are those of threads.
THEOREM UsesEngineMap == CleanupSpec => Spec
<1>1. CleanupInit => PlacedInv /\ Init
  BY PlacedInit DEF CleanupInit
<1>2. PlacedInv /\ [CleanupNext]_cleanupVars => PlacedInv' /\ [Next]_vars
  BY PlacedStep, IsEngineMapStep DEF PlacedInv
<1> QED
  BY <1>1, <1>2, PTL DEF CleanupSpec, Spec

\* Type correctness, also of the map and of the cleaners.
THEOREM TypeCorrectness == CleanupSpec => []CleanupTypeOK
<1>1. PlacedInv => CleanupTypeOK
  BY DEF PlacedInv
<1> QED
  BY <1>1, PlacedInit, PlacedStep, PTL DEF CleanupSpec

\* The engines that exist are those in the map, each of one thread, and a good
\* reference of a thread is to its own engine (script_engine_map.hpp).
THEOREM EnginesOfTheirThreads == CleanupSpec => []EngineOfItsThread
<1>1. PlacedInv => EngineOfItsThread
  BY DEF PlacedInv, Inv
<1> QED
  BY <1>1, PlacedInit, PlacedStep, PTL DEF CleanupSpec

\* An engine in use is destroyed only by a cleaning of its thread's id
\* (clean_thread_local, reached through wilton_clean_tls).
THEOREM DestructionIsCleaning == CleanupSpec => DestroyedOnlyByCleaning
  BY UsesEngineMap, OnlyCleaningDestroys

\* A call of wilton_clean_tls that has returned has run every cleaner that was
\* registered when it began, each once per registration and in order.
THEOREM CleanersAllRun == CleanupSpec => []CleanersRun
<1>1. PlacedInv => CleanersRun
  <2> SUFFICES ASSUME PlacedInv, NEW t \in Threads
               PROVE  /\ Cl!IsPrefix(ran[t], reg)
                      /\ cpc[t] = "idle" => Cl!IsPrefix(before[t], ran[t])
    BY DEF CleanersRun, Cl!EveryCleanerRuns
  <2>1. reg \in Seq(Cleaners) /\ ran[t] \in Seq(Cleaners) /\ before[t] \in Seq(Cleaners)
    BY DEF PlacedInv, CleanersInv, Cl!TypeOK
  <2>2. /\ Begins(ran[t], reg) /\ Begins(before[t], reg)
        /\ cpc[t] = "idle" => Len(before[t]) <= Len(ran[t])
    BY DEF PlacedInv, CleanersInv, RanInOrder
  <2>3. Cl!IsPrefix(ran[t], reg)
    BY <2>1, <2>2, BeginsIsPrefix
  <2>4. ASSUME cpc[t] = "idle" PROVE Begins(before[t], ran[t])
    BY <2>1, <2>2, <2>4 DEF Begins
  <2> QED
    BY <2>1, <2>3, <2>4, BeginsIsPrefix
<1> QED
  BY <1>1, PlacedInit, PlacedStep, PTL DEF CleanupSpec

\* The vector of cleaners stays as it is while a thread iterates over it.
THEOREM CleanersUnchanged == CleanupSpec => CleanersStayValid
<1>1. PlacedInv /\ [CleanupNext]_cleanupVars =>
          [(\E t \in Threads : Cl!Iterating(t)) => reg' = reg]_(Cl!vars)
  <2> SUFFICES ASSUME PlacedInv, [CleanupNext]_cleanupVars,
                      NEW t \in Threads, Cl!Iterating(t)
               PROVE  reg' = reg
    OBVIOUS
  <2>1. cmutex = t /\ cmutex # NoThread
    BY EngineAssumption DEF PlacedInv, CleanersInv, CleanersLocked
  <2>2. [Cl!Next]_(Cl!vars)
    BY IsCleanersStep
  <2> QED
    BY <2>1, <2>2 DEF Cl!Next, Cl!Step, Cl!Register, Cl!CallClean, Cl!Lock, Cl!RunCleaner,
                      Cl!ReturnCleaned, Cl!NestedCall, Cl!vars
<1> QED
  BY <1>1, PlacedInit, PlacedStep, PTL DEF CleanupSpec, CleanersStayValid, Cl!IteratorsStayValid

-----------------------------------------------------------------------------
(* Cleaned in good order, no engine is destroyed in use.                   *)

\* The cleaned id runs no script, and none will begin before the cleaning ends:
\* either nobody runs under the id, or its thread is the one that cleans.
CleanedIdle ==
    \A u \in Threads :
        cpc[u] # "idle" =>
            uses[target[u]] = <<>> /\ (target[u] = u \/ target[u] \notin alive)

UsesLive == \A t \in Threads : \A i \in 1..Len(uses[t]) : uses[t][i] \in live

OrderInv ==
    /\ \A t \in Threads : t \notin alive => uses[t] = <<>>
    /\ ~abused => UsesLive /\ CleanedIdle

\* Steps that leave references, engines and threads alone.
LEMMA OtherOrder ==
    ASSUME PlacedInv, OrderInv, NEW t \in Threads,
           UNCHANGED <<uses, live, alive, abused, target>>,
           cpc' = cpc \/ (cpc[t] # "idle" /\ \E l : cpc' = [cpc EXCEPT ![t] = l])
    PROVE  OrderInv'
<1>1. cpc \in [Threads -> {"idle", "lock", "loop", "nested"}]
  BY DEF PlacedInv, CleanersInv, Cl!TypeOK
<1>2. \A u \in Threads : cpc'[u] # "idle" => cpc[u] # "idle"
  BY <1>1
<1> QED
  BY <1>2 DEF OrderInv, UsesLive, CleanedIdle

\* A use begins: of an engine that exists, by a thread whose id nobody cleans.
LEMMA UseOrder ==
    ASSUME PlacedInv, OrderInv, NEW t \in Threads, NEW e \in Engines,
           pc[t] \in {"find", "construct"}, e \in live', live \subseteq live',
           uses' = [uses EXCEPT ![t] = Append(uses[t], e)],
           UNCHANGED <<cpc, target, alive, abused>>
    PROVE  OrderInv'
<1>1. uses \in [Threads -> Seq(Engines)]
  BY DEF PlacedInv, Inv, TypeOK
<1>2. t \in alive /\ cpc[t] = "idle" /\ \A u \in Threads : cpc[u] # "idle" => target[u] \in Threads
  BY DEF PlacedInv, Placed
<1>3. \A u \in Threads \ {t} : uses'[u] = uses[u]
  BY <1>1
<1>4. \A i \in 1..Len(uses'[t]) :
          uses'[t][i] = e \/ (i \in 1..Len(uses[t]) /\ uses'[t][i] = uses[t][i])
  BY <1>1, Appended
<1>5. ~abused => CleanedIdle'
  <2> SUFFICES ASSUME ~abused, NEW u \in Threads, cpc[u] # "idle"
               PROVE  uses'[target[u]] = <<>> /\ (target[u] = u \/ target[u] \notin alive)
    BY DEF CleanedIdle
  <2>1. uses[target[u]] = <<>> /\ (target[u] = u \/ target[u] \notin alive)
    BY DEF OrderInv, CleanedIdle
  <2> QED
    BY <1>2, <1>3, <2>1
<1>6. UsesLive => UsesLive'
  BY <1>3, <1>4 DEF UsesLive
<1> QED
  BY <1>2, <1>3, <1>5, <1>6 DEF OrderInv

LEMMA EnginesOrder ==
    ASSUME PlacedInv, OrderInv, NEW t \in Threads,
           RunEngine(t) \/ LockEngines(t) \/ EngineStep(t) \/ EnterEngineCleaner(t)
    PROVE  OrderInv'
<1>1. UNCHANGED <<cpc, target, alive, abused>>
  BY DEF RunEngine, LockEngines, EngineStep, EnterEngineCleaner, cleanerVars, lifeVars
<1>2. CASE LockEngines(t) \/ EnterEngineCleaner(t) \/ CallRun(t) \/ LoadInitCode(t)
  <2>1. UNCHANGED <<uses, live>>
    BY <1>2 DEF LockEngines, EnterEngineCleaner, Lock, CallClean, CallRun, LoadInitCode
  <2> QED
    BY <1>1, <2>1, OtherOrder
<1>3. CASE RunEngine(t) /\ FinishUse(t)
  <2>1. /\ uses \in [Threads -> Seq(Engines)] /\ uses[t] # <<>> /\ live' = live
        /\ uses' = [uses EXCEPT ![t] = SubSeq(uses[t], 1, Len(uses[t]) - 1)]
    BY <1>3 DEF PlacedInv, Inv, TypeOK, FinishUse
  <2>2. /\ \A u \in Threads \ {t} : uses'[u] = uses[u]
        /\ \A i \in 1..Len(uses'[t]) : i \in 1..Len(uses[t]) /\ uses'[t][i] = uses[t][i]
    BY <2>1, Popped
  <2>3. \A u \in Threads : uses[u] = <<>> => uses'[u] = <<>>
    BY <2>1, <2>2
  <2>4. \A u \in Threads : cpc[u] # "idle" => target[u] \in Threads
    BY DEF PlacedInv, Placed
  <2> QED
    BY <1>1, <2>1, <2>2, <2>3, <2>4 DEF OrderInv, UsesLive, CleanedIdle
<1>4. CASE Find(t)
  <2>1. CASE engines[t] # NoEngine /\ Use(t, engines[t])
    <3>1. engines[t] \in Engines /\ engines[t] \in live /\ live' = live
      BY <1>4, <2>1 DEF PlacedInv, Inv, TypeOK, EngineOfItsThread, Find
    <3> QED
      BY <1>1, <1>4, <2>1, <3>1, UseOrder DEF Find, Use
  <2>2. CASE UNCHANGED <<mutex, uses>>
    BY <1>1, <1>4, <2>2, OtherOrder DEF Find
  <2> QED
    BY <1>4, <2>1, <2>2 DEF Find
<1>5. CASE Construct(t)
  <2>1. ASSUME NEW e \in Engines, live' = live \cup {e}, Use(t, e) PROVE OrderInv'
    BY <1>1, <1>5, <2>1, UseOrder DEF Construct, Use
  <2>2. CASE UNCHANGED <<engines, uses, live>>
    BY <1>1, <2>2, OtherOrder
  <2> QED
    BY <1>5, <2>1, <2>2 DEF Construct
<1> QED
  BY <1>2, <1>3, <1>4, <1>5 DEF RunEngine, EngineStep

LEMMA CleanersOrder ==
    ASSUME PlacedInv, OrderInv, NEW t \in Threads,
           \/ \E c \in Cleaners \cup {NoCleaner} : RegisterCleaner(t, c)
           \/ LockCleaners(t) \/ OtherCleaner(t) \/ ReturnFromClean(t)
    PROVE  OrderInv'
<1>1. UNCHANGED <<uses, live, alive, abused, target>>
  BY DEF RegisterCleaner, LockCleaners, OtherCleaner, ReturnFromClean, vars, lifeVars
<1>2. cpc' = cpc \/ (cpc[t] # "idle" /\ \E l : cpc' = [cpc EXCEPT ![t] = l])
  BY DEF RegisterCleaner, LockCleaners, OtherCleaner, ReturnFromClean, AtCleaner, Cl!Register,
         Cl!Lock, Cl!RunCleaner, Cl!NestedCall, Cl!ReturnCleaned, Cl!Goto
<1> QED
  BY <1>1, <1>2, OtherOrder

\* A cleaning begins.
LEMMA CleanTlsOrder ==
    ASSUME PlacedInv, OrderInv, NEW t \in Threads, NEW id \in Threads, CleanTls(t, id)
    PROVE  OrderInv'
<1>1. /\ UNCHANGED <<uses, live, alive>>
      /\ cpc' = [cpc EXCEPT ![t] = "lock"]
      /\ target' = [target EXCEPT ![t] = id]
      /\ abused' = (abused \/ ~InOrder(t, id))
  BY DEF CleanTls, Cl!CallClean, Cl!Goto, vars
<1>2. /\ cpc \in [Threads -> {"idle", "lock", "loop", "nested"}]
      /\ target \in [Threads -> Threads \cup {NoThread}]
  BY DEF PlacedInv, CleanersInv, CleanupTypeOK, Cl!TypeOK
<1>3. /\ \A u \in Threads \ {t} : cpc'[u] = cpc[u] /\ target'[u] = target[u]
      /\ target'[t] = id
  BY <1>1, <1>2
<1>4. ~abused' => ~abused /\ uses[id] = <<>> /\ (id = t \/ id \notin alive)
  BY <1>1 DEF OrderInv, InOrder
<1>5. UsesLive => UsesLive'
  BY <1>1 DEF UsesLive
<1>6. ~abused' => CleanedIdle'
  BY <1>1, <1>3, <1>4 DEF OrderInv, CleanedIdle
<1> QED
  BY <1>1, <1>4, <1>5, <1>6 DEF OrderInv

\* The engine that is erased is that of an id that runs no script.
LEMMA LeaveOrder ==
    ASSUME PlacedInv, OrderInv, NEW t \in Threads, LeaveEngineCleaner(t)
    PROVE  OrderInv'
<1>1. /\ UNCHANGED <<cpc, target, alive, abused, uses>>
      /\ pc[t] = "erase" /\ live' = live \ {engines[want[t]]}
  BY DEF LeaveEngineCleaner, Erase, Cl!RunCleaner, lifeVars
<1>2. want[t] = target[t] /\ target[t] \in Threads /\ cpc[t] # "idle"
  BY <1>1 DEF PlacedInv, Placed
<1>3. ASSUME ~abused PROVE UsesLive'
  <2> SUFFICES ASSUME NEW u \in Threads, NEW i \in 1..Len(uses[u])
               PROVE  uses[u][i] \in live /\ uses[u][i] # engines[want[t]]
    BY <1>1 DEF UsesLive
  <2>1. uses[u][i] \in live
    BY <1>3 DEF OrderInv, UsesLive
  <2>2. uses[u][i] = engines[u] /\ engines[u] # NoEngine
    BY <2>1 DEF PlacedInv, Inv, EngineOfItsThread
  <2>3. uses[want[t]] = <<>>
    BY <1>2, <1>3 DEF OrderInv, CleanedIdle
  <2>4. u # want[t]
    BY <2>3
  <2> QED
    BY <1>2, <2>1, <2>2, <2>4 DEF PlacedInv, Inv, EngineOfItsThread
<1> QED
  BY <1>1, <1>3 DEF OrderInv, CleanedIdle

\* Threads end with no script running; one that begins is not being cleaned.
LEMMA LifeOrder ==
    ASSUME PlacedInv, OrderInv, NEW t \in Threads, Exit(t) \/ Start(t)
    PROVE  OrderInv'
<1>1. UNCHANGED <<uses, live, cpc, target>>
  BY DEF Exit, Start, vars, cleanerVars
<1>2. CASE Exit(t)
  <2>1. uses[t] = <<>> /\ alive' = alive \ {t} /\ abused' = abused
    BY <1>2 DEF Exit
  <2> QED
    BY <1>1, <2>1 DEF OrderInv, UsesLive, CleanedIdle
<1>3. CASE Start(t)
  <2>1. /\ alive' = alive \cup {t}
        /\ abused' = (abused \/ \E u \in Threads : cpc[u] # "idle" /\ target[u] = t)
    BY <1>3 DEF Start
  <2> QED
    BY <1>1, <2>1 DEF OrderInv, UsesLive, CleanedIdle
<1> QED
  BY <1>2, <1>3

\* Every script runs in an engine that exists, provided that ids are cleaned by
\* their own thread outside scripts, or after their thread has ended.
THEOREM EnginesSafeInOrder == CleanupSpec => []UseIsSafeInOrder
<1>1. CleanupInit => OrderInv
  <2> SUFFICES ASSUME CleanupInit PROVE OrderInv
    OBVIOUS
  <2>1. alive = Threads /\ \A t \in Threads : uses[t] = <<>> /\ cpc[t] = "idle"
    BY DEF CleanupInit, Init, Cl!Init
  <2> QED
    BY <2>1 DEF OrderInv, UsesLive, CleanedIdle
<1>2. PlacedInv /\ OrderInv /\ [CleanupNext]_cleanupVars => OrderInv'
  <2> SUFFICES ASSUME PlacedInv, OrderInv, [CleanupNext]_cleanupVars PROVE OrderInv'
    OBVIOUS
  <2>1. CASE UNCHANGED cleanupVars
    BY <2>1 DEF OrderInv, UsesLive, CleanedIdle, cleanupVars, vars, cleanerVars, lifeVars
  <2> QED
    BY <2>1, EnginesOrder, CleanersOrder, CleanTlsOrder, LeaveOrder, LifeOrder
    DEF CleanupNext, CleanStep
<1>3. OrderInv => UseIsSafeInOrder
  BY DEF OrderInv, UsesLive, UseIsSafeInOrder
<1> QED
  BY <1>1, <1>2, <1>3, PlacedInit, PlacedStep, PTL DEF CleanupSpec
=============================================================================
