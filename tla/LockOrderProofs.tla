--------------------------- MODULE LockOrderProofs ---------------------------
(***************************************************************************)
(* Proofs about LockOrder, for any number of threads.  Initializers and    *)
(* cleaners ask for mutexes in the order dyload, cleaners, engines,        *)
(* registry, and nothing is asked for under the registry's.  Constructors  *)
(* of engines keep to that order if the registry is all they ask for; if   *)
(* not, the order holds up to the first engine mutex that a thread took.   *)
(***************************************************************************)
EXTENDS LockOrder, SequenceTheorems, TLAPS

\* What initializers and cleaners do within the repository: libraries register
\* calls and cleaners, cleaners erase engines.
ForeignCodeIsOrdered ==
    /\ InitializerAsks \subseteq {"cleaners", "engines", "registry"}
    /\ CleanerAsks \subseteq {"engines", "registry"}

EnginesAskMore == ~(EngineAsks \subseteq {"registry"})

\* What the variables range over, without the repetitions that TypeOK excludes.
LockTypes ==
    /\ held \in [Threads -> Seq(Mutexes)]
    /\ waiting \in [Threads -> Mutexes \cup {None}]

\* The order.
Before(m, n) ==
    \/ m = "dyload" /\ n \in {"cleaners", "engines", "registry"}
    \/ m = "cleaners" /\ n \in {"engines", "registry"}
    \/ m = "engines" /\ n = "registry"

\* The registry's mutex is the last a thread takes, and it waits for none then.
RegistryIsLast ==
    \A t \in Threads : \A i \in 1..Len(held[t]) :
        held[t][i] = "registry" => i = Len(held[t]) /\ waiting[t] = None

\* A thread has taken its mutexes in order.
TakenInOrder ==
    \A t \in Threads : \A i, j \in 1..Len(held[t]) : i < j =>
        \/ Before(held[t][i], held[t][j])
        \/ EnginesAskMore /\ \E k \in 1..j : held[t][k] = "engines"

\* The one that a thread waits for comes after those it holds.
WaitsInOrder ==
    \A t \in Threads : waiting[t] # None => \A i \in 1..Len(held[t]) :
        \/ Before(held[t][i], waiting[t])
        \/ EnginesAskMore /\ Holds(t, "engines")

Inv == LockTypes /\ RegistryIsLast /\ TakenInOrder /\ WaitsInOrder

\* The initial state satisfies the invariant.
LEMMA InitInv == Init => Inv
  BY DEF Init, Inv, LockTypes, RegistryIsLast, TakenInOrder, WaitsInOrder, Holds, Mutexes, None

\* A mutex that foreign code asks for comes after the one under which it does.
LEMMA AsksUpwards ==
    ASSUME ForeignCodeIsOrdered, NEW m \in Mutexes, NEW n \in Asks(m)
    PROVE  m # "registry" /\ (Before(m, n) \/ (EnginesAskMore /\ m = "engines"))
  BY DEF ForeignCodeIsOrdered, EnginesAskMore, Mutexes, Asks, RegistryAsks, Before

\* The order is transitive.
LEMMA BeforeTransitive ==
    ASSUME NEW l, NEW m, NEW n, Before(l, m), Before(m, n)
    PROVE  Before(l, n)
  BY DEF Before

\* What taking a mutex does to the sequence of those held.
LEMMA Appended ==
    ASSUME NEW s \in Seq(Mutexes), NEW m \in Mutexes
    PROVE  /\ Append(s, m) \in Seq(Mutexes)
           /\ Len(Append(s, m)) = Len(s) + 1
           /\ Len(s) \in Nat
           /\ \A i \in 1..Len(s) : Append(s, m)[i] = s[i]
           /\ Append(s, m)[Len(s) + 1] = m
  OBVIOUS

\* What giving the last one back does.
LEMMA Popped ==
    ASSUME NEW s \in Seq(Mutexes), s # <<>>
    PROVE  /\ SubSeq(s, 1, Len(s) - 1) \in Seq(Mutexes)
           /\ Len(SubSeq(s, 1, Len(s) - 1)) = Len(s) - 1
           /\ Len(s) \in Nat \ {0}
           /\ \A i \in 1..Len(s) - 1 : SubSeq(s, 1, Len(s) - 1)[i] = s[i]
<1>1. Len(s) \in Nat \ {0}
  BY EmptySeq
<1> DEFINE n == Len(s) - 1
<1>2. n \in Nat /\ \A i \in 1..n : s[i] \in Mutexes
  BY <1>1
<1> HIDE DEF n
<1>3. /\ SubSeq(s, 1, n) \in Seq(Mutexes)
      /\ Len(SubSeq(s, 1, n)) = n
      /\ \A i \in 1..n : SubSeq(s, 1, n)[i] = s[i]
  BY <1>2, SubSeqProperties
<1> QED
  BY <1>1, <1>3 DEF n

\* A mutex has one holder, whatever foreign code asks for: std::mutex is not
\* recursive, and a lock_guard gives back what the same entry point took.
THEOREM MutualExclusion == Spec => [](TypeOK /\ OneHolder)
<1>1. Init => LockTypes /\ OneHolder
  BY DEF Init, LockTypes, OneHolder, Mutexes, None
<1>2. ASSUME LockTypes, OneHolder, NEW t \in Threads, NEW m \in Mutexes, Call(t, m)
      PROVE  LockTypes' /\ OneHolder'
  BY <1>2 DEF LockTypes, OneHolder, Call
<1>3. ASSUME LockTypes, OneHolder, NEW t \in Threads, Acquire(t)
      PROVE  LockTypes' /\ OneHolder'
  <2> DEFINE s == held[t]
             w == waiting[t]
  <2>1. /\ waiting' = [waiting EXCEPT ![t] = None]
        /\ held' = [held EXCEPT ![t] = Append(s, w)]
        /\ s \in Seq(Mutexes) /\ w \in Mutexes
        /\ held \in [Threads -> Seq(Mutexes)]
        /\ \A u \in Threads : \A i \in 1..Len(held[u]) : held[u][i] # w
    BY <1>3 DEF Acquire, LockTypes, Holds
  <2>2. /\ held'[t] \in Seq(Mutexes) /\ Len(held'[t]) = Len(s) + 1 /\ Len(s) \in Nat
        /\ \A i \in 1..Len(s) : held'[t][i] = s[i]
        /\ held'[t][Len(s) + 1] = w
    BY <2>1, Appended
  <2>3. LockTypes'
    BY <1>3, <2>1, <2>2 DEF LockTypes
  <2>4. \A u \in Threads \ {t} : held'[u] = held[u]
    BY <2>1
  <2>5. \A i \in 1..Len(held'[t]) : i = Len(s) + 1 \/ i \in 1..Len(s)
    BY <2>2
  <2> HIDE DEF s, w
  <2>6. OneHolder'
    BY <1>3, <2>1, <2>2, <2>4, <2>5 DEF OneHolder, s
  <2> QED
    BY <2>3, <2>6
<1>4. ASSUME LockTypes, OneHolder, NEW t \in Threads, Release(t)
      PROVE  LockTypes' /\ OneHolder'
  <2> DEFINE s == held[t]
  <2>1. /\ waiting' = waiting /\ s # <<>> /\ s \in Seq(Mutexes)
        /\ held' = [held EXCEPT ![t] = SubSeq(s, 1, Len(s) - 1)]
        /\ held \in [Threads -> Seq(Mutexes)]
    BY <1>4 DEF Release, LockTypes
  <2>2. /\ held'[t] \in Seq(Mutexes) /\ Len(held'[t]) = Len(s) - 1 /\ Len(s) \in Nat \ {0}
        /\ \A i \in 1..Len(s) - 1 : held'[t][i] = s[i]
    BY <2>1, Popped
  <2>3. LockTypes'
    BY <1>4, <2>1, <2>2 DEF LockTypes
  <2>4. \A u \in Threads : \A i \in 1..Len(held'[u]) :
            i \in 1..Len(held[u]) /\ held'[u][i] = held[u][i]
    BY <2>1, <2>2
  <2>5. OneHolder'
    BY <1>4, <2>4 DEF OneHolder
  <2> QED
    BY <2>3, <2>5
<1>5. LockTypes /\ OneHolder /\ [Next]_vars => (LockTypes /\ OneHolder)'
  <2> SUFFICES ASSUME LockTypes, OneHolder, [Next]_vars PROVE LockTypes' /\ OneHolder'
    OBVIOUS
  <2>1. CASE UNCHANGED vars
    BY <2>1 DEF LockTypes, OneHolder, vars
  <2> QED
    BY <2>1, <1>2, <1>3, <1>4 DEF Next
<1>6. LockTypes /\ OneHolder => TypeOK
  BY DEF LockTypes, OneHolder, TypeOK
<1> QED
  BY <1>1, <1>5, <1>6, PTL DEF Spec

\* Asking for a mutex preserves the invariant.
LEMMA CallInv ==
    ASSUME ForeignCodeIsOrdered, Inv, NEW t \in Threads, NEW m \in Mutexes, Call(t, m)
    PROVE  Inv'
<1>1. /\ waiting[t] = None /\ held' = held /\ waiting' = [waiting EXCEPT ![t] = m]
      /\ held[t] # <<>> => m \in Asks(Innermost(t))
  BY DEF Call
<1>2. /\ held[t] \in Seq(Mutexes) /\ waiting \in [Threads -> Mutexes \cup {None}]
      /\ held \in [Threads -> Seq(Mutexes)]
  BY DEF Inv, LockTypes
<1>3. LockTypes'
  BY <1>1, <1>2 DEF LockTypes
<1>4. ASSUME NEW i \in 1..Len(held[t])
      PROVE  /\ Len(held[t]) \in 1..Len(held[t])
             /\ Innermost(t) \in Mutexes
             /\ m \in Asks(Innermost(t))
  BY <1>1, <1>2, <1>4 DEF Innermost
<1>5. ASSUME NEW i \in 1..Len(held[t])
      PROVE  held[t][i] # "registry"
  <2>1. Innermost(t) # "registry"
    BY <1>4, AsksUpwards
  <2> QED
    BY <2>1 DEF Inv, RegistryIsLast, Innermost
<1>6. RegistryIsLast'
  BY <1>1, <1>2, <1>5 DEF Inv, RegistryIsLast
<1>7. TakenInOrder'
  BY <1>1 DEF Inv, TakenInOrder
<1>8. ASSUME NEW i \in 1..Len(held[t])
      PROVE  Before(held[t][i], m) \/ (EnginesAskMore /\ Holds(t, "engines"))
  <2>1. Before(Innermost(t), m) \/ (EnginesAskMore /\ Innermost(t) = "engines")
    BY <1>4, AsksUpwards
  <2>2. Innermost(t) = "engines" => Holds(t, "engines")
    BY <1>4 DEF Holds, Innermost
  <2>3. \/ i = Len(held[t])
        \/ Before(held[t][i], Innermost(t))
        \/ EnginesAskMore /\ Holds(t, "engines")
    <3>1. Len(held[t]) \in Nat
      BY <1>2
    <3> QED
      BY <1>4, <3>1 DEF Inv, TakenInOrder, Innermost, Holds
  <2> QED
    BY <2>1, <2>2, <2>3, BeforeTransitive DEF Innermost
<1>9. WaitsInOrder'
  BY <1>1, <1>2, <1>8 DEF Inv, WaitsInOrder, Holds
<1> QED
  BY <1>3, <1>6, <1>7, <1>9 DEF Inv

\* Taking the mutex waited for preserves the invariant.
LEMMA AcquireInv ==
    ASSUME Inv, NEW t \in Threads, Acquire(t)
    PROVE  Inv'
<1> DEFINE s == held[t]
           w == waiting[t]
<1>1. /\ w # None /\ waiting' = [waiting EXCEPT ![t] = None]
      /\ held' = [held EXCEPT ![t] = Append(s, w)]
  BY DEF Acquire
<1>2. /\ s \in Seq(Mutexes) /\ w \in Mutexes
      /\ held \in [Threads -> Seq(Mutexes)]
      /\ waiting \in [Threads -> Mutexes \cup {None}]
  BY <1>1 DEF Inv, LockTypes
<1>3. /\ held'[t] \in Seq(Mutexes) /\ Len(held'[t]) = Len(s) + 1 /\ Len(s) \in Nat
      /\ \A i \in 1..Len(s) : held'[t][i] = s[i]
      /\ held'[t][Len(s) + 1] = w
  BY <1>1, <1>2, Appended
<1>4. \A i \in 1..Len(held'[t]) : i = Len(held'[t]) \/ i \in 1..Len(s)
  BY <1>3
<1>5. LockTypes'
  BY <1>1, <1>2, <1>3 DEF LockTypes
<1>6. waiting'[t] = None /\ \A u \in Threads \ {t} : held'[u] = held[u] /\ waiting'[u] = waiting[u]
  BY <1>1, <1>2
<1>7. \A i \in 1..Len(s) : s[i] # "registry"
  BY <1>1 DEF Inv, RegistryIsLast
<1> HIDE DEF s, w
<1>8. RegistryIsLast'
  BY <1>3, <1>4, <1>6, <1>7 DEF Inv, RegistryIsLast
<1>9. ASSUME NEW i \in 1..Len(held'[t]), NEW j \in 1..Len(held'[t]), i < j
      PROVE  \/ Before(held'[t][i], held'[t][j])
             \/ EnginesAskMore /\ \E k \in 1..j : held'[t][k] = "engines"
  <2>1. i \in 1..Len(s) /\ held'[t][i] = s[i]
    BY <1>3, <1>9
  <2>2. CASE j = Len(s) + 1
    <3>1. Before(s[i], w) \/ (EnginesAskMore /\ \E k \in 1..Len(s) : s[k] = "engines")
      BY <1>1, <2>1 DEF Inv, WaitsInOrder, Holds, s, w
    <3> QED
      BY <1>3, <2>1, <2>2, <3>1
  <2>3. CASE j \in 1..Len(s)
    <3>1. Before(s[i], s[j]) \/ (EnginesAskMore /\ \E k \in 1..j : s[k] = "engines")
      BY <1>9, <2>1, <2>3 DEF Inv, TakenInOrder, s
    <3>2. 1..j \subseteq 1..Len(s)
      BY <1>3, <2>3
    <3> QED
      BY <1>3, <2>1, <2>3, <3>1, <3>2
  <2> QED
    BY <1>3, <2>2, <2>3
<1>10. TakenInOrder'
  BY <1>6, <1>9 DEF Inv, TakenInOrder
<1>11. WaitsInOrder'
  BY <1>6 DEF Inv, WaitsInOrder, Holds
<1> QED
  BY <1>5, <1>8, <1>10, <1>11 DEF Inv

\* Giving the innermost mutex back preserves the invariant.
LEMMA ReleaseInv ==
    ASSUME Inv, NEW t \in Threads, Release(t)
    PROVE  Inv'
<1> DEFINE s == held[t]
<1>1. /\ waiting[t] = None /\ s # <<>> /\ waiting' = waiting
      /\ held' = [held EXCEPT ![t] = SubSeq(s, 1, Len(s) - 1)]
  BY DEF Release
<1>2. s \in Seq(Mutexes) /\ held \in [Threads -> Seq(Mutexes)]
  BY DEF Inv, LockTypes
<1>3. /\ held'[t] \in Seq(Mutexes) /\ Len(held'[t]) = Len(s) - 1 /\ Len(s) \in Nat \ {0}
      /\ \A i \in 1..Len(s) - 1 : held'[t][i] = s[i]
  BY <1>1, <1>2, Popped
<1>4. LockTypes'
  BY <1>1, <1>2, <1>3 DEF Inv, LockTypes
<1>5. \A u \in Threads \ {t} : held'[u] = held[u]
  BY <1>1, <1>2
<1>6. \A i \in 1..Len(held'[t]) : i \in 1..Len(s) /\ i # Len(s) /\ held'[t][i] = s[i]
  BY <1>3
<1> HIDE DEF s
<1>7. \A i \in 1..Len(held'[t]) : held'[t][i] # "registry"
  BY <1>6 DEF Inv, RegistryIsLast, s
<1>8. RegistryIsLast'
  BY <1>1, <1>5, <1>7 DEF Inv, RegistryIsLast
<1>9. ASSUME NEW i \in 1..Len(held'[t]), NEW j \in 1..Len(held'[t]), i < j
      PROVE  \/ Before(held'[t][i], held'[t][j])
             \/ EnginesAskMore /\ \E k \in 1..j : held'[t][k] = "engines"
  <2>1. Before(s[i], s[j]) \/ (EnginesAskMore /\ \E k \in 1..j : s[k] = "engines")
    BY <1>6, <1>9 DEF Inv, TakenInOrder, s
  <2>2. 1..j \subseteq 1..Len(held'[t])
    BY <1>3, <1>9
  <2> QED
    BY <1>6, <2>1, <2>2
<1>10. TakenInOrder'
  BY <1>5, <1>9 DEF Inv, TakenInOrder
<1>11. WaitsInOrder'
  BY <1>1, <1>5 DEF Inv, WaitsInOrder, Holds, s
<1> QED
  BY <1>4, <1>8, <1>10, <1>11 DEF Inv

\* Every behaviour satisfies the invariant.
THEOREM Invariance ==
    ASSUME ForeignCodeIsOrdered
    PROVE  Spec => []Inv
<1>1. Inv /\ [Next]_vars => Inv'
  <2> SUFFICES ASSUME Inv, [Next]_vars PROVE Inv'
    OBVIOUS
  <2>1. CASE UNCHANGED vars
    BY <2>1 DEF Inv, LockTypes, vars, RegistryIsLast, TakenInOrder, WaitsInOrder, Holds
  <2> QED
    BY <2>1, CallInv, AcquireInv, ReleaseInv DEF Next
<1> QED
  BY <1>1, InitInv, PTL DEF Spec

\* Threads that wait for each other in a circle: one of them holds an engine
\* mutex and waits for a mutex that is not the registry's.  Otherwise none of
\* them waits for the registry, whose holder waits for nothing, so none holds
\* an engine mutex, none waits for one, and so on down the order.
LEMMA CircleHoldsEngines ==
    ASSUME Inv, NEW S \in SUBSET Threads, Circular(S)
    PROVE  \E t \in S : /\ Holds(t, "engines") /\ waiting[t] # "registry"
                        /\ EnginesAskMore
<1> SUFFICES ASSUME \A t \in S : Holds(t, "engines") /\ EnginesAskMore
                                    => waiting[t] = "registry"
             PROVE  FALSE
  OBVIOUS
<1>1. /\ S # {}
      /\ \A t \in S : waiting[t] # None /\ \E u \in S : Holds(u, waiting[t])
  BY DEF Circular
<1>2. ASSUME NEW t \in S PROVE waiting[t] # "registry"
  BY <1>1 DEF Inv, RegistryIsLast, Holds
<1>3. ASSUME NEW u \in S, NEW m \in Mutexes, Holds(u, m)
      PROVE  Before(m, waiting[u])
  BY <1>1, <1>2, <1>3 DEF Inv, WaitsInOrder, Holds
<1>4. ASSUME NEW t \in S PROVE waiting[t] # "engines"
  BY <1>1, <1>2, <1>3 DEF Before, Mutexes
<1>5. ASSUME NEW t \in S PROVE waiting[t] # "cleaners"
  BY <1>1, <1>2, <1>3, <1>4 DEF Before, Mutexes
<1>6. ASSUME NEW t \in S PROVE waiting[t] # "dyload"
  BY <1>1, <1>2, <1>3, <1>4, <1>5 DEF Before, Mutexes
<1> QED
  BY <1>1, <1>2, <1>4, <1>5, <1>6 DEF Inv, LockTypes, Mutexes

\* No circle of waiting threads but through a constructor or destructor of an
\* engine that asks for more than the registry: dyload, clean_tls and the
\* engine map cannot block each other by themselves.
THEOREM EnginesAreTheOnlyCircle ==
    ASSUME ForeignCodeIsOrdered
    PROVE  Spec => []CircularOnlyThroughEngines
<1>1. Inv => CircularOnlyThroughEngines
  BY CircleHoldsEngines DEF CircularOnlyThroughEngines
<1> QED
  BY <1>1, Invariance, PTL

NoCircularWait == \A S \in SUBSET Threads : ~Circular(S)

\* With engines whose constructors ask for the registry's mutex alone, as to call
\* the wiltoncall that loads their code, nobody ever waits for himself or in a
\* circle.
THEOREM DeadlockFreedom ==
    ASSUME ForeignCodeIsOrdered, EngineAsks \subseteq {"registry"}
    PROVE  Spec => []NoCircularWait
<1>1. Inv => NoCircularWait
  BY CircleHoldsEngines DEF NoCircularWait, EnginesAskMore
<1> QED
  BY <1>1, Invariance, PTL
=============================================================================
