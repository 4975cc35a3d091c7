---------------------- MODULE WiltoncallRegistryProofs ----------------------
(***************************************************************************)
(* Proofs about WiltoncallRegistry, for any threads, names and callbacks   *)
(* and any maximum size.  The invariant Inv says that the mutex protects   *)
(* the map: as nobody else can be inside a method, what a method has       *)
(* checked stays true until it acts on it, which is what the capacity, the *)
(* atomicity of the methods and the action properties rest on.             *)
(***************************************************************************)
EXTENDS WiltoncallRegistry, FiniteSetTheorems, TLAPS

Inv == TypeOK /\ MutualExclusion /\ ChecksStayTrue

-----------------------------------------------------------------------------
(* What the requests and responses are made of.                            *)

\* A request carries the fields its operation uses.
LEMMA RequestFields ==
    ASSUME NEW r \in Requests
    PROVE  /\ r.op = "put" => r.name \in Names /\ r.fun \in Funs
           /\ r.op = "get" => r.name \in Names
           /\ r.op = "remove" => r.name \in Names
           /\ r.op = "set_thread_caps" => r.caps \in SUBSET Names /\ r.caps # {}
  BY DEF Requests, ValidRequests, Invalid, NoRequest

\* Everything a method responds with is a response.
LEMMA ResponseTypes ==
    /\ Ok \in Responses
    /\ NoResponse \in Responses
    /\ \A f \in Funs : Entry(f) \in Responses
    /\ \A S \in SUBSET Names : NameList(S) \in Responses
    /\ \A w \in Reasons : Error(w) \in Responses
  BY DEF Responses, Ok, NoResponse, Entry, NameList, Error

-----------------------------------------------------------------------------
\* The initial state satisfies the invariant.
LEMMA InitInv == Init => Inv
<1> SUFFICES ASSUME Init PROVE Inv
  OBVIOUS
<1>1. TypeOK
  BY ResponseTypes DEF Init, TypeOK, Requests
<1>2. MutualExclusion
  BY NoThreadAssumption DEF Init, MutualExclusion, InCriticalSection
<1>3. ChecksStayTrue
  BY DEF Init, ChecksStayTrue
<1> QED
  BY <1>1, <1>2, <1>3 DEF Inv

\* Every step keeps the variables well typed.
LEMMA StepTypeOK ==
    ASSUME Inv, [Next]_vars
    PROVE  TypeOK'
<1> USE DEF Inv, TypeOK
<1>1. ASSUME NEW t \in Threads, NEW r \in ValidRequests, Invoke(t, r)
      PROVE  TypeOK'
  BY <1>1 DEF Invoke, Requests
<1>2. ASSUME NEW t \in Threads, Refuse(t)
      PROVE  TypeOK'
  <2>1. Error("invalid_parameter") \in Responses
    BY ResponseTypes DEF Reasons
  <2> QED
    BY <1>2, <2>1 DEF Refuse, Requests
<1>3. ASSUME NEW t \in Threads, Lock(t)
      PROVE  TypeOK'
  BY <1>3 DEF Lock
<1>4. ASSUME NEW t \in Threads, Return(t)
      PROVE  TypeOK'
  BY <1>4, ResponseTypes DEF Return, Requests
<1>5. ASSUME NEW t \in Threads, NEW r \in Responses, Leave(t, r),
             map' \in [Names -> Funs \cup {NoFun}],
             caps_tlmap' \in [Threads -> SUBSET Names]
      PROVE  TypeOK'
  BY <1>5 DEF Leave
<1>6. ASSUME NEW t \in Threads,
             NEW l \in {"insert", "caps", "verify"}, Goto(t, l),
             UNCHANGED <<map, caps_tlmap, vec>>,
             it' \in [Threads -> Funs \cup {NoFun}]
      PROVE  TypeOK'
  BY <1>6 DEF Goto
<1>7. ASSUME NEW t \in Threads, PutCheck(t)
      PROVE  TypeOK'
  <2>1. Error("size_exceeded") \in Responses /\ Error("duplicate_name") \in Responses
    BY ResponseTypes DEF Reasons
  <2> QED
    BY <1>5, <1>6, <1>7, <2>1 DEF PutCheck
<1>8. ASSUME NEW t \in Threads, PutInsert(t)
      PROVE  TypeOK'
  <2>1. map' \in [Names -> Funs \cup {NoFun}]
    BY <1>8, RequestFields DEF PutInsert, At
  <2> QED
    BY <1>5, <1>8, <2>1, ResponseTypes DEF PutInsert
<1>9. ASSUME NEW t \in Threads, GetFind(t)
      PROVE  TypeOK'
  <2>1. Error("unknown_name") \in Responses
    BY ResponseTypes DEF Reasons
  <2>2. map[req[t].name] \in Funs \cup {NoFun}
    BY <1>9, RequestFields DEF GetFind, At
  <2>3. [it EXCEPT ![t] = map[req[t].name]] \in [Threads -> Funs \cup {NoFun}]
    BY <2>2
  <2> QED
    BY <1>5, <1>6, <1>9, <2>1, <2>3 DEF GetFind
<1>10. ASSUME NEW t \in Threads, GetChecked(t)
       PROVE  TypeOK'
  <2>1. req[t].op = "get" /\ pc[t] = "caps"
    BY <1>10 DEF GetChecked, At
  <2>2. it[t] \in Funs
    BY <2>1, RequestFields DEF ChecksStayTrue, Registered
  <2>3. Entry(it[t]) \in Responses
    BY <2>2, ResponseTypes
  <2>4. Error("capabilities_error") \in Responses
    BY ResponseTypes DEF Reasons
  <2> QED
    BY <1>5, <1>10, <2>3, <2>4 DEF GetChecked
<1>11. ASSUME NEW t \in Threads, ListNext(t)
       PROVE  TypeOK'
  BY <1>11 DEF ListNext, Registered
<1>12. ASSUME NEW t \in Threads, ListEnd(t)
       PROVE  TypeOK'
  <2>1. NameList(vec[t]) \in Responses
    BY ResponseTypes
  <2> QED
    BY <1>5, <1>12, <2>1 DEF ListEnd
<1>13. ASSUME NEW t \in Threads, Remove(t)
       PROVE  TypeOK'
  <2>1. Ok \in Responses /\ Error("unknown_name") \in Responses
    BY ResponseTypes DEF Reasons
  <2>2. map' \in [Names -> Funs \cup {NoFun}]
    BY <1>13 DEF Remove
  <2> QED
    BY <1>5, <1>13, <2>1, <2>2 DEF Remove
<1>14. ASSUME NEW t \in Threads, SetCapsCheck(t)
       PROVE  TypeOK'
  <2>1. Error("capabilities_already_set") \in Responses
    BY ResponseTypes DEF Reasons
  <2> QED
    BY <1>5, <1>6, <1>14, <2>1 DEF SetCapsCheck
<1>15. ASSUME NEW t \in Threads, SetCapsVerify(t)
       PROVE  TypeOK'
  <2>1. Error("capabilities_already_set") \in Responses
    BY ResponseTypes DEF Reasons
  <2>2. req[t].caps \in SUBSET Names
    BY <1>15, RequestFields DEF SetCapsVerify, At
  <2> QED
    BY <1>5, <1>15, <2>1, <2>2 DEF SetCapsVerify
<1>16. ASSUME NEW t \in Threads, SetCapsInsert(t)
       PROVE  TypeOK'
  <2>1. caps_tlmap' \in [Threads -> SUBSET Names]
    BY <1>16, RequestFields DEF SetCapsInsert, At
  <2> QED
    BY <1>5, <1>16, <2>1, ResponseTypes DEF SetCapsInsert
<1>17. CASE UNCHANGED vars
  BY <1>17 DEF vars
<1> QED
  BY <1>1, <1>2, <1>3, <1>4, <1>7, <1>8, <1>9, <1>10, <1>11, <1>12, <1>13,
     <1>14, <1>15, <1>16, <1>17 DEF Next, Step

-----------------------------------------------------------------------------
\* A statement of a method is run inside the method by the holder of the
\* mutex, and either leaves the method or goes on inside it.
LEMMA StepShape ==
    ASSUME Inv, NEW t \in Threads, Step(t)
    PROVE  /\ mutex = t
           /\ \/ Leave(t, res'[t])
              \/ /\ UNCHANGED <<mutex, req, res>>
                 /\ \E l \in {"enter", "insert", "caps", "verify"} :
                        pc' = [pc EXCEPT ![t] = l]
<1> USE DEF Inv, TypeOK
<1>1. InCriticalSection(t)
  BY DEF Step, InCriticalSection, At, PutCheck, PutInsert, GetFind, GetChecked,
         ListNext, ListEnd, Remove, SetCapsCheck, SetCapsVerify, SetCapsInsert
<1>2. mutex = t
  BY <1>1 DEF MutualExclusion
<1>3. ASSUME NEW r, Leave(t, r)
      PROVE  Leave(t, res'[t])
  BY <1>3 DEF Leave
<1>4. \/ \E r : Leave(t, r)
      \/ \E l \in {"insert", "caps", "verify"} : Goto(t, l)
      \/ UNCHANGED <<mutex, pc, req, res>>
  BY DEF Step, PutCheck, PutInsert, GetFind, GetChecked,
         ListNext, ListEnd, Remove, SetCapsCheck, SetCapsVerify, SetCapsInsert
<1>5. CASE \E l \in {"insert", "caps", "verify"} : Goto(t, l)
  BY <1>2, <1>5 DEF Goto
<1>6. CASE UNCHANGED <<mutex, pc, req, res>>
  <2>1. pc' = [pc EXCEPT ![t] = pc[t]]
    BY <1>6
  <2> QED
    BY <1>1, <1>2, <1>6, <2>1 DEF InCriticalSection
<1> QED
  BY <1>2, <1>3, <1>4, <1>5, <1>6

\* Nobody but the holder of the mutex is inside a method.
LEMMA StepMutualExclusion ==
    ASSUME Inv, [Next]_vars
    PROVE  MutualExclusion'
<1> USE NoThreadAssumption DEF Inv, TypeOK, MutualExclusion, InCriticalSection
<1>1. ASSUME NEW t \in Threads, NEW r \in ValidRequests, Invoke(t, r)
      PROVE  MutualExclusion'
  BY <1>1 DEF Invoke
<1>2. ASSUME NEW t \in Threads, Refuse(t)
      PROVE  MutualExclusion'
  BY <1>2 DEF Refuse
<1>3. ASSUME NEW t \in Threads, Lock(t)
      PROVE  MutualExclusion'
  BY <1>3 DEF Lock
<1>4. ASSUME NEW t \in Threads, Return(t)
      PROVE  MutualExclusion'
  BY <1>4 DEF Return
<1>5. ASSUME NEW t \in Threads, Step(t)
      PROVE  MutualExclusion'
  <2>1. mutex = t
    BY <1>5, StepShape
  <2>2. CASE Leave(t, res'[t])
    BY <2>1, <2>2 DEF Leave
  <2>3. ASSUME UNCHANGED mutex, NEW l \in {"enter", "insert", "caps", "verify"},
               pc' = [pc EXCEPT ![t] = l]
        PROVE  MutualExclusion'
    BY <2>1, <2>3
  <2> QED
    BY <1>5, <2>2, <2>3, StepShape
<1>6. CASE UNCHANGED vars
  BY <1>6 DEF vars
<1> QED
  BY <1>1, <1>2, <1>3, <1>4, <1>5, <1>6 DEF Next

\* What a method has checked survives every step of every thread: the map and
\* the capabilities change only in steps of the holder of the mutex, and those
\* that change them leave the method.
LEMMA StepChecksStayTrue ==
    ASSUME Inv, [Next]_vars
    PROVE  ChecksStayTrue'
<1> USE DEF Inv, TypeOK
<1>1. ASSUME UNCHANGED <<map, caps_tlmap, vec, it>>,
             NEW t \in Threads, pc[t] \in {"idle", "lock", "done"},
             NEW l \in {"idle", "lock", "enter", "done"},
             pc' = [pc EXCEPT ![t] = l],
             \A u \in Threads \ {t} : req'[u] = req[u]
      PROVE  ChecksStayTrue'
  BY <1>1 DEF ChecksStayTrue, Registered, Full, At
<1>2. ASSUME NEW t \in Threads, NEW r \in ValidRequests, Invoke(t, r)
      PROVE  ChecksStayTrue'
  BY <1>1, <1>2 DEF Invoke
<1>3. ASSUME NEW t \in Threads, Refuse(t)
      PROVE  ChecksStayTrue'
  BY <1>1, <1>3 DEF Refuse
<1>4. ASSUME NEW t \in Threads, Lock(t)
      PROVE  ChecksStayTrue'
  BY <1>1, <1>4 DEF Lock
<1>5. ASSUME NEW t \in Threads, Return(t)
      PROVE  ChecksStayTrue'
  BY <1>1, <1>5 DEF Return
<1>6. ASSUME NEW t \in Threads, Step(t)
      PROVE  ChecksStayTrue'
  <2>1. mutex = t
    BY <1>6, StepShape
  <2>2. \A u \in Threads \ {t} : pc[u] \in {"idle", "lock", "done"} /\ vec[u] = {}
    BY <2>1 DEF MutualExclusion, InCriticalSection, ChecksStayTrue, At
  <2>3. ASSUME Leave(t, res'[t]), map' \in [Names -> Funs \cup {NoFun}]
        PROVE  ChecksStayTrue'
    BY <2>2, <2>3 DEF Leave, ChecksStayTrue
  <2>4. ASSUME NEW l \in {"enter", "insert", "caps", "verify"},
               pc' = [pc EXCEPT ![t] = l],
               UNCHANGED <<map, caps_tlmap, req>>,
               NEW S \in SUBSET Registered(map), vec' = [vec EXCEPT ![t] = S],
               S # {} => l = "verify" \/ (l = "enter" /\ req[t].op = "list"),
               l = "insert" =>
                   /\ req[t].op = "put"
                   /\ ~Full(map)
                   /\ req[t].name \notin Registered(map),
               l = "caps" =>
                   /\ req[t].op = "get"
                   /\ req[t].name \in Registered(map)
                   /\ it'[t] = map[req[t].name],
               l = "verify" => req[t].op = "set_thread_caps" /\ caps_tlmap[t] = {}
        PROVE  ChecksStayTrue'
    BY <2>2, <2>4 DEF ChecksStayTrue, Registered, Full, At
  <2>5. CASE Leave(t, res'[t])
    <3>1. TypeOK'
      BY <1>6, StepTypeOK DEF Next
    <3> QED
      BY <2>3, <2>5, <3>1
  <2>6. ASSUME ~Leave(t, res'[t]), PutCheck(t)
        PROVE  ChecksStayTrue'
    <3>1. Goto(t, "insert") /\ At(t, "enter", "put") /\ UNCHANGED <<map, caps_tlmap, vec>>
      BY <2>6 DEF PutCheck, Leave
    <3>2. ~Full(map) /\ req[t].name \notin Registered(map)
      BY <2>6, <3>1 DEF PutCheck, Leave, Goto
    <3>3. vec' = [vec EXCEPT ![t] = {}]
      BY <3>1 DEF ChecksStayTrue, At
    <3> QED
      BY <2>4, <3>1, <3>2, <3>3 DEF Goto, At
  <2>7. ASSUME ~Leave(t, res'[t]), GetFind(t)
        PROVE  ChecksStayTrue'
    <3>1. Goto(t, "caps") /\ At(t, "enter", "get") /\ UNCHANGED <<map, caps_tlmap, vec>>
      BY <2>7 DEF GetFind, Leave
    <3>2. req[t].name \in Registered(map) /\ it'[t] = map[req[t].name]
      BY <2>7, <3>1 DEF GetFind, Leave, Goto
    <3>3. vec' = [vec EXCEPT ![t] = {}]
      BY <3>1 DEF ChecksStayTrue, At
    <3> QED
      BY <2>4, <3>1, <3>2, <3>3 DEF Goto, At
  <2>8. ASSUME ListNext(t)
        PROVE  ChecksStayTrue'
    <3>1. PICK n \in Registered(map) : vec' = [vec EXCEPT ![t] = @ \cup {n}]
      BY <2>8 DEF ListNext
    <3>2. vec[t] \cup {n} \in SUBSET Registered(map)
      BY DEF ChecksStayTrue
    <3>3. pc' = [pc EXCEPT ![t] = "enter"]
      BY <2>8 DEF ListNext, At
    <3> QED
      BY <2>4, <2>8, <3>1, <3>2, <3>3 DEF ListNext, At
  <2>9. ASSUME ~Leave(t, res'[t]), SetCapsCheck(t)
        PROVE  ChecksStayTrue'
    <3>1. Goto(t, "verify") /\ At(t, "enter", "set_thread_caps")
          /\ UNCHANGED <<map, caps_tlmap, vec>>
      BY <2>9 DEF SetCapsCheck, Leave
    <3>2. caps_tlmap[t] = {}
      BY <2>9, <3>1 DEF SetCapsCheck, Leave, Goto
    <3>3. vec' = [vec EXCEPT ![t] = {}]
      BY <3>1 DEF ChecksStayTrue, At
    <3> QED
      BY <2>4, <3>1, <3>2, <3>3 DEF Goto, At
  <2>10. ASSUME ~Leave(t, res'[t]), SetCapsVerify(t)
         PROVE  ChecksStayTrue'
    <3>1. PICK cp \in Registered(map) : vec' = [vec EXCEPT ![t] = @ \cup {cp}]
      BY <2>10 DEF SetCapsVerify, Leave
    <3>2. At(t, "verify", "set_thread_caps")
          /\ UNCHANGED <<map, caps_tlmap, pc, req>>
      BY <2>10 DEF SetCapsVerify, Leave
    <3>3. vec[t] \cup {cp} \in SUBSET Registered(map) /\ caps_tlmap[t] = {}
      BY <3>2 DEF ChecksStayTrue, At
    <3>4. pc' = [pc EXCEPT ![t] = "verify"]
      BY <3>2 DEF At
    <3> QED
      BY <2>4, <3>1, <3>2, <3>3, <3>4 DEF At
  <2>11. ASSUME \/ PutInsert(t) \/ GetChecked(t) \/ ListEnd(t)
                \/ Remove(t) \/ SetCapsInsert(t)
         PROVE  Leave(t, res'[t])
    BY <2>11 DEF PutInsert, GetChecked, ListEnd, Remove, SetCapsInsert, Leave
  <2> QED
    BY <1>6, <2>5, <2>6, <2>7, <2>8, <2>9, <2>10, <2>11 DEF Step
<1>7. CASE UNCHANGED vars
  BY <1>7 DEF vars, ChecksStayTrue, Registered, Full, At
<1> QED
  BY <1>2, <1>3, <1>4, <1>5, <1>6, <1>7 DEF Next

\* The types, the mutual exclusion and the checks that stay true hold of the
\* registry with any number of threads (TypeOK, MutualExclusion and
\* ChecksStayTrue of the methods of wiltoncall_registry).
THEOREM Invariance == Spec => [](TypeOK /\ MutualExclusion /\ ChecksStayTrue)
<1>1. Inv /\ [Next]_vars => Inv'
  BY StepTypeOK, StepMutualExclusion, StepChecksStayTrue DEF Inv
<1> QED
  BY InitInv, <1>1, PTL DEF Spec, Inv

-----------------------------------------------------------------------------
(* The capacity of the map.                                                *)

\* What a step does to the registered names: put adds the one it has checked
\* to be free when there is room, remove takes one away.
LEMMA StepRegistered ==
    ASSUME Inv, [Next]_vars
    PROVE  \/ Registered(map') = Registered(map)
           \/ \E n \in Names : Registered(map') = Registered(map) \ {n}
           \/ \E n \in Names :
                  ~Full(map) /\ Registered(map') = Registered(map) \cup {n}
<1> USE DEF Inv, TypeOK
<1>1. ASSUME NEW t \in Threads, PutInsert(t)
      PROVE  \E n \in Names :
                 ~Full(map) /\ Registered(map') = Registered(map) \cup {n}
  <2>1. req[t].name \in Names /\ req[t].fun \in Funs
    BY <1>1, RequestFields DEF PutInsert, At
  <2>2. map' = [map EXCEPT ![req[t].name] = req[t].fun] /\ ~Full(map)
    BY <1>1 DEF PutInsert, At, ChecksStayTrue
  <2>3. Registered(map') = Registered(map) \cup {req[t].name}
    BY <2>1, <2>2, CallAssumption DEF Registered
  <2> QED
    BY <2>1, <2>2, <2>3
<1>2. ASSUME NEW t \in Threads, Remove(t)
      PROVE  \E n \in Names : Registered(map') = Registered(map) \ {n}
  <2>1. req[t].name \in Names
    BY <1>2, RequestFields DEF Remove, At
  <2>2. Registered(map') = Registered(map) \ {req[t].name}
    BY <1>2, <2>1 DEF Remove, Registered
  <2> QED
    BY <2>1, <2>2
<1>3. CASE UNCHANGED map
  BY <1>3 DEF Registered
<1> QED
  BY <1>1, <1>2, <1>3
  DEF Next, Step, vars, Invoke, Refuse, Lock, Return, PutCheck, GetFind, GetChecked,
      ListNext, ListEnd, SetCapsCheck, SetCapsVerify, SetCapsInsert

\* The map never outgrows max_reg_entries, for any maximum and any number of
\* racing put calls (wiltoncall_registry::put).
THEOREM Capacity == Spec => []CapacityBound
<1>1. Init => CapacityBound
  <2> SUFFICES ASSUME Init PROVE CapacityBound
    OBVIOUS
  <2>1. Registered(map) = {}
    BY DEF Init, Registered
  <2> QED
    BY <2>1, FS_EmptySet, CallAssumption DEF CapacityBound
<1>2. Inv /\ CapacityBound /\ [Next]_vars => CapacityBound'
  <2> SUFFICES ASSUME Inv, CapacityBound, [Next]_vars PROVE CapacityBound'
    OBVIOUS
  <2> DEFINE R == Registered(map)
  <2>1. IsFiniteSet(R) /\ Cardinality(R) \in Nat /\ Cardinality(R) <= MaxEntries
    BY FS_CardinalityType DEF CapacityBound
  <2>2. CASE Registered(map') = R
    BY <2>1, <2>2 DEF CapacityBound
  <2>3. ASSUME NEW n \in Names, Registered(map') = R \ {n}
        PROVE  CapacityBound'
    <3>1. IsFiniteSet(R \ {n}) /\ Cardinality(R \ {n}) <= Cardinality(R)
      BY <2>1, FS_Subset
    <3>2. Cardinality(R \ {n}) \in Nat
      BY <3>1, FS_CardinalityType
    <3> QED
      BY <2>1, <2>3, <3>1, <3>2, CallAssumption DEF CapacityBound
  <2>4. ASSUME NEW n \in Names, ~Full(map), Registered(map') = R \cup {n}
        PROVE  CapacityBound'
    <3> HIDE DEF R
    <3>1. /\ IsFiniteSet(R \cup {n})
          /\ Cardinality(R \cup {n}) =
                 IF n \in R THEN Cardinality(R) ELSE Cardinality(R) + 1
      BY <2>1, FS_AddElement
    <3>2. Cardinality(R) < MaxEntries
      BY <2>1, <2>4, CallAssumption DEF Full, R
    <3>3. Cardinality(R \cup {n}) <= MaxEntries
      BY <2>1, <3>1, <3>2, CallAssumption
    <3> QED
      BY <2>4, <3>1, <3>3 DEF CapacityBound, R
  <2> QED
    BY <2>2, <2>3, <2>4, StepRegistered
<1> QED
  BY Invariance, <1>1, <1>2, PTL DEF Spec, Inv

-----------------------------------------------------------------------------
(* The action properties.                                                  *)

\* Capabilities are granted to a thread once, and all of them are registered
\* at that instant (set_thread_caps).
THEOREM CapsGranted == Spec => CapsGrantedOnce
<1>1. ASSUME Inv, [Next]_vars, NEW t \in Threads, caps_tlmap'[t] # caps_tlmap[t]
      PROVE  /\ caps_tlmap[t] = {}
             /\ caps_tlmap'[t] # {}
             /\ caps_tlmap'[t] \subseteq Registered(map)
  <2> USE DEF Inv, TypeOK
  <2>1. PICK u \in Threads : SetCapsInsert(u)
    BY <1>1
    DEF Next, Step, vars, Invoke, Refuse, Lock, Return, PutCheck, PutInsert, GetFind,
        GetChecked, ListNext, ListEnd, Remove, SetCapsCheck, SetCapsVerify
  <2>2. u = t /\ caps_tlmap'[t] = req[t].caps
    BY <1>1, <2>1 DEF SetCapsInsert
  <2>3. pc[t] = "verify" /\ req[t].op = "set_thread_caps" /\ req[t].caps \subseteq vec[t]
    BY <2>1, <2>2 DEF SetCapsInsert, At
  <2>4. req[t].caps # {}
    BY <1>1, <2>3, RequestFields
  <2>5. caps_tlmap[t] = {} /\ vec[t] \subseteq Registered(map)
    BY <1>1, <2>3 DEF ChecksStayTrue
  <2> QED
    BY <2>2, <2>3, <2>4, <2>5
<1>2. Inv /\ [Next]_vars =>
          [\A t \in Threads :
               caps_tlmap'[t] # caps_tlmap[t] =>
                   /\ caps_tlmap[t] = {}
                   /\ caps_tlmap'[t] # {}
                   /\ caps_tlmap'[t] \subseteq Registered(map)]_vars
  BY <1>1
<1> QED
  BY Invariance, <1>2, PTL DEF Spec, Inv, CapsGrantedOnce

\* The callback under a name is never replaced in place (put refuses a name
\* that is taken, so a callback changes only through remove).
THEOREM EntriesNeverReplaced == Spec => NeverReplaced
<1>1. ASSUME Inv, [Next]_vars, NEW n \in Names, map'[n] # map[n]
      PROVE  map[n] = NoFun \/ map'[n] = NoFun
  <2> USE DEF Inv, TypeOK
  <2>1. PICK u \in Threads : PutInsert(u) \/ Remove(u)
    BY <1>1
    DEF Next, Step, vars, Invoke, Refuse, Lock, Return, PutCheck, GetFind,
        GetChecked, ListNext, ListEnd, SetCapsCheck, SetCapsVerify, SetCapsInsert
  <2>2. CASE PutInsert(u)
    <3>1. pc[u] = "insert" /\ req[u].op = "put"
      BY <2>2 DEF PutInsert, At
    <3>2. req[u].name \in Names /\ map[req[u].name] = NoFun
      BY <1>1, <3>1, RequestFields DEF ChecksStayTrue, Registered
    <3> QED
      BY <1>1, <2>2, <3>2 DEF PutInsert
  <2>3. CASE Remove(u)
    BY <1>1, <2>3 DEF Remove
  <2> QED
    BY <2>1, <2>2, <2>3
<1>2. Inv /\ [Next]_vars =>
          [\A n \in Names :
               map'[n] # map[n] => map[n] = NoFun \/ map'[n] = NoFun]_vars
  BY <1>1
<1> QED
  BY Invariance, <1>2, PTL DEF Spec, Inv, NeverReplaced

\* What get hands out through its iterator is the callback registered at the
\* instant it is handed out, and one the thread may call: from the lookup to the
\* copy the mutex is held, so no other thread has changed the entry
\* (wiltoncall_registry::get).
THEOREM HandedOut == Spec => HandedOutCurrent
<1>1. ASSUME Inv, [Next]_vars, NEW t \in Threads,
             res'[t] # res[t], res'[t].kind = "entry"
      PROVE  /\ res'[t].fun = map'[req[t].name]
             /\ Permits(caps_tlmap'[t], req[t].name)
  <2> USE DEF Inv, TypeOK
  <2>1. PICK u \in Threads : Refuse(u) \/ Return(u) \/ Step(u)
    BY <1>1 DEF Next, vars, Invoke, Lock
  <2>2. CASE Refuse(u)
    <3>1. res'[t] = Error("invalid_parameter")
      <4>1. res' = [res EXCEPT ![u] = Error("invalid_parameter")]
        BY <2>2 DEF Refuse
      <4>2. u = t
        BY <1>1, <4>1
      <4> QED
        BY <1>1, <4>1, <4>2
    <3>2. res'[t].kind = "error"
      BY <3>1 DEF Error
    <3> QED
      BY <1>1, <3>2
  <2>3. CASE Return(u)
    <3>1. res'[t] = NoResponse
      BY <1>1, <2>3 DEF Return
    <3> QED
      BY <1>1, <3>1 DEF NoResponse
  <2>4. CASE Step(u)
    <3>1. u = t
      BY <1>1, <2>4, StepShape DEF Leave
    <3>2. \A r : Leave(t, r) => r.kind = "entry"
      BY <1>1 DEF Leave
    <3>3. /\ Ok.kind # "entry"
          /\ \A S : NameList(S).kind # "entry"
          /\ \A w : Error(w).kind # "entry"
      BY DEF Ok, NameList, Error
    <3>4. GetChecked(t)
      <4>1. /\ ~UNCHANGED <<mutex, req, res>>
            /\ ~Leave(t, Ok)
            /\ \A S : ~Leave(t, NameList(S))
            /\ \A w : ~Leave(t, Error(w))
        BY <1>1, <3>2, <3>3
      <4> QED
      BY <2>4, <3>1, <4>1
      DEF Step, Goto, PutCheck, PutInsert, GetFind, ListNext, ListEnd, Remove,
          SetCapsCheck, SetCapsVerify, SetCapsInsert
    <3>5. Permits(caps_tlmap[t], req[t].name) /\ Leave(t, Entry(it[t]))
      <4>1. ~Leave(t, Error("capabilities_error"))
        BY <3>2, <3>3
      <4> QED
        BY <3>4, <4>1 DEF GetChecked
    <3>6. res'[t].fun = it[t]
      BY <1>1, <3>5 DEF Leave, Entry
    <3>7. it[t] = map[req[t].name]
      BY <1>1, <3>4 DEF GetChecked, At, ChecksStayTrue
    <3> QED
      BY <3>4, <3>5, <3>6, <3>7 DEF GetChecked
  <2> QED
    BY <2>1, <2>2, <2>3, <2>4
<1>2. Inv /\ [Next]_vars =>
          [\A t \in Threads :
               res'[t] # res[t] /\ res'[t].kind = "entry" =>
                   /\ res'[t].fun = map'[req[t].name]
                   /\ Permits(caps_tlmap'[t], req[t].name)]_vars
  BY <1>1
<1> QED
  BY Invariance, <1>2, PTL DEF Spec, Inv, HandedOutCurrent

-----------------------------------------------------------------------------
(***************************************************************************)
(* The end of a method.  A statement either leaves the method or takes     *)
(* something from what is left of it, and nobody else adds to that: what   *)
(* remains of OnlyStarvedByOthers is that the scheduler goes on.           *)
(***************************************************************************)
\* The names the loop of a method has still to pass.
Work(t) ==
    IF At(t, "enter", "list") THEN Registered(map) \ vec[t]
    ELSE IF req[t].op = "set_thread_caps" THEN req[t].caps \ vec[t]
    ELSE {}

\* The statements at most left before the one that leaves the method.
Left(t) == Cardinality(Work(t)) + (IF pc[t] = "enter" THEN 1 ELSE 0)

FiniteCaps(t) == req[t].op = "set_thread_caps" => IsFiniteSet(req[t].caps)

\* While a thread is inside a method, each of its statements brings the method
\* nearer to its end and no step of another thread brings it further away: the
\* loops of list and set_thread_caps cannot be kept going by calls that race.
MethodsAdvance ==
    [][\A t \in Threads :
           InCriticalSection(t) /\ InCriticalSection(t)' /\ FiniteCaps(t) =>
               /\ Left(t) \in Nat /\ Left(t)' \in Nat
               /\ Left(t)' = Left(t) \/ Left(t)' < Left(t)
               /\ Step(t) => Left(t)' < Left(t)]_vars

\* Nothing another thread does changes what a method has still to do.
LEMMA WorkIsOwn ==
    ASSUME Inv, [Next]_vars, NEW t \in Threads,
           InCriticalSection(t), ~Step(t)
    PROVE  map' = map /\ pc'[t] = pc[t] /\ req'[t] = req[t] /\ vec'[t] = vec[t]
<1> USE DEF Inv, TypeOK
<1>1. mutex = t /\ pc[t] \notin {"idle", "lock", "done"}
  BY DEF MutualExclusion, InCriticalSection
<1>2. ASSUME NEW u \in Threads, NEW r \in ValidRequests, Invoke(u, r)
      PROVE  map' = map /\ pc'[t] = pc[t] /\ req'[t] = req[t] /\ vec'[t] = vec[t]
  BY <1>1, <1>2 DEF Invoke
<1>3. ASSUME NEW u \in Threads, Refuse(u) \/ Lock(u) \/ Return(u)
      PROVE  map' = map /\ pc'[t] = pc[t] /\ req'[t] = req[t] /\ vec'[t] = vec[t]
  BY <1>1, <1>3 DEF Refuse, Lock, Return
<1>4. ASSUME NEW u \in Threads, Step(u)
      PROVE  FALSE
  BY <1>1, <1>4, StepShape
<1>5. CASE UNCHANGED vars
  BY <1>5 DEF vars
<1> QED
  BY <1>2, <1>3, <1>4, <1>5 DEF Next

\* A statement that stays in the method is its first check, or passes a name.
LEMMA StatementWorks ==
    ASSUME Inv, NEW t \in Threads, Step(t), InCriticalSection(t)'
    PROVE  \/ /\ pc[t] = "enter" /\ pc'[t] # "enter"
              /\ Work(t)' = Work(t)
           \/ /\ pc'[t] = pc[t]
              /\ \E n \in Work(t) : Work(t)' = Work(t) \ {n}
<1> USE DEF Inv, TypeOK
<1>1. ~Leave(t, res'[t])
  BY DEF Leave, InCriticalSection
<1>2. \A r : ~Leave(t, r)
  BY <1>1 DEF Leave
<1>3. CASE PutCheck(t)
  <2>1. At(t, "enter", "put") /\ Goto(t, "insert")
    BY <1>2, <1>3 DEF PutCheck
  <2>2. pc[t] = "enter" /\ pc'[t] = "insert" /\ req'[t] = req[t] /\ req[t].op = "put"
    BY <2>1 DEF At, Goto
  <2>3. Work(t) = {} /\ Work(t)' = {}
    BY <2>2 DEF Work, At
  <2> QED
    BY <2>2, <2>3
<1>4. CASE GetFind(t)
  <2>1. At(t, "enter", "get") /\ Goto(t, "caps")
    BY <1>2, <1>4 DEF GetFind
  <2>2. pc[t] = "enter" /\ pc'[t] = "caps" /\ req'[t] = req[t] /\ req[t].op = "get"
    BY <2>1 DEF At, Goto
  <2>3. Work(t) = {} /\ Work(t)' = {}
    BY <2>2 DEF Work, At
  <2> QED
    BY <2>2, <2>3
<1>5. CASE SetCapsCheck(t)
  <2>1. At(t, "enter", "set_thread_caps") /\ Goto(t, "verify") /\ UNCHANGED vec
    BY <1>2, <1>5 DEF SetCapsCheck
  <2>2. pc[t] = "enter" /\ pc'[t] = "verify" /\ req'[t] = req[t]
        /\ req[t].op = "set_thread_caps"
    BY <2>1 DEF At, Goto
  <2>3. Work(t) = req[t].caps \ vec[t] /\ Work(t)' = req[t].caps \ vec[t]
    BY <2>1, <2>2 DEF Work, At
  <2> QED
    BY <2>2, <2>3
<1>6. CASE ListNext(t)
  <2>1. PICK n \in Registered(map) \ vec[t] : vec' = [vec EXCEPT ![t] = @ \cup {n}]
    BY <1>6 DEF ListNext
  <2>2. At(t, "enter", "list") /\ UNCHANGED <<map, pc, req>>
    BY <1>6 DEF ListNext
  <2>3. Work(t) = Registered(map) \ vec[t]
    BY <2>2 DEF Work
  <2>4. Work(t)' = Registered(map) \ (vec[t] \cup {n})
    BY <2>1, <2>2 DEF Work, At, Registered
  <2> QED
    BY <2>1, <2>2, <2>3, <2>4
<1>7. CASE SetCapsVerify(t)
  <2>1. PICK n \in req[t].caps \ vec[t] :
            /\ vec' = [vec EXCEPT ![t] = @ \cup {n}]
            /\ UNCHANGED <<pc, req>>
    BY <1>2, <1>7 DEF SetCapsVerify
  <2>2. pc[t] = "verify" /\ req[t].op = "set_thread_caps"
    BY <1>7 DEF SetCapsVerify, At
  <2>3. Work(t) = req[t].caps \ vec[t]
    BY <2>2 DEF Work, At
  <2>4. Work(t)' = req[t].caps \ (vec[t] \cup {n})
    BY <2>1, <2>2 DEF Work, At
  <2> QED
    BY <2>1, <2>3, <2>4
<1> QED
  BY <1>2, <1>3, <1>4, <1>5, <1>6, <1>7
  DEF Step, PutInsert, GetChecked, ListEnd, Remove, SetCapsInsert

\* What is left of a method decreases with each of its statements and is
\* increased by nobody, whatever calls race with it (the loops of list and
\* set_thread_caps, wiltoncall_registry.hpp).
THEOREM Advance == Spec => MethodsAdvance
<1>1. ASSUME Inv, CapacityBound, [Next]_vars, NEW t \in Threads,
             InCriticalSection(t), InCriticalSection(t)', FiniteCaps(t)
      PROVE  /\ Left(t) \in Nat /\ Left(t)' \in Nat
             /\ Left(t)' = Left(t) \/ Left(t)' < Left(t)
             /\ Step(t) => Left(t)' < Left(t)
  <2> DEFINE W == Work(t)
  <2>1. IsFiniteSet(W) /\ Cardinality(W) \in Nat
    <3>1. IsFiniteSet(W)
      BY <1>1, FS_EmptySet, FS_Difference DEF Work, FiniteCaps, CapacityBound
    <3> QED
      BY <3>1, FS_CardinalityType
  <2>2. Left(t) \in Nat
    BY <2>1 DEF Left
  <2>3. CASE ~Step(t)
    <3>1. map' = map /\ pc'[t] = pc[t] /\ req'[t] = req[t] /\ vec'[t] = vec[t]
      BY <1>1, <2>3, WorkIsOwn
    <3>2. Left(t)' = Left(t)
      BY <3>1 DEF Left, Work, At, Registered
    <3> QED
      BY <2>2, <2>3, <3>2
  <2>4. CASE Step(t) /\ pc[t] = "enter" /\ pc'[t] # "enter" /\ Work(t)' = Work(t)
    <3>1. Left(t) = Cardinality(W) + 1 /\ Left(t)' = Cardinality(W)
      BY <2>1, <2>4 DEF Left
    <3> QED
      BY <2>1, <3>1
  <2>5. ASSUME Step(t), pc'[t] = pc[t], NEW n \in Work(t), Work(t)' = Work(t) \ {n}
        PROVE  /\ Left(t)' \in Nat
               /\ Left(t)' < Left(t)
    <3> DEFINE V == Work(t)'
    <3>1. IsFiniteSet(V) /\ Cardinality(V) = Cardinality(W) - 1
      BY <2>1, <2>5, FS_RemoveElement
    <3>2. Cardinality(V) \in Nat
      BY <3>1, FS_CardinalityType
    <3>3. Left(t)' = Cardinality(V) + (IF pc[t] = "enter" THEN 1 ELSE 0)
      BY <2>5 DEF Left
    <3>4. Left(t) = Cardinality(W) + (IF pc[t] = "enter" THEN 1 ELSE 0)
      BY DEF Left
    <3> HIDE DEF V, W
    <3> QED
      BY <2>1, <3>1, <3>2, <3>3, <3>4
  <2> QED
    BY <1>1, <2>2, <2>3, <2>4, <2>5, StatementWorks
<1>2. Inv /\ CapacityBound /\ [Next]_vars =>
          [\A t \in Threads :
               InCriticalSection(t) /\ InCriticalSection(t)' /\ FiniteCaps(t) =>
                   /\ Left(t) \in Nat /\ Left(t)' \in Nat
                   /\ Left(t)' = Left(t) \/ Left(t)' < Left(t)
                   /\ Step(t) => Left(t)' < Left(t)]_vars
  BY <1>1
<1> QED
  BY Invariance, Capacity, <1>2, PTL DEF Spec, Inv, MethodsAdvance

-----------------------------------------------------------------------------
(* Refinement: a step that answers is the abstract operation, the statement*)
(* before it is a stutter.                                                 *)

\* Both levels speak of the same requests, responses and names.
LEMMA SameInterface ==
    /\ Atomic!ValidRequests = ValidRequests
    /\ Atomic!Invalid = Invalid
    /\ Atomic!NoRequest = NoRequest
    /\ Atomic!Ok = Ok
    /\ Atomic!NoResponse = NoResponse
    /\ \A f : Atomic!Entry(f) = Entry(f)
    /\ \A S : Atomic!NameList(S) = NameList(S)
    /\ \A w : Atomic!Error(w) = Error(w)
    /\ \A m : Atomic!Registered(m) = Registered(m)
    /\ \A m : Atomic!Full(m) <=> Full(m)
  BY DEF Atomic!ValidRequests, ValidRequests, Atomic!Invalid, Invalid, Atomic!NoRequest,
         NoRequest, Atomic!Ok, Ok, Atomic!NoResponse, NoResponse, Atomic!Entry, Entry,
         Atomic!NameList, NameList, Atomic!Error, Error, Atomic!Registered, Registered,
         Atomic!Full, Full, Atomic!Cardinality, Cardinality

\* Where a thread goes in a method decides its abstract phase.
LEMMA PhaseStep ==
    ASSUME TypeOK, NEW t \in Threads, NEW l, pc' = [pc EXCEPT ![t] = l]
    PROVE  AbstractPhase' = [AbstractPhase EXCEPT ![t] = PhaseOf(l)]
  BY DEF TypeOK, AbstractPhase

\* Leaving a method is the abstract response.
LEMMA LeaveResponds ==
    ASSUME TypeOK, NEW t \in Threads, NEW r, Leave(t, r)
    PROVE  Atomic!Respond(t, r)
<1>1. pc' = [pc EXCEPT ![t] = "done"]
  BY DEF Leave
<1>2. AbstractPhase' = [AbstractPhase EXCEPT ![t] = PhaseOf("done")]
  BY <1>1, PhaseStep
<1> QED
  BY <1>2 DEF Leave, PhaseOf, Atomic!Respond

\* A thread inside a method is in the middle of an abstract operation.
LEMMA InsideIsPending ==
    ASSUME NEW t \in Threads, NEW label, NEW op, At(t, label, op),
           label \in {"enter", "insert", "caps", "verify"}
    PROVE  Atomic!Pending(t, op)
  BY DEF At, Atomic!Pending, AbstractPhase, PhaseOf

\* Going on inside a method changes nothing that is visible outside.
LEMMA InsideStutters ==
    ASSUME TypeOK, NEW t \in Threads,
           pc[t] \in {"lock", "enter", "insert", "caps", "verify"},
           NEW l \in {"enter", "insert", "caps", "verify"}, pc' = [pc EXCEPT ![t] = l],
           UNCHANGED <<map, caps_tlmap, req, res>>
    PROVE  UNCHANGED Atomic!registryVars
<1>1. AbstractPhase' = [AbstractPhase EXCEPT ![t] = PhaseOf(l)]
  BY PhaseStep
<1>2. AbstractPhase[t] = PhaseOf(l)
  BY DEF AbstractPhase, PhaseOf
<1>3. AbstractPhase' = AbstractPhase
  BY <1>1, <1>2 DEF AbstractPhase
<1> QED
  BY <1>3 DEF Atomic!registryVars

\* A statement of a method is the abstract operation or a stutter.
LEMMA StepRefines ==
    ASSUME Inv, NEW t \in Threads, Step(t)
    PROVE  Atomic!Perform(t) \/ UNCHANGED Atomic!registryVars
<1> USE DEF Inv
<1>0. \A l \in {"insert", "caps", "verify"} :
          Goto(t, l) /\ UNCHANGED <<map, caps_tlmap>> => UNCHANGED Atomic!registryVars
  <2> SUFFICES ASSUME NEW l \in {"insert", "caps", "verify"},
                      Goto(t, l), UNCHANGED <<map, caps_tlmap>>
               PROVE  UNCHANGED Atomic!registryVars
    OBVIOUS
  <2>1. pc[t] \in {"enter", "insert", "caps", "verify"}
    BY StepShape DEF MutualExclusion, InCriticalSection
  <2> QED
    BY <2>1, InsideStutters DEF Goto
<1>1. CASE PutCheck(t)
  <2>1. Atomic!Pending(t, "put")
    BY <1>1, InsideIsPending DEF PutCheck
  <2> QED
    BY <1>0, <1>1, <2>1, LeaveResponds, SameInterface, CallAssumption
    DEF PutCheck, Atomic!Perform, Atomic!Put
<1>2. CASE PutInsert(t)
  <2>1. Atomic!Pending(t, "put")
    BY <1>2, InsideIsPending DEF PutInsert
  <2>2. Atomic!Respond(t, Ok)
    BY <1>2, LeaveResponds, SameInterface DEF PutInsert
  <2>3. ~Full(map) /\ req[t].name \notin Registered(map)
    BY <1>2 DEF PutInsert, At, ChecksStayTrue
  <2> QED
    BY <1>2, <2>1, <2>2, <2>3, SameInterface DEF PutInsert, Atomic!Perform, Atomic!Put
<1>3. CASE GetFind(t)
  <2>1. Atomic!Pending(t, "get")
    BY <1>3, InsideIsPending DEF GetFind
  <2> QED
    BY <1>0, <1>3, <2>1, LeaveResponds, SameInterface DEF GetFind, Atomic!Perform, Atomic!Get,
      Permits, Atomic!Permits
<1>4. CASE GetChecked(t)
  <2>1. Atomic!Pending(t, "get")
    BY <1>4, InsideIsPending DEF GetChecked
  <2>2. req[t].name \in Registered(map) /\ it[t] = map[req[t].name]
    BY <1>4 DEF GetChecked, At, ChecksStayTrue
  <2> QED
    BY <1>4, <2>1, <2>2, LeaveResponds, SameInterface DEF GetChecked, Atomic!Perform, Atomic!Get,
      Permits, Atomic!Permits
<1>5. CASE ListNext(t)
  <2>1. pc' = [pc EXCEPT ![t] = "enter"]
    BY <1>5 DEF ListNext, At, TypeOK
  <2> QED
    BY <1>5, <2>1, InsideStutters DEF ListNext, At
<1>6. CASE ListEnd(t)
  <2>1. Atomic!Pending(t, "list")
    BY <1>6, InsideIsPending DEF ListEnd
  <2>2. vec[t] = Registered(map)
    BY <1>6 DEF ListEnd, ChecksStayTrue
  <2> QED
    BY <1>6, <2>1, <2>2, LeaveResponds, SameInterface DEF ListEnd, Atomic!Perform, Atomic!List
<1>7. CASE Remove(t)
  <2>1. Atomic!Pending(t, "remove")
    BY <1>7, InsideIsPending DEF Remove
  <2>2. CASE req[t].name \in Registered(map)
    BY <1>7, <2>1, <2>2, LeaveResponds, SameInterface DEF Remove, Atomic!Perform, Atomic!Remove
  <2>3. CASE req[t].name \notin Registered(map)
    <3>1. Atomic!Respond(t, Error("unknown_name"))
      BY <1>7, <2>3, LeaveResponds, SameInterface DEF Remove
    <3>2. req[t].name \in Names
      BY <1>7, RequestFields DEF Remove, At, TypeOK
    <3>3. map' = map
      BY <1>7, <2>3, <3>2 DEF Remove, Registered, TypeOK
    <3> QED
      BY <1>7, <2>1, <2>3, <3>1, <3>3, SameInterface DEF Remove, Atomic!Perform, Atomic!Remove
  <2> QED
    BY <2>2, <2>3
<1>8. CASE SetCapsCheck(t)
  <2>1. Atomic!Pending(t, "set_thread_caps")
    BY <1>8, InsideIsPending DEF SetCapsCheck
  <2> QED
    BY <1>0, <1>8, <2>1, LeaveResponds, SameInterface
    DEF SetCapsCheck, Atomic!Perform, Atomic!SetThreadCaps
<1>9. CASE SetCapsVerify(t)
  <2>1. At(t, "verify", "set_thread_caps")
    BY <1>9 DEF SetCapsVerify
  <2>2. Atomic!Pending(t, "set_thread_caps")
    BY <2>1, InsideIsPending
  <2>3. CASE UNCHANGED <<mutex, pc, req, res>>
    <3>1. pc' = [pc EXCEPT ![t] = "verify"]
      BY <2>1, <2>3 DEF At, TypeOK
    <3> QED
      BY <1>9, <2>1, <2>3, <3>1, InsideStutters DEF SetCapsVerify, At
  <2>4. ASSUME NEW cp \in req[t].caps \ Registered(map),
               Leave(t, Error("capabilities_already_set"))
        PROVE  Atomic!Perform(t)
    BY <1>9, <2>2, <2>4, LeaveResponds, SameInterface
    DEF SetCapsVerify, Atomic!Perform, Atomic!SetThreadCaps
  <2> QED
    BY <1>9, <2>3, <2>4 DEF SetCapsVerify
<1>10. CASE SetCapsInsert(t)
  <2>1. Atomic!Pending(t, "set_thread_caps")
    BY <1>10, InsideIsPending DEF SetCapsInsert
  <2>2. caps_tlmap[t] = {} /\ req[t].caps \subseteq Registered(map)
    BY <1>10 DEF SetCapsInsert, At, ChecksStayTrue
  <2> QED
    BY <1>10, <2>1, <2>2, LeaveResponds, SameInterface
    DEF SetCapsInsert, Atomic!Perform, Atomic!SetThreadCaps
<1> QED
  BY <1>1, <1>2, <1>3, <1>4, <1>5, <1>6, <1>7, <1>8, <1>9, <1>10 DEF Step

\* Every method of wiltoncall_registry takes effect at one instant: the
\* registry at the level of its mutex implements the atomic one.
THEOREM Refinement == Spec => AtomicSpec
<1>1. Init => Atomic!Init
  BY SameInterface DEF Init, Atomic!Init, AbstractPhase, PhaseOf
<1>2. ASSUME Inv, [Next]_vars
      PROVE  [Atomic!Next]_(Atomic!registryVars)
  <2> USE DEF Inv
  <2>1. ASSUME NEW t \in Threads, NEW r \in ValidRequests, Invoke(t, r)
        PROVE  Atomic!Invoke(t, r)
    <3>1. AbstractPhase' = [AbstractPhase EXCEPT ![t] = PhaseOf("lock")]
      BY <1>2, <2>1, PhaseStep DEF Invoke
    <3> QED
      BY <2>1, <3>1, SameInterface DEF Invoke, Atomic!Invoke, AbstractPhase, PhaseOf
  <2>2. ASSUME NEW t \in Threads, Refuse(t)
        PROVE  Atomic!Refuse(t)
    <3>1. AbstractPhase' = [AbstractPhase EXCEPT ![t] = PhaseOf("done")]
      BY <1>2, <2>2, PhaseStep DEF Refuse
    <3> QED
      BY <2>2, <3>1, SameInterface DEF Refuse, Atomic!Refuse, AbstractPhase, PhaseOf
  <2>3. ASSUME NEW t \in Threads, Lock(t)
        PROVE  UNCHANGED Atomic!registryVars
    BY <1>2, <2>3, InsideStutters DEF Lock
  <2>4. ASSUME NEW t \in Threads, Return(t)
        PROVE  Atomic!Return(t)
    <3>1. AbstractPhase' = [AbstractPhase EXCEPT ![t] = PhaseOf("idle")]
      BY <1>2, <2>4, PhaseStep DEF Return
    <3> QED
      BY <2>4, <3>1, SameInterface DEF Return, Atomic!Return, AbstractPhase, PhaseOf
  <2>5. CASE UNCHANGED vars
    BY <2>5 DEF vars, Atomic!registryVars, AbstractPhase
  <2> QED
    BY <1>2, <2>1, <2>2, <2>3, <2>4, <2>5, StepRefines, SameInterface DEF Next, Atomic!Next
<1> QED
  BY Invariance, <1>1, <1>2, PTL DEF Spec, Inv, AtomicSpec, Atomic!Spec
=============================================================================
