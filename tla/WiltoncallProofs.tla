--------------------------- MODULE WiltoncallProofs ---------------------------
(***************************************************************************)
(* Proofs about Wiltoncall, for any number of threads, names and callbacks *)
(* and any depth of nesting.  What get has answered is still permitted when*)
(* its callback is started, since only the thread itself could have set its*)
(* capabilities in between and it was busy.                                *)
(***************************************************************************)
EXTENDS Wiltoncall, SequenceTheorems, TLAPS

\* An answer of the registry that hands out a callback is one the thread may
\* call, and the thread is still about to call it.
EntriesPermitted ==
    \A t \in Threads :
        res[t].kind = "entry" =>
            /\ phase[t] = "done"
            /\ req[t].op = "get"
            /\ Permits(caps_tlmap[t], req[t].name)

\* The registry knows the capabilities that the present thread of an id has
\* set, and remembers how deep the thread was then.
OwnIsKnown ==
    \A t \in Threads :
        /\ own[t] = {} \/ caps_tlmap[t] = own[t]
        /\ outer[t] <= Len(stack[t])
        /\ t \notin alive => phase[t] = "idle" /\ stack[t] = <<>>

Inv == TypeOK /\ EntriesPermitted /\ OwnIsKnown /\ Confined

-----------------------------------------------------------------------------
(* The registry's part of the state.                                       *)

\* The registry and its callers speak of the same requests and responses.
LEMMA SameInterface ==
    /\ Reg!ValidRequests = ValidRequests
    /\ Reg!Requests = Requests
    /\ Reg!Responses = Responses
    /\ Reg!Invalid = Invalid
    /\ Reg!NoRequest = NoRequest
    /\ Reg!Ok = Ok
    /\ Reg!NoResponse = NoResponse
    /\ \A f : Reg!Entry(f) = Entry(f)
    /\ \A S : Reg!NameList(S) = NameList(S)
    /\ \A w : Reg!Error(w) = Error(w)
    /\ \A m : Reg!Registered(m) = Registered(m)
    /\ \A c, n : Reg!Permits(c, n) <=> Permits(c, n)
<1>1. /\ Reg!ValidRequests = ValidRequests
      /\ Reg!Invalid = Invalid
      /\ Reg!NoRequest = NoRequest
      /\ Reg!Ok = Ok
      /\ Reg!NoResponse = NoResponse
      /\ \A f : Reg!Entry(f) = Entry(f)
      /\ \A S : Reg!NameList(S) = NameList(S)
      /\ \A w : Reg!Error(w) = Error(w)
      /\ \A m : Reg!Registered(m) = Registered(m)
      /\ \A c, n : Reg!Permits(c, n) <=> Permits(c, n)
  BY DEF Reg!ValidRequests, ValidRequests, Reg!Invalid, Invalid, Reg!NoRequest,
         NoRequest, Reg!Ok, Ok, Reg!NoResponse, NoResponse, Reg!Entry, Entry,
         Reg!NameList, NameList, Reg!Error, Error, Reg!Registered, Registered,
         Reg!Permits, Permits
<1>2. Reg!Requests = Requests
  BY <1>1 DEF Reg!Requests, Requests
<1>3. Reg!Responses = Responses
  BY <1>1 DEF Reg!Responses, Responses, Reg!Reasons, Reasons
<1> QED
  BY <1>1, <1>2, <1>3

\* A request carries the fields its operation uses.
LEMMA RequestFields ==
    ASSUME NEW r \in Requests
    PROVE  /\ r.op = "put" => r.name \in Names /\ r.fun \in Funs
           /\ r.op = "get" => r.name \in Names
           /\ r.op = "remove" => r.name \in Names
           /\ r.op = "set_thread_caps" => r.caps \in SUBSET Names /\ r.caps # {}
  BY DEF Requests, ValidRequests, Invalid, NoRequest

\* What the registry answers with is a response.
LEMMA ResponseTypes ==
    /\ Ok \in Responses
    /\ NoResponse \in Responses
    /\ \A f \in Funs : Entry(f) \in Responses
    /\ \A S \in SUBSET Names : NameList(S) \in Responses
    /\ \A w \in Reasons : Error(w) \in Responses
    /\ \A w \in Reasons : Error(w) \in Responses /\ Error(w).kind # "entry"
    /\ Ok.kind # "entry" /\ NoResponse.kind # "entry"
    /\ \A S : NameList(S).kind # "entry"
    /\ \A f : Entry(f).kind = "entry" /\ Entry(f).fun = f
    /\ \A r \in Responses : r.kind = "entry" => r.fun \in Funs /\ r = Entry(r.fun)
  BY DEF Responses, Ok, NoResponse, Entry, NameList, Error

\* What an operation of the registry does to a well typed state: it answers the
\* thread's request, with an entry only if it is a permitted get, and touches
\* nobody's capabilities but, when it grants them, the thread's own.
LEMMA PerformShape ==
    ASSUME Reg!TypeOK, NEW t \in Threads, Reg!Perform(t)
    PROVE  /\ map' \in [Names -> Funs \cup {NoFun}]
           /\ phase[t] = "pending"
           /\ phase' = [phase EXCEPT ![t] = "done"]
           /\ UNCHANGED req
           /\ \E r \in Responses :
                  /\ res' = [res EXCEPT ![t] = r]
                  /\ r.kind = "entry" =>
                         /\ req[t].op = "get"
                         /\ Permits(caps_tlmap[t], req[t].name)
                         /\ r = Entry(map[req[t].name])
                         /\ UNCHANGED caps_tlmap
           /\ \/ UNCHANGED caps_tlmap
              \/ /\ Reg!SetThreadCaps(t)
                 /\ caps_tlmap[t] = {}
                 /\ req[t].caps \in SUBSET Names
                 /\ caps_tlmap' = [caps_tlmap EXCEPT ![t] = req[t].caps]
<1> USE SameInterface DEF Reg!TypeOK, Reg!Pending, Reg!Respond
<1>0. \A w \in {"size_exceeded", "duplicate_name", "unknown_name",
                "capabilities_error", "capabilities_already_set"} :
          Error(w) \in Responses /\ Error(w).kind # "entry"
  BY ResponseTypes DEF Reasons
<1>1. CASE Reg!Put(t)
  <2>1. map' \in [Names -> Funs \cup {NoFun}]
    BY <1>1, RequestFields DEF Reg!Put
  <2> QED
    BY <1>0, <1>1, <2>1, ResponseTypes DEF Reg!Put
<1>2. CASE Reg!Get(t)
  <2>1. CASE req[t].name \in Registered(map)
    <3>1. map[req[t].name] \in Funs
      BY <2>1 DEF Registered
    <3>2. Entry(map[req[t].name]) \in Responses
      BY <3>1, ResponseTypes
    <3> QED
      BY <1>0, <1>2, <2>1, <3>2, ResponseTypes DEF Reg!Get
  <2>2. CASE req[t].name \notin Registered(map)
    BY <1>0, <1>2, <2>2 DEF Reg!Get
  <2> QED
    BY <2>1, <2>2
<1>3. CASE Reg!List(t)
  <2>1. NameList(Registered(map)) \in Responses /\ NameList(Registered(map)).kind # "entry"
    BY ResponseTypes DEF Registered
  <2> QED
    BY <1>3, <2>1 DEF Reg!List
<1>4. CASE Reg!Remove(t)
  <2>1. map' \in [Names -> Funs \cup {NoFun}]
    BY <1>4 DEF Reg!Remove
  <2> QED
    BY <1>0, <1>4, <2>1, ResponseTypes DEF Reg!Remove
<1>5. CASE Reg!SetThreadCaps(t)
  <2>1. req[t].caps \in SUBSET Names
    BY <1>5, RequestFields DEF Reg!SetThreadCaps
  <2> QED
    BY <1>0, <1>5, <2>1, ResponseTypes DEF Reg!SetThreadCaps
<1> QED
  BY <1>1, <1>2, <1>3, <1>4, <1>5 DEF Reg!Perform

-----------------------------------------------------------------------------
(* The invariant.                                                          *)

\* The initial state satisfies the invariant.
LEMMA InitInv == Init => Inv
<1> SUFFICES ASSUME Init PROVE Inv
  OBVIOUS
<1> USE SameInterface, ResponseTypes
<1>1. Reg!TypeOK
  BY DEF Init, Reg!Init, Reg!TypeOK, Requests
<1>2. TypeOK
  BY <1>1 DEF Init, TypeOK
<1>3. EntriesPermitted /\ OwnIsKnown /\ Confined
  BY DEF Init, Reg!Init, EntriesPermitted, OwnIsKnown, Confined
<1> QED
  BY <1>2, <1>3 DEF Inv

\* Steps that change no stack and no capabilities keep the invariant if what
\* the registry answers is not an entry or is a permitted one.
LEMMA RegistryStep ==
    ASSUME Inv, UNCHANGED <<stack, alive, own, outer, caps_tlmap>>,
           map' \in [Names -> Funs \cup {NoFun}],
           NEW t \in alive, NEW p \in {"idle", "pending", "done"},
           NEW q \in Requests, NEW r \in Responses,
           phase' = [phase EXCEPT ![t] = p],
           req' = [req EXCEPT ![t] = q],
           res' = [res EXCEPT ![t] = r],
           r.kind = "entry" =>
               p = "done" /\ q.op = "get" /\ Permits(caps_tlmap[t], q.name)
    PROVE  Inv'
<1> USE DEF Inv, TypeOK
<1>1. Reg!TypeOK'
  BY SameInterface DEF Reg!TypeOK
<1>2. TypeOK'
  BY <1>1
<1>3. t \in Threads
  OBVIOUS
<1>4. EntriesPermitted'
  BY <1>3 DEF EntriesPermitted, Reg!TypeOK
<1>5. OwnIsKnown'
  BY <1>3 DEF OwnIsKnown, Reg!TypeOK
<1>6. Confined'
  BY DEF Confined
<1> QED
  BY <1>2, <1>4, <1>5, <1>6

\* Every step keeps the invariant.
LEMMA StepInv ==
    ASSUME Inv, [Next]_vars
    PROVE  Inv'
<1> USE DEF Inv, TypeOK
<1>0. /\ map \in [Names -> Funs \cup {NoFun}]
      /\ caps_tlmap \in [Threads -> SUBSET Names]
      /\ phase \in [Threads -> {"idle", "pending", "done"}]
      /\ req \in [Threads -> Requests]
      /\ res \in [Threads -> Responses]
  BY SameInterface DEF Reg!TypeOK
<1>1. ASSUME NEW t \in Threads, phase[t] # "idle"
      PROVE  t \in alive
  BY <1>1 DEF OwnIsKnown
<1>2. ASSUME NEW t \in Threads, Enter(t)
      PROVE  Inv'
  <2>1. CASE Reg!Refuse(t)
    <3>1. Error("invalid_parameter") \in Responses
          /\ Error("invalid_parameter").kind # "entry"
      BY ResponseTypes DEF Reasons
    <3>2. Invalid \in Requests
      BY DEF Requests
    <3> QED
      BY <1>0, <1>2, <2>1, <3>1, <3>2, RegistryStep, SameInterface
      DEF Enter, Reg!Refuse, threadVars
  <2>2. ASSUME NEW r \in ValidRequests, Reg!Invoke(t, r)
        PROVE  Inv'
    <3>1. r \in Requests
      BY DEF Requests
    <3>2. res' = [res EXCEPT ![t] = res[t]] /\ res[t].kind # "entry"
      BY <1>0, <2>2 DEF Reg!Invoke, EntriesPermitted
    <3> QED
      BY <1>0, <1>2, <2>2, <3>1, <3>2, RegistryStep DEF Enter, Reg!Invoke, threadVars
  <2> QED
    BY <1>2, <2>1, <2>2 DEF Enter
<1>3. ASSUME NEW t \in Threads, Access(t)
      PROVE  Inv'
  <2>1. Reg!Perform(t) /\ UNCHANGED caps_tlmap
    BY <1>3 DEF Access, Reg!Perform, Reg!Put, Reg!Get, Reg!List, Reg!Remove
  <2>2. PICK r \in Responses :
            /\ res' = [res EXCEPT ![t] = r]
            /\ r.kind = "entry" => req[t].op = "get" /\ Permits(caps_tlmap[t], req[t].name)
    BY <2>1, PerformShape
  <2>3. /\ map' \in [Names -> Funs \cup {NoFun}]
        /\ phase[t] # "idle"
        /\ phase' = [phase EXCEPT ![t] = "done"]
        /\ req' = [req EXCEPT ![t] = req[t]]
    BY <1>0, <2>1, PerformShape
  <2> QED
    BY <1>0, <1>1, <1>3, <2>1, <2>2, <2>3, RegistryStep DEF Access, threadVars
<1>4. ASSUME NEW t \in Threads, SetThreadCapabilities(t)
      PROVE  Inv'
  <2>1. Reg!Perform(t)
    BY <1>4 DEF SetThreadCapabilities, Reg!Perform
  <2>2. PICK r \in Responses :
            /\ res' = [res EXCEPT ![t] = r]
            /\ r.kind = "entry" =>
                   /\ req[t].op = "get"
                   /\ Permits(caps_tlmap[t], req[t].name)
                   /\ UNCHANGED caps_tlmap
    BY <2>1, PerformShape
  <2>3. /\ map' \in [Names -> Funs \cup {NoFun}]
        /\ phase[t] # "idle"
        /\ phase' = [phase EXCEPT ![t] = "done"]
        /\ req' = [req EXCEPT ![t] = req[t]]
    BY <1>0, <2>1, PerformShape
  <2>4. CASE UNCHANGED caps_tlmap
    BY <1>0, <1>1, <1>4, <2>2, <2>3, <2>4, RegistryStep DEF SetThreadCapabilities
  <2>5. CASE ~UNCHANGED caps_tlmap
    <3>1. /\ own' = [own EXCEPT ![t] = req[t].caps]
          /\ outer' = [outer EXCEPT ![t] = Len(stack[t])]
          /\ UNCHANGED <<stack, alive>>
      BY <1>4, <2>5 DEF SetThreadCapabilities
    <3>2. /\ req[t].caps \in SUBSET Names
          /\ caps_tlmap' = [caps_tlmap EXCEPT ![t] = req[t].caps]
      BY <2>1, <2>5, PerformShape
    <3>3. TypeOK'
      BY <1>0, <2>2, <2>3, <3>1, <3>2, SameInterface DEF Reg!TypeOK
    <3>4. EntriesPermitted'
      BY <1>0, <2>2, <2>3, <2>5, <3>2 DEF EntriesPermitted
    <3>5. OwnIsKnown'
      BY <1>0, <2>3, <3>1, <3>2 DEF OwnIsKnown
    <3>6. Confined'
      BY <3>1 DEF Confined
    <3> QED
      BY <3>3, <3>4, <3>5, <3>6
  <2> QED
    BY <2>4, <2>5
<1>5. ASSUME NEW t \in Threads, Answer(t)
      PROVE  Inv'
  <2>1. NoRequest \in Requests
    BY DEF Requests
  <2> QED
    BY <1>0, <1>1, <1>5, <2>1, RegistryStep, ResponseTypes, SameInterface
    DEF Answer, Reg!Return, threadVars
<1>6. ASSUME NEW t \in Threads, Dispatch(t)
      PROVE  Inv'
  <2> DEFINE frame == [name |-> req[t].name, fun |-> res[t].fun]
  <2>1. req[t].op = "get" /\ Permits(caps_tlmap[t], req[t].name) /\ t \in alive
    BY <1>1, <1>6 DEF Dispatch, EntriesPermitted
  <2>2. frame \in Frame
    BY <1>0, <1>6, <2>1, RequestFields, ResponseTypes DEF Dispatch, Frame
  <2>3. stack' = [stack EXCEPT ![t] = Append(@, frame)] /\ UNCHANGED <<alive, own, outer>>
    BY <1>6 DEF Dispatch
  <2>4. /\ UNCHANGED <<map, caps_tlmap>>
        /\ phase' = [phase EXCEPT ![t] = "idle"]
        /\ req' = [req EXCEPT ![t] = NoRequest]
        /\ res' = [res EXCEPT ![t] = NoResponse]
    BY <1>6, SameInterface DEF Dispatch, Reg!Return
  <2>5. Reg!TypeOK'
    BY <1>0, <2>4, ResponseTypes, SameInterface DEF Reg!TypeOK, Requests
  <2> HIDE DEF frame
  <2>6. stack' \in [Threads -> Seq(Frame)]
    BY <2>2, <2>3
  <2>7. TypeOK'
    BY <2>3, <2>5, <2>6
  <2>8. EntriesPermitted'
    BY <1>0, <2>4, ResponseTypes DEF EntriesPermitted
  <2>9. \A u \in Threads : Len(stack[u]) <= Len(stack'[u])
    BY <2>2, <2>3
  <2>10. OwnIsKnown'
    <3> SUFFICES ASSUME NEW u \in Threads
                 PROVE  /\ own'[u] = {} \/ caps_tlmap'[u] = own'[u]
                        /\ outer'[u] <= Len(stack'[u])
                        /\ u \notin alive' => phase'[u] = "idle" /\ stack'[u] = <<>>
      BY DEF OwnIsKnown
    <3>1. outer[u] <= Len(stack[u]) /\ Len(stack[u]) \in Nat /\ Len(stack'[u]) \in Nat
      BY <2>6 DEF OwnIsKnown
    <3>2. outer'[u] <= Len(stack'[u])
      BY <2>3, <2>9, <3>1
    <3>3. u \notin alive => u # t
      BY <2>1
    <3> QED
      BY <1>0, <2>3, <2>4, <3>2, <3>3 DEF OwnIsKnown
  <2>11. Confined'
    <3> SUFFICES ASSUME NEW u \in Threads, NEW i \in (outer[u] + 1)..Len(stack'[u])
                 PROVE  Permits(own[u], stack'[u][i].name)
      BY <2>3 DEF Confined
    <3>1. CASE u # t
      BY <2>3, <3>1 DEF Confined
    <3>2. CASE u = t /\ i \in 1..Len(stack[t])
      <4>1. stack'[t][i] = stack[t][i]
        BY <2>2, <2>3, <3>2
      <4> QED
        BY <3>2, <4>1 DEF Confined
    <3>3. CASE u = t /\ i = Len(stack[t]) + 1
      <4>1. stack'[t][i] = frame
        BY <2>2, <2>3, <3>3
      <4>2. frame.name = req[t].name
        BY DEF frame
      <4>3. Permits(own[t], req[t].name)
        BY <2>1 DEF OwnIsKnown, Permits
      <4> QED
        BY <3>3, <4>1, <4>2, <4>3
    <3>4. Len(stack'[t]) = Len(stack[t]) + 1
      BY <2>2, <2>3
    <3>5. u = t => i \in 1..Len(stack[t]) \/ i = Len(stack[t]) + 1
      BY <3>4
    <3> QED
      BY <3>1, <3>2, <3>3, <3>5
  <2> QED
    BY <2>7, <2>8, <2>10, <2>11
<1>7. ASSUME NEW t \in Threads, CallbackReturn(t)
      PROVE  Inv'
  <2> DEFINE rest == SubSeq(stack[t], 1, Len(stack[t]) - 1)
  <2>1. /\ rest \in Seq(Frame)
        /\ Len(rest) = Len(stack[t]) - 1
        /\ \A i \in 1..Len(rest) : rest[i] = stack[t][i]
    <3>1. stack[t] \in Seq(Frame) /\ stack[t] # <<>>
      BY <1>7 DEF CallbackReturn
    <3>2. Len(stack[t]) \in Nat /\ Len(stack[t]) > 0
      BY <3>1
    <3> HIDE DEF Inv, TypeOK
    <3> QED
      BY <3>1, <3>2, SubSeqProperties
  <2>2. /\ stack' = [stack EXCEPT ![t] = rest]
        /\ outer' = [outer EXCEPT ![t] = IF @ < Len(stack[t]) THEN @ ELSE Len(stack[t]) - 1]
        /\ UNCHANGED <<map, caps_tlmap, phase, req, res, alive, own>>
    BY <1>7 DEF CallbackReturn
  <2>3. stack[t] # <<>> /\ Len(stack[t]) \in Nat /\ Len(stack[t]) > 0
    BY <1>7 DEF CallbackReturn
  <2> HIDE DEF rest
  <2>4. /\ outer'[t] \in Nat
        /\ outer'[t] <= Len(rest)
        /\ outer'[t] <= outer[t]
        /\ outer'[t] = outer[t] \/ outer'[t] = Len(rest)
    BY <2>1, <2>2, <2>3 DEF OwnIsKnown
  <2>5. TypeOK'
    BY <1>0, <2>1, <2>2, <2>4, SameInterface DEF Reg!TypeOK
  <2>6. EntriesPermitted'
    BY <2>2 DEF EntriesPermitted
  <2>7. OwnIsKnown'
    BY <2>2, <2>3, <2>4 DEF OwnIsKnown
  <2>8. Confined'
    <3> SUFFICES ASSUME NEW u \in Threads, NEW i \in (outer'[u] + 1)..Len(stack'[u])
                 PROVE  Permits(own[u], stack'[u][i].name)
      BY <2>2 DEF Confined
    <3>1. CASE u # t
      BY <2>2, <3>1 DEF Confined
    <3>2. CASE u = t
      <4>1. stack'[t] = rest
        BY <2>2
      <4>2. i \in (outer[t] + 1)..Len(stack[t]) /\ i \in 1..Len(rest)
        BY <2>1, <2>3, <2>4, <3>2, <4>1
      <4> QED
        BY <2>1, <3>2, <4>1, <4>2 DEF Confined
    <3> QED
      BY <3>1, <3>2
  <2> QED
    BY <2>5, <2>6, <2>7, <2>8
<1>8. ASSUME NEW t \in Threads, Exit(t)
      PROVE  Inv'
  BY <1>0, <1>8, SameInterface
  DEF Exit, EntriesPermitted, OwnIsKnown, Confined, Reg!TypeOK
<1>9. ASSUME NEW t \in Threads, Start(t)
       PROVE  Inv'
  <2>1. TypeOK' /\ EntriesPermitted'
    BY <1>0, <1>9, SameInterface DEF Start, EntriesPermitted, Reg!TypeOK
  <2>2. OwnIsKnown'
    BY <1>9 DEF Start, OwnIsKnown
  <2>3. Confined'
    BY <1>9 DEF Start, Confined, Permits
  <2> QED
    BY <2>1, <2>2, <2>3
<1>10. CASE UNCHANGED vars
  BY <1>0, <1>10, SameInterface
  DEF vars, EntriesPermitted, OwnIsKnown, Confined, Reg!TypeOK
<1> QED
  BY <1>2, <1>3, <1>4, <1>5, <1>6, <1>7, <1>8, <1>9, <1>10 DEF Next

\* The callers and the registry they share keep their types, at any depth of
\* nesting.
THEOREM TypeCorrectness == Spec => []TypeOK
<1>1. Inv /\ [Next]_vars => Inv'
  BY StepInv
<1>2. Inv => TypeOK
  BY DEF Inv
<1> QED
  BY InitInv, <1>1, <1>2, PTL DEF Spec

\* A confined thread stays inside its capabilities at every depth of nesting,
\* for any number of threads (wiltoncall, wilton_set_thread_capabilities).
THEOREM Confinement == Spec => []Confined
<1>1. Inv /\ [Next]_vars => Inv'
  BY StepInv
<1>2. Inv => Confined
  BY DEF Inv
<1> QED
  BY InitInv, <1>1, <1>2, PTL DEF Spec

-----------------------------------------------------------------------------
(* The lifetime of a callback.                                             *)

\* No step looks up a callback that is not registered.
LEMMA LookedUpStep ==
    ASSUME Inv, [Next]_vars, NEW n \in Names, NEW f \in Funs, map[n] # f,
           NEW t \in Threads, ~LookedUp(t, n, f)
    PROVE  ~LookedUp(t, n, f)'
<1> USE DEF Inv, TypeOK, LookedUp
<1>0. /\ phase \in [Threads -> {"idle", "pending", "done"}]
      /\ req \in [Threads -> Requests]
      /\ res \in [Threads -> Responses]
      /\ map \in [Names -> Funs \cup {NoFun}]
  BY SameInterface DEF Reg!TypeOK
<1>1. ASSUME NEW u \in Threads, Enter(u)
      PROVE  ~LookedUp(t, n, f)'
  <2>1. CASE Reg!Refuse(u)
    <3>1. Error("invalid_parameter") # Entry(f)
      BY DEF Error, Entry
    <3> QED
      BY <1>0, <2>1, <3>1, SameInterface DEF Reg!Refuse
  <2>2. ASSUME NEW r, Reg!Invoke(u, r)
        PROVE  ~LookedUp(t, n, f)'
    <3>1. res[u] # Entry(f)
      <4>1. phase[u] = "idle"
        BY <2>2 DEF Reg!Invoke
      <4>2. res[u].kind # "entry"
        BY <4>1 DEF EntriesPermitted
      <4> QED
        BY <4>2, ResponseTypes
    <3> QED
      BY <1>0, <2>2, <3>1 DEF Reg!Invoke
  <2> QED
    BY <1>1, <2>1, <2>2 DEF Enter
<1>2. ASSUME NEW u \in Threads, Reg!Perform(u)
      PROVE  ~LookedUp(t, n, f)'
  <2>1. PICK r \in Responses :
            /\ res' = [res EXCEPT ![u] = r]
            /\ r.kind = "entry" => r = Entry(map[req[u].name])
    BY <1>2, PerformShape
  <2>2. req' = req
    BY <1>2, PerformShape
  <2>3. r = Entry(f) => map[req[u].name] = f
    <3>1. ASSUME r = Entry(f) PROVE map[req[u].name] = f
      <4>1. r.kind = "entry" /\ r.fun = f
        BY <3>1, ResponseTypes
      <4>2. Entry(map[req[u].name]).fun = f
        BY <2>1, <4>1
      <4> QED
        BY <4>2, ResponseTypes
    <3> QED
      BY <3>1
  <2> QED
    BY <1>0, <2>1, <2>2, <2>3
<1>3. ASSUME NEW u \in Threads, Reg!Return(u)
      PROVE  ~LookedUp(t, n, f)'
  <2>1. NoResponse # Entry(f)
    BY DEF NoResponse, Entry
  <2> QED
    BY <1>0, <1>3, <2>1, SameInterface DEF Reg!Return
<1>4. CASE UNCHANGED <<req, res>>
  BY <1>4
<1> QED
  BY <1>1, <1>2, <1>3, <1>4
  DEF Next, vars, Access, SetThreadCapabilities, Dispatch, Answer, CallbackReturn, Exit,
      Start, Reg!Perform

\* No step starts a callback that has not been looked up.
LEMMA RunningStep ==
    ASSUME Inv, [Next]_vars, NEW n \in Names, NEW f \in Funs,
           NEW t \in Threads, ~Running(t, n, f), ~LookedUp(t, n, f)
    PROVE  ~Running(t, n, f)'
<1> USE DEF Inv, TypeOK, Running
<1>1. CASE stack'[t] = stack[t]
  BY <1>1
<1>2. CASE Dispatch(t)
  <2>0. res[t] \in Responses
    BY SameInterface DEF Reg!TypeOK
  <2>1. res[t] = Entry(res[t].fun)
    BY <1>2, <2>0, ResponseTypes DEF Dispatch
  <2> DEFINE frame == [name |-> req[t].name, fun |-> res[t].fun]
  <2>2. frame # [name |-> n, fun |-> f]
    BY <2>1 DEF LookedUp
  <2>3. stack'[t] = Append(stack[t], frame) /\ stack[t] \in Seq(Frame)
    BY <1>2 DEF Dispatch
  <2> HIDE DEF frame
  <2>4. \A i \in 1..Len(stack'[t]) :
            \/ i \in 1..Len(stack[t]) /\ stack'[t][i] = stack[t][i]
            \/ stack'[t][i] = frame
    BY <2>3
  <2> QED
    BY <2>2, <2>4
<1>3. CASE CallbackReturn(t)
  <2>1. stack[t] \in Seq(Frame) /\ stack'[t] = SubSeq(stack[t], 1, Len(stack[t]) - 1)
    BY <1>3 DEF CallbackReturn
  <2>2. \A i \in 1..Len(stack'[t]) : i \in 1..Len(stack[t]) /\ stack'[t][i] = stack[t][i]
    <3>1. Len(stack[t]) \in Nat /\ \A i \in 1..Len(stack[t]) : stack[t][i] \in Frame
      BY <2>1
    <3>2. /\ Len(stack'[t]) = IF 1 <= Len(stack[t]) - 1 THEN Len(stack[t]) - 1 ELSE 0
          /\ \A i \in 1..(Len(stack[t]) - 1) : stack'[t][i] = stack[t][i]
      <4> HIDE DEF Inv, TypeOK
      <4> QED
        BY <2>1, <3>1, SubSeqProperties
    <3> QED
      BY <3>1, <3>2
  <2> QED
    BY <2>2
<1> QED
  BY <1>1, <1>2, <1>3
  DEF Next, vars, threadVars, Enter, Access, SetThreadCapabilities, Dispatch, Answer,
      CallbackReturn, Exit, Start

\* A callback that is neither registered nor in use is never used again until
\* it is registered again (wiltoncall runs a copy of the registry's pair).
THEOREM Lifetime == Spec => SafeToFree
<1>1. ASSUME Inv, [Next]_vars, NEW n \in Names, NEW f \in Funs,
             map[n] # f, ~InUse(n, f)
      PROVE  ~InUse(n, f)'
  BY <1>1, LookedUpStep, RunningStep DEF InUse
<1>2. Inv /\ [Next]_vars =>
          [\A n \in Names, f \in Funs :
               map[n] # f /\ ~InUse(n, f) => ~InUse(n, f)']_vars
  BY <1>1
<1>3. Inv /\ [Next]_vars => Inv'
  BY StepInv
<1> QED
  BY InitInv, <1>2, <1>3, PTL DEF Spec, SafeToFree

-----------------------------------------------------------------------------
(* The registry and its callers.                                           *)

\* Threads and callbacks do with the registry only what CallRegistry allows, so
\* that what is shown of it, by itself, also holds while callbacks nest and
\* threads come and go.
THEOREM UsesRegistry == Spec => Reg!Spec
<1>1. Init => Reg!Init
  BY DEF Init
<1>2. [Next]_vars => [Reg!Next]_(Reg!registryVars)
  <2> SUFFICES ASSUME Next PROVE Reg!Next \/ UNCHANGED Reg!registryVars
    BY DEF vars, Reg!registryVars
  <2>1. ASSUME NEW t \in Threads, Enter(t) PROVE Reg!Next
    BY <2>1, SameInterface DEF Enter, Reg!Next
  <2>2. ASSUME NEW t \in Threads, Access(t) \/ SetThreadCapabilities(t) PROVE Reg!Next
    BY <2>2 DEF Access, SetThreadCapabilities, Reg!Next, Reg!Perform
  <2>3. ASSUME NEW t \in Threads, Dispatch(t) \/ Answer(t) PROVE Reg!Next
    BY <2>3 DEF Dispatch, Answer, Reg!Next
  <2>4. ASSUME NEW t \in Threads, CallbackReturn(t) \/ Exit(t) \/ Start(t)
        PROVE  UNCHANGED Reg!registryVars
    BY <2>4 DEF CallbackReturn, Exit, Start, Reg!registryVars
  <2> QED
    BY <2>1, <2>2, <2>3, <2>4 DEF Next
<1> QED
  BY <1>1, <1>2, PTL DEF Spec, Reg!Spec

\* Of what CapsAreThreadLocal says, the half that holds although ids are used
\* again: a thread that has set its capabilities is known with exactly these.
\* The run dispatch_reuse violates the other half, for a thread that has not.
THEOREM OwnCapabilities ==
    Spec => [](\A t \in alive : own[t] # {} => caps_tlmap[t] = own[t])
<1>1. Inv => \A t \in alive : own[t] # {} => caps_tlmap[t] = own[t]
  BY DEF Inv, TypeOK, OwnIsKnown
<1>2. Inv /\ [Next]_vars => Inv'
  BY StepInv
<1> QED
  BY InitInv, <1>1, <1>2, PTL DEF Spec

\* The capabilities that are set under an id are set for good: no callback and
\* no later thread of that id changes them (set_thread_capabilities refuses).
THEOREM CapabilitiesStay ==
    Spec => [][\A t \in Threads : caps_tlmap[t] # {} => caps_tlmap'[t] = caps_tlmap[t]]_vars
<1> DEFINE A == \A t \in Threads : caps_tlmap[t] # {} => caps_tlmap'[t] = caps_tlmap[t]
<1>1. ASSUME Reg!TypeOK, NEW u \in Threads, Reg!Perform(u) PROVE A
  BY <1>1, PerformShape DEF Reg!TypeOK
<1>2. Inv /\ [Next]_vars => [A]_vars
  <2> SUFFICES ASSUME Inv, Next PROVE A
    OBVIOUS
  <2>1. Reg!TypeOK
    BY DEF Inv, TypeOK
  <2>2. CASE UNCHANGED caps_tlmap
    BY <2>2
  <2>3. CASE \E u \in Threads : Reg!Perform(u)
    BY <1>1, <2>1, <2>3
  <2>4. UNCHANGED caps_tlmap \/ \E u \in Threads : Reg!Perform(u)
    BY DEF Next, Enter, Access, SetThreadCapabilities, Dispatch, Answer, CallbackReturn,
           Exit, Start, Reg!Invoke, Reg!Refuse, Reg!Return, Reg!Perform
  <2> QED
    BY <2>2, <2>3, <2>4
<1>3. Inv /\ [Next]_vars => Inv'
  BY StepInv
<1> QED
  BY InitInv, <1>2, <1>3, PTL DEF Spec
=============================================================================
