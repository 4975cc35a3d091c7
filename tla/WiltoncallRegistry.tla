------------------------- MODULE WiltoncallRegistry -------------------------
(***************************************************************************)
(* src/call/wiltoncall_registry.hpp at the level of its mutex: each method *)
(* takes the lock_guard, runs its statements one by one and releases the   *)
(* mutex when it returns or throws.  Threads run the methods concurrently, *)
(* so that whatever the mutex does not order is interleaved.               *)
(***************************************************************************)
EXTENDS CallInterface

CONSTANT NoThread    \* the mutex is free

ASSUME NoThreadAssumption == NoThread \notin Threads

VARIABLES
    map, caps_tlmap, req, res,    \* as in CallRegistry
    mutex,                        \* the thread that holds the mutex
    pc,                           \* where in its method each thread is
    vec,                          \* names the loop of a method has passed
    it                            \* the callback get's iterator points at

vars == <<map, caps_tlmap, req, res, mutex, pc, vec, it>>

InCriticalSection(t) == pc[t] \in {"enter", "insert", "caps", "verify"}

TypeOK ==
    /\ map \in [Names -> Funs \cup {NoFun}]
    /\ caps_tlmap \in [Threads -> SUBSET Names]
    /\ req \in [Threads -> Requests]
    /\ res \in [Threads -> Responses]
    /\ mutex \in Threads \cup {NoThread}
    /\ pc \in [Threads -> {"idle", "lock", "enter", "insert", "caps", "verify", "done"}]
    /\ vec \in [Threads -> SUBSET Names]
    /\ it \in [Threads -> Funs \cup {NoFun}]

Init ==
    /\ map = [n \in Names |-> NoFun]
    /\ caps_tlmap = [t \in Threads |-> {}]
    /\ req = [t \in Threads |-> NoRequest]
    /\ res = [t \in Threads |-> NoResponse]
    /\ mutex = NoThread
    /\ pc = [t \in Threads |-> "idle"]
    /\ vec = [t \in Threads |-> {}]
    /\ it = [t \in Threads |-> NoFun]

-----------------------------------------------------------------------------
At(t, label, op) == pc[t] = label /\ req[t].op = op

\* Variant: the method runs without the lock_guard.
LockOmitted(t) ==
    /\ pc[t] = "lock"
    /\ mutex' = t
    /\ pc' = [pc EXCEPT ![t] = "enter"]
    /\ UNCHANGED <<map, caps_tlmap, req, res, vec, it>>

\* std::lock_guard: the mutex is taken by some waiting thread while it is free.
Lock(t) ==
    /\ pc[t] = "lock"
    /\ mutex = NoThread
    /\ mutex' = t
    /\ pc' = [pc EXCEPT ![t] = "enter"]
    /\ UNCHANGED <<map, caps_tlmap, req, res, vec, it>>

\* A method returns r or throws: the lock_guard leaves its scope either way.
Leave(t, r) ==
    /\ mutex' = NoThread
    /\ pc' = [pc EXCEPT ![t] = "done"]
    /\ res' = [res EXCEPT ![t] = r]
    /\ vec' = [vec EXCEPT ![t] = {}]
    /\ it' = [it EXCEPT ![t] = NoFun]
    /\ UNCHANGED req

Goto(t, label) ==
    /\ pc' = [pc EXCEPT ![t] = label]
    /\ UNCHANGED <<mutex, req, res>>

Invoke(t, r) ==
    /\ pc[t] = "idle"
    /\ pc' = [pc EXCEPT ![t] = "lock"]
    /\ req' = [req EXCEPT ![t] = r]
    /\ UNCHANGED <<map, caps_tlmap, res, mutex, vec, it>>

Refuse(t) ==
    /\ pc[t] = "idle"
    /\ pc' = [pc EXCEPT ![t] = "done"]
    /\ req' = [req EXCEPT ![t] = Invalid]
    /\ res' = [res EXCEPT ![t] = Error("invalid_parameter")]
    /\ UNCHANGED <<map, caps_tlmap, mutex, vec, it>>

Return(t) ==
    /\ pc[t] = "done"
    /\ pc' = [pc EXCEPT ![t] = "idle"]
    /\ req' = [req EXCEPT ![t] = NoRequest]
    /\ res' = [res EXCEPT ![t] = NoResponse]
    /\ UNCHANGED <<map, caps_tlmap, mutex, vec, it>>

-----------------------------------------------------------------------------
(***************************************************************************)
(* put: the size is checked before the name, then the name, then insert.   *)
(***************************************************************************)
\* Variant: > for >= in the check of the size.
PutOneMore(t) ==
    /\ At(t, "enter", "put")
    /\ UNCHANGED <<map, caps_tlmap>>
    /\ \/ /\ \/ Cardinality(Registered(map)) > MaxEntries
             \/ req[t].name \in Registered(map)
          /\ Leave(t, Error("size_exceeded"))
       \/ /\ Cardinality(Registered(map)) <= MaxEntries
          /\ req[t].name \notin Registered(map)
          /\ Goto(t, "insert")
          /\ UNCHANGED <<vec, it>>

PutCheck(t) ==
    /\ At(t, "enter", "put")
    /\ UNCHANGED <<map, caps_tlmap>>
    /\ \/ /\ Full(map)
          /\ Leave(t, Error("size_exceeded"))
       \/ /\ ~Full(map)
          /\ req[t].name \in Registered(map)
          /\ Leave(t, Error("duplicate_name"))
       \/ /\ ~Full(map)
          /\ req[t].name \notin Registered(map)
          /\ Goto(t, "insert")
          /\ UNCHANGED <<vec, it>>

PutInsert(t) ==
    /\ At(t, "insert", "put")
    /\ map' = [map EXCEPT ![req[t].name] = req[t].fun]
    /\ Leave(t, Ok)
    /\ UNCHANGED caps_tlmap

(***************************************************************************)
(* get: find the entry, then the capabilities of the calling thread, then  *)
(* copy the pair the iterator points at, which is not looked up again.     *)
(***************************************************************************)
\* Variant: the mutex is released once the entry is found.
GetFindUnlock(t) ==
    /\ At(t, "enter", "get")
    /\ UNCHANGED <<map, caps_tlmap>>
    /\ \/ /\ req[t].name \notin Registered(map)
          /\ Leave(t, Error("unknown_name"))
       \/ /\ req[t].name \in Registered(map)
          /\ mutex' = NoThread
          /\ pc' = [pc EXCEPT ![t] = "caps"]
          /\ it' = [it EXCEPT ![t] = map[req[t].name]]
          /\ UNCHANGED <<req, res, vec>>

\* Variant: the iterator is not compared with the end of the map.
GetFindEnd(t) ==
    /\ At(t, "enter", "get")
    /\ Goto(t, "caps")
    /\ it' = [it EXCEPT ![t] = map[req[t].name]]
    /\ UNCHANGED <<map, caps_tlmap, vec>>

GetFind(t) ==
    /\ At(t, "enter", "get")
    /\ UNCHANGED <<map, caps_tlmap>>
    /\ \/ /\ req[t].name \notin Registered(map)
          /\ Leave(t, Error("unknown_name"))
       \/ /\ req[t].name \in Registered(map)
          /\ Goto(t, "caps")
          /\ it' = [it EXCEPT ![t] = map[req[t].name]]
          /\ UNCHANGED vec

GetChecked(t) ==
    /\ At(t, "caps", "get")
    /\ UNCHANGED <<map, caps_tlmap>>
    /\ \/ /\ ~Permits(caps_tlmap[t], req[t].name)
          /\ Leave(t, Error("capabilities_error"))
       \/ /\ Permits(caps_tlmap[t], req[t].name)
          /\ Leave(t, Entry(it[t]))

(***************************************************************************)
(* list: one push_back per entry; the order of the names is abstracted.    *)
(***************************************************************************)
\* Variant: the loop begins again with every entry.
ListAgain(t) ==
    /\ At(t, "enter", "list")
    /\ \E n \in Registered(map) \ vec[t] :
           vec' = [vec EXCEPT ![t] = {n}]
    /\ UNCHANGED <<map, caps_tlmap, mutex, pc, req, res, it>>

ListNext(t) ==
    /\ At(t, "enter", "list")
    /\ \E n \in Registered(map) \ vec[t] :
           vec' = [vec EXCEPT ![t] = @ \cup {n}]
    /\ UNCHANGED <<map, caps_tlmap, mutex, pc, req, res, it>>

ListEnd(t) ==
    /\ At(t, "enter", "list")
    /\ Registered(map) \subseteq vec[t]
    /\ Leave(t, NameList(vec[t]))
    /\ UNCHANGED <<map, caps_tlmap>>

Remove(t) ==
    /\ At(t, "enter", "remove")
    /\ map' = [map EXCEPT ![req[t].name] = NoFun]
    /\ Leave(t, IF req[t].name \in Registered(map) THEN Ok ELSE Error("unknown_name"))
    /\ UNCHANGED caps_tlmap

(***************************************************************************)
(* set_thread_caps: refuse a second list, look every capability up, insert.*)
(* The text of the lookup's exception repeats that of the first refusal.   *)
(***************************************************************************)
\* Variant: a second list of capabilities is let through.
SetCapsTwice(t) ==
    /\ At(t, "enter", "set_thread_caps")
    /\ Goto(t, "verify")
    /\ UNCHANGED <<map, caps_tlmap, vec, it>>

SetCapsCheck(t) ==
    /\ At(t, "enter", "set_thread_caps")
    /\ UNCHANGED <<map, caps_tlmap>>
    /\ \/ /\ caps_tlmap[t] # {}
          /\ Leave(t, Error("capabilities_already_set"))
       \/ /\ caps_tlmap[t] = {}
          /\ Goto(t, "verify")
          /\ UNCHANGED <<vec, it>>

\* Variant: each capability is granted as soon as it is looked up.
SetCapsEagerly(t) ==
    /\ At(t, "verify", "set_thread_caps")
    /\ \E cp \in req[t].caps \ vec[t] :
           \/ /\ cp \notin Registered(map)
              /\ Leave(t, Error("capabilities_already_set"))
              /\ UNCHANGED caps_tlmap
           \/ /\ cp \in Registered(map)
              /\ vec' = [vec EXCEPT ![t] = @ \cup {cp}]
              /\ caps_tlmap' = [caps_tlmap EXCEPT ![t] = @ \cup {cp}]
              /\ UNCHANGED <<mutex, pc, req, res, it>>
    /\ UNCHANGED map

SetCapsVerify(t) ==
    /\ At(t, "verify", "set_thread_caps")
    /\ \E cp \in req[t].caps \ vec[t] :
           \/ /\ cp \notin Registered(map)
              /\ Leave(t, Error("capabilities_already_set"))
           \/ /\ cp \in Registered(map)
              /\ vec' = [vec EXCEPT ![t] = @ \cup {cp}]
              /\ UNCHANGED <<mutex, pc, req, res, it>>
    /\ UNCHANGED <<map, caps_tlmap>>

SetCapsInsert(t) ==
    /\ At(t, "verify", "set_thread_caps")
    /\ req[t].caps \subseteq vec[t]
    /\ caps_tlmap' = [caps_tlmap EXCEPT ![t] = req[t].caps]
    /\ Leave(t, Ok)
    /\ UNCHANGED map

-----------------------------------------------------------------------------
\* The statements of a method, run by the thread that holds the mutex.
Step(t) ==
    \/ PutCheck(t) \/ PutInsert(t)
    \/ GetFind(t) \/ GetChecked(t)
    \/ ListNext(t) \/ ListEnd(t)
    \/ Remove(t)
    \/ SetCapsCheck(t) \/ SetCapsVerify(t) \/ SetCapsInsert(t)

Next ==
    \E t \in Threads :
        \/ \E r \in ValidRequests : Invoke(t, r)
        \/ Refuse(t)
        \/ Lock(t)
        \/ Step(t)
        \/ Return(t)

Spec == Init /\ [][Next]_vars

(***************************************************************************)
(* A thread inside a method is scheduled again, and a free mutex that is   *)
(* waited for is taken by one of the waiters.  std::mutex does not promise *)
(* which, so there is no fairness for a single thread's Lock, and callers  *)
(* need not call or use what was returned.                                 *)
(***************************************************************************)
Fairness ==
    /\ \A t \in Threads : WF_vars(Step(t))
    /\ WF_vars(\E t \in Threads : Lock(t))

FairSpec == Spec /\ Fairness

-----------------------------------------------------------------------------
PhaseOf(label) == IF label \in {"idle", "done"} THEN label ELSE "pending"

AbstractPhase == [t \in Threads |-> PhaseOf(pc[t])]

Atomic == INSTANCE CallRegistry WITH phase <- AbstractPhase

\* Every method takes effect at one instant between its call and its return,
\* although its checks, loops and updates are separate statements.
AtomicSpec == Atomic!Spec

\* The mutex is held by exactly the thread that is inside a method: every
\* return and every exception of every method gives it back.
MutualExclusion ==
    \A t \in Threads : InCriticalSection(t) <=> mutex = t

\* What a method has checked is still so when it acts on it: the name put is
\* about to insert is free and there is room for it, the entry get has an
\* iterator to is there and the same, the names list has copied and the capabilities set_thread_caps
\* has looked up are registered.
ChecksStayTrue ==
    \A t \in Threads :
        /\ pc[t] = "insert" =>
               /\ req[t].op = "put"
               /\ ~Full(map)
               /\ req[t].name \notin Registered(map)
        /\ pc[t] = "caps" =>
               /\ req[t].op = "get"
               /\ req[t].name \in Registered(map)
               /\ it[t] = map[req[t].name]
        /\ pc[t] = "verify" =>
               /\ req[t].op = "set_thread_caps"
               /\ caps_tlmap[t] = {}
        /\ vec[t] # {} => At(t, "enter", "list") \/ pc[t] = "verify"
        /\ vec[t] \subseteq Registered(map)

\* The map never outgrows max_reg_entries, whatever puts race for the last
\* places (put, wiltoncall_registry.hpp:71).
CapacityBound ==
    IsFiniteSet(Registered(map)) /\ Cardinality(Registered(map)) <= MaxEntries

\* A thread's capabilities are granted once, never widened, narrowed or taken
\* back, and at the instant of the grant every one of them is registered
\* although they were looked up one by one before (set_thread_caps).
CapsGrantedOnce ==
    [][\A t \in Threads :
           caps_tlmap'[t] # caps_tlmap[t] =>
               /\ caps_tlmap[t] = {}
               /\ caps_tlmap'[t] # {}
               /\ caps_tlmap'[t] \subseteq Registered(map)]_vars

\* A registration is never replaced in place: the callback under a name
\* changes only to none (remove) or from none (put).
NeverReplaced ==
    [][\A n \in Names :
           map'[n] # map[n] => map[n] = NoFun \/ map'[n] = NoFun]_vars

\* What get copies through the iterator it found some statements before is, at
\* the instant it is handed out, the callback registered under the name, and one
\* the calling thread is allowed: no remove or put of another thread has made
\* the iterator stale (wiltoncall_registry.hpp:85 to :108).
HandedOutCurrent ==
    [][\A t \in Threads :
           res'[t] # res[t] /\ res'[t].kind = "entry" =>
               /\ res'[t].fun = map'[req[t].name]
               /\ Permits(caps_tlmap'[t], req[t].name)]_vars

\* A thread waits for ever for the mutex only if the others keep taking it and
\* giving it back for ever: no method that ends leaves the registry blocked.
OnlyStarvedByOthers ==
    \A t \in Threads :
        <>[](pc[t] = "lock") =>
            []<>(mutex \in Threads \ {t}) /\ []<>(mutex = NoThread)
=============================================================================
