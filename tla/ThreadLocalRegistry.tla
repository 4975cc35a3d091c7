------------------------- MODULE ThreadLocalRegistry -------------------------
(***************************************************************************)
(* include/wilton/support/tl_registry.hpp: a value per thread, kept in a   *)
(* std::map under the printed id of the thread.  peek hands out a          *)
(* reference into the map, which is used after the mutex is released.  An  *)
(* exception lists the keys of the map, with the mutex held.  Ids are used *)
(* again for later threads, as in Wiltoncall.                              *)
(***************************************************************************)
EXTENDS Naturals

CONSTANTS
    ThreadIds,          \* what std::this_thread::get_id prints for the threads
    NoThread,
    Values, NoValue     \* the objects that are put; a node of the map is one

ASSUME ValuesAssumption == NoThread \notin ThreadIds /\ NoValue \notin Values

VARIABLES
    mutex,      \* the thread that holds the mutex
    map,        \* the value of each thread
    pc,         \* the method each thread is in, or waits to begin
    arg,        \* the value it puts
    keys,       \* the keys that dump_internal has passed
    peeked,     \* the references each thread has
    alive,      \* the ids that belong to a running thread
    mine,       \* history: what the present thread has put
    left        \* history: what an earlier thread of the id left

tlVars == <<mutex, map, pc, arg, keys, peeked, alive, mine, left>>

Methods == {"put", "peek", "remove", "dump"}

Waiting ==
    [put |-> "lock_put", peek |-> "lock_peek", remove |-> "lock_remove", dump |-> "lock_dump"]

TlTypeOK ==
    /\ mutex \in ThreadIds \cup {NoThread}
    /\ map \in [ThreadIds -> Values \cup {NoValue}]
    /\ pc \in [ThreadIds -> {"idle", "throw"} \cup Methods \cup {Waiting[m] : m \in Methods}]
    /\ arg \in [ThreadIds -> Values \cup {NoValue}]
    /\ keys \in [ThreadIds -> SUBSET ThreadIds]
    /\ peeked \in [ThreadIds -> SUBSET Values]
    /\ alive \subseteq ThreadIds
    /\ mine \in [ThreadIds -> Values \cup {NoValue}]
    /\ left \in [ThreadIds -> Values \cup {NoValue}]

TlInit ==
    /\ mutex = NoThread
    /\ map = [t \in ThreadIds |-> NoValue]
    /\ pc = [t \in ThreadIds |-> "idle"]
    /\ arg = [t \in ThreadIds |-> NoValue]
    /\ keys = [t \in ThreadIds |-> {}]
    /\ peeked = [t \in ThreadIds |-> {}]
    /\ alive = ThreadIds
    /\ mine = [t \in ThreadIds |-> NoValue]
    /\ left = [t \in ThreadIds |-> NoValue]

-----------------------------------------------------------------------------
Keys == {t \in ThreadIds : map[t] # NoValue}

Goto(t, label) == pc' = [pc EXCEPT ![t] = label]

Leave(t) ==
    /\ mutex' = NoThread
    /\ Goto(t, "idle")
    /\ arg' = [arg EXCEPT ![t] = NoValue]
    /\ keys' = [keys EXCEPT ![t] = {}]

\* What was looked up is not as the method needs it.
Throw(t) ==
    /\ Goto(t, "throw")
    /\ UNCHANGED <<mutex, map, arg, keys, peeked, mine, left>>

\* A value that is put is in no map and referred to by nobody.
InUse == UNION {{map[t], arg[t]} \cup peeked[t] : t \in ThreadIds}

\* The id of the thread is printed before the mutex is taken.
Call(t, m) ==
    /\ t \in alive
    /\ pc[t] = "idle"
    /\ Goto(t, Waiting[m])
    /\ \/ m = "put" /\ \E v \in Values \ InUse : arg' = [arg EXCEPT ![t] = v]
       \/ m # "put" /\ UNCHANGED arg
    /\ UNCHANGED <<mutex, map, keys, peeked, alive, mine, left>>

Lock(t) ==
    \E m \in Methods :
        /\ pc[t] = Waiting[m]
        /\ mutex = NoThread
        /\ mutex' = t
        /\ Goto(t, m)
        /\ UNCHANGED <<map, arg, keys, peeked, alive, mine, left>>

\* Variant: an entry that is there is assigned to.
PutValueAssign(t) ==
    /\ pc[t] = "put"
    /\ map' = [map EXCEPT ![t] = arg[t]]
    /\ mine' = [mine EXCEPT ![t] = arg[t]]
    /\ Leave(t)
    /\ UNCHANGED <<peeked, left, alive>>

\* A duplicate destroys the value, which has been moved from the caller.
PutValue(t) ==
    /\ pc[t] = "put"
    /\ \/ t \in Keys /\ Throw(t)
       \/ /\ t \notin Keys
          /\ map' = [map EXCEPT ![t] = arg[t]]
          /\ mine' = [mine EXCEPT ![t] = arg[t]]
          /\ Leave(t)
          /\ UNCHANGED <<peeked, left>>
    /\ UNCHANGED alive

\* Variant: what was found is not compared with the end of the map.
PeekValueUnfound(t) ==
    /\ pc[t] = "peek"
    /\ peeked' = [peeked EXCEPT ![t] = @ \cup {map[t]}]
    /\ Leave(t)
    /\ UNCHANGED <<map, alive, mine, left>>

PeekValue(t) ==
    /\ pc[t] = "peek"
    /\ \/ t \notin Keys /\ Throw(t)
       \/ /\ t \in Keys
          /\ peeked' = [peeked EXCEPT ![t] = @ \cup {map[t]}]
          /\ Leave(t)
          /\ UNCHANGED <<map, mine, left>>
    /\ UNCHANGED alive

\* Variant: the first entry is taken for the one that is looked for.
RemoveFirst(t) ==
    /\ pc[t] = "remove"
    /\ \E k \in ThreadIds :
           /\ k \in Keys
           /\ map' = [map EXCEPT ![k] = NoValue]
    /\ mine' = [mine EXCEPT ![t] = NoValue]
    /\ left' = [left EXCEPT ![t] = NoValue]
    /\ Leave(t)
    /\ UNCHANGED <<peeked, alive>>

\* The value is moved to the caller, who has no use for older references to it.
RemoveValue(t) ==
    /\ pc[t] = "remove"
    /\ \/ t \notin Keys /\ Throw(t)
       \/ /\ t \in Keys
          /\ map' = [map EXCEPT ![t] = NoValue]
          /\ mine' = [mine EXCEPT ![t] = NoValue]
          /\ left' = [left EXCEPT ![t] = NoValue]
          /\ Leave(t)
          /\ UNCHANGED peeked
    /\ UNCHANGED alive

\* dump_internal, one entry at a time.
DumpKey(t) ==
    /\ pc[t] \in {"dump", "throw"}
    /\ \E k \in Keys \ keys[t] : keys' = [keys EXCEPT ![t] = @ \cup {k}]
    /\ UNCHANGED <<mutex, map, pc, arg, peeked, alive, mine, left>>

\* Variant: the mutex is unlocked where a method returns, which an exception skips.
DumpEndKeeping(t) ==
    /\ pc[t] \in {"dump", "throw"}
    /\ Keys \subseteq keys[t]
    /\ \/ pc[t] = "dump" /\ Leave(t)
       \/ /\ pc[t] = "throw"
          /\ Goto(t, "idle")
          /\ arg' = [arg EXCEPT ![t] = NoValue]
          /\ keys' = [keys EXCEPT ![t] = {}]
          /\ UNCHANGED mutex
    /\ UNCHANGED <<map, peeked, alive, mine, left>>

\* The keys are returned, or the exception that names them leaves the method.
DumpEnd(t) ==
    /\ pc[t] \in {"dump", "throw"}
    /\ Keys \subseteq keys[t]
    /\ Leave(t)
    /\ UNCHANGED <<map, peeked, alive, mine, left>>

\* The thread has no use for a reference any longer.
DropReference(t) ==
    /\ pc[t] = "idle"
    /\ \E v \in peeked[t] : peeked' = [peeked EXCEPT ![t] = @ \ {v}]
    /\ UNCHANGED <<mutex, map, pc, arg, keys, alive, mine, left>>

Exit(t) ==
    /\ t \in alive
    /\ pc[t] = "idle"
    /\ peeked[t] = {}
    /\ alive' = alive \ {t}
    /\ left' = [left EXCEPT ![t] = map[t]]
    /\ mine' = [mine EXCEPT ![t] = NoValue]
    /\ UNCHANGED <<mutex, map, pc, arg, keys, peeked>>

Start(t) ==
    /\ t \notin alive
    /\ alive' = alive \cup {t}
    /\ UNCHANGED <<mutex, map, pc, arg, keys, peeked, mine, left>>

Step(t) == PutValue(t) \/ PeekValue(t) \/ RemoveValue(t) \/ DumpKey(t) \/ DumpEnd(t)

TlNext ==
    \E t \in ThreadIds :
        \/ \E m \in Methods : Call(t, m)
        \/ Lock(t) \/ Step(t) \/ DropReference(t) \/ Exit(t) \/ Start(t)

TlSpec == TlInit /\ [][TlNext]_tlVars

\* As in WiltoncallRegistry: methods go on, and some waiter takes a free mutex.
FairTlSpec ==
    /\ TlSpec
    /\ \A t \in ThreadIds : WF_tlVars(Step(t))
    /\ WF_tlVars(\E t \in ThreadIds : Lock(t))

-----------------------------------------------------------------------------
\* A thread finds under its id what it has put itself and nothing else, unless
\* an earlier thread of that id ended without removing its value.
ValueIsOwn ==
    \A t \in ThreadIds : map[t] = IF mine[t] # NoValue THEN mine[t] ELSE left[t]

\* A value that a thread has a reference to leaves the map only when that thread
\* removes it: what others put and remove moves no entry, and a second put does
\* not replace one (the reference that peek returns).
ReferenceStaysGood ==
    [][\A t \in ThreadIds :
           map[t] \in peeked[t] /\ map'[t] # map[t] => pc[t] = "remove"]_tlVars

\* A method that has begun ends, also by an exception, and whoever has the mutex
\* gives it back, so that no thread waits for one that has left.
MethodsEnd ==
    \A t \in ThreadIds :
        pc[t] \in Methods \cup {"throw"} \/ mutex = t ~> pc[t] = "idle" /\ mutex # t
=============================================================================
