---------------------------- MODULE CallRegistry ----------------------------
(***************************************************************************)
(* What the call registry promises: every operation of                     *)
(* wiltoncall_registry takes effect at one instant between its call and    *)
(* its return.  WiltoncallRegistry, the specification at the level of the  *)
(* mutex and the statements of each method, implements this one; Wiltoncall*)
(* is built from it.                                                       *)
(***************************************************************************)
EXTENDS CallInterface

VARIABLES
    map,           \* name -> callback, NoFun where absent
    caps_tlmap,    \* thread -> set of names it may call, {} where absent
    phase,         \* "idle", "pending" or "done"
    req,           \* the request of the call in progress
    res            \* its response, once it is done

registryVars == <<map, caps_tlmap, phase, req, res>>

TypeOK ==
    /\ map \in [Names -> Funs \cup {NoFun}]
    /\ caps_tlmap \in [Threads -> SUBSET Names]
    /\ phase \in [Threads -> {"idle", "pending", "done"}]
    /\ req \in [Threads -> Requests]
    /\ res \in [Threads -> Responses]

Init ==
    /\ map = [n \in Names |-> NoFun]
    /\ caps_tlmap = [t \in Threads |-> {}]
    /\ phase = [t \in Threads |-> "idle"]
    /\ req = [t \in Threads |-> NoRequest]
    /\ res = [t \in Threads |-> NoResponse]

-----------------------------------------------------------------------------
Pending(t, op) == phase[t] = "pending" /\ req[t].op = op

Respond(t, r) ==
    /\ phase' = [phase EXCEPT ![t] = "done"]
    /\ res' = [res EXCEPT ![t] = r]
    /\ UNCHANGED req

Invoke(t, r) ==
    /\ phase[t] = "idle"
    /\ phase' = [phase EXCEPT ![t] = "pending"]
    /\ req' = [req EXCEPT ![t] = r]
    /\ UNCHANGED <<map, caps_tlmap, res>>

\* The parameter checks of the entry points return before anything is locked.
Refuse(t) ==
    /\ phase[t] = "idle"
    /\ phase' = [phase EXCEPT ![t] = "done"]
    /\ req' = [req EXCEPT ![t] = Invalid]
    /\ res' = [res EXCEPT ![t] = Error("invalid_parameter")]
    /\ UNCHANGED <<map, caps_tlmap>>

Put(t) ==
    /\ Pending(t, "put")
    /\ UNCHANGED caps_tlmap
    /\ \/ /\ Full(map)
          /\ Respond(t, Error("size_exceeded"))
          /\ UNCHANGED map
       \/ /\ ~Full(map)
          /\ req[t].name \in Registered(map)
          /\ Respond(t, Error("duplicate_name"))
          /\ UNCHANGED map
       \/ /\ ~Full(map)
          /\ req[t].name \notin Registered(map)
          /\ map' = [map EXCEPT ![req[t].name] = req[t].fun]
          /\ Respond(t, Ok)

\* Variant: the capabilities are not consulted.
GetUnchecked(t) ==
    /\ Pending(t, "get")
    /\ UNCHANGED <<map, caps_tlmap>>
    /\ \/ /\ req[t].name \notin Registered(map)
          /\ Respond(t, Error("unknown_name"))
       \/ /\ req[t].name \in Registered(map)
          /\ Respond(t, Entry(map[req[t].name]))

\* Variant: the entry is not compared with the end of the map.
GetUnfound(t) ==
    /\ Pending(t, "get")
    /\ UNCHANGED <<map, caps_tlmap>>
    /\ \/ /\ ~Permits(caps_tlmap[t], req[t].name)
          /\ Respond(t, Error("capabilities_error"))
       \/ /\ Permits(caps_tlmap[t], req[t].name)
          /\ Respond(t, Entry(map[req[t].name]))

\* Variant: the entry found may be the one of a neighbouring name.
GetNearest(t) ==
    /\ Pending(t, "get")
    /\ UNCHANGED <<map, caps_tlmap>>
    /\ \/ /\ Registered(map) = {}
          /\ Respond(t, Error("unknown_name"))
       \/ /\ ~Permits(caps_tlmap[t], req[t].name)
          /\ Respond(t, Error("capabilities_error"))
       \/ \E n \in Registered(map) :
              /\ Permits(caps_tlmap[t], req[t].name)
              /\ Respond(t, Entry(map[n]))

Get(t) ==
    /\ Pending(t, "get")
    /\ UNCHANGED <<map, caps_tlmap>>
    /\ \/ /\ req[t].name \notin Registered(map)
          /\ Respond(t, Error("unknown_name"))
       \/ /\ req[t].name \in Registered(map)
          /\ ~Permits(caps_tlmap[t], req[t].name)
          /\ Respond(t, Error("capabilities_error"))
       \/ /\ req[t].name \in Registered(map)
          /\ Permits(caps_tlmap[t], req[t].name)
          /\ Respond(t, Entry(map[req[t].name]))

List(t) ==
    /\ Pending(t, "list")
    /\ Respond(t, NameList(Registered(map)))
    /\ UNCHANGED <<map, caps_tlmap>>

Remove(t) ==
    /\ Pending(t, "remove")
    /\ UNCHANGED caps_tlmap
    /\ \/ /\ req[t].name \notin Registered(map)
          /\ Respond(t, Error("unknown_name"))
          /\ UNCHANGED map
       \/ /\ req[t].name \in Registered(map)
          /\ map' = [map EXCEPT ![req[t].name] = NoFun]
          /\ Respond(t, Ok)

\* Both refusals carry the same text: a capability that names no registered
\* call is reported with the words for capabilities set twice.
SetThreadCaps(t) ==
    /\ Pending(t, "set_thread_caps")
    /\ UNCHANGED map
    /\ \/ /\ \/ caps_tlmap[t] # {}
             \/ ~ (req[t].caps \subseteq Registered(map))
          /\ Respond(t, Error("capabilities_already_set"))
          /\ UNCHANGED caps_tlmap
       \/ /\ caps_tlmap[t] = {}
          /\ req[t].caps \subseteq Registered(map)
          /\ caps_tlmap' = [caps_tlmap EXCEPT ![t] = req[t].caps]
          /\ Respond(t, Ok)

Return(t) ==
    /\ phase[t] = "done"
    /\ phase' = [phase EXCEPT ![t] = "idle"]
    /\ req' = [req EXCEPT ![t] = NoRequest]
    /\ res' = [res EXCEPT ![t] = NoResponse]
    /\ UNCHANGED <<map, caps_tlmap>>

Perform(t) ==
    Put(t) \/ Get(t) \/ List(t) \/ Remove(t) \/ SetThreadCaps(t)

Next ==
    \E t \in Threads :
        \/ \E r \in ValidRequests : Invoke(t, r)
        \/ Refuse(t)
        \/ Perform(t)
        \/ Return(t)

Spec == Init /\ [][Next]_registryVars
=============================================================================
