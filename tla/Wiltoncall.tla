----------------------------- MODULE Wiltoncall -----------------------------
(***************************************************************************)
(* src/call/wiltoncall.cpp: threads call the C entry points, and the       *)
(* callback that wiltoncall looks up runs outside the registry, on the     *)
(* stack of the calling thread, where it may call every entry point again. *)
(* The registry is CallRegistry, whose operations are atomic.              *)
(*                                                                         *)
(* A thread is known to the registry by the string of its id, which the    *)
(* system may give to a new thread once the old one has ended: Threads are *)
(* these strings, and Exit and Start end one thread and begin the next     *)
(* that has the same id.                                                   *)
(***************************************************************************)
EXTENDS CallInterface, Sequences

CONSTANT MaxDepth     \* bound: callbacks nested on one thread's stack

ASSUME DepthAssumption == MaxDepth \in Nat

VARIABLES
    map, caps_tlmap, phase, req, res,   \* as in CallRegistry
    stack,     \* the callbacks in progress on each thread, innermost last
    alive,     \* the ids that belong to a running thread
    own,       \* what the present thread of an id has set as its capabilities
    outer      \* how many callbacks in progress were started before that

Reg == INSTANCE CallRegistry

vars == <<map, caps_tlmap, phase, req, res, stack, alive, own, outer>>

threadVars == <<stack, alive, own, outer>>

Frame == [name : Names, fun : Funs]

TypeOK ==
    /\ Reg!TypeOK
    /\ stack \in [Threads -> Seq(Frame)]
    /\ alive \subseteq Threads
    /\ own \in [Threads -> SUBSET Names]
    /\ outer \in [Threads -> Nat]

Init ==
    /\ Reg!Init
    /\ stack = [t \in Threads |-> <<>>]
    /\ alive = Threads
    /\ own = [t \in Threads |-> {}]
    /\ outer = [t \in Threads |-> 0]

-----------------------------------------------------------------------------
\* The code of a thread, or of the innermost callback, enters an entry point.
Enter(t) ==
    /\ t \in alive
    /\ \/ \E r \in ValidRequests :
              /\ r.op = "get" => Len(stack[t]) < MaxDepth
              /\ Reg!Invoke(t, r)
       \/ Reg!Refuse(t)
    /\ UNCHANGED threadVars

\* wiltoncall_register, wiltoncall_list, wiltoncall_remove and the lookup of
\* wiltoncall.
Access(t) ==
    /\ Reg!Put(t) \/ Reg!Get(t) \/ Reg!List(t) \/ Reg!Remove(t)
    /\ UNCHANGED threadVars

\* wilton_set_thread_capabilities
SetThreadCapabilities(t) ==
    /\ Reg!SetThreadCaps(t)
    /\ \/ /\ caps_tlmap' = caps_tlmap
          /\ UNCHANGED <<own, outer>>
       \/ /\ caps_tlmap' # caps_tlmap
          /\ own' = [own EXCEPT ![t] = req[t].caps]
          /\ outer' = [outer EXCEPT ![t] = Len(stack[t])]
    /\ UNCHANGED <<stack, alive>>

\* wiltoncall has its entry and invokes the function; the lock is not held.
Dispatch(t) ==
    /\ phase[t] = "done"
    /\ res[t].kind = "entry"
    /\ Reg!Return(t)
    /\ stack' = [stack EXCEPT ![t] = Append(@, [name |-> req[t].name, fun |-> res[t].fun])]
    /\ UNCHANGED <<alive, own, outer>>

\* Every other answer goes back to the code that asked.
Answer(t) ==
    /\ phase[t] = "done"
    /\ res[t].kind # "entry"
    /\ Reg!Return(t)
    /\ UNCHANGED threadVars

\* The callback returns and wiltoncall with it, whether it passes a result on,
\* an error, or the error of a result whose length is invalid.
CallbackReturn(t) ==
    /\ phase[t] = "idle"
    /\ stack[t] # <<>>
    /\ stack' = [stack EXCEPT ![t] = SubSeq(@, 1, Len(@) - 1)]
    /\ outer' = [outer EXCEPT ![t] = IF @ < Len(stack[t]) THEN @ ELSE Len(stack[t]) - 1]
    /\ UNCHANGED <<map, caps_tlmap, phase, req, res, alive, own>>

\* A thread ends; nothing tells the registry.
Exit(t) ==
    /\ t \in alive
    /\ phase[t] = "idle"
    /\ stack[t] = <<>>
    /\ alive' = alive \ {t}
    /\ UNCHANGED <<map, caps_tlmap, phase, req, res, stack, own, outer>>

\* A thread begins under an id that was used before.
Start(t) ==
    /\ t \notin alive
    /\ alive' = alive \cup {t}
    /\ own' = [own EXCEPT ![t] = {}]
    /\ UNCHANGED <<map, caps_tlmap, phase, req, res, stack, outer>>

Next ==
    \E t \in Threads :
        \/ Enter(t) \/ Access(t) \/ SetThreadCapabilities(t)
        \/ Dispatch(t) \/ Answer(t) \/ CallbackReturn(t)
        \/ Exit(t) \/ Start(t)

Spec == Init /\ [][Next]_vars

-----------------------------------------------------------------------------
\* What a callback sees while it is in use: it runs on some stack, or has been
\* looked up and is about to.
Running(t, n, f) == \E i \in 1..Len(stack[t]) : stack[t][i] = [name |-> n, fun |-> f]

LookedUp(t, n, f) == res[t] = Entry(f) /\ req[t].name = n

InUse(n, f) == \E t \in Threads : Running(t, n, f) \/ LookedUp(t, n, f)

\* A thread that has set its capabilities is confined to them however deep the
\* calls nest: every callback started since then is one of them, also those
\* that callbacks of earlier, unconfined calls start (get, called from
\* wiltoncall at each level).
Confined ==
    \A t \in Threads : \A i \in (outer[t] + 1)..Len(stack[t]) :
        Permits(own[t], stack[t][i].name)

\* A callback that is no longer registered and is in use nowhere is never used
\* again: the owner of its context may free it.  Registration is not enough
\* by itself, since wiltoncall copies the pair and runs it after the lock is
\* released.
SafeToFree ==
    [][\A n \in Names, f \in Funs :
           map[n] # f /\ ~InUse(n, f) => ~InUse(n, f)']_vars

\* caps_tlmap stands in for thread-locals (wiltoncall_registry.hpp:53): a
\* thread has the capabilities it has set itself.
CapsAreThreadLocal ==
    \A t \in alive : caps_tlmap[t] = own[t]
=============================================================================
