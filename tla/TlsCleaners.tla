----------------------------- MODULE TlsCleaners -----------------------------
(***************************************************************************)
(* src/misc/wilton_misc.cpp: modules that keep state per thread register a *)
(* cleaner, and wilton_clean_tls has every cleaner drop what it keeps for  *)
(* a thread id.  Cleaners are foreign code that runs with the mutex held,  *)
(* so that one which calls either function waits for its own thread.       *)
(***************************************************************************)
EXTENDS Naturals, SequencesExt

CONSTANTS
    Threads, NoThread,
    Cleaners,        \* callbacks: a context pointer with a function pointer
    NoCleaner,       \* the null function pointer
    Reentrant,       \* cleaners that may call one of the two functions
    MaxCleaners      \* bound: registrations

VARIABLES
    mutex,      \* the thread that holds the mutex
    reg,        \* the cleaners, in the order of registration
    pc,         \* where in wilton_clean_tls each thread is
    ran,        \* the cleaners its last call has run for its id, in order
    before      \* history: reg when that call began

vars == <<mutex, reg, pc, ran, before>>

Iterating(t) == pc[t] \in {"loop", "nested"}

TypeOK ==
    /\ mutex \in Threads \cup {NoThread}
    /\ reg \in Seq(Cleaners)
    /\ pc \in [Threads -> {"idle", "lock", "loop", "nested"}]
    /\ ran \in [Threads -> Seq(Cleaners)]
    /\ before \in [Threads -> Seq(Cleaners)]

Init ==
    /\ mutex = NoThread
    /\ reg = <<>>
    /\ pc = [t \in Threads |-> "idle"]
    /\ ran = [t \in Threads |-> <<>>]
    /\ before = [t \in Threads |-> <<>>]

-----------------------------------------------------------------------------
Goto(t, label) == pc' = [pc EXCEPT ![t] = label]

\* Variant: the cleaner is appended without the lock_guard.
RegisterUnlocked(t, c) ==
    /\ pc[t] = "idle"
    /\ c # NoCleaner
    /\ Len(reg) < MaxCleaners
    /\ reg' = Append(reg, c)
    /\ UNCHANGED <<mutex, pc, ran, before>>

\* Variant: the function pointer is not tested.
RegisterUntested(t, c) ==
    /\ pc[t] = "idle"
    /\ mutex = NoThread
    /\ Len(reg) < MaxCleaners
    /\ reg' = Append(reg, c)
    /\ UNCHANGED <<mutex, pc, ran, before>>

\* wilton_register_tls_cleaner: nothing foreign runs under its lock_guard, so
\* that it is one step, taken while the mutex is free.
Register(t, c) ==
    /\ pc[t] = "idle"
    /\ c # NoCleaner
    /\ mutex = NoThread
    /\ Len(reg) < MaxCleaners
    /\ reg' = Append(reg, c)
    /\ UNCHANGED <<mutex, pc, ran, before>>

\* wilton_clean_tls; parameters that are refused change nothing.
CallClean(t) ==
    /\ pc[t] = "idle"
    /\ Goto(t, "lock")
    /\ ran' = [ran EXCEPT ![t] = <<>>]
    /\ before' = [before EXCEPT ![t] = reg]
    /\ UNCHANGED <<mutex, reg>>

Lock(t) ==
    /\ pc[t] = "lock"
    /\ mutex = NoThread
    /\ mutex' = t
    /\ Goto(t, "loop")
    /\ UNCHANGED <<reg, ran, before>>

\* One iteration: the cleaner is called and returns; it cannot throw.
RunCleaner(t) ==
    /\ pc[t] = "loop"
    /\ Len(ran[t]) < Len(reg)
    /\ ran' = [ran EXCEPT ![t] = Append(@, reg[Len(@) + 1])]
    /\ UNCHANGED <<mutex, reg, pc, before>>

\* The cleaner calls wilton_clean_tls or wilton_register_tls_cleaner.
NestedCall(t) ==
    /\ pc[t] = "loop"
    /\ Len(ran[t]) < Len(reg)
    /\ reg[Len(ran[t]) + 1] \in Reentrant
    /\ Goto(t, "nested")
    /\ UNCHANGED <<mutex, reg, ran, before>>

\* Variant: the loop ends one cleaner early.
ReturnEarly(t) ==
    /\ pc[t] = "loop"
    /\ Len(ran[t]) + 1 >= Len(reg)
    /\ mutex' = NoThread
    /\ Goto(t, "idle")
    /\ UNCHANGED <<reg, ran, before>>

ReturnCleaned(t) ==
    /\ pc[t] = "loop"
    /\ Len(ran[t]) = Len(reg)
    /\ mutex' = NoThread
    /\ Goto(t, "idle")
    /\ UNCHANGED <<reg, ran, before>>

Step(t) == RunCleaner(t) \/ ReturnCleaned(t)

Next ==
    \E t \in Threads :
        \/ \E c \in Cleaners \cup {NoCleaner} : Register(t, c)
        \/ CallClean(t) \/ Lock(t) \/ Step(t) \/ NestedCall(t)

Spec == Init /\ [][Next]_vars

-----------------------------------------------------------------------------
\* When wilton_clean_tls has returned, every cleaner registered before it was
\* called has run for the id, once per registration and in that order, although
\* others registered and cleaned meanwhile.
EveryCleanerRuns ==
    \A t \in Threads :
        /\ IsPrefix(ran[t], reg)
        /\ pc[t] = "idle" => IsPrefix(before[t], ran[t])

\* The vector does not change while somebody iterates over it: a registration
\* meanwhile could move its elements (the range-for of wilton_clean_tls).
IteratorsStayValid ==
    [][(\E t \in Threads : Iterating(t)) => reg' = reg]_vars
=============================================================================
