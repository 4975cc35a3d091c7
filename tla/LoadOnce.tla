------------------------------ MODULE LoadOnce ------------------------------
(***************************************************************************)
(* What wilton_dyload promises: a library is initialized with success at   *)
(* most once, however many threads ask for it, and whoever is told that it *)
(* is loaded finds it initialized.  A failed attempt is forgotten.         *)
(***************************************************************************)
EXTENDS Naturals

CONSTANTS Threads, Libraries, NoLibrary

VARIABLES
    loads,      \* how often each library has been initialized
    wanted,     \* the library each thread is asking for
    told        \* what each thread has been told: "none", "loaded" or "error"

loadVars == <<loads, wanted, told>>

Init ==
    /\ loads = [lib \in Libraries |-> 0]
    /\ wanted = [t \in Threads |-> NoLibrary]
    /\ told = [t \in Threads |-> "none"]

Ask(t, lib) ==
    /\ wanted[t] = NoLibrary
    /\ wanted' = [wanted EXCEPT ![t] = lib]
    /\ told' = [told EXCEPT ![t] = "none"]
    /\ UNCHANGED loads

Initialize(t) ==
    /\ wanted[t] # NoLibrary
    /\ loads[wanted[t]] = 0
    /\ loads' = [loads EXCEPT ![wanted[t]] = 1]
    /\ UNCHANGED <<wanted, told>>

AnswerLoaded(t) ==
    /\ wanted[t] # NoLibrary
    /\ loads[wanted[t]] = 1
    /\ wanted' = [wanted EXCEPT ![t] = NoLibrary]
    /\ told' = [told EXCEPT ![t] = "loaded"]
    /\ UNCHANGED loads

\* Only the attempt of a thread that found the library not loaded can fail.
AnswerError(t) ==
    /\ wanted[t] # NoLibrary
    /\ loads[wanted[t]] = 0
    /\ wanted' = [wanted EXCEPT ![t] = NoLibrary]
    /\ told' = [told EXCEPT ![t] = "error"]
    /\ UNCHANGED loads

Next ==
    \E t \in Threads :
        \/ \E lib \in Libraries : Ask(t, lib)
        \/ Initialize(t) \/ AnswerLoaded(t) \/ AnswerError(t)

Spec == Init /\ [][Next]_loadVars
=============================================================================
