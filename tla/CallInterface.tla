---------------------------- MODULE CallInterface ----------------------------
(***************************************************************************)
(* What crosses the boundary of the call registry: the requests that the   *)
(* C entry points of src/call/wiltoncall.cpp hand to wiltoncall_registry   *)
(* and the responses it gives.  A callback (context pointer and function   *)
(* pointer) is one member of Funs, a call name one member of Names, and a  *)
(* thread is the string its std::thread::id prints as.                     *)
(***************************************************************************)
EXTENDS Naturals, FiniteSets

CONSTANTS
    Threads,      \* strings that std::this_thread::get_id() is printed as
    Names,        \* call names: non-empty, at most 65535 bytes
    Funs,         \* callbacks: a context pointer with a function pointer
    NoFun,        \* stands for the absence of an entry in the map
    MaxEntries    \* max_reg_entries, 1 << 16 in the program

ASSUME CallAssumption ==
    /\ NoFun \notin Funs
    /\ MaxEntries \in Nat

(***************************************************************************)
(* Requests.  "invalid" is a call that the parameter checks of its own     *)
(* entry point refuse: a null pointer, a length out of range, an empty or  *)
(* repeated list of capabilities.                                          *)
(***************************************************************************)
ValidRequests ==
         [op : {"put"}, name : Names, fun : Funs]
    \cup [op : {"get", "remove"}, name : Names]
    \cup [op : {"list"}]
    \cup [op : {"set_thread_caps"}, caps : (SUBSET Names) \ {{}}]

Invalid == [op |-> "invalid"]
NoRequest == [op |-> "none"]

Requests == ValidRequests \cup {Invalid, NoRequest}

(***************************************************************************)
(* Responses.  An error is the text of the exception, reduced to what the  *)
(* text says went wrong.                                                   *)
(***************************************************************************)
Reasons == {"invalid_parameter", "size_exceeded", "duplicate_name",
            "unknown_name", "capabilities_error", "capabilities_already_set"}

Ok == [kind |-> "ok"]
NoResponse == [kind |-> "none"]
Entry(f) == [kind |-> "entry", fun |-> f]
NameList(S) == [kind |-> "names", names |-> S]
Error(why) == [kind |-> "error", why |-> why]

Responses ==
         {Ok, NoResponse}
    \cup [kind : {"entry"}, fun : Funs]
    \cup [kind : {"names"}, names : SUBSET Names]
    \cup [kind : {"error"}, why : Reasons]

(***************************************************************************)
(* The std::map is a function that is NoFun where there is no entry; the   *)
(* per-thread map is {} where a thread has no entry, which no entry equals *)
(* because an empty list of capabilities is an invalid parameter.          *)
(***************************************************************************)
Registered(m) == {n \in Names : m[n] # NoFun}

Full(m) == Cardinality(Registered(m)) >= MaxEntries

Permits(caps, n) == caps = {} \/ n \in caps
=============================================================================
