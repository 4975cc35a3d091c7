----------------------------- MODULE CallBuffers -----------------------------
(***************************************************************************)
(* Who owns the buffers that cross the C interface.  Functions return an   *)
(* error or a result in memory from wilton_alloc, which whoever receives   *)
(* it has to free with wilton_free.  Calls nest on the stack of a thread:  *)
(* wiltoncall runs a callback, which is a C function of a module           *)
(* ("foreign") or a C++ function wrapped by register_wiltoncall ("span");  *)
(* wilton_dyload runs the initializer of a library.  All three call the    *)
(* interface again.  A span function reads its parameters from JSON first. *)
(* Allocation does not fail.                                               *)
(***************************************************************************)
EXTENDS SequencesExt, Naturals

CONSTANTS
    Buffers, Null,
    MaxDepth        \* bound: calls nested on the stack

ASSUME BufferAssumption == Null \notin Buffers /\ MaxDepth \in Nat

VARIABLES
    heap,       \* the buffers that are allocated
    stack,      \* the functions in progress, innermost last
    ret,        \* what the last function has returned to the innermost
    json,       \* the parameters the innermost function is reading
    odd         \* history: results that came with an error or a bad length

vars == <<heap, stack, ret, json, odd>>

Functions == {"wiltoncall", "runscript", "dyload", "span", "foreign", "initializer"}

\* For each reader of parameters, the fields it knows.
Fields ==
    [dyload |-> {"name", "directory"},
     script |-> {"esmodule", "module", "func", "args", "engine"}]

Readers == DOMAIN Fields

TypeOK ==
    /\ heap \subseteq Buffers
    /\ stack \in Seq(Functions)
    /\ ret \in [back : BOOLEAN, err : Buffers \cup {Null}, out : Buffers \cup {Null},
                valid : BOOLEAN]
    /\ json.reader \in Readers
    /\ json.fields \subseteq Fields[json.reader]
    /\ json.state \in {"none", "loop", "accepted", "refused"}
    /\ odd \subseteq Buffers

Answer(e, o, v) == [back |-> TRUE, err |-> e, out |-> o, valid |-> v]

NoAnswer == [back |-> FALSE, err |-> Null, out |-> Null, valid |-> TRUE]

NoJson == [reader |-> "dyload", fields |-> {}, state |-> "none"]

Init ==
    /\ heap = {}
    /\ stack = <<>>
    /\ ret = NoAnswer
    /\ json = NoJson
    /\ odd = {}

-----------------------------------------------------------------------------
Innermost(f) == stack # <<>> /\ Last(stack) = f

Running(f) == Innermost(f) /\ ~ret.back

Resumed(f) == Innermost(f) /\ ret.back

Push(f) ==
    /\ Len(stack) < MaxDepth
    /\ stack' = Append(stack, f)
    /\ UNCHANGED <<heap, ret, odd>>

\* A function returns b, after it has freed what is in freed: throw_wilton_error
\* frees the error it has received, and the catch block copies the new text.
ReturnError(freed) ==
    /\ \E b \in Buffers \ (heap \ freed) :
           /\ heap' = (heap \ freed) \cup {b}
           /\ ret' = Answer(b, Null, TRUE)
    /\ stack' = Front(stack)
    /\ json' = NoJson
    /\ UNCHANGED odd

\* What has been received is returned to the caller.
PassOn ==
    /\ stack' = Front(stack)
    /\ UNCHANGED <<heap, ret, json, odd>>

\* What has been received is freed and the function goes on.
FreeReceived ==
    /\ heap' = heap \ {ret.err, ret.out}
    /\ ret' = NoAnswer
    /\ UNCHANGED <<stack, json, odd>>

\* wilton_dyload runs the initializer with its mutex held, which a second call on
\* the same stack would wait for.
CanDyload == \A i \in 1..Len(stack) : stack[i] # "dyload"

\* Code outside of the repository, at the bottom of the stack, in a callback or in
\* the initializer of a library.
ForeignCall ==
    /\ (stack = <<>> /\ ~ret.back) \/ Running("foreign") \/ Running("initializer")
    /\ \/ \E f \in {"wiltoncall", "runscript"} : Push(f)
       \/ CanDyload /\ Push("dyload")
    /\ UNCHANGED json

ForeignReceive ==
    /\ (stack = <<>> /\ ret.back) \/ Resumed("foreign") \/ Resumed("initializer")
    /\ FreeReceived

\* A C callback answers as it likes: an error, a result, both or none, and a
\* length that may be negative.  Bound: it is not odd while odd ones are lost.
ForeignReturn ==
    /\ Running("foreign")
    /\ \E e, o \in (Buffers \ heap) \cup {Null}, v \in BOOLEAN :
           /\ e = o => e = Null
           /\ o = Null => v
           /\ ret' = Answer(e, o, v)
           /\ heap' = heap \cup ({e, o} \ {Null})
           /\ odd' = odd \cup (IF e # Null \/ ~v THEN {o} \ {Null} ELSE {})
           /\ odd' # odd => odd = {}
    /\ stack' = Front(stack)
    /\ UNCHANGED json

\* wiltoncall_runscript
RunscriptCall ==
    /\ Running("runscript")
    /\ Push("wiltoncall")
    /\ UNCHANGED json

\* Variant: the error that has been freed is returned.
RunscriptReturnFreed ==
    /\ Resumed("runscript")
    /\ heap' = heap \ {ret.err}
    /\ stack' = Front(stack)
    /\ UNCHANGED <<ret, json, odd>>

\* Variant: the error is thrown without throw_wilton_error.
RunscriptReturnThrown ==
    /\ Resumed("runscript")
    /\ \/ ret.err # Null /\ ReturnError({})
       \/ ret.err = Null /\ PassOn

RunscriptReturn ==
    /\ Resumed("runscript")
    /\ \/ ret.err # Null /\ ReturnError({ret.err})
       \/ ret.err = Null /\ PassOn

\* wiltoncall: the name is found and the callback is invoked.
Invoke ==
    /\ Running("wiltoncall")
    /\ \/ Push("foreign") /\ UNCHANGED json
       \/ /\ Push("span")
          /\ \E r \in Readers : json' = [NoJson EXCEPT !.reader = r, !.state = "loop"]

\* Parameters are refused, the name is not registered or not allowed, the library
\* is not found.
EntryError ==
    /\ Running("wiltoncall") \/ Running("runscript") \/ Running("dyload")
    /\ ReturnError({})

\* Variant: the result is assigned before the error is looked at.
CallbackReturnEarly ==
    /\ Resumed("wiltoncall")
    /\ ret.valid
    /\ PassOn

CallbackReturn ==
    /\ Resumed("wiltoncall")
    /\ \/ ret.err # Null /\ ReturnError({ret.err})
       \/ ret.err = Null /\ ~ret.valid /\ ReturnError({})
       \/ ret.err = Null /\ ret.valid /\ PassOn

\* wilton_dyload finds the name among those it remembers.
DyloadKnown ==
    /\ Running("dyload")
    /\ ret' = Answer(Null, Null, TRUE)
    /\ stack' = Front(stack)
    /\ UNCHANGED <<heap, json, odd>>

\* It has loaded the library.
RunInitializer ==
    /\ Running("dyload")
    /\ Push("initializer")
    /\ UNCHANGED json

\* An initializer returns an error or none.
InitializerReturn ==
    /\ Running("initializer")
    /\ \E e \in (Buffers \ heap) \cup {Null} :
           /\ ret' = Answer(e, Null, TRUE)
           /\ heap' = heap \cup ({e} \ {Null})
    /\ stack' = Front(stack)
    /\ UNCHANGED <<json, odd>>

DyloadReturn ==
    /\ Resumed("dyload")
    /\ \/ ret.err # Null /\ ReturnError({ret.err})
       \/ ret.err = Null /\ PassOn

-----------------------------------------------------------------------------
(***************************************************************************)
(* Reading parameters: dyload_shared_library, and check_json_callback_script*)
(* for the modules that take callbacks.  The loop takes the fields in the  *)
(* order of the text; a field that is unknown or not of its type throws.   *)
(***************************************************************************)
Reads(r) == Running("span") /\ json.state = "loop" /\ json.reader = r

\* Variant: a field that is not known is taken like the others.
ReadFieldUnknown(r) ==
    /\ Reads(r)
    /\ \E f \in (UNION {Fields[q] : q \in Readers}) \ json.fields :
           json' = [json EXCEPT !.fields = @ \cup {f}]
    /\ UNCHANGED <<heap, stack, ret, odd>>

ReadField(r) ==
    /\ Reads(r)
    /\ \/ \E f \in Fields[r] \ json.fields : json' = [json EXCEPT !.fields = @ \cup {f}]
       \/ json' = [json EXCEPT !.state = "refused"]
    /\ UNCHANGED <<heap, stack, ret, odd>>

ReadDyloadEnd ==
    /\ Reads("dyload")
    /\ json' = [json EXCEPT !.state = IF "name" \in json.fields THEN "accepted" ELSE "refused"]
    /\ UNCHANGED <<heap, stack, ret, odd>>

ReadScriptEnd ==
    /\ Reads("script")
    /\ LET has(f) == f \in json.fields
           clash == has("esmodule") /\ (has("func") \/ has("engine"))
       IN  json' = [json EXCEPT !.state =
                       IF clash \/ ~(has("module") \/ has("esmodule")) THEN "refused" ELSE "accepted"]
    /\ UNCHANGED <<heap, stack, ret, odd>>

-----------------------------------------------------------------------------
\* A span function that has its parameters; cb_fun hands on what it returns.
SpanRuns == Running("span") /\ json.state \in {"none", "accepted"}

\* make_null_buffer, or one of the functions that make a buffer
SpanReturn ==
    /\ SpanRuns
    /\ \E o \in (Buffers \ heap) \cup {Null} :
           /\ ret' = Answer(Null, o, TRUE)
           /\ heap' = heap \cup ({o} \ {Null})
    /\ stack' = Front(stack)
    /\ json' = NoJson
    /\ UNCHANGED odd

\* The function throws, or its parameters were refused; cb_fun catches.
SpanThrow ==
    /\ SpanRuns \/ (Running("span") /\ json.state = "refused")
    /\ ReturnError({})

\* wilton_config, wiltoncall_list, wilton_load_resource and others that run no
\* foreign code: an error, a result or neither.
LeafCall ==
    /\ SpanRuns
    /\ json' = NoJson
    /\ \E b \in (Buffers \ heap) \cup {Null} :
           /\ ret' \in {Answer(b, Null, TRUE), Answer(Null, b, TRUE)}
           /\ heap' = heap \cup ({b} \ {Null})
    /\ UNCHANGED <<stack, odd>>

SpanCall ==
    /\ SpanRuns
    /\ Push("wiltoncall") \/ (CanDyload /\ Push("dyload"))
    /\ json' = NoJson

\* throw_wilton_error, caught by cb_fun.
SpanRethrow ==
    /\ Resumed("span")
    /\ ret.err # Null
    /\ ReturnError({ret.err})

\* log: an error of the logger is freed and forgotten.  load_wilton_config and
\* load_init_code free the result once it is copied.
SpanFree ==
    /\ Resumed("span")
    /\ FreeReceived

\* wrap_wilton_buffer: the result becomes that of the function.
SpanWrap ==
    /\ Resumed("span")
    /\ ret.err = Null
    /\ PassOn

Next ==
    \/ ForeignCall \/ ForeignReceive \/ ForeignReturn
    \/ RunscriptCall \/ RunscriptReturn
    \/ Invoke \/ EntryError \/ CallbackReturn
    \/ DyloadKnown \/ RunInitializer \/ InitializerReturn \/ DyloadReturn
    \/ (\E r \in Readers : ReadField(r)) \/ ReadDyloadEnd \/ ReadScriptEnd
    \/ SpanReturn \/ SpanThrow \/ LeafCall \/ SpanCall \/ SpanRethrow \/ SpanFree \/ SpanWrap

Spec == Init /\ [][Next]_vars

-----------------------------------------------------------------------------
Received == {ret.err, ret.out} \ {Null}

\* What a function receives exists: it has been freed by nobody further in, and
\* so is freed once, however deep the calls that failed.
ReceivedExists == Received \subseteq heap

\* No buffer is left behind on any path of any function, apart from a result that
\* a C callback returns beside an error or with a length that wiltoncall refuses,
\* which nobody frees.
NothingLost == heap \subseteq Received \cup odd

\* Whatever a callback answers, the callers of wiltoncall and wiltoncall_runscript
\* receive an error or a result and never both, with a length that is valid.
OneAnswer ==
    ret.back /\ ~Innermost("wiltoncall") =>
        /\ ret.err = Null \/ ret.out = Null
        /\ ret.valid
=============================================================================
