-------------------------- MODULE CallBuffersProofs --------------------------
(***************************************************************************)
(* Proofs about CallBuffers, for any number of buffers and calls nested to *)
(* any depth.  What a function receives depends on who returns to it: a C  *)
(* callback, which answers as it likes, returns to wiltoncall only, and    *)
(* that passes on what is in order and nothing else.                       *)
(***************************************************************************)
EXTENDS CallBuffers, SequenceTheorems, TLAPS

-----------------------------------------------------------------------------
(* The stack.                                                              *)

\* A C callback is run by wiltoncall.
CallbacksBelow ==
    \A i \in 1..Len(stack) :
        stack[i] = "foreign" => i > 1 /\ stack[i - 1] = "wiltoncall"

StackInv == stack \in Seq(Functions) /\ CallbacksBelow

\* What a call does to the stack.
LEMMA Pushed ==
    ASSUME NEW s \in Seq(Functions), NEW f \in Functions
    PROVE  /\ Append(s, f) \in Seq(Functions)
           /\ Len(Append(s, f)) = Len(s) + 1
           /\ Append(s, f) # <<>> /\ Last(Append(s, f)) = f
           /\ Append(s, f)[Len(s) + 1] = f
           /\ \A i \in 1..Len(s) : Append(s, f)[i] = s[i]
  BY DEF Last

\* What a return does: the caller becomes the innermost function.
LEMMA Popped ==
    ASSUME NEW s \in Seq(Functions), s # <<>>
    PROVE  /\ Front(s) \in Seq(Functions)
           /\ Len(Front(s)) = Len(s) - 1
           /\ \A i \in 1..Len(Front(s)) : i \in 1..Len(s) /\ Front(s)[i] = s[i]
           /\ Len(s) > 1 => Front(s) # <<>> /\ Last(Front(s)) = s[Len(s) - 1]
<1>1. Len(s) \in Nat \ {0}
  BY EmptySeq
<1> DEFINE n == Len(s) - 1
<1>2. n \in Nat /\ \A i \in 1..n : s[i] \in Functions
  BY <1>1
<1> HIDE DEF n
<1>3. /\ SubSeq(s, 1, n) \in Seq(Functions) /\ Len(SubSeq(s, 1, n)) = n
      /\ \A i \in 1..n : SubSeq(s, 1, n)[i] = s[i]
  BY <1>2, SubSeqProperties
<1>4. Front(s) = SubSeq(s, 1, n)
  BY DEF Front, n
<1>5. Front(s) \in Seq(Functions) /\ Len(Front(s)) = n /\ \A i \in 1..n : Front(s)[i] = s[i]
  BY <1>3, <1>4
<1>6. n > 0 => Front(s) # <<>> /\ Last(Front(s)) = s[n]
  BY <1>2, <1>5, EmptySeq DEF Last
<1> QED
  BY <1>1, <1>2, <1>5, <1>6 DEF n

\* The caller of a C callback is wiltoncall.
LEMMA CallerOfForeign ==
    ASSUME StackInv, Innermost("foreign")
    PROVE  Front(stack) # <<>> /\ Last(Front(stack)) = "wiltoncall"
<1>1. stack # <<>> /\ stack[Len(stack)] = "foreign" /\ stack \in Seq(Functions)
  BY DEF Innermost, Last, StackInv
<1>2. Len(stack) \in 1..Len(stack)
  BY <1>1, EmptySeq
<1>3. Len(stack) > 1 /\ stack[Len(stack) - 1] = "wiltoncall"
  BY <1>1, <1>2 DEF StackInv, CallbacksBelow
<1> QED
  BY <1>1, <1>3, Popped

\* A function calls another; only wiltoncall runs C callbacks.
LEMMA PushStack ==
    ASSUME StackInv, NEW f \in Functions, stack' = Append(stack, f),
           f = "foreign" => Innermost("wiltoncall")
    PROVE  StackInv' /\ Innermost(f)'
<1>1. stack' \in Seq(Functions) /\ Len(stack') = Len(stack) + 1 /\ Len(stack) \in Nat
  BY Pushed DEF StackInv
<1>2. stack' # <<>> /\ Last(stack') = f /\ stack'[Len(stack) + 1] = f
  BY Pushed DEF StackInv
<1>3. \A i \in 1..Len(stack) : stack'[i] = stack[i]
  BY Pushed DEF StackInv
<1>4. f = "foreign" => Len(stack) > 0 /\ stack[Len(stack)] = "wiltoncall"
  BY <1>1, EmptySeq DEF Innermost, Last, StackInv
<1>5. CallbacksBelow'
  <2> SUFFICES ASSUME NEW i \in 1..(Len(stack) + 1), stack'[i] = "foreign"
               PROVE  i > 1 /\ stack'[i - 1] = "wiltoncall"
    BY <1>1 DEF CallbacksBelow
  <2>1. CASE i = Len(stack) + 1
    BY <1>1, <1>2, <1>3, <1>4, <2>1
  <2>2. CASE i \in 1..Len(stack)
    <3>1. i > 1 /\ stack[i - 1] = "wiltoncall" /\ i - 1 \in 1..Len(stack)
      BY <1>1, <1>3, <2>2 DEF StackInv, CallbacksBelow
    <3> QED
      BY <1>3, <3>1
  <2> QED
    BY <1>1, <2>1, <2>2
<1> QED
  BY <1>1, <1>2, <1>5 DEF StackInv, Innermost

\* A function returns.
LEMMA PopStack ==
    ASSUME StackInv, stack # <<>>, stack' = Front(stack)
    PROVE  StackInv'
<1>1. /\ stack' \in Seq(Functions) /\ Len(stack') = Len(stack) - 1 /\ Len(stack) \in Nat
      /\ \A i \in 1..Len(stack') : i \in 1..Len(stack) /\ stack'[i] = stack[i]
  BY Popped DEF StackInv
<1>2. CallbacksBelow'
  <2> SUFFICES ASSUME NEW i \in 1..Len(stack'), stack'[i] = "foreign"
               PROVE  i > 1 /\ stack'[i - 1] = "wiltoncall"
    BY DEF CallbacksBelow
  <2>1. i \in 1..Len(stack) /\ i > 1 /\ stack[i - 1] = "wiltoncall"
    BY <1>1 DEF StackInv, CallbacksBelow
  <2> QED
    BY <1>1, <2>1
<1> QED
  BY <1>1, <1>2 DEF StackInv

-----------------------------------------------------------------------------
(* The buffers.                                                            *)

\* Nothing is received before the function called has returned, and a result
\* beside an error or with a bad length is one that has been noted.
OddIsNoted ==
    /\ ~ret.back => Received = {}
    /\ ret.out # Null /\ (ret.err # Null \/ ~ret.valid) => ret.out \in odd

\* The noted results are all still there, and nobody but wiltoncall, which
\* leaves them behind, is ever given one.
OddIsLeft ==
    /\ odd \subseteq heap
    /\ ret.err \notin odd
    /\ ret.out \in odd => Innermost("wiltoncall") /\ (ret.err # Null \/ ~ret.valid)

BufferTypeOK ==
    /\ heap \subseteq Buffers
    /\ ret \in [back : BOOLEAN, err : Buffers \cup {Null}, out : Buffers \cup {Null},
                valid : BOOLEAN]
    /\ odd \subseteq Buffers

BufferInv ==
    /\ BufferTypeOK
    /\ OddIsNoted
    /\ ReceivedExists
    /\ NothingLost
    /\ OneAnswer
    /\ OddIsLeft

\* Nothing happens to buffers between a call and a return.
LEMMA CallBufferInv ==
    ASSUME BufferInv, ~ret.back, UNCHANGED <<heap, ret, odd>>
    PROVE  BufferInv'
<1>1. ret.err = Null /\ ret.out = Null
  BY DEF BufferInv, OddIsNoted, Received
<1>2. ret.out \notin odd
  BY <1>1, BufferAssumption DEF BufferInv, BufferTypeOK
<1> QED
  BY <1>1, <1>2 DEF BufferInv, BufferTypeOK, OddIsNoted, ReceivedExists, Received, NothingLost,
                    OneAnswer, OddIsLeft

\* An error is returned.  What was received and is not freed is one of the noted.
LEMMA ErrorBufferInv ==
    ASSUME BufferInv, NEW freed \in SUBSET {ret.err}, ReturnError(freed),
           Received \ freed \subseteq odd
    PROVE  BufferInv'
<1>1. PICK b \in Buffers \ (heap \ freed) :
          heap' = (heap \ freed) \cup {b} /\ ret' = Answer(b, Null, TRUE)
  BY DEF ReturnError
<1>2. odd' = odd /\ odd \subseteq heap \ freed
  BY DEF ReturnError, BufferInv, OddIsLeft
<1>3. /\ Answer(b, Null, TRUE) \in [back : BOOLEAN, err : Buffers \cup {Null},
                                    out : Buffers \cup {Null}, valid : BOOLEAN]
      /\ Answer(b, Null, TRUE).back /\ Answer(b, Null, TRUE).err = b
      /\ Answer(b, Null, TRUE).out = Null /\ Answer(b, Null, TRUE).valid
  BY DEF Answer
<1>4. /\ ret' \in [back : BOOLEAN, err : Buffers \cup {Null}, out : Buffers \cup {Null},
                   valid : BOOLEAN]
      /\ ret'.back /\ ret'.err = b /\ ret'.out = Null /\ ret'.valid
  BY <1>1, <1>3
<1>5. b \notin odd /\ b # Null /\ Null \notin odd
  BY <1>2, BufferAssumption DEF BufferInv, BufferTypeOK
<1>6. BufferTypeOK' /\ OddIsNoted' /\ OneAnswer'
  BY <1>1, <1>2, <1>4 DEF BufferInv, BufferTypeOK, OddIsNoted, OneAnswer
<1>7. ReceivedExists' /\ OddIsLeft'
  BY <1>1, <1>2, <1>4, <1>5 DEF ReceivedExists, Received, OddIsLeft
<1>8. NothingLost'
  BY <1>1, <1>2, <1>4, <1>5 DEF BufferInv, NothingLost, Received
<1> QED
  BY <1>6, <1>7, <1>8 DEF BufferInv

\* A result, an error or neither is returned in order, by a function that has
\* received nothing: at most one buffer, and a new one.
LEMMA AnswerBufferInv ==
    ASSUME BufferInv, ~ret.back,
           NEW e \in (Buffers \ heap) \cup {Null}, NEW o \in (Buffers \ heap) \cup {Null},
           e = Null \/ o = Null, ret' = Answer(e, o, TRUE),
           heap' = heap \cup ({e, o} \ {Null}), odd' = odd
    PROVE  BufferInv'
<1>1. /\ Answer(e, o, TRUE) \in [back : BOOLEAN, err : Buffers \cup {Null},
                                 out : Buffers \cup {Null}, valid : BOOLEAN]
      /\ Answer(e, o, TRUE).back /\ Answer(e, o, TRUE).err = e
      /\ Answer(e, o, TRUE).out = o /\ Answer(e, o, TRUE).valid
  BY DEF Answer
<1>2. /\ ret' \in [back : BOOLEAN, err : Buffers \cup {Null}, out : Buffers \cup {Null},
                   valid : BOOLEAN]
      /\ ret'.back /\ ret'.err = e /\ ret'.out = o /\ ret'.valid
  BY <1>1
<1>3. Received = {} /\ odd \subseteq heap /\ Null \notin odd
  BY BufferAssumption DEF BufferInv, BufferTypeOK, OddIsNoted, OddIsLeft
<1>4. BufferTypeOK' /\ OddIsNoted' /\ OneAnswer' /\ OddIsLeft'
  BY <1>2, <1>3 DEF BufferInv, BufferTypeOK, OddIsNoted, OneAnswer, OddIsLeft
<1>5. ReceivedExists' /\ NothingLost'
  BY <1>2, <1>3 DEF BufferInv, ReceivedExists, NothingLost, Received
<1> QED
  BY <1>4, <1>5 DEF BufferInv

\* A C callback answers wiltoncall as it likes.
LEMMA ForeignBufferInv ==
    ASSUME StackInv, BufferInv, ForeignReturn
    PROVE  BufferInv'
<1>1. PICK e \in (Buffers \ heap) \cup {Null}, o \in (Buffers \ heap) \cup {Null},
           v \in BOOLEAN :
          /\ e = o => e = Null
          /\ o = Null => v
          /\ ret' = Answer(e, o, v)
          /\ heap' = heap \cup ({e, o} \ {Null})
          /\ odd' = odd \cup (IF e # Null \/ ~v THEN {o} \ {Null} ELSE {})
  BY DEF ForeignReturn
<1>2. /\ Answer(e, o, v) \in [back : BOOLEAN, err : Buffers \cup {Null},
                              out : Buffers \cup {Null}, valid : BOOLEAN]
      /\ Answer(e, o, v).back /\ Answer(e, o, v).err = e
      /\ Answer(e, o, v).out = o /\ Answer(e, o, v).valid = v
  BY DEF Answer
<1>3. /\ ret' \in [back : BOOLEAN, err : Buffers \cup {Null}, out : Buffers \cup {Null},
                   valid : BOOLEAN]
      /\ ret'.back /\ ret'.err = e /\ ret'.out = o /\ ret'.valid = v
  BY <1>1, <1>2
<1>4. Received = {} /\ odd \subseteq heap /\ Null \notin odd
  BY BufferAssumption
  DEF BufferInv, BufferTypeOK, OddIsNoted, OddIsLeft, ForeignReturn, Running
<1>5. Innermost("wiltoncall")'
  BY CallerOfForeign DEF ForeignReturn, Running, Innermost
<1>6. BufferTypeOK' /\ OddIsNoted' /\ OneAnswer'
  BY <1>1, <1>3, <1>5 DEF BufferInv, BufferTypeOK, OddIsNoted, OneAnswer
<1>7. OddIsLeft'
  BY <1>1, <1>3, <1>4, <1>5 DEF OddIsLeft
<1>8. ReceivedExists' /\ NothingLost'
  BY <1>1, <1>3, <1>4 DEF BufferInv, ReceivedExists, NothingLost, Received
<1> QED
  BY <1>6, <1>7, <1>8 DEF BufferInv

\* What is in order is passed on.
LEMMA PassBufferInv ==
    ASSUME BufferInv, PassOn, ret.back, ret.err = Null, ret.valid
    PROVE  BufferInv'
<1>1. UNCHANGED <<heap, ret, odd>>
  BY DEF PassOn
<1>2. ret.out \notin odd
  BY DEF BufferInv, OddIsLeft
<1> QED
  BY <1>1, <1>2 DEF BufferInv, BufferTypeOK, OddIsNoted, ReceivedExists, Received, NothingLost,
                    OneAnswer, OddIsLeft

\* What is received is freed, by any function but wiltoncall.
LEMMA FreeBufferInv ==
    ASSUME BufferInv, FreeReceived, ret.back, ~Innermost("wiltoncall")
    PROVE  BufferInv'
<1>1. heap' = heap \ {ret.err, ret.out} /\ ret' = NoAnswer /\ odd' = odd /\ UNCHANGED stack
  BY DEF FreeReceived
<1>2. /\ NoAnswer \in [back : BOOLEAN, err : Buffers \cup {Null},
                       out : Buffers \cup {Null}, valid : BOOLEAN]
      /\ ~NoAnswer.back /\ NoAnswer.err = Null /\ NoAnswer.out = Null /\ NoAnswer.valid
  BY DEF NoAnswer
<1>3. /\ ret' \in [back : BOOLEAN, err : Buffers \cup {Null},
                   out : Buffers \cup {Null}, valid : BOOLEAN]
      /\ ~ret'.back /\ ret'.err = Null /\ ret'.out = Null /\ ret'.valid
  BY <1>1, <1>2
<1>4. odd \cap {ret.err, ret.out} = {} /\ Null \notin odd
  BY BufferAssumption DEF BufferInv, BufferTypeOK, OddIsLeft
<1>5. BufferTypeOK' /\ OddIsNoted' /\ OneAnswer' /\ OddIsLeft'
  BY <1>1, <1>3, <1>4 DEF BufferInv, BufferTypeOK, OddIsNoted, OneAnswer, OddIsLeft, Received
<1>6. ReceivedExists' /\ NothingLost'
  BY <1>1, <1>3 DEF BufferInv, ReceivedExists, NothingLost, Received
<1> QED
  BY <1>5, <1>6 DEF BufferInv

-----------------------------------------------------------------------------
(* Every step preserves the invariant.                                     *)

\* What the functions in progress do to the stack.
LEMMA StackStep == ASSUME StackInv, [Next]_vars PROVE StackInv'
<1>1. CASE UNCHANGED stack
  BY <1>1 DEF StackInv, CallbacksBelow
<1>2. ASSUME NEW f \in Functions, Push(f), f = "foreign" => Innermost("wiltoncall")
      PROVE  StackInv'
  BY <1>2, PushStack DEF Push
<1>3. ASSUME stack # <<>>, stack' = Front(stack) PROVE StackInv'
  BY <1>3, PopStack
<1>4. CASE ForeignCall \/ RunscriptCall \/ RunInitializer \/ SpanCall
  BY <1>2, <1>4 DEF ForeignCall, RunscriptCall, RunInitializer, SpanCall, Functions
<1>5. CASE Invoke
  BY <1>2, <1>5 DEF Invoke, Functions, Running
<1>6. CASE ForeignReturn \/ RunscriptReturn \/ EntryError \/ CallbackReturn \/ SpanReturn
           \/ SpanThrow \/ LeafCall \/ SpanRethrow \/ SpanWrap
           \/ DyloadKnown \/ InitializerReturn \/ DyloadReturn
  <2>1. CASE LeafCall
    BY <1>1, <2>1 DEF LeafCall
  <2>2. CASE DyloadKnown \/ InitializerReturn \/ DyloadReturn
    BY <1>3, <2>2
    DEF DyloadKnown, InitializerReturn, DyloadReturn, ReturnError, PassOn, Running, Resumed,
        Innermost
  <2>3. CASE \/ ForeignReturn \/ RunscriptReturn \/ EntryError \/ CallbackReturn
             \/ SpanReturn \/ SpanThrow \/ SpanRethrow \/ SpanWrap
    BY <1>3, <2>3
    DEF ForeignReturn, RunscriptReturn, EntryError, CallbackReturn, SpanReturn, SpanThrow,
        SpanRethrow, SpanWrap, ReturnError, PassOn, Running, Resumed, Innermost, SpanRuns
  <2> QED
    BY <1>6, <2>1, <2>2, <2>3
<1>7. CASE ForeignReceive \/ SpanFree \/ ReadDyloadEnd \/ ReadScriptEnd
           \/ (\E r \in Readers : ReadField(r))
  BY <1>1, <1>7 DEF ForeignReceive, SpanFree, FreeReceived, ReadDyloadEnd, ReadScriptEnd, ReadField
<1>8. CASE UNCHANGED vars
  BY <1>1, <1>8 DEF vars
<1> QED
  BY <1>4, <1>5, <1>6, <1>7, <1>8 DEF Next

\* What the functions in progress do to the buffers.
LEMMA BufferStep == ASSUME StackInv, BufferInv, [Next]_vars PROVE BufferInv'
<1>1. CASE UNCHANGED <<heap, stack, ret, odd>>
  BY <1>1 DEF BufferInv, BufferTypeOK, OddIsNoted, ReceivedExists, Received, NothingLost,
              OneAnswer, OddIsLeft, Innermost
<1>2. CASE ForeignCall \/ RunscriptCall \/ RunInitializer \/ SpanCall \/ Invoke
  BY <1>2, CallBufferInv
  DEF ForeignCall, RunscriptCall, RunInitializer, SpanCall, Invoke, Push, Running, SpanRuns
<1>3. CASE ForeignReceive \/ SpanFree
  BY <1>3, FreeBufferInv DEF ForeignReceive, SpanFree, Resumed, Innermost
<1>4. CASE ForeignReturn
  BY <1>4, ForeignBufferInv
<1>5. ASSUME ReturnError({}), Received \subseteq odd PROVE BufferInv'
  BY <1>5, ErrorBufferInv
<1>6. ASSUME ReturnError({ret.err}), ret.out # Null => ret.out \in odd PROVE BufferInv'
  <2>1. Received \ {ret.err} \subseteq odd
    BY <1>6 DEF Received
  <2> QED
    BY <1>6, <2>1, ErrorBufferInv
<1>7. ~ret.back => Received = {}
  BY DEF BufferInv, OddIsNoted
<1>8. ret.err # Null \/ ~ret.valid => (ret.out # Null => ret.out \in odd)
  BY DEF BufferInv, OddIsNoted
<1>9. CASE EntryError
  BY <1>5, <1>7, <1>9 DEF EntryError, Running
<1>10. CASE CallbackReturn
  <2>1. CASE ret.err # Null /\ ReturnError({ret.err})
    BY <1>6, <1>8, <2>1
  <2>2. CASE ret.err = Null /\ ~ret.valid /\ ReturnError({})
    BY <1>5, <1>8, <2>2 DEF Received
  <2>3. CASE ret.err = Null /\ ret.valid /\ PassOn
    BY <1>10, <2>3, PassBufferInv DEF CallbackReturn, Resumed
  <2> QED
    BY <1>10, <2>1, <2>2, <2>3 DEF CallbackReturn
<1>11. CASE RunscriptReturn
  <2>1. ret.back /\ ret.valid
    BY <1>11 DEF RunscriptReturn, Resumed, Innermost, BufferInv, OneAnswer
  <2> QED
    BY <1>6, <1>8, <1>11, <2>1, PassBufferInv DEF RunscriptReturn
<1>12. CASE SpanRethrow \/ SpanWrap
  <2>1. ret.back /\ ret.valid
    BY <1>12 DEF SpanRethrow, SpanWrap, Resumed, Innermost, BufferInv, OneAnswer
  <2> QED
    BY <1>6, <1>8, <1>12, <2>1, PassBufferInv DEF SpanRethrow, SpanWrap
<1>13. CASE SpanThrow
  BY <1>5, <1>7, <1>13 DEF SpanThrow, SpanRuns, Running
<1>14. CASE SpanReturn
  <2>1. PICK o \in (Buffers \ heap) \cup {Null} :
            ret' = Answer(Null, o, TRUE) /\ heap' = heap \cup ({o} \ {Null})
    BY <1>14 DEF SpanReturn
  <2>2. heap' = heap \cup ({Null, o} \ {Null})
    BY <2>1
  <2> QED
    BY <1>14, <2>1, <2>2, AnswerBufferInv DEF SpanReturn, SpanRuns, Running
<1>15. CASE LeafCall
  <2>1. PICK b \in (Buffers \ heap) \cup {Null} :
            /\ ret' \in {Answer(b, Null, TRUE), Answer(Null, b, TRUE)}
            /\ heap' = heap \cup ({b} \ {Null})
    BY <1>15 DEF LeafCall
  <2>2. heap' = heap \cup ({Null, b} \ {Null}) /\ heap' = heap \cup ({b, Null} \ {Null})
    BY <2>1
  <2> QED
    BY <1>15, <2>1, <2>2, AnswerBufferInv DEF LeafCall, SpanRuns, Running
<1>16. CASE ReadDyloadEnd \/ ReadScriptEnd \/ (\E r \in Readers : ReadField(r))
  BY <1>1, <1>16 DEF ReadDyloadEnd, ReadScriptEnd, ReadField
<1>17. CASE UNCHANGED vars
  BY <1>1, <1>17 DEF vars
<1>18. CASE DyloadKnown \/ InitializerReturn
  <2>1. PICK e \in (Buffers \ heap) \cup {Null} :
            ret' = Answer(e, Null, TRUE) /\ heap' = heap \cup ({e} \ {Null})
    BY <1>18 DEF DyloadKnown, InitializerReturn
  <2>2. heap' = heap \cup ({e, Null} \ {Null})
    BY <2>1
  <2> QED
    BY <1>18, <2>1, <2>2, AnswerBufferInv DEF DyloadKnown, InitializerReturn, Running
<1>19. CASE DyloadReturn
  <2>1. ret.back /\ ret.valid
    BY <1>19 DEF DyloadReturn, Resumed, Innermost, BufferInv, OneAnswer
  <2> QED
    BY <1>6, <1>8, <1>19, <2>1, PassBufferInv DEF DyloadReturn
<1> QED
  BY <1>2, <1>3, <1>4, <1>9, <1>10, <1>11, <1>12, <1>13, <1>14, <1>15, <1>16, <1>17, <1>18,
     <1>19 DEF Next

-----------------------------------------------------------------------------
(* Reading parameters.                                                     *)

JsonType ==
    [reader : Readers, fields : SUBSET UNION {Fields[r] : r \in Readers},
     state : {"none", "loop", "accepted", "refused"}]

JsonInv == json \in JsonType /\ json.fields \subseteq Fields[json.reader]

\* No field has been read yet.
LEMMA NoFieldInv ==
    ASSUME json' \in JsonType, json'.fields = {} PROVE JsonInv'
  BY DEF JsonInv

\* A field is taken, or refused.
LEMMA ReadFieldInv ==
    ASSUME JsonInv, NEW r \in Readers, ReadField(r) PROVE JsonInv'
<1>1. json \in JsonType /\ json.reader = r /\ json.fields \subseteq Fields[r]
  BY DEF JsonInv, ReadField, Reads
<1>2. ASSUME NEW f \in Fields[r], json' = [json EXCEPT !.fields = json.fields \cup {f}]
      PROVE  JsonInv'
  <2>1. json'.reader = r /\ json'.fields = json.fields \cup {f} /\ json' \in JsonType
    BY <1>1, <1>2 DEF JsonType
  <2> QED
    BY <1>1, <1>2, <2>1 DEF JsonInv
<1>3. ASSUME json' = [json EXCEPT !.state = "refused"] PROVE JsonInv'
  BY <1>1, <1>3 DEF JsonInv, JsonType
<1> QED
  BY <1>2, <1>3 DEF ReadField

\* The end of the text: the fields are weighed against each other.
LEMMA ReadEndInv ==
    ASSUME JsonInv, ReadDyloadEnd \/ ReadScriptEnd PROVE JsonInv'
<1>1. ASSUME NEW s \in {"accepted", "refused"}, json' = [json EXCEPT !.state = s]
      PROVE  JsonInv'
  BY <1>1 DEF JsonInv, JsonType
<1>2. CASE ReadDyloadEnd
  BY <1>1, <1>2 DEF ReadDyloadEnd
<1>3. CASE ReadScriptEnd
  BY <1>1, <1>3 DEF ReadScriptEnd
<1> QED
  BY <1>2, <1>3

\* What the functions in progress do to the parameters that are being read.
LEMMA JsonStep == ASSUME JsonInv, [Next]_vars PROVE JsonInv'
<1>1. CASE UNCHANGED json
  BY <1>1 DEF JsonInv
<1>2. CASE json' = NoJson
  BY <1>2, NoFieldInv DEF NoJson, JsonType, Readers, Fields
<1>3. CASE Invoke
  BY <1>1, <1>3, NoFieldInv DEF Invoke, NoJson, JsonType
<1>4. CASE \/ ForeignCall \/ ForeignReceive \/ ForeignReturn \/ RunscriptCall
           \/ RunscriptReturn \/ EntryError \/ CallbackReturn
           \/ DyloadKnown \/ RunInitializer \/ InitializerReturn \/ DyloadReturn
  BY <1>1, <1>2, <1>4
  DEF ForeignCall, ForeignReceive, ForeignReturn, RunscriptCall, RunscriptReturn, EntryError,
      CallbackReturn, DyloadKnown, RunInitializer, InitializerReturn, DyloadReturn,
      FreeReceived, PassOn, ReturnError
<1>5. CASE SpanReturn \/ SpanThrow \/ LeafCall \/ SpanCall \/ SpanRethrow \/ SpanFree \/ SpanWrap
  BY <1>1, <1>2, <1>5
  DEF SpanReturn, SpanThrow, LeafCall, SpanCall, SpanRethrow, SpanFree, SpanWrap,
      FreeReceived, PassOn, ReturnError
<1>6. CASE ReadDyloadEnd \/ ReadScriptEnd \/ (\E r \in Readers : ReadField(r))
  BY <1>6, ReadFieldInv, ReadEndInv
<1>7. CASE UNCHANGED vars
  BY <1>1, <1>7 DEF vars
<1> QED
  BY <1>3, <1>4, <1>5, <1>6, <1>7 DEF Next

-----------------------------------------------------------------------------
(* What holds in every behaviour.                                          *)

Inv == StackInv /\ BufferInv /\ JsonInv

LEMMA InitInv == Init => Inv
<1> SUFFICES ASSUME Init PROVE Inv
  OBVIOUS
<1> USE DEF Init
<1>1. StackInv
  BY EmptySeq DEF StackInv, CallbacksBelow
<1>2. /\ NoAnswer \in [back : BOOLEAN, err : Buffers \cup {Null},
                       out : Buffers \cup {Null}, valid : BOOLEAN]
      /\ ~NoAnswer.back /\ NoAnswer.err = Null /\ NoAnswer.out = Null /\ NoAnswer.valid
  BY DEF NoAnswer
<1>3. BufferInv
  BY <1>2 DEF BufferInv, BufferTypeOK, OddIsNoted, ReceivedExists, Received, NothingLost,
              OneAnswer, OddIsLeft
<1>4. json \in JsonType /\ json.reader = "dyload" /\ json.fields = {}
  BY DEF NoJson, JsonType, Readers, Fields
<1>5. JsonInv
  BY <1>4 DEF JsonInv
<1> QED
  BY <1>1, <1>3, <1>5 DEF Inv

LEMMA StepInv == Inv /\ [Next]_vars => Inv'
  BY StackStep, BufferStep, JsonStep DEF Inv

\* Buffers, functions, answers and parameters keep their types.
THEOREM TypeCorrectness == Spec => []TypeOK
<1>1. Inv => TypeOK
  BY DEF Inv, StackInv, BufferInv, BufferTypeOK, JsonInv, JsonType, TypeOK
<1> QED
  BY <1>1, InitInv, StepInv, PTL DEF Spec

\* What is received exists, so that it is freed once, and nothing else is on the
\* heap but what a C callback has returned beside an error or with a length that
\* wiltoncall refuses (throw_wilton_error, wrap_wilton_buffer and cb_fun on every
\* path, to any depth).
THEOREM Freed == Spec => [](ReceivedExists /\ NothingLost)
<1>1. Inv => ReceivedExists /\ NothingLost
  BY DEF Inv, BufferInv
<1> QED
  BY <1>1, InitInv, StepInv, PTL DEF Spec

\* Those exceptions are real: such a result is still there whatever happens
\* later, and no function has it (wiltoncall.cpp:129).
THEOREM OddStays == Spec => [](odd \subseteq heap)
<1>1. Inv => odd \subseteq heap
  BY DEF Inv, BufferInv, OddIsLeft
<1> QED
  BY <1>1, InitInv, StepInv, PTL DEF Spec

\* Callers of wiltoncall and wiltoncall_runscript receive an error or a result,
\* with a valid length, whatever the callbacks answer.
THEOREM AnswersInOrder == Spec => []OneAnswer
<1>1. Inv => OneAnswer
  BY DEF Inv, BufferInv
<1> QED
  BY <1>1, InitInv, StepInv, PTL DEF Spec
=============================================================================
