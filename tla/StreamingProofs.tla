--------------------------- MODULE StreamingProofs ---------------------------
(***************************************************************************)
(* Proofs about Streaming: for any number of streams, of equal requests    *)
(* and of pieces of content, an answer whose events were not torn apart is *)
(* assembled, cached and charged whole, although all streams share one     *)
(* parser.                                                                 *)
(***************************************************************************)
EXTENDS Streaming, SequenceTheorems, TLAPS

\* The line the provider sends as number i, written out.
Line(i) ==
    IF i = 1 THEN "message_start"
    ELSE IF i <= Deltas + 1 THEN "content_block_delta"
    ELSE IF i = Deltas + 2 THEN "message_delta"
    ELSE "message_stop"

LEMMA ScriptLines ==
  /\ Len(Script) = Deltas + 3
  /\ \A i \in 1..Deltas + 3 : Script[i] = Line(i)
<1> DEFINE a == <<"message_start">>
           b == [i \in 1..Deltas |-> "content_block_delta"]
           c == <<"message_delta", "message_stop">>
<1>1. Deltas \in Nat \ {0}
  BY StreamingAssumption
<1>2. a \in Seq(Events) /\ Len(a) = 1 /\ a[1] = "message_start"
  <2>1. "message_start" \in Events
    BY DEF Events
  <2> QED
    BY <2>1
<1>3. b \in Seq(Events) /\ Len(b) = Deltas /\ \A i \in 1..Deltas : b[i] = "content_block_delta"
  <2>1. \A i \in 1..Deltas : "content_block_delta" \in Events
    BY DEF Events
  <2>2. b \in Seq(Events)
    BY <1>1, <2>1, IsASeq
  <2>3. DOMAIN b = 1..Deltas
    OBVIOUS
  <2>4. Len(b) = Deltas
    BY <1>1, <2>2, <2>3, LenProperties
  <2> QED
    BY <2>2, <2>4
<1>4. c \in Seq(Events) /\ Len(c) = 2 /\ c[1] = "message_delta" /\ c[2] = "message_stop"
  <2>1. "message_delta" \in Events /\ "message_stop" \in Events
    BY DEF Events
  <2> QED
    BY <2>1
<1>5. Script = (a \o b) \o c
  BY DEF Script
<1> HIDE DEF a, b, c
<1> DEFINE ab == a \o b
<1>6. /\ ab \in Seq(Events) /\ Len(ab) = Deltas + 1
      /\ \A i \in 1..Deltas + 1 : ab[i] = IF i <= 1 THEN a[i] ELSE b[i - 1]
  <2>1. /\ ab \in Seq(Events) /\ Len(ab) = Len(a) + Len(b)
        /\ \A i \in 1..Len(a) + Len(b) : ab[i] = IF i <= Len(a) THEN a[i] ELSE b[i - Len(a)]
    BY <1>2, <1>3, ConcatProperties
  <2>2. Len(a) + Len(b) = Deltas + 1
    BY <1>1, <1>2, <1>3
  <2> HIDE DEF ab
  <2> QED
    BY <1>2, <2>1, <2>2
<1>7. /\ Len(Script) = Deltas + 3
      /\ \A i \in 1..Deltas + 3 : Script[i] = IF i <= Deltas + 1 THEN ab[i] ELSE c[i - (Deltas + 1)]
  <2> HIDE DEF ab
  <2>1. /\ Len(ab \o c) = Len(ab) + Len(c)
        /\ \A i \in 1..Len(ab) + Len(c) : (ab \o c)[i] = IF i <= Len(ab) THEN ab[i] ELSE c[i - Len(ab)]
    BY <1>4, <1>6, ConcatProperties
  <2>2. Len(ab) + Len(c) = Deltas + 3 /\ Len(ab) = Deltas + 1
    BY <1>1, <1>4, <1>6
  <2>3. Script = ab \o c
    BY <1>5 DEF ab
  <2> QED
    BY <2>1, <2>2, <2>3
<1> HIDE DEF ab
<1>8. ASSUME NEW i \in 1..Deltas + 3
      PROVE  Script[i] = Line(i)
  <2>1. CASE i = 1
    BY <1>1, <1>2, <1>6, <1>7, <2>1 DEF Line
  <2>2. CASE i > 1 /\ i <= Deltas + 1
    <3>1. i \in 1..Deltas + 1 /\ i - 1 \in 1..Deltas /\ ~(i <= 1)
      BY <1>1, <2>2
    <3>2. Script[i] = ab[i] /\ ab[i] = b[i - 1]
      BY <1>6, <1>7, <2>2, <3>1
    <3> QED
      BY <1>3, <2>2, <3>1, <3>2 DEF Line
  <2>3. CASE i = Deltas + 2
    BY <1>1, <1>4, <1>7, <2>3 DEF Line
  <2>4. CASE i = Deltas + 3
    BY <1>1, <1>4, <1>7, <2>4 DEF Line
  <2> QED
    BY <1>1, <2>1, <2>2, <2>3, <2>4
<1> QED
  BY <1>7, <1>8

-----------------------------------------------------------------------------
(* The invariant.                                                          *)

Answers == [id : MessageIds, content : Nat, finish : BOOLEAN, usage : BOOLEAN]
Handlers == [stage : Stages, mode : Modes, next : Nat, pending : Events \union {Nothing},
             answer : Answers]

Typed ==
    /\ parser \in [event : Events \union {Nothing}, id : MessageIds]
    /\ stream \in [Streams -> Handlers]
    /\ cache \in [CacheKeys -> [by : Streams, answer : Answers] \union {Nothing}]
    /\ billed \in [Streams -> {"full", "zero", Nothing}]
    /\ mixed \in [Streams -> BOOLEAN]
    /\ cut \in [Streams -> BOOLEAN]

Whole(s) == [id |-> s, content |-> Deltas, finish |-> TRUE, usage |-> TRUE]

\* What stream s has assembled when it reads line n next.
UpTo(answer, s, n) ==
    /\ answer.id = IF n = 1 THEN Nothing ELSE s
    /\ answer.content = IF n = 1 THEN 0 ELSE IF n <= Deltas + 2 THEN n - 2 ELSE Deltas
    /\ answer.finish = (n > Deltas + 2)
    /\ answer.usage = (n > Deltas + 2)

\* A stream begins with nothing.
Begins(s) ==
    stream[s].stage = "idle" =>
        stream[s].next = 1 /\ stream[s].pending = Nothing /\ stream[s].answer = NoAnswer /\ ~cut[s]

\* After an error event no other is sent: a cut stream stays cut.
StaysCut(s) ==
    stream[s].stage = "reading" /\ cut[s] =>
        stream[s].pending = "error" \/ stream[s].next > Deltas + 3

\* Between the lines of an event of an undisturbed stream the parser has the
\* event, and the stream has assembled what it has read.
Assembled(s) ==
    Undisturbed(s) =>
        /\ stream[s].stage = "reading" =>
             /\ stream[s].next \in 1..Deltas + 3
             /\ UpTo(stream[s].answer, s, stream[s].next)
             /\ stream[s].pending # Nothing =>
                  parser.event = stream[s].pending /\ stream[s].pending = Line(stream[s].next)
        /\ stream[s].stage \in {"done", "finalize", "reset", "charge"} =>
             stream[s].answer = Whole(s)

Paid(s) == Undisturbed(s) => billed[s] \in {"full", Nothing}

Kept(k) ==
    cache[k] # Nothing /\ Undisturbed(cache[k].by) => cache[k].answer = Whole(cache[k].by)

IInv ==
    /\ Typed
    /\ \A s \in Streams : Begins(s) /\ StaysCut(s) /\ Assembled(s) /\ Paid(s)
    /\ \A k \in CacheKeys : Kept(k)

\* The answers there are, and what a data line makes of one.
LEMMA AnswerParts ==
  /\ NoAnswer \in Answers
  /\ \A s \in Streams : UpTo(NoAnswer, s, 1)
  /\ \A s \in Streams, has \in Answers : UpTo(has, s, Deltas + 3) => has = Whole(s)
<1>1. Deltas \in Nat /\ Nothing \in MessageIds
  BY StreamingAssumption DEF MessageIds
<1>2. NoAnswer \in Answers
  BY <1>1 DEF NoAnswer, Answers
<1>3. ASSUME NEW s \in Streams
      PROVE  UpTo(NoAnswer, s, 1)
  <2>1. (1 > Deltas + 2) = FALSE
    BY <1>1
  <2>2. /\ NoAnswer.id = Nothing /\ NoAnswer.content = 0
        /\ NoAnswer.finish = FALSE /\ NoAnswer.usage = FALSE
    BY DEF NoAnswer
  <2> QED
    BY <2>1, <2>2, Zenon DEF UpTo
<1>4. ASSUME NEW s \in Streams, NEW has \in Answers, UpTo(has, s, Deltas + 3)
      PROVE  has = Whole(s)
  <2>1. (Deltas + 3 > Deltas + 2) = TRUE /\ Deltas + 3 # 1 /\ ~(Deltas + 3 <= Deltas + 2)
    BY <1>1
  <2>2. has.id = s /\ has.content = Deltas /\ has.finish = TRUE /\ has.usage = TRUE
    BY <1>4, <2>1, Zenon DEF UpTo
  <2> QED
    BY <2>2 DEF Whole, Answers
<1> QED
  BY <1>2, <1>3, <1>4

\* Whatever event the parser takes a line for, its chunk has the parts of an answer.
LEMMA ChunkTyped ==
  ASSUME Typed, NEW s \in Streams, NEW pending \in Events
  PROVE  /\ TransformStreamChunk(s, pending).answer \in Answers
         /\ TransformStreamChunk(s, pending).is \in {"none", "done", "chunk"}
<1>1. parser.id \in MessageIds /\ s \in MessageIds /\ "generated" \in MessageIds
  BY DEF Typed, MessageIds
<1>2. NoAnswer \in Answers
  BY AnswerParts
<1> DEFINE start == [NoAnswer EXCEPT !.id = IF pending = "message_start" THEN s ELSE "generated"]
           delta == [NoAnswer EXCEPT !.id = parser.id, !.content = 1]
           final == [NoAnswer EXCEPT !.id = parser.id, !.finish = TRUE,
                                     !.usage = (pending = "message_delta")]
<1>3. start \in Answers
  BY <1>1, <1>2 DEF Answers
<1>4. delta \in Answers
  BY <1>1, <1>2 DEF Answers
<1>5. final \in Answers
  BY <1>1, <1>2 DEF Answers
<1>6. TransformStreamChunk(s, pending) \in {Chunk(start), Chunk(delta), Chunk(final), Done, NoChunk}
  BY DEF TransformStreamChunk
<1> HIDE DEF start, delta, final
<1> QED
  BY <1>2, <1>3, <1>4, <1>5, <1>6 DEF Chunk, Done, NoChunk

\* Adding a chunk to an answer gives an answer.
LEMMA AddTyped ==
  ASSUME NEW has \in Answers, NEW chunk \in Answers
  PROVE  AddChunk(has, chunk) \in Answers
BY DEF AddChunk, Answers

\* The parser has the event the line belongs to: the line is read for what it is.
LEMMA LineRead ==
  ASSUME Typed, NEW s \in Streams, NEW n \in 1..Deltas + 3, parser.event = Line(n),
         NEW has \in Answers, UpTo(has, s, n)
  PROVE  LET chunk == TransformStreamChunk(s, Line(n))
         IN  IF n = Deltas + 3 THEN chunk.is = "done"
             ELSE chunk.is = "chunk" /\ UpTo(AddChunk(has, chunk.answer), s, n + 1)
<1> DEFINE chunk == TransformStreamChunk(s, Line(n))
<1>1. Deltas \in Nat \ {0} /\ n \in Nat /\ s # Nothing
  BY StreamingAssumption
<1>2. CASE n = 1
  <2>1. Line(n) = "message_start"
    BY <1>2 DEF Line
  <2> DEFINE fields == [NoAnswer EXCEPT !.id = s]
  <2>2. chunk = Chunk(fields)
    BY <2>1 DEF TransformStreamChunk
  <2>3. fields.id = s /\ fields.content = 0 /\ ~fields.finish /\ ~fields.usage
    BY DEF NoAnswer
  <2> HIDE DEF fields
  <2>4. chunk.is = "chunk" /\ chunk.answer = fields
    BY <2>2 DEF Chunk
  <2>5. UpTo(AddChunk(has, fields), s, n + 1)
    BY <1>1, <1>2, <2>3 DEF AddChunk, UpTo, Answers
  <2> QED
    BY <1>1, <1>2, <2>4, <2>5
<1>3. CASE n > 1 /\ n <= Deltas + 1
  <2>1. Line(n) = "content_block_delta"
    BY <1>1, <1>3 DEF Line
  <2> DEFINE fields == [NoAnswer EXCEPT !.id = parser.id, !.content = 1]
  <2>2. chunk = Chunk(fields)
    BY <2>1 DEF TransformStreamChunk
  <2>3. fields.content = 1 /\ ~fields.finish /\ ~fields.usage
    BY DEF NoAnswer
  <2> HIDE DEF fields
  <2>4. chunk.is = "chunk" /\ chunk.answer = fields
    BY <2>2 DEF Chunk
  <2>5. UpTo(AddChunk(has, fields), s, n + 1)
    BY <1>1, <1>3, <2>3 DEF AddChunk, UpTo, Answers
  <2> QED
    BY <1>1, <1>3, <2>4, <2>5
<1>4. CASE n = Deltas + 2
  <2>1. Line(n) = "message_delta"
    BY <1>1, <1>4 DEF Line
  <2> DEFINE fields == [NoAnswer EXCEPT !.id = parser.id, !.finish = TRUE,
                                        !.usage = (Line(n) = "message_delta")]
  <2>2. chunk = Chunk(fields)
    BY <2>1 DEF TransformStreamChunk
  <2>3. fields.content = 0 /\ fields.finish /\ fields.usage
    BY <2>1 DEF NoAnswer
  <2> HIDE DEF fields
  <2>4. chunk.is = "chunk" /\ chunk.answer = fields
    BY <2>2 DEF Chunk
  <2>5. UpTo(AddChunk(has, fields), s, n + 1)
    BY <1>1, <1>4, <2>3 DEF AddChunk, UpTo, Answers
  <2> QED
    BY <1>1, <1>4, <2>4, <2>5
<1>5. CASE n = Deltas + 3
  <2>1. Line(n) = "message_stop"
    BY <1>1, <1>5 DEF Line
  <2>2. chunk = Done
    BY <2>1 DEF TransformStreamChunk
  <2> QED
    BY <1>5, <2>2 DEF Done
<1> QED
  BY <1>1, <1>2, <1>3, <1>4, <1>5

\* A step of stream t that sends nothing to the parser: the other streams stay
\* as they are, and so does what is known of them.
LEMMA OneStream ==
  ASSUME IInv, Typed', NEW t \in Streams,
         parser'.event = parser.event, UNCHANGED <<mixed, cut>>,
         \A s \in Streams \ {t} : stream'[s] = stream[s] /\ billed'[s] = billed[s],
         (Begins(t) /\ StaysCut(t) /\ Assembled(t) /\ Paid(t))',
         \A k \in CacheKeys : cache'[k] = cache[k] \/ Kept(k)'
  PROVE  IInv'
<1>1. ASSUME NEW s \in Streams
      PROVE  (Begins(s) /\ StaysCut(s) /\ Assembled(s) /\ Paid(s))'
  <2>1. CASE s # t
    <3>1. stream'[s] = stream[s] /\ billed'[s] = billed[s]
      BY <2>1
    <3> QED
      BY <3>1 DEF IInv, Begins, StaysCut, Assembled, Paid, Undisturbed
  <2> QED
    BY <2>1
<1>2. ASSUME NEW k \in CacheKeys
      PROVE  Kept(k)'
  BY DEF IInv, Kept, Undisturbed
<1> QED
  BY <1>1, <1>2 DEF IInv

\* The stream alone is written.
LEMMA Written ==
  ASSUME IInv, NEW t \in Streams, NEW h \in Handlers, stream' = [stream EXCEPT ![t] = h],
         parser' \in [event : Events \union {Nothing}, id : MessageIds],
         UNCHANGED <<cache, billed, mixed, cut>>
  PROVE  /\ Typed' /\ stream'[t] = h
         /\ \A s \in Streams \ {t} : stream'[s] = stream[s] /\ billed'[s] = billed[s]
         /\ Paid(t)'
<1>1. stream' \in [Streams -> Handlers] /\ stream'[t] = h
  BY DEF IInv, Typed
<1>2. \A s \in Streams \ {t} : stream'[s] = stream[s] /\ billed'[s] = billed[s]
  BY DEF IInv, Typed
<1> QED
  BY <1>1, <1>2 DEF IInv, Typed, Paid, Undisturbed

LEMMA ArriveStep ==
  ASSUME IInv, NEW t \in Streams, Arrive(t)
  PROVE  IInv'
<1> DEFINE found == cache[KeyOf[t]]
           hit == [stream[t] EXCEPT !.stage = "hit", !.answer = found.answer]
           miss == [stream[t] EXCEPT !.stage = "reading"]
<1>1. stream[t] \in Handlers /\ stream[t].stage = "idle" /\ KeyOf[t] \in CacheKeys
  BY StreamingAssumption DEF Arrive, IInv, Typed
<1>2. UNCHANGED <<parser, cache, billed, mixed, cut>>
  BY DEF Arrive
<1>3. /\ stream[t].next = 1 /\ stream[t].pending = Nothing /\ stream[t].answer = NoAnswer
      /\ ~cut[t]
  BY <1>1 DEF IInv, Begins
<1>4. CASE stream' = [stream EXCEPT ![t] = hit] /\ found # Nothing
  <2>1. found.answer \in Answers
    BY <1>1, <1>4 DEF IInv, Typed
  <2>2. "hit" \in Stages
    BY DEF Stages
  <2>3. hit \in Handlers /\ hit.stage = "hit"
    BY <1>1, <2>1, <2>2 DEF Handlers
  <2> HIDE DEF hit
  <2>4. /\ Typed' /\ stream'[t] = hit /\ Paid(t)'
        /\ \A s \in Streams \ {t} : stream'[s] = stream[s] /\ billed'[s] = billed[s]
    BY <1>2, <1>4, <2>3, Written DEF IInv, Typed
  <2>5. (Begins(t) /\ StaysCut(t) /\ Assembled(t))'
    BY <2>3, <2>4 DEF Begins, StaysCut, Assembled
  <2> QED
    BY <1>2, <2>4, <2>5, OneStream
<1>5. CASE stream' = [stream EXCEPT ![t] = miss]
  <2>1. "reading" \in Stages
    BY DEF Stages
  <2>2. /\ miss \in Handlers /\ miss.stage = "reading" /\ miss.next = 1 /\ miss.pending = Nothing
        /\ miss.answer = NoAnswer
    BY <1>1, <1>3, <2>1 DEF Handlers
  <2> HIDE DEF miss
  <2>3. /\ Typed' /\ stream'[t] = miss /\ Paid(t)'
        /\ \A s \in Streams \ {t} : stream'[s] = stream[s] /\ billed'[s] = billed[s]
    BY <1>2, <1>5, <2>2, Written DEF IInv, Typed
  <2>4. UpTo(NoAnswer, t, 1) /\ 1 \in 1..Deltas + 3 /\ ~cut'[t]
    BY <1>2, <1>3, AnswerParts, StreamingAssumption
  <2>5. (Begins(t) /\ StaysCut(t) /\ Assembled(t))'
    BY <2>2, <2>3, <2>4 DEF Begins, StaysCut, Assembled
  <2> QED
    BY <1>2, <2>3, <2>5, OneStream
<1>6. \/ stream' = [stream EXCEPT ![t] = hit] /\ found # Nothing
      \/ stream' = [stream EXCEPT ![t] = miss]
  BY DEF Arrive
<1> QED
  BY <1>4, <1>5, <1>6

\* An event line: the only step that changes the event of the parser.
LEMMA ReadEventStep ==
  ASSUME IInv, NEW t \in Streams, NEW event \in Events, ReadEvent(t, event)
  PROVE  IInv'
<1> DEFINE h == [stream[t] EXCEPT !.pending = event]
<1>1. /\ stream[t] \in Handlers /\ stream[t].stage = "reading" /\ stream[t].pending = Nothing
      /\ stream[t].next <= Deltas + 3 /\ event \in {Script[stream[t].next], "error"}
  BY ScriptLines DEF ReadEvent, IInv, Typed
<1>2. /\ h \in Handlers /\ h.stage = "reading" /\ h.next = stream[t].next
      /\ h.answer = stream[t].answer /\ h.pending = event
  BY <1>1 DEF Handlers
<1>3. /\ stream' = [stream EXCEPT ![t] = h]
      /\ parser' = [parser EXCEPT !.event = event]
      /\ mixed' = [s \in Streams |-> mixed[s] \/ (stream[s].pending # Nothing)]
      /\ cut' = [cut EXCEPT ![t] = (event = "error")]
      /\ UNCHANGED <<cache, billed>>
  BY DEF ReadEvent
<1> HIDE DEF h
<1>4. ~cut[t]
  BY <1>1, StreamingAssumption DEF IInv, StaysCut, Handlers
<1>5. /\ parser' \in [event : Events \union {Nothing}, id : MessageIds] /\ parser'.event = event
      /\ stream' \in [Streams -> Handlers] /\ stream'[t] = h
      /\ \A s \in Streams \ {t} : stream'[s] = stream[s]
  BY <1>2, <1>3 DEF IInv, Typed
<1>6. /\ cut' \in [Streams -> BOOLEAN] /\ (cut'[t] <=> event = "error")
      /\ \A s \in Streams \ {t} : cut'[s] = cut[s]
  BY <1>3 DEF IInv, Typed
<1>7. /\ mixed' \in [Streams -> BOOLEAN]
      /\ \A s \in Streams : ~mixed'[s] => ~mixed[s] /\ stream[s].pending = Nothing
  BY <1>3 DEF IInv, Typed
<1>8. \A s \in Streams : Undisturbed(s)' => Undisturbed(s)
  BY <1>4, <1>6, <1>7 DEF Undisturbed
<1>9. Typed'
  BY <1>3, <1>5, <1>6, <1>7 DEF IInv, Typed
<1>10. ASSUME NEW s \in Streams
       PROVE  (Begins(s) /\ StaysCut(s) /\ Assembled(s) /\ Paid(s))'
  <2>1. Paid(s)'
    BY <1>3, <1>8 DEF IInv, Paid
  <2>2. CASE s # t
    <3>1. stream'[s] = stream[s] /\ cut'[s] = cut[s]
      BY <1>5, <1>6, <2>2
    <3>2. Begins(s)' /\ StaysCut(s)'
      BY <3>1 DEF IInv, Begins, StaysCut
    <3>3. Assembled(s)'
      BY <1>7, <1>8, <3>1 DEF IInv, Assembled, Undisturbed
    <3> QED
      BY <2>1, <3>2, <3>3
  <2>3. CASE s = t
    <3>1. Begins(t)' /\ StaysCut(t)'
      BY <1>2, <1>5, <1>6 DEF Begins, StaysCut
    <3>2. ASSUME Undisturbed(t)'
          PROVE  /\ stream[t].next \in 1..Deltas + 3 /\ UpTo(stream[t].answer, t, stream[t].next)
                 /\ event = Line(stream[t].next)
      <4>1. stream[t].next \in 1..Deltas + 3 /\ UpTo(stream[t].answer, t, stream[t].next)
        BY <1>1, <1>8, <3>2 DEF IInv, Assembled
      <4>2. event # "error"
        BY <1>6, <3>2 DEF Undisturbed
      <4> QED
        BY <1>1, <4>1, <4>2, ScriptLines
    <3>3. Assembled(t)'
      BY <1>2, <1>5, <3>2 DEF Assembled
    <3> QED
      BY <2>1, <2>3, <3>1, <3>3
  <2> QED
    BY <2>2, <2>3
<1>11. ASSUME NEW k \in CacheKeys
       PROVE  Kept(k)'
  <2>1. cache[k] # Nothing => cache[k].by \in Streams
    BY DEF IInv, Typed
  <2> QED
    BY <1>3, <1>8, <2>1 DEF IInv, Kept
<1> QED
  BY <1>9, <1>10, <1>11 DEF IInv

\* A data line, taken for what the parser says it is.
LEMMA ReadDataStep ==
  ASSUME IInv, NEW t \in Streams, ReadData(t)
  PROVE  IInv'
<1> DEFINE chunk == TransformStreamChunk(t, stream[t].pending)
           next == IF stream[t].pending = "error" THEN Len(Script) + 1 ELSE stream[t].next + 1
           stage == IF chunk.is = "done" THEN "done" ELSE stream[t].stage
           answer == IF chunk.is = "chunk" THEN AddChunk(stream[t].answer, chunk.answer)
                     ELSE stream[t].answer
           h == [stream[t] EXCEPT !.pending = Nothing, !.next = next, !.stage = stage,
                                  !.answer = answer]
<1>1. /\ stream[t] \in Handlers /\ stream[t].stage = "reading" /\ stream[t].pending # Nothing
      /\ stream[t].pending \in Events /\ stream[t].answer \in Answers /\ stream[t].next \in Nat
  BY DEF ReadData, IInv, Typed, Handlers
<1>2. chunk.answer \in Answers /\ chunk.is \in {"none", "done", "chunk"}
  BY <1>1, ChunkTyped DEF IInv
<1>3. /\ UNCHANGED <<cache, billed, mixed, cut>>
      /\ parser' = IF parser.event = "message_start" THEN [parser EXCEPT !.id = chunk.answer.id]
                   ELSE parser
      /\ stream' = [stream EXCEPT ![t] = h]
  BY DEF ReadData
<1> HIDE DEF chunk
<1>4. answer \in Answers
  BY <1>1, <1>2, AddTyped
<1>5. next \in Nat /\ (stream[t].pending = "error" => next = Deltas + 4)
      /\ (stream[t].pending # "error" => next = stream[t].next + 1)
  BY <1>1, ScriptLines, StreamingAssumption
<1>6. stage \in {"reading", "done"} /\ stage \in Stages
  BY <1>1 DEF Stages
<1> HIDE DEF next, stage, answer
<1>7. h \in Handlers /\ h.pending = Nothing /\ h.next = next /\ h.stage = stage /\ h.answer = answer
  BY <1>1, <1>4, <1>5, <1>6 DEF Handlers
<1> HIDE DEF h
<1>8. parser' \in [event : Events \union {Nothing}, id : MessageIds] /\ parser'.event = parser.event
  <2>1. chunk.answer.id \in MessageIds
    BY <1>2 DEF Answers
  <2> QED
    BY <1>3, <2>1 DEF IInv, Typed
<1>9. /\ Typed' /\ stream'[t] = h /\ Paid(t)'
      /\ \A s \in Streams \ {t} : stream'[s] = stream[s] /\ billed'[s] = billed[s]
  BY <1>3, <1>7, <1>8, Written
<1>10. Begins(t)'
  BY <1>6, <1>7, <1>9 DEF Begins
<1>11. StaysCut(t)'
  <2>1. ASSUME cut[t]
        PROVE  next > Deltas + 3
    <3>1. stream[t].pending = "error" \/ stream[t].next > Deltas + 3
      BY <1>1, <2>1 DEF IInv, StaysCut
    <3> QED
      BY <1>1, <1>5, <3>1, StreamingAssumption
  <2> QED
    BY <1>3, <1>7, <1>9, <2>1 DEF StaysCut
<1>12. Assembled(t)'
  <2> SUFFICES ASSUME Undisturbed(t)'
               PROVE  /\ stage = "reading" => next \in 1..Deltas + 3 /\ UpTo(answer, t, next)
                      /\ stage = "done" => answer = Whole(t)
    BY <1>6, <1>7, <1>9 DEF Assembled
  <2>1. /\ stream[t].next \in 1..Deltas + 3 /\ UpTo(stream[t].answer, t, stream[t].next)
        /\ parser.event = stream[t].pending /\ stream[t].pending = Line(stream[t].next)
    BY <1>1, <1>3 DEF IInv, Assembled, Undisturbed
  <2>2. IF stream[t].next = Deltas + 3 THEN chunk.is = "done"
        ELSE chunk.is = "chunk" /\ UpTo(AddChunk(stream[t].answer, chunk.answer), t, stream[t].next + 1)
    BY <1>1, <2>1, LineRead DEF IInv, chunk
  <2>3. next = stream[t].next + 1
    <3>1. stream[t].pending # "error"
      BY <2>1 DEF Line
    <3> QED
      BY <1>5, <3>1
  <2>4. CASE stream[t].next = Deltas + 3
    <3>1. stage = "done" /\ answer = stream[t].answer
      BY <2>2, <2>4 DEF stage, answer
    <3> QED
      BY <1>1, <2>1, <2>4, <3>1, AnswerParts
  <2>5. CASE stream[t].next # Deltas + 3
    <3>1. stage = "reading" /\ answer = AddChunk(stream[t].answer, chunk.answer)
      BY <1>1, <2>2, <2>5 DEF stage, answer
    <3>2. next \in 1..Deltas + 3
      BY <1>1, <2>1, <2>3, <2>5, StreamingAssumption
    <3> QED
      BY <2>2, <2>3, <2>5, <3>1, <3>2
  <2> QED
    BY <2>4, <2>5
<1> QED
  BY <1>3, <1>8, <1>9, <1>10, <1>11, <1>12, OneStream

\* The answer is whole when the loop is left: without a stop event that happens
\* to no undisturbed stream.
LEMMA LeaveLoopStep ==
  ASSUME IInv, NEW t \in Streams, LeaveLoop(t) \/ SendDone(t)
  PROVE  IInv'
<1> DEFINE stage == IF LeaveLoop(t) THEN "done" ELSE "finalize"
           h == [stream[t] EXCEPT !.stage = stage]
<1>1. stream[t] \in Handlers /\ stage \in Stages /\ stage \in {"done", "finalize"}
  BY DEF IInv, Typed, Stages
<1>2. stream' = [stream EXCEPT ![t] = h] /\ UNCHANGED <<parser, cache, billed, mixed, cut>>
  BY DEF LeaveLoop, SendDone
<1>3. \/ stream[t].stage = "reading" /\ stream[t].next > Deltas + 3
      \/ stream[t].stage = "done"
  BY ScriptLines DEF LeaveLoop, EndOfLines, SendDone
<1> HIDE DEF stage
<1>4. h \in Handlers /\ h.stage = stage /\ h.answer = stream[t].answer
  BY <1>1 DEF Handlers
<1> HIDE DEF h
<1>5. /\ Typed' /\ stream'[t] = h /\ Paid(t)'
      /\ \A s \in Streams \ {t} : stream'[s] = stream[s] /\ billed'[s] = billed[s]
  BY <1>2, <1>4, Written DEF IInv, Typed
<1>6. Undisturbed(t) => stream[t].answer = Whole(t)
  <2>1. ASSUME Undisturbed(t), stream[t].stage = "reading"
        PROVE  ~(stream[t].next > Deltas + 3)
    <3>1. stream[t].next \in 1..Deltas + 3
      BY <2>1 DEF IInv, Assembled
    <3> QED
      BY <3>1, StreamingAssumption
  <2> QED
    BY <1>3, <2>1 DEF IInv, Assembled
<1>7. (Begins(t) /\ StaysCut(t) /\ Assembled(t))'
  BY <1>1, <1>2, <1>4, <1>5, <1>6 DEF Begins, StaysCut, Assembled, Undisturbed
<1> QED
  BY <1>2, <1>5, <1>7, OneStream

\* What is stored and what is charged is the answer of the stream.
LEMMA FinalizeStep ==
  ASSUME IInv, NEW t \in Streams, Finalize(t)
  PROVE  IInv'
<1> DEFINE h == [stream[t] EXCEPT !.stage = "reset"]
           put == [by |-> t, answer |-> stream[t].answer]
<1>1. /\ stream[t] \in Handlers /\ stream[t].stage = "finalize" /\ KeyOf[t] \in CacheKeys
      /\ stream[t].answer \in Answers
  BY StreamingAssumption DEF Finalize, IInv, Typed, Handlers
<1>2. /\ stream' = [stream EXCEPT ![t] = h] /\ UNCHANGED <<parser, billed, mixed, cut>>
      /\ cache' = [cache EXCEPT ![KeyOf[t]] = put] \/ cache' = cache
  BY DEF Finalize
<1>3. "reset" \in Stages
  BY DEF Stages
<1>4. h \in Handlers /\ h.stage = "reset" /\ h.answer = stream[t].answer
  BY <1>1, <1>3 DEF Handlers
<1> HIDE DEF h
<1>5. /\ stream' \in [Streams -> Handlers] /\ stream'[t] = h
      /\ \A s \in Streams \ {t} : stream'[s] = stream[s] /\ billed'[s] = billed[s]
  BY <1>2, <1>4 DEF IInv, Typed
<1>6. /\ cache' \in [CacheKeys -> [by : Streams, answer : Answers] \union {Nothing}]
      /\ \A k \in CacheKeys : cache'[k] = cache[k] \/ cache'[k] = put
  <2>1. put \in [by : Streams, answer : Answers]
    BY <1>1
  <2> HIDE DEF put
  <2> QED
    BY <1>1, <1>2, <2>1 DEF IInv, Typed
<1>7. Typed'
  BY <1>2, <1>5, <1>6 DEF IInv, Typed
<1>8. Undisturbed(t) => stream[t].answer = Whole(t)
  BY <1>1 DEF IInv, Assembled
<1>9. (Begins(t) /\ StaysCut(t) /\ Assembled(t) /\ Paid(t))'
  BY <1>2, <1>4, <1>5, <1>8 DEF IInv, Begins, StaysCut, Assembled, Paid, Undisturbed
<1>10. ASSUME NEW k \in CacheKeys
       PROVE  cache'[k] = cache[k] \/ Kept(k)'
  <2>1. ASSUME cache'[k] = put
        PROVE  Kept(k)'
    BY <1>2, <1>8, <2>1 DEF Kept, Undisturbed
  <2> QED
    BY <1>6, <2>1
<1> QED
  BY <1>2, <1>5, <1>7, <1>9, <1>10, OneStream

LEMMA ResetStep ==
  ASSUME IInv, NEW t \in Streams, ResetCooldown(t)
  PROVE  IInv'
<1> DEFINE h == [stream[t] EXCEPT !.stage = "charge"]
<1>1. /\ stream[t] \in Handlers /\ stream[t].stage = "reset" /\ "charge" \in Stages
      /\ stream' = [stream EXCEPT ![t] = h] /\ UNCHANGED <<parser, cache, billed, mixed, cut>>
  BY DEF ResetCooldown, IInv, Typed, Stages
<1>2. h \in Handlers /\ h.stage = "charge" /\ h.answer = stream[t].answer
  BY <1>1 DEF Handlers
<1> HIDE DEF h
<1>3. /\ Typed' /\ stream'[t] = h /\ Paid(t)'
      /\ \A s \in Streams \ {t} : stream'[s] = stream[s] /\ billed'[s] = billed[s]
  BY <1>1, <1>2, Written DEF IInv, Typed
<1>4. (Begins(t) /\ StaysCut(t) /\ Assembled(t))'
  BY <1>1, <1>2, <1>3 DEF IInv, Begins, StaysCut, Assembled, Undisturbed
<1> QED
  BY <1>1, <1>3, <1>4, OneStream

\* A charge, with which the stream finishes or in which a command raises.
LEMMA ChargeStep ==
  ASSUME IInv, NEW t \in Streams, NEW stage \in {"finished", "failed"},
         stream[t].stage = "charge", stream' = [stream EXCEPT ![t] = Over(@, stage)],
         billed' = [billed EXCEPT ![t] = Recorded(stream[t])], UNCHANGED <<parser, cache, mixed, cut>>
  PROVE  IInv'
<1> DEFINE sum == Recorded(stream[t])
           h == Over(stream[t], stage)
<1>1. stream[t] \in Handlers /\ stream[t].stage = "charge"
  BY DEF IInv, Typed
<1>2. /\ stream' = [stream EXCEPT ![t] = h] /\ UNCHANGED <<parser, cache, mixed, cut>>
      /\ billed' = [billed EXCEPT ![t] = sum]
  BY <1>1
<1>3. NoAnswer \in Answers /\ stage \in Stages
  BY AnswerParts DEF Stages
<1>4. h \in Handlers /\ h.stage = stage
  BY <1>1, <1>3 DEF Over, Handlers
<1>5. sum \in {"full", "zero", Nothing} /\ (Undisturbed(t) => sum = "full")
  <2>1. Undisturbed(t) => stream[t].answer = Whole(t)
    BY <1>1 DEF IInv, Assembled
  <2>2. Whole(t).usage
    BY DEF Whole
  <2> QED
    BY <2>1, <2>2 DEF Recorded
<1> HIDE DEF h, sum
<1>6. /\ stream' \in [Streams -> Handlers] /\ stream'[t] = h
      /\ \A s \in Streams \ {t} : stream'[s] = stream[s]
  BY <1>2, <1>4 DEF IInv, Typed
<1>7. /\ billed' \in [Streams -> {"full", "zero", Nothing}] /\ billed'[t] = sum
      /\ \A s \in Streams \ {t} : billed'[s] = billed[s]
  BY <1>2, <1>5 DEF IInv, Typed
<1>8. Typed'
  BY <1>2, <1>6, <1>7 DEF IInv, Typed
<1>9. (Begins(t) /\ StaysCut(t) /\ Assembled(t) /\ Paid(t))'
  BY <1>2, <1>4, <1>5, <1>6, <1>7 DEF Begins, StaysCut, Assembled, Paid, Undisturbed
<1> QED
  BY <1>2, <1>6, <1>7, <1>8, <1>9, OneStream

\* A stream that fails or is left keeps nothing.
LEMMA EndStep ==
  ASSUME IInv, NEW t \in Streams,
         Fail(t) \/ Disconnect(t) \/ RedisRaises(t, FALSE) \/ RedisRaises(t, TRUE),
         UNCHANGED billed
  PROVE  IInv'
<1>1. PICK stage \in {"failed", "gone"} :
        /\ stream' = [stream EXCEPT ![t] = Over(stream[t], stage)]
        /\ UNCHANGED <<parser, cache, billed, mixed, cut>>
  BY DEF Fail, Failed, Disconnect, RedisRaises
<1> DEFINE h == Over(stream[t], stage)
<1>2. stream[t] \in Handlers /\ NoAnswer \in Answers /\ stage \in Stages
  BY AnswerParts DEF IInv, Typed, Stages
<1>3. h \in Handlers /\ h.stage = stage
  BY <1>2 DEF Over, Handlers
<1> HIDE DEF h
<1>4. /\ Typed' /\ stream'[t] = h /\ Paid(t)'
      /\ \A s \in Streams \ {t} : stream'[s] = stream[s] /\ billed'[s] = billed[s]
  BY <1>1, <1>3, Written DEF IInv, Typed, h
<1>5. (Begins(t) /\ StaysCut(t) /\ Assembled(t))'
  BY <1>3, <1>4 DEF Begins, StaysCut, Assembled
<1> QED
  BY <1>1, <1>4, <1>5, OneStream

LEMMA RaisesStep ==
  ASSUME IInv, NEW t \in Streams, NEW applied \in BOOLEAN, RedisRaises(t, applied)
  PROVE  IInv'
<1>1. CASE applied /\ stream[t].stage = "charge"
  BY <1>1, ChargeStep DEF RedisRaises, Failed
<1>2. CASE ~(applied /\ stream[t].stage = "charge")
  <2>1. UNCHANGED billed /\ (RedisRaises(t, FALSE) \/ RedisRaises(t, TRUE))
    BY <1>2 DEF RedisRaises
  <2> QED
    BY <2>1, EndStep
<1> QED
  BY <1>1, <1>2

LEMMA EntryGoesStep ==
  ASSUME IInv, NEW k \in CacheKeys, EntryGoes(k)
  PROVE  IInv'
<1>1. /\ cache' = [cache EXCEPT ![k] = Nothing]
      /\ UNCHANGED <<parser, stream, billed, mixed, cut>>
  BY DEF EntryGoes
<1>2. /\ cache' \in [CacheKeys -> [by : Streams, answer : Answers] \union {Nothing}]
      /\ \A j \in CacheKeys : cache'[j] = cache[j] \/ cache'[j] = Nothing
  BY <1>1 DEF IInv, Typed
<1>3. Typed'
  BY <1>1, <1>2 DEF IInv, Typed
<1>4. \A j \in CacheKeys : Kept(j)'
  BY <1>1, <1>2 DEF IInv, Kept, Undisturbed
<1>5. \A s \in Streams : (Begins(s) /\ StaysCut(s) /\ Assembled(s) /\ Paid(s))'
  BY <1>1 DEF IInv, Begins, StaysCut, Assembled, Paid, Undisturbed
<1> QED
  BY <1>3, <1>4, <1>5 DEF IInv

-----------------------------------------------------------------------------
(* The theorems.                                                           *)

LEMMA Invariant == Spec => []IInv
<1>1. Init => IInv
  <2> SUFFICES ASSUME Init PROVE IInv
    OBVIOUS
  <2>1. \A s \in Streams : /\ stream[s] \in Handlers /\ stream[s].stage = "idle" /\ stream[s].next = 1
                           /\ stream[s].pending = Nothing /\ stream[s].answer = NoAnswer
    <3>1. "idle" \in Stages /\ NoAnswer \in Answers
      BY AnswerParts DEF Stages
    <3>2. ASSUME NEW s \in Streams
          PROVE  \E m \in Modes : stream[s] = [stage |-> "idle", mode |-> m, next |-> 1,
                                               pending |-> Nothing, answer |-> NoAnswer]
      BY DEF Init
    <3>3. ASSUME NEW s \in Streams, NEW m \in Modes,
                 stream[s] = [stage |-> "idle", mode |-> m, next |-> 1, pending |-> Nothing,
                              answer |-> NoAnswer]
          PROVE  /\ stream[s] \in Handlers /\ stream[s].stage = "idle" /\ stream[s].next = 1
                 /\ stream[s].pending = Nothing /\ stream[s].answer = NoAnswer
      <4> HIDE DEF NoAnswer
      <4> QED
        BY <3>1, <3>3 DEF Handlers
    <3> QED
      BY <3>2, <3>3
  <2>2. stream \in [Streams -> Handlers]
    BY <2>1 DEF Init
  <2>3. /\ \A s \in Streams : ~mixed[s] /\ ~cut[s] /\ billed[s] = Nothing
        /\ \A k \in CacheKeys : cache[k] = Nothing
    BY DEF Init
  <2>4. Typed
    BY <2>2 DEF Init, Typed, MessageIds
  <2> QED
    BY <2>1, <2>3, <2>4 DEF IInv, Begins, StaysCut, Assembled, Paid, Kept
<1>2. IInv /\ [Next]_vars => IInv'
  <2> SUFFICES ASSUME IInv, [Next]_vars PROVE IInv'
    OBVIOUS
  <2>1. ASSUME NEW s \in Streams, Handle(s) \/ Disconnect(s)
        PROVE  IInv'
    <3>1. CASE Fail(s) \/ Disconnect(s)
      BY <3>1, EndStep DEF Fail, Disconnect
    <3>2. CASE Charge(s)
      BY <3>2, ChargeStep DEF Charge
    <3> QED
      BY <2>1, <3>1, <3>2, ArriveStep, ReadEventStep, ReadDataStep, LeaveLoopStep, FinalizeStep,
         ResetStep DEF Handle
  <2>2. ASSUME NEW k \in CacheKeys, EntryGoes(k)
        PROVE  IInv'
    BY <2>2, EntryGoesStep
  <2>3. CASE UNCHANGED vars
    BY <2>3 DEF vars, IInv, Typed, Begins, StaysCut, Assembled, Paid, Kept, Undisturbed
  <2> QED
    BY <2>1, <2>2, <2>3, RaisesStep DEF Next
<1> QED
  BY <1>1, <1>2, PTL DEF Spec

\* What transform_stream_chunk and the assembler make of an answer, on one
\* parser with all other streams, is cached whole and under its own id, if no
\* other event line came between the two lines of one of its events and the
\* provider did not end it with an error.
THEOREM WholeIsCached == Spec => []CachedWhole
<1>1. IInv => CachedWhole
  BY DEF IInv, Kept, CachedWhole, Whole
<1> QED
  BY <1>1, Invariant, PTL

\* Under the same condition record_spend is given the usage the provider sent.
THEOREM FullIsBilled == Spec => []BilledInFull
<1>1. IInv => BilledInFull
  BY DEF IInv, Paid, BilledInFull
<1> QED
  BY <1>1, Invariant, PTL
=============================================================================
