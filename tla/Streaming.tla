----------------------------- MODULE Streaming -----------------------------
(***************************************************************************)
(* Streams from an Anthropic deployment: stream_generator of               *)
(* routes/chat.py over the line parser of providers/anthropic_provider.py, *)
(* the StreamingCacheAssembler and the cache entry it leaves.              *)
(*                                                                         *)
(* The provider sends an event as two lines, "event:" and "data:".  The    *)
(* parser keeps the event and the id of the message on the provider        *)
(* object, of which get_provider makes one for the process: streams that   *)
(* run at once share it, and other streams read their lines in between.    *)
(* Selection, cooldown and busy counter of a stream are in Routing.        *)
(***************************************************************************)
EXTENDS Integers, Sequences

CONSTANTS
    Streams,     \* streaming requests, each handled once
    CacheKeys,
    KeyOf,       \* [Streams -> CacheKeys]: equal for equal requests
    Deltas,      \* pieces of content in a complete answer
    Modes,       \* cache control: subset of {"normal", "no_store", "no_cache"}
    Nothing

ASSUME StreamingAssumption ==
    /\ KeyOf \in [Streams -> CacheKeys]
    /\ Deltas \in Nat \ {0}
    /\ Modes \subseteq {"normal", "no_store", "no_cache"}
    /\ Nothing \notin Streams /\ Nothing # "error"

\* The events of a complete answer.  Events that carry nothing the handler
\* keeps (ping, content_block_start of a text, content_block_stop) are left out.
Script ==
    <<"message_start">> \o [i \in 1..Deltas |-> "content_block_delta"]
        \o <<"message_delta", "message_stop">>

Events == {"message_start", "content_block_delta", "message_delta", "message_stop", "error"}

-----------------------------------------------------------------------------
VARIABLES
    parser,   \* _current_event and _stream_id of the one AnthropicProvider
    stream,   \* the handlers
    cache,    \* what a cache key holds
    billed,   \* the usage that record_spend has recorded for a stream
    mixed,    \* history: another event line came between the two lines of an event
    cut       \* history: the provider ended the answer with an error event

vars == <<parser, stream, cache, billed, mixed, cut>>

Stages == {"idle", "reading", "done", "finalize", "reset", "charge",
           "finished", "failed", "gone", "hit"}
Ended == {"idle", "finished", "failed", "gone", "hit"}

MessageIds == Streams \union {"generated", Nothing}

\* What the assembler has of an answer, and what it stores.
Answer == [id : MessageIds, content : 0..Deltas, finish : BOOLEAN, usage : BOOLEAN]
NoAnswer == [id |-> Nothing, content |-> 0, finish |-> FALSE, usage |-> FALSE]

\* next: the event the provider sends next; pending: the event whose data line
\* is still to come; answer: the assembler, or what a hit is served.
Handler == [stage : Stages, mode : Modes, next : 1..Len(Script) + 1,
            pending : Events \union {Nothing}, answer : Answer]

\* A handler that is over keeps nothing of the answer.
Over(h, stage) == [h EXCEPT !.stage = stage, !.next = 1, !.pending = Nothing, !.answer = NoAnswer]

TypeOK ==
    /\ parser \in [event : Events \union {Nothing}, id : MessageIds]
    /\ stream \in [Streams -> Handler]
    /\ cache \in [CacheKeys -> [by : Streams, answer : Answer] \union {Nothing}]
    /\ billed \in [Streams -> {"full", "zero", Nothing}]
    /\ mixed \in [Streams -> BOOLEAN]
    /\ cut \in [Streams -> BOOLEAN]

Init ==
    /\ parser = [event |-> Nothing, id |-> Nothing]
    /\ stream \in [Streams -> {[stage |-> "idle", mode |-> m, next |-> 1, pending |-> Nothing,
                                answer |-> NoAnswer] : m \in Modes}]
    /\ cache = [k \in CacheKeys |-> Nothing]
    /\ billed = [s \in Streams |-> Nothing]
    /\ mixed = [s \in Streams |-> FALSE]
    /\ cut = [s \in Streams |-> FALSE]

-----------------------------------------------------------------------------
(* The parser and the assembler: synchronous code.                         *)

NoChunk == [is |-> "none", answer |-> NoAnswer]
Done == [is |-> "done", answer |-> NoAnswer]
Chunk(fields) == [is |-> "chunk", answer |-> fields]

\* Mutant: the chunk that gives the finish reason is taken for the end.
TransformStopsAtFinish(s, pending) ==
    CASE parser.event = "message_start" ->
           Chunk([NoAnswer EXCEPT !.id = IF pending = "message_start" THEN s ELSE "generated"])
      [] parser.event = "content_block_delta" /\ pending = "content_block_delta" ->
           Chunk([NoAnswer EXCEPT !.id = parser.id, !.content = 1])
      [] parser.event \in {"message_delta", "message_stop"} -> Done
      [] OTHER -> NoChunk

\* transform_stream_chunk of the data line of `pending`, which the provider of
\* stream s sent: the parser goes by the event it has seen last.
TransformStreamChunk(s, pending) ==
    CASE parser.event = "message_start" ->
           Chunk([NoAnswer EXCEPT !.id = IF pending = "message_start" THEN s ELSE "generated"])
      [] parser.event = "content_block_delta" /\ pending = "content_block_delta" ->
           Chunk([NoAnswer EXCEPT !.id = parser.id, !.content = 1])
      [] parser.event = "message_delta" ->
           Chunk([NoAnswer EXCEPT !.id = parser.id, !.finish = TRUE,
                                  !.usage = pending = "message_delta"])
      [] parser.event = "message_stop" -> Done
      [] OTHER -> NoChunk

\* Mutant: every chunk brings the id, the last one stays.
AddChunkLastId(has, chunk) ==
    [id |-> IF chunk.id = Nothing THEN has.id ELSE chunk.id,
     content |-> has.content + chunk.content,
     finish |-> has.finish \/ chunk.finish, usage |-> has.usage \/ chunk.usage]

\* StreamingCacheAssembler.add_chunk
AddChunk(has, chunk) ==
    [id |-> IF has.id = Nothing THEN chunk.id ELSE has.id,
     content |-> has.content + chunk.content,
     finish |-> has.finish \/ chunk.finish, usage |-> has.usage \/ chunk.usage]

-----------------------------------------------------------------------------
(* One stream.                                                             *)

\* The cache is asked, then the provider.  A lookup that raises is a miss.
Arrive(s) ==
    LET h == stream[s]
        found == cache[KeyOf[s]]
    IN  /\ h.stage = "idle"
        /\ \/ stream' = [stream EXCEPT ![s].stage = "reading"]
           \/ /\ h.mode # "no_cache" /\ found # Nothing
              /\ stream' = [stream EXCEPT ![s] = [h EXCEPT !.stage = "hit", !.answer = found.answer]]
        /\ UNCHANGED <<parser, cache, billed, mixed, cut>>

\* An "event:" line: the next one of the answer, or an error event.
ReadEvent(s, event) ==
    /\ stream[s].stage = "reading" /\ stream[s].pending = Nothing
    /\ stream[s].next <= Len(Script) /\ event \in {Script[stream[s].next], "error"}
    /\ parser' = [parser EXCEPT !.event = event]
    /\ stream' = [stream EXCEPT ![s].pending = event]
    /\ mixed' = [t \in Streams |-> mixed[t] \/ (stream[t].pending # Nothing)]
    /\ cut' = [cut EXCEPT ![s] = event = "error"]
    /\ UNCHANGED <<cache, billed>>

\* A "data:" line, parsed, assembled and passed on.
ReadData(s) ==
    LET h == stream[s]
        chunk == TransformStreamChunk(s, h.pending)
    IN  /\ h.stage = "reading" /\ h.pending # Nothing
        /\ parser' = IF parser.event = "message_start" THEN [parser EXCEPT !.id = chunk.answer.id]
                     ELSE parser
        /\ stream' = [stream EXCEPT ![s] =
                        [h EXCEPT !.pending = Nothing,
                                  !.next = IF h.pending = "error" THEN Len(Script) + 1 ELSE @ + 1,
                                  !.stage = IF chunk.is = "done" THEN "done" ELSE @,
                                  !.answer = IF chunk.is = "chunk" THEN AddChunk(@, chunk.answer) ELSE @]]
        /\ UNCHANGED <<cache, billed, mixed, cut>>

\* Mutant: only message_stop ends the stream.
NeverEndOfLines(h) == FALSE

EndOfLines(h) == h.pending = Nothing /\ h.next > Len(Script)

\* The provider has closed the connection; the loop is left without a break.
LeaveLoop(s) ==
    /\ stream[s].stage = "reading" /\ EndOfLines(stream[s])
    /\ stream' = [stream EXCEPT ![s].stage = "done"]
    /\ UNCHANGED <<parser, cache, billed, mixed, cut>>

Failed(h) == Over(h, "failed")

\* No deployment, ProviderError or a broken connection, before or between lines.
Fail(s) ==
    /\ stream[s].stage = "reading" /\ stream[s].next <= Len(Script)
    /\ stream' = [stream EXCEPT ![s] = Failed(@)]
    /\ UNCHANGED <<parser, cache, billed, mixed, cut>>

\* yield "data: [DONE]"
SendDone(s) ==
    /\ stream[s].stage = "done"
    /\ stream' = [stream EXCEPT ![s].stage = "finalize"]
    /\ UNCHANGED <<parser, cache, billed, mixed, cut>>

\* assembler.finalize: an error of Redis is swallowed, the entry stored or not.
Finalize(s) ==
    /\ stream[s].stage = "finalize"
    /\ \/ /\ stream[s].mode = "normal"
          /\ cache' = [cache EXCEPT ![KeyOf[s]] = [by |-> s, answer |-> stream[s].answer]]
       \/ UNCHANGED cache
    /\ stream' = [stream EXCEPT ![s].stage = "reset"]
    /\ UNCHANGED <<parser, billed, mixed, cut>>

\* reset_cooldown of the deployment; its keys are in Routing.
ResetCooldown(s) ==
    /\ stream[s].stage = "reset"
    /\ stream' = [stream EXCEPT ![s].stage = "charge"]
    /\ UNCHANGED <<parser, cache, billed, mixed, cut>>

\* Mutant: nothing is recorded for a stream without usage.
ChargeOnlyUsage(s) ==
    /\ stream[s].stage = "charge"
    /\ billed' = [billed EXCEPT ![s] = IF stream[s].answer.usage THEN "full" ELSE @]
    /\ stream' = [stream EXCEPT ![s] = Over(@, "finished")]
    /\ UNCHANGED <<parser, cache, mixed, cut>>

\* record_spend of the usage, or of nothing when no chunk had one.
Recorded(h) == IF h.answer.usage THEN "full" ELSE "zero"

Charge(s) ==
    /\ stream[s].stage = "charge"
    /\ billed' = [billed EXCEPT ![s] = Recorded(stream[s])]
    /\ stream' = [stream EXCEPT ![s] = Over(@, "finished")]
    /\ UNCHANGED <<parser, cache, mixed, cut>>

\* A command of Redis raises where nothing swallows it: the decr of the busy
\* counter, reset_cooldown, or record_spend before or after it has charged.  The
\* generator goes to its except clause; what is stored stays.
RedisRaises(s, applied) ==
    /\ stream[s].stage \in {"done", "reset", "charge"}
    /\ billed' = IF applied /\ stream[s].stage = "charge"
                 THEN [billed EXCEPT ![s] = Recorded(stream[s])] ELSE billed
    /\ stream' = [stream EXCEPT ![s] = Failed(@)]
    /\ UNCHANGED <<parser, cache, mixed, cut>>

\* The client closes its connection: the generator is cancelled where it is.
Disconnect(s) ==
    /\ stream[s].stage \in Stages \ Ended
    /\ stream' = [stream EXCEPT ![s] = Over(@, "gone")]
    /\ UNCHANGED <<parser, cache, billed, mixed, cut>>

\* The TTL of an entry, or delete_cache.
EntryGoes(k) ==
    /\ cache[k] # Nothing
    /\ cache' = [cache EXCEPT ![k] = Nothing]
    /\ UNCHANGED <<parser, stream, billed, mixed, cut>>

\* What the handler does by itself: the provider goes on sending, or its read
\* timeout makes the connection fail.
Handle(s) ==
    \/ Arrive(s)
    \/ \E event \in Events : ReadEvent(s, event)
    \/ ReadData(s)
    \/ LeaveLoop(s)
    \/ Fail(s)
    \/ SendDone(s)
    \/ Finalize(s)
    \/ ResetCooldown(s)
    \/ Charge(s)

Next ==
    \/ \E s \in Streams :
         \/ Handle(s) \/ Disconnect(s)
         \/ \E applied \in BOOLEAN : RedisRaises(s, applied)
    \/ \E k \in CacheKeys : EntryGoes(k)

Spec == Init /\ [][Next]_vars

\* The event loop runs every handler that can go on.
FairSpec == Spec /\ \A s \in Streams : WF_vars(Handle(s))

-----------------------------------------------------------------------------
(* Properties.                                                             *)

Undisturbed(s) == ~mixed[s] /\ ~cut[s]

\* What the parser keeps matters only between the two lines of one event: an
\* answer is cached whole, under its own id, however its lines were
\* interleaved with those of other streams, unless another event line came
\* right there or the provider ended it with an error event.
CachedWhole ==
    \A k \in CacheKeys :
        cache[k] # Nothing /\ Undisturbed(cache[k].by) =>
            cache[k].answer = [id |-> cache[k].by, content |-> Deltas, finish |-> TRUE, usage |-> TRUE]

\* Under the same condition what is charged is what the provider reported.
BilledInFull ==
    \A s \in Streams : billed[s] # Nothing /\ Undisturbed(s) => billed[s] = "full"

\* A stream ends whichever of its events were read as others, the stop event
\* among them: a client is never left waiting for [DONE].
StreamsEnd == \A s \in Streams : stream[s].stage = "reading" ~> stream[s].stage \in Ended

\* The entry is stored two awaits before its stream is charged.  What is stored
\* is recorded as spend in the end, unless in between the client closes the
\* connection or a command of Redis raises: the stream is then left or failed,
\* and its entry is served all the same.
CachedIsBilled ==
    \A s \in Streams :
        (\E k \in CacheKeys : cache[k] # Nothing /\ cache[k].by = s)
            ~> (billed[s] # Nothing \/ stream[s].stage \in {"gone", "failed"})

\* PRD:29 "the complete response is written to cache only after successful
\* completion": what a hit is served is a whole answer.
HitsAreWhole ==
    \A s \in Streams :
        stream[s].stage = "hit" => stream[s].answer.content = Deltas /\ stream[s].answer.finish
=============================================================================
