-------------------------- MODULE EndpointsProofs --------------------------
(***************************************************************************)
(* Proofs about Endpoints: what the order of the parts and the guardrails  *)
(* guarantee, for any number of handlers, keys, policies, teams and names. *)
(***************************************************************************)
EXTENDS Endpoints, TLAPS

-----------------------------------------------------------------------------
(* Paths.                                                                  *)

Has(path, part) == \E n \in 1..Len(path) : path[n] = part

Once(path, part) ==
    \A m, n \in 1..Len(path) : path[m] = part /\ path[n] = part => m = n

\* No second part before the first.
Precedes(first, second, path) ==
    \A n \in 1..Len(path) : path[n] = second => \E m \in 1..(n - 1) : path[m] = first

\* What the rest of a path inherits from it.
LEMMA TailOfPath ==
  ASSUME NEW path \in Seq(Parts), path # <<>>
  PROVE  /\ Head(path) \in Parts
         /\ Tail(path) \in Seq(Parts)
         /\ Len(path) = 1 <=> Tail(path) = <<>>
         /\ \A part : Has(Tail(path), part) => Has(path, part)
         /\ \A part : Once(path, part) =>
              Once(Tail(path), part) /\ (Head(path) = part => ~Has(Tail(path), part))
         /\ \A first, second :
              /\ Precedes(first, second, path)
              /\ first # second
              => /\ Head(path) # second
                 /\ Head(path) # first => Precedes(first, second, Tail(path))
<1> DEFINE rest == Tail(path)
<1>1. /\ rest \in Seq(Parts) /\ Len(path) \in Nat /\ Len(path) >= 1 /\ Len(rest) = Len(path) - 1
      /\ \A n \in 1..Len(rest) : rest[n] = path[n + 1]
      /\ Head(path) = path[1] /\ path[1] \in Parts
  OBVIOUS
<1>2. Len(path) = 1 <=> rest = <<>>
  BY <1>1
<1> HIDE DEF rest
<1>3. ASSUME NEW part, Has(rest, part) PROVE Has(path, part)
  BY <1>1, <1>3 DEF Has
<1>4. ASSUME NEW part, Once(path, part)
      PROVE  Once(rest, part) /\ (Head(path) = part => ~Has(rest, part))
  <2>1. ASSUME NEW n \in 1..Len(rest)
        PROVE  n + 1 \in 1..Len(path) /\ rest[n] = path[n + 1] /\ n + 1 # 1 /\ 1 \in 1..Len(path)
    BY <1>1
  <2>2. Once(rest, part)
    BY <1>4, <2>1 DEF Once
  <2>3. Head(path) = part => ~Has(rest, part)
    BY <1>1, <1>4, <2>1 DEF Once, Has
  <2> QED
    BY <2>2, <2>3
<1>5. ASSUME NEW first, NEW second, Precedes(first, second, path), first # second
      PROVE  /\ Head(path) # second
             /\ Head(path) # first => Precedes(first, second, rest)
  <2>1. Head(path) # second
    BY <1>1, <1>5 DEF Precedes
  <2>2. ASSUME Head(path) # first, NEW n \in 1..Len(rest), rest[n] = second
        PROVE  \E m \in 1..(n - 1) : rest[m] = first
    <3>1. n + 1 \in 1..Len(path) /\ path[n + 1] = second
      BY <1>1, <2>2
    <3>2. PICK m \in 1..n : path[m] = first
      BY <1>5, <3>1 DEF Precedes
    <3>3. m # 1
      BY <1>1, <2>2, <3>2
    <3>4. m - 1 \in 1..(n - 1) /\ rest[m - 1] = path[m]
      BY <1>1, <3>2, <3>3
    <3> QED
      BY <3>2, <3>4
  <2> QED
    BY <2>1, <2>2 DEF Precedes
<1> QED
  BY <1>1, <1>2, <1>3, <1>4, <1>5 DEF rest

\* The order of the parts, whichever endpoint and cache control.
Ordered(path) ==
    /\ path \in Seq(Parts) /\ path # <<>>
    /\ \A part \in {"pre", "call", "post"} : Once(path, part)
    /\ Precedes("call", "post", path)

LEMMA Paths ==
  ASSUME NEW e \in Endpoint, NEW c \in Control
  PROVE  /\ Ordered(Path(e, c))
         /\ Kind(e) # "embeddings" => Precedes("pre", "call", Path(e, c))
         /\ Kind(e) # "stream" => Precedes("post", "store", Path(e, c))
<1> USE DEF Ordered, Once, Precedes, Parts
<1>1. CASE e = "embeddings"
  <2>1. Path(e, c) = <<"limit", "call", "charge", "reply">> /\ Kind(e) = "embeddings"
    BY <1>1 DEF Path, Kind, Streaming
  <2> HIDE DEF Path
  <2> QED
    BY <2>1
<1>2. CASE e = "messages_stream"
  <2>1. CASE c = "no-cache"
    <3>1. Path(e, c) = <<"limit", "pre", "call", "reply", "charge">> /\ Kind(e) = "stream"
      BY <1>2, <2>1 DEF Path, MessagesStream, Kind, Streaming
    <3> QED
      BY <3>1
  <2>2. CASE c # "no-cache"
    <3>1. Path(e, c) = <<"limit", "lookup", "pre", "call", "reply", "charge">> /\ Kind(e) = "stream"
      BY <1>2, <2>2 DEF Path, MessagesStream, Kind, Streaming
    <3> QED
      BY <3>1
  <2> QED
    BY <2>1, <2>2
<1>3. CASE e = "chat_stream"
  <2>1. CASE c = "no-cache"
    <3>1. Path(e, c) = <<"limit", "pre", "call", "reply", "charge">> /\ Kind(e) = "stream"
      BY <1>3, <2>1 DEF Path, ChatStream, Kind, Streaming
    <3> QED
      BY <3>1
  <2>2. CASE c = "no-store"
    <3>1. Path(e, c) = <<"limit", "lookup", "pre", "call", "reply", "charge">> /\ Kind(e) = "stream"
      BY <1>3, <2>2 DEF Path, ChatStream, Kind, Streaming
    <3> QED
      BY <3>1
  <2>3. CASE c = ""
    <3>1. /\ Path(e, c) = <<"limit", "lookup", "pre", "call", "reply", "store", "charge">>
          /\ Kind(e) = "stream"
      BY <1>3, <2>3 DEF Path, ChatStream, Kind, Streaming
    <3> QED
      BY <3>1
  <2> QED
    BY <2>1, <2>2, <2>3 DEF Control
<1>4. CASE e \in {"chat", "messages", "responses"}
  <2>1. CASE c = "no-cache"
    <3>1. Path(e, c) = <<"limit", "pre", "call", "post", "charge", "reply">> /\ Kind(e) = "whole"
      BY <1>4, <2>1 DEF Path, Whole, Kind, Streaming
    <3> QED
      BY <3>1
  <2>2. CASE c = "no-store"
    <3>1. /\ Path(e, c) = <<"limit", "lookup", "pre", "call", "post", "charge", "reply">>
          /\ Kind(e) = "whole"
      BY <1>4, <2>2 DEF Path, Whole, Kind, Streaming
    <3> QED
      BY <3>1
  <2>3. CASE c = ""
    <3>1. /\ Path(e, c) = <<"limit", "lookup", "pre", "call", "post", "charge", "store", "reply">>
          /\ Kind(e) = "whole"
      BY <1>4, <2>3 DEF Path, Whole, Kind, Streaming
    <3> QED
      BY <3>1
  <2> QED
    BY <2>1, <2>2, <2>3 DEF Control
<1> QED
  BY <1>1, <1>2, <1>3, <1>4 DEF Endpoint, Streaming

-----------------------------------------------------------------------------
(* The inductive invariant.                                                *)

\* What ProviderSeesScreened says of one handler at its call.
SentOK(h) ==
    /\ PolicyOf[h.identity] \in RejectPersonal => ~Personal(h.sent) \/ h.blind
    /\ PolicyOf[h.identity] \in RejectInjection => h.sent # "injection"
    /\ PolicyOf[h.identity] = "pii_redact" => h.sent # "personal" \/ h.blind

Screened(answer) == answer.guarded => ~answer.personal

\* What is still to come of a path says what is behind it: before the guardrail
\* the prompt is untouched and after it fit to be sent, before the call there is
\* no answer and after it one to the handler's own request, and it is screened before
\* it is stored or, of a stream, by no guardrail at all.
HandlerOK(h, body) ==
    /\ \A part \in {"pre", "call", "post"} : Once(h.path, part)
    /\ Has(h.path, "pre") => h.sent = body
    /\ h.kind # "embeddings" => Precedes("pre", "call", h.path) \/ SentOK(h)
    /\ Has(h.path, "call") => h.answer = NoAnswer
    /\ Precedes("call", "post", h.path) \/ h.answer # NoAnswer
    /\ \/ h.kind = "stream"
       \/ Precedes("post", "store", h.path)
       \/ h.answer # NoAnswer /\ Screened(h.answer)
    /\ h.answer # NoAnswer =>
         /\ h.answer.writer = h.identity /\ h.answer.named = h.namespace
         /\ h.answer.guarded => h.kind = "whole" /\ PolicyOf[h.identity] \in RejectPersonal

\* Entries are screened, and in the space that their request meant.
EntryOK(s) ==
    cache[s] # NoAnswer =>
        /\ Screened(cache[s])
        /\ SpaceOf(cache[s].writer, cache[s].named) = s

IInv ==
    /\ TypeOK
    /\ \A r \in Requests : HandlerOK(req[r], prompt)
    /\ \A s \in Spaces : EntryOK(s)

\* A slot without a request.
LEMMA IdleHandler ==
  ASSUME NEW body
  PROVE  Idle \in Handler /\ Idle.path = <<>> /\ HandlerOK(Idle, body)
<1>1. (CHOOSE i \in Identities : TRUE) \in Identities
  BY EndpointsAssumption
<1>2. Idle \in Handler
  BY <1>1, EndpointsAssumption DEF Idle, Handler, Sent, Prompt
<1>3. /\ Idle.path = <<>> /\ Idle.kind = "whole" /\ Idle.answer = NoAnswer
  BY DEF Idle
<1>4. HandlerOK(Idle, body)
  BY <1>3 DEF HandlerOK, Once, Has, Precedes
<1> QED
  BY <1>2, <1>3, <1>4

\* A part that changes nothing but the path keeps the order, unless it is one of
\* the parts that the order is about.
LEMMA NextPart ==
  ASSUME NEW h \in Handler, NEW body, HandlerOK(h, body), h.path # <<>>,
         Head(h.path) \notin {"pre", "call", "post"}
  PROVE  /\ [h EXCEPT !.path = Tail(@)] \in Handler
         /\ HandlerOK([h EXCEPT !.path = Tail(@)], body)
<1> DEFINE g == [h EXCEPT !.path = Tail(@)]
<1>1. /\ h.path \in Seq(Parts)
      /\ g.path = Tail(h.path) /\ g.kind = h.kind /\ g.identity = h.identity /\ g.namespace = h.namespace
      /\ g.sent = h.sent /\ g.blind = h.blind /\ g.answer = h.answer
  BY DEF Handler
<1>2. g \in Handler
  BY <1>1, TailOfPath DEF Handler
<1> HIDE DEF g
<1>3. HandlerOK(g, body)
  BY <1>1, TailOfPath DEF HandlerOK, SentOK
<1> QED
  BY <1>2, <1>3 DEF g

\* The handler of one request changes.
LEMMA OneHandler ==
  ASSUME IInv, NEW r \in Requests, NEW h \in Handler, HandlerOK(h, prompt),
         req' = [req EXCEPT ![r] = h], UNCHANGED <<scope, prompt, cache>>
  PROVE  IInv'
<1>1. req' \in [Requests -> Handler] /\ TypeOK'
  BY DEF IInv, TypeOK
<1>2. \A q \in Requests : HandlerOK(req'[q], prompt)
  BY DEF IInv, TypeOK
<1>3. \A s \in Spaces : EntryOK(s)'
  BY DEF IInv, EntryOK, SpaceOf
<1> QED
  BY <1>1, <1>2, <1>3 DEF IInv

\* The handler of a request returns.
LEMMA Returns ==
  ASSUME IInv, NEW r \in Requests, Return(r), UNCHANGED <<scope, prompt, cache>>
  PROVE  IInv'
BY IdleHandler, OneHandler DEF Return

\* The handler runs on with its next part.
LEMMA Proceeds ==
  ASSUME IInv, NEW r \in Requests, NEW h, Proceed(r, h),
         [h EXCEPT !.path = Tail(@)] \in Handler,
         HandlerOK([h EXCEPT !.path = Tail(@)], prompt),
         UNCHANGED <<scope, prompt, cache>>
  PROVE  IInv'
<1> DEFINE g == [h EXCEPT !.path = Tail(@)]
<1>1. \/ req' = [req EXCEPT ![r] = Idle]
      \/ req' = [req EXCEPT ![r] = g]
  BY DEF Proceed
<1> HIDE DEF g
<1>2. g \in Handler /\ HandlerOK(g, prompt)
  BY DEF g
<1> QED
  BY <1>1, <1>2, IdleHandler, OneHandler

\* A handler at a part that the order is not about goes on or returns.
LEMMA PlainPart ==
  ASSUME IInv, NEW r \in Requests, NEW part \in Parts \ {"pre", "call", "post"}, At(r, part),
         Proceed(r, req[r]) \/ Return(r), UNCHANGED <<scope, prompt, cache>>
  PROVE  IInv'
<1>1. req[r] \in Handler /\ HandlerOK(req[r], prompt) /\ req[r].path # <<>>
  BY DEF IInv, TypeOK, At
<1>2. Head(req[r].path) \notin {"pre", "call", "post"}
  BY DEF At
<1> QED
  BY <1>1, <1>2, NextPart, Proceeds, Returns

\* A request arrives.
LEMMA ArriveStep ==
  ASSUME IInv, NEW r \in Requests, Arrive(r)
  PROVE  IInv'
<1>1. PICK e \in Endpoint, i \in Identities, c \in Control, n \in Namespaces :
        /\ req' = [req EXCEPT ![r] = [Idle EXCEPT
               !.kind = Kind(e), !.identity = i, !.namespace = n, !.sent = prompt,
               !.path = Path(e, c)]]
        /\ UNCHANGED <<scope, prompt, cache>>
  BY DEF Arrive
<1> DEFINE h == [Idle EXCEPT !.kind = Kind(e), !.identity = i, !.namespace = n,
                             !.sent = prompt, !.path = Path(e, c)]
<1>2. /\ h.kind = Kind(e) /\ h.identity = i /\ h.namespace = n /\ h.sent = prompt
      /\ h.path = Path(e, c) /\ h.answer = NoAnswer
  BY DEF Idle
<1>3. Kind(e) \in {"whole", "stream", "embeddings"}
  BY DEF Kind
<1>4. prompt \in Sent
  BY DEF IInv, TypeOK, Sent
<1>5. h \in Handler
  BY <1>3, <1>4, IdleHandler, Paths DEF Handler, Ordered
<1> HIDE DEF h
<1>6. HandlerOK(h, prompt)
  BY <1>2, <1>3, Paths DEF HandlerOK, Ordered
<1> QED
  BY <1>1, <1>5, <1>6, OneHandler DEF h

\* The pre-call guardrail.
LEMMA PreCallStep ==
  ASSUME IInv, NEW r \in Requests, PreCall(r)
  PROVE  IInv'
<1> DEFINE policy == PolicyOf[req[r].identity]
<1>1. /\ req[r] \in Handler /\ HandlerOK(req[r], prompt)
      /\ req[r].path \in Seq(Parts) /\ req[r].path # <<>> /\ Head(req[r].path) = "pre"
      /\ prompt \in Prompt
  BY DEF IInv, TypeOK, PreCall, At, Handler
<1>2. UNCHANGED <<scope, prompt, cache>>
  BY DEF PreCall
<1>3. PICK fails \in BOOLEAN :
        IF \/ ~fails /\ Detects(policy) /\ Personal(prompt)
           \/ Injection(policy) /\ prompt = "injection"
        THEN Return(r)
        ELSE Proceed(r, [req[r] EXCEPT
                 !.blind = fails,
                 !.sent = IF Redacts(policy) /\ ~fails THEN ApplyRedaction(prompt) ELSE @])
  BY DEF PreCall
<1>4. req[r].sent = prompt
  <2>1. Has(req[r].path, "pre")
    BY <1>1 DEF Has
  <2> QED
    BY <1>1, <2>1 DEF HandlerOK
<1> DEFINE sent == IF Redacts(policy) /\ ~fails THEN ApplyRedaction(prompt) ELSE prompt
           h == [req[r] EXCEPT !.blind = fails, !.sent = sent]
           g == [h EXCEPT !.path = Tail(@)]
<1>5. CASE Return(r)
  BY <1>2, <1>5, Returns
<1>6. CASE /\ fails \/ ~Detects(policy) \/ ~Personal(prompt)
           /\ ~Injection(policy) \/ prompt # "injection"
           /\ Proceed(r, h)
  <2>1. /\ g.path = Tail(req[r].path) /\ g.sent = sent /\ g.blind = fails
        /\ g.kind = req[r].kind /\ g.identity = req[r].identity /\ g.namespace = req[r].namespace /\ g.answer = req[r].answer
    BY <1>1 DEF Handler
  <2>2. sent \in Sent
    BY <1>1 DEF Sent, ApplyRedaction
  <2>3. Tail(req[r].path) \in Seq(Parts)
    BY <1>1, TailOfPath
  <2>4. g \in Handler
    <3> HIDE DEF sent
    <3> QED
      BY <1>1, <2>2, <2>3 DEF Handler
  <2>5. SentOK(g)
    <3>1. policy \in RejectPersonal => ~Personal(sent) \/ fails
      BY <1>6 DEF RejectPersonal, Detects, Presidio, Redacts
    <3>2. policy \in RejectInjection => sent # "injection"
      BY <1>6 DEF RejectInjection, Injection, Redacts
    <3>3. policy = "pii_redact" => sent # "personal" \/ fails
      BY <1>6 DEF Redacts, ApplyRedaction
    <3> QED
      BY <2>1, <3>1, <3>2, <3>3 DEF SentOK
  <2>6. HandlerOK(g, prompt)
    <3> HIDE DEF g
    <3> QED
      BY <1>1, <2>1, <2>5, TailOfPath DEF HandlerOK
  <2> QED
    BY <1>2, <1>6, <2>4, <2>6, Proceeds
<1> QED
  BY <1>3, <1>4, <1>5, <1>6

\* The call: the answer is one to the handler's own request.
LEMMA CallStep ==
  ASSUME IInv, NEW r \in Requests, Call(r)
  PROVE  IInv'
<1>1. /\ req[r] \in Handler /\ HandlerOK(req[r], prompt)
      /\ req[r].path \in Seq(Parts) /\ req[r].path # <<>> /\ Head(req[r].path) = "call"
  BY DEF IInv, TypeOK, Call, At, Handler
<1>2. UNCHANGED <<scope, prompt, cache>>
  BY DEF Call
<1>3. CASE Return(r)
  BY <1>2, <1>3, Returns
<1>4. ASSUME NEW personal \in BOOLEAN,
             Proceed(r, [req[r] EXCEPT !.blind = FALSE, !.answer =
                 [writer |-> req[r].identity, named |-> req[r].namespace, personal |-> personal,
                  guarded |-> /\ PolicyOf[req[r].identity] \in RejectPersonal
                              /\ req[r].kind = "whole"]])
      PROVE  IInv'
  <2> DEFINE guarded == /\ PolicyOf[req[r].identity] \in RejectPersonal
                        /\ req[r].kind = "whole"
             answer == [writer |-> req[r].identity, named |-> req[r].namespace,
                        personal |-> personal, guarded |-> guarded]
             h == [req[r] EXCEPT !.blind = FALSE, !.answer = answer]
             g == [h EXCEPT !.path = Tail(@)]
  <2>1. /\ answer \in Response /\ answer # NoAnswer
        /\ answer.writer = req[r].identity /\ answer.named = req[r].namespace
        /\ answer.guarded => /\ req[r].kind = "whole"
                             /\ PolicyOf[req[r].identity] \in RejectPersonal
    <3>1. guarded \in BOOLEAN
      OBVIOUS
    <3>2. answer.guarded => /\ req[r].kind = "whole"
                            /\ PolicyOf[req[r].identity] \in RejectPersonal
      OBVIOUS
    <3> HIDE DEF guarded
    <3>3. /\ answer \in Response
          /\ answer.writer = req[r].identity /\ answer.named = req[r].namespace
      BY <1>1, <3>1 DEF Response, Handler
    <3> QED
      BY <3>2, <3>3, EndpointsAssumption
  <2> HIDE DEF answer
  <2>2. /\ g.path = Tail(req[r].path) /\ g.sent = req[r].sent /\ g.blind = FALSE
        /\ g.kind = req[r].kind /\ g.identity = req[r].identity /\ g.namespace = req[r].namespace /\ g.answer = answer
    BY <1>1 DEF Handler
  <2>3. Tail(req[r].path) \in Seq(Parts)
    BY <1>1, TailOfPath
  <2>4. g \in Handler
    BY <1>1, <2>1, <2>3 DEF Handler
  <2>5. HandlerOK(g, prompt)
    <3> HIDE DEF g
    <3>1. Has(req[r].path, "call")
      BY <1>1 DEF Has
    <3>2. ~Has(g.path, "call") /\ Precedes("pre", "call", g.path)
      <4>1. ~Has(g.path, "call")
        BY <1>1, <2>2, TailOfPath DEF HandlerOK
      <4> QED
        BY <4>1 DEF Has, Precedes
    <3>3. \/ g.kind = "stream"
          \/ Precedes("post", "store", g.path)
      BY <1>1, <2>2, <3>1, TailOfPath DEF HandlerOK
    <3> QED
      BY <1>1, <2>1, <2>2, <3>2, <3>3, TailOfPath DEF HandlerOK
  <2> QED
    BY <1>2, <1>4, <2>4, <2>5, Proceeds DEF answer, guarded
<1> QED
  BY <1>3, <1>4 DEF Call

\* The post-call guardrail: the answer that passes is screened.
LEMMA PostCallStep ==
  ASSUME IInv, NEW r \in Requests, PostCall(r)
  PROVE  IInv'
<1> DEFINE policy == PolicyOf[req[r].identity]
<1>1. /\ req[r] \in Handler /\ HandlerOK(req[r], prompt)
      /\ req[r].path \in Seq(Parts) /\ req[r].path # <<>> /\ Head(req[r].path) = "post"
  BY DEF IInv, TypeOK, PostCall, At, Handler
<1>2. UNCHANGED <<scope, prompt, cache>>
  BY DEF PostCall
<1>3. PICK fails \in BOOLEAN :
        IF ~fails /\ Detects(policy) /\ req[r].answer.personal
        THEN Return(r)
        ELSE Proceed(r, [req[r] EXCEPT !.answer.guarded = @ /\ ~fails])
  BY DEF PostCall
<1>4. req[r].answer # NoAnswer /\ req[r].answer \in Response
  <2>1. ~Precedes("call", "post", req[r].path)
    BY <1>1, TailOfPath
  <2> QED
    BY <1>1, <2>1 DEF HandlerOK, Handler
<1> DEFINE answer == [req[r].answer EXCEPT !.guarded = @ /\ ~fails]
           h == [req[r] EXCEPT !.answer = answer]
           g == [h EXCEPT !.path = Tail(@)]
<1>5. CASE Return(r)
  BY <1>2, <1>5, Returns
<1>6. CASE /\ fails \/ ~Detects(policy) \/ ~req[r].answer.personal
           /\ Proceed(r, h)
  <2>1. /\ answer \in Response /\ answer # NoAnswer
        /\ answer.writer = req[r].answer.writer /\ answer.named = req[r].answer.named
        /\ answer.personal = req[r].answer.personal
        /\ answer.guarded => req[r].answer.guarded /\ ~fails
    BY <1>4, EndpointsAssumption DEF Response
  <2>2. Screened(answer)
    <3>1. answer.guarded => policy \in RejectPersonal
      BY <1>1, <1>4, <2>1 DEF HandlerOK
    <3>2. policy \in RejectPersonal => Detects(policy)
      BY DEF RejectPersonal, Detects, Presidio, Redacts
    <3> QED
      BY <1>6, <2>1, <3>1, <3>2 DEF Screened
  <2> HIDE DEF answer
  <2>3. /\ g.path = Tail(req[r].path) /\ g.sent = req[r].sent /\ g.blind = req[r].blind
        /\ g.kind = req[r].kind /\ g.identity = req[r].identity /\ g.namespace = req[r].namespace /\ g.answer = answer
    BY <1>1 DEF Handler
  <2>4. Tail(req[r].path) \in Seq(Parts)
    BY <1>1, TailOfPath
  <2>5. g \in Handler
    BY <1>1, <2>1, <2>4 DEF Handler
  <2>6. HandlerOK(g, prompt)
    <3> HIDE DEF g
    <3>1. ~Has(g.path, "call")
      BY <1>1, <1>4, <2>3, TailOfPath DEF HandlerOK
    <3>2. g.kind # "embeddings" => Precedes("pre", "call", g.path) \/ SentOK(g)
      BY <1>1, <2>3, TailOfPath DEF HandlerOK, SentOK
    <3> QED
      BY <1>1, <1>4, <2>1, <2>2, <2>3, <3>1, <3>2, TailOfPath DEF HandlerOK
  <2> QED
    BY <1>2, <1>6, <2>5, <2>6, Proceeds
<1>7. [req[r] EXCEPT !.answer.guarded = @ /\ ~fails] = h
  BY <1>1, <1>4 DEF Handler, Response
<1> QED
  BY <1>3, <1>5, <1>6, <1>7

\* Where a request may read and write is a space, and one it can name.
LEMMA SpaceIsNamed ==
  ASSUME NEW i \in Identities, NEW n \in Namespaces
  PROVE  SpaceOf(i, n) \in Spaces
BY DEF SpaceOf, Spaces

\* The answer is stored.
LEMMA StoreStep ==
  ASSUME IInv, NEW r \in Requests, Store(r)
  PROVE  IInv'
<1>1. /\ req[r] \in Handler /\ HandlerOK(req[r], prompt)
      /\ req[r].path \in Seq(Parts) /\ req[r].path # <<>> /\ Head(req[r].path) = "store"
  BY DEF IInv, TypeOK, Store, At, Handler
<1> DEFINE space == SpaceOf(req[r].identity, req[r].namespace)
           g == [req[r] EXCEPT !.path = Tail(@)]
<1>2. g \in Handler /\ HandlerOK(g, prompt)
  BY <1>1, NextPart
<1>3. /\ req' = [req EXCEPT ![r] = Idle] \/ req' = [req EXCEPT ![r] = g]
      /\ UNCHANGED <<scope, prompt>>
  BY DEF Store, Proceed
<1>4. req' \in [Requests -> Handler] /\ \A q \in Requests : HandlerOK(req'[q], prompt)
  <2>1. ASSUME NEW h \in Handler, HandlerOK(h, prompt), req' = [req EXCEPT ![r] = h]
        PROVE  req' \in [Requests -> Handler] /\ \A q \in Requests : HandlerOK(req'[q], prompt)
    BY <2>1 DEF IInv, TypeOK
  <2> HIDE DEF g
  <2> QED
    BY <1>2, <1>3, <2>1, IdleHandler
<1>5. cache' \in [Spaces -> Response \union {NoAnswer}] /\ \A s \in Spaces : EntryOK(s)'
  <2>1. CASE UNCHANGED cache
    BY <1>3, <2>1 DEF IInv, TypeOK, EntryOK, SpaceOf
  <2>2. CASE cache' = [cache EXCEPT ![space] = req[r].answer]
    <3>1. space \in Spaces
      BY <1>1, SpaceIsNamed DEF Handler
    <3>2. req[r].answer \in Response \union {NoAnswer}
      BY <1>1 DEF Handler
    <3>3. req[r].answer # NoAnswer =>
            /\ Screened(req[r].answer)
            /\ SpaceOf(req[r].answer.writer, req[r].answer.named) = space
      <4>1. ~Precedes("post", "store", req[r].path)
        BY <1>1, TailOfPath
      <4>2. ASSUME req[r].answer # NoAnswer PROVE Screened(req[r].answer)
        BY <1>1, <4>1, <4>2 DEF HandlerOK, Screened
      <4> QED
        BY <1>1, <4>2 DEF HandlerOK, Handler
    <3> HIDE DEF space
    <3>4. ASSUME NEW s \in Spaces PROVE EntryOK(s)'
      <4>1. CASE s = space
        BY <1>3, <2>2, <3>1, <3>3, <4>1 DEF IInv, TypeOK, EntryOK, SpaceOf
      <4>2. CASE s # space
        BY <1>3, <2>2, <3>1, <4>2 DEF IInv, TypeOK, EntryOK, SpaceOf
      <4> QED
        BY <4>1, <4>2
    <3> QED
      BY <2>2, <3>1, <3>2, <3>4 DEF IInv, TypeOK
  <2> QED
    BY <2>1, <2>2 DEF Store
<1> QED
  BY <1>3, <1>4, <1>5 DEF IInv, TypeOK

\* An entry goes.
LEMMA EntryGoesStep ==
  ASSUME IInv, NEW s \in Spaces, EntryGoes(s)
  PROVE  IInv'
<1>1. cache' = [cache EXCEPT ![s] = NoAnswer] /\ UNCHANGED <<scope, prompt, req>>
  BY DEF EntryGoes
<1>2. TypeOK'
  BY <1>1 DEF IInv, TypeOK
<1>3. \A q \in Spaces : EntryOK(q)'
  BY <1>1 DEF IInv, TypeOK, EntryOK, SpaceOf
<1> QED
  BY <1>1, <1>2, <1>3 DEF IInv

\* The process dies.
LEMMA CrashStep ==
  ASSUME IInv, Crash
  PROVE  IInv'
<1>1. \A r \in Requests : req'[r] = req[r] \/ req'[r] = Idle
  BY DEF Crash
<1>2. req' \in [Requests -> Handler] /\ \A r \in Requests : HandlerOK(req'[r], prompt)
  <2>1. DOMAIN req' = Requests /\ req' = [r \in Requests |-> req'[r]]
    BY DEF Crash
  <2> QED
    BY <1>1, <2>1, IdleHandler DEF IInv, TypeOK
<1>3. \A s \in Spaces : EntryOK(s)'
  BY DEF Crash, IInv, EntryOK, SpaceOf
<1> QED
  BY <1>2, <1>3 DEF Crash, IInv, TypeOK

\* The invariant holds in every reachable state.
LEMMA IInvAlways == Spec => []IInv
<1>1. Init => IInv
  <2> SUFFICES ASSUME Init PROVE IInv
    OBVIOUS
  <2>1. \A r \in Requests : req[r] = Idle
    BY DEF Init
  <2>2. TypeOK /\ \A s \in Spaces : EntryOK(s)
    BY IdleHandler DEF Init, TypeOK, EntryOK
  <2> QED
    BY <2>1, <2>2, IdleHandler DEF IInv
<1>2. IInv /\ [Next]_vars => IInv'
  <2> SUFFICES ASSUME IInv, [Next]_vars PROVE IInv'
    OBVIOUS
  <2>1. ASSUME NEW r \in Requests, Arrive(r) PROVE IInv'
    BY <2>1, ArriveStep
  <2>2. ASSUME NEW r \in Requests, Limit(r) \/ Miss(r) \/ Hit(r) \/ Charge(r) \/ Reply(r)
        PROVE  IInv'
    BY <2>2, PlainPart DEF Limit, Miss, Hit, Charge, Reply, Parts
  <2>3. ASSUME NEW r \in Requests, PreCall(r) PROVE IInv'
    BY <2>3, PreCallStep
  <2>4. ASSUME NEW r \in Requests, Call(r) PROVE IInv'
    BY <2>4, CallStep
  <2>5. ASSUME NEW r \in Requests, PostCall(r) PROVE IInv'
    BY <2>5, PostCallStep
  <2>6. ASSUME NEW r \in Requests, Store(r) PROVE IInv'
    BY <2>6, StoreStep
  <2>7. ASSUME NEW s \in Spaces, EntryGoes(s) PROVE IInv'
    BY <2>7, EntryGoesStep
  <2>8. CASE Crash
    BY <2>8, CrashStep
  <2>9. CASE UNCHANGED vars
    BY <2>9 DEF vars, IInv, TypeOK, EntryOK, SpaceOf
  <2> QED
    BY <2>1, <2>2, <2>3, <2>4, <2>5, <2>6, <2>7, <2>8, <2>9 DEF Next
<1> QED
  BY <1>1, <1>2, PTL DEF Spec

-----------------------------------------------------------------------------
(* The theorems.                                                           *)

\* Handlers, paths and entries keep their types.
THEOREM TypeCorrect == Spec => []TypeOK
<1>1. IInv => TypeOK
  BY DEF IInv
<1> QED
  BY <1>1, IInvAlways, PTL

\* Whichever endpoint writes and whatever the policies are, the cache holds no
\* answer that the policy of its writer rejects, but from a stream or past a
\* guardrail that failed.
THEOREM CacheIsScreened == Spec => []CachedWasScreened
<1>1. IInv => CachedWasScreened
  BY DEF IInv, EntryOK, Screened, CachedWasScreened
<1> QED
  BY <1>1, IInvAlways, PTL

\* What goes to a provider, from chat, messages, responses or their streams,
\* satisfies the policy of the key.
THEOREM CallsAreScreened == Spec => []ProviderSeesScreened
<1>1. IInv => ProviderSeesScreened
  <2> SUFFICES ASSUME IInv, NEW r \in Requests, At(r, "call"), req[r].kind # "embeddings"
               PROVE  SentOK(req[r])
    BY DEF ProviderSeesScreened, SentOK
  <2>1. /\ HandlerOK(req[r], prompt) /\ req[r].path \in Seq(Parts)
        /\ req[r].path # <<>> /\ Head(req[r].path) = "call"
    BY DEF IInv, TypeOK, Handler, At
  <2>2. ~Precedes("pre", "call", req[r].path)
    BY <2>1, TailOfPath
  <2> QED
    BY <2>1, <2>2 DEF HandlerOK
<1> QED
  BY <1>1, IInvAlways, PTL

\* The spaces of teams, of keys and of all are told apart by what they begin with.
LEMMA Beginnings ==
  /\ \A x : <<"key", x>>[1] = "key" /\ <<"team", x>>[1] = "team" /\ Global[1] = ""
  /\ \A x, y : /\ <<"key", x>> = <<"key", y>> => x = y
               /\ <<"team", x>> = <<"team", y>> => x = y
BY DEF Global

\* An answer does not leave the space of the key or of the team it was written
\* for, whatever requests name, and another comes in only by that space's name.
THEOREM TenantsStayApart == Spec => []TenantsApart
<1>1. IInv => TenantsApart
  <2> DEFINE space(i) == SpaceOf(i, Global)
             named(i) == Given(i, Global).named
             writer(i) == Given(i, Global).writer
  <2> SUFFICES ASSUME IInv, NEW i \in Identities, Given(i, Global) # NoAnswer
               PROVE  \/ named(i) # Global /\ named(i) = space(i)
                      \/ /\ named(i) = Global
                         /\ scope = "key" => writer(i) = i
                         /\ scope = "team" => TeamOf[writer(i)] = TeamOf[i]
    BY DEF TenantsApart
  <2>1. /\ space(i) = IF scope = "team" /\ TeamOf[i] # "" THEN <<"team", TeamOf[i]>>
                      ELSE IF scope = "key" THEN <<"key", i>> ELSE Global
        /\ space(i) \in Spaces /\ Given(i, Global) = cache[space(i)]
    BY SpaceIsNamed, EndpointsAssumption DEF Given, SpaceOf
  <2>2. SpaceOf(writer(i), named(i)) = space(i)
    BY <2>1 DEF IInv, EntryOK
  <2> HIDE DEF space, named, writer
  <2>3. CASE named(i) # Global
    BY <2>2, <2>3 DEF SpaceOf
  <2>4. CASE named(i) = Global
    <3>1. space(i) = IF scope = "team" /\ TeamOf[writer(i)] # "" THEN <<"team", TeamOf[writer(i)]>>
                     ELSE IF scope = "key" THEN <<"key", writer(i)>> ELSE Global
      BY <2>2, <2>4 DEF SpaceOf
    <3>2. ASSUME scope = "key" PROVE writer(i) = i
      BY <2>1, <3>1, <3>2, Beginnings
    <3>3. ASSUME scope = "team" PROVE TeamOf[writer(i)] = TeamOf[i]
      <4>1. CASE TeamOf[i] # "" /\ TeamOf[writer(i)] # ""
        BY <2>1, <3>1, <3>3, <4>1, Beginnings
      <4>2. CASE TeamOf[i] = "" \/ TeamOf[writer(i)] = ""
        BY <2>1, <3>1, <3>3, <4>2, Beginnings
      <4> QED
        BY <4>1, <4>2
    <3> QED
      BY <2>4, <3>2, <3>3
  <2> QED
    BY <2>3, <2>4
<1> QED
  BY <1>1, IInvAlways, PTL
=============================================================================
