----------------------------- MODULE Endpoints -----------------------------
(***************************************************************************)
(* The request pipeline as the endpoints of routes/ assemble it: chat,     *)
(* chat as a stream, messages, messages as a stream, responses and         *)
(* embeddings run the same parts in different orders over one response     *)
(* cache, with the guardrails of middleware/guardrails.py around the call. *)
(*                                                                         *)
(* What the parts do inside is in RateLimiter, Budget, Routing, Streaming  *)
(* and ResponseCache; here each is one step that may end the request.  A   *)
(* cache key hashes the body before the guardrails change it and has no    *)
(* trace of the endpoint: all requests of a behaviour have the same body   *)
(* once it is converted, and their keys differ by scope and namespace only.*)
(***************************************************************************)
EXTENDS Naturals, Sequences

CONSTANTS
    Requests,    \* concurrently running handlers (slots, reused)
    Identities,  \* virtual keys
    PolicyOf,    \* [Identities -> their guardrail_policy], "" for none
    TeamOf,      \* [Identities -> their team], "" for none
    Namespaces,  \* metadata.cache_namespace of a request: the space it names
    NoAnswer     \* no response

Streaming == {"chat_stream", "messages_stream"}
Endpoint == {"chat", "messages", "responses", "embeddings"} \union Streaming
Kind(e) == IF e \in Streaming THEN "stream" ELSE IF e = "embeddings" THEN e ELSE "whole"

\* metadata.cache_control.
Control == {"", "no-cache", "no-store"}

\* personal: personal data in the last user message, a string; blocks: in a list
\* of content blocks; scattered: in other messages as well; injection: a phrase.
Prompt == {"plain", "personal", "blocks", "scattered", "injection"}

\* What a body can be once it is converted: messages joins text blocks into one
\* string, responses and chat keep what they get.
Bodies(e) == IF e \in {"messages", "messages_stream"} THEN Prompt \ {"blocks"} ELSE Prompt

\* What is sent: the prompt, or what _apply_redaction makes of it.
Sent == Prompt \union {"masked", "half masked"}
Personal(s) == s \in {"personal", "blocks", "scattered", "half masked"}

\* The policies that ask for it, by their names in GUARDRAIL_POLICIES.
RejectPersonal == {"pii_detect", "strict"}
RejectInjection == {"injection_detect", "strict"}

Scope == {"global", "team", "key"}

\* What stands before the hash in a cache key: nothing, "team" or "key" with an
\* id, or a text of the client, which may read like one of the others: then the
\* two are one space.  A request without a namespace names Global.
Global == <<"", "">>
Spaces ==
    {Global} \union Namespaces \union {<<"key", i>> : i \in Identities}
        \union {<<"team", TeamOf[i]>> : i \in Identities}

\* personal: in the text of its choices; writer, named: history, whose request it
\* answers and what that named; guarded: history, the writer's policy rejects such
\* an answer and its guardrail did not fail.
Response ==
    [writer : Identities, named : Namespaces, personal : BOOLEAN, guarded : BOOLEAN]

ASSUME EndpointsAssumption ==
    /\ Identities # {}
    /\ DOMAIN PolicyOf = Identities
    /\ DOMAIN TeamOf = Identities
    /\ Global \in Namespaces
    /\ NoAnswer \notin Response

-----------------------------------------------------------------------------
VARIABLES
    scope,   \* cache_settings.cache_scope
    prompt,  \* the one body
    cache,   \* [Spaces -> the response stored under the body's key]
    req      \* the handlers

vars == <<scope, prompt, cache, req>>

Parts == {"limit", "lookup", "pre", "call", "post", "charge", "store", "reply"}

\* path: the parts still to run, empty when it has returned; answer: the
\* response, as it would be stored; blind: history, until the call, the pre-call
\* guardrail failed and let the request pass.
Handler == [kind : {"whole", "stream", "embeddings"}, identity : Identities,
            namespace : Namespaces, path : Seq(Parts), sent : Sent,
            answer : Response \union {NoAnswer}, blind : BOOLEAN]

TypeOK ==
    /\ scope \in Scope
    /\ prompt \in Prompt
    /\ cache \in [Spaces -> Response \union {NoAnswer}]
    /\ req \in [Requests -> Handler]

Idle == [kind |-> "whole", identity |-> CHOOSE i \in Identities : TRUE, namespace |-> Global,
         path |-> <<>>, sent |-> "plain", answer |-> NoAnswer, blind |-> FALSE]

-----------------------------------------------------------------------------
(* The order of the parts.                                                 *)

\* no-cache makes no cache key, so it neither reads nor stores; no-store reads.

\* Mutant: the response is written before the guardrail has seen it.
WholeStoresFirst(c) ==
    CASE c = "no-cache" -> <<"limit", "pre", "call", "post", "charge", "reply">>
      [] c = "no-store" -> <<"limit", "lookup", "pre", "call", "post", "charge", "reply">>
      [] c = "" -> <<"limit", "lookup", "pre", "call", "store", "post", "charge", "reply">>

\* A response that is made whole before it is sent: chat, messages, responses.
Whole(c) ==
    CASE c = "no-cache" -> <<"limit", "pre", "call", "post", "charge", "reply">>
      [] c = "no-store" -> <<"limit", "lookup", "pre", "call", "post", "charge", "reply">>
      [] c = "" -> <<"limit", "lookup", "pre", "call", "post", "charge", "store", "reply">>

\* A chat stream replies while it is called and is stored before it is charged,
\* past no post-call guardrail.
ChatStream(c) ==
    CASE c = "no-cache" -> <<"limit", "pre", "call", "reply", "charge">>
      [] c = "no-store" -> <<"limit", "lookup", "pre", "call", "reply", "charge">>
      [] c = "" -> <<"limit", "lookup", "pre", "call", "reply", "store", "charge">>

\* A messages stream is converted from a whole response and never stored, and no
\* post-call guardrail sees it either.
MessagesStream(c) ==
    IF c = "no-cache" THEN <<"limit", "pre", "call", "reply", "charge">>
    ELSE <<"limit", "lookup", "pre", "call", "reply", "charge">>

\* Embeddings pass no guardrail and no cache.
Path(e, c) ==
    CASE e = "chat_stream" -> ChatStream(c)
      [] e = "messages_stream" -> MessagesStream(c)
      [] e = "embeddings" -> <<"limit", "call", "charge", "reply">>
      [] OTHER -> Whole(c)

-----------------------------------------------------------------------------
(* Guardrail policies.                                                     *)

\* GUARDRAIL_POLICIES; an unknown name has no type and checks nothing.
Presidio(policy) == policy \in {"pii_detect", "pii_redact", "strict"}

Redacts(policy) == policy = "pii_redact"
Detects(policy) == Presidio(policy) /\ ~Redacts(policy)

\* Mutant: a policy is done with its first guardrail.
InjectionOnly(policy) == policy = "injection_detect"

Injection(policy) == policy \in {"injection_detect", "strict"}

\* Mutant: the redacted text is looked for where the analysis does not put it.
ApplyRedactionLost(body) == IF Personal(body) THEN "None" ELSE body

\* The last user message that is a string becomes the redacted join of all texts;
\* the others keep what they say.
ApplyRedaction(body) ==
    IF body = "personal" THEN "masked"
    ELSE IF body = "scattered" THEN "half masked" ELSE body

\* Mutant: the scope of a single key is forgotten.
SpaceOfTeamOnly(i, namespace) ==
    IF namespace # Global THEN namespace
    ELSE IF scope = "team" /\ TeamOf[i] # "" THEN <<"team", TeamOf[i]>> ELSE Global

\* Where build_cache_key puts the hash; a namespace overrides the scope, and a
\* key without a team shares the global space.
SpaceOf(i, namespace) ==
    IF namespace # Global THEN namespace
    ELSE IF scope = "team" /\ TeamOf[i] # "" THEN <<"team", TeamOf[i]>>
    ELSE IF scope = "key" THEN <<"key", i>> ELSE Global

Given(i, namespace) == cache[SpaceOf(i, namespace)]

-----------------------------------------------------------------------------
(* The parts.                                                              *)

Init ==
    /\ scope \in Scope
    /\ prompt \in Prompt
    /\ cache = [s \in Spaces |-> NoAnswer]
    /\ req = [r \in Requests |-> Idle]

At(r, part) == req[r].path # <<>> /\ Head(req[r].path) = part

Return(r) == req' = [req EXCEPT ![r] = Idle]

\* The handler runs on with its next part.
Proceed(r, handler) ==
    req' = [req EXCEPT ![r] = IF Len(handler.path) = 1 THEN Idle
                              ELSE [handler EXCEPT !.path = Tail(@)]]

Arrive(r) ==
    \E e \in Endpoint, i \in Identities, c \in Control, n \in Namespaces :
        /\ req[r].path = <<>>
        /\ prompt \in Bodies(e)
        /\ e = "embeddings" => c = "" /\ n = Global
        /\ req' = [req EXCEPT ![r] = [Idle EXCEPT
               !.kind = Kind(e), !.identity = i, !.namespace = n, !.sent = prompt,
               !.path = Path(e, c)]]
        /\ UNCHANGED <<scope, prompt, cache>>

\* The rate limiter and the budget check.
Limit(r) ==
    /\ At(r, "limit")
    /\ \/ Proceed(r, req[r])
       \/ Return(r)
    /\ UNCHANGED <<scope, prompt, cache>>

\* No entry, one that is too old for s_maxage, or an exception.
Miss(r) ==
    /\ At(r, "lookup")
    /\ Proceed(r, req[r])
    /\ UNCHANGED <<scope, prompt, cache>>

\* The entry is sent, converted or cut into chunks.
Hit(r) ==
    /\ At(r, "lookup")
    /\ Given(req[r].identity, req[r].namespace) # NoAnswer
    /\ Return(r)
    /\ UNCHANGED <<scope, prompt, cache>>

\* run_pre_call_guardrails; the injection patterns see the text as it came.
\* fails: the analysis raises, which is a pass.
PreCall(r) ==
    LET policy == PolicyOf[req[r].identity] IN
    /\ At(r, "pre")
    /\ \E fails \in BOOLEAN :
          /\ fails => Presidio(policy)
          /\ IF \/ ~fails /\ Detects(policy) /\ Personal(prompt)
                \/ Injection(policy) /\ prompt = "injection"
             THEN Return(r)
             ELSE Proceed(r, [req[r] EXCEPT
                      !.blind = fails,
                      !.sent = IF Redacts(policy) /\ ~fails THEN ApplyRedaction(prompt) ELSE @])
    /\ UNCHANGED <<scope, prompt, cache>>

\* _route_and_call, the generator of a stream, or the one call of embeddings.
Call(r) ==
    /\ At(r, "call")
    /\ \/ Return(r)
       \/ \E personal \in BOOLEAN :
             Proceed(r, [req[r] EXCEPT !.blind = FALSE, !.answer =
                 [writer |-> req[r].identity, named |-> req[r].namespace, personal |-> personal,
                  guarded |-> /\ PolicyOf[req[r].identity] \in RejectPersonal
                              /\ req[r].kind = "whole"]])
    /\ UNCHANGED <<scope, prompt, cache>>

\* run_post_call_guardrails: a policy that redacts finds and lets pass.
PostCall(r) ==
    LET policy == PolicyOf[req[r].identity] IN
    /\ At(r, "post")
    /\ \E fails \in BOOLEAN :
          /\ fails => Presidio(policy)
          /\ IF ~fails /\ Detects(policy) /\ req[r].answer.personal
             THEN Return(r)
             ELSE Proceed(r, [req[r] EXCEPT !.answer.guarded = @ /\ ~fails])
    /\ UNCHANGED <<scope, prompt, cache>>

\* record_spend, which may raise.
Charge(r) ==
    /\ At(r, "charge")
    /\ \/ Proceed(r, req[r])
       \/ Return(r)
    /\ UNCHANGED <<scope, prompt, cache>>

\* set_cached_response swallows its exceptions.
Store(r) ==
    /\ At(r, "store")
    /\ Proceed(r, req[r])
    /\ \/ cache' = [cache EXCEPT ![SpaceOf(req[r].identity, req[r].namespace)] = req[r].answer]
       \/ UNCHANGED cache
    /\ UNCHANGED <<scope, prompt>>

\* The response or its chunks are sent; the client of a stream may leave, and the
\* generator is cancelled.
Reply(r) ==
    /\ At(r, "reply")
    /\ \/ Proceed(r, req[r])
       \/ req[r].kind = "stream" /\ Return(r)
    /\ UNCHANGED <<scope, prompt, cache>>

\* An entry lapses or is invalidated.
EntryGoes(s) ==
    /\ cache[s] # NoAnswer
    /\ cache' = [cache EXCEPT ![s] = NoAnswer]
    /\ UNCHANGED <<scope, prompt, req>>

\* The process dies; the cache is in Redis.
Crash ==
    /\ req' = [r \in Requests |-> IF req[r].path = <<>> THEN req[r] ELSE Idle]
    /\ UNCHANGED <<scope, prompt, cache>>

Next ==
    \/ \E r \in Requests :
          \/ Arrive(r) \/ Limit(r) \/ Miss(r) \/ Hit(r) \/ PreCall(r) \/ Call(r)
          \/ PostCall(r) \/ Charge(r) \/ Store(r) \/ Reply(r)
    \/ \E s \in Spaces : EntryGoes(s)
    \/ Crash

Spec == Init /\ [][Next]_vars

-----------------------------------------------------------------------------
(* Properties.                                                             *)

\* "Cache write (only after guardrails pass)" (chat.py:197), whichever endpoint
\* writes: no entry holds an answer that its writer's policy rejects, except
\* from a stream, which no guardrail sees, or past a guardrail that failed.
CachedWasScreened ==
    \A s \in Spaces : cache[s] # NoAnswer /\ cache[s].guarded => ~cache[s].personal

\* From the guardrail on, what goes to a provider satisfies the policy of the
\* key: nothing personal or injected past a policy that rejects it, and past one
\* that redacts no personal data of the last user message.  The guardrail must
\* not have failed, embeddings have none, and what is in content blocks or in other
\* messages is not redacted.
ProviderSeesScreened ==
    \A r \in Requests :
        LET policy == PolicyOf[req[r].identity] IN
        At(r, "call") /\ req[r].kind # "embeddings" =>
            /\ policy \in RejectPersonal => ~Personal(req[r].sent) \/ req[r].blind
            /\ policy \in RejectInjection => req[r].sent # "injection"
            /\ policy = "pii_redact" => req[r].sent # "personal" \/ req[r].blind

\* What a request that names no namespace is given from the cache was written for
\* the same key (scope key), or for a key of the same team or, like it, of none
\* (scope team); or else by a request that named this very space: nothing keeps a
\* client from a namespace that reads like the id of a team or of a key, and only
\* that lets an answer of another tenant in.
TenantsApart ==
    \A i \in Identities :
        LET given == Given(i, Global) IN
        given # NoAnswer =>
            \/ given.named # Global /\ given.named = SpaceOf(i, Global)
            \/ /\ given.named = Global
               /\ scope = "key" => given.writer = i
               /\ scope = "team" => TeamOf[given.writer] = TeamOf[i]
=============================================================================
