------------------------------- MODULE Routing -------------------------------
(***************************************************************************)
(* The reliability engine: _route_and_call and the streaming handler of    *)
(* routes/chat.py over select_deployment, the cooldown keys, the busy      *)
(* counters and the fallback chain.                                        *)
(*                                                                         *)
(* Handlers share three Redis keys per deployment and touch them one await *)
(* at a time; a command of Redis may raise, before or after it took        *)
(* effect.  models_to_try is kept as the models still to come (todo) and   *)
(* the set of all models ever put on it (listed).                          *)
(***************************************************************************)
EXTENDS Integers, FiniteSets, Sequences, SequencesExt

CONSTANTS
    Requests,          \* concurrently running handlers (slots, reused)
    Models,            \* model names a request or a fallback list may say
    Deployments,
    DeploymentsOf,     \* [Models -> SUBSET Deployments], after region filters
    Allowed,           \* models of this universe the identity may use
    StandardFallbacks, \* [Models -> Seq(Models)]
    ContextFallbacks,  \* [Models -> Seq(Models)]
    DefaultFallback,   \* a model, or None
    None,              \* no model, no deployment
    NumRetries,        \* router_settings.num_retries
    AllowedFails,      \* router_settings.allowed_fails
    MaxParallel,       \* identity.max_parallel_requests, 0 for none
    Streams            \* whether requests may ask for a stream: {FALSE}, BOOLEAN

ASSUME RoutingAssumption ==
    /\ IsFiniteSet(Requests)
    /\ DeploymentsOf \in [Models -> SUBSET Deployments]
    /\ Allowed \subseteq Models
    /\ StandardFallbacks \in [Models -> Seq(Models)]
    /\ ContextFallbacks \in [Models -> Seq(Models)]
    /\ DefaultFallback \in Models \union {None}
    /\ None \notin Models \union Deployments
    /\ NumRetries \in Nat /\ AllowedFails \in Nat \ {0} /\ MaxParallel \in Nat
    /\ Streams \subseteq BOOLEAN

-----------------------------------------------------------------------------
VARIABLES
    failures,  \* gateway:cooldown:failures:*
    cooled,    \* whether gateway:cooldown:active:* exists
    busy,      \* gateway:busy:*
    req,       \* the handlers
    drifted,   \* history: a busy key lost counts, or keeps those of dead handlers
    slipped    \* history: a count stood at the threshold when a crash or an
               \* error of Redis took a handler from it

vars == <<failures, cooled, busy, req, drifted, slipped>>

Selecting == {"cooldowns", "loads"}
Calling == {"expire", "answer"}
Ended == {"idle", "failed"}
Stages == Selecting \union Calling \union Ended
            \union {"call", "sleep", "reset", "count", "activate", "erase"}

\* What one request may cost; the count of calls stops one above it.
MaxCalls == Cardinality(Models) * (NumRetries + 1)

\* model: ctx.model; cur: the model being tried; unread, healthy, load: the
\* locals of select_deployment; caught: the handler is in the except clause of
\* the last attempt; calls, cold: history, provider calls so far and the
\* deployments that were in cooldown when the selection began and have not
\* left it since.
Handler == [stage : Stages, model : Models, stream : BOOLEAN, todo : Seq(Models),
            listed : SUBSET Models, cur : Models, unread : SUBSET Deployments,
            healthy : SUBSET Deployments, load : Int,
            dep : Deployments \union {None}, attempt : 0..NumRetries, caught : BOOLEAN,
            calls : Nat, cold : SUBSET Deployments]

TypeOK ==
    /\ failures \in [Deployments -> Nat]
    /\ cooled \in [Deployments -> BOOLEAN]
    /\ busy \in [Deployments -> Int]
    /\ req \in [Requests -> Handler]
    /\ drifted \in [Deployments -> BOOLEAN]
    /\ slipped \in [Deployments -> BOOLEAN]

-----------------------------------------------------------------------------
(* The fallback chain.                                                     *)

WithDefault(models) ==
    IF DefaultFallback = None \/ DefaultFallback \in Range(models) THEN models
    ELSE Append(models, DefaultFallback)

\* get_fallback_models: without context window fallbacks the standard ones.
GetFallbackModels(m, kind) ==
    WithDefault(IF kind = "context_window" /\ ContextFallbacks[m] # <<>>
                THEN ContextFallbacks[m] ELSE StandardFallbacks[m])

HasFallbacks(m) ==
    \/ StandardFallbacks[m] # <<>>
    \/ ContextFallbacks[m] # <<>>
    \/ DefaultFallback # None

\* models_to_try.extend(more)
Extended(h, more) == [h EXCEPT !.todo = @ \o more, !.listed = @ \union Range(more)]

\* Mutant: without the test for what is on the list already.
ExtendedWithAll(h, more) == Extended(h, more)

\* The loop over the fallbacks, after each of its turns: what is appended to
\* models_to_try is what it does not hold yet.
NewAfter(more, listed) ==
    LET new[i \in 0..Len(more)] ==
          IF i = 0 THEN <<>>
          ELSE IF more[i] \in listed \union Range(new[i - 1]) THEN new[i - 1]
          ELSE Append(new[i - 1], more[i])
    IN  new

ExtendedWithNew(h, more) ==
    [h EXCEPT !.todo = @ \o NewAfter(more, h.listed)[Len(more)],
              !.listed = @ \union Range(more)]

-----------------------------------------------------------------------------
(* What a handler does between two awaits.                                 *)

\* The slot is free: no request yet, or the last one is answered, was a stream
\* that has ended, or was left by an exception (a 500).
Idle == [stage |-> "idle", model |-> CHOOSE m \in Models : TRUE, stream |-> FALSE,
         todo |-> <<>>, listed |-> {}, cur |-> CHOOSE m \in Models : TRUE, unread |-> {},
         healthy |-> {}, load |-> 0, dep |-> None, attempt |-> 0, caught |-> FALSE,
         calls |-> 0, cold |-> {}]

\* No result: 503.  What was listed and what was still to try stays visible.
Failed(h) == [Idle EXCEPT !.stage = "failed", !.model = h.model, !.todo = h.todo,
                          !.listed = h.listed]

\* select_deployment(m) is entered: deployments of an allowed model.
Selection(h, m) ==
    LET found == IF m \in Allowed THEN DeploymentsOf[m] ELSE {}
    IN  [h EXCEPT !.stage = "cooldowns", !.cur = m, !.unread = found, !.healthy = {},
                  !.load = 0, !.attempt = 0, !.caught = FALSE, !.dep = None,
                  !.cold = {d \in found : cooled[d]}]

\* The for loop takes the next model, or ends: None, answered as 503.
NextModel(h) ==
    IF h.todo = <<>> THEN Failed(h)
    ELSE Selection([h EXCEPT !.todo = Tail(@)], Head(h.todo))

\* The model did not answer: the primary's failure brings in the standard
\* fallbacks.  A stream has none and ends with an error chunk, here and below.
ModelFailed(h) ==
    IF h.stream THEN Idle
    ELSE IF h.cur = h.model /\ HasFallbacks(h.model)
    THEN NextModel(ExtendedWithNew(h, GetFallbackModels(h.model, "standard")))
    ELSE NextModel(h)

\* Mutant: the loop is left where it should go on with the fallbacks.
NoneSelectedReturns(h) ==
    IF h.stream THEN Idle
    ELSE IF h.cur = h.model /\ HasFallbacks(h.model)
    THEN Failed(Extended(h, GetFallbackModels(h.model, "standard")))
    ELSE NextModel(h)

\* No deployment: here the fallbacks are put on the list unseen.
NoneSelected(h) ==
    IF h.stream THEN Idle
    ELSE IF h.cur = h.model /\ HasFallbacks(h.model)
    THEN NextModel(Extended(h, GetFallbackModels(h.model, "standard")))
    ELSE NextModel(h)

\* should_retry: 429 and 5xx, while there are attempts left.
ShouldRetry(attempt, outcome) == attempt < NumRetries /\ outcome = "retryable"

\* An exception in an attempt: another attempt, or the failure is counted in
\* the except clause, where a further exception leaves the handler.
Raised(h) ==
    IF h.stream THEN Idle
    ELSE IF h.caught THEN Idle
    ELSE IF h.attempt < NumRetries THEN [h EXCEPT !.stage = "sleep"]
    ELSE [h EXCEPT !.stage = "count", !.caught = TRUE]

\* Mutant: the threshold has to be exceeded.
AboveThreshold(count) == count > AllowedFails

AtThreshold(count) == count >= AllowedFails

Step(r, h) == req' = [req EXCEPT ![r] = h]

Init ==
    /\ failures = [d \in Deployments |-> 0]
    /\ cooled = [d \in Deployments |-> FALSE]
    /\ busy = [d \in Deployments |-> 0]
    /\ req = [r \in Requests |-> Idle]
    /\ drifted = [d \in Deployments |-> FALSE]
    /\ slipped = [d \in Deployments |-> FALSE]

-----------------------------------------------------------------------------
(* Actions.                                                                *)

Arrive(r, m, stream) ==
    /\ req[r].stage \in Ended
    /\ Step(r, Selection([Idle EXCEPT !.model = m, !.stream = stream, !.listed = {m}], m))
    /\ UNCHANGED <<failures, cooled, busy, drifted, slipped>>

\* is_cooled_down of one deployment.
IsCooledDown(r, d) ==
    LET h == req[r]
    IN  /\ h.stage = "cooldowns" /\ d \in h.unread
        /\ Step(r, [h EXCEPT !.unread = @ \ {d},
                             !.healthy = IF cooled[d] THEN @ ELSE @ \union {d}])
        /\ UNCHANGED <<failures, cooled, busy, drifted, slipped>>

\* Mutant: with none healthy all are tried.
FilterHealthyOrAll(r) ==
    LET h == req[r]
        left == IF h.healthy = {} THEN DeploymentsOf[h.cur] ELSE h.healthy
    IN  /\ h.stage = "cooldowns" /\ h.unread = {}
        /\ Step(r, [h EXCEPT !.stage = "loads", !.healthy = left,
                             !.unread = IF MaxParallel = 0 THEN {} ELSE left])
        /\ UNCHANGED <<failures, cooled, busy, drifted, slipped>>

\* All cooldowns read: none healthy, or on to the busy counters if the
\* identity limits its parallel requests.
FilterHealthy(r) ==
    LET h == req[r]
    IN  /\ h.stage = "cooldowns" /\ h.unread = {}
        /\ Step(r, IF h.healthy = {} THEN NoneSelected(h)
                   ELSE [h EXCEPT !.stage = "loads",
                                  !.unread = IF MaxParallel = 0 THEN {} ELSE h.healthy])
        /\ UNCHANGED <<failures, cooled, busy, drifted, slipped>>

ReadBusy(r, d) ==
    LET h == req[r]
    IN  /\ h.stage = "loads" /\ d \in h.unread
        /\ Step(r, [h EXCEPT !.unread = @ \ {d}, !.load = @ + busy[d]])
        /\ UNCHANGED <<failures, cooled, busy, drifted, slipped>>

\* The strategy picks a healthy deployment, unless too many run already.
SelectDeployment(r) ==
    LET h == req[r]
    IN  /\ h.stage = "loads" /\ h.unread = {}
        /\ IF MaxParallel # 0 /\ h.load >= MaxParallel
           THEN Step(r, NoneSelected(h))
           ELSE \E d \in h.healthy :
                  Step(r, [h EXCEPT !.stage = "call", !.dep = d, !.healthy = {}, !.load = 0])
        /\ UNCHANGED <<failures, cooled, busy, drifted, slipped>>

\* deployment_busy_counter, entered: incr, then expire, then the call.
IncrBusy(r) ==
    LET h == req[r]
    IN  /\ h.stage = "call"
        /\ busy' = [busy EXCEPT ![h.dep] = @ + 1]
        /\ Step(r, [h EXCEPT !.stage = "expire"])
        /\ UNCHANGED <<failures, cooled, drifted, slipped>>

ExpireBusy(r) ==
    LET h == req[r]
    IN  /\ h.stage = "expire"
        /\ Step(r, [h EXCEPT !.stage = "answer", !.calls = IF @ > MaxCalls THEN @ ELSE @ + 1])
        /\ UNCHANGED <<failures, cooled, busy, drifted, slipped>>

\* The provider's answer: the busy counter is left, then the status decides.
\* "retryable" stands for 429 and 5xx, "fatal" for every other status, and
\* "broken" for an exception: a timeout, a broken connection, a 200 whose body
\* cannot be transformed.
Outcomes == {"ok", "retryable", "fatal", "context", "broken"}

Answer(r, outcome) ==
    LET h == req[r]
        failed == [h EXCEPT !.stage = IF ShouldRetry(h.attempt, outcome) THEN "sleep" ELSE "count"]
    IN  /\ h.stage = "answer"
        /\ busy' = [busy EXCEPT ![h.dep] = @ - 1]
        /\ Step(r, IF outcome = "ok" THEN [h EXCEPT !.stage = "reset"]
                   ELSE IF h.stream THEN Idle
                   ELSE IF outcome = "broken" THEN Raised(h)
                   ELSE IF outcome # "context" THEN failed
                   ELSE ModelFailed(ExtendedWithNew(h, GetFallbackModels(h.model, "context_window"))))
        /\ UNCHANGED <<failures, cooled, drifted, slipped>>

\* Mutant: the attempts are not counted.
RetryUncounted(r) ==
    /\ req[r].stage = "sleep"
    /\ Step(r, [req[r] EXCEPT !.stage = "call"])
    /\ UNCHANGED <<failures, cooled, busy, drifted, slipped>>

\* The backoff is over.
Retry(r) ==
    /\ req[r].stage = "sleep"
    /\ Step(r, [req[r] EXCEPT !.stage = "call", !.attempt = @ + 1])
    /\ UNCHANGED <<failures, cooled, busy, drifted, slipped>>

\* reset_cooldown after a success; the handler returns its answer.
ResetCooldown(r) ==
    /\ req[r].stage = "reset"
    /\ failures' = [failures EXCEPT ![req[r].dep] = 0]
    /\ slipped' = [slipped EXCEPT ![req[r].dep] = FALSE]
    /\ Step(r, Idle)
    /\ UNCHANGED <<cooled, busy, drifted>>

\* increment_failure; its count, by now maybe stale, decides on the cooldown.
IncrementFailure(r) ==
    LET h == req[r]
    IN  /\ h.stage = "count"
        /\ failures' = [failures EXCEPT ![h.dep] = @ + 1]
        /\ Step(r, IF AtThreshold(failures[h.dep] + 1)
                   THEN [h EXCEPT !.stage = "activate"] ELSE ModelFailed(h))
        /\ UNCHANGED <<cooled, busy, drifted, slipped>>

\* maybe_cooldown: setex of the active key, then delete of the counter.
ActivateCooldown(r) ==
    /\ req[r].stage = "activate"
    /\ cooled' = [cooled EXCEPT ![req[r].dep] = TRUE]
    /\ Step(r, [req[r] EXCEPT !.stage = "erase"])
    /\ UNCHANGED <<failures, busy, drifted, slipped>>

EraseFailures(r) ==
    /\ req[r].stage = "erase"
    /\ failures' = [failures EXCEPT ![req[r].dep] = 0]
    /\ slipped' = [slipped EXCEPT ![req[r].dep] = FALSE]
    /\ Step(r, ModelFailed(req[r]))
    /\ UNCHANGED <<cooled, busy, drifted>>

-----------------------------------------------------------------------------
(* Redis and the process.                                                  *)

CooldownEnds(d) ==
    /\ cooled[d]
    /\ cooled' = [cooled EXCEPT ![d] = FALSE]
    /\ req' = [r \in Requests |-> [req[r] EXCEPT !.cold = @ \ {d}]]
    /\ UNCHANGED <<failures, busy, drifted, slipped>>

FailuresExpire(d) ==
    /\ failures[d] > 0
    /\ failures' = [failures EXCEPT ![d] = 0]
    /\ slipped' = [slipped EXCEPT ![d] = FALSE]
    /\ UNCHANGED <<cooled, busy, req, drifted>>

InFlight(d) == {r \in Requests : req[r].stage \in Calling /\ req[r].dep = d}

\* 300 s without an incr: only a stream can still be running by then (other
\* calls time out after 30 s).  A key whose expire was never reached lasts; it
\* may lapse here as well, its counts are off in either case.
BusyExpires(d) ==
    /\ busy[d] # 0
    /\ \A r \in InFlight(d) : req[r].stream /\ req[r].stage = "answer"
    /\ busy' = [busy EXCEPT ![d] = 0]
    /\ drifted' = [drifted EXCEPT ![d] = TRUE]
    /\ UNCHANGED <<failures, cooled, req, slipped>>

\* Mutant: the busy counter has no finally.
DisconnectUncounted(r) ==
    /\ req[r].stream /\ req[r].stage \notin Ended
    /\ drifted' = IF req[r].stage = "expire" THEN [drifted EXCEPT ![req[r].dep] = TRUE] ELSE drifted
    /\ Step(r, Idle)
    /\ UNCHANGED <<failures, cooled, busy, slipped>>

\* The client of a stream is gone and its generator is cancelled at the await
\* it stands at: from "answer" on through the finally of the busy counter,
\* before the try (between incr and expire) past it.
Disconnect(r) ==
    LET h == req[r]
    IN  /\ h.stream /\ h.stage \notin Ended
        /\ busy' = IF h.stage = "answer" THEN [busy EXCEPT ![h.dep] = @ - 1] ELSE busy
        /\ drifted' = IF h.stage = "expire" THEN [drifted EXCEPT ![h.dep] = TRUE] ELSE drifted
        /\ Step(r, Idle)
        /\ UNCHANGED <<failures, cooled, slipped>>

\* The process dies with its handlers; what they counted stays in Redis.
Crash ==
    /\ req' = [r \in Requests |-> Idle]
    /\ drifted' = [d \in Deployments |-> drifted[d] \/ InFlight(d) # {}]
    /\ slipped' = [d \in Deployments |-> failures[d] >= AllowedFails]
    /\ UNCHANGED <<failures, cooled, busy>>

\* A read of select_deployment raises: it stands outside the try.
SelectionRaises(r) ==
    LET h == req[r]
    IN  /\ h.stage \in Selecting /\ h.unread \union h.healthy # {}
        /\ Step(r, Idle)
        /\ UNCHANGED <<failures, cooled, busy, drifted, slipped>>

\* incr, expire or decr of the busy counter raises, applied or not: the
\* counter is off unless it was an incr that did not or a decr that did.
BusyRaises(r, applied) ==
    LET h == req[r]
    IN  /\ h.stage \in Calling \union {"call"}
        /\ busy' = IF ~applied \/ h.stage = "expire" THEN busy
                   ELSE [busy EXCEPT ![h.dep] = IF h.stage = "call" THEN @ + 1 ELSE @ - 1]
        /\ drifted' = [drifted EXCEPT ![h.dep] = @ \/ h.stage = "expire"
                                                     \/ applied = (h.stage = "call")]
        /\ Step(r, Raised(h))
        /\ UNCHANGED <<failures, cooled, slipped>>

\* A command on the failure count or the cooldown raises, applied or not.
CooldownRaises(r, applied) ==
    LET h == req[r]
    IN  /\ h.stage \in {"reset", "count", "activate", "erase"}
        /\ failures' = IF ~applied \/ h.stage = "activate" THEN failures
                       ELSE [failures EXCEPT ![h.dep] = IF h.stage = "count" THEN @ + 1 ELSE 0]
        /\ cooled' = [cooled EXCEPT ![h.dep] = @ \/ (applied /\ h.stage = "activate")]
        /\ slipped' = [slipped EXCEPT ![h.dep] = failures'[h.dep] >= AllowedFails
                                                   /\ (@ \/ h.stage # "reset")]
        /\ Step(r, Raised(h))
        /\ UNCHANGED <<busy, drifted>>

Handle(r) ==
    \/ \E d \in Deployments : IsCooledDown(r, d) \/ ReadBusy(r, d)
    \/ FilterHealthy(r)
    \/ SelectDeployment(r)
    \/ IncrBusy(r)
    \/ ExpireBusy(r)
    \/ \E outcome \in Outcomes : Answer(r, outcome)
    \/ Retry(r)
    \/ ResetCooldown(r)
    \/ IncrementFailure(r)
    \/ ActivateCooldown(r)
    \/ EraseFailures(r)

\* Everything but the loss of handlers and of commands.
Run ==
    \/ \E r \in Requests :
         \/ \E m \in Models, stream \in Streams : Arrive(r, m, stream)
         \/ Handle(r)
    \/ \E d \in Deployments : CooldownEnds(d) \/ FailuresExpire(d) \/ BusyExpires(d)

RedisRaises(r) ==
    \/ SelectionRaises(r)
    \/ \E applied \in BOOLEAN : BusyRaises(r, applied) \/ CooldownRaises(r, applied)

Lose == Crash \/ \E r \in Requests : Disconnect(r) \/ RedisRaises(r)

Next == Run \/ Lose

Spec == Init /\ [][Next]_vars

\* Handlers are scheduled, providers answer or time out, and a backoff ends.
Fairness == \A r \in Requests : WF_vars(Handle(r))

FairSpec == Spec /\ Fairness

-----------------------------------------------------------------------------
(* Properties.                                                             *)

\* Retries and fallbacks of one request cost at most NumRetries + 1 provider
\* calls per model, however cooldowns come and go while it runs.
CallsBounded ==
    \A r \in Requests : req[r].calls <= MaxCalls

\* A 503 is answered only when the whole standard chain was put on the list and
\* no model on the list is left to try, on whichever of the three paths the
\* primary failed.  (An error of Redis that leaves the handler is a 500.)
ChainExhaustedBeforeFailure ==
    \A r \in Requests :
        req[r].stage = "failed" =>
            /\ HasFallbacks(req[r].model) =>
                 Range(GetFallbackModels(req[r].model, "standard")) \subseteq req[r].listed
            /\ req[r].todo = <<>>

\* A deployment that is in cooldown from before a selection until its end is
\* not the one selected, although the cooldowns are read one by one.
CooledDeploymentNotSelected ==
    \A r \in Requests : req[r].dep \notin req[r].cold

\* A failure count at the threshold always has a handler on its way to the
\* cooldown: no increment, success or erasure in between makes it forgotten.
\* Only a crash, or an error of Redis while the failure is counted or the
\* cooldown set, does, and only until the count is erased or lapses.
ThresholdLeadsToCooldown ==
    \A d \in Deployments :
        failures[d] >= AllowedFails =>
            \/ slipped[d]
            \/ \E r \in Requests : req[r].dep = d /\ req[r].stage \in {"activate", "erase"}

\* Unless the key expired under a stream, a handler died or was cancelled
\* between incr and the try, or one of its commands raised, the busy counter is
\* the number of calls in flight.
BusyCountsCalls ==
    \A d \in Deployments : ~drifted[d] => busy[d] = Cardinality(InFlight(d))

\* PRD:96 "If all fallbacks exhausted - return error": every request ends, with
\* an answer, a 503, or the 500 of an error of Redis that is not caught.
RequestsEnd ==
    \A r \in Requests : req[r].stage \notin Ended ~> req[r].stage \in Ended
=============================================================================
