# CommandClaw Gateway: TLA+ models and proofs

The gateway is a set of asyncio request handlers over Redis. A handler runs undisturbed from one
`await` to the next; everything that can go wrong between handlers goes wrong at an `await redis...`,
at the provider call, or when the process dies. The modules here take the steps at exactly those
points and keep the control of the code: guards, early returns, error paths and their order. Costs,
tokens and times are small numbers; prompts, prices and header texts do not occur.

`PRD` below is `docs/COMMANDCLAW_GATEWAY_PRD.md`. All paths are relative to `src/`.

## Components

| Component | State | Operations | Interacts with |
|---|---|---|---|
| Budgets (`auth/budgets.py`, `middleware/cost_tracker.py`) | `gateway:spend:*` counters, `max_budget` in key, user, team and org records, spend logs | `check_budget`, `increment_spend`, `record_spend`, `reset_budget`, `reset_all_spend` | every endpoint checks before the provider call and charges after it; admin routes set limits |
| Budget scheduler (`_budget_reset_loop` in `auth/budgets.py`) | `budget_reset_at`, `budget_duration` in key records | one pass a minute: scan, reset, schedule | writes key records while admins change and delete them |
| Router (`routing/*`, `routes/chat.py`) | failure counters, cooldown keys, busy counters | `_route_and_call`, `_handle_streaming`, `select_deployment`, `deployment_busy_counter`, cooldowns, retries, fallbacks | called by chat, messages, responses, embeddings and batches |
| Virtual keys (`auth/virtual_keys.py`, `auth/middleware.py`) | record `gateway:vk:<id>`, index `gateway:vk:hash:<h>` | generate, block, unblock, delete, rotate, update, `validate_key` | its identity carries the limits the other components use |
| Rate limiter (`middleware/rate_limiter.py`) | one sorted set or counter per limit | `check_and_increment_rate_limit` | runs first in every handler |
| Streaming (`routes/chat.py`, `StreamingCacheAssembler`, `providers/anthropic_provider.py`) | the provider object of the process, one assembler per stream | `stream_generator`, `transform_stream_chunk`, `add_chunk`, `finalize` | writes the cache, charges the budget, calls the router |
| Response cache (`middleware/cache.py`, `middleware/memory_cache.py`) | entries, index per model | get, set, delete, flush | asked after limits and budget |
| Endpoints (`routes/chat.py`, `messages.py`, `responses.py`, `embeddings.py`) | none of their own | one handler each, chat and messages also as a stream | assemble limiter, budget, cache, guardrails, router, charge |
| Guardrails (`middleware/guardrails.py`) | none; an external analyser | `check_pre_call`, `check_post_call`, redaction, injection patterns | around the provider call of chat, messages and responses |
| Batches (`routes/batches.py`) | record, list of results | `create_batch`, `_process_batch`, `get_batch` | runs limiter, budget, router and charge per item in one background task |
| Teams, orgs, users (`auth/teams.py`, `routes/*`) | records with limits and members | create, update, delete, add and remove member | limits are read by budgets and limiter |
| Other adapters, RBAC and JWT, audit, observability, strategies, configuration | none the gateway decides on | conversions, external calls, pure choices | outcomes appear as choices in the models |

What is hard here is interleaving: a check and the write that belongs to it are never one step
(budget, quota, parallel cap, rotation, members, busy counter). Redis is the only state that survives
a crash, and multi-step writes to it can be cut. Keys expire under handlers that use them. One
provider object is shared by all streams. `PROJECT.json` lists each hazard at its line with the
properties that cover it.

What each component must get right: a budget is overshot by no more than the calls that were under way
and reset once a period; a request ends, with a bounded number of provider calls, and does not get a
deployment in cooldown; a blocked or deleted key is refused; a limit refuses only when it is used up;
a stream that nothing disturbed is cached and billed whole; an invalidation leaves nothing behind and
a hit is as fresh as it was asked to be; no answer passes a guardrail by on its way to a provider or
into the cache, and none leaves the space it was cached in; a batch never reports more than it did; a
team loses members only to changes of members.

## Modules

| Module | Models | State and actions |
|---|---|---|
| `Ledger` | what a spend counter promises | the abstract account: `Commit` only while not exhausted, `Charge` only what is committed, `Release`, `Crash`, `RaiseCeiling`, `Reset` |
| `Budget` | `check_budget` against `record_spend` and administration | `req[r]` is a handler or batch item with its level in the walk; `ReadLimit` and `ReadSpend` are the two awaits of a level (the limit of the key comes from the identity), `IncrementSpend` the Lua script over all levels, `PushLog` the log entry after it; `SetLimit`, `ResetBudget`, `ResetAllSpend` (one DEL of a SCAN batch) and `Crash` interleave. Each of its accounts is a `Ledger` |
| `BudgetReset` | the scheduler with its clock | a pass reads the clock (`BeginPass`), visits the records, sets the counter to 0 and writes the next time in two steps; an exception or a crash aborts it; keys are generated, updated, deleted and spend meanwhile |
| `Routing` | `_route_and_call` and the selection, call and end of a stream | `models_to_try` is kept as `todo` (what is left) and `listed` (what was ever on it); selection reads cooldowns and busy counters one at a time; `IncrBusy`, `ExpireBusy`, `Answer` are the counter's context manager; `IncrementFailure`, `ActivateCooldown`, `EraseFailures` the three awaits of `maybe_cooldown`; `SelectionRaises`, `BusyRaises`, `CooldownRaises` are a Redis command that raises there, with or without its effect: outside the `try` it ends the request, in it it is one more failed attempt (`chat.py:397`), in its except clause it ends the request as well; strategies are one choice among the healthy |
| `VirtualKeys` | key records, the hash index and validation | `Begin` is the read that delete, rotate and update start with, the pipelines are steps of their own; `HSet` creates a record that is not there; `ValidateIndex` and `ValidateRecord` are the two reads of `validate_key` |
| `RateLimiter` | the chain of limits | the clock is read once per request (`now`) while it goes on; a request limit is one Lua script (`SlidingWindow`), token limits are read, zadd, pexpire, quotas get and incrby |
| `Streaming` | a stream from an Anthropic deployment, from cache lookup to charge | `ReadEvent` and `ReadData` read the two lines of an event; `parser` is `_current_event` and `_stream_id` of the one provider object; `answer` is the assembler; after the last line `SendDone`, `Finalize`, `ResetCooldown` and `Charge` are the awaits up to the charge, any of which but the swallowed one in `finalize` may raise (`RedisRaises`), which leaves the entry in the cache |
| `ResponseCache` | both backends | Redis: `SetEx`, `SAdd`, `Expire*` are the three awaits of a write, `ReadIndex`, `DeleteEntries`, `DeleteIndex` those of an invalidation, `ScanBatch`, `DeleteBatch` a flush, each of which may raise, `RedisGet` is a lookup, with the time a command takes between stamp, store and test; memory: `MemorySet`, `MemoryGet` on one ordered list, where a handler may take the stamp off a cached object |
| `Endpoints` | the order of the parts in six handlers, with the guardrails | `Path(e, c)` is the sequence of parts of an endpoint under a cache control (`Whole`, `ChatStream`, `MessagesStream`), `req[r].path` what is left of it; every part is an action that may end the request; `SpaceOf` is the space of a cache key by scope, team and namespace, where a namespace may be the space of a key or of a team; `ApplyRedaction` is what becomes of the prompt |
| `Batch` | one batch, its record and results, and clients that poll it | `Await` is a Redis call that may raise before or after its effect; the stages of `task` are the awaits of `_process_batch`, in and out of its `try` |
| `Teams` | one team under concurrent administrators | updates and changes of members are a read and a write; HSET makes a record that is gone |
| `Administration`, `BackgroundTasks` | compositions: `VirtualKeys` with `Teams`, `Batch` with `BudgetReset` | the two parts share no state, and a behaviour runs one while the other stands still; each part has its own specification, which the composition implements |
| `MC...` | instances for TLC | values of the constants, bounds on behaviours, symmetry |
| `...Proofs` | theorems | see below |

The modules do not share variables: components meet through one number or one outcome, which the other
module offers as a choice (an admitted request that is never charged in `Budget`, the answer of a
provider in `Routing`, refused or answered in `Batch`). `Endpoints` is where the parts are put
together, each of them one step. Definitions whose comment begins with "Mutant" are wrong versions of
the definition after them; they are used by no specification and serve to show that a property notices
the mistake.

History variables record what a property speaks about and no code sees: `ceiling`, `billed`, `over`
(Budget), `used`, `next`, `early` (BudgetReset), `calls`, `cold`, `drifted`, `slipped` (Routing),
`revoked`, `removed`, `disorder`, `late`, `gone` (VirtualKeys), `took`, `at` (RateLimiter), `mixed`,
`cut` (Streaming), `stale`, `born`, `loose`, `uneven`, `uses`, `must` (ResponseCache), `writer`,
`named`, `guarded`, `blind` (Endpoints), `asked`, `torn`, `deleted` (Teams), `faults`, `crashed`.

## Runs

| Run | Question | Bounds and why they are enough |
|---|---|---|
| `Budget` | How far is a limit overshot, does an exhausted level stop a request, do counters and logs stay consistent, is every account a ledger? | Two handlers of two keys that share a user, one in a team, one in an org, so every level is shared and private; at most one level is limited at first, and a batch of `reset_all_spend` is one counter or all of them. Cost 0 or 1, `MaxCharged` 3, `MaxSettings` 1 change or reset: two handlers race, and the third unit of cost exceeds a limit of 0 plus two. |
| `RoutingChain` | Calls per request, completeness of the fallback chain; does every request end? | One handler, three models with one deployment each, overlapping chains (`a` to `b`, `c`; `b` to `c`; context window fallbacks that lead back), one retry, `AllowedFails` 2, `MaxLosses` 2 (a crash or a Redis command that raises). One handler is enough: others reach it only through cooldowns and counts, which requests before it leave behind here, and a cooldown or a count may end at any moment. |
| `RoutingBusy` | Where is the busy counter right, with streams, crash, disconnect, expiry and Redis errors; is a cooled deployment passed over; is a count at the threshold ever forgotten? | Two handlers on one model with two deployments, cap 2, `AllowedFails` 2 so that the two can reach the count together, `MaxLosses` 1. |
| `Admin` | Block, deletion and rotation against requests; members and deletion of a team | Two admins in every operation. Keys: two ids, three raw keys (two rotations, or one and a new key), one request. Team: two users, two roles, one limit. Every race needs two admins at most. |
| `Rate` | Are request limits right in real time, how far is a quota overshot? | Three requests of two keys of one user, window 3, `MaxDelay` 1 in the chain, clock to 5 (more than a window and a half), tokens 0 to 2, `MaxActive` 2. |
| `Stream` | What is cached and billed, does every stream end? | Two equal requests with one piece of content: four events each, so every pair of lines can be separated; every cut and disconnect, every Redis command after the last line may raise; modes `normal` and `no_cache`. |
| `Tasks` | Batch: record, results and charges under faults, crash and expiry. Scheduler: are resets spaced, is what is due reset? | Three items (first, middle, last), `MaxFaults` 2 (one in the `try`, one in the `except`), one polling client. Two keys with periods 1 and 2 on a clock to 2, one aborted pass. |
| `Cache` | Does the index cover what is cached, is an invalidation complete, are hits fresh, who is evicted? | Two writers and one invalidation; two keys of one model in Redis, three keys in a memory store of 2; TTL 2, override 1, slack 1, a command of Redis takes 0 or 1, `s_maxage` 0 or none, clock to 3: an entry of either TTL and the index lapse in either order, and a lookup finds entries younger and older than it asks for. |
| `Endpoints` | Is a guardrail ever passed by, does an answer leave its space? | One handler after the other, of three keys: `strict` and `redact` of one team, `open` without a team; one body per behaviour in each of its five kinds, every scope and cache control; a request names no namespace, one that reads like the space of `strict`, or like that of the team. Handlers meet only in the cache, which each of them writes in one step: what several leave there, one after the other leaves too. The proofs are for any number. |
| `RoutingLoop` | violated: every request ends | one request; the default fallback is the requested model, which has no usable deployment |
| `KeysDeleteRace` | violated: a deleted key stays deleted | one key, two admins |
| `StreamHit` | violated: a hit is served a whole answer | two equal requests, two pieces of content |

The three violated runs check what the documentation says; `PROJECT.json` quotes the lines. The
passing runs check what the code does keep, sometimes under a condition a history variable states:
`Admin` excuses a key whose operations overlapped or wrote to a record that was gone (`disorder`) and
a change of members written over another (`torn`), `Stream` a stream whose event was separated from
its data by another event line or that the provider cut (`mixed`, `cut`), `RoutingBusy` a counter that
lost counts by expiry, crash or an error of Redis (`drifted`) and a count at the threshold whose
handler was lost on the way (`slipped`), `Cache` an entry cut off from its index by a fault or a
race (`loose`), `Endpoints` a guardrail that failed (`blind`), since a failure is a pass. The comment
of each property says what makes the condition true.

`CHECK_DEADLOCK FALSE` is set where a behaviour is over when its requests or tasks are (`Rate`,
`Stream`, `StreamHit`, `Tasks`, `Endpoints`, and `KeysDeleteRace`, which has no operation left once
its three raw keys are used). Symmetry permutes requests and values that no definition distinguishes;
it is off in every run that checks liveness.

Read with these: what is charged is bounded by the number of *concurrently running* handlers, which
the code does not limit by itself (`max_parallel_requests` is checked long before it is counted, and
batches do not count). The real-time reading of a request limit is over spans shorter than the window
by the longest delay in the chain.

### Fairness

`RoutingChain` and `RoutingLoop` assume weak fairness of each handler's own steps: the event loop runs
a handler whose await is over, provider calls have timeouts, backoffs end. Nothing makes a cooldown
end, a key expire or a command of Redis raise. `Stream` assumes the same; a provider that is silent
for 300 s makes the connection fail (`read=300.0` in `providers/base.py`), so a stream moves on by the
next line or by `Fail`. After the last line the connection is closed and only the end of the loop is
left. `Tasks` assumes that the task of the batch runs and that Redis answers or fails, and that the
scheduler's loop goes on (`asyncio.sleep` ends, a pass that raises is followed by the next); nothing
makes a crash, a fault, a tick of the clock or an expiry happen.

## Proofs

Every theorem holds for all values of the constants that satisfy the named assumption of the
component's module. The assumptions of weight: handlers and keys are finite sets (`Budget`,
`RateLimiter`, `Routing`), the counter of a key is that key's alone (`CountersAssumption`: the Redis
key holds the key id), no limiter occurs twice in a chain and a request has a largest token count
(`RateLimiter`), periods are natural numbers (`SchedulerAssumption`), a model has a TTL of at least 1
(`CacheAssumption`). One theorem needs more and states it itself: `CallsAreBounded`, below. All safety
properties of the passing runs are proved, as is the refinement.

`BudgetProofs`: `TypeCorrect`, `CommitmentIsBounded`, `OvershootIsBounded`, `ExhaustedIsRefused`,
`UpperLevelsCover`, `LogsAreBilled`, `AccountsAreLedgers`. The overshoot is not inductive: a state
with the counter at its bound and a handler just admitted would break it. What is inductive counts the
admitted handlers as if they had charged already:
`spend[a] + MaxCost * |Committed(a)| <= ceiling[a] + MaxCost * |Requests|`. `ReadSpend` adds a handler
to `Committed(a)` only while `spend[a]` is at most the limit it read, `IncrementSpend` removes its
handler as it charges. It needs `Typed` (stages agree with levels) and `Covered` (every limit a
handler has read lies below the account's ceiling, which only rises). `OvershootBounded` follows by
dropping the committed part. `ExhaustedIsRefused` uses `AllOverAhead`: a handler that began above a
limit always has such a level still ahead of it, so it cannot reach the call. `UpperLevelsCover` and
`LogsAreBilled` are inductive as they stand once sums can be reasoned about: the lemmas before them
show that `SumFunctionOnSet`, a fold in whatever order CHOOSE picks, changes by what one summand
changes by (`SumChange`), and grows with its summands and its set. Their induction takes a smallest
set that would be a counterexample. `AccountsAreLedgers` is the refinement: with
`committed <- Committed(a)` every step of `Budget` is, for each account, a step of `Ledger` or a
stutter; `Covered` gives the guard of `Commit`, `Typed` that a charge is committed.

`AdministrationProofs`, keys: `TypeCorrect`, `BlockAlwaysHolds`, `RemovalIsPermanent`,
`RotationRetires`. The block rests on two facts: a revoked key has `blocked` set in its record as long
as there is one (every HSET of the other operations keeps the field), and only a handler that has not
read the record yet can have begun after the block. Deletion and rotation rest on `Orderly`: raw keys
handed out are those issued; tasks that overlap are seen by `disorder`; on an orderly key a rotation
under way has read the current hash; a removed key has no record; only the current hash of an orderly
key lasts; a handler marked gone belongs to a removed key. Teams: `TeamTypeCorrect`,
`MembersAreAsAsked`, `DeletedStaysAway`. A task that is not stale has read exactly what is stored, so
its write is the change asked for; a stale one is seen when it writes. The composition implements the
specifications of both parts (`BothRun`), so what holds of a part holds of it.

`BackgroundTasksProofs`, batches: `CompletedIsPaid`, `CompletedHasAll`, `RepliesListWhatTheyCount`.
Inductive for the first is `Paid`: no item is listed more often than it is charged, the item under way
not before its charge and those ahead not at all. For the second it is `Behind`: all items the task
has left behind have a result, wherever a call raised, and it writes the status only past the last
one. For the third it is `Counted`: the list is at least as long as what the task has counted, what
the record says and what a client has read of it, since every path appends before it counts. The
scheduler: `ResetsAreSpaced`. A record alone does not show that a reset was due, the pass works from
what it read. Inductive is `Promised`: the time in a record is never before the one promised at the
last reset, except between a reset and its schedule; a key the pass is about to reset has reached that
time; what it is about to write is what was promised.

`RateLimiterProofs`: `SetsAgree`, `RateIsHeld`, `RefusedWhenFull`, `QuotaIsBounded`. The code counts
scores, the properties count passages in real time. The invariant (`Base`, `PassedBy`, `Scored`) ties
the two: a request passes a limit at most `MaxDelay` after it came in, the sorted set outlives its
newest passage by a window, every member of the set belongs to a passage, and every passage younger
than the window less the delay has its member there. So the request that is let in next still fits
with those before it (`AdmittedFits`), and one that is refused has found the set full
(`RefusedIsFull`). The quota needs the requests in the chain counted: among those that have read it
and not yet written there is one that fits with all that is written, and each of the others adds at
most the largest token count (`Overshoot`).

`StreamingProofs`: `WholeIsCached`, `FullIsBilled`. For an undisturbed stream the assembler holds what
the lines so far make up (`Assembled`), by induction over the steps, not over the script; what is
charged and stored is what the assembler held at the end (`Paid`, `Kept`).

`RoutingProofs`: `HandlersSound`, `CooledNotSelected`, `ThresholdIsHeeded`, `BusyIsCounted`,
`ChainIsExhausted`, `CallsAreBounded`. Most follows from one predicate per handler (`Sound`): the
deployments it saw cold are in cooldown and not among its healthy ones, stage and deployment agree,
and its list covers the fallbacks once the primary is given up. That a 503 leaves no model to try is
not in its definition: `Failed` keeps the list, and `ChainIsExhausted` follows from `NextModel` being
the only way there, with an empty list. `ThresholdLeadsToCooldown` and `BusyCountsCalls` speak of all
handlers at once; with `Sound` each is inductive as it stands, the second by the cardinality of the
set of calls in flight, which every step leaves or changes by one handler. `CallsBounded` is false of
a model that is its own fallback: in the situation of `RoutingLoop` with a second fallback that does
get called, that one is listed and called again each round. A list of standard fallbacks that names a
model twice has it called twice when the requested model has no usable deployment, as `chat.py:334`
appends the list unseen. The configuration excludes neither (`config.py:74-75`), so `CallsAreBounded`
says of what configuration it holds: the models are a finite, nonempty set, none is among its own
fallbacks, the default one included (`NoOwnFallback`), and no standard list has a repetition
(`NoRepetition`). Inductive is `Paying`: what is left of the list has no model twice and none that was
started; the requested model is started, and while it is being selected it is the only one listed; the
calls so far are at most `NumRetries + 1` for each started model but the current one and `Due` for
that. Extending the list starts no model, taking the next one starts exactly one, and those left
cannot be started twice, so the started models never outnumber `Models`. `NewOnes` says what the loop
over the fallbacks appends.

`ResponseCacheProofs`: `TypeCorrect`, `IndexNamesEntries`, `InvalidationRemoves`, `NoStaleHit`,
`RecentEntryStays`, from one inductive invariant. For Redis it adds to `IndexCovers` that the index
outlives the entries only it covers, but while a writer is about to prolong it (`Outlived`), that a
writer's TTL is the model's unless the model has had irregular ones (`WriterOK`, `EntryOK`), that an
entry was stamped no later than it was stored, so that a lookup which finds it young is right whatever
the commands took (`RedisGetStep`), and that what an invalidation has still to remove is in what it
has read or cut off, with none of it being written (`OwedOK`). For the memory store it is `Recent`: a
key used `n` times ago stands among the last `n + 1` of the order, which an overwrite, an insertion
into a full store and a read all keep.

`EndpointsProofs`: `TypeCorrect`, `CacheIsScreened`, `CallsAreScreened`, `TenantsStayApart`. The
inductive invariant reads what is left of a path: before the guardrail the prompt is untouched and
after it fit to be sent, before the call there is no answer and after it one of the handler's own key,
and a stored answer was screened first, or is a stream's (`HandlerOK`); an entry lies in the space its
request meant (`EntryOK`). `TenantsStayApart` assumes nothing of namespaces: an answer found without
naming one comes from a request of the same key or team that named none, or from one that named the
very space that is looked into. The second case is real, as `build_cache_key` gives a namespace the
same place in the key as the words `team:<id>` and `key:<id>`.

Only model-checked: liveness (`RequestsEnd`, `StreamsEnd`, `CachedIsBilled`, `CompletesUnlessLost`,
`DueIsReset`), which needs fairness and ENABLED; the two violated safety properties have their
counterexamples.

## Weaknesses of the code met while modelling

Besides the three violated runs, these follow from the modelled steps; the models contain the
behaviour, no property excuses it silently.

Keys, teams and budgets
- Two rotations that read the same old hash leave two raw keys without an end (`disorder`).
- `unblock_key` on an id that was rotated and then deleted writes a record of one field, which the old
  raw key opens during its grace period. An update or a change of members that is under way when a
  team is deleted makes a record of those fields, as does the reset loop with a deleted key.
- A request past authentication calls its provider after a block (PRD:106 says in-flight requests are
  rejected).
- `update_key` sets a duration without a `budget_reset_at` (`virtual_keys.py:261`): such a budget is
  never reset. A duration other than daily or monthly is reset on every pass once due
  (`budgets.py:213`).
- Concurrent changes of members are lost (`torn`).

Limits
- A team or org stored without `rpm_limit` has an empty field, on which `int()` raises
  (`rate_limiter.py:196`); `ParseBlank` ends the request there.
- Two requests with equal token counts in one millisecond are one member of the token window; token
  limits can be overshot by every request between read and zadd.
- The limiter runs before the cache is asked and without `cache_hit`, so hits take tokens (PRD:29).
- When the requested model has no usable deployment, `chat.py:334` puts its fallbacks on the list
  without a look at what is there: one named twice is called twice, one that is the requested model
  never stops (`RoutingLoop`).
- A 200 whose `reset_cooldown` raises is retried and in the end counted as a failure of the deployment
  (`chat.py:397`); an error of Redis while the cooldown is set leaves the count at the threshold
  without one.
- Two requests read the busy counters before either increments one, so `max_parallel_requests` can be
  exceeded; the busy key of a stream that runs longer than 300 s expires and goes to -1 afterwards.

Cache, guardrails and endpoints
- A guardrail whose analyser fails lets the request or the answer pass; a policy the table does not
  know checks nothing; a stream passes no guardrail after the call; redaction leaves content blocks
  and earlier messages alone.
- `embeddings.py:1` announces the full pipeline; there is no guardrail and no cache.
- An answer the guardrail rejects after the call is not charged.
- A request with `no-cache` does not store the fresh answer. The answer to a redacted prompt is stored
  under the key of the unredacted one.
- A namespace (`metadata.cache_namespace`) that reads like `key:<id>` or `team:<id>` is the space of
  that key or team (`cache.py:37-42`), for writing and for reading. The multi-tenant isolation of
  `cache.py:32` and `README.md:46` holds only among requests that name no namespace, or another.
- An entry made by a chat stream without usage makes messages and responses fail on a hit; the memory
  backend hands out its own objects, so a handler that takes `_cached_at` off one takes it off the
  entry, and invalidation does not reach that backend at all.

Streams and batches
- A stream whose client closes the connection at or before `[DONE]` is neither cached nor billed.
- When `reset_cooldown` or `record_spend` raises after `finalize` (`chat.py:275-286`), the entry is
  cached and served but the stream is never billed; its client gets an error chunk and a second
  `[DONE]` after the first (`chat.py:294-300`).
- A Redis call that raises in the `try` of a batch item can count that item twice, and a charged item
  can be listed as failed; a batch whose process died says `processing` until its record expires.

## Not modelled, and what is left

Left out for good: adapters other than Anthropic's (conversions without state), RBAC and JWT (pure
tests), audit log and observability (write-only), routing strategies (pure choices among the healthy,
one nondeterministic choice here), configuration and schemas. The token bucket,
`update_upstream_limits`, `RetryPolicy`, `AllowedFailsPolicy` and the per-model and per-session
budgets have no caller; the generic guardrail API is configured by no policy.

Left out so far, in the order worth doing:

1. An abstract key registry (issue, revoke, retire in one step) that `VirtualKeys` implements as long
   as operations on a key do not overlap; an abstract result log for `Batch`.
2. The change of day of a quota: its counter is read under one date and incremented under the next.
3. The cap on the length of the spend logs and `list_teams`, which meets records that go while it
   reads.
