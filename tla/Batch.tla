------------------------------- MODULE Batch -------------------------------
(***************************************************************************)
(* One batch of routes/batches.py: its record and list of results in       *)
(* Redis, the background task that works through the items, and the        *)
(* clients that ask how far it is.                                         *)
(*                                                                         *)
(* Any Redis call of the task may raise, before or after it took effect (a *)
(* lost reply), the process may die, and the record expires after a day    *)
(* however long the task runs.  Limits and budget of an item are in        *)
(* RateLimiter and Budget, its deployment in Routing.                      *)
(***************************************************************************)
EXTENDS Integers, FiniteSets

CONSTANTS
    Total,      \* items of the batch
    Clients,    \* handlers of GET /v1/batches/{batch_id}
    MaxFaults   \* bound: Redis calls that raise

ASSUME BatchAssumption == Total \in Nat \ {0} /\ MaxFaults \in Nat

Items == 1..Total

-----------------------------------------------------------------------------
VARIABLES
    redis,    \* the record, the results per item, the length of the list of
              \* results, and the charges record_spend made
    task,     \* create_batch and _process_batch
    client,   \* the handlers of get_batch
    faults,   \* history: Redis calls that raised
    crashed   \* history: the process died

vars == <<redis, task, client, faults, crashed>>

\* Fields that are missing read as get_batch reads them.
NoRecord == [present |-> FALSE, status |-> "unknown", total |-> 0, completed |-> 0,
             failed |-> 0, ttl |-> FALSE]
Record == [present : BOOLEAN, status : {"unknown", "processing", "completed"},
           total : {0, Total}, completed : 0..Total, failed : 0..Total + MaxFaults,
           ttl : BOOLEAN]

\* In the try of an item; after it; over.
Trying == {"item", "refuse", "refused", "unanswered", "charge", "push"}
Stages == {"none", "expire", "except", "progress", "status", "over", "dead"} \union Trying

Task == [stage : Stages, item : Items, completed : 0..Total, failed : 0..Total + MaxFaults]

TypeOK ==
    /\ redis \in [record : Record,
                  results : [Items -> [completed : 0..1, failed : 0..2 + MaxFaults]],
                  length : Nat, charged : [Items -> 0..1]]
    /\ task \in Task
    /\ client \in [Clients -> [stage : {"idle", "results", "replied"}, seen : Record, listed : Nat]]
    /\ faults \in 0..MaxFaults
    /\ crashed \in BOOLEAN

Init ==
    /\ redis = [record |-> NoRecord,
                results |-> [i \in Items |-> [completed |-> 0, failed |-> 0]],
                length |-> 0, charged |-> [i \in Items |-> 0]]
    /\ task = [stage |-> "none", item |-> 1, completed |-> 0, failed |-> 0]
    /\ client = [c \in Clients |-> [stage |-> "idle", seen |-> NoRecord, listed |-> 0]]
    /\ faults = 0
    /\ crashed = FALSE

-----------------------------------------------------------------------------
(* Redis writes.                                                           *)

\* A call that writes `after`: the task goes on as `good`, or as `bad` when it
\* raises, which it does with or without its effect.
Await(after, good, bad) ==
    /\ \/ redis' = after /\ task' = good /\ UNCHANGED faults
       \/ /\ faults < MaxFaults /\ faults' = faults + 1
          /\ redis' \in {redis, after}
          /\ task' = bad
    /\ UNCHANGED <<client, crashed>>

\* HSET of fields makes the record when there is none, without a TTL.
WithFields(fields) == [redis EXCEPT !.record = [fields EXCEPT !.present = TRUE]]

WithFailure(i) == [redis EXCEPT !.results[i].failed = @ + 1, !.length = @ + 1]

WithCompletion(i) == [redis EXCEPT !.results[i].completed = @ + 1, !.length = @ + 1]

WithProgress(t) == WithFields([redis.record EXCEPT !.completed = t.completed, !.failed = t.failed])

-----------------------------------------------------------------------------
(* Where the task goes on.                                                 *)

To(t, stage) == [t EXCEPT !.stage = stage]
Failed(t) == [t EXCEPT !.failed = @ + 1]
Completed(t) == [t EXCEPT !.completed = @ + 1]

NextItem(t) == IF t.item = Total THEN To(t, "status") ELSE [t EXCEPT !.stage = "item", !.item = @ + 1]

\* Mutants: an exception outside of a try is caught too, and the batch closed;
\* no exception is caught.
RaisedButClosed(t) == To(t, IF t.stage \in Trying THEN "except" ELSE "status")
RaisedUncaught(t) == To(t, "dead")

\* An exception in the try of an item; anywhere else it ends the task.
Raised(t) == To(t, IF t.stage \in Trying THEN "except" ELSE "dead")

-----------------------------------------------------------------------------
(* create_batch                                                            *)

CreateBatch ==
    /\ task.stage = "none"
    /\ Await(WithFields([NoRecord EXCEPT !.status = "processing", !.total = Total]),
             To(task, "expire"), Raised(task))

\* expire, and create_task right after it
StartTask ==
    /\ task.stage = "expire"
    /\ Await([redis EXCEPT !.record.ttl = redis.record.present], To(task, "item"), Raised(task))

-----------------------------------------------------------------------------
(* _process_batch                                                          *)

\* Limits, budget, guardrails, deployment and provider call: refused, answered
\* with an error, answered, or an exception.
TryItem ==
    /\ task.stage = "item"
    /\ task' \in {To(task, "refuse"), To(task, "unanswered"), To(task, "charge"), Raised(task)}
    /\ UNCHANGED <<redis, client, faults, crashed>>

\* Mutant: the refusal is counted, not recorded.
RefuseSilently ==
    /\ task.stage = "refuse"
    /\ task' = To(Failed(task), "refused")
    /\ UNCHANGED <<redis, client, faults, crashed>>

\* _record_failure of an item that is refused
Refuse ==
    /\ task.stage = "refuse"
    /\ Await(WithFailure(task.item), To(Failed(task), "refused"), Raised(task))

\* ... the progress of it, still in the try, and continue.
Refused ==
    /\ task.stage = "refused"
    /\ Await(WithProgress(task), NextItem(task), Raised(task))

\* The provider returned another status than 200.
Unanswered ==
    /\ task.stage = "unanswered"
    /\ Await(WithFailure(task.item), To(Failed(task), "progress"), Raised(task))

\* Mutant: the result is listed although record_spend failed.
ChargeIfPossible ==
    /\ task.stage = "charge"
    /\ Await([redis EXCEPT !.charged[task.item] = @ + 1], To(task, "push"), To(task, "push"))

\* record_spend
Charge ==
    /\ task.stage = "charge"
    /\ Await([redis EXCEPT !.charged[task.item] = @ + 1], To(task, "push"), Raised(task))

PushResult ==
    /\ task.stage = "push"
    /\ Await(WithCompletion(task.item), To(Completed(task), "progress"), Raised(task))

\* except Exception: the item has failed, whatever it already was.
RecordException ==
    /\ task.stage = "except"
    /\ Await(WithFailure(task.item), To(Failed(task), "progress"), Raised(task))

UpdateProgress ==
    /\ task.stage = "progress"
    /\ Await(WithProgress(task), NextItem(task), Raised(task))

CompleteBatch ==
    /\ task.stage = "status"
    /\ Await(WithFields([redis.record EXCEPT !.status = "completed"]), To(task, "over"), Raised(task))

\* The process dies; nothing starts a batch again.
Crash ==
    /\ task.stage \notin {"none", "over", "dead"}
    /\ task' = To(task, "dead")
    /\ crashed' = TRUE
    /\ UNCHANGED <<redis, client, faults>>

\* The TTL of the record; the list of results has none.
RecordExpires ==
    /\ redis.record.ttl
    /\ redis' = [redis EXCEPT !.record = NoRecord]
    /\ UNCHANGED <<task, client, faults, crashed>>

-----------------------------------------------------------------------------
(* get_batch                                                               *)

\* hgetall; 404 without a record
ReadRecord(c) ==
    /\ client[c].stage = "idle" /\ redis.record.present
    /\ client' = [client EXCEPT ![c].stage = "results", ![c].seen = redis.record]
    /\ UNCHANGED <<redis, task, faults, crashed>>

\* lrange and the reply
ReadResults(c) ==
    /\ client[c].stage = "results"
    /\ client' = [client EXCEPT ![c].stage = "replied", ![c].listed = redis.length]
    /\ UNCHANGED <<redis, task, faults, crashed>>

Forget(c) ==
    /\ client[c].stage = "replied"
    /\ client' = [client EXCEPT ![c] = [stage |-> "idle", seen |-> NoRecord, listed |-> 0]]
    /\ UNCHANGED <<redis, task, faults, crashed>>

Process ==
    \/ StartTask
    \/ TryItem
    \/ Refuse
    \/ Refused
    \/ Unanswered
    \/ Charge
    \/ PushResult
    \/ RecordException
    \/ UpdateProgress
    \/ CompleteBatch

Next ==
    \/ CreateBatch
    \/ Process
    \/ Crash
    \/ RecordExpires
    \/ \E c \in Clients : ReadRecord(c) \/ ReadResults(c) \/ Forget(c)

\* The event loop runs the task, Redis answers or fails, and the provider call
\* has a timeout.
Spec == Init /\ [][Next]_vars /\ WF_vars(Process)

-----------------------------------------------------------------------------
(* Properties.                                                             *)

\* A reply takes record and results in two reads while the task goes on, and
\* still lists at least what it counts.
RepliesAreListed ==
    \A c \in Clients :
        client[c].stage = "replied" =>
            client[c].seen.completed + client[c].seen.failed <= client[c].listed

\* An item is listed as completed only when it has been paid for.
CompletedIsCharged == \A i \in Items : redis.results[i].completed <= redis.charged[i]

\* A batch that calls itself completed has a result for every item, also when
\* Redis calls failed and when its record expired on the way.
CompletedIsWhole ==
    redis.record.status = "completed" =>
        \A i \in Items : redis.results[i].completed + redis.results[i].failed >= 1

\* A batch under way is called completed in the end, unless its process dies
\* or a Redis call raises: nothing takes such a batch up again.
CompletesUnlessLost ==
    task.stage = "item" ~> (redis.record.status = "completed" \/ faults > 0 \/ crashed)
=============================================================================
