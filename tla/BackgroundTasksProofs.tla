----------------------- MODULE BackgroundTasksProofs ------------------------
(***************************************************************************)
(* Proofs about BackgroundTasks.  Batches: nothing is listed as completed  *)
(* that was not charged and a batch called completed is whole, for any     *)
(* number of items and of Redis calls that raise.  The budget scheduler:   *)
(* no key is reset before the period of its last reset is over, for any    *)
(* keys, periods, clock and number of aborted passes, while keys are made, *)
(* changed and deleted.                                                    *)
(***************************************************************************)
EXTENDS BackgroundTasks, TLAPS

-----------------------------------------------------------------------------
(* The tasks behave as the batch and as the scheduler.                     *)

\* A step of the one leaves the other as it is.
LEMMA BothRun ==
  TasksSpec => /\ Init /\ [][Next]_vars
               /\ R!Init /\ [][R!Next]_R!vars
<1>1. TasksInit => Init /\ R!Init
  BY DEF TasksInit
<1>2. [TasksNext]_<<scheduler, vars, reset>> => [Next]_vars /\ [R!Next]_R!vars
  BY DEF TasksNext, reset, R!vars
<1> QED
  BY <1>1, <1>2, PTL DEF TasksSpec

-----------------------------------------------------------------------------
(* Batches: types, as far as they are needed.                              *)

Counts == [completed : Nat, failed : Nat]

Fields == [present : BOOLEAN, status : {"unknown", "processing", "completed"}, total : {0, Total},
           completed : Nat, failed : Nat, ttl : BOOLEAN]

Store == [record : Fields, results : [Items -> Counts], length : Nat, charged : [Items -> Nat]]

Working == [stage : Stages, item : Items, completed : Nat, failed : Nat]

Typed == redis \in Store /\ task \in Working

\* The two writes of a result touch one count of one item, and the list grows.
LEMMA Results ==
  ASSUME redis \in Store, NEW i \in Items
  PROVE  /\ WithFailure(i) \in Store /\ WithCompletion(i) \in Store
         /\ WithFailure(i).record = redis.record /\ WithCompletion(i).record = redis.record
         /\ WithFailure(i).charged = redis.charged /\ WithCompletion(i).charged = redis.charged
         /\ WithFailure(i).length = redis.length + 1
         /\ WithCompletion(i).length = redis.length + 1
         /\ \A j \in Items \ {i} : /\ WithFailure(i).results[j] = redis.results[j]
                                   /\ WithCompletion(i).results[j] = redis.results[j]
         /\ WithFailure(i).results[i].completed = redis.results[i].completed
         /\ WithFailure(i).results[i].failed = redis.results[i].failed + 1
         /\ WithCompletion(i).results[i].completed = redis.results[i].completed + 1
         /\ WithCompletion(i).results[i].failed = redis.results[i].failed
<1> DEFINE f == [redis.results[i] EXCEPT !.failed = @ + 1]
           c == [redis.results[i] EXCEPT !.completed = @ + 1]
<1>1. f \in Counts /\ c \in Counts
  BY DEF Store, Counts
<1>2. /\ WithFailure(i).results = [redis.results EXCEPT ![i] = f]
      /\ WithCompletion(i).results = [redis.results EXCEPT ![i] = c]
  BY DEF Store, WithFailure, WithCompletion
<1>3. WithFailure(i) \in Store /\ WithCompletion(i) \in Store
  <2>1. /\ [redis.results EXCEPT ![i] = f] \in [Items -> Counts]
        /\ [redis.results EXCEPT ![i] = c] \in [Items -> Counts]
        /\ redis.length + 1 \in Nat
    BY <1>1 DEF Store
  <2>2. /\ WithFailure(i) = [redis EXCEPT !.results = [redis.results EXCEPT ![i] = f],
                                          !.length = redis.length + 1]
        /\ WithCompletion(i) = [redis EXCEPT !.results = [redis.results EXCEPT ![i] = c],
                                             !.length = redis.length + 1]
    BY DEF Store, WithFailure, WithCompletion
  <2> HIDE DEF f, c
  <2> QED
    BY <2>1, <2>2 DEF Store
<1> QED
  BY <1>1, <1>2, <1>3 DEF Store, Counts, WithFailure, WithCompletion

\* A write of fields leaves results and charges alone and sets status and counts.
LEMMA FieldsWritten ==
  ASSUME redis \in Store, NEW fields \in Fields
  PROVE  /\ WithFields(fields) \in Store
         /\ WithFields(fields).results = redis.results
         /\ WithFields(fields).charged = redis.charged
         /\ WithFields(fields).length = redis.length
         /\ WithFields(fields).record.status = fields.status
         /\ WithFields(fields).record.completed = fields.completed
         /\ WithFields(fields).record.failed = fields.failed
<1>1. [fields EXCEPT !.present = TRUE] \in Fields
  BY DEF Fields
<1> QED
  BY <1>1 DEF Store, Fields, WithFields

\* Progress is a write of two counts: the status stays.
LEMMA ProgressWritten ==
  ASSUME redis \in Store, NEW t \in Working
  PROVE  /\ WithProgress(t) \in Store
         /\ WithProgress(t).results = redis.results
         /\ WithProgress(t).charged = redis.charged
         /\ WithProgress(t).length = redis.length
         /\ WithProgress(t).record.status = redis.record.status
         /\ WithProgress(t).record.completed = t.completed
         /\ WithProgress(t).record.failed = t.failed
<1> DEFINE fields == [redis.record EXCEPT !.completed = t.completed, !.failed = t.failed]
<1>1. /\ fields \in Fields /\ fields.status = redis.record.status
      /\ fields.completed = t.completed /\ fields.failed = t.failed
  BY DEF Store, Fields, Working
<1> QED
  BY <1>1, FieldsWritten DEF WithProgress

\* Where the task can go from an item.
LEMMA Moves ==
  ASSUME task \in Working
  PROVE  /\ \A s \in Stages : /\ To(task, s) \in Working
                              /\ To(task, s).stage = s /\ To(task, s).item = task.item
                              /\ To(Failed(task), s) \in Working
                              /\ To(Failed(task), s).stage = s /\ To(Failed(task), s).item = task.item
                              /\ To(Completed(task), s) \in Working
                              /\ To(Completed(task), s).stage = s
                              /\ To(Completed(task), s).item = task.item
         /\ Raised(task) \in Working /\ Raised(task).item = task.item
         /\ Raised(task).stage \in {"except", "dead"}
         /\ NextItem(task) \in Working
         /\ \/ /\ task.item = Total /\ NextItem(task).stage = "status"
               /\ NextItem(task).item = task.item
            \/ /\ NextItem(task).stage = "item" /\ NextItem(task).item = task.item + 1
<1>1. \A s \in Stages : /\ To(task, s) \in Working
                        /\ To(task, s).stage = s /\ To(task, s).item = task.item
  BY DEF To, Working
<1>2. Failed(task) \in Working /\ Failed(task).item = task.item
  BY DEF Failed, Working
<1>3. Completed(task) \in Working /\ Completed(task).item = task.item
  BY DEF Completed, Working
<1>4. \A s \in Stages : /\ To(Failed(task), s) \in Working
                        /\ To(Failed(task), s).stage = s /\ To(Failed(task), s).item = task.item
  BY <1>2 DEF To, Working
<1>5. \A s \in Stages : /\ To(Completed(task), s) \in Working
                        /\ To(Completed(task), s).stage = s /\ To(Completed(task), s).item = task.item
  BY <1>3 DEF To, Working
<1>6. "except" \in Stages /\ "dead" \in Stages /\ "status" \in Stages /\ "item" \in Stages
  BY DEF Stages, Trying
<1>7. Raised(task) \in Working /\ Raised(task).item = task.item /\ Raised(task).stage \in {"except", "dead"}
  BY <1>1, <1>6 DEF Raised
<1>8. CASE task.item = Total
  BY <1>1, <1>4, <1>5, <1>6, <1>7, <1>8 DEF NextItem
<1>9. CASE task.item # Total
  <2>1. task.item + 1 \in Items
    BY <1>9, BatchAssumption DEF Working, Items
  <2>2. NextItem(task) = [task EXCEPT !.stage = "item", !.item = task.item + 1]
    BY <1>9 DEF NextItem
  <2>3. /\ NextItem(task) \in Working /\ NextItem(task).stage = "item"
        /\ NextItem(task).item = task.item + 1
    BY <1>6, <2>1, <2>2 DEF Working
  <2> QED
    BY <1>1, <1>4, <1>5, <1>7, <2>3
<1> QED
  BY <1>8, <1>9

\* Before its result is pushed an item has not been completed, and it gets there
\* through the charge.
Unfinished == {"none", "expire", "item", "refuse", "unanswered", "charge", "push"}

\* The steps of the whole, seen from the task and its item: what they write,
\* and where the task is afterwards.
Quiet ==
    /\ redis' \in Store /\ task' \in Working
    /\ redis'.results = redis.results /\ redis'.charged = redis.charged

\* The task stands still, or a step wrote fields and left the item where it is.
Stays ==
    /\ Quiet
    /\ task'.item = task.item
    /\ \/ task' = task
       \/ /\ task'.stage \in {"expire", "refuse", "unanswered", "charge"}
          /\ task.stage \in Unfinished
       \/ task'.stage = "item" /\ task.stage = "expire"
       \/ task'.stage \in {"except", "dead"}
       \/ task'.stage = "over" /\ task.stage = "status"
    /\ redis'.record.status = "completed" => redis.record.status = "completed" \/ task.stage = "status"

\* The progress of an item that has its result is written, and the task goes on.
GoesOn ==
    /\ Quiet
    /\ task.stage \in {"refused", "progress"}
    /\ task' = NextItem(task)
    /\ redis'.record.status = redis.record.status

\* The item is listed as failed.
Fails ==
    /\ redis' = WithFailure(task.item)
    /\ task' \in Working /\ task'.item = task.item
    /\ task'.stage \in {"refused", "progress", "except", "dead"}

\* The item is charged, for good or with an exception behind it.
Charges ==
    /\ redis' = [redis EXCEPT !.charged[task.item] = @ + 1]
    /\ task' \in Working /\ task'.item = task.item
    /\ task.stage = "charge"
    /\ task'.stage \in {"push", "except", "dead"}

\* The item is listed as completed.
Completes ==
    /\ redis' = WithCompletion(task.item)
    /\ task' \in Working /\ task'.item = task.item
    /\ task.stage = "push"
    /\ task'.stage \in {"progress", "except", "dead"}

\* Every step is one of these.
LEMMA StepKinds ==
  ASSUME Typed, [Next]_vars
  PROVE  Stays \/ GoesOn \/ Fails \/ Charges \/ Completes
<1> USE DEF Typed
<1>0. /\ {"none", "expire", "except", "progress", "status", "over", "dead"} \subseteq Stages
      /\ {"item", "refuse", "refused", "unanswered", "charge", "push"} \subseteq Stages
  BY DEF Stages, Trying
<1>1. CASE CreateBatch
  <2> DEFINE fields == [NoRecord EXCEPT !.status = "processing", !.total = Total]
  <2>1. fields \in Fields /\ fields.status = "processing"
    BY DEF NoRecord, Fields
  <2>2. task.stage = "none" /\ redis' \in {redis, WithFields(fields)}
        /\ task' \in {To(task, "expire"), Raised(task)}
    BY <1>1 DEF CreateBatch, Await
  <2>3. /\ redis' \in Store /\ redis'.results = redis.results /\ redis'.charged = redis.charged
        /\ redis'.record.status = "completed" => redis.record.status = "completed"
    <3> HIDE DEF fields
    <3> QED
      BY <2>1, <2>2, FieldsWritten
  <2>4. /\ task' \in Working /\ task'.item = task.item
        /\ task'.stage \in {"expire", "except", "dead"} /\ task.stage \in Unfinished
    BY <1>0, <2>2, Moves DEF Unfinished
  <2> QED
    BY <2>3, <2>4 DEF Stays, Quiet
<1>2. CASE StartTask
  <2> DEFINE after == [redis EXCEPT !.record.ttl = redis.record.present]
  <2>1. /\ after \in Store /\ after.results = redis.results /\ after.charged = redis.charged
        /\ after.record.status = redis.record.status
    <3>1. [redis.record EXCEPT !.ttl = redis.record.present] \in Fields
      BY DEF Store, Fields
    <3>2. after = [redis EXCEPT !.record = [redis.record EXCEPT !.ttl = redis.record.present]]
      BY DEF Store
    <3> QED
      BY <3>1, <3>2 DEF Store, Fields
  <2>2. task.stage = "expire" /\ redis' \in {redis, after}
        /\ task' \in {To(task, "item"), Raised(task)}
    BY <1>2 DEF StartTask, Await
  <2>3. /\ redis' \in Store /\ redis'.results = redis.results /\ redis'.charged = redis.charged
        /\ redis'.record.status = redis.record.status
    <3> HIDE DEF after
    <3> QED
      BY <2>1, <2>2
  <2>4. /\ task' \in Working /\ task'.item = task.item
        /\ task'.stage \in {"item", "except", "dead"} /\ task.stage = "expire"
    BY <1>0, <2>2, Moves
  <2> QED
    BY <2>3, <2>4 DEF Stays, Quiet
<1>3. CASE TryItem
  <2>1. /\ task.stage = "item" /\ redis' = redis
        /\ task' \in {To(task, "refuse"), To(task, "unanswered"), To(task, "charge"), Raised(task)}
    BY <1>3 DEF TryItem
  <2> QED
    BY <1>0, <2>1, Moves DEF Stays, Quiet, Unfinished
<1>4. ASSUME NEW good, good \in {To(Failed(task), "refused"), To(Failed(task), "progress")},
             Await(WithFailure(task.item), good, Raised(task))
      PROVE  Stays \/ Fails
  <2>1. \/ redis' = WithFailure(task.item) /\ task' \in {good, Raised(task)}
        \/ redis' = redis /\ task' = Raised(task)
    BY <1>4 DEF Await
  <2> QED
    BY <1>0, <1>4, <2>1, Moves DEF Stays, Quiet, Fails
<1>5. CASE Refuse
  BY <1>4, <1>5 DEF Refuse
<1>6. CASE Unanswered
  BY <1>4, <1>6 DEF Unanswered
<1>7. CASE RecordException
  BY <1>4, <1>7 DEF RecordException
<1>8. CASE Refused \/ UpdateProgress
  <2>1. /\ task.stage \in {"refused", "progress"} /\ redis' \in {redis, WithProgress(task)}
        /\ \/ redis' = WithProgress(task) /\ task' = NextItem(task)
           \/ task' = Raised(task)
    BY <1>8 DEF Refused, UpdateProgress, Await
  <2> QED
    BY <1>0, <2>1, ProgressWritten, Moves DEF Stays, Quiet, GoesOn
<1>9. CASE Charge
  <2> DEFINE after == [redis EXCEPT !.charged[task.item] = @ + 1]
  <2>1. /\ task.stage = "charge"
        /\ \/ redis' = after /\ task' \in {To(task, "push"), Raised(task)}
           \/ redis' = redis /\ task' = Raised(task)
    BY <1>9 DEF Charge, Await
  <2> QED
    BY <1>0, <2>1, Moves DEF Stays, Quiet, Charges
<1>10. CASE PushResult
  <2>1. /\ task.stage = "push"
        /\ \/ redis' = WithCompletion(task.item) /\ task' \in {To(Completed(task), "progress"), Raised(task)}
           \/ redis' = redis /\ task' = Raised(task)
    BY <1>10 DEF PushResult, Await
  <2> QED
    BY <1>0, <2>1, Moves DEF Stays, Quiet, Completes
<1>11. CASE CompleteBatch
  <2> DEFINE fields == [redis.record EXCEPT !.status = "completed"]
  <2>1. fields \in Fields
    BY DEF Store, Fields
  <2>2. /\ task.stage = "status" /\ redis' \in {redis, WithFields(fields)}
        /\ task' \in {To(task, "over"), Raised(task)}
    BY <1>11 DEF CompleteBatch, Await
  <2> QED
    BY <1>0, <2>1, <2>2, FieldsWritten, Moves DEF Stays, Quiet
<1>12. CASE Crash
  <2>1. redis' = redis /\ task' = To(task, "dead")
    BY <1>12 DEF Crash
  <2> QED
    BY <1>0, <2>1, Moves DEF Stays, Quiet
<1>13. CASE RecordExpires
  <2>1. redis' = [redis EXCEPT !.record = NoRecord] /\ task' = task
    BY <1>13 DEF RecordExpires
  <2>2. NoRecord \in Fields /\ NoRecord.status = "unknown"
    BY DEF NoRecord, Fields
  <2> QED
    BY <2>1, <2>2 DEF Stays, Quiet, Store
<1>14. ASSUME UNCHANGED <<redis, task>>
       PROVE  Stays
  BY <1>14 DEF Stays, Quiet
<1>15. ASSUME NEW c \in Clients, ReadRecord(c) \/ ReadResults(c) \/ Forget(c)
       PROVE  Stays
  BY <1>14, <1>15 DEF ReadRecord, ReadResults, Forget
<1>16. CASE UNCHANGED vars
  BY <1>14, <1>16 DEF vars
<1> QED
  BY <1>1, <1>2, <1>3, <1>5, <1>6, <1>7, <1>8, <1>9, <1>10, <1>11, <1>12, <1>13, <1>15, <1>16
  DEF Next, Process

-----------------------------------------------------------------------------
(* The theorems.                                                           *)

\* The store and the task keep their types.
LEMMA TypedAlways == Spec => []Typed
<1>1. Init => Typed
  <2> SUFFICES ASSUME Init PROVE Typed
    OBVIOUS
  <2>1. NoRecord \in Fields /\ 1 \in Items /\ "none" \in Stages
    BY BatchAssumption DEF NoRecord, Fields, Items, Stages
  <2>2. [i \in Items |-> [completed |-> 0, failed |-> 0]] \in [Items -> Counts]
    BY DEF Counts
  <2> QED
    BY <2>1, <2>2 DEF Init, Typed, Store, Working
<1>2. Typed /\ [Next]_vars => Typed'
  <2> SUFFICES ASSUME Typed, [Next]_vars PROVE Typed'
    OBVIOUS
  <2>1. task.item \in Items
    BY DEF Typed, Working
  <2>2. CASE Stays \/ GoesOn
    BY <2>2 DEF Stays, GoesOn, Quiet, Typed
  <2>3. CASE Fails \/ Completes
    BY <2>1, <2>3, Results DEF Fails, Completes, Typed
  <2>4. CASE Charges
    <3>1. [redis EXCEPT !.charged[task.item] = @ + 1] \in Store
      BY <2>1 DEF Typed, Store
    <3> QED
      BY <2>4, <3>1 DEF Charges, Typed
  <2> QED
    BY <2>2, <2>3, <2>4, StepKinds
<1> QED
  BY <1>1, <1>2, PTL DEF Spec

\* An item under way is not listed as completed before its result is pushed,
\* and is charged before that.
Paid ==
    /\ \A i \in Items : redis.results[i].completed <= redis.charged[i]
    /\ \A i \in Items : i > task.item => redis.results[i].completed = 0
    /\ task.stage \in Unfinished => redis.results[task.item].completed = 0
    /\ task.stage = "push" => redis.charged[task.item] >= 1

\* _process_batch lists an item as completed only after record_spend, whichever
\* of its Redis calls raise, with or without their effect, and wherever the
\* process dies.
THEOREM CompletedIsPaid == Spec => []CompletedIsCharged
<1>1. Init => Paid
  <2> SUFFICES ASSUME Init PROVE Paid
    OBVIOUS
  <2>1. \A i \in Items : redis.results[i].completed = 0 /\ redis.charged[i] = 0
    BY DEF Init
  <2>2. task.stage = "none" /\ task.item \in Items
    BY BatchAssumption DEF Init, Items
  <2> QED
    BY <2>1, <2>2 DEF Paid
<1>2. Typed /\ Typed' /\ Paid /\ [Next]_vars => Paid'
  <2> SUFFICES ASSUME Typed, Typed', Paid, [Next]_vars PROVE Paid'
    OBVIOUS
  <2>0. /\ task.item \in Items /\ task'.item \in Items
        /\ task.item \in Nat /\ task'.item \in Nat /\ \A i \in Items : i \in Nat
        /\ \A i \in Items : /\ redis.results[i].completed \in Nat /\ redis.charged[i] \in Nat
                            /\ redis'.results[i].completed \in Nat /\ redis'.charged[i] \in Nat
    <3>1. task.item \in Items /\ task'.item \in Items
      BY DEF Typed, Working
    <3>2. Items \subseteq Nat
      BY BatchAssumption DEF Items
    <3>3. \A i \in Items : redis.results[i] \in Counts /\ redis.charged[i] \in Nat
      BY DEF Typed, Store
    <3>4. \A i \in Items : redis'.results[i] \in Counts /\ redis'.charged[i] \in Nat
      BY DEF Typed, Store
    <3> QED
      BY <3>1, <3>2, <3>3, <3>4 DEF Counts
  <2>1. CASE Stays
    <3>1. /\ redis'.results = redis.results /\ redis'.charged = redis.charged
          /\ task'.item = task.item
          /\ task'.stage \in Unfinished => task.stage \in Unfinished
          /\ task'.stage = "push" => task.stage = "push"
      BY <2>1 DEF Stays, Quiet, Unfinished
    <3> QED
      BY <3>1 DEF Paid
  <2>2. CASE GoesOn
    <3>1. /\ redis'.results = redis.results /\ redis'.charged = redis.charged
          /\ \/ task'.item = task.item /\ task'.stage = "status"
             \/ task'.item = task.item + 1 /\ task'.stage = "item"
      BY <2>2, Moves DEF GoesOn, Quiet, Typed
    <3>2. \A i \in Items : redis'.results[i].completed <= redis'.charged[i]
      BY <3>1 DEF Paid
    <3>3. task'.item \in Nat /\ task.item \in Nat /\ task'.item >= task.item
      BY <2>0, <3>1
    <3>4. ASSUME NEW i \in Items, i > task'.item
          PROVE  redis'.results[i].completed = 0
      <4>1. i \in Nat /\ i > task.item
        BY <2>0, <3>3, <3>4
      <4> QED
        BY <3>1, <4>1 DEF Paid
    <3>5. task'.stage \in Unfinished => redis'.results[task'.item].completed = 0
      <4>1. CASE task'.item = task.item + 1
        <5>1. task'.item > task.item
          BY <3>3, <4>1
        <5> QED
          BY <2>0, <3>1, <5>1 DEF Paid
      <4>2. CASE task'.stage = "status"
        BY <4>2 DEF Unfinished
      <4> QED
        BY <3>1, <4>1, <4>2
    <3>6. task'.stage # "push"
      BY <3>1
    <3> QED
      BY <3>2, <3>4, <3>5, <3>6 DEF Paid
  <2>3. CASE Fails
    <3>1. /\ redis'.charged = redis.charged /\ task'.item = task.item
          /\ \A i \in Items : redis'.results[i].completed = redis.results[i].completed
          /\ task'.stage \notin Unfinished
      <4>1. /\ redis'.charged = redis.charged
            /\ redis'.results[task.item].completed = redis.results[task.item].completed
            /\ \A i \in Items \ {task.item} : redis'.results[i] = redis.results[i]
        BY <2>0, <2>3, Results DEF Fails, Typed
      <4>2. task'.item = task.item /\ task'.stage \notin Unfinished
        BY <2>3 DEF Fails, Unfinished
      <4>3. ASSUME NEW i \in Items
            PROVE  redis'.results[i].completed = redis.results[i].completed
        <5>1. CASE i = task.item
          BY <4>1, <5>1
        <5>2. CASE i # task.item
          <6>1. redis'.results[i] = redis.results[i]
            BY <4>1, <5>2
          <6> QED
            BY <6>1
        <5> QED
          BY <5>1, <5>2
      <4> QED
        BY <4>1, <4>2, <4>3
    <3> QED
      BY <2>0, <3>1 DEF Paid, Unfinished
  <2>4. CASE Charges
    <3>1. /\ redis'.results = redis.results /\ task'.item = task.item /\ task.stage = "charge"
          /\ redis'.charged = [redis.charged EXCEPT ![task.item] = @ + 1]
      BY <2>4 DEF Charges, Typed, Store
    <3>2. /\ redis'.charged[task.item] = redis.charged[task.item] + 1
          /\ \A i \in Items \ {task.item} : redis'.charged[i] = redis.charged[i]
      BY <2>0, <3>1 DEF Typed, Store
    <3>3. redis.results[task.item].completed = 0
      BY <3>1 DEF Paid, Unfinished
    <3>4. ASSUME NEW i \in Items
          PROVE  redis'.results[i].completed <= redis'.charged[i]
      <4>1. CASE i = task.item
        BY <2>0, <3>1, <3>2, <3>3, <4>1
      <4>2. CASE i # task.item
        BY <3>1, <3>2, <4>2 DEF Paid
      <4> QED
        BY <4>1, <4>2
    <3>5. redis'.charged[task'.item] >= 1
      <4>1. redis.charged[task.item] \in Nat
        BY <2>0
      <4> QED
        BY <3>1, <3>2, <4>1
    <3>6. \A i \in Items : i > task'.item => redis'.results[i].completed = 0
      BY <3>1 DEF Paid
    <3> QED
      BY <3>1, <3>3, <3>4, <3>5, <3>6 DEF Paid
  <2>5. CASE Completes
    <3>1. /\ redis'.charged = redis.charged /\ task'.item = task.item /\ task.stage = "push"
          /\ redis'.results[task.item].completed = redis.results[task.item].completed + 1
          /\ \A i \in Items \ {task.item} : redis'.results[i] = redis.results[i]
          /\ task'.stage \notin Unfinished
      <4>1. /\ redis'.charged = redis.charged
            /\ redis'.results[task.item].completed = redis.results[task.item].completed + 1
            /\ \A i \in Items \ {task.item} : redis'.results[i] = redis.results[i]
        BY <2>0, <2>5, Results DEF Completes, Typed
      <4>2. task'.item = task.item /\ task.stage = "push" /\ task'.stage \notin Unfinished
        BY <2>5 DEF Completes, Unfinished
      <4> QED
        BY <4>1, <4>2
    <3>2. redis.results[task.item].completed = 0 /\ redis.charged[task.item] >= 1
      BY <3>1 DEF Paid, Unfinished
    <3> QED
      BY <2>0, <3>1, <3>2 DEF Paid, Unfinished
  <2> QED
    BY <2>1, <2>2, <2>3, <2>4, <2>5, StepKinds
<1>3. Paid => CompletedIsCharged
  BY DEF Paid, CompletedIsCharged
<1> QED
  BY <1>1, <1>2, <1>3, TypedAlways, PTL DEF Spec

\* Item i has a result in the list.
Has(i) == redis.results[i].completed + redis.results[i].failed >= 1

\* The items behind the task have results, and so has its own one when it is
\* about to go on; only past the last one the batch is called completed.
Behind ==
    /\ \A i \in Items : i < task.item => Has(i)
    /\ task.stage \in {"refused", "progress", "status", "over"} => Has(task.item)
    /\ task.stage \in {"status", "over"} => task.item = Total
    /\ redis.record.status = "completed" => \A i \in Items : Has(i)

\* A batch whose record says completed has a result for every item: no call that
\* raises, in or out of the try, lets the task pass an item silently.
THEOREM CompletedHasAll == Spec => []CompletedIsWhole
<1>1. Init => Behind
  BY DEF Init, Behind, NoRecord, Items
<1>2. Typed /\ Typed' /\ Behind /\ [Next]_vars => Behind'
  <2> SUFFICES ASSUME Typed, Typed', Behind, [Next]_vars PROVE Behind'
    OBVIOUS
  <2>0. /\ task.item \in Items /\ task'.item \in Items
        /\ task.item \in Nat /\ task'.item \in Nat /\ Total \in Nat
        /\ \A i \in Items : i \in Nat /\ i <= Total
        /\ \A i \in Items : redis.results[i] \in Counts /\ redis'.results[i] \in Counts
    BY BatchAssumption DEF Typed, Working, Store, Items
  <2>1. CASE Stays
    <3>1. /\ redis'.results = redis.results /\ task'.item = task.item
          /\ task'.stage \in {"refused", "progress"} => task.stage = task'.stage
          /\ task'.stage \in {"status", "over"} => task.stage \in {"status", "over"}
          /\ redis'.record.status = "completed" =>
               redis.record.status = "completed" \/ task.stage = "status"
      BY <2>1 DEF Stays, Quiet
    <3>2. \A i \in Items : Has(i) => Has(i)'
      BY <3>1 DEF Has
    <3>3. task.stage = "status" => \A i \in Items : Has(i)
      BY <2>0 DEF Behind
    <3> QED
      BY <2>0, <3>1, <3>2, <3>3 DEF Behind, Has
  <2>2. CASE GoesOn
    <3>1. /\ redis'.results = redis.results /\ redis'.record.status = redis.record.status
          /\ task.stage \in {"refused", "progress"}
          /\ \/ task.item = Total /\ task'.item = task.item /\ task'.stage = "status"
             \/ task'.item = task.item + 1 /\ task'.stage = "item"
      BY <2>2, Moves DEF GoesOn, Quiet, Typed
    <3>2. \A i \in Items : Has(i) => Has(i)'
      BY <3>1 DEF Has
    <3>3. ASSUME NEW i \in Items, i <= task.item
          PROVE  Has(i)
      <4>1. CASE i = task.item
        BY <3>1, <4>1 DEF Behind
      <4>2. CASE i # task.item
        <5>1. i < task.item
          BY <2>0, <3>3, <4>2
        <5> QED
          BY <5>1 DEF Behind
      <4> QED
        BY <4>1, <4>2
    <3>4. ASSUME NEW i \in Items, i < task'.item
          PROVE  Has(i)'
      <4>1. i <= task.item
        BY <2>0, <3>1, <3>4
      <4> QED
        BY <3>2, <3>3, <4>1
    <3>5. task'.stage \in {"refused", "progress", "status", "over"}
            => task'.stage = "status" /\ task'.item = Total /\ task'.item = task.item
      BY <3>1
    <3>6. task'.stage \in {"refused", "progress", "status", "over"} => Has(task.item)'
      BY <2>0, <3>2, <3>3, <3>5
    <3>7. redis'.record.status = "completed" => \A i \in Items : Has(i)'
      BY <3>1, <3>2 DEF Behind
    <3> HIDE DEF Has
    <3> QED
      BY <3>4, <3>5, <3>6, <3>7 DEF Behind
  <2>3. CASE Fails \/ Completes
    <3>1. /\ redis'.record = redis.record
          /\ \A i \in Items \ {task.item} : redis'.results[i] = redis.results[i]
          /\ \/ /\ redis'.results[task.item].failed = redis.results[task.item].failed + 1
                /\ redis'.results[task.item].completed = redis.results[task.item].completed
             \/ /\ redis'.results[task.item].completed = redis.results[task.item].completed + 1
                /\ redis'.results[task.item].failed = redis.results[task.item].failed
      <4>1. CASE Fails
        BY <2>0, <4>1, Results DEF Fails, Typed
      <4>2. CASE Completes
        BY <2>0, <4>2, Results DEF Completes, Typed
      <4> QED
        BY <2>3, <4>1, <4>2
    <3>2. task'.item = task.item /\ task'.stage \notin {"status", "over"}
      BY <2>3 DEF Fails, Completes
    <3>3. redis.results[task.item].failed \in Nat /\ redis.results[task.item].completed \in Nat
      BY <2>0 DEF Counts
    <3>4. Has(task.item)'
      BY <3>1, <3>2, <3>3 DEF Has
    <3>5. ASSUME NEW i \in Items, Has(i)
          PROVE  Has(i)'
      <4>1. CASE i = task.item
        BY <3>2, <3>4, <4>1
      <4>2. CASE i # task.item
        <5>1. redis'.results[i] = redis.results[i]
          BY <3>1, <4>2
        <5> QED
          BY <3>5, <5>1 DEF Has
      <4> QED
        BY <4>1, <4>2
    <3> HIDE DEF Has
    <3> QED
      BY <2>0, <3>1, <3>2, <3>4, <3>5 DEF Behind
  <2>4. CASE Charges
    <3>1. /\ redis'.results = redis.results /\ redis'.record = redis.record
          /\ task'.item = task.item
          /\ task'.stage \notin {"refused", "progress", "status", "over"}
      BY <2>4 DEF Charges, Typed, Store
    <3> QED
      BY <3>1 DEF Behind, Has
  <2> QED
    BY <2>1, <2>2, <2>3, <2>4, StepKinds
<1>3. Behind => CompletedIsWhole
  BY DEF Behind, CompletedIsWhole, Has
<1> QED
  BY <1>1, <1>2, <1>3, TypedAlways, PTL DEF Spec

\* What the moves of the task do to its counts.
LEMMA CountsMove ==
  ASSUME task \in Working
  PROVE  /\ \A s \in Stages : /\ To(task, s).completed = task.completed
                              /\ To(task, s).failed = task.failed
                              /\ To(Failed(task), s).completed = task.completed
                              /\ To(Failed(task), s).failed = task.failed + 1
                              /\ To(Completed(task), s).completed = task.completed + 1
                              /\ To(Completed(task), s).failed = task.failed
         /\ Raised(task).completed = task.completed /\ Raised(task).failed = task.failed
         /\ NextItem(task).completed = task.completed /\ NextItem(task).failed = task.failed
<1>1. /\ Failed(task) \in Working /\ Completed(task) \in Working
      /\ Failed(task).completed = task.completed /\ Failed(task).failed = task.failed + 1
      /\ Completed(task).completed = task.completed + 1 /\ Completed(task).failed = task.failed
  BY DEF Failed, Completed, Working
<1>2. ASSUME NEW t \in Working, NEW s
      PROVE  To(t, s).completed = t.completed /\ To(t, s).failed = t.failed
  BY DEF To, Working
<1>3. NextItem(task).completed = task.completed /\ NextItem(task).failed = task.failed
  BY <1>2 DEF NextItem, Working
<1> QED
  BY <1>1, <1>2, <1>3 DEF Raised

Asked == [stage : {"idle", "results", "replied"}, seen : Fields, listed : Nat]

Sum(x) == x.completed + x.failed

\* The list is as long as the counts of the task, of the record and of what a
\* client has seen say.
Counted ==
    /\ client \in [Clients -> Asked]
    /\ Sum(task) <= redis.length
    /\ Sum(redis.record) <= redis.length
    /\ \A c \in Clients :
         /\ client[c].stage = "results" => Sum(client[c].seen) <= redis.length
         /\ client[c].stage = "replied" => Sum(client[c].seen) <= client[c].listed

\* The list grows, and the clients stand still.
LEMMA CountedGrows ==
  ASSUME Typed, Counted, redis' \in Store, task' \in Working, client' = client,
         redis.length <= redis'.length,
         Sum(task') <= redis'.length,
         Sum(redis'.record) <= redis'.length
  PROVE  Counted'
<1>1. redis.length \in Nat /\ redis'.length \in Nat
  BY DEF Typed, Store
<1>2. ASSUME NEW c \in Clients PROVE Sum(client[c].seen) \in Nat
  BY DEF Counted, Asked, Fields, Sum
<1>3. ASSUME NEW c \in Clients, client[c].stage = "results"
      PROVE  Sum(client[c].seen) <= redis'.length
  BY <1>1, <1>2, <1>3 DEF Counted
<1> QED
  BY <1>3 DEF Counted, Sum

\* A Redis call that may raise.
LEMMA CountedAwait ==
  ASSUME Typed, Counted, NEW after \in Store, NEW good \in Working,
         Await(after, good, Raised(task)),
         redis.length <= after.length,
         Sum(good) <= after.length,
         Sum(after.record) <= after.length
  PROVE  Counted'
<1>1. /\ Raised(task) \in Working /\ Sum(Raised(task)) = Sum(task)
      /\ redis.length \in Nat /\ after.length \in Nat /\ Sum(task) \in Nat
  BY Moves, CountsMove DEF Typed, Store, Sum, Working
<1>2. /\ client' = client
      /\ \/ redis' = after /\ task' \in {good, Raised(task)}
         \/ redis' = redis /\ task' = Raised(task)
  BY DEF Await
<1>3. Sum(task) <= redis.length /\ Sum(redis.record) <= redis.length
  BY DEF Counted
<1>4. Sum(task) <= after.length
  BY <1>1, <1>3
<1>5. CASE redis' = after /\ task' \in {good, Raised(task)}
  BY <1>1, <1>2, <1>4, <1>5, CountedGrows
<1>6. CASE redis' = redis /\ task' = Raised(task)
  BY <1>1, <1>2, <1>3, <1>6, CountedGrows DEF Typed
<1> QED
  BY <1>2, <1>5, <1>6

\* The steps of the task.
LEMMA CountedTask ==
  ASSUME Typed, Counted, CreateBatch \/ Process \/ Crash \/ RecordExpires
  PROVE  Counted'
<1>0. /\ redis \in Store /\ task \in Working /\ redis.length \in Nat /\ redis.record \in Fields
      /\ Sum(task) \in Nat /\ task.completed \in Nat /\ task.failed \in Nat /\ task.item \in Items
      /\ Sum(task) <= redis.length /\ Sum(redis.record) <= redis.length
  BY DEF Typed, Counted, Store, Working, Sum
<1>a. /\ {"none", "expire", "except", "progress", "status", "over", "dead"} \subseteq Stages
      /\ {"item", "refuse", "refused", "unanswered", "charge", "push"} \subseteq Stages
  BY DEF Stages, Trying
<1>1. CASE CreateBatch
  <2> DEFINE fields == [NoRecord EXCEPT !.status = "processing", !.total = Total]
  <2>1. fields \in Fields /\ fields.completed = 0 /\ fields.failed = 0
    BY DEF NoRecord, Fields
  <2>2. Await(WithFields(fields), To(task, "expire"), Raised(task))
    BY <1>1 DEF CreateBatch
  <2> HIDE DEF fields
  <2>3. /\ WithFields(fields) \in Store /\ WithFields(fields).length = redis.length
        /\ Sum(WithFields(fields).record) = 0
    BY <1>0, <2>1, FieldsWritten DEF Sum
  <2>4. To(task, "expire") \in Working /\ Sum(To(task, "expire")) = Sum(task)
    BY <1>0, <1>a, Moves, CountsMove DEF Sum
  <2> QED
    BY <1>0, <2>2, <2>3, <2>4, CountedAwait
<1>2. CASE StartTask
  <2> DEFINE after == [redis EXCEPT !.record.ttl = redis.record.present]
  <2>1. /\ after \in Store /\ after.length = redis.length
        /\ Sum(after.record) = Sum(redis.record)
    <3>1. [redis.record EXCEPT !.ttl = redis.record.present] \in Fields
      BY <1>0 DEF Fields
    <3>2. after = [redis EXCEPT !.record = [redis.record EXCEPT !.ttl = redis.record.present]]
      BY <1>0 DEF Store
    <3> QED
      BY <1>0, <3>1, <3>2 DEF Store, Fields, Sum
  <2>2. Await(after, To(task, "item"), Raised(task))
    BY <1>2 DEF StartTask
  <2>3. To(task, "item") \in Working /\ Sum(To(task, "item")) = Sum(task)
    BY <1>0, <1>a, Moves, CountsMove DEF Sum
  <2> HIDE DEF after
  <2> QED
    BY <1>0, <2>1, <2>2, <2>3, CountedAwait
<1>3. CASE TryItem
  <2>1. /\ redis' = redis /\ client' = client
        /\ task' \in {To(task, "refuse"), To(task, "unanswered"), To(task, "charge"), Raised(task)}
    BY <1>3 DEF TryItem
  <2>2. task' \in Working /\ Sum(task') = Sum(task)
    BY <1>0, <1>a, <2>1, Moves, CountsMove DEF Sum
  <2> QED
    BY <1>0, <2>1, <2>2, CountedGrows
<1>4. ASSUME NEW s \in {"refused", "progress"}, Await(WithFailure(task.item), To(Failed(task), s), Raised(task))
      PROVE  Counted'
  <2>1. /\ WithFailure(task.item) \in Store /\ WithFailure(task.item).length = redis.length + 1
        /\ Sum(WithFailure(task.item).record) = Sum(redis.record)
    BY <1>0, Results DEF Sum
  <2>2. To(Failed(task), s) \in Working /\ Sum(To(Failed(task), s)) = Sum(task) + 1
    <3>1. /\ To(Failed(task), s) \in Working
          /\ To(Failed(task), s).completed = task.completed
          /\ To(Failed(task), s).failed = task.failed + 1
      BY <1>0, <1>a, Moves, CountsMove
    <3> QED
      BY <1>0, <3>1 DEF Sum
  <2>3. Sum(redis.record) \in Nat
    BY <1>0 DEF Fields, Sum
  <2> QED
    BY <1>0, <1>4, <2>1, <2>2, <2>3, CountedAwait
<1>5. CASE Refuse \/ Unanswered \/ RecordException
  BY <1>4, <1>5 DEF Refuse, Unanswered, RecordException
<1>6. CASE Refused \/ UpdateProgress
  <2>1. Await(WithProgress(task), NextItem(task), Raised(task))
    BY <1>6 DEF Refused, UpdateProgress
  <2>2. /\ WithProgress(task) \in Store /\ WithProgress(task).length = redis.length
        /\ Sum(WithProgress(task).record) = Sum(task)
    BY <1>0, ProgressWritten DEF Sum
  <2>3. NextItem(task) \in Working /\ Sum(NextItem(task)) = Sum(task)
    BY <1>0, Moves, CountsMove DEF Sum
  <2> QED
    BY <1>0, <2>1, <2>2, <2>3, CountedAwait
<1>7. CASE Charge
  <2> DEFINE after == [redis EXCEPT !.charged[task.item] = @ + 1]
  <2>1. after \in Store /\ after.length = redis.length /\ after.record = redis.record
    BY <1>0 DEF Store
  <2>2. Await(after, To(task, "push"), Raised(task))
    BY <1>7 DEF Charge
  <2>3. To(task, "push") \in Working /\ Sum(To(task, "push")) = Sum(task)
    BY <1>0, <1>a, Moves, CountsMove DEF Sum
  <2> HIDE DEF after
  <2> QED
    BY <1>0, <2>1, <2>2, <2>3, CountedAwait
<1>8. CASE PushResult
  <2>1. Await(WithCompletion(task.item), To(Completed(task), "progress"), Raised(task))
    BY <1>8 DEF PushResult
  <2>2. /\ WithCompletion(task.item) \in Store /\ WithCompletion(task.item).length = redis.length + 1
        /\ Sum(WithCompletion(task.item).record) = Sum(redis.record)
    BY <1>0, Results DEF Sum
  <2>3. To(Completed(task), "progress") \in Working /\ Sum(To(Completed(task), "progress")) = Sum(task) + 1
    <3>1. /\ To(Completed(task), "progress") \in Working
          /\ To(Completed(task), "progress").completed = task.completed + 1
          /\ To(Completed(task), "progress").failed = task.failed
      BY <1>0, <1>a, Moves, CountsMove
    <3> QED
      BY <1>0, <3>1 DEF Sum
  <2>4. Sum(redis.record) \in Nat
    BY <1>0 DEF Fields, Sum
  <2> QED
    BY <1>0, <2>1, <2>2, <2>3, <2>4, CountedAwait
<1>9. CASE CompleteBatch
  <2> DEFINE fields == [redis.record EXCEPT !.status = "completed"]
  <2>1. fields \in Fields /\ Sum(fields) = Sum(redis.record)
    BY <1>0 DEF Fields, Sum
  <2>2. Await(WithFields(fields), To(task, "over"), Raised(task))
    BY <1>9 DEF CompleteBatch
  <2> HIDE DEF fields
  <2>3. /\ WithFields(fields) \in Store /\ WithFields(fields).length = redis.length
        /\ Sum(WithFields(fields).record) = Sum(redis.record)
    BY <1>0, <2>1, FieldsWritten DEF Sum
  <2>4. To(task, "over") \in Working /\ Sum(To(task, "over")) = Sum(task)
    BY <1>0, <1>a, Moves, CountsMove DEF Sum
  <2> QED
    BY <1>0, <2>2, <2>3, <2>4, CountedAwait
<1>10. CASE Crash
  <2>1. redis' = redis /\ client' = client /\ task' = To(task, "dead")
    BY <1>10 DEF Crash
  <2>2. task' \in Working /\ Sum(task') = Sum(task)
    BY <1>0, <1>a, <2>1, Moves, CountsMove DEF Sum
  <2> QED
    BY <1>0, <2>1, <2>2, CountedGrows
<1>11. CASE RecordExpires
  <2>1. redis' = [redis EXCEPT !.record = NoRecord] /\ client' = client /\ task' = task
    BY <1>11 DEF RecordExpires
  <2>2. NoRecord \in Fields /\ Sum(NoRecord) = 0
    BY DEF NoRecord, Fields, Sum
  <2>3. redis' \in Store /\ redis'.length = redis.length /\ redis'.record = NoRecord
    BY <1>0, <2>1, <2>2 DEF Store
  <2> QED
    BY <1>0, <2>1, <2>2, <2>3, CountedGrows
<1> QED
  BY <1>1, <1>2, <1>3, <1>5, <1>6, <1>7, <1>8, <1>9, <1>10, <1>11 DEF Process

\* get_batch reads the record and then the list, and the task goes on between
\* the reads: its reply still lists at least as many results as it counts.
THEOREM RepliesListWhatTheyCount == Spec => []RepliesAreListed
<1>1. Init => Counted
  <2> SUFFICES ASSUME Init PROVE Counted
    OBVIOUS
  <2>1. NoRecord \in Fields /\ Sum(NoRecord) = 0
    BY DEF NoRecord, Fields, Sum
  <2>2. client \in [Clients -> Asked] /\ \A c \in Clients : client[c].stage = "idle"
    BY <2>1 DEF Init, Asked
  <2>3. Sum(task) = 0 /\ redis.length = 0 /\ redis.record = NoRecord
    BY DEF Init, Sum
  <2> QED
    BY <2>1, <2>2, <2>3 DEF Counted
<1>2. Typed /\ Counted /\ [Next]_vars => Counted'
  <2> SUFFICES ASSUME Typed, Counted, [Next]_vars PROVE Counted'
    OBVIOUS
  <2>0. redis.length \in Nat /\ redis.record \in Fields /\ NoRecord \in Fields
    BY DEF Typed, Store, NoRecord, Fields
  <2>1. ASSUME NEW c \in Clients, NEW asked \in Asked,
               client' = [client EXCEPT ![c] = asked], UNCHANGED <<redis, task>>,
               asked.stage = "results" => Sum(asked.seen) <= redis.length,
               asked.stage = "replied" => Sum(asked.seen) <= asked.listed
        PROVE  Counted'
    <3>1. /\ client' \in [Clients -> Asked] /\ client'[c] = asked
          /\ \A d \in Clients \ {c} : client'[d] = client[d]
      BY <2>1 DEF Counted
    <3> QED
      BY <2>1, <3>1 DEF Counted, Sum
  <2>2. ASSUME NEW c \in Clients, ReadRecord(c)
        PROVE  Counted'
    <3> DEFINE asked == [client[c] EXCEPT !.stage = "results", !.seen = redis.record]
    <3>1. asked \in Asked /\ asked.stage = "results" /\ asked.seen = redis.record
      BY <2>0 DEF Counted, Asked
    <3>2. client' = [client EXCEPT ![c] = asked] /\ UNCHANGED <<redis, task>>
      BY <2>2 DEF ReadRecord, Counted
    <3>3. Sum(redis.record) <= redis.length
      BY DEF Counted
    <3> HIDE DEF asked
    <3> QED
      BY <2>1, <3>1, <3>2, <3>3
  <2>3. ASSUME NEW c \in Clients, ReadResults(c)
        PROVE  Counted'
    <3> DEFINE asked == [client[c] EXCEPT !.stage = "replied", !.listed = redis.length]
    <3>1. /\ asked \in Asked /\ asked.stage = "replied" /\ asked.seen = client[c].seen
          /\ asked.listed = redis.length
      BY <2>0 DEF Counted, Asked
    <3>2. client' = [client EXCEPT ![c] = asked] /\ UNCHANGED <<redis, task>>
      BY <2>3 DEF ReadResults, Counted
    <3>3. Sum(client[c].seen) <= redis.length
      BY <2>3 DEF ReadResults, Counted
    <3> HIDE DEF asked
    <3> QED
      BY <2>1, <3>1, <3>2, <3>3
  <2>4. ASSUME NEW c \in Clients, Forget(c)
        PROVE  Counted'
    <3> DEFINE asked == [stage |-> "idle", seen |-> NoRecord, listed |-> 0]
    <3>1. asked \in Asked /\ asked.stage = "idle"
      BY <2>0 DEF Asked
    <3>2. client' = [client EXCEPT ![c] = asked] /\ UNCHANGED <<redis, task>>
      BY <2>4 DEF Forget
    <3> HIDE DEF asked
    <3> QED
      BY <2>1, <3>1, <3>2
  <2>5. CASE UNCHANGED vars
    BY <2>5 DEF vars, Counted, Sum
  <2> QED
    BY <2>2, <2>3, <2>4, <2>5, CountedTask DEF Next
<1>3. Counted => RepliesAreListed
  BY DEF Counted, RepliesAreListed, Sum
<1> QED
  BY <1>1, <1>2, <1>3, TypedAlways, PTL DEF Spec

-----------------------------------------------------------------------------
(* The budget scheduler.                                                   *)

Entry == [there : BOOLEAN, id : BOOLEAN, at : Nat, duration : R!Durations]
Passes == [stage : {"sleep", "scan", "reset", "schedule"}, began : Nat, todo : SUBSET Keys,
           key : Keys, duration : R!Durations]

ResetTyped ==
    /\ now \in Nat
    /\ rec \in [Keys -> Entry]
    /\ pass \in Passes
    /\ next \in [Keys -> Nat]

\* Between a reset and its schedule the record of the key is behind.
Unscheduled(k) == pass.stage = "schedule" /\ pass.key = k

\* The time a record carries is never before the one that was promised at the
\* last reset; a key the pass is about to reset has reached it; what the pass is
\* about to write is what was promised.  Only ids that were handed out have a
\* record or a pass at work on them.
Promised ==
    /\ early = FALSE
    /\ \A k \in Keys : rec[k].there /\ ~Unscheduled(k) => next[k] <= rec[k].at
    /\ pass.stage = "reset" => next[pass.key] <= pass.began
    /\ pass.stage = "schedule" =>
         /\ pass.duration \in R!Known
         /\ next[pass.key] = pass.began + Period[pass.duration]
    /\ pass.stage \in {"reset", "schedule"} => pass.key \in used
    /\ \A k \in Keys : k \notin used => ~rec[k].there /\ next[k] = 0

IInv == ResetTyped /\ Promised

\* The records written are records.
LEMMA Parts ==
  /\ R!Never \in Nat
  /\ R!Absent \in Entry /\ ~R!Absent.there
  /\ R!Asleep \in Passes /\ R!Asleep.stage = "sleep"
  /\ R!Known \subseteq R!Durations
<1>1. R!Never \in Nat
  BY SchedulerAssumption DEF R!Never
<1>2. (CHOOSE k \in Keys : TRUE) \in Keys
  BY SchedulerAssumption
<1>3. "other" \in R!Durations /\ R!Known \subseteq R!Durations
  BY DEF R!Durations
<1>4. R!Absent \in Entry /\ ~R!Absent.there
  BY <1>1, <1>3 DEF R!Absent, Entry
<1>5. R!Asleep \in Passes /\ R!Asleep.stage = "sleep"
  BY <1>2, <1>3 DEF R!Asleep, Passes
<1> QED
  BY <1>1, <1>3, <1>4, <1>5

\* The pass on its way to the next record is a pass.
LEMMA OnItsWay ==
  ASSUME pass \in Passes, NEW todo \in SUBSET Keys
  PROVE  R!Scanning(todo) \in Passes /\ R!Scanning(todo).stage = "scan"
<1>1. pass.began \in Nat
  BY DEF Passes
<1>2. R!Asleep \in Passes
  BY Parts
<1>3. R!Scanning(todo) = [[[R!Asleep EXCEPT !.stage = "scan"] EXCEPT !.began = pass.began] EXCEPT !.todo = todo]
  BY DEF R!Scanning
<1> HIDE DEF R!Asleep
<1> QED
  BY <1>1, <1>2, <1>3 DEF Passes

\* Init
LEMMA InitPromised ==
  ASSUME R!Init
  PROVE  IInv
<1>1. \A k \in Keys : rec[k] = R!Absent /\ next[k] = 0
  BY DEF R!Init
<1>2. ResetTyped
  BY Parts DEF R!Init, ResetTyped
<1>3. pass.stage = "sleep" /\ early = FALSE
  BY Parts DEF R!Init
<1> QED
  BY <1>1, <1>2, <1>3, Parts DEF IInv, Promised

\* A step of the keys: one record is written, the pass and the promises stay.
LEMMA KeysStep ==
  ASSUME IInv, NEW k \in Keys,
         R!GenerateKey(k) \/ R!UpdateKey(k) \/ R!DeleteKey(k) \/ R!IncrementSpend(k)
  PROVE  IInv'
<1>1. /\ pass' = pass /\ next' = next /\ early' = early /\ now' = now
      /\ used \subseteq used'
  BY DEF R!GenerateKey, R!UpdateKey, R!DeleteKey, R!IncrementSpend
<1>2. ASSUME NEW r \in Entry, rec' = [rec EXCEPT ![k] = r],
             r.there => k \in used',
             r.there => next[k] <= r.at \/ Unscheduled(k)
      PROVE  IInv'
  <2>1. rec' \in [Keys -> Entry]
    BY <1>2 DEF IInv, ResetTyped
  <2>2. /\ rec'[k] = r
        /\ \A j \in Keys \ {k} : rec'[j] = rec[j]
    BY <1>2 DEF IInv, ResetTyped
  <2>3. ASSUME NEW j \in Keys, rec'[j].there, ~Unscheduled(j)
        PROVE  next[j] <= rec'[j].at
    <3>1. CASE j = k
      BY <1>2, <2>2, <2>3, <3>1
    <3>2. CASE j # k
      <4>1. rec'[j] = rec[j]
        BY <2>2, <3>2
      <4> QED
        BY <2>3, <4>1 DEF IInv, Promised
    <3> QED
      BY <3>1, <3>2
  <2>4. ASSUME NEW j \in Keys, j \notin used'
        PROVE  ~rec'[j].there /\ next[j] = 0
    <3>1. j \notin used
      BY <1>1, <2>4
    <3>2. CASE j = k
      BY <1>2, <2>2, <2>4, <3>1, <3>2 DEF IInv, Promised
    <3>3. CASE j # k
      <4>1. rec'[j] = rec[j]
        BY <2>2, <3>3
      <4> QED
        BY <3>1, <4>1 DEF IInv, Promised
    <3> QED
      BY <3>2, <3>3
  <2> QED
    BY <1>1, <2>1, <2>3, <2>4 DEF IInv, ResetTyped, Promised, Unscheduled
<1>3. CASE R!GenerateKey(k)
  <2>1. PICK d \in R!Durations, budget \in BOOLEAN :
          rec' = [rec EXCEPT ![k] =
              [there |-> TRUE, id |-> TRUE, duration |-> d,
               at |-> IF d \in R!Known /\ budget THEN now + Period[d] ELSE R!Never]]
    BY <1>3 DEF R!GenerateKey
  <2> DEFINE at == IF d \in R!Known /\ budget THEN now + Period[d] ELSE R!Never
             r == [there |-> TRUE, id |-> TRUE, duration |-> d, at |-> at]
  <2>2. at \in Nat
    BY Parts, SchedulerAssumption DEF R!Known, IInv, ResetTyped
  <2>3. r \in Entry /\ r.at = at
    <3> HIDE DEF at
    <3> QED
      BY <2>2 DEF Entry
  <2>4. next[k] = 0 /\ k \in used'
    BY <1>3 DEF R!GenerateKey, IInv, Promised
  <2>5. next[k] <= r.at
    <3> HIDE DEF at
    <3> QED
      BY <2>2, <2>3, <2>4
  <2> HIDE DEF at
  <2>6. rec' = [rec EXCEPT ![k] = r]
    BY <2>1 DEF at
  <2> QED
    BY <1>2, <2>3, <2>4, <2>5, <2>6
<1>4. CASE R!UpdateKey(k)
  <2>1. PICK d \in R!Durations : rec' = [rec EXCEPT ![k].duration = d]
    BY <1>4 DEF R!UpdateKey
  <2> DEFINE r == [rec[k] EXCEPT !.duration = d]
  <2>2. rec[k] \in Entry /\ rec[k].there
    BY <1>4 DEF R!UpdateKey, IInv, ResetTyped
  <2>3. r \in Entry /\ r.at = rec[k].at
    BY <2>2 DEF Entry
  <2>4. rec' = [rec EXCEPT ![k] = r]
    BY <2>1
  <2>5. k \in used'
    BY <1>1, <2>2 DEF IInv, Promised
  <2>6. next[k] <= r.at \/ Unscheduled(k)
    BY <2>2, <2>3 DEF IInv, Promised
  <2> HIDE DEF r
  <2> QED
    BY <1>2, <2>3, <2>4, <2>5, <2>6
<1>5. CASE R!DeleteKey(k)
  <2>1. rec' = [rec EXCEPT ![k] = R!Absent]
    BY <1>5 DEF R!DeleteKey
  <2> QED
    BY <1>2, <2>1, Parts
<1>6. CASE R!IncrementSpend(k)
  BY <1>1, <1>6 DEF R!IncrementSpend, IInv, ResetTyped, Promised, Unscheduled
<1> QED
  BY <1>3, <1>4, <1>5, <1>6

\* A pass in the scan, or asleep, owes no record anything.
LEMMA Idle ==
  ASSUME IInv, pass' \in Passes, pass'.stage \in {"sleep", "scan"},
         pass.stage # "schedule",
         UNCHANGED <<now, rec, used, next>>, early' = FALSE
  PROVE  IInv'
BY DEF IInv, ResetTyped, Promised, Unscheduled

\* The loop visits a record and finds it due, or goes on.
LEMMA VisitStep ==
  ASSUME IInv, NEW k \in Keys, R!Visit(k)
  PROVE  IInv'
<1>1. pass \in Passes /\ pass.stage = "scan" /\ early = FALSE
  BY DEF R!Visit, IInv, ResetTyped, Promised
<1>2. CASE R!Due(k, pass.began) /\ rec[k].id
  <2> DEFINE p == [pass EXCEPT !.stage = "reset", !.key = k, !.todo = @ \ {k},
                               !.duration = rec[k].duration]
  <2>1. rec[k].duration \in R!Durations /\ rec[k].at \in Nat /\ next[k] \in Nat /\ pass.began \in Nat
    BY <1>1 DEF IInv, ResetTyped, Entry, Passes
  <2>2. p \in Passes /\ p.stage = "reset" /\ p.key = k /\ p.began = pass.began
    BY <1>1, <2>1 DEF Passes
  <2>3. pass' = p
    BY <1>2 DEF R!Visit
  <2>4. rec[k].there /\ rec[k].at <= pass.began
    BY <1>2 DEF R!Due
  <2>5. next[k] <= pass.began /\ k \in used
    BY <1>1, <2>1, <2>4 DEF IInv, Promised, Unscheduled
  <2>6. UNCHANGED <<now, rec, used, next, early>>
    BY DEF R!Visit
  <2>7. pass' \in Passes /\ pass'.stage = "reset" /\ pass'.key = k /\ pass'.began = pass.began
    BY <2>2, <2>3
  <2> HIDE DEF p
  <2> QED
    BY <1>1, <2>5, <2>6, <2>7 DEF IInv, ResetTyped, Promised, Unscheduled
<1>3. CASE ~(R!Due(k, pass.began) /\ rec[k].id)
  <2>1. pass' = [pass EXCEPT !.todo = @ \ {k}]
    BY <1>3 DEF R!Visit
  <2>2. pass' \in Passes /\ pass'.stage = "scan"
    BY <1>1, <2>1 DEF Passes
  <2> QED
    BY <1>1, <2>2, Idle DEF R!Visit
<1> QED
  BY <1>2, <1>3

\* reset_budget: not too early, and the promise is made.
LEMMA ResetStep ==
  ASSUME IInv, R!ResetBudget
  PROVE  IInv'
<1>1. /\ pass \in Passes /\ pass.stage = "reset" /\ pass.key \in Keys /\ pass.began \in Nat
      /\ pass.duration \in R!Durations /\ pass.todo \in SUBSET Keys
  BY DEF R!ResetBudget, IInv, ResetTyped, Passes
<1>2. next[pass.key] \in Nat /\ next[pass.key] <= pass.began /\ early = FALSE /\ pass.key \in used
  BY <1>1 DEF IInv, ResetTyped, Promised
<1>3. early' = FALSE /\ UNCHANGED <<now, rec, used>>
  <2>1. ~(pass.began < next[pass.key])
    BY <1>1, <1>2
  <2>2. early' = (early \/ pass.began < next[pass.key]) /\ UNCHANGED <<now, rec, used>>
    BY Zenon DEF R!ResetBudget
  <2> QED
    BY <1>2, <2>1, <2>2, Zenon
<1>4. CASE pass.duration \in R!Known
  <2>1. /\ pass' = [pass EXCEPT !.stage = "schedule"]
        /\ next' = [next EXCEPT ![pass.key] = pass.began + Period[pass.duration]]
    BY <1>4 DEF R!ResetBudget
  <2>2. /\ pass' \in Passes /\ pass'.stage = "schedule" /\ pass'.key = pass.key
        /\ pass'.began = pass.began /\ pass'.duration = pass.duration
    BY <1>1, <2>1 DEF Passes
  <2>3. pass.began + Period[pass.duration] \in Nat
    BY <1>1, <1>4, SchedulerAssumption DEF R!Known
  <2>4. /\ next' \in [Keys -> Nat]
        /\ next'[pass.key] = pass.began + Period[pass.duration]
        /\ \A k \in Keys \ {pass.key} : next'[k] = next[k]
    BY <1>1, <2>1, <2>3 DEF IInv, ResetTyped
  <2>5. ASSUME NEW k \in Keys, rec'[k].there, ~Unscheduled(k)'
        PROVE  next'[k] <= rec'[k].at
    <3>1. k # pass.key
      BY <2>2, <2>5 DEF Unscheduled
    <3>2. next'[k] = next[k]
      BY <2>4, <3>1
    <3> QED
      BY <1>1, <1>3, <2>5, <3>2 DEF IInv, Promised, Unscheduled
  <2>6. ASSUME NEW k \in Keys, k \notin used'
        PROVE  ~rec'[k].there /\ next'[k] = 0
    <3>1. k # pass.key
      BY <1>2, <1>3, <2>6
    <3>2. next'[k] = next[k]
      BY <2>4, <3>1
    <3> QED
      BY <1>3, <2>6, <3>2 DEF IInv, Promised
  <2> QED
    BY <1>2, <1>3, <1>4, <2>2, <2>4, <2>5, <2>6 DEF IInv, ResetTyped, Promised
<1>5. CASE pass.duration \notin R!Known
  <2>1. pass' = R!Scanning(pass.todo) /\ UNCHANGED next
    BY <1>5 DEF R!ResetBudget
  <2> QED
    BY <1>1, <1>3, <2>1, OnItsWay, Idle
<1> QED
  BY <1>4, <1>5

\* The promise is written.
LEMMA ScheduleStep ==
  ASSUME IInv, R!Schedule
  PROVE  IInv'
<1>1. /\ pass \in Passes /\ pass.stage = "schedule" /\ pass.key \in Keys /\ pass.began \in Nat
      /\ pass.todo \in SUBSET Keys
  BY DEF R!Schedule, IInv, ResetTyped, Passes
<1>2. /\ pass.duration \in R!Known /\ pass.key \in used /\ early = FALSE
      /\ next[pass.key] = pass.began + Period[pass.duration]
  BY <1>1 DEF IInv, Promised
<1>3. next[pass.key] \in Nat
  BY <1>1 DEF IInv, ResetTyped
<1> DEFINE r == [rec[pass.key] EXCEPT !.there = TRUE, !.at = pass.began + Period[pass.duration]]
<1>4. rec[pass.key] \in Entry
  BY <1>1 DEF IInv, ResetTyped
<1>5. r \in Entry /\ r.at = next[pass.key]
  BY <1>2, <1>3, <1>4 DEF Entry
<1>6. rec' = [rec EXCEPT ![pass.key] = r]
  BY DEF R!Schedule
<1> HIDE DEF r
<1>7. /\ rec' \in [Keys -> Entry] /\ rec'[pass.key] = r
      /\ \A k \in Keys \ {pass.key} : rec'[k] = rec[k]
  BY <1>1, <1>5, <1>6 DEF IInv, ResetTyped
<1>8. pass' = R!Scanning(pass.todo) /\ UNCHANGED <<now, used, next, early>>
  BY DEF R!Schedule
<1>9. pass' \in Passes /\ pass'.stage = "scan"
  BY <1>1, <1>8, OnItsWay
<1>10. ASSUME NEW k \in Keys, rec'[k].there
       PROVE  next[k] <= rec'[k].at
  <2>1. CASE k = pass.key
    BY <1>3, <1>5, <1>7, <2>1
  <2>2. CASE k # pass.key
    <3>1. rec'[k] = rec[k]
      BY <1>7, <2>2
    <3> QED
      BY <1>10, <2>2, <3>1 DEF IInv, Promised, Unscheduled
  <2> QED
    BY <2>1, <2>2
<1>11. ASSUME NEW k \in Keys, k \notin used
       PROVE  ~rec'[k].there /\ next[k] = 0
  <2>1. rec'[k] = rec[k]
    BY <1>2, <1>7, <1>11
  <2> QED
    BY <1>11, <2>1 DEF IInv, Promised
<1> QED
  BY <1>2, <1>7, <1>8, <1>9, <1>10, <1>11 DEF IInv, ResetTyped, Promised

\* An aborted pass takes back a promise it has not written.
LEMMA AbortStep ==
  ASSUME IInv, R!Abort
  PROVE  IInv'
<1>1. pass' = R!Asleep /\ UNCHANGED <<now, rec, used, early>> /\ early = FALSE
  BY DEF R!Abort, IInv, Promised
<1>2. pass' \in Passes /\ pass'.stage = "sleep"
  BY <1>1, Parts
<1>3. CASE pass.stage = "schedule"
  <2>1. next' = [next EXCEPT ![pass.key] = 0] /\ pass.key \in Keys
    BY <1>3 DEF R!Abort, IInv, ResetTyped, Passes
  <2>2. /\ next' \in [Keys -> Nat] /\ next'[pass.key] = 0
        /\ \A k \in Keys \ {pass.key} : next'[k] = next[k]
    BY <2>1 DEF IInv, ResetTyped
  <2>3. ASSUME NEW k \in Keys, rec[k].there
        PROVE  next'[k] <= rec[k].at
    <3>1. CASE k = pass.key
      <4>1. rec[k].at \in Nat
        BY DEF IInv, ResetTyped, Entry
      <4> QED
        BY <2>2, <3>1, <4>1
    <3>2. CASE k # pass.key
      <4>1. next'[k] = next[k]
        BY <2>2, <3>2
      <4> QED
        BY <2>3, <3>2, <4>1 DEF IInv, Promised, Unscheduled
    <3> QED
      BY <3>1, <3>2
  <2>4. ASSUME NEW k \in Keys, k \notin used
        PROVE  ~rec[k].there /\ next'[k] = 0
    <3>1. CASE k = pass.key
      BY <2>2, <2>4, <3>1 DEF IInv, Promised
    <3>2. CASE k # pass.key
      BY <2>2, <2>4, <3>2 DEF IInv, Promised
    <3> QED
      BY <3>1, <3>2
  <2> QED
    BY <1>1, <1>2, <2>2, <2>3, <2>4 DEF IInv, ResetTyped, Promised
<1>4. CASE pass.stage # "schedule"
  <2>1. UNCHANGED next
    BY <1>4 DEF R!Abort
  <2> QED
    BY <1>1, <1>2, <1>4, <2>1, Idle
<1> QED
  BY <1>3, <1>4

\* The clock is read into a pass of its own.
LEMMA ClockStep ==
  ASSUME IInv, R!BeginPass \/ R!EndPass \/ R!Tick \/ UNCHANGED R!vars
  PROVE  IInv'
<1>1. CASE R!BeginPass
  <2>1. pass' = [[[R!Asleep EXCEPT !.stage = "scan"] EXCEPT !.began = now] EXCEPT !.todo = Keys]
    BY <1>1 DEF R!BeginPass
  <2>2. R!Asleep \in Passes /\ now \in Nat
    BY Parts DEF IInv, ResetTyped
  <2> HIDE DEF R!Asleep
  <2>3. pass' \in Passes /\ pass'.stage = "scan"
    BY <2>1, <2>2 DEF Passes
  <2>4. pass.stage # "schedule" /\ UNCHANGED <<now, rec, used, next, early>> /\ early = FALSE
    BY <1>1 DEF R!BeginPass, IInv, Promised
  <2> QED
    BY <2>3, <2>4, Idle
<1>2. CASE R!EndPass
  <2>1. /\ pass' = R!Asleep /\ pass.stage # "schedule"
        /\ UNCHANGED <<now, rec, used, next, early>> /\ early = FALSE
    BY <1>2 DEF R!EndPass, IInv, Promised
  <2> QED
    BY <2>1, Parts, Idle
<1>3. CASE R!Tick
  <2>1. now' = now + 1 /\ UNCHANGED <<rec, pass, used, next, early>>
    BY <1>3 DEF R!Tick
  <2>2. now' \in Nat
    BY <2>1 DEF IInv, ResetTyped
  <2> QED
    BY <2>1, <2>2 DEF IInv, ResetTyped, Promised, Unscheduled
<1>4. CASE UNCHANGED R!vars
  BY <1>4 DEF R!vars, IInv, ResetTyped, Promised, Unscheduled
<1> QED
  BY <1>1, <1>2, <1>3, <1>4

\* _budget_reset_loop resets no key before the time it promised at the last
\* reset: counted from the beginning of that pass, whatever generate_key,
\* update_key and delete_key do to the record between its await points, and
\* unless a pass was aborted between the reset and its schedule.
THEOREM ResetsAreSpaced == TasksSpec => []ResetsSpaced
<1>1. R!Init => IInv
  BY InitPromised
<1>2. IInv /\ [R!Next]_R!vars => IInv'
  <2> SUFFICES ASSUME IInv, [R!Next]_R!vars PROVE IInv'
    OBVIOUS
  <2>1. ASSUME NEW k \in Keys, R!GenerateKey(k) \/ R!UpdateKey(k) \/ R!DeleteKey(k) \/ R!IncrementSpend(k)
        PROVE  IInv'
    BY <2>1, KeysStep
  <2>2. ASSUME NEW k \in Keys, R!Visit(k)
        PROVE  IInv'
    BY <2>2, VisitStep
  <2>3. CASE R!BeginPass \/ R!EndPass \/ R!Tick \/ UNCHANGED R!vars
    BY <2>3, ClockStep
  <2>4. CASE R!ResetBudget
    BY <2>4, ResetStep
  <2>5. CASE R!Schedule
    BY <2>5, ScheduleStep
  <2>6. CASE R!Abort
    BY <2>6, AbortStep
  <2> QED
    BY <2>1, <2>2, <2>3, <2>4, <2>5, <2>6 DEF R!Next, R!Loop
<1>3. IInv => ResetsSpaced
  BY DEF IInv, Promised, ResetsSpaced, R!ResetsSpaced
<1> QED
  BY <1>1, <1>2, <1>3, BothRun, PTL
=============================================================================
