---------------------------- MODULE BudgetReset ----------------------------
(***************************************************************************)
(* The budget scheduler: _budget_reset_loop of auth/budgets.py, the task   *)
(* that resets the spend of keys whose period is over, while keys are      *)
(* made, changed and deleted (auth/virtual_keys.py) and spend goes on.     *)
(*                                                                         *)
(* A pass reads the clock once, then goes through the records; for one     *)
(* that is due it sets the counter to 0 and writes the next time, in two   *)
(* awaits.  An exception ends the pass, a crash of the process as well.    *)
(***************************************************************************)
EXTENDS Naturals

CONSTANTS
    Keys,       \* key ids
    Period,     \* [the durations the code knows -> their length]
    MaxNow,     \* bound on the clock
    MaxAborts   \* bound on passes that are aborted

Known == DOMAIN Period
\* "other": none, or one the loop does not know.
Durations == Known \union {"other"}

\* No budget_reset_at.
Never == MaxNow + 100

VARIABLES
    now,
    rec,      \* gateway:vk:<key_id>: [there, id, at, duration]; id: it has a key_id
    spent,    \* gateway:spend:key:<key_id> is above 0
    pass,     \* the pass: when it began, what it has yet to visit
    aborts,   \* passes aborted so far
    used,     \* history: key ids handed out
    next,     \* history: when the period of a key's last reset is over
    early     \* history: a key has been reset before that time

vars == <<now, rec, spent, pass, aborts, used, next, early>>

Absent == [there |-> FALSE, id |-> FALSE, at |-> Never, duration |-> "other"]
Asleep == [stage |-> "sleep", began |-> 0, todo |-> {}, key |-> CHOOSE k \in Keys : TRUE,
           duration |-> "other"]

TypeOK ==
    /\ now \in 0..MaxNow
    /\ rec \in [Keys -> [there : BOOLEAN, id : BOOLEAN, at : Nat, duration : Durations]]
    /\ spent \in [Keys -> BOOLEAN]
    /\ pass \in [stage : {"sleep", "scan", "reset", "schedule"}, began : 0..MaxNow,
                 todo : SUBSET Keys, key : Keys, duration : Durations]
    /\ aborts \in 0..MaxAborts
    /\ used \in SUBSET Keys
    /\ next \in [Keys -> Nat]
    /\ early \in BOOLEAN

Init ==
    /\ now = 0
    /\ rec = [k \in Keys |-> Absent]
    /\ spent = [k \in Keys |-> FALSE]
    /\ pass = Asleep
    /\ aborts = 0
    /\ used = {}
    /\ next = [k \in Keys |-> 0]
    /\ early = FALSE

-----------------------------------------------------------------------------
(* The keys.                                                               *)

\* generate_key of a fresh id; only the durations the code knows get a time, and
\* only with a budget.
GenerateKey(k) ==
    /\ k \notin used
    /\ used' = used \union {k}
    /\ \E d \in Durations, budget \in BOOLEAN :
          rec' = [rec EXCEPT ![k] =
              [there |-> TRUE, id |-> TRUE, duration |-> d,
               at |-> IF d \in Known /\ budget THEN now + Period[d] ELSE Never]]
    /\ UNCHANGED <<now, spent, pass, aborts, next, early>>

\* update_key writes the duration alone.
UpdateKey(k) ==
    /\ rec[k].there
    /\ \E d \in Durations : rec' = [rec EXCEPT ![k].duration = d]
    /\ UNCHANGED <<now, spent, pass, aborts, used, next, early>>

\* Or the record expires.
DeleteKey(k) ==
    /\ rec[k].there
    /\ rec' = [rec EXCEPT ![k] = Absent]
    /\ UNCHANGED <<now, spent, pass, aborts, used, next, early>>

IncrementSpend(k) ==
    /\ k \in used
    /\ spent' = [spent EXCEPT ![k] = TRUE]
    /\ UNCHANGED <<now, rec, pass, aborts, used, next, early>>

-----------------------------------------------------------------------------
(* The loop.                                                               *)

\* The pass on its way to the next record.
Scanning(todo) == [Asleep EXCEPT !.stage = "scan", !.began = pass.began, !.todo = todo]

\* SCAN finds what is there all along, and may find what is made meanwhile.
BeginPass ==
    /\ pass.stage = "sleep"
    /\ pass' = [Asleep EXCEPT !.stage = "scan", !.began = now, !.todo = Keys]
    /\ UNCHANGED <<now, rec, spent, aborts, used, next, early>>

Due(k, time) == rec[k].there /\ rec[k].at <= time

\* Mutant: a record that is not due ends the pass.
VisitBreaks(k) ==
    /\ pass.stage = "scan"
    /\ k \in pass.todo
    /\ pass' = IF Due(k, pass.began) /\ rec[k].id
               THEN [pass EXCEPT !.stage = "reset", !.key = k, !.todo = @ \ {k},
                                 !.duration = rec[k].duration]
               ELSE Asleep
    /\ UNCHANGED <<now, rec, spent, aborts, used, next, early>>

\* HGETALL of the next record; one that is gone, not due or has no key_id is
\* passed over.
Visit(k) ==
    /\ pass.stage = "scan"
    /\ k \in pass.todo
    /\ pass' = IF Due(k, pass.began) /\ rec[k].id
               THEN [pass EXCEPT !.stage = "reset", !.key = k, !.todo = @ \ {k},
                                 !.duration = rec[k].duration]
               ELSE [pass EXCEPT !.todo = @ \ {k}]
    /\ UNCHANGED <<now, rec, spent, aborts, used, next, early>>

\* reset_budget; a duration the code does not know is not scheduled again.
ResetBudget ==
    LET k == pass.key
        d == pass.duration IN
    /\ pass.stage = "reset"
    /\ spent' = [spent EXCEPT ![k] = FALSE]
    /\ early' = (early \/ pass.began < next[k])
    /\ IF d \in Known
       THEN /\ pass' = [pass EXCEPT !.stage = "schedule"]
            /\ next' = [next EXCEPT ![k] = pass.began + Period[d]]
       ELSE /\ pass' = Scanning(pass.todo)
            /\ UNCHANGED next
    /\ UNCHANGED <<now, rec, aborts, used>>

\* Mutant: the next time is counted from the one before.
ScheduleFromDue ==
    LET k == pass.key IN
    /\ pass.stage = "schedule"
    /\ rec' = [rec EXCEPT ![k].there = TRUE, ![k].at = @ + Period[pass.duration]]
    /\ pass' = Scanning(pass.todo)
    /\ UNCHANGED <<now, spent, aborts, used, next, early>>

\* HSET of the next time, counted from the beginning of the pass; of a key that
\* was deleted it makes a record with this field only.
Schedule ==
    LET k == pass.key IN
    /\ pass.stage = "schedule"
    /\ rec' = [rec EXCEPT ![k].there = TRUE, ![k].at = pass.began + Period[pass.duration]]
    /\ pass' = Scanning(pass.todo)
    /\ UNCHANGED <<now, spent, aborts, used, next, early>>

EndPass ==
    /\ pass.stage = "scan"
    /\ pass.todo = {}
    /\ pass' = Asleep
    /\ UNCHANGED <<now, rec, spent, aborts, used, next, early>>

\* A Redis call raises or the process dies: between reset and schedule the key
\* will be reset again by the next pass.
Abort ==
    /\ pass.stage # "sleep"
    /\ aborts < MaxAborts
    /\ aborts' = aborts + 1
    /\ pass' = Asleep
    /\ next' = IF pass.stage = "schedule" THEN [next EXCEPT ![pass.key] = 0] ELSE next
    /\ UNCHANGED <<now, rec, spent, used, early>>

Tick ==
    /\ now < MaxNow
    /\ now' = now + 1
    /\ UNCHANGED <<rec, spent, pass, aborts, used, next, early>>

Loop == BeginPass \/ (\E k \in Keys : Visit(k)) \/ ResetBudget \/ Schedule \/ EndPass

Next ==
    \/ \E k \in Keys : GenerateKey(k) \/ UpdateKey(k) \/ DeleteKey(k) \/ IncrementSpend(k)
    \/ Loop
    \/ Abort
    \/ Tick

\* The task of the loop is never left out by the event loop for ever.
Fairness == WF_vars(Loop)

Spec == Init /\ [][Next]_vars /\ Fairness

-----------------------------------------------------------------------------
(* Properties.                                                             *)

\* A key is not reset before the period of its last reset is over, counted from
\* pass to pass, however long the gateway slept, unless a pass was aborted
\* between the reset and its schedule or the duration is not one the code knows.
ResetsSpaced == ~early

\* What a key has spent when its time has come is reset, whatever happens to
\* other keys and passes, unless the key is deleted; what it spends between the
\* reset and its schedule belongs to the new period.
Overdue(k) ==
    /\ Due(k, now) /\ rec[k].id /\ spent[k]
    /\ ~(pass.stage = "schedule" /\ pass.key = k)

DueIsReset == \A k \in Keys : Overdue(k) ~> ~spent[k] \/ ~rec[k].there
=============================================================================
