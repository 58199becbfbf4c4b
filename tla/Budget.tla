------------------------------- MODULE Budget -------------------------------
(***************************************************************************)
(* Hierarchical budgets: auth/budgets.py as the request handlers use it.   *)
(*                                                                         *)
(* A handler resolves an identity, walks check_budget over the levels key, *)
(* user, team and org, calls a provider, and charges the cost afterwards   *)
(* (record_spend).  Every `await redis...` is a point where other handlers *)
(* run, so the check of one level is two steps (the record with the limit, *)
(* then the counter), and nothing is reserved between the check and the    *)
(* charge.  The charge itself is one Lua script over all levels.           *)
(***************************************************************************)
EXTENDS Integers, FiniteSets, Functions

CONSTANTS
    Keys,        \* virtual keys
    Accounts,    \* ids of spend counters: keys, users, teams and orgs
    NoAccount,   \* level a key does not belong to (team_id / org_id None)
    AccountOf,   \* [Keys -> [Levels -> account charged at that level]]
    Requests,    \* concurrently running handlers (slots, reused)
    Limits,      \* max_budget values an admin may set, in cost units
    NoLimit,     \* max_budget "" or no record
    MaxCost      \* dearest single provider call

Levels == 1..4                      \* key, user, team, org: order of check
Done   == 5                         \* past the last level
KeyAccounts == {AccountOf[k][1] : k \in Keys}

ASSUME BudgetAssumption ==
    /\ Keys # {}
    /\ IsFiniteSet(Requests)
    /\ Limits \subseteq Nat
    /\ MaxCost \in Nat
    /\ NoLimit \notin Nat
    /\ NoAccount \notin Accounts
    /\ AccountOf \in [Keys -> [Levels -> Accounts \union {NoAccount}]]
    /\ \A k \in Keys : AccountOf[k][1] # NoAccount

\* gateway:spend:key:<key_id> is the counter of that key and of nothing else.
ASSUME CountersAssumption ==
    /\ IsFiniteSet(Keys)
    /\ \A j, k \in Keys : \A l \in Levels :
         AccountOf[j][1] = AccountOf[k][l] => j = k /\ l = 1

-----------------------------------------------------------------------------
VARIABLES
    spend,    \* gateway:spend:* counters
    limit,    \* max_budget field of each account's record
    req,      \* the handlers
    billed,   \* history: cost charged to each key, over its whole life
    logged,   \* history: cost of the entries pushed to a key's spend log
    ceiling,  \* history: highest limit an account's record ever held
    flushed   \* history: reset_all_spend has deleted counters

vars == <<spend, limit, req, billed, logged, ceiling, flushed>>

MaxBudget == Limits \union {NoLimit}
Stages == {"idle", "limit", "spend", "call", "log", "between"}

\* own: identity.max_budget as read at authentication; cap: limit just read;
\* cost: what the spend log entry will say; over: history, some account of
\* the key was above its limit when the check began.
Handler == [stage : Stages, key : Keys, own : MaxBudget, level : 1..Done,
            cap : MaxBudget, cost : Nat, over : BOOLEAN]

TypeOK ==
    /\ spend \in [Accounts -> Nat]
    /\ limit \in [Accounts -> MaxBudget]
    /\ req \in [Requests -> Handler]
    /\ billed \in [Keys -> Nat]
    /\ logged \in [Keys -> Nat]
    /\ ceiling \in [Accounts -> MaxBudget]
    /\ flushed \in BOOLEAN

-----------------------------------------------------------------------------
ChargedAccounts(k) == {AccountOf[k][l] : l \in Levels} \ {NoAccount}

\* The comparison of check_budget: strictly above the limit is exhausted.
Exhausted(total, max) == max # NoLimit /\ total > max

Raise(old, new) ==
    IF old = NoLimit \/ new = NoLimit THEN NoLimit
    ELSE IF new > old THEN new ELSE old

\* Accounts whose check this handler has behind it and may still charge.
Cleared(h) == {AccountOf[h.key][l] : l \in 1..(h.level - 1)} \ {NoAccount}

Committed(a) == {r \in Requests : a \in Cleared(req[r])}

\* Mutant: levels counted from zero.
FreshFromZero(k) == [stage |-> "idle", key |-> k, own |-> NoLimit, level |-> 0,
                     cap |-> NoLimit, cost |-> 0, over |-> FALSE]

Fresh(k) == [stage |-> "idle", key |-> k, own |-> NoLimit, level |-> 1,
             cap |-> NoLimit, cost |-> 0, over |-> FALSE]

Init ==
    /\ spend = [a \in Accounts |-> 0]
    /\ limit \in [Accounts -> MaxBudget]
    /\ req = [r \in Requests |-> Fresh(CHOOSE k \in Keys : TRUE)]
    /\ billed = [k \in Keys |-> 0]
    /\ logged = [k \in Keys |-> 0]
    /\ ceiling = limit
    /\ flushed = FALSE

-----------------------------------------------------------------------------
(* The request path.                                                       *)

\* history: some level of k is above its limit as a check of k begins.
OverNow(k, own) ==
    \/ Exhausted(spend[AccountOf[k][1]], own)
    \/ \E l \in 2..4 : /\ AccountOf[k][l] # NoAccount
                       /\ Exhausted(spend[AccountOf[k][l]], limit[AccountOf[k][l]])

\* Mutant: the key's own limit is forgotten.
EnterAtUser(k, own) ==
    [stage |-> "limit", key |-> k, own |-> own, level |-> 2, cap |-> own, cost |-> 0,
     over |-> OverNow(k, own)]

\* check_budget is entered: the key level needs no record, its limit is in
\* the identity, and is skipped when that is None.
Enter(k, own) ==
    [stage |-> IF own = NoLimit THEN "limit" ELSE "spend", key |-> k, own |-> own,
     level |-> IF own = NoLimit THEN 2 ELSE 1, cap |-> own, cost |-> 0,
     over |-> OverNow(k, own)]

\* A request arrives and its key's record is read.
Arrive(r, k) ==
    /\ req[r].stage \in {"idle", "between"}
    /\ req' = [req EXCEPT ![r] = Enter(k, limit[AccountOf[k][1]])]
    /\ UNCHANGED <<spend, limit, billed, logged, ceiling, flushed>>

\* A batch goes on to its next item with the identity it was created with
\* (its pre-flight check is the check of a first item that makes no call).
NextItem(r) ==
    /\ req[r].stage = "between"
    /\ req' = [req EXCEPT ![r] = Enter(req[r].key, req[r].own)]
    /\ UNCHANGED <<spend, limit, billed, logged, ceiling, flushed>>

\* Mutant: each level that is passed takes the next one with it.
PassedTwo(h) ==
    LET next == IF h.level + 2 > Done THEN Done ELSE h.level + 2
    IN  [h EXCEPT !.level = next, !.cap = NoLimit,
                  !.stage = IF next = Done THEN "call" ELSE "limit"]

\* The level is passed; past the last one the request is admitted.
Passed(h) ==
    [h EXCEPT !.level = h.level + 1, !.cap = NoLimit,
              !.stage = IF h.level + 1 = Done THEN "call" ELSE "limit"]

Released(h) == [h EXCEPT !.stage = "between", !.level = 1, !.cap = NoLimit,
                         !.cost = 0, !.over = FALSE]

\* Mutant: a level the key does not have ends the check.
ReadLimitReturnsEarly(r) ==
    LET h == req[r]
        a == AccountOf[h.key][h.level]
    IN  /\ h.stage = "limit"
        /\ req' = [req EXCEPT ![r] =
                     IF a = NoAccount THEN [h EXCEPT !.stage = "call"]
                     ELSE IF limit[a] = NoLimit THEN Passed(h)
                     ELSE [h EXCEPT !.stage = "spend", !.cap = limit[a]]]
        /\ UNCHANGED <<spend, limit, billed, logged, ceiling, flushed>>

\* hgetall of the user, team or org record (user, team, org levels only).
ReadLimit(r) ==
    LET h == req[r]
        a == AccountOf[h.key][h.level]
    IN  /\ h.stage = "limit"
        /\ req' = [req EXCEPT ![r] =
                     IF a = NoAccount THEN Passed(h)
                     ELSE IF limit[a] = NoLimit THEN Passed(h)
                     ELSE [h EXCEPT !.stage = "spend", !.cap = limit[a]]]
        /\ UNCHANGED <<spend, limit, billed, logged, ceiling, flushed>>

\* get of the counter and the comparison: 429, or on to the next level.
ReadSpend(r) ==
    LET h == req[r]
    IN  /\ h.stage = "spend"
        /\ req' = [req EXCEPT ![r] =
                     IF Exhausted(spend[AccountOf[h.key][h.level]], h.cap)
                     THEN Released(h) ELSE Passed(h)]
        /\ UNCHANGED <<spend, limit, billed, logged, ceiling, flushed>>

\* Mutant: only the key's own counter is charged.
IncrementKeySpend(r, c) ==
    LET h == req[r]
    IN  /\ h.stage = "call"
        /\ spend' = [spend EXCEPT ![AccountOf[h.key][1]] = @ + c]
        /\ billed' = [billed EXCEPT ![h.key] = @ + c]
        /\ req' = [req EXCEPT ![r] = [h EXCEPT !.stage = "log", !.cost = c,
                                               !.level = 1, !.over = FALSE]]
        /\ UNCHANGED <<limit, logged, ceiling, flushed>>

\* The provider answered and record_spend runs: cost 0 skips the script,
\* otherwise all of the key's counters move in one atomic step.
IncrementSpend(r, c) ==
    LET h == req[r]
    IN  /\ h.stage = "call"
        /\ spend' = [a \in Accounts |->
                       IF a \in ChargedAccounts(h.key) THEN spend[a] + c ELSE spend[a]]
        /\ billed' = [billed EXCEPT ![h.key] = @ + c]
        /\ req' = [req EXCEPT ![r] = [h EXCEPT !.stage = "log", !.cost = c,
                                               !.level = 1, !.over = FALSE]]
        /\ UNCHANGED <<limit, logged, ceiling, flushed>>

\* Mutant: the push is repeated.
PushLogAgain(r) ==
    /\ req[r].stage = "log"
    /\ logged' = [logged EXCEPT ![req[r].key] = @ + req[r].cost]
    /\ UNCHANGED <<spend, limit, req, billed, ceiling, flushed>>

\* The spend log entry is pushed in a step of its own.
PushLog(r) ==
    LET h == req[r]
    IN  /\ h.stage = "log"
        /\ logged' = [logged EXCEPT ![h.key] = @ + h.cost]
        /\ req' = [req EXCEPT ![r] = Released(h)]
        /\ UNCHANGED <<spend, limit, billed, ceiling, flushed>>

\* An admitted request that is never charged: cache hit, guardrail refusal
\* before or after the call, no deployment, provider error, client gone.
NotCharged(r) ==
    /\ req[r].stage = "call"
    /\ req' = [req EXCEPT ![r] = Released(req[r])]
    /\ UNCHANGED <<spend, limit, billed, logged, ceiling, flushed>>

\* The process dies: handlers are gone, Redis stays.
Crash ==
    /\ req' = [r \in Requests |-> Fresh(CHOOSE k \in Keys : TRUE)]
    /\ UNCHANGED <<spend, limit, billed, logged, ceiling, flushed>>

-----------------------------------------------------------------------------
(* Administration.                                                         *)

\* history: the budgets moved, so what was over may be over no longer.
Reopened == [r \in Requests |-> [req[r] EXCEPT !.over = FALSE]]

\* PATCH sets a number; only users, teams and orgs can lose their limit (the
\* record is written anew or deleted), PATCH /key drops None.
SetLimit(a, max) ==
    /\ max # limit[a]
    /\ max = NoLimit => a \notin KeyAccounts
    /\ limit' = [limit EXCEPT ![a] = max]
    /\ ceiling' = [ceiling EXCEPT ![a] = Raise(@, max)]
    /\ req' = Reopened
    /\ UNCHANGED <<spend, billed, logged, flushed>>

\* reset_budget: only the key's own counter.
ResetBudget(k) ==
    /\ spend' = [spend EXCEPT ![AccountOf[k][1]] = 0]
    /\ req' = Reopened
    /\ UNCHANGED <<limit, billed, logged, ceiling, flushed>>

\* One DEL of reset_all_spend: the existing counters of one SCAN batch.
ResetAllSpend(batch) ==
    /\ spend' = [a \in Accounts |-> IF a \in batch THEN 0 ELSE spend[a]]
    /\ flushed' = TRUE
    /\ req' = Reopened
    /\ UNCHANGED <<limit, billed, logged, ceiling>>

Next ==
    \/ \E r \in Requests :
         \/ \E k \in Keys : Arrive(r, k)
         \/ NextItem(r)
         \/ ReadLimit(r)
         \/ ReadSpend(r)
         \/ \E c \in 0..MaxCost : IncrementSpend(r, c)
         \/ PushLog(r)
         \/ NotCharged(r)
    \/ Crash
    \/ \E a \in Accounts, max \in MaxBudget : SetLimit(a, max)
    \/ \E k \in Keys : ResetBudget(k)
    \/ \E batch \in SUBSET {a \in Accounts : spend[a] > 0} \ {{}} : ResetAllSpend(batch)

Spec == Init /\ [][Next]_vars

-----------------------------------------------------------------------------
(* What the walk over the levels means to one account.                     *)

Account(a) == INSTANCE Ledger WITH spend <- spend[a], committed <- Committed(a),
                                   ceiling <- ceiling[a]

\* Seen from any one account, the walk over four levels, the script that
\* charges all of them and the administration are a ledger: no handler charges
\* an account whose check it has not behind it, none passes one that is above
\* its highest limit, and none charges twice for one check.  (The conjunction
\* of Account(a)!Spec over all accounts, with one [] outside.)
ImplementsLedger ==
    /\ \A a \in Accounts : Account(a)!Init
    /\ [][\A a \in Accounts : UNCHANGED Account(a)!vars \/ Account(a)!Next]_vars

-----------------------------------------------------------------------------
(* Properties.                                                             *)

\* The check-then-spend race of check_budget (budgets.py:79) against
\* record_spend (cost_tracker.py:60) overshoots a limit by at most one
\* dearest call per concurrently running handler, however the handlers,
\* batches, crashes, resets and limit changes interleave.
OvershootBounded ==
    \A a \in Accounts :
        ceiling[a] # NoLimit => spend[a] <= ceiling[a] + MaxCost * Cardinality(Requests)

\* The inductive form: what is charged already plus what the admitted
\* handlers may still charge.
CommitmentBounded ==
    \A a \in Accounts :
        ceiling[a] # NoLimit =>
            spend[a] + MaxCost * Cardinality(Committed(a))
                <= ceiling[a] + MaxCost * Cardinality(Requests)

\* A request whose check began when some level of its key was already above
\* its limit never reaches a provider, unless a reset or a new limit came
\* between: the walk over four levels and seven awaits misses none.
ExhaustedNeverAdmitted ==
    \A r \in Requests : req[r].stage = "call" => ~req[r].over

KeySpend == [k \in Keys |-> spend[AccountOf[k][1]]]

Members(a) == {k \in Keys : a \in ChargedAccounts(k)}

\* Until someone resets all spend, a user, team or org counter covers the
\* counters of its keys (equality breaks when a key's budget is reset): the
\* levels are charged together, whatever crashes in between.
UpperLevelsCoverKeys ==
    ~flushed =>
        \A a \in Accounts \ KeyAccounts :
            SumFunctionOnSet(KeySpend, Members(a)) <= spend[a]

\* Cost charged to key k whose spend log entry is still to be pushed.
PendingOf(k) ==
    [r \in Requests |-> IF req[r].stage = "log" /\ req[r].key = k THEN req[r].cost ELSE 0]

Pending(k) == SumFunctionOnSet(PendingOf(k), Requests)

\* The spend logs, which the spend reports add up, never show cost that was
\* not charged; a crash between the charge and the log can only lose entries.
LogsNeverExceedBilling ==
    \A k \in Keys : logged[k] + Pending(k) <= billed[k]
=============================================================================
