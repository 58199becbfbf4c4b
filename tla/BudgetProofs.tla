---------------------------- MODULE BudgetProofs ----------------------------
(***************************************************************************)
(* Proofs about Budget: type correctness, the bound on the overshoot of    *)
(* the check-then-spend race, that an exhausted level is not passed, that  *)
(* counters and spend logs add up, and that every account is a ledger.     *)
(***************************************************************************)
EXTENDS Budget, FiniteSetTheorems, WellFoundedInduction, TLAPS

(* What the helper formulae return.                                        *)

\* Multiplication is monotone (the committed handlers times the dearest call).
LEMMA TimesMonotone ==
  ASSUME NEW m \in Nat, NEW x \in Nat, NEW y \in Nat, x <= y
  PROVE  m * x <= m * y
  OBVIOUS

\* One committed handler less is one dearest call less.
LEMMA TimesPredecessor ==
  ASSUME NEW m \in Nat, NEW x \in Nat
  PROVE  m * (x - 1) = m * x - m
  OBVIOUS

\* A handler that has passed a level is well typed, on the next level or
\* admitted.
LEMMA PassedHandler ==
  ASSUME NEW h \in Handler, h.level \in Levels
  PROVE  /\ Passed(h) \in Handler
         /\ Passed(h).key = h.key /\ Passed(h).own = h.own /\ Passed(h).over = h.over
         /\ Passed(h).level = h.level + 1
         /\ Passed(h).stage = IF h.level = 4 THEN "call" ELSE "limit"
<1>1. h.level + 1 \in 1..Done /\ (h.level + 1 = Done <=> h.level = 4)
  BY DEF Levels, Done
<1>2. (IF h.level + 1 = Done THEN "call" ELSE "limit") \in Stages
  BY DEF Stages
<1>3. NoLimit \in MaxBudget
  BY DEF MaxBudget
<1>4. Passed(h) \in Handler
  BY <1>1, <1>2, <1>3 DEF Passed, Handler
<1> QED
  BY <1>1, <1>4 DEF Passed, Handler

\* A released handler is well typed and may go on as a batch.
LEMMA ReleasedHandler ==
  ASSUME NEW h \in Handler
  PROVE  /\ Released(h) \in Handler
         /\ Released(h).key = h.key /\ Released(h).own = h.own /\ Released(h).over = FALSE
         /\ Released(h).level = 1
         /\ Released(h).stage = "between"
<1>1. "between" \in Stages /\ 1 \in 1..Done /\ NoLimit \in MaxBudget /\ 0 \in Nat
  BY DEF Stages, Done, MaxBudget
<1>2. Released(h) \in Handler
  BY <1>1 DEF Released, Handler
<1> QED
  BY <1>2 DEF Released, Handler

\* A handler that enters check_budget is well typed; the limit of its key is
\* at hand, so it begins at the counter of level 1 or the record of level 2.
LEMMA EnterHandler ==
  ASSUME NEW k \in Keys, NEW own \in MaxBudget
  PROVE  /\ Enter(k, own) \in Handler
         /\ Enter(k, own).key = k /\ Enter(k, own).own = own /\ Enter(k, own).cap = own
         /\ Enter(k, own).over = OverNow(k, own)
         /\ Enter(k, own).level = IF own = NoLimit THEN 2 ELSE 1
         /\ Enter(k, own).stage = IF own = NoLimit THEN "limit" ELSE "spend"
<1>1. OverNow(k, own) \in BOOLEAN
  BY DEF OverNow, Exhausted
<1> QED
  BY <1>1, BudgetAssumption DEF Enter, Handler, Levels, Done, Stages, MaxBudget

\* A fresh handler is well typed.
LEMMA FreshHandler ==
  ASSUME NEW k \in Keys
  PROVE  /\ Fresh(k) \in Handler
         /\ Fresh(k).key = k /\ Fresh(k).own = NoLimit /\ Fresh(k).over = FALSE
         /\ Fresh(k).level = 1 /\ Fresh(k).stage = "idle"
<1>1. "idle" \in Stages /\ 1 \in 1..Done /\ NoLimit \in MaxBudget /\ 0 \in Nat
  BY DEF Stages, Done, MaxBudget
<1>2. Fresh(k) \in Handler
  BY <1>1 DEF Fresh, Handler
<1> QED
  BY <1>2 DEF Fresh, Handler

-----------------------------------------------------------------------------
(* Type correctness.                                                       *)

\* A limit `max` that is no higher than `top`.
Below(max, top) == top # NoLimit => max # NoLimit /\ max <= top

\* How far the check of a handler is, by its stage.
LevelOK(h) ==
    /\ h.stage \in {"idle", "between", "log"} => h.level = 1
    /\ h.stage = "limit" => h.level \in 2..4
    /\ h.stage = "spend" => h.level \in 1..4
    /\ h.stage = "call" => h.level = Done

\* The limits a handler has read are covered by the ceilings.
CoverOK(h) ==
    /\ h.stage # "idle" => Below(h.own, ceiling[AccountOf[h.key][1]])
    /\ h.stage = "spend" =>
         /\ AccountOf[h.key][h.level] # NoAccount
         /\ h.cap # NoLimit
         /\ Below(h.cap, ceiling[AccountOf[h.key][h.level]])

Typed ==
    /\ TypeOK
    /\ \A r \in Requests : LevelOK(req[r])

\* Init => Typed, and Typed is kept by every step, one action at a time.
LEMMA TypedAlways == Spec => []Typed
<1>1. Init => Typed
  <2> SUFFICES ASSUME Init PROVE Typed
    OBVIOUS
  <2>1. (CHOOSE k \in Keys : TRUE) \in Keys
    BY BudgetAssumption
  <2>2. \A r \in Requests : req[r] \in Handler /\ LevelOK(req[r])
    BY <2>1, FreshHandler DEF Init, LevelOK
  <2>3. req \in [Requests -> Handler]
    BY <2>2 DEF Init
  <2> QED
    BY <2>2, <2>3 DEF Init, Typed, TypeOK
<1>2. Typed /\ [Next]_vars => Typed'
  <2> SUFFICES ASSUME Typed, [Next]_vars PROVE Typed'
    OBVIOUS
  <2> USE DEF Typed
  <2>1. ASSUME NEW r \in Requests, NEW k \in Keys, Arrive(r, k)
        PROVE Typed'
    <3>1. limit[AccountOf[k][1]] \in MaxBudget
      BY BudgetAssumption DEF TypeOK, Levels
    <3> QED
      BY <2>1, <3>1, EnterHandler DEF Arrive, TypeOK, LevelOK
  <2>2. ASSUME NEW r \in Requests, NextItem(r)
        PROVE Typed'
    <3>1. req[r].key \in Keys /\ req[r].own \in MaxBudget
      BY DEF TypeOK, Handler
    <3> QED
      BY <2>2, <3>1, EnterHandler DEF NextItem, TypeOK, LevelOK
  <2>3. ASSUME NEW r \in Requests, ReadLimit(r)
        PROVE Typed'
    <3> DEFINE h == req[r]
               a == AccountOf[h.key][h.level]
               asked == [h EXCEPT !.stage = "spend", !.cap = limit[a]]
    <3>1. h \in Handler /\ h.level \in 2..4
      BY <2>3 DEF ReadLimit, TypeOK, LevelOK
    <3>2. Passed(h) \in Handler /\ LevelOK(Passed(h))
      BY <3>1, PassedHandler DEF LevelOK, Levels, Done
    <3>3. ASSUME a # NoAccount
          PROVE  asked \in Handler /\ LevelOK(asked)
      <4>1. limit[a] \in MaxBudget
        BY <3>1, <3>3, BudgetAssumption DEF TypeOK, Levels, Handler
      <4>2. "spend" \in Stages
        BY DEF Stages
      <4>3. asked \in Handler
        BY <3>1, <4>1, <4>2 DEF Handler
      <4> QED
        BY <3>1, <4>3 DEF LevelOK, Handler
    <3>4. req' = [req EXCEPT ![r] = IF a = NoAccount THEN Passed(h)
                                    ELSE IF limit[a] = NoLimit THEN Passed(h) ELSE asked]
      BY <2>3 DEF ReadLimit
    <3> QED
      BY <2>3, <3>2, <3>3, <3>4 DEF ReadLimit, TypeOK
  <2>4. ASSUME NEW r \in Requests, ReadSpend(r)
        PROVE Typed'
    <3>1. req[r] \in Handler /\ req[r].level \in 1..4
      BY <2>4 DEF ReadSpend, TypeOK, LevelOK
    <3>2. Passed(req[r]) \in Handler /\ LevelOK(Passed(req[r]))
      BY <3>1, PassedHandler DEF LevelOK, Levels, Done
    <3>3. Released(req[r]) \in Handler /\ LevelOK(Released(req[r]))
      BY <3>1, ReleasedHandler DEF LevelOK
    <3> QED
      BY <2>4, <3>2, <3>3 DEF ReadSpend, TypeOK
  <2>5. ASSUME NEW r \in Requests, NEW c \in 0..MaxCost, IncrementSpend(r, c)
        PROVE Typed'
    <3> DEFINE next == [req[r] EXCEPT !.stage = "log", !.cost = c, !.level = 1, !.over = FALSE]
    <3>1. req[r] \in Handler /\ c \in Nat /\ req[r].key \in Keys
      BY BudgetAssumption DEF TypeOK, Handler
    <3>2. next \in Handler /\ LevelOK(next)
      <4>1. "log" \in Stages /\ 1 \in 1..Done
        BY DEF Stages, Done
      <4>2. next \in Handler
        BY <3>1, <4>1 DEF Handler
      <4> QED
        BY <3>1, <4>2 DEF Handler, LevelOK
    <3>3. req' = [req EXCEPT ![r] = next]
      BY <2>5 DEF IncrementSpend
    <3>4. spend' \in [Accounts -> Nat] /\ billed' \in [Keys -> Nat]
      BY <2>5, <3>1 DEF IncrementSpend, TypeOK
    <3> QED
      BY <2>5, <3>2, <3>3, <3>4 DEF IncrementSpend, TypeOK
  <2>6. ASSUME NEW r \in Requests, PushLog(r)
        PROVE Typed'
    <3>1. req[r] \in Handler /\ req[r].key \in Keys /\ req[r].cost \in Nat
      BY DEF TypeOK, Handler
    <3>2. Released(req[r]) \in Handler /\ LevelOK(Released(req[r]))
      BY <3>1, ReleasedHandler DEF LevelOK
    <3> QED
      BY <2>6, <3>1, <3>2 DEF PushLog, TypeOK
  <2>7. ASSUME NEW r \in Requests, NotCharged(r)
        PROVE Typed'
    <3>1. Released(req[r]) \in Handler /\ LevelOK(Released(req[r]))
      BY ReleasedHandler DEF LevelOK, TypeOK
    <3> QED
      BY <2>7, <3>1 DEF NotCharged, TypeOK
  <2>8. CASE Crash
    <3>1. (CHOOSE k \in Keys : TRUE) \in Keys
      BY BudgetAssumption
    <3> QED
      BY <2>8, <3>1, FreshHandler DEF Crash, TypeOK, LevelOK
  <2>9. Reopened \in [Requests -> Handler] /\ \A r \in Requests : LevelOK(Reopened[r])
    BY DEF Reopened, TypeOK, Handler, LevelOK
  <2>10. ASSUME NEW a \in Accounts, NEW max \in MaxBudget, SetLimit(a, max)
         PROVE Typed'
    BY <2>9, <2>10 DEF SetLimit, TypeOK, Raise
  <2>11. ASSUME NEW k \in Keys, ResetBudget(k)
         PROVE Typed'
    BY <2>9, <2>11 DEF ResetBudget, TypeOK
  <2>12. ASSUME NEW batch \in SUBSET Accounts, ResetAllSpend(batch)
         PROVE Typed'
    BY <2>9, <2>12 DEF ResetAllSpend, TypeOK
  <2>13. CASE UNCHANGED vars
    BY <2>13 DEF vars, TypeOK, LevelOK
  <2> QED
    BY <2>1, <2>2, <2>3, <2>4, <2>5, <2>6, <2>7, <2>8, <2>10, <2>11, <2>12, <2>13 DEF Next
<1> QED
  BY <1>1, <1>2, PTL DEF Spec

\* Every variable keeps its type: counters stay naturals, a check stays on
\* the four levels.
THEOREM TypeCorrect == Spec => []TypeOK
<1>1. Typed => TypeOK
  BY DEF Typed
<1> QED
  BY <1>1, TypedAlways, PTL

-----------------------------------------------------------------------------
(* The bound on the overshoot.                                             *)

\* No limit in Redis, and none in a handler's locals, is above its ceiling.
Covered ==
    /\ \A a \in Accounts : Below(limit[a], ceiling[a])
    /\ \A r \in Requests : CoverOK(req[r])

\* Every limit is below itself.
LEMMA BelowItself == \A x \in MaxBudget : Below(x, x)
  BY BudgetAssumption DEF Below, MaxBudget

\* Raising a ceiling keeps it above what it covered, and above the new limit.
LEMMA RaiseCovers ==
  ASSUME NEW old \in MaxBudget, NEW new \in MaxBudget
  PROVE  /\ Raise(old, new) \in MaxBudget
         /\ Below(new, Raise(old, new))
         /\ \A x \in MaxBudget : Below(x, old) => Below(x, Raise(old, new))
  BY BudgetAssumption DEF Raise, Below, MaxBudget

\* Covered is kept given types: ceilings only rise, handlers only copy limits.
LEMMA CoveredAlways == Spec => []Covered
<1>1. Init => Covered
  <2>1. (CHOOSE k \in Keys : TRUE) \in Keys
    BY BudgetAssumption
  <2> SUFFICES ASSUME Init PROVE Covered
    OBVIOUS
  <2>2. \A a \in Accounts : Below(limit[a], ceiling[a])
    BY BelowItself DEF Init
  <2>3. \A r \in Requests : req[r].stage = "idle"
    BY <2>1, FreshHandler DEF Init
  <2> QED
    BY <2>2, <2>3 DEF Covered, CoverOK
<1>2. Typed /\ Typed' /\ Covered /\ [Next]_vars => Covered'
  <2> SUFFICES ASSUME Typed, Typed', Covered, [Next]_vars PROVE Covered'
    OBVIOUS
  <2>0. \A r \in Requests : req[r] \in Handler /\ LevelOK(req[r]) /\ CoverOK(req[r])
    BY DEF Typed, TypeOK, Covered
  <2>1. ASSUME NEW r \in Requests, NEW k \in Keys, Arrive(r, k)
        PROVE Covered'
    <3> DEFINE own == limit[AccountOf[k][1]]
    <3>1. AccountOf[k][1] \in Accounts /\ own \in MaxBudget
      BY BudgetAssumption DEF Typed, TypeOK, Levels
    <3>2. Below(own, ceiling[AccountOf[k][1]])
      BY <3>1 DEF Covered
    <3>3. CoverOK(Enter(k, own))
      BY <3>1, <3>2, EnterHandler, BudgetAssumption DEF CoverOK
    <3> QED
      BY <2>0, <2>1, <3>3 DEF Arrive, Covered, CoverOK, Typed, TypeOK
  <2>2. ASSUME NEW r \in Requests, NextItem(r)
        PROVE Covered'
    <3> DEFINE k == req[r].key
               own == req[r].own
    <3>1. k \in Keys /\ own \in MaxBudget
      BY <2>0 DEF Handler
    <3>2. Below(own, ceiling[AccountOf[k][1]])
      BY <2>0, <2>2 DEF NextItem, CoverOK
    <3>3. CoverOK(Enter(k, own))
      BY <3>1, <3>2, EnterHandler, BudgetAssumption DEF CoverOK
    <3> QED
      BY <2>0, <2>2, <3>3 DEF NextItem, Covered, CoverOK, Typed, TypeOK
  <2>3. ASSUME NEW r \in Requests, ReadLimit(r)
        PROVE Covered'
    <3> DEFINE h == req[r]
               a == AccountOf[h.key][h.level]
               asked == [h EXCEPT !.stage = "spend", !.cap = limit[a]]
    <3>1. h \in Handler /\ h.level \in 2..4 /\ h.stage = "limit"
      BY <2>0, <2>3 DEF ReadLimit, LevelOK
    <3>2. CoverOK(Passed(h))
      BY <2>0, <3>1, PassedHandler DEF CoverOK, Levels
    <3>3. ASSUME a # NoAccount, limit[a] # NoLimit
          PROVE  CoverOK(asked)
      <4>1. a \in Accounts
        BY <3>1, <3>3, BudgetAssumption DEF Levels, Handler
      <4>2. Below(limit[a], ceiling[a])
        BY <4>1 DEF Covered
      <4>3. /\ asked.stage = "spend" /\ asked.cap = limit[a] /\ asked.key = h.key
            /\ asked.level = h.level /\ asked.own = h.own
        BY <3>1 DEF Handler
      <4> QED
        BY <2>0, <3>1, <3>3, <4>2, <4>3 DEF CoverOK
    <3>4. /\ req' = [req EXCEPT ![r] = req'[r]]
          /\ req'[r] = Passed(h) \/ (req'[r] = asked /\ a # NoAccount /\ limit[a] # NoLimit)
      BY <2>3 DEF ReadLimit, Typed, TypeOK
    <3>5. CoverOK(req'[r])
      BY <3>2, <3>3, <3>4
    <3>6. UNCHANGED <<limit, ceiling>>
      BY <2>3 DEF ReadLimit
    <3>7. \A s \in Requests : CoverOK(req'[s])
      BY <2>0, <3>4, <3>5 DEF Typed, TypeOK
    <3> QED
      BY <3>6, <3>7 DEF Covered, CoverOK
  <2>4. ASSUME NEW r \in Requests, ReadSpend(r)
        PROVE Covered'
    <3>1. req[r] \in Handler /\ req[r].level \in Levels /\ req[r].stage = "spend"
      BY <2>0, <2>4 DEF ReadSpend, LevelOK, Levels
    <3>2. CoverOK(Passed(req[r])) /\ CoverOK(Released(req[r]))
      BY <2>0, <3>1, PassedHandler, ReleasedHandler DEF CoverOK
    <3> QED
      BY <2>0, <2>4, <3>2 DEF ReadSpend, Covered, CoverOK, Typed, TypeOK
  <2>5. ASSUME NEW r \in Requests, NEW c \in 0..MaxCost, IncrementSpend(r, c)
        PROVE Covered'
    <3> DEFINE next == [req[r] EXCEPT !.stage = "log", !.cost = c, !.level = 1, !.over = FALSE]
    <3>1. next.stage = "log" /\ next.key = req[r].key /\ next.own = req[r].own
      BY <2>0 DEF Handler
    <3>2. CoverOK(next)
      BY <2>0, <2>5, <3>1 DEF CoverOK, IncrementSpend
    <3>3. req' = [req EXCEPT ![r] = next]
      BY <2>5 DEF IncrementSpend
    <3> QED
      BY <2>0, <2>5, <3>2, <3>3 DEF IncrementSpend, Covered, CoverOK, Typed, TypeOK
  <2>6. ASSUME NEW r \in Requests, PushLog(r) \/ NotCharged(r)
        PROVE Covered'
    <3>1. CoverOK(Released(req[r]))
      BY <2>0, <2>6, ReleasedHandler DEF CoverOK, PushLog, NotCharged
    <3> QED
      BY <2>0, <2>6, <3>1 DEF PushLog, NotCharged, Covered, CoverOK, Typed, TypeOK
  <2>7. CASE Crash
    <3>1. (CHOOSE k \in Keys : TRUE) \in Keys
      BY BudgetAssumption
    <3> QED
      BY <2>0, <2>7, <3>1, FreshHandler DEF Crash, Covered, CoverOK
  <2>8. \A r \in Requests : /\ Reopened[r].stage = req[r].stage /\ Reopened[r].key = req[r].key
                            /\ Reopened[r].own = req[r].own /\ Reopened[r].cap = req[r].cap
                            /\ Reopened[r].level = req[r].level
    BY <2>0 DEF Reopened, Handler
  <2>9. ASSUME NEW a \in Accounts, NEW max \in MaxBudget, SetLimit(a, max)
        PROVE Covered'
    <3>1. /\ limit' = [limit EXCEPT ![a] = max]
          /\ ceiling' = [ceiling EXCEPT ![a] = Raise(ceiling[a], max)]
          /\ req' = Reopened
      BY <2>9 DEF SetLimit
    <3>2. \A b \in Accounts, x \in MaxBudget : Below(x, ceiling[b]) => Below(x, ceiling'[b])
      BY <3>1, RaiseCovers DEF Typed, TypeOK
    <3>3. \A b \in Accounts : Below(limit[b], ceiling[b])'
      <4>1. \A b \in Accounts : limit[b] \in MaxBudget /\ Below(limit[b], ceiling[b])
        BY DEF Covered, Typed, TypeOK
      <4>2. Below(max, ceiling'[a])
        BY <3>1, RaiseCovers DEF Typed, TypeOK
      <4>3. \A b \in Accounts : Below(limit'[b], ceiling'[b])
        BY <3>1, <3>2, <4>1, <4>2 DEF Typed, TypeOK
      <4> QED
        BY <4>3 DEF Below
    <3>4. ASSUME NEW r \in Requests
          PROVE  CoverOK(req[r])'
      <4>1. /\ req[r].key \in Keys /\ req[r].own \in MaxBudget /\ req[r].cap \in MaxBudget
            /\ req[r].stage = "spend" => req[r].level \in Levels
        BY <2>0 DEF Handler, LevelOK, Levels
      <4>2. AccountOf[req[r].key][1] \in Accounts
        BY <4>1, BudgetAssumption DEF Levels
      <4>3. req[r].stage = "spend" /\ AccountOf[req[r].key][req[r].level] # NoAccount
              => AccountOf[req[r].key][req[r].level] \in Accounts
        BY <4>1, BudgetAssumption
      <4> QED
        BY <2>0, <2>8, <3>1, <3>2, <4>1, <4>2, <4>3 DEF CoverOK, Below
    <3> QED
      BY <3>3, <3>4 DEF Covered
  <2>10. ASSUME NEW k \in Keys, ResetBudget(k)
         PROVE Covered'
    BY <2>0, <2>8, <2>10 DEF ResetBudget, Covered, CoverOK
  <2>11. ASSUME NEW batch \in SUBSET Accounts, ResetAllSpend(batch)
         PROVE Covered'
    BY <2>0, <2>8, <2>11 DEF ResetAllSpend, Covered, CoverOK
  <2>12. CASE UNCHANGED vars
    BY <2>12 DEF vars, Covered, CoverOK
  <2> QED
    BY <2>1, <2>2, <2>3, <2>4, <2>5, <2>6, <2>7, <2>9, <2>10, <2>11, <2>12 DEF Next
<1> QED
  BY <1>1, <1>2, TypedAlways, PTL DEF Spec

\* CommitmentBounded of one account.
Bounded(a) ==
    ceiling[a] # NoLimit =>
        spend[a] + MaxCost * Cardinality(Committed(a))
            <= ceiling[a] + MaxCost * Cardinality(Requests)

\* The committed handlers of an account are finitely many.
LEMMA CommittedFinite ==
  ASSUME NEW a
  PROVE  /\ IsFiniteSet(Committed(a)) /\ Cardinality(Committed(a)) \in Nat
         /\ Cardinality(Requests) \in Nat
         /\ Cardinality(Committed(a)) <= Cardinality(Requests)
<1>1. Committed(a) \in SUBSET Requests
  BY DEF Committed
<1> QED
  BY <1>1, BudgetAssumption, FS_Subset, FS_CardinalityType

\* A step that charges nothing and commits no further handler to a keeps
\* Bounded(a).
LEMMA BoundedKept ==
  ASSUME Typed, Typed', NEW a \in Accounts, Bounded(a),
         spend'[a] <= spend[a],
         ceiling'[a] # NoLimit => /\ Below(ceiling[a], ceiling'[a])
                                  /\ Committed(a)' \subseteq Committed(a)
  PROVE  Bounded(a)'
<1> SUFFICES ASSUME ceiling'[a] # NoLimit
             PROVE  spend'[a] + MaxCost * Cardinality(Committed(a)')
                      <= ceiling'[a] + MaxCost * Cardinality(Requests)
  BY DEF Bounded
<1>1. /\ spend[a] \in Nat /\ spend'[a] \in Nat
      /\ ceiling[a] \in Nat /\ ceiling'[a] \in Nat /\ ceiling[a] <= ceiling'[a]
  BY BudgetAssumption DEF Typed, TypeOK, MaxBudget, Below
<1>2. /\ Cardinality(Committed(a)) \in Nat /\ Cardinality(Committed(a)') \in Nat
      /\ Cardinality(Committed(a)') <= Cardinality(Committed(a))
      /\ Cardinality(Requests) \in Nat
  BY CommittedFinite, FS_Subset, FS_CardinalityType
<1>3. MaxCost * Cardinality(Committed(a)') <= MaxCost * Cardinality(Committed(a))
  BY <1>2, TimesMonotone, BudgetAssumption
<1>4. spend[a] + MaxCost * Cardinality(Committed(a))
        <= ceiling[a] + MaxCost * Cardinality(Requests)
  BY <1>1, BudgetAssumption DEF Bounded
<1> DEFINE x == MaxCost * Cardinality(Committed(a)')
           y == MaxCost * Cardinality(Committed(a))
           z == MaxCost * Cardinality(Requests)
<1>5. x \in Nat /\ y \in Nat /\ z \in Nat
  BY <1>2, BudgetAssumption
<1> HIDE DEF x, y, z
<1>6. x <= y /\ spend[a] + y <= ceiling[a] + z
  BY <1>3, <1>4 DEF x, y, z
<1>7. spend'[a] + x <= ceiling'[a] + z
  BY <1>1, <1>5, <1>6
<1> QED
  BY <1>7 DEF x, z

\* The same for a step of one handler that leaves counters and limits alone.
LEMMA OneHandlerMoves ==
  ASSUME Typed, Typed', \A b \in Accounts : Bounded(b),
         NEW r \in Requests,
         req' = [req EXCEPT ![r] = req'[r]],
         UNCHANGED <<spend, ceiling>>,
         NEW a \in Accounts,
         ceiling[a] # NoLimit /\ a \in Cleared(req'[r]) => a \in Cleared(req[r])
  PROVE  Bounded(a)'
<1>1. \A s \in Requests \ {r} : req'[s] = req[s]
  BY DEF Typed, TypeOK
<1>2. ceiling[a] # NoLimit => Committed(a)' \subseteq Committed(a)
  BY <1>1 DEF Committed
<1>3. ceiling[a] # NoLimit => Below(ceiling[a], ceiling'[a])
  BY BelowItself DEF Typed, TypeOK
<1>4. spend'[a] <= spend[a]
  BY DEF Typed, TypeOK
<1> QED
  BY <1>2, <1>3, <1>4, BoundedKept

\* Passing a level clears a handler for the account of that level, no other.
LEMMA ClearedStep ==
  ASSUME NEW h \in Handler, NEW a
  PROVE  /\ h.level = 1 => a \notin Cleared(h)
         /\ h.level \in Levels =>
              (a \in Cleared(Passed(h)) <=>
                 \/ a \in Cleared(h)
                 \/ a = AccountOf[h.key][h.level] /\ a # NoAccount)
<1>1. h.level = 1 => 1..(h.level - 1) = {}
  OBVIOUS
<1>2. ASSUME h.level \in Levels
      PROVE  /\ Passed(h).key = h.key
             /\ 1..(Passed(h).level - 1) = 1..(h.level - 1) \union {h.level}
  BY <1>2, PassedHandler DEF Levels
<1> QED
  BY <1>1, <1>2 DEF Cleared

\* The invariant of the race: ReadSpend commits a handler only while the
\* counter is at most the limit it read, IncrementSpend takes its handler out
\* of the committed ones as it charges at most MaxCost.
LEMMA CommitmentAlways == Spec => []CommitmentBounded
<1>1. CommitmentBounded <=> \A a \in Accounts : Bounded(a)
  BY DEF CommitmentBounded, Bounded
<1>2. Init => CommitmentBounded
  <2> SUFFICES ASSUME Init, NEW a \in Accounts PROVE Bounded(a)
    BY <1>1
  <2>1. (CHOOSE k \in Keys : TRUE) \in Keys
    BY BudgetAssumption
  <2>2. \A r \in Requests : a \notin Cleared(req[r])
    BY <2>1, FreshHandler, ClearedStep DEF Init
  <2>3. Cardinality(Committed(a)) = 0
    BY <2>2, FS_EmptySet DEF Committed
  <2>4. MaxCost * Cardinality(Requests) \in Nat
    BY CommittedFinite, BudgetAssumption
  <2> DEFINE z == MaxCost * Cardinality(Requests)
  <2>5. spend[a] = 0 /\ (ceiling[a] # NoLimit => ceiling[a] \in Nat)
    BY BudgetAssumption DEF Init, MaxBudget
  <2>6. MaxCost * 0 = 0
    BY BudgetAssumption
  <2> HIDE DEF z
  <2>7. ceiling[a] # NoLimit => 0 + 0 <= ceiling[a] + z
    BY <2>4, <2>5 DEF z
  <2> QED
    BY <2>3, <2>5, <2>6, <2>7 DEF Bounded, z
<1>3. Typed /\ Typed' /\ Covered /\ CommitmentBounded /\ [Next]_vars => CommitmentBounded'
  <2> SUFFICES ASSUME Typed, Typed', Covered, \A a \in Accounts : Bounded(a), [Next]_vars,
                      NEW a \in Accounts
               PROVE  Bounded(a)'
    BY DEF CommitmentBounded, Bounded
  <2>0. \A r \in Requests : req[r] \in Handler /\ LevelOK(req[r]) /\ CoverOK(req[r])
    BY DEF Typed, TypeOK, Covered
  <2>1. ASSUME NEW r \in Requests, NEW k \in Keys, NEW own \in MaxBudget,
               req' = [req EXCEPT ![r] = Enter(k, own)], UNCHANGED <<spend, ceiling>>,
               own = NoLimit => ceiling[AccountOf[k][1]] = NoLimit
        PROVE  Bounded(a)'
    <3>1. req'[r] = Enter(k, own)
      BY <2>1 DEF Typed, TypeOK
    <3>2. own = NoLimit => Cleared(req'[r]) \subseteq {AccountOf[k][1]}
      <4>1. own = NoLimit => req'[r].key = k /\ 1..(req'[r].level - 1) = {1}
        BY <3>1, EnterHandler
      <4> QED
        BY <4>1 DEF Cleared
    <3>3. own # NoLimit => a \notin Cleared(req'[r])
      BY <3>1, EnterHandler, ClearedStep
    <3>4. ceiling[a] # NoLimit => a \notin Cleared(req'[r])
      BY <2>1, <3>2, <3>3
    <3> QED
      BY <2>1, <3>1, <3>4, OneHandlerMoves
  <2>2. ASSUME NEW r \in Requests, NEW k \in Keys, Arrive(r, k)
        PROVE  Bounded(a)'
    <3>1. AccountOf[k][1] \in Accounts /\ limit[AccountOf[k][1]] \in MaxBudget
      BY BudgetAssumption DEF Typed, TypeOK, Levels
    <3>2. limit[AccountOf[k][1]] = NoLimit => ceiling[AccountOf[k][1]] = NoLimit
      BY <3>1 DEF Covered, Below
    <3> QED
      BY <2>1, <2>2, <3>1, <3>2 DEF Arrive
  <2>3. ASSUME NEW r \in Requests, NextItem(r)
        PROVE  Bounded(a)'
    <3>1. req[r].key \in Keys /\ req[r].own \in MaxBudget
      BY <2>0 DEF Handler
    <3>2. req[r].own = NoLimit => ceiling[AccountOf[req[r].key][1]] = NoLimit
      BY <2>0, <2>3 DEF NextItem, CoverOK, Below
    <3> QED
      BY <2>1, <2>3, <3>1, <3>2 DEF NextItem
  <2>4. ASSUME NEW r \in Requests, ReadLimit(r)
        PROVE  Bounded(a)'
    <3> DEFINE h == req[r]
               acc == AccountOf[h.key][h.level]
               asked == [h EXCEPT !.stage = "spend", !.cap = limit[acc]]
    <3>1. h \in Handler /\ h.level \in Levels
      BY <2>0, <2>4 DEF ReadLimit, LevelOK, Levels
    <3>2. /\ req' = [req EXCEPT ![r] = req'[r]]
          /\ \/ req'[r] = asked
             \/ req'[r] = Passed(h) /\ (acc = NoAccount \/ limit[acc] = NoLimit)
      BY <2>4 DEF ReadLimit, Typed, TypeOK
    <3>3. Cleared(asked) = Cleared(h)
      <4>1. asked.key = h.key /\ asked.level = h.level
        BY <3>1 DEF Handler
      <4> QED
        BY <4>1 DEF Cleared
    <3>4. acc \in Accounts /\ limit[acc] = NoLimit => ceiling[acc] = NoLimit
      BY DEF Covered, Below
    <3>5. ceiling[a] # NoLimit /\ a \in Cleared(req'[r]) => a \in Cleared(h)
      BY <3>1, <3>2, <3>3, <3>4, ClearedStep
    <3>6. UNCHANGED <<spend, ceiling>>
      BY <2>4 DEF ReadLimit
    <3> QED
      BY <3>2, <3>5, <3>6, OneHandlerMoves
  <2>5. ASSUME NEW r \in Requests, ReadSpend(r)
        PROVE  Bounded(a)'
    <3> DEFINE h == req[r]
               acc == AccountOf[h.key][h.level]
    <3>1. h \in Handler /\ h.level \in Levels /\ h.stage = "spend"
      BY <2>0, <2>5 DEF ReadSpend, LevelOK, Levels
    <3>2. /\ req' = [req EXCEPT ![r] = req'[r]]
          /\ \/ req'[r] = Released(h)
             \/ req'[r] = Passed(h) /\ ~Exhausted(spend[acc], h.cap)
          /\ UNCHANGED <<spend, ceiling>>
      BY <2>5 DEF ReadSpend, Typed, TypeOK
    <3>3. CASE a = acc /\ req'[r] = Passed(h) /\ ceiling[a] # NoLimit
      <4>1. h.cap # NoLimit /\ h.cap <= ceiling[a] /\ h.cap \in Nat
        BY <2>0, <3>1, <3>3, BudgetAssumption DEF CoverOK, Below, Handler, MaxBudget
      <4>2. spend[a] \in Nat /\ ceiling[a] \in Nat
        BY <3>3, BudgetAssumption DEF Typed, TypeOK, MaxBudget
      <4>3. spend[a] <= h.cap
        <5>1. Passed(h) # Released(h)
          BY <3>1, PassedHandler, ReleasedHandler
        <5>2. ~(spend[a] > h.cap)
          BY <3>2, <3>3, <4>1, <5>1 DEF Exhausted
        <5> QED
          BY <4>1, <4>2, <5>2
      <4>4. MaxCost * Cardinality(Committed(a)') <= MaxCost * Cardinality(Requests)
        <5>1. Committed(a)' \in SUBSET Requests
          BY DEF Committed
        <5>2. /\ Cardinality(Committed(a)') \in Nat /\ Cardinality(Requests) \in Nat
              /\ Cardinality(Committed(a)') <= Cardinality(Requests)
          BY <5>1, BudgetAssumption, FS_Subset, FS_CardinalityType
        <5> QED
          BY <5>2, TimesMonotone, BudgetAssumption
      <4> DEFINE x == MaxCost * Cardinality(Committed(a)')
                 z == MaxCost * Cardinality(Requests)
      <4>5. x \in Int /\ z \in Int
        <5>1. Committed(a)' \in SUBSET Requests
          BY DEF Committed
        <5> QED
          BY <5>1, BudgetAssumption, FS_Subset, FS_CardinalityType
      <4>6. x <= z
        BY <4>4
      <4> HIDE DEF x, z
      <4>7. spend[a] + x <= ceiling[a] + z
        BY <4>1, <4>2, <4>3, <4>5, <4>6
      <4>8. spend'[a] + x <= ceiling'[a] + z
        BY <3>2, <4>7
      <4> QED
        BY <4>8 DEF Bounded, x, z
    <3>4. CASE ~(a = acc /\ req'[r] = Passed(h) /\ ceiling[a] # NoLimit)
      <4>1. a \notin Cleared(Released(h))
        BY <3>1, ReleasedHandler, ClearedStep
      <4>2. ceiling[a] # NoLimit /\ a \in Cleared(req'[r]) => a \in Cleared(h)
        BY <3>1, <3>2, <3>4, <4>1, ClearedStep
      <4> QED
        BY <3>2, <4>2, OneHandlerMoves
    <3> QED
      BY <3>3, <3>4
  <2>6. ASSUME NEW r \in Requests, NEW c \in 0..MaxCost, IncrementSpend(r, c)
        PROVE  Bounded(a)'
    <3> DEFINE h == req[r]
               next == [h EXCEPT !.stage = "log", !.cost = c, !.level = 1, !.over = FALSE]
    <3>1. h \in Handler /\ h.level = Done /\ h.key \in Keys
      BY <2>0, <2>6 DEF IncrementSpend, LevelOK, Handler
    <3>2. req'[r] = next /\ \A s \in Requests \ {r} : req'[s] = req[s]
      BY <2>6 DEF IncrementSpend, Typed, TypeOK
    <3>3. a \notin Cleared(req'[r])
      <4>1. req'[r] \in Handler /\ req'[r].level = 1
        BY <3>1, <3>2 DEF Handler, Typed, TypeOK
      <4> QED
        BY <4>1, ClearedStep
    <3>4. Committed(a)' = Committed(a) \ {r}
      BY <3>2, <3>3 DEF Committed
    <3>5. CASE a \notin ChargedAccounts(h.key)
      <4>1. spend'[a] = spend[a] /\ ceiling' = ceiling /\ spend[a] \in Nat
        BY <2>6, <3>5 DEF IncrementSpend, Typed, TypeOK
      <4>2. ceiling'[a] # NoLimit => Below(ceiling[a], ceiling'[a])
        BY <4>1, BelowItself DEF Typed, TypeOK
      <4> QED
        BY <3>4, <4>1, <4>2, BoundedKept
    <3>6. CASE a \in ChargedAccounts(h.key)
      <4>1. spend'[a] = spend[a] + c /\ ceiling' = ceiling /\ spend[a] \in Nat
        BY <2>6, <3>6 DEF IncrementSpend, Typed, TypeOK
      <4>2. r \in Committed(a)
        <5>1. 1..(h.level - 1) = Levels
          BY <3>1 DEF Levels, Done
        <5> QED
          BY <3>6, <5>1 DEF Committed, Cleared, ChargedAccounts
      <4> DEFINE n == Cardinality(Committed(a))
                 all == Cardinality(Requests)
      <4>3. n \in Nat /\ all \in Nat /\ Cardinality(Committed(a)') = n - 1
        BY <3>4, <4>2, CommittedFinite, FS_RemoveElement
      <4> HIDE DEF n, all
      <4>4. MaxCost * (n - 1) = MaxCost * n - MaxCost
        BY <4>3, TimesPredecessor, BudgetAssumption
      <4> DEFINE y == MaxCost * n
                 z == MaxCost * all
      <4>5. y \in Nat /\ z \in Nat /\ MaxCost \in Nat /\ c \in Nat /\ c <= MaxCost
        BY <4>3, BudgetAssumption
      <4>6. ASSUME ceiling[a] # NoLimit
            PROVE  /\ ceiling[a] \in Nat
                   /\ spend[a] + y <= ceiling[a] + z
        BY <4>6, BudgetAssumption DEF Bounded, Typed, TypeOK, MaxBudget, n, all
      <4> HIDE DEF y, z
      <4>7. ASSUME ceiling[a] # NoLimit
            PROVE  (spend[a] + c) + (y - MaxCost) <= ceiling[a] + z
        BY <4>1, <4>5, <4>6, <4>7
      <4> QED
        BY <4>1, <4>3, <4>4, <4>7 DEF Bounded, y, z, n, all
    <3> QED
      BY <3>5, <3>6
  <2>7. ASSUME NEW r \in Requests, PushLog(r) \/ NotCharged(r)
        PROVE  Bounded(a)'
    <3>1. /\ req' = [req EXCEPT ![r] = req'[r]] /\ req'[r] = Released(req[r])
          /\ UNCHANGED <<spend, ceiling>>
      BY <2>7 DEF PushLog, NotCharged, Typed, TypeOK
    <3>2. a \notin Cleared(req'[r])
      BY <2>0, <3>1, ReleasedHandler, ClearedStep
    <3> QED
      BY <3>1, <3>2, OneHandlerMoves
  <2>8. ceiling[a] # NoLimit => Below(ceiling[a], ceiling[a])
    BY BelowItself DEF Typed, TypeOK
  <2>9. CASE Crash
    <3>1. (CHOOSE k \in Keys : TRUE) \in Keys
      BY BudgetAssumption
    <3>2. \A r \in Requests : a \notin Cleared(req'[r])
      BY <2>9, <3>1, FreshHandler, ClearedStep DEF Crash
    <3>3. Committed(a)' \subseteq Committed(a)
      BY <3>2 DEF Committed
    <3>4. spend'[a] <= spend[a] /\ ceiling' = ceiling
      BY <2>9 DEF Crash, Typed, TypeOK
    <3> QED
      BY <2>8, <3>3, <3>4, BoundedKept
  <2>10. ASSUME req' = Reopened
         PROVE  Committed(a)' = Committed(a)
    <3>1. \A r \in Requests : req'[r].key = req[r].key /\ req'[r].level = req[r].level
      BY <2>0, <2>10 DEF Reopened, Handler
    <3>2. \A r \in Requests : Cleared(req'[r]) = Cleared(req[r])
      BY <3>1 DEF Cleared
    <3> QED
      BY <3>2 DEF Committed
  <2>11. ASSUME NEW b \in Accounts, NEW max \in MaxBudget, SetLimit(b, max)
         PROVE  Bounded(a)'
    <3>1. /\ ceiling' = [ceiling EXCEPT ![b] = Raise(ceiling[b], max)]
          /\ spend'[a] <= spend[a]
      BY <2>11 DEF SetLimit, Typed, TypeOK
    <3>2. ceiling'[a] # NoLimit => Below(ceiling[a], ceiling'[a])
      BY <2>8, <3>1, RaiseCovers DEF Typed, TypeOK, Below, Raise
    <3> QED
      BY <2>10, <2>11, <3>1, <3>2, BoundedKept DEF SetLimit
  <2>12. ASSUME NEW k \in Keys, ResetBudget(k)
         PROVE  Bounded(a)'
    <3>1. spend'[a] <= spend[a] /\ ceiling' = ceiling /\ req' = Reopened
      BY <2>12 DEF ResetBudget, Typed, TypeOK
    <3> QED
      BY <2>8, <2>10, <3>1, BoundedKept
  <2>13. ASSUME NEW batch \in SUBSET Accounts, ResetAllSpend(batch)
         PROVE  Bounded(a)'
    <3>1. spend'[a] <= spend[a] /\ ceiling' = ceiling /\ req' = Reopened
      BY <2>13 DEF ResetAllSpend, Typed, TypeOK
    <3> QED
      BY <2>8, <2>10, <3>1, BoundedKept
  <2>14. CASE UNCHANGED vars
    <3>1. spend' = spend /\ ceiling' = ceiling /\ Committed(a)' = Committed(a)
      BY <2>14 DEF vars, Committed
    <3> QED
      BY <3>1 DEF Bounded
  <2> QED
    BY <2>2, <2>3, <2>4, <2>5, <2>6, <2>7, <2>9, <2>11, <2>12, <2>13, <2>14 DEF Next
<1> QED
  BY <1>2, <1>3, TypedAlways, CoveredAlways, PTL DEF Spec

\* What is charged already and what admitted handlers may still charge stay
\* within the highest limit and one dearest call per handler.
THEOREM CommitmentIsBounded == Spec => []CommitmentBounded
BY CommitmentAlways

\* check_budget against record_spend: a counter exceeds the highest limit its
\* account ever had by at most one dearest call per concurrent handler.
THEOREM OvershootIsBounded == Spec => []OvershootBounded
<1>1. TypeOK /\ CommitmentBounded => OvershootBounded
  <2> SUFFICES ASSUME TypeOK, CommitmentBounded, NEW a \in Accounts, ceiling[a] # NoLimit
               PROVE  spend[a] <= ceiling[a] + MaxCost * Cardinality(Requests)
    BY DEF OvershootBounded
  <2> DEFINE x == MaxCost * Cardinality(Committed(a))
             z == MaxCost * Cardinality(Requests)
  <2>1. x \in Nat /\ z \in Nat
    BY CommittedFinite, BudgetAssumption
  <2>2. spend[a] + x <= ceiling[a] + z
    BY DEF CommitmentBounded
  <2>3. spend[a] \in Nat /\ ceiling[a] \in Nat
    BY BudgetAssumption DEF TypeOK, MaxBudget
  <2> HIDE DEF x, z
  <2>4. spend[a] <= ceiling[a] + z
    BY <2>1, <2>2, <2>3
  <2> QED
    BY <2>4 DEF z
<1> QED
  BY <1>1, TypeCorrect, CommitmentAlways, PTL

-----------------------------------------------------------------------------
(* An exhausted level is not passed.                                       *)

\* The limit a check of handler h compares level l with.
MaxAt(h, l, lim) == IF l = 1 THEN h.own ELSE lim[AccountOf[h.key][l]]

OverAt(h, l, total, lim) ==
    /\ AccountOf[h.key][l] # NoAccount
    /\ Exhausted(total[AccountOf[h.key][l]], MaxAt(h, l, lim))

\* A check that began with some level above its limit has that level, or
\* another one above its limit, still ahead.
OverAhead(h, total, lim) ==
    h.over =>
        /\ h.stage \in {"limit", "spend"}
        /\ \E l \in Levels : l >= h.level /\ OverAt(h, l, total, lim)
        /\ h.stage = "spend" => h.cap = MaxAt(h, h.level, lim)

AllOverAhead == \A r \in Requests : OverAhead(req[r], spend, limit)

\* A level above its limit stays so while counters only grow.
LEMMA OverKept ==
  ASSUME Typed, Typed', limit' = limit, \A a \in Accounts : spend[a] <= spend'[a],
         NEW h \in Handler, OverAhead(h, spend, limit)
  PROVE  OverAhead(h, spend', limit')
<1>1. ASSUME NEW l \in Levels, OverAt(h, l, spend, limit)
      PROVE  OverAt(h, l, spend', limit')
  <2> DEFINE a == AccountOf[h.key][l]
             max == MaxAt(h, l, limit)
  <2>1. a \in Accounts
    BY <1>1, BudgetAssumption DEF OverAt, Handler, Levels
  <2>2. max \in MaxBudget
    BY <2>1 DEF MaxAt, Typed, TypeOK, Handler
  <2>3. max \in Nat /\ spend[a] > max
    BY <1>1, <2>2, BudgetAssumption DEF OverAt, Exhausted, MaxBudget
  <2>4. spend[a] \in Nat /\ spend'[a] \in Nat /\ spend[a] <= spend'[a]
    BY <2>1 DEF Typed, TypeOK
  <2> HIDE DEF a, max
  <2>5. spend'[a] > max /\ max # NoLimit
    BY <2>3, <2>4, BudgetAssumption
  <2> QED
    BY <1>1, <2>5 DEF OverAt, Exhausted, a, max
<1> QED
  BY <1>1 DEF OverAhead

\* A level above its limit is still ahead of the walk of check_budget.
LEMMA OverAlways == Spec => []AllOverAhead
<1>1. Init => AllOverAhead
  <2>1. (CHOOSE k \in Keys : TRUE) \in Keys
    BY BudgetAssumption
  <2> QED
    BY <2>1, FreshHandler DEF Init, AllOverAhead, OverAhead
<1>2. Typed /\ Typed' /\ AllOverAhead /\ [Next]_vars => AllOverAhead'
  <2> SUFFICES ASSUME Typed, Typed', AllOverAhead, [Next]_vars PROVE AllOverAhead'
    OBVIOUS
  <2>0. \A r \in Requests : /\ req[r] \in Handler /\ LevelOK(req[r])
                            /\ OverAhead(req[r], spend, limit)
    BY DEF Typed, TypeOK, AllOverAhead
  <2>1. ASSUME NEW r \in Requests, req' = [req EXCEPT ![r] = req'[r]],
               limit' = limit, \A a \in Accounts : spend[a] <= spend'[a],
               OverAhead(req'[r], spend', limit')
        PROVE  AllOverAhead'
    <3>1. \A s \in Requests \ {r} : req'[s] = req[s]
      BY <2>1 DEF Typed, TypeOK
    <3>2. \A s \in Requests \ {r} : OverAhead(req'[s], spend', limit')
      BY <2>0, <2>1, <3>1, OverKept
    <3> QED
      BY <2>1, <3>2 DEF AllOverAhead
  <2>2. \A a \in Accounts : spend[a] <= spend[a]
    BY DEF Typed, TypeOK
  <2>3. ASSUME NEW k \in Keys, NEW own \in MaxBudget
        PROVE  OverAhead(Enter(k, own), spend, limit)
    <3>1. ASSUME OverNow(k, own)
          PROVE  \E l \in Levels : /\ l >= Enter(k, own).level
                                  /\ OverAt(Enter(k, own), l, spend, limit)
      <4>1. CASE Exhausted(spend[AccountOf[k][1]], own)
        <5>1. own # NoLimit
          BY <4>1 DEF Exhausted
        <5> QED
          BY <4>1, <5>1, EnterHandler, BudgetAssumption DEF OverAt, MaxAt, Levels
      <4>2. CASE \E l \in 2..4 : /\ AccountOf[k][l] # NoAccount
                                 /\ Exhausted(spend[AccountOf[k][l]], limit[AccountOf[k][l]])
        BY <4>2, EnterHandler DEF OverAt, MaxAt, Levels
      <4> QED
        BY <3>1, <4>1, <4>2 DEF OverNow
    <3> QED
      BY <3>1, EnterHandler DEF OverAhead, MaxAt
  <2>4. ASSUME NEW r \in Requests, NEW k \in Keys, Arrive(r, k)
        PROVE  AllOverAhead'
    <3>1. limit[AccountOf[k][1]] \in MaxBudget
      BY BudgetAssumption DEF Typed, TypeOK, Levels
    <3> QED
      BY <2>1, <2>2, <2>3, <2>4, <3>1 DEF Arrive, Typed, TypeOK
  <2>5. ASSUME NEW r \in Requests, NextItem(r)
        PROVE  AllOverAhead'
    <3>1. req[r].key \in Keys /\ req[r].own \in MaxBudget
      BY <2>0 DEF Handler
    <3> QED
      BY <2>1, <2>2, <2>3, <2>5, <3>1 DEF NextItem, Typed, TypeOK
  <2>6. ASSUME NEW h \in Handler, h.level \in Levels, OverAhead(h, spend, limit),
               ~OverAt(h, h.level, spend, limit)
        PROVE  OverAhead(Passed(h), spend, limit)
    <3>1. ASSUME h.over
          PROVE  \E l \in Levels : /\ l >= Passed(h).level
                                  /\ OverAt(Passed(h), l, spend, limit)
      <4>1. PICK l \in Levels : l >= h.level /\ OverAt(h, l, spend, limit)
        BY <2>6, <3>1 DEF OverAhead
      <4>2. l # h.level /\ l >= h.level + 1
        BY <2>6, <4>1 DEF Levels
      <4>3. OverAt(Passed(h), l, spend, limit)
        BY <2>6, <4>1, PassedHandler DEF OverAt, MaxAt
      <4> QED
        BY <2>6, <4>2, <4>3, PassedHandler
    <3>2. h.over => Passed(h).stage = "limit"
      BY <2>6, <3>1, PassedHandler DEF Levels
    <3> QED
      BY <2>6, <3>1, <3>2, PassedHandler DEF OverAhead
  <2>7. \A h \in Handler : OverAhead(Released(h), spend, limit)
    BY ReleasedHandler DEF OverAhead
  <2>8. ASSUME NEW r \in Requests, ReadLimit(r)
        PROVE  AllOverAhead'
    <3> DEFINE h == req[r]
               a == AccountOf[h.key][h.level]
               asked == [h EXCEPT !.stage = "spend", !.cap = limit[a]]
    <3>1. h \in Handler /\ h.level \in Levels /\ h.level # 1 /\ OverAhead(h, spend, limit)
      BY <2>0, <2>8 DEF ReadLimit, LevelOK, Levels
    <3>2. /\ req' = [req EXCEPT ![r] = req'[r]]
          /\ req'[r] = asked \/ (req'[r] = Passed(h) /\ (a = NoAccount \/ limit[a] = NoLimit))
          /\ limit' = limit /\ spend' = spend
      BY <2>8 DEF ReadLimit, Typed, TypeOK
    <3>3. a = NoAccount \/ limit[a] = NoLimit => OverAhead(Passed(h), spend, limit)
      BY <2>6, <3>1 DEF OverAt, MaxAt, Exhausted
    <3>4. OverAhead(asked, spend, limit)
      <4>1. /\ asked.stage = "spend" /\ asked.cap = limit[a] /\ asked.key = h.key
            /\ asked.level = h.level /\ asked.own = h.own /\ asked.over = h.over
        BY <3>1 DEF Handler
      <4> QED
        BY <3>1, <4>1 DEF OverAhead, OverAt, MaxAt
    <3> QED
      BY <2>1, <2>2, <3>2, <3>3, <3>4
  <2>9. ASSUME NEW r \in Requests, ReadSpend(r)
        PROVE  AllOverAhead'
    <3> DEFINE h == req[r]
               a == AccountOf[h.key][h.level]
    <3>1. /\ h \in Handler /\ h.level \in Levels /\ h.stage = "spend"
          /\ OverAhead(h, spend, limit)
      BY <2>0, <2>9 DEF ReadSpend, LevelOK, Levels
    <3>2. /\ req' = [req EXCEPT ![r] = req'[r]]
          /\ req'[r] = Released(h) \/ (req'[r] = Passed(h) /\ ~Exhausted(spend[a], h.cap))
          /\ limit' = limit /\ spend' = spend
      BY <2>9 DEF ReadSpend, Typed, TypeOK
    <3>3. ~Exhausted(spend[a], h.cap) => OverAhead(Passed(h), spend, limit)
      <4>1. CASE h.over
        <5>1. h.cap = MaxAt(h, h.level, limit)
          BY <3>1, <4>1 DEF OverAhead
        <5> QED
          BY <2>6, <3>1, <5>1 DEF OverAt
      <4>2. CASE ~h.over
        BY <3>1, <4>2, PassedHandler DEF OverAhead
      <4> QED
        BY <4>1, <4>2
    <3> QED
      BY <2>1, <2>2, <2>7, <3>1, <3>2, <3>3
  <2>10. ASSUME NEW r \in Requests, NEW c \in 0..MaxCost, IncrementSpend(r, c)
         PROVE  AllOverAhead'
    <3>1. /\ req' = [req EXCEPT ![r] = req'[r]] /\ req'[r].over = FALSE /\ limit' = limit
      BY <2>0, <2>10 DEF IncrementSpend, Typed, TypeOK, Handler
    <3>2. \A a \in Accounts : spend[a] <= spend'[a]
      BY <2>10, BudgetAssumption DEF IncrementSpend, Typed, TypeOK
    <3> QED
      BY <2>1, <3>1, <3>2 DEF OverAhead
  <2>11. ASSUME NEW r \in Requests, PushLog(r) \/ NotCharged(r)
         PROVE  AllOverAhead'
    BY <2>0, <2>1, <2>2, <2>7, <2>11 DEF PushLog, NotCharged, Typed, TypeOK
  <2>12. ASSUME \A r \in Requests : req'[r].over = FALSE
         PROVE  AllOverAhead'
    BY <2>12 DEF AllOverAhead, OverAhead
  <2>13. CASE Crash
    <3>1. (CHOOSE k \in Keys : TRUE) \in Keys
      BY BudgetAssumption
    <3> QED
      BY <2>12, <2>13, <3>1, FreshHandler DEF Crash
  <2>14. \A r \in Requests : Reopened[r].over = FALSE
    BY <2>0 DEF Reopened, Handler
  <2>15. ASSUME NEW a \in Accounts, NEW max \in MaxBudget, SetLimit(a, max)
         PROVE  AllOverAhead'
    BY <2>12, <2>14, <2>15 DEF SetLimit
  <2>16. ASSUME NEW k \in Keys, ResetBudget(k)
         PROVE  AllOverAhead'
    BY <2>12, <2>14, <2>16 DEF ResetBudget
  <2>17. ASSUME NEW batch \in SUBSET Accounts, ResetAllSpend(batch)
         PROVE  AllOverAhead'
    BY <2>12, <2>14, <2>17 DEF ResetAllSpend
  <2>18. CASE UNCHANGED vars
    BY <2>18 DEF vars, AllOverAhead
  <2> QED
    BY <2>4, <2>5, <2>8, <2>9, <2>10, <2>11, <2>13, <2>15, <2>16, <2>17, <2>18 DEF Next
<1> QED
  BY <1>1, <1>2, TypedAlways, PTL DEF Spec

\* check_budget admits no request of a key that had a level above its limit
\* when the check began, unless a budget was reset or set in between.
THEOREM ExhaustedIsRefused == Spec => []ExhaustedNeverAdmitted
<1>1. AllOverAhead => ExhaustedNeverAdmitted
  BY DEF AllOverAhead, OverAhead, ExhaustedNeverAdmitted
<1> QED
  BY <1>1, OverAlways, PTL
-----------------------------------------------------------------------------
(* Induction on finite sets, in the form of a least counterexample.        *)

\* Of some subsets of a finite set one contains no other.
LEMMA MinimalSubset ==
  ASSUME NEW S, IsFiniteSet(S), NEW Sets \in SUBSET (SUBSET S), Sets # {}
  PROVE  \E s \in Sets : \A r \in Sets : r \subseteq s => r = s
<1>1. IsWellFoundedOn(StrictSubsetOrdering(S), SUBSET S)
  BY FS_StrictSubsetOrderingWellFounded, FS_FiniteSubsetsOfFinite
<1>2. PICK s \in Sets : \A r \in Sets : <<r, s>> \notin StrictSubsetOrdering(S)
  BY <1>1, WFMin
<1>3. ASSUME NEW r \in Sets, r \subseteq s, r # s
      PROVE  <<r, s>> \in StrictSubsetOrdering(S)
  BY <1>3 DEF StrictSubsetOrdering
<1>4. \A r \in Sets : r \subseteq s => r = s
  BY <1>2, <1>3
<1> QED
  BY <1>4

-----------------------------------------------------------------------------
(* The fold behind SumFunctionOnSet takes the summands in an order that    *)
(* CHOOSE picks; the sum does not depend on it.                            *)

Summand(s) == CHOOSE x \in s : TRUE

Sums(g, f, S) ==
    g = [s \in SUBSET S |-> IF s = {} THEN 0 ELSE f[Summand(s)] + g[s \ {Summand(s)}]]

TheSums(f, S) == CHOOSE g : Sums(g, f, S)

LEMMA SumIsLast ==
  ASSUME NEW f, NEW S
  PROVE  SumFunctionOnSet(f, S) = TheSums(f, S)[S]
BY DEF SumFunctionOnSet, FoldFunctionOnSet, MapThenFoldSet, TheSums, Sums, Summand

\* On the subsets of a subset the equation is the same.
LEMMA SumsRestrict ==
  ASSUME NEW f, NEW g, NEW S, Sums(g, f, S), NEW T \in SUBSET S
  PROVE  Sums([s \in SUBSET T |-> g[s]], f, T)
<1> DEFINE h == [s \in SUBSET T |-> g[s]]
<1>1. ASSUME NEW s \in SUBSET T
      PROVE  h[s] = IF s = {} THEN 0 ELSE f[Summand(s)] + h[s \ {Summand(s)}]
  <2>1. s \in SUBSET S /\ s \ {Summand(s)} \in SUBSET T
    OBVIOUS
  <2>2. g[s] = IF s = {} THEN 0 ELSE f[Summand(s)] + g[s \ {Summand(s)}]
    BY <2>1 DEF Sums
  <2> QED
    BY <2>1, <2>2
<1>2. h = [s \in SUBSET T |-> IF s = {} THEN 0 ELSE f[Summand(s)] + h[s \ {Summand(s)}]]
  BY <1>1
<1> QED
  BY <1>2 DEF Sums

\* The equation has one solution at most.
LEMMA SumsUnique ==
  ASSUME NEW f, NEW g, NEW h, NEW S, IsFiniteSet(S), Sums(g, f, S), Sums(h, f, S)
  PROVE  g = h
<1> DEFINE Apart == {s \in SUBSET S : g[s] # h[s]}
<1>1. Apart = {}
  <2> SUFFICES ASSUME Apart # {} PROVE FALSE
    OBVIOUS
  <2>0. Apart \in SUBSET (SUBSET S)
    OBVIOUS
  <2>1. PICK s \in Apart : \A r \in Apart : r \subseteq s => r = s
    <3> HIDE DEF Apart
    <3> QED
      BY <2>0, MinimalSubset
  <2>2. s \in SUBSET S /\ g[s] # h[s]
    OBVIOUS
  <2>3. /\ g[s] = IF s = {} THEN 0 ELSE f[Summand(s)] + g[s \ {Summand(s)}]
        /\ h[s] = IF s = {} THEN 0 ELSE f[Summand(s)] + h[s \ {Summand(s)}]
    BY <2>2 DEF Sums
  <2>4. s # {}
    BY <2>2, <2>3
  <2>5. Summand(s) \in s
    BY <2>4 DEF Summand
  <2>6. g[s \ {Summand(s)}] = h[s \ {Summand(s)}]
    BY <2>1, <2>2, <2>5
  <2> QED
    BY <2>2, <2>3, <2>4, <2>6
<1>2. \A s \in SUBSET S : g[s] = h[s]
  BY <1>1
<1>3. /\ g = [s \in SUBSET S |-> g[s]]
      /\ h = [s \in SUBSET S |-> h[s]]
  BY DEF Sums
<1> QED
  BY <1>2, <1>3

\* The equation has a solution.
LEMMA SumsExist ==
  ASSUME NEW f, NEW S, IsFiniteSet(S)
  PROVE  Sums(TheSums(f, S), f, S)
<1> DEFINE Without == {s \in SUBSET S : ~\E g : Sums(g, f, s)}
<1>1. Without = {}
  <2> SUFFICES ASSUME Without # {} PROVE FALSE
    OBVIOUS
  <2>0. Without \in SUBSET (SUBSET S)
    OBVIOUS
  <2>1. PICK T \in Without : \A r \in Without : r \subseteq T => r = T
    <3> HIDE DEF Without
    <3> QED
      BY <2>0, MinimalSubset
  <2>2. T \in SUBSET S /\ ~\E g : Sums(g, f, T)
    OBVIOUS
  <2>3. ASSUME NEW s \in SUBSET T, s # T
        PROVE  Sums(TheSums(f, s), f, s)
    <3>1. \E g : Sums(g, f, s)
      BY <2>1, <2>2, <2>3
    <3> QED
      BY <3>1 DEF TheSums
  <2> DEFINE last(s) == TheSums(f, s)[s]
             g == [s \in SUBSET T |-> IF s = {} THEN 0
                                      ELSE f[Summand(s)] + last(s \ {Summand(s)})]
  <2>4. ASSUME NEW s \in SUBSET T, s # T
        PROVE  last(s) = IF s = {} THEN 0 ELSE f[Summand(s)] + last(s \ {Summand(s)})
    <3> DEFINE r == s \ {Summand(s)}
    <3>1. Sums(TheSums(f, s), f, s)
      BY <2>3, <2>4
    <3>2. last(s) = IF s = {} THEN 0 ELSE f[Summand(s)] + TheSums(f, s)[r]
      BY <3>1 DEF Sums
    <3>3. r \in SUBSET s /\ r \in SUBSET T /\ r # T
      BY <2>4
    <3>4. Sums([q \in SUBSET r |-> TheSums(f, s)[q]], f, r)
      BY <3>1, <3>3, SumsRestrict
    <3>5. Sums(TheSums(f, r), f, r)
      BY <2>3, <3>3
    <3>6. IsFiniteSet(r)
      BY <2>2, <3>3, FS_Subset
    <3>7. TheSums(f, r) = [q \in SUBSET r |-> TheSums(f, s)[q]]
      BY <3>4, <3>5, <3>6, SumsUnique
    <3>8. last(r) = TheSums(f, s)[r]
      BY <3>7
    <3> QED
      BY <3>2, <3>8
  <2>5. ASSUME NEW s \in SUBSET T
        PROVE  g[s] = IF s = {} THEN 0 ELSE f[Summand(s)] + g[s \ {Summand(s)}]
    <3> DEFINE r == s \ {Summand(s)}
    <3>1. CASE s = {}
      BY <3>1
    <3>2. CASE s # {}
      <4>1. Summand(s) \in s
        BY <3>2 DEF Summand
      <4>2. r \in SUBSET T /\ r # T
        BY <4>1
      <4>3. last(r) = g[r]
        BY <2>4, <4>2
      <4>4. g[s] = f[Summand(s)] + last(r)
        BY <3>2
      <4> QED
        BY <3>2, <4>3, <4>4
    <3> QED
      BY <3>1, <3>2
  <2>6. Sums(g, f, T)
    <3> HIDE DEF last
    <3>1. g = [s \in SUBSET T |-> g[s]]
      OBVIOUS
    <3> HIDE DEF g
    <3> QED
      BY <2>5, <3>1 DEF Sums
  <2> QED
    BY <2>2, <2>6
<1>2. \E g : Sums(g, f, S)
  BY <1>1
<1> QED
  BY <1>2 DEF TheSums

-----------------------------------------------------------------------------
(* Sums of natural numbers.                                                *)

LEMMA SumEmpty ==
  ASSUME NEW f
  PROVE  SumFunctionOnSet(f, {}) = 0
<1>1. Sums(TheSums(f, {}), f, {})
  BY SumsExist, FS_EmptySet
<1>2. TheSums(f, {})[{}] = 0
  BY <1>1 DEF Sums
<1> QED
  BY <1>2, SumIsLast

\* The fold takes one summand from the set.
LEMMA SumStep ==
  ASSUME NEW f, NEW S, IsFiniteSet(S), S # {}
  PROVE  /\ Summand(S) \in S
         /\ SumFunctionOnSet(f, S) = f[Summand(S)] + SumFunctionOnSet(f, S \ {Summand(S)})
<1> DEFINE r == S \ {Summand(S)}
<1>1. Summand(S) \in S
  BY DEF Summand
<1>2. Sums(TheSums(f, S), f, S)
  BY SumsExist
<1>3. TheSums(f, S)[S] = f[Summand(S)] + TheSums(f, S)[r]
  BY <1>2 DEF Sums
<1>4. r \in SUBSET S /\ IsFiniteSet(r)
  BY FS_Subset
<1>5. Sums([q \in SUBSET r |-> TheSums(f, S)[q]], f, r)
  BY <1>2, <1>4, SumsRestrict
<1>6. Sums(TheSums(f, r), f, r)
  BY <1>4, SumsExist
<1>7. TheSums(f, r) = [q \in SUBSET r |-> TheSums(f, S)[q]]
  BY <1>4, <1>5, <1>6, SumsUnique
<1>8. TheSums(f, r)[r] = TheSums(f, S)[r]
  BY <1>7
<1> QED
  BY <1>1, <1>3, <1>8, SumIsLast

LEMMA SumNat ==
  ASSUME NEW f, NEW S, IsFiniteSet(S), \A x \in S : f[x] \in Nat
  PROVE  SumFunctionOnSet(f, S) \in Nat
<1> DEFINE Other == {s \in SUBSET S : SumFunctionOnSet(f, s) \notin Nat}
<1>1. Other = {}
  <2> SUFFICES ASSUME Other # {} PROVE FALSE
    OBVIOUS
  <2>1. Other \in SUBSET (SUBSET S)
    OBVIOUS
  <2>2. PICK s \in Other : \A r \in Other : r \subseteq s => r = s
    <3> HIDE DEF Other
    <3> QED
      BY <2>1, MinimalSubset
  <2>3. s \in SUBSET S /\ SumFunctionOnSet(f, s) \notin Nat /\ IsFiniteSet(s)
    BY FS_Subset
  <2>4. s # {}
    BY <2>3, SumEmpty
  <2>5. /\ Summand(s) \in s
        /\ SumFunctionOnSet(f, s) = f[Summand(s)] + SumFunctionOnSet(f, s \ {Summand(s)})
    BY <2>3, <2>4, SumStep
  <2>6. SumFunctionOnSet(f, s \ {Summand(s)}) \in Nat
    BY <2>2, <2>3, <2>5
  <2>7. f[Summand(s)] \in Nat
    BY <2>3, <2>5
  <2> QED
    BY <2>3, <2>5, <2>6, <2>7
<1> QED
  BY <1>1

\* Any summand can be taken first.
LEMMA SumWithout ==
  ASSUME NEW f, NEW S, IsFiniteSet(S), \A x \in S : f[x] \in Nat, NEW x \in S
  PROVE  SumFunctionOnSet(f, S) = f[x] + SumFunctionOnSet(f, S \ {x})
<1> DEFINE sum(s) == SumFunctionOnSet(f, s)
           Other == {s \in SUBSET S : \E y \in s : sum(s) # f[y] + sum(s \ {y})}
<1>1. Other = {}
  <2> SUFFICES ASSUME Other # {} PROVE FALSE
    OBVIOUS
  <2>1. Other \in SUBSET (SUBSET S)
    OBVIOUS
  <2>2. PICK s \in Other : \A r \in Other : r \subseteq s => r = s
    <3> HIDE DEF Other
    <3> QED
      BY <2>1, MinimalSubset
  <2>3. PICK y \in s : sum(s) # f[y] + sum(s \ {y})
    BY <2>2
  <2> DEFINE c == Summand(s)
             rest == (s \ {c}) \ {y}
  <2>4. s \in SUBSET S /\ IsFiniteSet(s)
    BY FS_Subset
  <2>5. c \in s /\ sum(s) = f[c] + sum(s \ {c})
    BY <2>3, <2>4, SumStep
  <2>6. c # y
    BY <2>3, <2>5
  <2>7. \A r \in SUBSET s : r # s => \A z \in r : sum(r) = f[z] + sum(r \ {z})
    BY <2>2, <2>4
  <2> HIDE DEF sum
  <2>8. sum(s \ {c}) = f[y] + sum(rest)
    BY <2>3, <2>5, <2>6, <2>7
  <2>9. (s \ {y}) \ {c} = rest
    OBVIOUS
  <2>10. sum(s \ {y}) = f[c] + sum(rest)
    BY <2>3, <2>5, <2>6, <2>7, <2>9
  <2>11. f[c] \in Nat /\ f[y] \in Nat
    BY <2>3, <2>4, <2>5
  <2>12. sum(rest) \in Nat
    <3>1. IsFiniteSet(rest) /\ \A z \in rest : f[z] \in Nat
      BY <2>4, FS_Subset
    <3> QED
      BY <3>1, SumNat DEF sum
  <2> QED
    BY <2>3, <2>5, <2>8, <2>10, <2>11, <2>12
<1> QED
  BY <1>1

\* A sum grows with its summands.
LEMMA SumMonotone ==
  ASSUME NEW f, NEW g, NEW S, IsFiniteSet(S),
         \A x \in S : f[x] \in Nat /\ g[x] \in Nat /\ f[x] <= g[x]
  PROVE  SumFunctionOnSet(f, S) <= SumFunctionOnSet(g, S)
<1> DEFINE Other == {s \in SUBSET S : ~(SumFunctionOnSet(f, s) <= SumFunctionOnSet(g, s))}
<1>1. Other = {}
  <2> SUFFICES ASSUME Other # {} PROVE FALSE
    OBVIOUS
  <2>1. Other \in SUBSET (SUBSET S)
    OBVIOUS
  <2>2. PICK s \in Other : \A r \in Other : r \subseteq s => r = s
    <3> HIDE DEF Other
    <3> QED
      BY <2>1, MinimalSubset
  <2>3. s \in SUBSET S /\ IsFiniteSet(s) /\ ~(SumFunctionOnSet(f, s) <= SumFunctionOnSet(g, s))
    BY FS_Subset
  <2>4. s # {}
    BY <2>3, SumEmpty
  <2> DEFINE c == Summand(s)
             rest == s \ {c}
  <2>5. /\ c \in s
        /\ SumFunctionOnSet(f, s) = f[c] + SumFunctionOnSet(f, rest)
        /\ SumFunctionOnSet(g, s) = g[c] + SumFunctionOnSet(g, rest)
    BY <2>3, <2>4, SumStep
  <2>6. SumFunctionOnSet(f, rest) <= SumFunctionOnSet(g, rest)
    BY <2>2, <2>3, <2>5
  <2>7. f[c] \in Nat /\ g[c] \in Nat /\ f[c] <= g[c]
    BY <2>3, <2>5
  <2>8. SumFunctionOnSet(f, rest) \in Nat /\ SumFunctionOnSet(g, rest) \in Nat
    <3>1. IsFiniteSet(rest) /\ \A x \in rest : f[x] \in Nat /\ g[x] \in Nat
      BY <2>3, FS_Subset
    <3> QED
      BY <3>1, SumNat
  <2> HIDE DEF c, rest
  <2> QED
    BY <2>3, <2>5, <2>6, <2>7, <2>8
<1> QED
  BY <1>1

\* Only the summands count.
LEMMA SumSame ==
  ASSUME NEW f, NEW g, NEW S, IsFiniteSet(S), \A x \in S : f[x] \in Nat /\ f[x] = g[x]
  PROVE  SumFunctionOnSet(f, S) = SumFunctionOnSet(g, S)
<1>1. SumFunctionOnSet(f, S) <= SumFunctionOnSet(g, S) /\ SumFunctionOnSet(g, S) <= SumFunctionOnSet(f, S)
  BY SumMonotone
<1>2. SumFunctionOnSet(f, S) \in Nat /\ SumFunctionOnSet(g, S) \in Nat
  BY SumNat
<1> QED
  BY <1>1, <1>2

\* One summand changes the sum by as much as it changes itself.
LEMMA SumChange ==
  ASSUME NEW f, NEW g, NEW S, IsFiniteSet(S), NEW x \in S,
         \A y \in S : f[y] \in Nat /\ g[y] \in Nat,
         \A y \in S \ {x} : f[y] = g[y]
  PROVE  SumFunctionOnSet(g, S) + f[x] = SumFunctionOnSet(f, S) + g[x]
<1> DEFINE rest == S \ {x}
<1>1. /\ SumFunctionOnSet(f, S) = f[x] + SumFunctionOnSet(f, rest)
      /\ SumFunctionOnSet(g, S) = g[x] + SumFunctionOnSet(g, rest)
  BY SumWithout
<1>2. IsFiniteSet(rest) /\ \A y \in rest : f[y] \in Nat /\ f[y] = g[y]
  BY FS_Subset
<1>3. SumFunctionOnSet(f, rest) = SumFunctionOnSet(g, rest) /\ SumFunctionOnSet(f, rest) \in Nat
  BY <1>2, SumSame, SumNat
<1>4. f[x] \in Nat /\ g[x] \in Nat
  OBVIOUS
<1> QED
  BY <1>1, <1>3, <1>4

\* A sum of nothing.
LEMMA SumZero ==
  ASSUME NEW f, NEW S, IsFiniteSet(S), \A x \in S : f[x] = 0
  PROVE  SumFunctionOnSet(f, S) = 0
<1> DEFINE Other == {s \in SUBSET S : SumFunctionOnSet(f, s) # 0}
<1>1. Other = {}
  <2> SUFFICES ASSUME Other # {} PROVE FALSE
    OBVIOUS
  <2>1. Other \in SUBSET (SUBSET S)
    OBVIOUS
  <2>2. PICK s \in Other : \A r \in Other : r \subseteq s => r = s
    <3> HIDE DEF Other
    <3> QED
      BY <2>1, MinimalSubset
  <2>3. s \in SUBSET S /\ IsFiniteSet(s) /\ SumFunctionOnSet(f, s) # 0
    BY FS_Subset
  <2>4. s # {}
    BY <2>3, SumEmpty
  <2>5. /\ Summand(s) \in s
        /\ SumFunctionOnSet(f, s) = f[Summand(s)] + SumFunctionOnSet(f, s \ {Summand(s)})
    BY <2>3, <2>4, SumStep
  <2>6. SumFunctionOnSet(f, s \ {Summand(s)}) = 0
    BY <2>2, <2>3, <2>5
  <2>7. f[Summand(s)] = 0
    BY <2>3, <2>5
  <2> QED
    BY <2>3, <2>5, <2>6, <2>7
<1> QED
  BY <1>1

-----------------------------------------------------------------------------
(* The counters of a key and of what it belongs to, and the spend logs.    *)

\* The sum of the counters of some keys.
LEMMA KeySums ==
  ASSUME TypeOK
  PROVE  /\ \A k \in Keys : KeySpend[k] = spend[AccountOf[k][1]] /\ KeySpend[k] \in Nat
         /\ \A a : IsFiniteSet(Members(a)) /\ Members(a) \subseteq Keys
         /\ \A a : SumFunctionOnSet(KeySpend, Members(a)) \in Nat
<1>1. \A k \in Keys : KeySpend[k] = spend[AccountOf[k][1]] /\ KeySpend[k] \in Nat
  BY BudgetAssumption DEF TypeOK, KeySpend, Levels
<1>2. ASSUME NEW a PROVE IsFiniteSet(Members(a)) /\ Members(a) \subseteq Keys
  <2>1. Members(a) \subseteq Keys
    BY DEF Members
  <2> QED
    BY <2>1, CountersAssumption, FS_Subset
<1>3. ASSUME NEW a PROVE SumFunctionOnSet(KeySpend, Members(a)) \in Nat
  BY <1>1, <1>2, SumNat
<1> QED
  BY <1>1, <1>2, <1>3

\* The counter of a key is not one of another key, and of no upper level.
LEMMA OwnAccount ==
  ASSUME NEW j \in Keys, NEW k \in Keys
  PROVE  /\ AccountOf[j][1] \in ChargedAccounts(k) <=> j = k
         /\ AccountOf[j][1] = AccountOf[k][1] => j = k
BY BudgetAssumption, CountersAssumption DEF ChargedAccounts, Levels

\* A step that moves no counter of a key up.
LEMMA CoverKept ==
  ASSUME TypeOK, TypeOK', UpperLevelsCoverKeys, flushed' = flushed,
         \A k \in Keys : spend'[AccountOf[k][1]] <= spend[AccountOf[k][1]],
         \A a \in Accounts \ KeyAccounts : spend'[a] = spend[a]
  PROVE  UpperLevelsCoverKeys'
<1> SUFFICES ASSUME ~flushed, NEW a \in Accounts \ KeyAccounts
             PROVE  SumFunctionOnSet(KeySpend', Members(a)) <= spend'[a]
  BY DEF UpperLevelsCoverKeys, Members, ChargedAccounts
<1>1. \A k \in Keys : /\ KeySpend[k] = spend[AccountOf[k][1]] /\ KeySpend[k] \in Nat
                      /\ KeySpend'[k] = spend'[AccountOf[k][1]] /\ KeySpend'[k] \in Nat
  BY KeySums, BudgetAssumption DEF TypeOK, KeySpend, Levels
<1>2. IsFiniteSet(Members(a)) /\ Members(a) \subseteq Keys
  BY KeySums
<1>3. SumFunctionOnSet(KeySpend', Members(a)) <= SumFunctionOnSet(KeySpend, Members(a))
  BY <1>1, <1>2, SumMonotone
<1>4. SumFunctionOnSet(KeySpend', Members(a)) \in Nat /\ SumFunctionOnSet(KeySpend, Members(a)) \in Nat
  BY <1>1, <1>2, SumNat
<1>5. SumFunctionOnSet(KeySpend, Members(a)) <= spend[a] /\ spend[a] \in Nat
  BY DEF UpperLevelsCoverKeys, TypeOK
<1> QED
  BY <1>3, <1>4, <1>5

\* A charge moves the counter of the key and what it belongs to together.
LEMMA CoverCharge ==
  ASSUME TypeOK, TypeOK', UpperLevelsCoverKeys,
         NEW r \in Requests, NEW c \in 0..MaxCost, IncrementSpend(r, c)
  PROVE  UpperLevelsCoverKeys'
<1> DEFINE key == req[r].key
<1>1. /\ flushed' = flushed /\ c \in Nat /\ key \in Keys
      /\ \A a \in Accounts : spend'[a] = IF a \in ChargedAccounts(key) THEN spend[a] + c ELSE spend[a]
  BY BudgetAssumption DEF IncrementSpend, TypeOK, Handler
<1> SUFFICES ASSUME ~flushed, NEW a \in Accounts \ KeyAccounts
             PROVE  SumFunctionOnSet(KeySpend', Members(a)) <= spend'[a]
  BY <1>1 DEF UpperLevelsCoverKeys, Members, ChargedAccounts
<1>2. \A k \in Keys : /\ KeySpend[k] \in Nat /\ KeySpend'[k] \in Nat
                      /\ KeySpend'[k] = IF k = key THEN KeySpend[k] + c ELSE KeySpend[k]
  <2>1. \A k \in Keys : /\ KeySpend[k] = spend[AccountOf[k][1]] /\ KeySpend[k] \in Nat
                        /\ KeySpend'[k] = spend'[AccountOf[k][1]] /\ KeySpend'[k] \in Nat
                        /\ AccountOf[k][1] \in Accounts
    BY KeySums, BudgetAssumption DEF TypeOK, KeySpend, Levels
  <2> QED
    BY <1>1, <2>1, OwnAccount
<1>3. IsFiniteSet(Members(a)) /\ Members(a) \subseteq Keys
  BY KeySums
<1>4. SumFunctionOnSet(KeySpend', Members(a)) \in Nat /\ SumFunctionOnSet(KeySpend, Members(a)) \in Nat
  BY <1>2, <1>3, SumNat
<1>5. SumFunctionOnSet(KeySpend, Members(a)) <= spend[a] /\ spend[a] \in Nat
  BY DEF UpperLevelsCoverKeys, TypeOK
<1>6. CASE key \in Members(a)
  <2>1. SumFunctionOnSet(KeySpend', Members(a)) + KeySpend[key]
          = SumFunctionOnSet(KeySpend, Members(a)) + KeySpend'[key]
    BY <1>2, <1>3, <1>6, SumChange
  <2>2. spend'[a] = spend[a] + c
    BY <1>1, <1>6 DEF Members
  <2>3. KeySpend[key] \in Nat /\ KeySpend'[key] = KeySpend[key] + c
    BY <1>1, <1>2
  <2> QED
    BY <1>1, <1>4, <1>5, <2>1, <2>2, <2>3
<1>7. CASE key \notin Members(a)
  <2>1. SumFunctionOnSet(KeySpend', Members(a)) = SumFunctionOnSet(KeySpend, Members(a))
    BY <1>2, <1>3, <1>7, SumSame
  <2>2. spend'[a] = spend[a]
    BY <1>1, <1>7 DEF Members
  <2> QED
    BY <1>5, <2>1, <2>2
<1> QED
  BY <1>6, <1>7

\* A user, team or org counter covers the counters of its keys, for any
\* number of keys, until someone resets all spend.
THEOREM UpperLevelsCover == Spec => []UpperLevelsCoverKeys
<1>1. Init => UpperLevelsCoverKeys
  <2> SUFFICES ASSUME Init, NEW a \in Accounts
               PROVE  SumFunctionOnSet(KeySpend, Members(a)) <= spend[a]
    BY DEF UpperLevelsCoverKeys
  <2>1. \A k \in Keys : KeySpend[k] = 0
    BY BudgetAssumption DEF Init, KeySpend, Levels
  <2>2. Members(a) \subseteq Keys /\ IsFiniteSet(Members(a))
    BY CountersAssumption, FS_Subset DEF Members
  <2>3. SumFunctionOnSet(KeySpend, Members(a)) = 0
    BY <2>1, <2>2, SumZero
  <2> QED
    BY <2>3 DEF Init
<1>2. Typed /\ Typed' /\ UpperLevelsCoverKeys /\ [Next]_vars => UpperLevelsCoverKeys'
  <2> SUFFICES ASSUME TypeOK, TypeOK', UpperLevelsCoverKeys, [Next]_vars
               PROVE  UpperLevelsCoverKeys'
    BY DEF Typed
  <2>1. \A k \in Keys : AccountOf[k][1] \in Accounts /\ spend[AccountOf[k][1]] \in Nat
    BY BudgetAssumption DEF TypeOK, Levels
  <2>2. ASSUME UNCHANGED <<spend, flushed>>
        PROVE  UpperLevelsCoverKeys'
    BY <2>1, <2>2, CoverKept
  <2>3. ASSUME NEW r \in Requests, NEW c \in 0..MaxCost, IncrementSpend(r, c)
        PROVE  UpperLevelsCoverKeys'
    BY <2>3, CoverCharge
  <2>4. ASSUME NEW k \in Keys, ResetBudget(k)
        PROVE  UpperLevelsCoverKeys'
    <3>1. /\ \A a \in Accounts : spend'[a] = IF a = AccountOf[k][1] THEN 0 ELSE spend[a]
          /\ flushed' = flushed
      BY <2>4 DEF ResetBudget, TypeOK
    <3>2. \A a \in Accounts \ KeyAccounts : spend'[a] = spend[a]
      BY <3>1 DEF KeyAccounts
    <3>3. \A j \in Keys : spend'[AccountOf[j][1]] <= spend[AccountOf[j][1]]
      BY <2>1, <3>1
    <3> QED
      BY <3>1, <3>2, <3>3, CoverKept
  <2>5. ASSUME NEW batch, ResetAllSpend(batch)
        PROVE  UpperLevelsCoverKeys'
    BY <2>5 DEF ResetAllSpend, UpperLevelsCoverKeys
  <2>6. ASSUME NEW r \in Requests, NEW k \in Keys, Arrive(r, k)
        PROVE  UNCHANGED <<spend, flushed>>
    BY <2>6 DEF Arrive
  <2>7. ASSUME NEW r \in Requests,
               NextItem(r) \/ ReadLimit(r) \/ ReadSpend(r) \/ PushLog(r) \/ NotCharged(r)
        PROVE  UNCHANGED <<spend, flushed>>
    BY <2>7 DEF NextItem, ReadLimit, ReadSpend, PushLog, NotCharged
  <2>8. ASSUME NEW a \in Accounts, NEW max \in MaxBudget, SetLimit(a, max)
        PROVE  UNCHANGED <<spend, flushed>>
    BY <2>8 DEF SetLimit
  <2>9. Crash \/ UNCHANGED vars => UNCHANGED <<spend, flushed>>
    BY DEF Crash, vars
  <2> QED
    BY <2>2, <2>3, <2>4, <2>5, <2>6, <2>7, <2>8, <2>9 DEF Next
<1> QED
  BY <1>1, <1>2, TypedAlways, PTL DEF Spec

\* What the handlers still have to log of a key.
LEMMA PendingSums ==
  ASSUME TypeOK, NEW k \in Keys
  PROVE  /\ \A r \in Requests :
              /\ PendingOf(k)[r] = IF req[r].stage = "log" /\ req[r].key = k THEN req[r].cost ELSE 0
              /\ PendingOf(k)[r] \in Nat
         /\ Pending(k) \in Nat
<1>1. \A r \in Requests :
         /\ PendingOf(k)[r] = IF req[r].stage = "log" /\ req[r].key = k THEN req[r].cost ELSE 0
         /\ PendingOf(k)[r] \in Nat
  BY DEF TypeOK, Handler, PendingOf
<1> QED
  BY <1>1, SumNat, BudgetAssumption DEF Pending

\* Handlers that have no more to log than before.
LEMMA PendingKept ==
  ASSUME TypeOK, TypeOK', LogsNeverExceedBilling, UNCHANGED <<billed, logged>>,
         \A k \in Keys, r \in Requests : PendingOf(k)'[r] <= PendingOf(k)[r]
  PROVE  LogsNeverExceedBilling'
<1> SUFFICES ASSUME NEW k \in Keys PROVE (logged[k] + Pending(k) <= billed[k])'
  BY DEF LogsNeverExceedBilling
<1>1. \A r \in Requests : PendingOf(k)[r] \in Nat /\ PendingOf(k)'[r] \in Nat
  BY PendingSums DEF TypeOK, Handler, PendingOf
<1>2. Pending(k)' <= Pending(k)
  BY <1>1, SumMonotone, BudgetAssumption DEF Pending
<1>3. Pending(k) \in Nat /\ Pending(k)' \in Nat
  BY <1>1, SumNat, BudgetAssumption DEF Pending
<1>4. logged[k] + Pending(k) <= billed[k] /\ logged[k] \in Nat /\ billed[k] \in Nat
  BY DEF LogsNeverExceedBilling, TypeOK
<1> QED
  BY <1>2, <1>3, <1>4

\* One handler moves: what it has to log changes as billed and logged do.
LEMMA PendingMoves ==
  ASSUME TypeOK, TypeOK', LogsNeverExceedBilling, NEW r \in Requests,
         \A s \in Requests \ {r} : req'[s] = req[s],
         \A k \in Keys : logged'[k] + PendingOf(k)'[r] + billed[k]
                           <= logged[k] + PendingOf(k)[r] + billed'[k]
  PROVE  LogsNeverExceedBilling'
<1> SUFFICES ASSUME NEW k \in Keys PROVE (logged[k] + Pending(k) <= billed[k])'
  BY DEF LogsNeverExceedBilling
<1>1. \A s \in Requests : PendingOf(k)[s] \in Nat /\ PendingOf(k)'[s] \in Nat
  BY PendingSums DEF TypeOK, Handler, PendingOf
<1>2. \A s \in Requests \ {r} : PendingOf(k)[s] = PendingOf(k)'[s]
  BY DEF PendingOf
<1>3. Pending(k)' + PendingOf(k)[r] = Pending(k) + PendingOf(k)'[r]
  BY <1>1, <1>2, SumChange, BudgetAssumption DEF Pending
<1>4. Pending(k) \in Nat /\ Pending(k)' \in Nat
  BY <1>1, SumNat, BudgetAssumption DEF Pending
<1>5. /\ logged[k] + Pending(k) <= billed[k] /\ logged[k] \in Nat /\ billed[k] \in Nat
      /\ logged'[k] \in Nat /\ billed'[k] \in Nat
      /\ logged'[k] + PendingOf(k)'[r] + billed[k] <= logged[k] + PendingOf(k)[r] + billed'[k]
  BY DEF LogsNeverExceedBilling, TypeOK
<1>6. PendingOf(k)[r] \in Nat /\ PendingOf(k)'[r] \in Nat
  BY <1>1
<1> QED
  BY <1>3, <1>4, <1>5, <1>6

\* The spend logs, which the reports add up, never show cost that was not
\* charged, however many handlers are between the charge and the log.
THEOREM LogsAreBilled == Spec => []LogsNeverExceedBilling
<1>1. Init => LogsNeverExceedBilling
  <2> SUFFICES ASSUME Init, NEW k \in Keys PROVE logged[k] + Pending(k) <= billed[k]
    BY DEF LogsNeverExceedBilling
  <2>1. (CHOOSE j \in Keys : TRUE) \in Keys
    BY BudgetAssumption
  <2>2. \A r \in Requests : PendingOf(k)[r] = 0
    BY <2>1, FreshHandler DEF Init, PendingOf
  <2>3. Pending(k) = 0
    BY <2>2, SumZero, BudgetAssumption DEF Pending
  <2> QED
    BY <2>3 DEF Init
<1>2. Typed /\ Typed' /\ LogsNeverExceedBilling /\ [Next]_vars => LogsNeverExceedBilling'
  <2> SUFFICES ASSUME TypeOK, TypeOK', LogsNeverExceedBilling, [Next]_vars,
                      \A r \in Requests : LevelOK(req[r])
               PROVE  LogsNeverExceedBilling'
    BY DEF Typed
  <2>0. \A r \in Requests : /\ req[r] \in Handler /\ req[r].key \in Keys /\ req[r].cost \in Nat
                            /\ req[r].own \in MaxBudget
    BY DEF TypeOK, Handler
  \* A handler that had nothing to log and still has not.
  <2>1. ASSUME NEW r \in Requests, req[r].stage # "log" \/ req'[r].cost = 0,
               req'[r].stage # "log", \A s \in Requests \ {r} : req'[s] = req[s],
               UNCHANGED <<billed, logged>>
        PROVE  LogsNeverExceedBilling'
    <3>1. \A k \in Keys, s \in Requests : PendingOf(k)'[s] <= PendingOf(k)[s]
      BY <2>0, <2>1 DEF PendingOf
    <3> QED
      BY <2>1, <3>1, PendingKept
  <2>2. ASSUME NEW r \in Requests, NEW k \in Keys, Arrive(r, k)
        PROVE  LogsNeverExceedBilling'
    <3>1. limit[AccountOf[k][1]] \in MaxBudget
      BY BudgetAssumption DEF TypeOK, Levels
    <3>2. req'[r].stage # "log" /\ req[r].stage # "log"
      BY <2>2, <3>1, EnterHandler DEF Arrive, TypeOK
    <3> QED
      BY <2>1, <2>2, <3>2 DEF Arrive, TypeOK
  <2>3. ASSUME NEW r \in Requests, NextItem(r)
        PROVE  LogsNeverExceedBilling'
    <3>1. req'[r].stage # "log" /\ req[r].stage # "log"
      BY <2>0, <2>3, EnterHandler DEF NextItem, TypeOK
    <3> QED
      BY <2>1, <2>3, <3>1 DEF NextItem, TypeOK
  <2>4. ASSUME NEW r \in Requests, ReadLimit(r)
        PROVE  LogsNeverExceedBilling'
    <3>1. req[r].stage = "limit" /\ req[r].level \in Levels
      BY <2>4 DEF ReadLimit, LevelOK, Levels
    <3>2. Passed(req[r]).stage # "log"
      BY <2>0, <3>1, PassedHandler
    <3>3. \A max : [req[r] EXCEPT !.stage = "spend", !.cap = max].stage # "log"
      BY <2>0 DEF Handler
    <3>4. req'[r].stage # "log"
      BY <2>4, <3>2, <3>3 DEF ReadLimit, TypeOK
    <3> QED
      BY <2>1, <2>4, <3>1, <3>4 DEF ReadLimit, TypeOK
  <2>5. ASSUME NEW r \in Requests, ReadSpend(r)
        PROVE  LogsNeverExceedBilling'
    <3>1. req[r].stage = "spend" /\ req[r].level \in Levels
      BY <2>5 DEF ReadSpend, LevelOK, Levels
    <3>2. Passed(req[r]).stage # "log" /\ Released(req[r]).stage # "log"
      BY <2>0, <3>1, PassedHandler, ReleasedHandler
    <3>3. req'[r].stage # "log"
      BY <2>5, <3>2 DEF ReadSpend, TypeOK
    <3> QED
      BY <2>1, <2>5, <3>1, <3>3 DEF ReadSpend, TypeOK
  <2>6. ASSUME NEW r \in Requests, NotCharged(r)
        PROVE  LogsNeverExceedBilling'
    <3>1. req[r].stage = "call" /\ req'[r].stage # "log"
      BY <2>0, <2>6, ReleasedHandler DEF NotCharged, TypeOK
    <3> QED
      BY <2>1, <2>6, <3>1 DEF NotCharged, TypeOK
  <2>7. ASSUME NEW r \in Requests, NEW c \in 0..MaxCost, IncrementSpend(r, c)
        PROVE  LogsNeverExceedBilling'
    <3> DEFINE h == req[r]
               next == [h EXCEPT !.stage = "log", !.cost = c, !.level = 1, !.over = FALSE]
    <3>1. /\ h.stage = "call" /\ req'[r] = next /\ logged' = logged
          /\ \A s \in Requests \ {r} : req'[s] = req[s]
          /\ \A k \in Keys : billed'[k] = IF k = h.key THEN billed[k] + c ELSE billed[k]
          /\ c \in Nat
      BY <2>7, BudgetAssumption DEF IncrementSpend, TypeOK
    <3>2. next.stage = "log" /\ next.cost = c /\ next.key = h.key
      BY <2>0 DEF Handler
    <3> HIDE DEF next
    <3>3. \A k \in Keys : PendingOf(k)[r] = 0 /\ PendingOf(k)'[r] = IF k = h.key THEN c ELSE 0
      BY <3>1, <3>2 DEF PendingOf
    <3>4. \A k \in Keys : logged'[k] + PendingOf(k)'[r] + billed[k]
                            <= logged[k] + PendingOf(k)[r] + billed'[k]
      BY <3>1, <3>3 DEF TypeOK
    <3> QED
      BY <3>1, <3>4, PendingMoves
  <2>8. ASSUME NEW r \in Requests, PushLog(r)
        PROVE  LogsNeverExceedBilling'
    <3> DEFINE h == req[r]
    <3>1. /\ h.stage = "log" /\ req'[r] = Released(h) /\ billed' = billed
          /\ \A s \in Requests \ {r} : req'[s] = req[s]
          /\ \A k \in Keys : logged'[k] = IF k = h.key THEN logged[k] + h.cost ELSE logged[k]
      BY <2>8 DEF PushLog, TypeOK
    <3>2. req'[r].stage = "between"
      <4>1. Released(h).stage = "between"
        BY <2>0, ReleasedHandler
      <4> QED
        BY <3>1, <4>1
    <3>3. \A k \in Keys : PendingOf(k)'[r] = 0 /\ PendingOf(k)[r] = IF k = h.key THEN h.cost ELSE 0
      BY <3>1, <3>2 DEF PendingOf
    <3>4. \A k \in Keys : logged'[k] + PendingOf(k)'[r] + billed[k]
                            <= logged[k] + PendingOf(k)[r] + billed'[k]
      BY <2>0, <3>1, <3>3 DEF TypeOK
    <3> QED
      BY <3>1, <3>4, PendingMoves
  <2>9. CASE Crash
    <3>1. (CHOOSE k \in Keys : TRUE) \in Keys
      BY BudgetAssumption
    <3>2. \A r \in Requests : req'[r].stage = "idle"
      BY <2>9, <3>1, FreshHandler DEF Crash
    <3>3. \A k \in Keys, r \in Requests : PendingOf(k)'[r] <= PendingOf(k)[r]
      BY <2>0, <3>2 DEF PendingOf
    <3> QED
      BY <2>9, <3>3, PendingKept DEF Crash
  <2>10. ASSUME req' = Reopened, UNCHANGED <<billed, logged>>
         PROVE  LogsNeverExceedBilling'
    <3>1. \A r \in Requests : /\ req'[r].stage = req[r].stage /\ req'[r].key = req[r].key
                              /\ req'[r].cost = req[r].cost
      BY <2>0, <2>10 DEF Reopened, Handler
    <3>2. \A k \in Keys, r \in Requests : PendingOf(k)'[r] <= PendingOf(k)[r]
      BY <2>0, <3>1 DEF PendingOf
    <3> QED
      BY <2>10, <3>2, PendingKept
  <2>11. ASSUME NEW a \in Accounts, NEW max \in MaxBudget, SetLimit(a, max)
         PROVE  LogsNeverExceedBilling'
    BY <2>10, <2>11 DEF SetLimit
  <2>12. ASSUME NEW k \in Keys, ResetBudget(k)
         PROVE  LogsNeverExceedBilling'
    BY <2>10, <2>12 DEF ResetBudget
  <2>13. ASSUME NEW batch, ResetAllSpend(batch)
         PROVE  LogsNeverExceedBilling'
    BY <2>10, <2>13 DEF ResetAllSpend
  <2>14. CASE UNCHANGED vars
    <3>1. \A k \in Keys, r \in Requests : PendingOf(k)'[r] <= PendingOf(k)[r]
      BY <2>0, <2>14 DEF PendingOf, vars
    <3> QED
      BY <2>14, <3>1, PendingKept DEF vars
  <2> QED
    BY <2>2, <2>3, <2>4, <2>5, <2>6, <2>7, <2>8, <2>9, <2>11, <2>12, <2>13, <2>14 DEF Next
<1> QED
  BY <1>1, <1>2, TypedAlways, PTL DEF Spec

-----------------------------------------------------------------------------
(* Each account is a ledger.                                               *)

\* What the refinement mapping makes of the state of account a.
LEMMA MappedState ==
  ASSUME NEW a \in Accounts
  PROVE  Account(a)!vars = <<spend[a], Committed(a), ceiling[a]>>
BY DEF Account!vars

\* A step of handler r that leaves counters and ceilings alone is a step of
\* the ledger of a: r stays as it was, commits within the ceiling, or gives up.
LEMMA HandlerStep ==
  ASSUME Typed, Typed', NEW r \in Requests, NEW a \in Accounts,
         req' = [req EXCEPT ![r] = req'[r]],
         UNCHANGED <<spend, ceiling>>,
         a \in Cleared(req'[r]) /\ a \notin Cleared(req[r]) /\ ceiling[a] # NoLimit
           => spend[a] <= ceiling[a]
  PROVE  UNCHANGED Account(a)!vars \/ Account(a)!Next
<1>1. \A s \in Requests \ {r} : req'[s] = req[s]
  BY DEF Typed, TypeOK
<1>2. CASE a \in Cleared(req'[r]) <=> a \in Cleared(req[r])
  <2>1. Committed(a)' = Committed(a)
    BY <1>1, <1>2 DEF Committed
  <2> QED
    BY <2>1 DEF Account!vars
<1>3. CASE a \in Cleared(req'[r]) /\ a \notin Cleared(req[r])
  <2>1. r \notin Committed(a) /\ Committed(a)' = Committed(a) \union {r}
    BY <1>1, <1>3 DEF Committed
  <2>2. Account(a)!Commit(r)
    BY <1>3, <2>1 DEF Account!Commit
  <2> QED
    BY <2>2 DEF Account!Next
<1>4. CASE a \notin Cleared(req'[r]) /\ a \in Cleared(req[r])
  <2>1. r \in Committed(a) /\ Committed(a)' = Committed(a) \ {r}
    BY <1>1, <1>4 DEF Committed
  <2>2. Account(a)!Release(r)
    BY <2>1 DEF Account!Release
  <2> QED
    BY <2>2 DEF Account!Next
<1> QED
  BY <1>2, <1>3, <1>4

\* Every step of the budgets is a step or a stutter of every account's ledger.
LEMMA LedgerStep ==
  ASSUME Typed, Typed', Covered, [Next]_vars, NEW a \in Accounts
  PROVE  UNCHANGED Account(a)!vars \/ Account(a)!Next
<1> DEFINE Mapped == UNCHANGED Account(a)!vars \/ Account(a)!Next
<1>0. \A r \in Requests : req[r] \in Handler /\ LevelOK(req[r]) /\ CoverOK(req[r])
  BY DEF Typed, TypeOK, Covered
<1>1. ASSUME NEW r \in Requests, NEW k \in Keys, NEW own \in MaxBudget,
             req' = [req EXCEPT ![r] = Enter(k, own)], UNCHANGED <<spend, ceiling>>,
             own = NoLimit => ceiling[AccountOf[k][1]] = NoLimit
      PROVE  Mapped
  <2>1. req'[r] = Enter(k, own)
    BY <1>1 DEF Typed, TypeOK
  <2>2. own = NoLimit => Cleared(req'[r]) \subseteq {AccountOf[k][1]}
    <3>1. own = NoLimit => req'[r].key = k /\ 1..(req'[r].level - 1) = {1}
      BY <2>1, EnterHandler
    <3> QED
      BY <3>1 DEF Cleared
  <2>3. own # NoLimit => a \notin Cleared(req'[r])
    BY <2>1, EnterHandler, ClearedStep
  <2>4. ceiling[a] # NoLimit => a \notin Cleared(req'[r])
    BY <1>1, <2>2, <2>3
  <2> QED
    BY <1>1, <2>1, <2>4, HandlerStep
<1>2. ASSUME NEW r \in Requests, NEW k \in Keys, Arrive(r, k)
      PROVE  Mapped
  <2>1. AccountOf[k][1] \in Accounts /\ limit[AccountOf[k][1]] \in MaxBudget
    BY BudgetAssumption DEF Typed, TypeOK, Levels
  <2>2. limit[AccountOf[k][1]] = NoLimit => ceiling[AccountOf[k][1]] = NoLimit
    BY <2>1 DEF Covered, Below
  <2> QED
    BY <1>1, <1>2, <2>1, <2>2 DEF Arrive
<1>3. ASSUME NEW r \in Requests, NextItem(r)
      PROVE  Mapped
  <2>1. req[r].key \in Keys /\ req[r].own \in MaxBudget
    BY <1>0 DEF Handler
  <2>2. req[r].own = NoLimit => ceiling[AccountOf[req[r].key][1]] = NoLimit
    BY <1>0, <1>3 DEF NextItem, CoverOK, Below
  <2> QED
    BY <1>1, <1>3, <2>1, <2>2 DEF NextItem
<1>4. ASSUME NEW r \in Requests, ReadLimit(r)
      PROVE  Mapped
  <2> DEFINE h == req[r]
             acc == AccountOf[h.key][h.level]
             asked == [h EXCEPT !.stage = "spend", !.cap = limit[acc]]
  <2>1. h \in Handler /\ h.level \in Levels
    BY <1>0, <1>4 DEF ReadLimit, LevelOK, Levels
  <2>2. /\ req' = [req EXCEPT ![r] = req'[r]]
        /\ \/ req'[r] = asked
           \/ req'[r] = Passed(h) /\ (acc = NoAccount \/ limit[acc] = NoLimit)
    BY <1>4 DEF ReadLimit, Typed, TypeOK
  <2>3. Cleared(asked) = Cleared(h)
    <3>1. asked.key = h.key /\ asked.level = h.level
      BY <2>1 DEF Handler
    <3> QED
      BY <3>1 DEF Cleared
  <2>4. acc \in Accounts /\ limit[acc] = NoLimit => ceiling[acc] = NoLimit
    BY DEF Covered, Below
  <2>5. a \in Cleared(req'[r]) /\ a \notin Cleared(h) => ceiling[a] = NoLimit
    BY <2>1, <2>2, <2>3, <2>4, ClearedStep
  <2>6. UNCHANGED <<spend, ceiling>>
    BY <1>4 DEF ReadLimit
  <2> QED
    BY <2>2, <2>5, <2>6, HandlerStep
<1>5. ASSUME NEW r \in Requests, ReadSpend(r)
      PROVE  Mapped
  <2> DEFINE h == req[r]
             acc == AccountOf[h.key][h.level]
  <2>1. h \in Handler /\ h.level \in Levels /\ h.stage = "spend"
    BY <1>0, <1>5 DEF ReadSpend, LevelOK, Levels
  <2>2. /\ req' = [req EXCEPT ![r] = req'[r]]
        /\ \/ req'[r] = Released(h)
           \/ req'[r] = Passed(h) /\ ~Exhausted(spend[acc], h.cap)
        /\ UNCHANGED <<spend, ceiling>>
    BY <1>5 DEF ReadSpend, Typed, TypeOK
  <2>3. a \notin Cleared(Released(h))
    BY <2>1, ReleasedHandler, ClearedStep
  <2>4. ASSUME a \in Cleared(req'[r]), a \notin Cleared(h), ceiling[a] # NoLimit
        PROVE  spend[a] <= ceiling[a]
    <3>1. a = acc /\ ~Exhausted(spend[acc], h.cap)
      BY <2>1, <2>2, <2>3, <2>4, ClearedStep
    <3>2. h.cap # NoLimit /\ h.cap <= ceiling[a] /\ h.cap \in Nat
      BY <1>0, <2>1, <2>4, <3>1, BudgetAssumption DEF CoverOK, Below, Handler, MaxBudget
    <3>3. spend[a] \in Nat /\ ceiling[a] \in Nat
      BY <2>4, BudgetAssumption DEF Typed, TypeOK, MaxBudget
    <3>4. ~(spend[a] > h.cap)
      BY <3>1, <3>2 DEF Exhausted
    <3> QED
      BY <3>2, <3>3, <3>4
  <2> QED
    BY <2>2, <2>4, HandlerStep
<1>6. ASSUME NEW r \in Requests, NEW c \in 0..MaxCost, IncrementSpend(r, c)
      PROVE  Mapped
  <2> DEFINE h == req[r]
             next == [h EXCEPT !.stage = "log", !.cost = c, !.level = 1, !.over = FALSE]
  <2>1. h \in Handler /\ h.level = Done
    BY <1>0, <1>6 DEF IncrementSpend, LevelOK
  <2>2. req'[r] = next /\ \A s \in Requests \ {r} : req'[s] = req[s]
    BY <1>6 DEF IncrementSpend, Typed, TypeOK
  <2>3. a \notin Cleared(req'[r])
    <3>1. req'[r] \in Handler /\ req'[r].level = 1
      BY <2>1, <2>2 DEF Handler, Typed, TypeOK
    <3> QED
      BY <3>1, ClearedStep
  <2>4. Committed(a)' = Committed(a) \ {r} /\ ceiling' = ceiling
    BY <1>6, <2>2, <2>3 DEF Committed, IncrementSpend
  <2>5. Cleared(h) = ChargedAccounts(h.key)
    <3>1. 1..(h.level - 1) = Levels
      BY <2>1 DEF Levels, Done
    <3> QED
      BY <3>1 DEF Cleared, ChargedAccounts
  <2>6. CASE a \in Cleared(h)
    <3>1. r \in Committed(a) /\ spend'[a] = spend[a] + c
      BY <1>6, <2>5, <2>6 DEF Committed, IncrementSpend
    <3>2. Account(a)!Charge(r, c)
      BY <2>4, <3>1 DEF Account!Charge
    <3> QED
      BY <3>2 DEF Account!Next
  <2>7. CASE a \notin Cleared(h)
    <3>1. r \notin Committed(a) /\ spend'[a] = spend[a]
      BY <1>6, <2>5, <2>7 DEF Committed, IncrementSpend
    <3> QED
      BY <2>4, <3>1 DEF Account!vars
  <2> QED
    BY <2>6, <2>7
<1>7. ASSUME NEW r \in Requests, PushLog(r) \/ NotCharged(r)
      PROVE  Mapped
  <2>1. /\ req' = [req EXCEPT ![r] = req'[r]] /\ req'[r] = Released(req[r])
        /\ UNCHANGED <<spend, ceiling>>
    BY <1>7 DEF PushLog, NotCharged, Typed, TypeOK
  <2>2. a \notin Cleared(req'[r])
    BY <1>0, <2>1, ReleasedHandler, ClearedStep
  <2> QED
    BY <2>1, <2>2, HandlerStep
<1>8. CASE Crash
  <2>1. (CHOOSE k \in Keys : TRUE) \in Keys
    BY BudgetAssumption
  <2>2. \A r \in Requests : a \notin Cleared(req'[r])
    BY <1>8, <2>1, FreshHandler, ClearedStep DEF Crash
  <2>3. Committed(a)' = {} /\ UNCHANGED <<spend, ceiling>>
    BY <1>8, <2>2 DEF Committed, Crash
  <2>4. Account(a)!Crash
    BY <2>3 DEF Account!Crash
  <2> QED
    BY <2>4 DEF Account!Next
<1>9. ASSUME req' = Reopened
      PROVE  Committed(a)' = Committed(a)
  <2>1. \A r \in Requests : req'[r].key = req[r].key /\ req'[r].level = req[r].level
    BY <1>0, <1>9 DEF Reopened, Handler
  <2>2. \A r \in Requests : Cleared(req'[r]) = Cleared(req[r])
    BY <2>1 DEF Cleared
  <2> QED
    BY <2>2 DEF Committed
<1>10. ASSUME NEW b \in Accounts, NEW max \in MaxBudget, SetLimit(b, max)
       PROVE  Mapped
  <2>1. ceiling' = [ceiling EXCEPT ![b] = Raise(ceiling[b], max)] /\ spend'[a] = spend[a]
    BY <1>10 DEF SetLimit
  <2>2. Committed(a)' = Committed(a)
    BY <1>9, <1>10 DEF SetLimit
  <2>3. CASE ceiling'[a] = ceiling[a]
    BY <2>1, <2>2, <2>3 DEF Account!vars
  <2>4. CASE ceiling'[a] # ceiling[a]
    <3>1. a = b /\ ceiling'[a] = Raise(ceiling[a], max)
      BY <2>1, <2>4 DEF Typed, TypeOK
    <3>2. /\ ceiling[a] # NoLimit
          /\ max = NoLimit \/ max > ceiling[a]
          /\ ceiling'[a] = max
      BY <2>4, <3>1 DEF Raise
    <3>3. Account(a)!RaiseCeiling(max)
      BY <2>1, <2>2, <3>2 DEF Account!RaiseCeiling
    <3> QED
      BY <3>3 DEF Account!Next
  <2> QED
    BY <2>3, <2>4
<1>11. ASSUME spend'[a] = spend[a] \/ spend'[a] = 0, ceiling' = ceiling, req' = Reopened
       PROVE  Mapped
  <2>1. Committed(a)' = Committed(a)
    BY <1>9, <1>11
  <2>2. CASE spend'[a] = spend[a]
    BY <1>11, <2>1, <2>2 DEF Account!vars
  <2>3. CASE spend'[a] = 0
    <3>1. Account(a)!Reset
      BY <1>11, <2>1, <2>3 DEF Account!Reset
    <3> QED
      BY <3>1 DEF Account!Next
  <2> QED
    BY <1>11, <2>2, <2>3
<1>12. ASSUME NEW k \in Keys, ResetBudget(k)
       PROVE  Mapped
  BY <1>11, <1>12 DEF ResetBudget, Typed, TypeOK
<1>13. ASSUME NEW batch \in SUBSET Accounts, ResetAllSpend(batch)
       PROVE  Mapped
  BY <1>11, <1>13 DEF ResetAllSpend, Typed, TypeOK
<1>14. CASE UNCHANGED vars
  <2>1. Committed(a)' = Committed(a)
    BY <1>14 DEF vars, Committed
  <2> QED
    BY <1>14, <2>1 DEF vars, Account!vars
<1> QED
  BY <1>2, <1>3, <1>4, <1>5, <1>6, <1>7, <1>8, <1>10, <1>12, <1>13, <1>14 DEF Next

\* check_budget, record_spend and the administration of budgets implement, for
\* every account of the hierarchy, the ledger: commitments only within the
\* ceiling, charges only against a commitment.
THEOREM AccountsAreLedgers == Spec => ImplementsLedger
<1>1. Init => \A a \in Accounts : Account(a)!Init
  <2> SUFFICES ASSUME Init, NEW a \in Accounts PROVE Account(a)!Init
    OBVIOUS
  <2>1. (CHOOSE k \in Keys : TRUE) \in Keys
    BY BudgetAssumption
  <2>2. \A r \in Requests : a \notin Cleared(req[r])
    BY <2>1, FreshHandler, ClearedStep DEF Init
  <2> QED
    BY <2>2 DEF Init, Account!Init, Committed
<1>2. Typed /\ Typed' /\ Covered /\ [Next]_vars
        => \A a \in Accounts : UNCHANGED Account(a)!vars \/ Account(a)!Next
  BY LedgerStep
<1> QED
  BY <1>1, <1>2, TypedAlways, CoveredAlways, PTL DEF Spec, ImplementsLedger

=============================================================================
