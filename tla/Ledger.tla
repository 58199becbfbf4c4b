------------------------------- MODULE Ledger -------------------------------
(***************************************************************************)
(* What auth/budgets.py promises of one spend counter, whatever the walk   *)
(* over the levels looks like.  A handler commits to the account only      *)
(* while the counter is within the highest limit ever set, charges at most *)
(* once per commitment and at most MaxCost, and a commitment is given up   *)
(* by a refusal, a failure or a crash.  Nobody is charged uncommitted.     *)
(***************************************************************************)
EXTENDS Integers

CONSTANTS
    Requests,    \* handlers
    MaxBudget,   \* limits, NoLimit among them
    NoLimit,
    MaxCost      \* dearest single call

VARIABLES
    spend,       \* the counter
    committed,   \* handlers that have passed the account's check
    ceiling      \* highest limit so far

vars == <<spend, committed, ceiling>>

Init ==
    /\ spend = 0
    /\ committed = {}
    /\ ceiling \in MaxBudget

\* check_budget passes the account.
Commit(r) ==
    /\ r \notin committed
    /\ ceiling # NoLimit => spend <= ceiling
    /\ committed' = committed \union {r}
    /\ UNCHANGED <<spend, ceiling>>

\* record_spend charges the account.
Charge(r, c) ==
    /\ r \in committed
    /\ spend' = spend + c
    /\ committed' = committed \ {r}
    /\ UNCHANGED ceiling

\* The request is refused at a later level, or ends without a charge.
Release(r) ==
    /\ r \in committed
    /\ committed' = committed \ {r}
    /\ UNCHANGED <<spend, ceiling>>

\* The process dies with all its handlers.
Crash ==
    /\ committed' = {}
    /\ UNCHANGED <<spend, ceiling>>

\* An administrator sets a limit above all earlier ones.
RaiseCeiling(max) ==
    /\ ceiling # NoLimit
    /\ max = NoLimit \/ max > ceiling
    /\ ceiling' = max
    /\ UNCHANGED <<spend, committed>>

\* The counter is reset.
Reset ==
    /\ spend' = 0
    /\ UNCHANGED <<committed, ceiling>>

Next ==
    \/ \E r \in Requests :
         \/ Commit(r)
         \/ \E c \in 0..MaxCost : Charge(r, c)
         \/ Release(r)
    \/ Crash
    \/ \E max \in MaxBudget : RaiseCeiling(max)
    \/ Reset

Spec == Init /\ [][Next]_vars
=============================================================================
