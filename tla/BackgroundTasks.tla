-------------------------- MODULE BackgroundTasks --------------------------
(***************************************************************************)
(* The background tasks of the gateway process: the one of a batch and the *)
(* budget scheduler.  They share no state, and one behaviour runs one of   *)
(* them: the other stands still in its first state.                        *)
(***************************************************************************)
EXTENDS Batch

CONSTANTS Keys, Period, MaxNow, MaxAborts

ASSUME SchedulerAssumption ==
    /\ Keys # {}
    /\ \A d \in DOMAIN Period : Period[d] \in Nat
    /\ MaxNow \in Nat

VARIABLES scheduler, now, rec, spent, pass, aborts, used, next, early

reset == <<now, rec, spent, pass, aborts, used, next, early>>

R == INSTANCE BudgetReset

TasksInit == Init /\ R!Init /\ scheduler \in BOOLEAN

TasksNext ==
    \/ ~scheduler /\ Next /\ UNCHANGED <<scheduler, reset>>
    \/ scheduler /\ R!Next /\ UNCHANGED <<scheduler, vars>>

\* Of the tasks only the one that runs has to go on.
TasksSpec ==
    /\ TasksInit
    /\ [][TasksNext]_<<scheduler, vars, reset>>
    /\ WF_vars(~scheduler /\ Process)
    /\ WF_reset(scheduler /\ R!Loop)

-----------------------------------------------------------------------------
(* Properties: those of Batch, and of BudgetReset.                         *)

\* No key is reset before the period of its last reset is over.
ResetsSpaced == R!ResetsSpaced

\* What a key has spent is reset when its time has come.
DueIsReset == R!DueIsReset
=============================================================================
