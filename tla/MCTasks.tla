------------------------------ MODULE MCTasks ------------------------------
(***************************************************************************)
(* BackgroundTasks on a small instance: months have two days.              *)
(***************************************************************************)
EXTENDS BackgroundTasks, TLC

PeriodOfTwo == "daily" :> 1 @@ "monthly" :> 2
=============================================================================
