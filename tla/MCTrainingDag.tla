---------------------------- MODULE MCTrainingDag ----------------------------
(* TrainingDag for TLC: one or two dates, and at most one training run that  *)
(* is asked for from outside.                                                *)
EXTENDS TrainingDag

Nobody == {{}}

(* Somebody asks for a run by hand, with a type that is to win; or the drift *)
(* detector does, without a date.                                            *)
Outside ==
  {{[date |-> 1, by |-> "manual", force |-> "pytorch"]},
   {[date |-> None, by |-> "drift_detector", force |-> None]}}
=============================================================================
