-------------------------- MODULE ValidatedTraining --------------------------
(***************************************************************************)
(* What the two pipelines promise of the data of a date, without tasks,    *)
(* retries, queues and jobs: a snapshot fit for training is published for   *)
(* it, once; a job trains on what was published, once for each model type;  *)
(* and a model is only chosen for deployment when all of its date have      *)
(* trained on that.  TrainingDag is shown to implement this module.         *)
(***************************************************************************)
EXTENDS Naturals

CONSTANTS Dates, ModelTypes, None

VARIABLES
  sound,      \* snapshots that are fit for training
  published,  \* date -> the snapshot its splits are of, 0: none yet
  trained,    \* model type -> date -> the snapshot its job read, 0: none yet
  chosen      \* model type and date of what is being deployed, or None

vars == <<sound, published, trained, chosen>>

Init ==
  /\ published = [d \in Dates |-> 0]
  /\ trained = [m \in ModelTypes |-> [d \in Dates |-> 0]]
  /\ chosen = None

(* The splits of a date are there; they are not written again. *)
Publish(d) ==
  /\ published[d] = 0
  /\ \E s \in sound : published' = [published EXCEPT ![d] = s]
  /\ UNCHANGED <<sound, trained, chosen>>

(* A job reads them. *)
Train(m, d) ==
  /\ published[d] # 0
  /\ trained[m][d] = 0
  /\ trained' = [trained EXCEPT ![m][d] = published[d]]
  /\ UNCHANGED <<sound, published, chosen>>

(* The winner of a date, all of whose models were trained on its splits. *)
Choose(m, d) ==
  /\ chosen = None
  /\ \A n \in ModelTypes : trained[n][d] # 0 /\ trained[n][d] = published[d]
  /\ chosen' = <<m, d>>
  /\ UNCHANGED <<sound, published, trained>>

(* Its deployment is over, well or not. *)
Finish ==
  /\ chosen' = None
  /\ UNCHANGED <<sound, published, trained>>

Next ==
  \/ \E d \in Dates : Publish(d)
  \/ \E m \in ModelTypes, d \in Dates : Train(m, d) \/ Choose(m, d)
  \/ Finish

Spec == Init /\ [][Next]_vars

=============================================================================
