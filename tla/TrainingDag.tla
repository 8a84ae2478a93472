----------------------------- MODULE TrainingDag -----------------------------
(***************************************************************************)
(* The training pipeline (training_pipeline.py) beside the feature         *)
(* pipeline that asks for it: one run at a time submits two SageMaker      *)
(* jobs, waits for both, evaluates both models, picks one and runs the     *)
(* canary and the promotion (ModelRelease looks inside those two).         *)
(***************************************************************************)
EXTENDS FeatureDag

CONSTANTS
  TrainingRetries,  \* retries of a task (1)
  Asked             \* the sets of training runs that may be asked for from outside

ModelTypes == {"xgboost", "pytorch"}

(* force: params["force_model"].  A request without execution_date, such as *)
(* the drift detector's, leaves the date to the DAG's params, where it is   *)
(* the text "{{ ds }}" that nothing renders: no date, and no job name.      *)
Requests == [date: Dates \cup {None}, by: {"feature_pipeline", "drift_detector", "manual"},
             force: ModelTypes \cup {None}]

ASSUME TrainingAssumption ==
  /\ TrainingRetries \in Nat
  /\ UNION Asked \subseteq {request \in Requests : request.by # "feature_pipeline"}

VARIABLES
  open,      \* the runs of that set still to be asked for
  training,  \* the running DAG run
  runs,      \* number of the newest run
  jobs,      \* model type and date -> its SageMaker job
  gate       \* model type -> its /tmp/gate_*.json, where tasks share /tmp

trainingVars == <<open, training, runs, jobs, gate>>
vars == <<featureVars, trainingVars>>

(* The splits a job or an evaluation has read; 0: none yet, or none there. *)
NoJob     == [run |-> 0, by |-> "manual", status |-> "none", train |-> 0, validation |-> 0]
NoVerdict == [run |-> 0, passed |-> FALSE, auc |-> 0, test |-> 0]

NoTraining ==
  [pc |-> "idle", run |-> 0, date |-> None, by |-> "manual", force |-> None, tries |-> 0,
   branch |-> [m \in ModelTypes |-> "submit"], again |-> [m \in ModelTypes |-> 0],
   results |-> [m \in ModelTypes |-> NoVerdict], winner |-> None]

-----------------------------------------------------------------------------
(* Runs are started one at a time, in the order they were asked for. *)
AskFor(request) ==
  /\ request \in open
  /\ open' = open \ {request}
  /\ requests' = Append(requests, request)
  /\ UNCHANGED <<executor, day, feature, glue, snapshot, sound, splits, file,
                 training, runs, jobs, gate>>

StartTraining ==
  /\ training.pc = "idle"
  /\ requests # <<>>
  /\ requests' = Tail(requests)
  /\ runs' = runs + 1
  /\ training' = [NoTraining EXCEPT !.pc = "train", !.run = runs + 1,
                    !.date = Head(requests).date, !.by = Head(requests).by,
                    !.force = Head(requests).force]
  /\ UNCHANGED <<executor, day, feature, glue, snapshot, sound, splits, file,
                 open, jobs, gate>>

-----------------------------------------------------------------------------
(* The two branches: submit, then wait for the job. *)
BranchDone(m, next) ==
  training' = [training EXCEPT !.branch[m] = next, !.again[m] = 0]

MBranchFails(m) == training' = [training EXCEPT !.again[m] = 0]
BranchFails(m) ==
  training' = IF training.again[m] < TrainingRetries
              THEN [training EXCEPT !.again[m] = @ + 1]
              ELSE [training EXCEPT !.branch[m] = "failed", !.again[m] = 0]

Job(m) == jobs[m][training.date]

(* create_training_job.  The name is made of the model type, the date and   *)
(* the commit: a name that exists is refused, also when an earlier attempt  *)
(* of this task created it and died.                                        *)
Create(m) ==
  jobs' = [jobs EXCEPT ![m][training.date] =
    IF @ = NoJob
    THEN [NoJob EXCEPT !.run = training.run, !.by = training.by, !.status = "Starting"]
    ELSE @]

MCanCreate(m) == training.date # None
CanCreate(m) == training.date # None /\ Job(m) = NoJob

Submit(m) ==
  /\ training.pc = "train" /\ training.branch[m] = "submit"
  /\ \/ /\ CanCreate(m)
        /\ BranchDone(m, "wait")
        /\ Create(m)
     \/ /\ CanCreate(m) /\ CallsFail
        /\ BranchFails(m)
        /\ Create(m)
     \/ /\ ~CanCreate(m)
        /\ BranchFails(m)
        /\ UNCHANGED jobs
  /\ UNCHANGED <<featureVars, open, runs, gate>>

(* wait_for_sagemaker_job; a retry asks for the same job again. *)
WaitForJob(m) ==
  /\ training.pc = "train" /\ training.branch[m] = "wait"
  /\ \/ Job(m).status = "Completed" /\ BranchDone(m, "done")
     \/ Job(m).status = "Failed" /\ BranchFails(m)
  /\ UNCHANGED <<featureVars, open, runs, jobs, gate>>

(* A call of a branch's task raises, it times out, or its worker dies. *)
BranchError(m) ==
  /\ CallsFail
  /\ training.pc = "train" /\ training.branch[m] \in {"submit", "wait"}
  /\ BranchFails(m)
  /\ UNCHANGED <<featureVars, open, runs, jobs, gate>>

(* Evaluation runs when both branches are done; a failed one fails the run. *)
Join ==
  /\ training.pc = "train"
  /\ \A m \in ModelTypes : training.branch[m] \in {"done", "failed"}
  /\ training' = IF \A m \in ModelTypes : training.branch[m] = "done"
                 THEN [training EXCEPT !.pc = "xgboost"]
                 ELSE NoTraining
  /\ UNCHANGED <<featureVars, open, runs, jobs, gate>>

-----------------------------------------------------------------------------
(* evaluate_models: one subprocess per model type, in this order. *)
TaskFails ==
  training' = IF training.tries < TrainingRetries
              THEN [training EXCEPT !.tries = @ + 1,
                      !.pc = IF @ \in ModelTypes THEN "xgboost" ELSE @,
                      !.results = IF training.pc \in ModelTypes THEN NoTraining.results ELSE @]
              ELSE NoTraining

Results(m, verdict) ==
  training' = [training EXCEPT
    !.results[m] = verdict,
    !.pc = IF m = "xgboost" THEN "pytorch" ELSE "pick",
    !.tries = IF m = "xgboost" THEN @ ELSE 0]

(* evaluate_model.py on the test split: the four gates passed or not, and   *)
(* the AUC, 1 or 2 for the lower or the higher of two values.               *)
Verdicts == [run: {training.run}, passed: BOOLEAN, auc: 1..2,
             test: {splits[training.date]["test"]}]

(* It writes its verdict to the gate file, from which the task reads it.     *)
(* (The run id it loads the model by is "placeholder" as long as nothing     *)
(* sets MLFLOW_RUN_ID, and then it dies: EvaluateDies.)                      *)
Evaluate(m) ==
  /\ training.pc = m
  /\ \E verdict \in Verdicts :
       /\ Results(m, verdict)
       /\ gate' = IF executor = "local" THEN [gate EXCEPT ![m] = verdict] ELSE gate
  /\ UNCHANGED <<featureVars, open, runs, jobs>>

(* The script dies before it writes: its return code is not looked at, and   *)
(* what is read is the file an earlier run left, or "passed": False.         *)
EvaluateDies(m) ==
  /\ CallsFail
  /\ training.pc = m
  /\ Results(m, gate[m])
  /\ UNCHANGED <<featureVars, open, runs, jobs, gate>>

-----------------------------------------------------------------------------
(* pick_winner: the forced type if it passed, else the higher AUC of those   *)
(* that passed, xgboost when they are equal; skip_deployment without any.    *)
MPassed == ModelTypes
Passed == {m \in ModelTypes : training.results[m].passed}

Winner ==
  IF training.force \in Passed THEN training.force
  ELSE IF Passed = ModelTypes
       THEN IF training.results["pytorch"].auc > training.results["xgboost"].auc
            THEN "pytorch" ELSE "xgboost"
       ELSE CHOOSE m \in Passed : TRUE

PickWinner ==
  /\ training.pc = "pick"
  /\ training' = IF Passed = {} THEN NoTraining
                 ELSE [training EXCEPT !.pc = "deploy", !.winner = Winner, !.tries = 0]
  /\ UNCHANGED <<featureVars, open, runs, jobs, gate>>

(* canary_deploy.py of the winner's branch, then promote_model.py. *)
Deploy ==
  /\ training.pc = "deploy"
  /\ training' = [training EXCEPT !.pc = "promote", !.tries = 0]
  /\ UNCHANGED <<featureVars, open, runs, jobs, gate>>

Promote ==
  /\ training.pc = "promote"
  /\ training' = NoTraining
  /\ UNCHANGED <<featureVars, open, runs, jobs, gate>>

(* A task raises (a canary that breached exits 1), times out, or its worker *)
(* dies.                                                                    *)
TrainingError ==
  /\ CallsFail
  /\ training.pc \in ModelTypes \cup {"pick", "deploy", "promote"}
  /\ TaskFails
  /\ UNCHANGED <<featureVars, open, runs, jobs, gate>>

-----------------------------------------------------------------------------
(* SageMaker: the job copies its two channels when it starts (File mode). *)
StartJob(m, d) ==
  /\ jobs[m][d].status = "Starting"
  /\ jobs' = [jobs EXCEPT ![m][d] =
       [@ EXCEPT !.status = IF splits[d]["train"] = 0 \/ splits[d]["validation"] = 0
                            THEN "Failed" ELSE "InProgress",
                 !.train = splits[d]["train"], !.validation = splits[d]["validation"]]]
  /\ UNCHANGED <<featureVars, open, training, runs, gate>>

EndJob(m, d) ==
  /\ jobs[m][d].status = "InProgress"
  /\ \E status \in {"Completed"} \cup (IF CallsFail THEN {"Failed"} ELSE {}) :
       jobs' = [jobs EXCEPT ![m][d].status = status]
  /\ UNCHANGED <<featureVars, open, training, runs, gate>>

-----------------------------------------------------------------------------
Init ==
  /\ FeatureInit
  /\ open \in Asked
  /\ training = NoTraining
  /\ runs = 0
  /\ jobs = [m \in ModelTypes |-> [d \in Dates |-> NoJob]]
  /\ gate = [m \in ModelTypes |-> NoVerdict]

TrainingStep ==
  \/ \E m \in ModelTypes : Submit(m) \/ WaitForJob(m) \/ Evaluate(m)
  \/ Join \/ PickWinner \/ Deploy \/ Promote

TrainingFails ==
  \/ \E m \in ModelTypes : BranchError(m) \/ EvaluateDies(m)
  \/ TrainingError

JobStep(m, d) == StartJob(m, d) \/ EndJob(m, d)

Next ==
  \/ FeatureNext /\ UNCHANGED trainingVars
  \/ \E request \in open : AskFor(request)
  \/ StartTraining
  \/ TrainingStep
  \/ TrainingFails
  \/ \E m \in ModelTypes, d \in Dates : JobStep(m, d)

(* A task that can go on does, Glue and SageMaker jobs and crawls end, and a *)
(* run that was asked for is started when the one before it is over.  No    *)
(* error is fair: nothing ends because a call happens to raise.             *)
Fairness ==
  /\ WF_vars(FeatureStep /\ UNCHANGED trainingVars)
  /\ \A job \in GlueJobs : WF_vars(GlueEnds(job) /\ UNCHANGED trainingVars)
  /\ WF_vars(CrawlEnds /\ UNCHANGED trainingVars)
  /\ WF_vars(StartTraining)
  /\ WF_vars(TrainingStep)
  /\ \A m \in ModelTypes, d \in Dates : WF_vars(JobStep(m, d))

Spec == Init /\ [][Next]_vars /\ Fairness

-----------------------------------------------------------------------------
(* Type correctness. *)
TypeOK ==
  /\ FeatureTypeOK
  /\ open \subseteq UNION Asked
  /\ \A i \in 1..Len(requests) : requests[i] \in Requests
  /\ training.pc \in {"idle", "train", "pick", "deploy", "promote"} \cup ModelTypes
  /\ training.tries \in 0..TrainingRetries
  /\ training.branch \in [ModelTypes -> {"submit", "wait", "done", "failed"}]
  /\ training.again \in [ModelTypes -> 0..TrainingRetries]
  /\ training.winner \in ModelTypes \cup {None}
  /\ \A m \in ModelTypes, d \in Dates :
       jobs[m][d].status \in {"none", "Starting", "InProgress", "Completed", "Failed"}

(* A job the feature pipeline asked for trains and early-stops on the two   *)
(* splits of one snapshot, and that snapshot passed the validation: with    *)
(* retried exports, Glue's schedule overwriting the snapshot meanwhile, and *)
(* lost Glue runs (feature_pipeline.py:289-292).                            *)
TrainsOnValidated ==
  \A m \in ModelTypes, d \in Dates :
    jobs[m][d].by = "feature_pipeline" /\ jobs[m][d].status \in {"InProgress", "Completed"} =>
      /\ jobs[m][d].train = jobs[m][d].validation
      /\ jobs[m][d].train \in sound

(* What is deployed was trained by a job of this very run, and passed the   *)
(* gates in an evaluation of this very run, whatever earlier runs left      *)
(* behind under the same job name; with a /tmp of its own for each task.    *)
DeploysOwnWork ==
  training.pc \in {"deploy", "promote"} =>
    /\ Job(training.winner).run = training.run
    /\ Job(training.winner).status = "Completed"
    /\ training.results[training.winner].passed
    /\ executor = "kubernetes" => training.results[training.winner].run = training.run

(* "Both XGBoost and PyTorch training jobs need the SAME split"             *)
(* (feature_pipeline.py:220): the models a run compares were trained on the *)
(* same snapshot and tested on its test split.                              *)
ComparesSameSplits ==
  training.pc = "pick" /\ training.by = "feature_pipeline" =>
    \A m, n \in ModelTypes :
      /\ Job(m).train = Job(n).train
      /\ training.results[n].run = training.run => training.results[n].test = Job(m).train

(* The splits of a date are of one snapshot that passed the validation, and *)
(* the feature run of that date is over or past its export.                 *)
Settled(d) ==
  /\ d \in Dates /\ d <= day
  /\ feature.ds = d => feature.pc = "trigger"
  /\ splits[d]["train"] \in sound
  /\ \A s \in SplitNames : splits[d][s] = splits[d]["train"]

Published == [d \in Dates |-> IF Settled(d) THEN splits[d]["train"] ELSE 0]

Trained == [m \in ModelTypes |-> [d \in Dates |->
              IF jobs[m][d].by = "feature_pipeline" THEN jobs[m][d].train ELSE 0]]

Chosen == IF training.by = "feature_pipeline" /\ training.pc \in {"deploy", "promote"}
          THEN <<training.winner, training.date>> ELSE None

Promise == INSTANCE ValidatedTraining
             WITH published <- Published, trained <- Trained, chosen <- Chosen

(* The two pipelines implement ValidatedTraining: the splits a training run *)
(* is asked for with are published once and sound, each job reads those,    *)
(* and what is deployed was compared on them (feature_pipeline.py:220).     *)
ImplementsTraining == Promise!Spec

(* Every run of the two DAGs comes to an end although no task need ever      *)
(* fail: start refused, name taken, no date, answer lost, job failed or      *)
(* crawl of somebody else, each is met by bounded retries.  That a crawl     *)
(* ends is assumed: trigger_glue_crawler would wait for it for ever          *)
(* (aws_utils.py:89), and with it every later run of the DAG.                *)
RunsEnd ==
  /\ feature.pc # "idle" ~> feature.pc = "idle"
  /\ training.pc # "idle" ~> training.pc = "idle"

=============================================================================
