----------------------------- MODULE FeatureDag -----------------------------
(***************************************************************************)
(* The daily feature pipeline (feature_pipeline.py): two Glue jobs, the    *)
(* export of the three splits, their validation, the gate and the request  *)
(* for a training run.  Airflow retries each task; the Glue jobs run on    *)
(* outside of it, and Glue's own schedule starts the same two jobs.        *)
(***************************************************************************)
EXTENDS Naturals, Sequences

CONSTANTS
  LastDate,        \* dates are 1..LastDate: bound of the model
  LastSnapshot,    \* feature snapshots are 1..LastSnapshot: bound of the model
  None,
  Executors,       \* how Airflow may run tasks, see executor
  FeatureRetries,  \* retries of a task (2)
  Manual,          \* whether somebody triggers the DAG by hand
  CallsFail        \* whether calls fail for reasons outside this code

ASSUME FeatureAssumption ==
  /\ LastDate \in Nat \ {0}
  /\ LastSnapshot \in Nat \ {0}
  /\ None \notin Nat
  /\ Executors \subseteq {"kubernetes", "local"}
  /\ FeatureRetries \in Nat
  /\ Manual \in BOOLEAN
  /\ CallsFail \in BOOLEAN

VARIABLES
  executor,  \* "kubernetes": every task has a /tmp of its own; "local": they share one
  day,       \* date of the newest run
  feature,   \* the running DAG run
  glue,      \* Glue job -> whose run of it is going on
  snapshot,  \* the snapshot in the feature table, 0: none
  sound,     \* snapshots whose data passes validate_data.py
  splits,    \* date -> split -> the snapshot it was made from, 0: not there
  file,      \* "passed" of the validation result in a shared /tmp, None: no file
  requests   \* training runs asked for and not started

featureVars == <<executor, day, feature, glue, snapshot, sound, splits, file, requests>>

Dates      == 1..LastDate
Snapshots  == 1..LastSnapshot
GlueJobs   == {"raw_to_curated", "feature_engineering"}
SplitNames == {"train", "validation", "test"}

(* "other": a run this DAG run does not wait for (Glue's schedule, or a run *)
(* whose id was lost); Glue allows one run of a job at a time.              *)
Runners  == {"nobody", "dag", "other"}
Outcomes == {"none", "SUCCEEDED", "FAILED"}

(* The tasks in their order; the crawl is a start and a poll, the export a   *)
(* read and three writes.                                                   *)
After ==
  [wait_for_raw_data |-> "start_curated", start_curated  |-> "wait_curated",
   wait_curated      |-> "crawl",         crawl          |-> "crawling",
   crawling          |-> "start_features", start_features |-> "wait_features",
   wait_features     |-> "read",          read           |-> "train",
   train             |-> "validation",    validation     |-> "test",
   test              |-> "validate",      validate       |-> "gate",
   gate              |-> "trigger"]

FeatureSteps == DOMAIN After \cup {"idle", "trigger"}

JobOf(pc) == IF pc \in {"start_curated", "wait_curated"}
             THEN "raw_to_curated" ELSE "feature_engineering"

(* outcome: of the Glue run the DAG waits for; df: the snapshot it read;     *)
(* cron: Glue's schedule of that day has yet to start raw_to_curated.        *)
NoFeature == [pc |-> "idle", ds |-> 0, tries |-> 0, outcome |-> "none", df |-> 0,
              cron |-> FALSE]

-----------------------------------------------------------------------------
(* The scheduled run of the next date; a run triggered by hand has the date *)
(* of its day, which the next scheduled run has too.                        *)
StartFeature(d) ==
  /\ feature.pc = "idle"
  /\ d = day + 1 \/ (Manual /\ d = day)
  /\ day' = d
  /\ feature' = [NoFeature EXCEPT !.pc = "wait_for_raw_data", !.ds = d, !.cron = d = day + 1]
  /\ glue' = [j \in GlueJobs |-> IF glue[j] = "dag" THEN "other" ELSE glue[j]]
  /\ UNCHANGED <<executor, snapshot, sound, splits, file, requests>>

TaskDone == feature' = [feature EXCEPT !.pc = After[@], !.tries = 0]

(* The task raises: it is started again from its first line, or the run fails. *)
FirstLine == CASE feature.pc \in SplitNames -> "read"
               [] feature.pc = "crawling"    -> "crawl"
               [] OTHER                      -> feature.pc

MFeatureFails ==
  feature' = IF feature.tries <= FeatureRetries
             THEN [feature EXCEPT !.pc = FirstLine, !.tries = @ + 1]
             ELSE NoFeature
FeatureFails ==
  feature' = IF feature.tries < FeatureRetries
             THEN [feature EXCEPT !.pc = FirstLine, !.tries = @ + 1]
             ELSE NoFeature

(* S3KeySensor: the data comes, or after an hour the run fails (a sensor     *)
(* that times out is not retried).                                          *)
Wait ==
  /\ feature.pc = "wait_for_raw_data"
  /\ TaskDone \/ (CallsFail /\ feature' = NoFeature)
  /\ UNCHANGED <<executor, day, glue, snapshot, sound, splits, file, requests>>

(* A call raises, a task times out or its worker dies. *)
FeatureError ==
  /\ CallsFail
  /\ feature.pc # "idle"
  /\ FeatureFails
  /\ UNCHANGED <<executor, day, glue, snapshot, sound, splits, file, requests>>

(* start_glue_job: refused while the job runs.  When the answer is lost the *)
(* run goes on and its id is not in XCom.                                   *)
StartGlue ==
  /\ feature.pc \in {"start_curated", "start_features"}
  /\ \/ /\ glue[JobOf(feature.pc)] # "nobody"
        /\ FeatureFails
        /\ UNCHANGED glue
     \/ /\ glue[JobOf(feature.pc)] = "nobody"
        /\ feature' = [feature EXCEPT !.pc = After[@], !.tries = 0, !.outcome = "none"]
        /\ glue' = [glue EXCEPT ![JobOf(feature.pc)] = "dag"]
     \/ /\ glue[JobOf(feature.pc)] = "nobody" /\ CallsFail
        /\ FeatureFails
        /\ glue' = [glue EXCEPT ![JobOf(feature.pc)] = "other"]
  /\ UNCHANGED <<executor, day, snapshot, sound, splits, file, requests>>

(* wait_for_glue_job: a retry asks for the same run id again. *)
WaitGlue ==
  /\ feature.pc \in {"wait_curated", "wait_features"}
  /\ \/ feature.outcome = "SUCCEEDED" /\ TaskDone
     \/ feature.outcome = "FAILED" /\ FeatureFails
  /\ UNCHANGED <<executor, day, glue, snapshot, sound, splits, file, requests>>

(* trigger_glue_crawler: start_crawler is refused while the crawler runs,    *)
(* which its own schedule of 02:00 starts too, or an earlier attempt that   *)
(* did not get to its end.                                                  *)
StartCrawl ==
  /\ feature.pc = "crawl"
  /\ feature' = [feature EXCEPT !.pc = After[@]] \/ FeatureFails
  /\ UNCHANGED <<executor, day, glue, snapshot, sound, splits, file, requests>>

(* read_parquet of the snapshot: it raises when there is none. *)
ReadSnapshot ==
  /\ feature.pc = "read"
  /\ snapshot # 0
  /\ feature' = [feature EXCEPT !.pc = "train", !.df = snapshot]
  /\ UNCHANGED <<executor, day, glue, snapshot, sound, splits, file, requests>>

(* to_parquet(mode="overwrite") of one split.  The task's retries count     *)
(* for the read and the three writes together.                              *)
MWriteSplit ==
  /\ feature.pc \in SplitNames
  /\ splits' = [splits EXCEPT ![feature.ds][feature.pc] = snapshot]
  /\ IF feature.pc = "test" THEN TaskDone
     ELSE feature' = [feature EXCEPT !.pc = After[@]]
  /\ UNCHANGED <<executor, day, glue, snapshot, sound, file, requests>>
WriteSplit ==
  /\ feature.pc \in SplitNames
  /\ splits' = [splits EXCEPT ![feature.ds][feature.pc] = feature.df]
  /\ IF feature.pc = "test" THEN TaskDone
     ELSE feature' = [feature EXCEPT !.pc = After[@]]
  /\ UNCHANGED <<executor, day, glue, snapshot, sound, file, requests>>

(* The checks of validate_data.py depend on the data alone, freshness apart. *)
Passes(data) == data \in sound

(* validate_data.py on the train split: it writes its result file, and then *)
(* exits 1 on a failure, which makes the task raise.                        *)
MValidate ==
  LET passed == Passes(snapshot)
  IN  /\ feature.pc = "validate"
      /\ file' = IF executor = "local" THEN passed ELSE file
      /\ IF passed THEN TaskDone ELSE FeatureFails
      /\ UNCHANGED <<executor, day, glue, snapshot, sound, splits, requests>>
Validate ==
  LET passed == Passes(splits[feature.ds]["train"])
  IN  /\ feature.pc = "validate"
      /\ file' = IF executor = "local" THEN passed ELSE file
      /\ IF passed THEN TaskDone ELSE FeatureFails
      /\ UNCHANGED <<executor, day, glue, snapshot, sound, splits, requests>>

(* check_validation_passed: a missing file reads as False, and False skips *)
(* the rest of the run.                                                    *)
Gate ==
  /\ feature.pc = "gate"
  /\ IF executor = "local" /\ file = TRUE
     THEN TaskDone
     ELSE feature' = NoFeature
  /\ UNCHANGED <<executor, day, glue, snapshot, sound, splits, file, requests>>

(* TriggerDagRunOperator: every attempt makes a run of its own, also one    *)
(* whose worker dies afterwards.                                            *)
Trigger ==
  /\ feature.pc = "trigger"
  /\ requests' = Append(requests, [date |-> feature.ds, by |-> "feature_pipeline",
                                   force |-> None])
  /\ \/ feature' = NoFeature
     \/ CallsFail /\ FeatureFails
  /\ UNCHANGED <<executor, day, glue, snapshot, sound, splits, file>>

-----------------------------------------------------------------------------
(* Glue.  A feature_engineering run that succeeds overwrites the snapshot;  *)
(* a raw_to_curated run that Glue's schedule started is followed by one.    *)
Succeeds(job) ==
  IF job = "feature_engineering"
  THEN /\ snapshot < LastSnapshot
       /\ snapshot' = snapshot + 1
       /\ glue' = [glue EXCEPT ![job] = "nobody"]
  ELSE /\ UNCHANGED snapshot
       /\ \/ glue' = [glue EXCEPT ![job] = "nobody"]
          \/ /\ glue[job] = "other" /\ glue["feature_engineering"] = "nobody"
             /\ glue' = [glue EXCEPT ![job] = "nobody", !["feature_engineering"] = "other"]

Fails(job) ==
  /\ CallsFail
  /\ glue' = [glue EXCEPT ![job] = "nobody"]
  /\ UNCHANGED snapshot

GlueEnds(job) ==
  /\ glue[job] # "nobody"
  /\ \E outcome \in Outcomes \ {"none"} :
       /\ IF outcome = "SUCCEEDED" THEN Succeeds(job) ELSE Fails(job)
       /\ feature' = IF glue[job] = "dag" /\ feature.pc # "idle"
                     THEN [feature EXCEPT !.outcome = outcome] ELSE feature
  /\ UNCHANGED <<executor, day, sound, splits, file, requests>>

(* The crawler is READY, however its crawl went, and the task's next poll   *)
(* finds it so; the task itself waits without a bound.                      *)
CrawlEnds ==
  /\ feature.pc = "crawling"
  /\ TaskDone
  /\ UNCHANGED <<executor, day, glue, snapshot, sound, splits, file, requests>>

(* Glue's schedule, 02:00 as the DAG's: refused while the job runs. *)
ScheduleGlue ==
  /\ feature.cron
  /\ feature' = [feature EXCEPT !.cron = FALSE]
  /\ glue' = [glue EXCEPT !["raw_to_curated"] = IF @ = "nobody" THEN "other" ELSE @]
  /\ UNCHANGED <<executor, day, snapshot, sound, splits, file, requests>>

-----------------------------------------------------------------------------
FeatureInit ==
  /\ executor \in Executors
  /\ day = 0
  /\ feature = NoFeature
  /\ glue = [j \in GlueJobs |-> "nobody"]
  /\ snapshot = 0
  /\ sound \in SUBSET Snapshots
  /\ splits = [d \in Dates |-> [s \in SplitNames |-> 0]]
  /\ file = None
  /\ requests = <<>>

FeatureStep ==
  \/ Wait \/ StartGlue \/ WaitGlue \/ StartCrawl \/ ReadSnapshot \/ WriteSplit
  \/ Validate \/ Gate \/ Trigger

FeatureNext ==
  \/ \E d \in Dates : StartFeature(d)
  \/ FeatureStep
  \/ FeatureError
  \/ \E job \in GlueJobs : GlueEnds(job)
  \/ CrawlEnds
  \/ ScheduleGlue

-----------------------------------------------------------------------------
(* Type correctness. *)
FeatureTypeOK ==
  /\ executor \in Executors
  /\ day \in 0..LastDate
  /\ feature \in [pc: FeatureSteps, ds: 0..LastDate, tries: 0..FeatureRetries,
                  outcome: Outcomes, df: 0..LastSnapshot, cron: BOOLEAN]
  /\ glue \in [GlueJobs -> Runners]
  /\ snapshot \in 0..LastSnapshot
  /\ sound \subseteq Snapshots
  /\ splits \in [Dates -> [SplitNames -> 0..LastSnapshot]]
  /\ file \in BOOLEAN \cup {None}

=============================================================================
