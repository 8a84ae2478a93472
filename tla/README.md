# TLA+ verification of the churn MLOps platform

TLA+ models of the platform's release, serving, ingestion and orchestration code,
TLC configurations that check them on small instances, and TLAPS proofs of the
properties that matter most for every instance. The repository has no tests for this
behaviour; the scripts, DAGs and Lambdas themselves are the reference, and every
definition names the lines it is translated from in `PROJECT.json` ("map").

## 1. The system

    event producer ─┐                                   SageMaker training jobs
    webhook Lambda ─┴> Kinesis ─> Firehose + transformer       │  MLflow registry
                                        │                      v        │
                       raw S3 (day partitions)          training DAG ───┤
                                        │                 evaluate, pick│
                       Glue raw_to_curated (02:00)         canary, promote
                                        │                      │        │
                       Iceberg curated events                  v        v
                                        │                ALB weights   inference pods <─> Redis
                       Glue feature_engineering                              │
                                        │                                    v
                       feature DAG: export, validate, gate ─> training   Data Capture, drift,
                                                                         retraining triggers

### Components

| Component | Code | State it keeps | Operations |
|---|---|---|---|
| Model release | `ml/deployment/*.py` | ALB weights, registry stages, deployment records, `latest.json`, incident records | canary window, revert, tag Staging, promote, roll back |
| Training DAG | `airflow/dags/training_pipeline.py`, `common/aws_utils.py` | task states, XCom, `/tmp/gate_*.json`, SageMaker job names | submit, poll, evaluate, pick winner, canary, promote, skip |
| Feature DAG | `airflow/dags/feature_pipeline.py` | task states, Glue run ids, splits in S3, `/tmp/validation_result.json` | sensor, two Glue jobs, crawler, export, validate, gate, trigger |
| Gates | `ml/evaluation/evaluate_model.py`, `ml/validation/validate_data.py` | gate file, validation file | check, write file, exit code |
| Model training | `ml/training/**` | job, MLflow runs and versions | submit, wait, fit, register |
| Prediction service | `inference/src/main.py`, `predictor.py` | the model in memory | start, single and batch prediction, readiness |
| Prediction cache | `inference/src/cache.py` | Redis keys with a TTL | get, set, invalidate by scan |
| Event producer | `kinesis/producer/*.py` | customer life cycle, counters | generate, publish with retries |
| Webhook receiver | `kinesis/lambda/webhook_receiver` | none | normalise, put |
| Firehose transformer | `kinesis/lambda/firehose_transformer` | none | parse, classify, convert |
| Raw to curated | `glue/scripts/raw_to_curated.py` | Iceberg table | read window, deduplicate, MERGE |
| Feature engineering | `glue/scripts/feature_engineering.py`, `data_loader.py` | feature table | windows, static features, label, overwrite |
| Drift and retraining | `ml/monitoring/drift_detector.py`, `retraining_lambda`, `model_monitoring.py` | metrics, DAG runs | analyse, trigger |
| Ground truth, baselines | `ground_truth_collector.py`, `baseline_capture.py` | ground truth files, baselines | label, join, capture |
| Data quality DAG | `airflow/dags/data_quality.py` | task states | four checks, aggregate |
| Alert delivery | `slack_lambda`, `findings_lambda`, `slack_notify.py` | none | format, post |
| API authorizer | `authorizer_lambda` | none | compare one header |
| Infrastructure | Terraform, Helm, Argo CD, workflows | declarative | (only its schedules and limits are used) |

### How they interact, and what is hard

* **The registry, the listener rule and the records are three stores written one after
  the other** by three scripts that know nothing of each other. Airflow runs the canary
  and the promotion and starts each again from its first line when it fails; an operator
  or an alarm may run `rollback.py` at any moment. Nothing locks.
* **Pods read the registry once**, at their start; what they hold in memory changes only
  by a restart. They share one Redis whose keys do not name the model version.
* **Delivery into the lake repeats**: `put_records` stores part of a batch, the SDK and
  Firehose repeat, the transformer returns the Parquet of a whole batch for each of its
  records, and the Glue job may be repeated after its MERGE committed.
* **The DAGs pass values through files in `/tmp`, XCom and S3 paths**, and their tasks
  are retried one by one; Glue and SageMaker jobs run on outside them.
* Nothing in the system is notified of a rollback: not the canary, not the DAG, not the
  pods.

What makes each part correct: a release puts only canary-tested versions in front of
customers and leaves the three stores in agreement; a Production version exists whenever
pods may restart; a prediction answers the row it was asked for, from a model that was
in service lately; an accepted event is counted once and not lost; a model is trained on
validated data and deployed on its own evaluation.

## 2. Modules

| Module | Models | Kind |
|---|---|---|
| `ModelLifecycle` | what the release scripts promise | abstract specification |
| `ModelRelease` | `canary_deploy.py`, `promote_model.py`, `rollback.py`, the registry, pod starts | detailed specification |
| `ModelRelease_proofs` | types, vetting, availability, the refinement | proofs |
| `ModelReleaseEnd_proofs` | what a release leaves behind when it is over | proofs |
| `PredictionService` | `main.py`, `predictor.py`, `cache.py`, Redis | specification |
| `PredictionService_proofs` | types, right answers, the end of withdrawn models | proofs |
| `EventDelivery` | what the ingestion promises of an event | abstract specification |
| `EventIngest` | `event_producer.py`, webhook receiver, transformer, Firehose, `raw_to_curated.py` | detailed specification |
| `EventIngest_proofs` | its safety properties and the refinement of `EventDelivery` | proofs |
| `ChurnFeatures` | customers and their events, `feature_engineering.py`, `data_loader.py` | specification |
| `ChurnFeatures_proofs` | its six properties of the feature table | proofs |
| `FeatureDag` | `feature_pipeline.py`, Glue and its schedule, `validate_data.py` | specification |
| `TrainingDag` | `training_pipeline.py`, SageMaker jobs, `evaluate_model.py`; extends `FeatureDag` | composition |
| `ValidatedTraining` | what the two pipelines promise of the data of a date | abstract specification |
| `TrainingDag_proofs` | the safety properties of the two pipelines, the refinement of `ValidatedTraining` | proofs |
| `DriftMonitor` | `drift_detector.py`, the retraining Lambda, `model_monitoring.py` | specification |
| `DriftMonitor_proofs` | types and the weekly summary | proofs |
| `DataQuality` | `data_quality.py` beside the stream and the bucket it watches | specification |
| `DataQuality_proofs` | its four properties | proofs |
| `MC*` | instances of the above for TLC (`DataQuality` needs none of its own) | model checking |

Operators whose name is another operator's with an `M` before it (`MBreach` beside
`Breach`) are mutated forms of it: a plausible bug, which breaks the property
`PROJECT.json` names for it. No specification uses them.

### ModelRelease

* `weights` is the listener rule, `stage` the registry, `deployed`/`latest`/`incidents`
  the objects in S3, `serving` what a pod has in memory (one variable: the properties
  need any version *some* pod has, and every pod start is allowed in every state).
* `release` is the running DAG tail: `pc` is the next AWS or MLflow call of
  `canary_deploy.py` or `promote_model.py`. Each call is a step; `ReleaseError` lets it
  raise or the worker die instead. `TaskFails` is Airflow: the script starts again from
  its first line until the retries are used up. A breach exits 1, so it is retried too.
* `rb[o]` is a `rollback.py` run by operator `o`; any number run at once. `main` wraps
  the registry part in a `try`, which is `RegistryError`; outside it an exception ends
  the script, which is `RollbackDies`.
* `ChoosePrevious` reads the records S3 returned; a record that cannot be read is
  skipped by the code, so any subset may be readable.
* A CloudWatch metric without datapoints reads 0.0, so a reading is only `ok`, `errors`
  or `slow`.
* Releases are one at a time (`max_active_runs=1`). The training run registers its
  versions in order and leaves them without a stage.
* `vetted`, `orphaned`, `calm` are history variables the code does not have.

`Lifecycle == INSTANCE ModelLifecycle WITH approved <- vetted, live <- Production` is the
refinement: a version goes live only when approved, promotion replaces, a rollback
withdraws one or reinstates an approved one.

### PredictionService

A row is one `(customer_id, features)` pair, because the cache key hashes both and
nothing else. One call of a batch reads its keys one `await` at a time (`Lookup`), scores
all misses between two awaits (`ScoreMisses`, evaluated in the step of the last lookup),
and stores one miss at a time (`Store`); other pods, expiry, invalidation, restarts and
Redis failures come between any two of them. `uncached_indices` is `Uncached`: the `j`-th
miss is the one with `j` misses up to and including its row (`Misses`), and `ResultAt`
finds its prediction by the same count, which the code does with an iterator. Redis errors
of any kind read as a miss or a logged failed write, as in `cache.py`. Scoring that raises
answers 422 or 500: a single prediction gets the first for a ValueError, a batch never.
`Restart` kills the calls of a pod and loads what the registry has at that moment, here
any version; that only vetted versions come is ModelRelease's business. `since` is history.
`readiness()` looks at the loaded model and at Redis and keeps no state; it is no action.

### EventIngest

A producer batch is published by `PutRecords` (one `put_records` call with any set of
accepted records) or `PutRaises` (it raises after any of them were stored), up to
`Attempts` times. The events of `Webhook` come through the receiver: `Receive` is a
request that is answered, with 200 or 207, after one put without retries;
`ReceiveRaises` is one whose put raises, which the caller answers by sending the request
again, with the same message id and so the same event id. A 207 is not repeated: the
records it names as failed are gone, but were never counted as published. `Skews` is how
far the clock of another system may be ahead. `Transform` is one invocation of the Lambda
and the write Firehose makes of its answer; `again` leaves the batch on the stream.
`TransformRaises` is an invocation that fails as a whole, after which Firehose puts all
its records under the error prefix. A row count of 2 stands for two or more. `StartRun`
reads the two day partitions and filters the 25-hour window; `Merge` commits;
`RunFails(TRUE)` is a failure in the maintenance after the commit. Time is a tick; the
window is a day and one tick. Of the two counts `publish_batch` returns, the failures
become the exit code of the producer (`event_producer.py:321-325`), the successes a log
line: neither comes back into the pipeline, and both are left out. A repeated request is
one of events that carry an id and a time; an event without them gets new ones at every
request (`handler.py:84-89`) and is a new event to everything behind. Rows count as
readable wherever they were written: several invocations' answers end in one object of
the bucket, one Parquet file after the other (`handler.py:218-225`,
`data_pipeline/terraform/main.tf:282-311`), of which a reader that goes by the last
footer sees the last only (section 5); `Write` therefore keeps one copy of the batch or
as many as it has records.

`Delivery == INSTANCE EventDelivery WITH status <- ..., accepted <- published` is the
refinement: to the sender an event is at its source, pending, set aside or curated,
however many copies of it are where; an event in the table stays there.

### ChurnFeatures

The producers generate events by the state of a profile (`NewCustomer`,
`ContinuousStream`, `ChurnScenario`); three of the four states differ only in rates and
are one here. `pending` is everything `EventIngest` is about: an event gets into
`curated` at any later time, or never. The job is `StartFeatures`, which takes `NOW`, and
`WriteSnapshot`, which reads and writes: it reads at some moment in between, and every
property refers to events that were in the table before `NOW`. A row keeps what the
properties need: the state, the recency and whether the shortest window is null; all
aggregates of a window are null together, since the windows are left-joined.
`LastStates` leaves open which state `F.last` finds, as Spark does. `Overwrite` is
Iceberg's dynamic overwrite: the partitions that got rows, no other, so that a run without
rows changes nothing. The row type in `Rows` has a state of `churned`; no reachable
state has such a row, which is finding 4. `LoadFeatures` is the query of
`load_features_from_athena`: the newest snapshot of a customer *among those in which it
had events in the last seven days*. A customer that has been silent for longer is
therefore loaded with an old row, in which it is still active. The comment at
`data_loader.py:94` says the latest; `LoadsTheActive` claims it only for the customers it
is true of.

### DataQuality

A tick is a quarter of an hour. `Put` and `WriteFile` are the pipeline that is watched;
either may stand still for any time. A run of the DAG has a result per check; `met` is
what a check came upon even if it then raised (`check_kinesis_health` emits its metrics
after it has its issues). A task that fails calls `on_dag_failure`, which is an `Alert`:
it names the task, shows its error and links its log. The error of a check that raised is
not its issue; that of `aggregate_and_alert` lists what it collected (`Aggregate`), unless
the metric before it raises: then the error is that call's and lists nothing, and only the
log still has a warning for each check (`AggregateRaises`). `NoIssueWithoutAlert` asks
that some alert of the run leads to every issue, be it to no more than the task that met
it, and that a summary, if there is one, lists them all; that there always is one, as
`data_quality.py:59` says, is not so (section 5). The
text is cut at 200 characters, and the callback swallows its own errors: both are left
out, as is an `xcom_pull` that raises before any warning is logged. Aggregation without an
issue whose metric raises fails too, which is an alert about nothing. Which issues `glue` and `athena` have is left open; with the names this
repository uses they always have one (section 5). A run that is due starts in its tick and
ends in the next: the tasks' timeouts are 5 and 10 minutes, and the scheduler is assumed
to be in time.

### FeatureDag and TrainingDag

`TrainingDag` extends `FeatureDag`: its `Next` runs both DAGs side by side, joined by
`requests` (the queue of DAG runs) and `splits` (the S3 paths both use).

* `feature.pc` is the running task of the feature DAG, in the order of `After`; the export
  is split into its read and its three overwrites (`ReadSnapshot`, `WriteSplit`).
  `FeatureFails` is a task that raises: it starts again from its first line, or, with its
  retries used up, fails the run. The crawl is a start, which the crawler refuses while it
  runs (its own schedule is at 02:00 too), and a poll without a bound: `StartCrawl`, and
  `CrawlEnds` of the environment.
* `glue` says who waits for the run of a Glue job that is going on. A start whose answer
  is lost (`StartGlue`, third disjunct) leaves a run nobody waits for, which refuses the
  retry. Glue's own schedule (`ScheduleGlue`) starts the same two jobs at the same hour.
* `sound` is the set of snapshots whose data `validate_data.py` accepts; it is chosen at
  the start, since the checks depend on the data alone.
* `executor` is chosen in `Init`. Airflow is deployed with KubernetesExecutor, where each
  task has a `/tmp` of its own; then the gate never finds its file (section 5). With a
  local executor, which the code also runs under, tasks share `/tmp`, and what they
  find there may be stale. The run `pipelines` takes the local one, since under the other
  no feature run ever gets as far as a training run.
* In `training`, the two branches (`branch`, `again`) go on side by side; the tasks after
  `Join` are one after the other. `jobs` is indexed by the job's name, which is made of
  model type and date. `Create` and the answer of the call are separate: a job may exist
  although its task failed.
* `StartJob` copies both channels of a job in one step. An export that overwrites a split
  between the two copies would need a second run of the same date, which finding 3 is
  about already.
* `Evaluate` is allowed to succeed, although in this repository the run id it is given is
  never set (section 5); the models show what the DAG makes of either outcome. A script
  that dies is not noticed, and the task reads the gate file that is there
  (`EvaluateDies`).
* `Deploy` and `Promote` are one step each: `ModelRelease` looks inside them.
* `Promise == INSTANCE ValidatedTraining` maps the data of a date to the splits once they
  are `Settled`, what a model type was trained on to the train split its job copied, if the
  feature pipeline asked for it, and what is chosen to the winner and the date while it is
  deployed.
* `Asked` are the sets of requests that the drift detector and people may make. What the feature pipeline asks
  for is only made by its own `Trigger`, so `TrainingAssumption` excludes requests in its
  name from `Asked`.

### DriftMonitor

`executions` are the executions of SageMaker's two monitoring schedules, with the numbers
of violations each found; `events` are their ends on EventBridge, which may deliver one
again while calls fail. `at[p]` is a run of `analyse_schedule`: one per execution for the
Lambda, and one for the script of the weekly DAG, which goes through both schedules.
`Look` is the list, the describe and the read of the report together: the report of an
execution that is over does not change. What raises inside a `try` reads as no report
(`Look`) or as not triggered (`Triggered`); what raises outside ends the analysis
(`AnalysisRaises`). `weekly.pc` is the task of the DAG; a task that failed for good leads
to the summary, whose trigger rule is `all_done`. `DriftScore` is in thousandths: four
shifted distributions reach the threshold of 0.3, in the code's floating point too.
`weekly.file` is the script's result file: under KubernetesExecutor an attempt finds only
what its own script wrote. The name of the secret (section 5) is taken as right, else
nothing is ever asked for. `callsFail` is chosen in `Init`, so that one run has the
failures and the liveness that needs their absence; `asked` is history.

## 3. Runs

| Run | Instance | What it shows |
|---|---|---|
| `release` | 2 versions, 1 operator, 1 retry, 2 checks | all safety properties of a release, `ImplementsLifecycle`, and `ScriptsEnd` under fairness |
| `service` | 2 pods, 2 calls at once, 2 rows (one incomplete), single requests of either and a batch of both, 2 versions, TTL 2 | right answers, no withdrawn model beyond its TTL |
| `ingest` | an event of the producer and one of a webhook caller, of any kind, 2 attempts, days of 2 ticks, job runs at ticks 1 and 3 | nothing lost, nothing twice, no gap between runs, `ImplementsDelivery` |
| `churn` | 2 customers, 2 events, days of 2 ticks, a "week" of 1 day, a "quarter" of 2, 3 dates | snapshots are whole, only advance, keep the silent, agree on recency; the active are loaded from the newest |
| `pipelines` | 2 dates, 2 snapshots, local executor, 1 and 0 retries | training on validated data, comparison on the same splits, deployment of the run's own work |
| `pipelines_end` | 1 date, KubernetesExecutor, 1 and 1 retries, a training run asked for by hand or one without a date | `RunsEnd` under fairness, `DeploysOwnWork` |
| `drift` | 2 executions, reports just below and at the threshold, 1 week, 1 retry | drift is acted on, the weekly summary comes and is right when it claims a retraining |
| `quality` | hours of 2 ticks, freshness of 2 hours, 10 ticks | an alert leads to every issue, an outage is told of in time |
| `canary_radius` | violation | finding 1 |
| `rolled_back_promoted` | violation | finding 2 |
| `same_splits` | violation | finding 3 |
| `churned_labelled` | violation | finding 4 |

**Why the bounds are enough.** A release needs a version to replace and a version that
replaces it; a rollback needs a failed and a previous one: two versions reach every
branch of the three scripts (the coverage of `release` is complete). One operator
suffices for its liveness; what several do to each other's safety is not left to the run:
its safety properties and the refinement are theorems for every set of operators. Two
checks leave a window in the middle, pass it or breach it.
In `service` the other
call, on the same pod or on the other, stores what this one has just missed, or what it
has found and sees expire; an entry is made by one version and read by another, with
restarts in between. With two rows a batch has every mix of hits and misses, and `Requests`
has one batch of both and a single request of either: batches of the two in the other
order, or of one row twice, differ in nothing a batch treats otherwise, as it takes the
incomplete row like the other. Pods, calls and versions are interchangeable, hence the
symmetry. In `ingest`
the two events share a transformer batch or not, arrive together or on two days, and two
job runs overlap by the extra tick; events begin in the first two ticks, so the runs that
follow see them on both sides of the edge of their window; a third attempt of
`put_records` adds nothing a second does not have, since an attempt depends only on what the one before left. One of them is
delivered again by Firehose and one repeated by its sender, and the theorems hold for any
of them. In `churn`, two customers make a snapshot of one, of the other or of both, two
events make a customer silent or active beside another, and the third date is one with a
snapshot before and after it; the windows keep the order of the real ones. In `quality`,
ten ticks hold an outage as long as the freshness allows, at every phase of the hour.
In `pipelines` a second
date brings a second feature run while the training run of the first still waits, and a
second snapshot that overwrites the first; Glue fails, loses answers or is late in either.
The training tasks have no retries there, since `pipelines_end` gives them theirs and a
request that is repeated brings two runs with the same job names anyway. In `drift`, two
executions are two of one schedule, where the second overtakes the event of the first,
or one of each.

**Bounds in the specifications.** `EventIngest`: `LastTick`, `LastBirth`; rows are counted to 2; only
`Redelivered` are delivered twice, and a request is repeated once. `ChurnFeatures`:
`LastTick`, `MaxEvents`. `DataQuality`: `LastTick`. `PredictionService`: `since` stops at
TTL + 1, and `Requests` are the bodies that come. `ModelRelease` has none: its state is finite because the versions are. `FeatureDag`: `LastDate` and
`LastSnapshot`; a Glue run that would overwrite the last snapshot can only fail.
`DriftMonitor`: `LastExecution`, over both schedules, and `LastWeek`.

**Deadlock** is checked in `service`, where the pods serve forever. In the release runs
the last version may be released and every script over; in the others dates, executions
or time end at their bounds: there the system really may stop.

**Fairness.** `release` uses weak fairness of `ReleaseStep` and of each
`RollbackStep(o)`. A started script is a process that makes its next call or dies, which
is itself a step; Airflow restarts or fails the task. Nothing is assumed of operators,
of pods, of new releases, or of which outcome a call has.

`pipelines_end` assumes that a task that can go on does. No error is
under fairness: a run ends because its tasks get on or their retries are used up by what
refuses them, never because a call happens to raise. What each wait ends by:

* the sensor by its own timeout of an hour (`feature_pipeline.py:114`), which Airflow does
  not retry: the run fails;
* the polls of a Glue job by the end of the Glue run, whose `Timeout` is 90 minutes
  (`GlueEnds`), and by an `execution_timeout` of two hours; export and data validation by
  theirs, of 30 and 20 minutes;
* the polls of a SageMaker job by its `MaxRuntimeInSeconds` and `MaxWaitTimeInSeconds`
  (`JobStep`) and an `execution_timeout` of three hours; evaluation and canary by theirs,
  of 30 minutes and an hour;
* the promotion by nothing of Airflow's (`training_pipeline.py:417` has no timeout), but
  the script has no loop that waits, and its calls have the limits of their clients;
* **the crawl by nothing in this code.** `trigger_glue_crawler` loops until the crawler is
  READY (`aws_utils.py:89-98`) and its task has no timeout (`feature_pipeline.py:173-177`).
  `WF_vars(CrawlEnds)` is an assumption about Glue; without it a feature run stays where it
  is, and `max_active_runs=1` keeps all later ones from starting;
* a queued training run by the end of the one before it (`StartTraining`).

Nothing is assumed of `StartFeature`, `AskFor`, Glue's schedule, or of any particular
outcome. `drift` uses weak fairness of event delivery as a whole (EventBridge
retries), of the Lambda's invocations as a whole (a timeout of 120 s), of the script and
of the weekly tasks; not of SageMaker's executions or of the start of a week.

## 4. What is proved

Every theorem holds for every value of the constants that their assumptions allow.

| Module | Theorem | States |
|---|---|---|
| `ModelRelease_proofs` | `TypeCorrect` | `Spec => []TypeOK` |
| | `OnlyVettedGoLive` | `Spec => []OnlyVettedLive` |
| | `ProductionStaysAvailable` | `Spec => []ProductionAvailable` |
| | `ReleaseImplementsLifecycle` | `Spec => ImplementsLifecycle` |
| `ModelReleaseEnd_proofs` | `CanaryIsNotForgotten` | `Spec => []NoForgottenCanary` |
| | `PromotionIsComplete` | `Spec => []PromotionComplete` |
| `EventIngest_proofs` | `IngestTypes` | `Spec => []TypeOK` |
| | `PublishedIsNotLost` | `Spec => []PublishedIsKept` |
| | `NothingTwice` | `Spec => []CuratedOnce` |
| | `LateIsCaught` | `Spec => []LateArrivalsCaught` |
| | `IngestDelivers` | `Spec => ImplementsDelivery` |
| `ChurnFeatures_proofs` | `WholeSnapshots` | `Spec => []SnapshotIsWhole` |
| | `SilentAreKept` | `Spec => []SilenceIsKept` |
| | `SnapshotsOnlyAdvance` | `Spec => SnapshotsAdvance` |
| | `FeatureTypes` | `Spec => []TypeOK` |
| | `RecenciesAgree` | `Spec => []RecencyAgrees` |
| | `ActiveAreLoaded` | `Spec => []LoadsTheActive` |
| `PredictionService_proofs` | `ServiceTypes` | `Spec => []TypeOK` |
| | `EachRowIsAnswered` | `Spec => []AnswersTheRow` |
| | `WithdrawnModelsExpire` | `Spec => []WithdrawnModelExpires` |
| `TrainingDag_proofs` | `TrainingTypes` | `Spec => []TypeOK` |
| | `OwnWorkIsDeployed` | `Spec => []DeploysOwnWork` |
| | `ValidatedDataIsTrainedOn` | `~Manual` gives `Spec => []TrainsOnValidated` |
| | `SameSplitsAreCompared` | `~Manual` gives `Spec => []ComparesSameSplits` |
| | `PipelinesImplementTraining` | `~Manual` gives `Spec => ImplementsTraining` |
| `DriftMonitor_proofs` | `DriftTypes` | `Spec => []TypeOK` |
| | `SummariesAreTrue` | `Spec => []SummaryIsTrue` |
| `DataQuality_proofs` | `QualityTypes` | `Spec => []TypeOK` |
| | `IssuesReachAnAlert` | `Spec => []NoIssueWithoutAlert` |
| | `StaleBucketIsTold` | `Spec => []StaleBucketSaid` |
| | `SilentStreamIsTold` | `Spec => []SilentStreamSaid` |

**Release**, for every set of versions (`Versions \subseteq Nat`, `None` not one of them),
every set of operators, every number of retries and every window of at least one check:

* `TypeInv` adds to `TypeOK` that a running script knows its version: `TypeOK` alone
  allows a release at `traffic` without one.
* `VettedInv` strengthens `OnlyVettedLive` by what is still in the scripts' hands: a canary
  that is about to tag has seen no breach (`CanaryClean`), a promotion works on a vetted
  version (`PromotesVetted`, which retries must not lose), and a rollback that has
  picked its target holds a vetted one (`RestoresVetted`). The records are in
  `OnlyVettedLive` because rollbacks pick from them.
* `RecordInv` relates records and stages: a recorded version is Production or archived,
  never a candidate again; the version under release has no record before its
  promotion; what a rollback restores is recorded.
* `AvailableInv` is `ProductionAvailable` with the case a promotion of a version is about
  to be recorded: between `PromoteStage` and `WriteRecord` it is already Production.
* The refinement uses `VettedInv` for the guards of `Replace` and `Reinstate`, and
  `RecordInv` to show that tagging a version `Staging` never takes it out of Production.

* `CanaryInv` adds to `NoForgottenCanary` that 10 % is no longer the canary's share once a
  promotion has moved the traffic (`CanaryPassed`). `CompleteInv` follows the promotion:
  while no rollback has run since it began (`calm`), each step leaves behind what it did
  (`CalmSteps`), which a retry of the task only repeats.

**Ingestion**, for every finite set of events and any of them redelivered, every length of
the day and hour of the Glue job (`StartHour >= 1`: the window reaches back over the start
of the day by one tick, so the run must not be in the first), every number of attempts:

* `DeliveryInv` is `TypeOK`, `PublishedIsKept` and `CarriesOnce`: a run of the Glue job
  carries an event at most once and only one that is in the lake. `CuratedOnce` follows,
  and every step maps to one of `EventDelivery` or to a stutter.
* `LateInv` relates the clock, the running job and `done`: as long as no run was missed,
  `done` is at or after every start tick that is past, and what arrived before the newest
  run began is in that run's source, in the one before, or in the table.

**Features**, for any customers, windows and days: `TableInv` is `SnapshotIsWhole` and
`SilenceIsKept` with `Ages` (no row is younger than the clock, nor than the `NOW` of the
run that is about to replace it). `WriteFacts` says what one write puts into the table.
`RowsInv` says of each row what its window and its recency tell of each other
(`RowFacts`, `WindowsTell`). The recency is the age of the newest event of a customer, a
`CHOOSE` of a maximum: that a finite set of ticks has one is shown without an induction
over the set, from the well-foundedness of `<` on the numbers (`LeastNumber`): among the
bounds of the set there is a least. `ActiveAreLoaded` follows from `RowsInv`: whoever was
active has its window in the newest snapshot, and no later one ranks before it.

**Serving**, for any pods, calls, rows, versions, batch size and time to live: `ServiceInv`
describes a call in each of its phases (`Looking`, `Storing`, `Replying`): what it has
found so far belongs to its rows, what it has scored belongs to its misses in their order
(`Scored`), and the pod it runs on still has the version it scored with, because a restart
kills the call. `MissesCount`, `MissesGrow` and `MissesReached` are about the operators
alone: the misses are numbered one by one, without gaps, so `Uncached` lists each once and
`Results` puts each prediction where its row missed. `WithdrawnModelExpires` needs the
calls in its invariant: a call may store the prediction of a model that no other pod has
any more, but then its own pod still serves it and the clock `since` of that version has
not begun to run.

**The two pipelines**, for any number of dates, snapshots, retries and requests from
outside: `RunInv` is the types in full, with `BranchInv` (a branch past its submission has
a job of this very run under the name that all runs of the date share; past the join both
jobs are completed), `VerdictInv` (without a shared `/tmp` no verdict of an earlier run
ever passes) and `ExportInv` (how far the export of the date has got, and that the gate is
passed by a sound snapshot only). `DeploysOwnWork` follows, with runs by hand or without.
`SplitInv` needs that nobody triggers the feature pipeline by hand; with runs by hand both
of its properties are false (finding 3). It says that the splits of a date are *settled*
from the moment a training run is asked for with it: of one sound snapshot, and written
by nothing any more, since later runs have later dates and the run of this one is past
its export (`SettledStays`). That holds wherever the request has got to: the queue, the
running DAG run, or a job (`SettledInv`). `ReadInv` adds that what such a job copied and
such a run tested on is what is still there. `FeatureStepMoves` reduces the fourteen actions
of the feature pipeline to four ways to move, from which the rest is argued. The refinement
takes its guards from the same invariants: a date is published by the one step that makes
it settled, and only the date of the running feature run can become so (`OneIsSettled`); a
job that starts has read nothing before and finds a settled date; at the pick both jobs
are completed, so both have read what was published. This theorem has no run: the
mapping is costly to evaluate, and TLC needs more than five minutes for it on the instance
of `pipelines`, where it found no step that breaks it; the two invariants of that run
say of single states what the theorem says of behaviours.

**Drift**, for any reports, executions, weeks and retries: `SummaryInv` follows the note
that a training run was asked for, from the analysis to the result file, XCom and the
summary (`NotesAreTrue`): at each place it is only there in a week in which one was.

**Data quality**, for every hour of at least two ticks and every freshness: of a run that is
on, a check that raised has its alert and one that came upon an issue has raised or left
it as its result, so that the aggregation's alert, with its summary or without, leads to
what is left. `OnTime` keeps
the newest run within an hour of now and at a multiple of it, and `Heard` says of every
run that is over that it spoke of the bucket or saw a fresh file, and of the stream or saw
an event. The two outage properties are arithmetic from there.

Each invariant is proved by one lemma for the initial state, lemmas for steps that need
one, and one for `Next` with a step per action; the theorem joins them with PTL.

**Only model-checked**: the liveness properties `ScriptsEnd`, `RunsEnd`, `DriftIsActedOn`
and `EveryWeekIsSummarised`, since liveness under fairness and `ENABLED` are beyond TLAPS
here. Every invariant, action property and refinement of a passing run is a theorem. An
induction over data is beyond it as well, since the library's induction theorems take an
operator; where a proof needed one (the maximum in `ChurnFeatures`, the numbering of the
misses in `PredictionService`) it is replaced by an argument with a least element or with
cardinalities. No module declares a RECURSIVE operator, so that every one can get proofs.

## 5. Findings

1. `canary_deploy.py` sends 90/10 to the groups its flags call stable and canary, and
   promotion leaves 0/100 on the same two. The next canary moves 90 % of the
   traffic away from the group that has it all (`BlastRadius`).
2. A rollback during a release stops neither its canary nor its promotion, and neither
   looks at the stage or at incident records again: a version that was archived, by a
   rollback that is over and has recorded its incident, is moved to Production by the
   promotion that was under way (`RolledBackNotPromoted`).
3. The splits are named by the date alone. A feature run started by hand and the scheduled
   run after it have the same date: the second overwrites the splits under the training
   run of the first, whose two models then differ in their data (`ComparesSameSplits`,
   which holds without runs by hand).
4. The label is taken from the `customer_state` of a customer's events, and no event ever
   carries `churned`: the producer generates none for a churned profile, and webhook
   events have no state. `is_churned` is 0 in every row (`ChurnedLabelled`).
   `validate_data.py` would then stop the feature DAG at its target distribution.

### Met on the way

These have no run of their own.

* The validation gate reads a file of another task's `/tmp` (`feature_pipeline.py:346`).
  Under the KubernetesExecutor of `airflow/helm/values.yaml:22` the file is not there, and a
  feature run that passed its validation never asks for training.
* The drift detector's request names no date (`drift_detector.py:201-209`), and the DAG's
  default is the text `{{ ds }}`, unrendered (`training_pipeline.py:87`): the job name made
  of it is refused, and the training run fails at submission, although
  `drift_detector.py:183` says the DAG does all that is needed.
* The webhook receiver gives an event without a message id a fresh one, so a repeated
  request brings such an event twice; what a 207 names as failed is not sent again by
  anyone.
* With a single churned row the stratified split of `data_loader.py:249` raises.
* `publish_batch` leaves its loop with `remaining` still holding the records its last,
  fully successful call stored, and counts them as failures too
  (`event_producer.py:92-110`).
* `rollback.py:117` restores the newest recorded version other than the failed one even
  if that version was itself rolled back; `emergency_rollback.md:176` says an archived
  version is not deployed again.
* `readiness()` answers 503 when Redis does not answer (`main.py:308`), although
  predictions work without it (`cache.py:17`).
* The weekly summary may say that no training was asked for when it was: a script that
  raises after its request leaves no file, its return code is not looked at, and a request
  that Airflow accepted without answering in time counts as failed. Only the other
  direction holds (`SummaryIsTrue`).
* A canary whose monitoring raises leaves the 90/10 split behind (`canary_deploy.py:242`)
  when the retries are used up as well: `NoForgottenCanary` is about releases that ended by
  success or by a breach.
* A rollback whose registry part raises between archiving and restoring leaves no
  Production version until somebody acts (`rollback.py:180-185`); `ProductionAvailable`
  exempts it by `orphaned`.
* `aggregate_and_alert` emits a metric between collecting the issues and raising the error
  that lists them (`data_quality.py:332-334`). When that call raises, the alert shows its
  error (`slack_notify.py:66`, `80`) and the "single summary alert" of `data_quality.py:59`
  is never made; the issues are in the task's log only (`AggregateRaises`). A check that
  raises in its metrics (140-141) has lost the issues it had found for good.
* An execution that was overtaken before the Lambda looked is analysed by nobody
  (`index.py:88`): its drift counts only if the next execution shows it too.
* The training task emits a metric after the promotion script succeeded
  (`training_pipeline.py:415`); if that raises, the whole promotion is run again, which
  `WriteLatest` has as an outcome of its last call.
* One execution's drift may be asked for by the Lambda, by each redelivery of its event
  and by the weekly DAG: nothing remembers what was asked.

* The data quality DAG asks for a crawler `...-raw-crawler` (`constants.py:23`) and a table
  `customer_events` (`data_quality.py:274`); Terraform makes `...-raw-events-crawler` and the
  Glue job fills `events`. Both checks turn the error into an issue, so every hourly run
  ends in an alert. The table is filled once a day, so its two-hour window would be empty
  most of the time as well.

### Gaps between the parts, found by reading

These keep parts of the platform from running together at all; they are no behaviour a
model would tell apart, so the models take the part that follows as it was meant to be
entered.

* `aws_utils.py:44` passes `MaxCapacity=None` to Glue, which botocore refuses.
* The export reads `features/raw/{ds}/` (`feature_pipeline.py:234`), which
  `feature_engineering.py` never writes.
* `training_pipeline.py:87`: the default `"{{ ds }}"` of a DAG param is not rendered.
* `MLFLOW_RUN_ID` is not in a job's environment, so the evaluation gets `placeholder`
  (`training_pipeline.py:254-270`); promotion is called with version `1` (402), the canary
  with the winner's name (355).
* `AIRFLOW_API_SECRET` (`model_monitoring.py:154`) and `AIRFLOW_API_SECRET_NAME`
  (`drift_detector.py:53`) are different variables; `model_monitoring.py` asks MLflow for
  `churn-prediction`, the training scripts register `churn-prediction-xgboost` and
  `-pytorch`.
* `predictor.py:107-125` expects `feature_columns`, a `pytorch` model type and a fitted
  transformer; the training scripts save `numeric_features`, `pytorch_mlp` and a dict.
* The archive of the retraining Lambda holds `index.py` alone
  (`terraform/modules/model_monitor/main.tf:272-276`), so that its import of
  `drift_detector` (`index.py:76`) fails as packaged; `DriftMonitor` takes the module as
  there. A second delivery of an event while its first is being analysed is left out too.
* The objects Firehose writes hold one Parquet file per record of an invocation, and of
  several invocations, one after the other (`handler.py:218-225`,
  `data_pipeline/terraform/main.tf:282-311`): a reader that goes by the last footer sees
  the last. `EventIngest` counts a batch as readable.
* `raw_to_curated.py:96-105` raises when nothing at all arrived on one of its two days.
* `.github/workflows/ml-pipeline.yml` passes arguments the scripts do not have.
* `evaluate_model.py:215` raises KeyError when no test row is positive.
* The canary pods load the Production version, so they never serve the candidate.

## 6. Plan

Done: every specification of section 2, with a proof of each safety property its runs
check. Next, in this order:

1. **Proofs.** An abstract specification of the prediction service (a row is answered by a
   version that was in service lately) and of the weekly monitoring, with the refinements.
2. **Training loop.** The early stopping of `pytorch/train.py`, whose best checkpoint does
   not exist when no epoch has an AUC above 0.

### Not modelled

The numerical work of training and scoring, Spark and SQL text, the joins of
`ground_truth_collector.py` and `baseline_capture.py` (data work without a protocol), the
stand-alone `submit_training_job.py` (the DAG has its own submission), alert wording and
posting (nothing reads what they do), the authorizer (a stateless comparison), and the
declarative infrastructure, of which only schedules, triggers and limits are used.
