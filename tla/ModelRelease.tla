---------------------------- MODULE ModelRelease ----------------------------
(***************************************************************************)
(* The release of a churn model: canary_deploy.py, promote_model.py and    *)
(* rollback.py, run against the ALB listener rule, the MLflow registry and *)
(* the deployment and incident records in S3, while the inference pods     *)
(* (re)start and load whatever the registry calls Production.              *)
(*                                                                         *)
(* One release at a time runs the canary and then the promotion, as two    *)
(* Airflow tasks that are retried from their first line when they fail     *)
(* (training_pipeline.py, retries=1, max_active_runs=1).  Any number of    *)
(* operators may run rollback.py at any moment.  Every AWS or MLflow call  *)
(* is a step of its own and may raise.                                     *)
(***************************************************************************)
EXTENDS Naturals

CONSTANTS
  Versions,    \* version numbers MLflow hands out, in increasing order
  None,        \* no version
  Operators,   \* people and alarms that run rollback.py
  Retries,     \* Airflow retries of a task (1 in DEFAULT_ARGS)
  MaxChecks    \* checks in a canary window (15: 30 minutes, every 2)

ASSUME ConstantsAssumption ==
  /\ Versions \subseteq Nat
  /\ None \notin Versions
  /\ Retries \in Nat
  /\ MaxChecks \in Nat \ {0}

VARIABLES
  weights,    \* target group -> weight in the ALB listener rule
  stage,      \* version -> its MLflow stage
  deployed,   \* version -> deployed_at of its newest deployment record, 0: none
  latest,     \* version named by latest.json
  incidents,  \* versions with a rollback incident record
  clock,      \* deployed_at of the newest record
  serving,    \* version some inference pod has in memory
  release,    \* the running release
  rb,         \* operator -> the rollback it runs
  vetted,     \* history: versions whose canary window showed no breach
  orphaned,   \* history: a rollback archived a version and put nothing back
  calm        \* history: no rollback ran since this release's promotion began

vars == <<weights, stage, deployed, latest, incidents, clock, serving,
          release, rb, vetted, orphaned, calm>>

bucket  == <<deployed, latest, incidents, clock>>
history == <<vetted, orphaned, calm>>

TargetGroups == {"stable", "canary"}
Stages       == {"Absent", "None", "Staging", "Production", "Archived"}

(* What one check reads from CloudWatch for the canary variant: a metric     *)
(* without datapoints reads 0.0, so a canary nobody calls reads "ok".        *)
Readings == {"ok", "errors", "slow"}

CanarySteps  == {"route", "monitor", "revert", "tag"}
PromoteSteps == {"traffic", "production", "record", "latest"}
Exits        == {"none", "ok", "breach", "error"}

RegistrySteps == {"archive", "choose", "restore"}
RollbackSteps == {"idle", "traffic", "incident"} \cup RegistrySteps

Idle == [pc |-> "idle", failed |-> None, prev |-> None]

Production == {v \in Versions : stage[v] = "Production"}
Recorded   == {v \in Versions : deployed[v] > 0}

-----------------------------------------------------------------------------
(* The external services, as the scripts use them. *)

(* elbv2.modify_rule: both weights of the rule, at once. *)
Split(stable, canary) ==
  [t \in TargetGroups |-> IF t = "stable" THEN stable ELSE canary]

(* transition_model_version_stage. *)
Transition(v, to, archiveExisting) ==
  [w \in Versions |->
     IF w = v THEN to
     ELSE IF archiveExisting /\ stage[w] = to THEN "Archived"
     ELSE stage[w]]

(* register_model_to_mlflow: the next free number, with no stage. *)
Register(v) ==
  /\ stage[v] = "Absent"
  /\ \A w \in Versions : w < v => stage[w] # "Absent"
  /\ stage' = [stage EXCEPT ![v] = "None"]
  /\ UNCHANGED <<weights, bucket, serving, release, rb, history>>

(* load_model at pod start: the highest-numbered Production version, or no *)
(* start at all.                                                           *)
PodStart ==
  /\ \/ /\ Production = {}
        /\ serving' = None
     \/ \E v \in Production :
          /\ \A w \in Production : w <= v
          /\ serving' = v
  /\ UNCHANGED <<weights, stage, bucket, release, rb, history>>

-----------------------------------------------------------------------------
(* The release: Airflow runs canary_deploy.py, then promote_model.py. *)

(* A version that has not been released yet: what a training run leaves. *)
Candidates == {v \in Versions : stage[v] \in {"None", "Staging"}}

StartRelease(v) ==
  /\ release.pc = "idle"
  /\ v \in Candidates
  /\ release' = [pc |-> "route", v |-> v, tries |-> 0, checks |-> 0,
                 seen |-> {}, exit |-> "none"]
  /\ calm' = FALSE
  /\ UNCHANGED <<weights, stage, bucket, serving, rb, vetted, orphaned>>

(* The task fails: Airflow starts its script again from the top, or gives up. *)
FirstStep == IF release.pc \in CanarySteps THEN "route" ELSE "traffic"

MTaskFails(why) ==
  [release EXCEPT !.pc = FirstStep, !.checks = 0, !.seen = {}]
MTaskFailsLate(why) ==
  IF release.tries <= Retries
  THEN [release EXCEPT !.pc = FirstStep, !.checks = 0, !.seen = {}, !.tries = @ + 1]
  ELSE [release EXCEPT !.pc = "idle", !.checks = 0, !.seen = {}, !.tries = 0, !.exit = why]
TaskFails(why) ==
  IF release.tries < Retries
  THEN [release EXCEPT !.pc = FirstStep, !.checks = 0, !.seen = {}, !.tries = @ + 1]
  ELSE [release EXCEPT !.pc = "idle", !.checks = 0, !.seen = {}, !.tries = 0, !.exit = why]

RouteCanary ==
  /\ release.pc = "route"
  /\ weights' = Split(90, 10)
  /\ release' = [release EXCEPT !.pc = "monitor"]
  /\ UNCHANGED <<stage, bucket, serving, rb, history>>

(* The error rate or the P99 latency is beyond its threshold. *)
MBreach(reading) == reading = "errors"
Breach(reading) == reading \in {"errors", "slow"}

CheckCanary(reading) ==
  /\ release.pc = "monitor"
  /\ release' =
       IF Breach(reading)
       THEN [release EXCEPT !.pc = "revert", !.checks = 0, !.seen = {}]
       ELSE [release EXCEPT
               !.checks = @ + 1,
               !.seen   = @ \cup {reading},
               !.pc     = IF release.checks + 1 < MaxChecks THEN "monitor" ELSE "tag"]
  /\ UNCHANGED <<weights, stage, bucket, serving, rb, history>>

(* rollback() of canary_deploy.py, then exit 1, which fails the task. *)
MRevertCanary ==
  /\ release.pc = "revert"
  /\ release' = TaskFails("breach")
  /\ UNCHANGED <<weights, stage, bucket, serving, rb, history>>
RevertCanary ==
  /\ release.pc = "revert"
  /\ weights' = Split(100, 0)
  /\ release' = TaskFails("breach")
  /\ UNCHANGED <<stage, bucket, serving, rb, history>>

(* tag_mlflow_model_staging, exit 0; the promotion task follows. *)
TagStaging ==
  /\ release.pc = "tag"
  /\ stage' = Transition(release.v, "Staging", FALSE)
  /\ release' = [release EXCEPT !.pc = "traffic", !.checks = 0, !.seen = {}, !.tries = 0]
  /\ vetted' = IF release.seen \subseteq {"ok"}
               THEN vetted \cup {release.v} ELSE vetted
  /\ calm' = (\A o \in Operators : rb[o].pc = "idle")
  /\ UNCHANGED <<weights, bucket, serving, rb, orphaned>>

PromoteTraffic ==
  /\ release.pc = "traffic"
  /\ weights' = Split(0, 100)
  /\ release' = [release EXCEPT !.pc = "production"]
  /\ UNCHANGED <<stage, bucket, serving, rb, history>>

MPromoteStage ==
  /\ release.pc = "production"
  /\ stage' = Transition(release.v, "Production", FALSE)
  /\ release' = [release EXCEPT !.pc = "record"]
  /\ orphaned' = FALSE
  /\ UNCHANGED <<weights, bucket, serving, rb, vetted, calm>>
PromoteStage ==
  /\ release.pc = "production"
  /\ stage' = Transition(release.v, "Production", TRUE)
  /\ release' = [release EXCEPT !.pc = "record"]
  /\ orphaned' = FALSE
  /\ UNCHANGED <<weights, bucket, serving, rb, vetted, calm>>

(* write_deployment_record, first put: the dated record.  Only the order of *)
(* deployed_at counts: a retry that writes the newest record again keeps it *)
(* the newest.                                                              *)
WriteRecord ==
  /\ release.pc = "record"
  /\ clock' = IF release.v \in Recorded THEN clock ELSE clock + 1
  /\ deployed' = [deployed EXCEPT ![release.v] = clock']
  /\ release' = [release EXCEPT !.pc = "latest"]
  /\ UNCHANGED <<weights, stage, latest, incidents, serving, rb, history>>

(* Second put: the pointer.  The script exits 0 and run_promote emits its *)
(* metric: if that raises, the promotion is repeated as a whole.          *)
WriteLatest ==
  /\ release.pc = "latest"
  /\ latest' = release.v
  /\ \/ release' = [release EXCEPT !.pc = "idle", !.tries = 0, !.exit = "ok"]
     \/ release' = TaskFails("error")
  /\ UNCHANGED <<weights, stage, deployed, incidents, clock, serving, rb, history>>

(* The call of the current step raises, or the worker dies: what earlier *)
(* steps did stays done.                                                 *)
ReleaseError ==
  /\ release.pc # "idle"
  /\ release' = TaskFails("error")
  /\ UNCHANGED <<weights, stage, bucket, serving, rb, history>>

-----------------------------------------------------------------------------
(* rollback.py, run by operator o. *)

(* The next step of the script, and the version it has picked to restore. *)
Goto(o, pc, prev) ==
  rb' = [rb EXCEPT ![o] = [pc |-> pc, failed |-> rb[o].failed, prev |-> prev]]

StartRollback(o, failed) ==
  /\ rb[o].pc = "idle"
  /\ stage[failed] # "Absent"
  /\ rb' = [rb EXCEPT ![o] = [pc |-> "traffic", failed |-> failed, prev |-> None]]
  /\ calm' = FALSE
  /\ UNCHANGED <<weights, stage, bucket, serving, release, vetted, orphaned>>

RestoreTraffic(o) ==
  /\ rb[o].pc = "traffic"
  /\ weights' = Split(100, 0)
  /\ Goto(o, "archive", None)
  /\ UNCHANGED <<stage, bucket, serving, release, history>>

ArchiveFailed(o) ==
  /\ rb[o].pc = "archive"
  /\ stage' = Transition(rb[o].failed, "Archived", FALSE)
  /\ Goto(o, "choose", None)
  /\ UNCHANGED <<weights, bucket, serving, release, history>>

(* The newest record of another version among those S3 could read. *)
MChoosePrevious(o) ==
  /\ rb[o].pc = "choose"
  /\ \E p \in Versions \ {rb[o].failed} :
       /\ stage[p] # "Absent"
       /\ Goto(o, "restore", p)
  /\ UNCHANGED <<weights, stage, bucket, serving, release, history>>
ChoosePrevious(o) ==
  /\ rb[o].pc = "choose"
  /\ \E readable \in SUBSET Recorded : \E p \in readable \ {rb[o].failed} :
       /\ \A q \in readable \ {rb[o].failed} : deployed[q] <= deployed[p]
       /\ Goto(o, "restore", p)
  /\ UNCHANGED <<weights, stage, bucket, serving, release, history>>

(* No other record, or none that could be read: a warning, nothing restored. *)
NoPrevious(o) ==
  /\ rb[o].pc = "choose"
  /\ Goto(o, "incident", None)
  /\ orphaned' = TRUE
  /\ UNCHANGED <<weights, stage, bucket, serving, release, vetted, calm>>

MRestorePrevious(o) ==
  /\ rb[o].pc = "restore"
  /\ Goto(o, "incident", None)
  /\ orphaned' = FALSE
  /\ UNCHANGED <<weights, stage, bucket, serving, release, vetted, calm>>
RestorePrevious(o) ==
  /\ rb[o].pc = "restore"
  /\ stage' = Transition(rb[o].prev, "Production", FALSE)
  /\ Goto(o, "incident", None)
  /\ orphaned' = FALSE
  /\ UNCHANGED <<weights, bucket, serving, release, vetted, calm>>

(* main() logs an exception of the registry part and goes on. *)
MRegistryError(o) ==
  /\ rb[o].pc \in RegistrySteps
  /\ Goto(o, "archive", None)
  /\ UNCHANGED <<weights, stage, bucket, serving, release, history>>
RegistryError(o) ==
  /\ rb[o].pc \in RegistrySteps
  /\ Goto(o, "incident", None)
  /\ orphaned' = (orphaned \/ rb[o].pc # "archive")
  /\ UNCHANGED <<weights, stage, bucket, serving, release, vetted, calm>>

WriteIncident(o) ==
  /\ rb[o].pc = "incident"
  /\ incidents' = incidents \cup {rb[o].failed}
  /\ rb' = [rb EXCEPT ![o] = Idle]
  /\ UNCHANGED <<weights, stage, deployed, latest, clock, serving, release, history>>

(* An exception outside the try, or the process killed at any step. *)
RollbackDies(o) ==
  /\ rb[o].pc # "idle"
  /\ rb' = [rb EXCEPT ![o] = Idle]
  /\ orphaned' = (orphaned \/ rb[o].pc \in {"choose", "restore"})
  /\ UNCHANGED <<weights, stage, bucket, serving, release, vetted, calm>>

-----------------------------------------------------------------------------
Init ==
  /\ weights   = Split(100, 0)
  /\ stage     = [v \in Versions |-> "Absent"]
  /\ deployed  = [v \in Versions |-> 0]
  /\ latest    = None
  /\ incidents = {}
  /\ clock     = 0
  /\ serving   = None
  /\ release   = [pc |-> "idle", v |-> None, tries |-> 0, checks |-> 0,
                  seen |-> {}, exit |-> "none"]
  /\ rb        = [o \in Operators |-> Idle]
  /\ vetted    = {}
  /\ orphaned  = FALSE
  /\ calm      = FALSE

ReleaseStep ==
  \/ RouteCanary
  \/ \E reading \in Readings : CheckCanary(reading)
  \/ RevertCanary
  \/ TagStaging
  \/ PromoteTraffic
  \/ PromoteStage
  \/ WriteRecord
  \/ WriteLatest
  \/ ReleaseError

RollbackStep(o) ==
  \/ RestoreTraffic(o)
  \/ ArchiveFailed(o)
  \/ ChoosePrevious(o)
  \/ NoPrevious(o)
  \/ RestorePrevious(o)
  \/ RegistryError(o)
  \/ WriteIncident(o)
  \/ RollbackDies(o)

Next ==
  \/ \E v \in Versions : Register(v) \/ StartRelease(v)
  \/ ReleaseStep
  \/ \E o \in Operators : RollbackStep(o) \/ (\E v \in Versions : StartRollback(o, v))
  \/ PodStart

(* A started script keeps running until it ends or dies. *)
Fairness ==
  /\ WF_vars(ReleaseStep)
  /\ \A o \in Operators : WF_vars(RollbackStep(o))

Spec == Init /\ [][Next]_vars /\ Fairness

-----------------------------------------------------------------------------
ReleaseRecords ==
  [pc: {"idle"} \cup CanarySteps \cup PromoteSteps, v: Versions \cup {None},
   tries: 0..Retries, checks: Nat, seen: SUBSET Readings, exit: Exits]

RollbackRecords ==
  [pc: RollbackSteps, failed: Versions \cup {None}, prev: Versions \cup {None}]

(* Type correctness. *)
TypeOK ==
  /\ weights \in [TargetGroups -> 0..100]
  /\ stage \in [Versions -> Stages]
  /\ deployed \in [Versions -> Nat]
  /\ latest \in Versions \cup {None}
  /\ incidents \subseteq Versions
  /\ clock \in Nat
  /\ serving \in Versions \cup {None}
  /\ release \in ReleaseRecords
  /\ rb \in [Operators -> RollbackRecords]
  /\ vetted \subseteq Versions
  /\ orphaned \in BOOLEAN
  /\ calm \in BOOLEAN

(* No version reaches the Production stage, a deployment record or the     *)
(* memory of a pod unless one of its canary windows ended without a breach *)
(* of the error-rate and P99 thresholds: through retries, crashes between  *)
(* steps and rollbacks that pick their target from the records.            *)
OnlyVettedLive ==
  /\ Production \cup Recorded \subseteq vetted
  /\ serving # None => serving \in vetted

(* A release that ended by success or by a breach leaves no traffic on an  *)
(* unwatched canary: 10% stay behind only when a script raised (the exit   *)
(* that monitor_canary's callers do not clean up after).                   *)
NoForgottenCanary ==
  release.pc = "idle" /\ weights["canary"] = 10 => release.exit = "error"

(* Once something was promoted, pods that restart find a Production        *)
(* version, except while a rollback is between archiving and restoring, or *)
(* after one ended there without a version to put back: whatever releases  *)
(* and other rollbacks do meanwhile (load_model raises when there is none).*)
ProductionAvailable ==
  Recorded # {} /\ ~orphaned =>
    \/ Production # {}
    \/ \E o \in Operators : rb[o].pc \in {"choose", "restore"}

(* A promotion that exited 0, with no rollback since it began, left        *)
(* traffic, registry, dated record and latest.json on the same version and *)
(* no other version in Production, however often its task was retried.     *)
PromotionComplete ==
  release.pc = "idle" /\ release.exit = "ok" /\ calm =>
    /\ weights = Split(0, 100)
    /\ Production = {release.v}
    /\ latest = release.v
    /\ \A w \in Versions : deployed[w] <= deployed[release.v]

(* A started release and a started rollback come to an end, whatever calls *)
(* raise: task retries are bounded and rollback.py never goes back.        *)
ScriptsEnd ==
  /\ release.pc # "idle" ~> release.pc = "idle"
  /\ \A o \in Operators : rb[o].pc # "idle" ~> rb[o].pc = "idle"

(* The scripts implement the life cycle a registry user relies on: only an *)
(* approved version goes live, promotion replaces, rollback adds back one  *)
(* approved version or takes one away, one version per step.               *)
Lifecycle == INSTANCE ModelLifecycle WITH approved <- vetted, live <- Production

ImplementsLifecycle == Lifecycle!Spec

-----------------------------------------------------------------------------
(* What the documents say and the scripts do not do. *)

(* "Canary limits blast radius to 10%" (canary_deploy.py:7): starting a    *)
(* canary moves at most 10% of the traffic off the target group that has   *)
(* all of it.                                                              *)
BlastRadius ==
  [][release.pc = "route" /\ release'.pc = "monitor" =>
       \A t \in TargetGroups : weights[t] = 100 => weights'[t] >= 90]_vars

(* "The failed version is archived - it won't be auto-deployed again"      *)
(* (emergency_rollback.md:176): a version that a rollback archived, and    *)
(* whose incident it recorded, is not moved to Production by the release   *)
(* that was running at the time.                                           *)
RolledBackNotPromoted ==
  [][PromoteStage =>
       ~(stage[release.v] = "Archived" /\ release.v \in incidents)]_vars

=============================================================================
