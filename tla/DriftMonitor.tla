---------------------------- MODULE DriftMonitor ----------------------------
(***************************************************************************)
(* The two ways in which drift leads to a training run: a Lambda behind    *)
(* each monitoring execution that ends (retraining_lambda/index.py), and   *)
(* the weekly DAG (model_monitoring.py).  Both run analyse_schedule of     *)
(* drift_detector.py, which looks at whatever execution is the newest      *)
(* then.  TrainingDag takes over from the request.                         *)
(***************************************************************************)
EXTENDS Naturals, Sequences

CONSTANTS
  Reports,        \* what an execution may find: numbers of violations, see DriftScore
  LastExecution,  \* executions of the two schedules: bound of the model
  LastWeek,       \* weekly runs: bound of the model
  Retries         \* retries of a task (1)

ASSUME DriftAssumption ==
  /\ Reports \subseteq [critical: Nat, shifts: Nat, others: Nat]
  /\ LastExecution \in Nat
  /\ LastWeek \in Nat
  /\ Retries \in Nat

VARIABLES
  callsFail,   \* whether calls fail for reasons outside this code
  executions,  \* schedule -> its executions, the oldest first
  events,      \* ends of executions that EventBridge has yet to deliver
  at,          \* where each run of analyse_schedule is
  requests,    \* executions a training run was asked for
  asked,       \* weeks whose own drift task asked for one: history
  weekly,      \* the running DAG run
  week,        \* number of the newest run
  said         \* weeks whose summary said AutoRetrainingTriggered = 1

vars == <<callsFail, executions, events, at, requests, asked, weekly, week, said>>

Monitors == {"data_quality", "model_quality"}
Ends     == {"Completed", "CompletedWithViolations"}
Statuses == Ends \cup {"InProgress", "Failed"}
Weeks    == 1..LastWeek

(* An execution is its schedule and its number. *)
Executions == Monitors \X (1..LastExecution)

Events   == [of: Executions, status: Ends]

(* An invocation of the Lambda per execution, and the script of the DAG. *)
Script   == <<"weekly", 0>>
Analyses == Executions \cup {Script}

NoAnalysis == [pc |-> "idle", monitor |-> "data_quality", newest |-> 0, triggered |-> FALSE]

(* tries: of the running task; result: "retraining" in the drift_result.json *)
(* the script has written or is about to; file: it is written; xcom: what    *)
(* the drift task returned.                                                  *)
NoWeek == [pc |-> "idle", tries |-> 0, result |-> [m \in Monitors |-> FALSE],
           file |-> FALSE, xcom |-> FALSE]

-----------------------------------------------------------------------------
(* SageMaker: one execution of a schedule at a time; its end is an event. *)
Violations(report) == report.critical + report.shifts + report.others
NoViolation == [critical |-> 0, shifts |-> 0, others |-> 0]

Newest(m) == executions[m][Len(executions[m])]

StartExecution(m) ==
  /\ Len(executions["data_quality"]) + Len(executions["model_quality"]) < LastExecution
  /\ executions[m] # <<>> => Newest(m).status # "InProgress"
  /\ executions' = [executions EXCEPT ![m] =
       Append(@, [status |-> "InProgress", report |-> NoViolation])]
  /\ UNCHANGED <<callsFail, events, at, requests, asked, weekly, week, said>>

EndExecution(m) ==
  /\ executions[m] # <<>> /\ Newest(m).status = "InProgress"
  /\ \/ \E report \in Reports :
          LET status == IF Violations(report) = 0 THEN "Completed" ELSE "CompletedWithViolations"
              n      == Len(executions[m])
          IN  /\ executions' = [executions EXCEPT ![m][n] = [status |-> status, report |-> report]]
              /\ events' = events \cup {[of |-> <<m, n>>, status |-> status]}
     \/ /\ executions' = [executions EXCEPT ![m][Len(executions[m])].status = "Failed"]
        /\ UNCHANGED events
  /\ UNCHANGED <<callsFail, at, requests, asked, weekly, week, said>>

-----------------------------------------------------------------------------
(* _compute_drift_score, in thousandths: 5 % a violation, three times that   *)
(* for an important feature, half as much again for a shifted distribution   *)
(* (of no important feature here: one of those is enough by itself).         *)
DriftScore(report) ==
  LET score == 150 * report.critical + 75 * report.shifts + 50 * report.others
  IN  IF score > 1000 THEN 1000 ELSE score

ShouldRetrain(report) ==
  \/ report.critical > 0
  \/ DriftScore(report) >= 300
  \/ Violations(report) >= 5

(* _get_latest_report_uri and _fetch_violation_report: the newest execution, *)
(* and nothing when there is none, it is not over or anything raises.        *)
Drifts(m) ==
  /\ executions[m] # <<>>
  /\ Newest(m).status \in Ends
  /\ ShouldRetrain(Newest(m).report)

(* The analysis has only its records to write, which the script may fail at. *)
Analysed(p, triggered) ==
  IF p = Script
  THEN [NoAnalysis EXCEPT !.pc = "record", !.monitor = at[p].monitor, !.triggered = triggered]
  ELSE NoAnalysis

Look(p) ==
  LET m == at[p].monitor
  IN  /\ at[p].pc = "look"
      /\ \/ /\ Drifts(m)
            /\ at' = [at EXCEPT ![p].pc = "trigger", ![p].newest = Len(executions[m])]
         \/ /\ ~Drifts(m) \/ callsFail
            /\ at' = [at EXCEPT ![p] = Analysed(p, FALSE)]
      /\ UNCHANGED <<callsFail, executions, events, requests, asked, weekly, week, said>>

(* What _trigger_retraining returns: an exception, a timeout included, is   *)
(* "not triggered".                                                         *)
MTriggered(posted, answered) == TRUE
Triggered(posted, answered) == posted /\ answered

Trigger(p) ==
  /\ at[p].pc = "trigger"
  /\ \E posted, answered \in (IF callsFail THEN BOOLEAN ELSE {TRUE}) :
       /\ at' = [at EXCEPT ![p] = Analysed(p, Triggered(posted, answered))]
       /\ requests' = requests \cup (IF posted THEN {<<at[p].monitor, at[p].newest>>} ELSE {})
       /\ asked' = asked \cup (IF posted /\ p = Script THEN {week} ELSE {})
  /\ UNCHANGED <<callsFail, executions, events, weekly, week, said>>

(* The metrics and the summary in S3 are written, which nothing here reads;  *)
(* the handler has nothing left to do then.  main analyses the second        *)
(* schedule, and then writes its result file.                                *)
Record ==
  /\ at[Script].pc = "record"
  /\ weekly' = [weekly EXCEPT !.result[at[Script].monitor] = at[Script].triggered,
                              !.file = at[Script].monitor = "model_quality"]
  /\ at' = [at EXCEPT ![Script] =
       IF @.monitor = "data_quality"
       THEN [NoAnalysis EXCEPT !.pc = "look", !.monitor = "model_quality"]
       ELSE NoAnalysis]
  /\ UNCHANGED <<callsFail, executions, events, requests, asked, week, said>>

(* A call outside a try raises (the secret, the metrics, S3), or the process *)
(* dies: the handler notes it and answers 500, the script ends with no file. *)
AnalysisRaises(p) ==
  /\ callsFail
  /\ at[p].pc # "idle"
  /\ at' = [at EXCEPT ![p] = NoAnalysis]
  /\ UNCHANGED <<callsFail, executions, events, requests, asked, weekly, week, said>>

-----------------------------------------------------------------------------
(* handler: an event is delivered, perhaps not for the last time.  Bound: it *)
(* is not delivered again while its analysis is running.                     *)
MHandles(status) == status = "Completed"
Handles(status) == status \in {"Completed", "CompletedWithViolations"}

Handler(e) ==
  /\ e \in events
  /\ at[e.of].pc = "idle"
  /\ events' = events \ {e} \/ (callsFail /\ UNCHANGED events)
  /\ at' = IF Handles(e.status)
           THEN [at EXCEPT ![e.of].pc = "look", ![e.of].monitor = e.of[1]]
           ELSE at
  /\ UNCHANGED <<callsFail, executions, requests, asked, weekly, week, said>>

-----------------------------------------------------------------------------
(* The weekly DAG. *)
StartWeek ==
  /\ weekly.pc = "idle"
  /\ week < LastWeek
  /\ week' = week + 1
  /\ weekly' = [NoWeek EXCEPT !.pc = "collect_ground_truth"]
  /\ UNCHANGED <<callsFail, executions, events, at, requests, asked, said>>

TaskDone(next) == weekly' = [weekly EXCEPT !.pc = next, !.tries = 0]

MAttemptsUsed == weekly.tries > Retries
AttemptsUsed == weekly.tries = Retries

(* A task raises: it is tried again from the start; when it has failed, the  *)
(* tasks after it do not run, except the summary, which is run "all_done".   *)
MTaskFails(first) ==
  weekly' = IF ~AttemptsUsed THEN [weekly EXCEPT !.pc = first, !.tries = @ + 1] ELSE NoWeek
TaskFails(first) ==
  weekly' = IF ~AttemptsUsed THEN [weekly EXCEPT !.pc = first, !.tries = @ + 1]
            ELSE IF first = "emit_weekly_summary" THEN NoWeek
            ELSE [weekly EXCEPT !.pc = "emit_weekly_summary", !.tries = 0]

(* The tasks that keep nothing the others read; the branch goes either way.  *)
(* run_drift_analysis is one of them where no schedule is configured.       *)
Then ==
  [collect_ground_truth      |-> {"run_drift_analysis"},
   run_drift_analysis        |-> {"should_recapture_baseline"},
   should_recapture_baseline |-> {"capture_baseline", "skip_baseline"},
   capture_baseline          |-> {"emit_weekly_summary"},
   skip_baseline             |-> {"emit_weekly_summary"}]

Task ==
  /\ weekly.pc \in DOMAIN Then
  /\ \/ \E next \in Then[weekly.pc] : TaskDone(next)
     \/ callsFail /\ weekly.pc # "skip_baseline" /\ TaskFails(weekly.pc)
  /\ UNCHANGED <<callsFail, executions, events, at, requests, asked, week, said>>

(* run_drift_analysis starts the script, in a pod whose /tmp is empty. *)
RunDriftAnalysis ==
  /\ weekly.pc = "run_drift_analysis"
  /\ weekly' = [weekly EXCEPT !.pc = "script", !.result = NoWeek.result, !.file = FALSE]
  /\ at' = [at EXCEPT ![Script].pc = "look"]
  /\ UNCHANGED <<callsFail, executions, events, requests, asked, week, said>>

(* The script is over: its return code is not looked at, and no file reads   *)
(* as no drift.  The metrics may raise.                                      *)
ReadResult ==
  /\ weekly.pc = "script"
  /\ at[Script].pc = "idle"
  /\ \/ weekly' = [weekly EXCEPT !.pc = "should_recapture_baseline", !.tries = 0,
                     !.xcom = weekly.file /\ \E m \in Monitors : weekly.result[m],
                     !.file = FALSE, !.result = NoWeek.result]
     \/ callsFail /\ TaskFails("run_drift_analysis")
  /\ UNCHANGED <<callsFail, executions, events, at, requests, asked, week, said>>

(* The worker of the drift task dies or its hour is over, and the script    *)
(* with it.                                                                 *)
DriftTaskDies ==
  /\ callsFail
  /\ weekly.pc = "script"
  /\ at' = [at EXCEPT ![Script] = NoAnalysis]
  /\ TaskFails("run_drift_analysis")
  /\ UNCHANGED <<callsFail, executions, events, requests, asked, week, said>>

(* emit_weekly_summary: the result of a drift task that failed is not there. *)
EmitWeeklySummary ==
  /\ weekly.pc = "emit_weekly_summary"
  /\ \/ /\ weekly' = NoWeek
        /\ said' = IF weekly.xcom THEN said \cup {week} ELSE said
     \/ /\ callsFail
        /\ TaskFails("emit_weekly_summary")
        /\ UNCHANGED said
  /\ UNCHANGED <<callsFail, executions, events, at, requests, asked, week>>

-----------------------------------------------------------------------------
Init ==
  /\ callsFail \in BOOLEAN
  /\ executions = [m \in Monitors |-> <<>>]
  /\ events = {}
  /\ at = [p \in Analyses |-> NoAnalysis]
  /\ requests = {}
  /\ asked = {}
  /\ weekly = NoWeek
  /\ week = 0
  /\ said = {}

AnalysisStep(p) == Look(p) \/ Trigger(p) \/ (p = Script /\ Record) \/ AnalysisRaises(p)

WeeklyStep == Task \/ RunDriftAnalysis \/ ReadResult \/ DriftTaskDies \/ EmitWeeklySummary

Next ==
  \/ \E m \in Monitors : StartExecution(m) \/ EndExecution(m)
  \/ \E e \in Events : Handler(e)
  \/ \E p \in Analyses : AnalysisStep(p)
  \/ StartWeek
  \/ WeeklyStep

(* Events are delivered, invocations and the script end or are stopped, and *)
(* Airflow runs the tasks of a run it started.                              *)
Fairness ==
  /\ WF_vars(\E e \in Events : Handler(e))
  /\ WF_vars(\E e \in Executions : AnalysisStep(e))
  /\ WF_vars(AnalysisStep(Script))
  /\ WF_vars(WeeklyStep)

Spec == Init /\ [][Next]_vars /\ Fairness

-----------------------------------------------------------------------------
(* Type correctness. *)
TypeOK ==
  /\ callsFail \in BOOLEAN
  /\ \A m \in Monitors :
       /\ Len(executions[m]) <= LastExecution
       /\ \A n \in 1..Len(executions[m]) : executions[m][n].status \in Statuses
  /\ events \subseteq Events
  /\ at \in [Analyses -> [pc: {"idle", "look", "trigger", "record"}, monitor: Monitors,
                          newest: Nat, triggered: BOOLEAN]]
  /\ requests \subseteq Executions
  /\ asked \subseteq Weeks
  /\ weekly.pc \in DOMAIN Then \cup {"idle", "script", "emit_weekly_summary"}
  /\ weekly.tries \in 0..Retries
  /\ week \in 0..LastWeek
  /\ said \subseteq Weeks

(* A summary that says AutoRetrainingTriggered is right: that run of the     *)
(* DAG did ask for training, in one of the attempts of its drift task and    *)
(* not in an earlier week (model_monitoring.py:290-304).                     *)
SummaryIsTrue == said \subseteq asked

(* Drift is acted on: when no call fails, an execution whose report is over  *)
(* a threshold gets a training run or is followed by an execution of its     *)
(* schedule, which may hide it from the Lambda (drift_detector.py:113).      *)
DriftIsActedOn ==
  \A e \in Executions :
    (/\ ~callsFail
     /\ e[2] <= Len(executions[e[1]])
     /\ ShouldRetrain(executions[e[1]][e[2]].report))
    ~> (\/ e[2] < Len(executions[e[1]])
        \/ e \in requests)

(* Every weekly run gets to its summary, whichever task failed before it     *)
(* ("Run even if baseline was skipped", model_monitoring.py:316).            *)
EveryWeekIsSummarised == weekly.pc # "idle" ~> weekly.pc = "emit_weekly_summary"

=============================================================================
