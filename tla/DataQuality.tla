----------------------------- MODULE DataQuality -----------------------------
(***************************************************************************)
(* The hourly data quality DAG and what it watches: events put into the     *)
(* stream, files Firehose writes from them.  Four checks in parallel, any   *)
(* of which may raise, and an aggregation that runs whatever they did.      *)
(* Every task that fails calls the failure callback, which sends an alert.  *)
(***************************************************************************)
EXTENDS Integers

CONSTANTS
  Hour,       \* ticks of 15 minutes in an hour (4)
  Fresh,      \* ticks before the newest file counts as stale (2 hours)
  LastTick    \* the last tick: bound of the model

ASSUME QualityAssumption == Hour \in Nat /\ Hour >= 2 /\ Fresh \in Nat /\ LastTick \in Nat

VARIABLES
  now,
  sent,       \* the last tick an event was put into the stream, -1: none yet
  written,    \* the last tick a file was written, -1: none yet
  run,        \* the newest run of the DAG
  lastSaid    \* the start of the last run whose alerts told of the stream, the bucket

vars == <<now, sent, written, run, lastSaid>>

Watching == {"kinesis", "s3"}
Checks   == {"kinesis", "s3", "glue", "athena"}
Tasks    == Checks \cup {"aggregate"}
Ticks    == 0..LastTick

-----------------------------------------------------------------------------
(* The pipeline: either of its halves may stand still for any time. *)

Put ==
  /\ sent' = now
  /\ UNCHANGED <<now, written, run, lastSaid>>

(* Firehose writes what came since its last file, in that one's tick or     *)
(* later.                                                                   *)
WriteFile ==
  /\ sent # -1 /\ written <= sent
  /\ written' = now
  /\ UNCHANGED <<now, sent, run, lastSaid>>

-----------------------------------------------------------------------------
(* The DAG *)

(* on_dag_failure(): the alert names the task, shows the beginning of its    *)
(* error, which lists the issues of the checks in "error", and links the     *)
(* task's log, which names the checks in "log".                              *)
Alert(task, error, log) == [task |-> task, error |-> error, log |-> log]

Alerts == [task: Tasks, error: SUBSET Checks, log: SUBSET Checks]

(* The tasks that alerts lead to: an alert's own, and the checks its log     *)
(* names if its error, which is what is seen first, lists them or nothing.  *)
LeadsTo(alert, task) ==
  \/ alert.task = task
  \/ task \in alert.log /\ (alert.error # {} => task \in alert.error)

Told(alerts) == {task \in Tasks : \E alert \in alerts : LeadsTo(alert, task)}

NoResult == [c \in Checks |-> "none"]
MNewRun  == [on |-> TRUE, at |-> now, result |-> NoResult, met |-> run.met, alerts |-> {}]
NewRun   == [on |-> TRUE, at |-> now, result |-> NoResult, met |-> {}, alerts |-> {}]

Due == now % Hour = 0 /\ run.at # now

StartRun ==
  /\ Due /\ ~run.on
  /\ run' = NewRun
  /\ UNCHANGED <<now, sent, written, lastSaid>>

(* A check ends: "met" says whether it came upon an issue, "result" what    *)
(* its task leaves behind.  The error of one that raises is not the issue.  *)
Ends(c, met, result) ==
  /\ run.on /\ run.result[c] = "none"
  /\ run' = [run EXCEPT !.result[c] = result,
                        !.met = IF met THEN @ \cup {c} ELSE @,
                        !.alerts = IF result = "raised" THEN @ \cup {Alert(c, {}, {})} ELSE @]
  /\ UNCHANGED <<now, sent, written, lastSaid>>

Returns(c, issue) == Ends(c, issue, IF issue THEN "issue" ELSE "ok")

(* A metric summed over the last tick's length, which begins somewhere in   *)
(* the tick before; without datapoints it is 0.                             *)
MNoRecords(none) == /\ sent >= now - Hour => ~none
                    /\ sent <  now - Hour =>  none
NoRecords(none) == /\ sent = now     => ~none
                   /\ sent < now - 1 =>  none

(* Age of the iterator and throttles are other's doing.  The metrics are    *)
(* emitted after the issues are known, and may raise.                       *)
CheckKinesis ==
  \E none, other \in BOOLEAN :
    /\ NoRecords(none)
    /\ Returns("kinesis", none \/ other) \/ Ends("kinesis", none \/ other, "raised")

(* "cutoff" is taken from the clock before the listing: the start of the    *)
(* run stands for it.                                                       *)
MIsStale(stale) == stale = (written # -1 /\ written < run.at - Fresh)
IsStale(stale) == /\ written = -1 \/ written < run.at - Fresh => stale
                  /\ written > run.at - Fresh /\ written # -1 => ~stale

CheckS3 == \E stale \in BOOLEAN : IsStale(stale) /\ Returns("s3", stale)

(* Crawler and table may be in any state; what their calls raise is an      *)
(* issue like others.                                                       *)
CheckGlueAthena == \E c \in {"glue", "athena"}, issue \in BOOLEAN : Returns(c, issue)

(* A call raises outside of a try, or the task runs into its timeout.       *)
CheckRaises == \E c \in Checks : Ends(c, FALSE, "raised")

(* trigger_rule all_done; the XCom of a task that raised is missing. *)
MCollected == IF \E c \in Checks : run.result[c] = "raised"
              THEN {} ELSE {c \in Checks : run.result[c] = "issue"}
Collected == {c \in Checks : run.result[c] = "issue"}

(* Nothing reads the results of a run that has ended. *)
EndRun(alerts) ==
  /\ run.on /\ \A c \in Checks : run.result[c] # "none"
  /\ run' = [run EXCEPT !.on = FALSE, !.result = NoResult, !.alerts = @ \cup alerts]
  /\ lastSaid' = [c \in Watching |->
       IF c \in Told(run.alerts \cup alerts) THEN run.at ELSE lastSaid[c]]
  /\ UNCHANGED <<now, sent, written>>

(* The RuntimeError with the issues of all checks, or a success. *)
Aggregate ==
  EndRun(IF Collected = {} THEN {} ELSE {Alert("aggregate", Collected, Collected)})

(* The metric raises before that error is made, or instead of the success:  *)
(* its own error lists no issue, but the log has a warning for each check.  *)
AggregateRaises == EndRun({Alert("aggregate", {}, Collected)})

(* The scheduler is in time, and no task outlives its timeout of 5 or 10    *)
(* minutes: a run that is due starts in its tick and ends in the next one.  *)
Tick ==
  /\ now < LastTick
  /\ ~Due /\ (run.on => run.at = now)
  /\ now' = now + 1
  /\ UNCHANGED <<sent, written, run, lastSaid>>

-----------------------------------------------------------------------------
Init ==
  /\ now = 0 /\ sent = -1 /\ written = -1
  /\ run = [on |-> FALSE, at |-> -1, result |-> NoResult, met |-> {}, alerts |-> {}]
  /\ lastSaid = [c \in Watching |-> -1]

Next ==
  \/ Put
  \/ WriteFile
  \/ StartRun
  \/ CheckKinesis
  \/ CheckS3
  \/ CheckGlueAthena
  \/ CheckRaises
  \/ Aggregate
  \/ AggregateRaises
  \/ Tick

Spec == Init /\ [][Next]_vars

-----------------------------------------------------------------------------
(* Type correctness; what a run met belongs to its own checks, although the  *)
(* DAG's module lives on from run to run.                                   *)
TypeOK ==
  /\ now \in Ticks
  /\ sent \in -1..LastTick /\ written \in -1..LastTick
  /\ run \in [on: BOOLEAN, at: -1..LastTick, met: SUBSET Checks, alerts: SUBSET Alerts,
              result: [Checks -> {"none", "ok", "issue", "raised"}]]
  /\ run.on => run.met \subseteq {c \in Checks : run.result[c] \in {"issue", "raised"}}
  /\ lastSaid \in [Watching -> -1..LastTick]

(* A check that came upon an issue is led to by an alert of its run: its    *)
(* own if it raised, else that of the aggregation, which lists the issues of *)
(* all of them or, when its metric raised before it could (line 332), none,  *)
(* and then names them in its log (data_quality.py:312-338).                 *)
NoIssueWithoutAlert == ~run.on => run.met \subseteq Told(run.alerts)

(* A bucket without a new file, or that never had one, is told of within an  *)
(* hour and a run of its becoming stale.                                     *)
StaleBucketSaid == now > written + Fresh + Hour + 1 => lastSaid["s3"] >= written + Fresh

(* Events that stop are told of within an hour and a run, although only a    *)
(* quarter of an hour is looked at each hour.                                *)
SilentStreamSaid == now > sent + Hour + 2 => lastSaid["kinesis"] > sent

=============================================================================
