-------------------------- MODULE DriftMonitor_proofs --------------------------
(***************************************************************************)
(* Proofs about DriftMonitor, for any reports, any number of executions,    *)
(* weeks and retries, whether calls fail or not.                            *)
(***************************************************************************)
EXTENDS DriftMonitor, SequenceTheorems, TLAPS

ReportsOf    == [critical: Nat, shifts: Nat, others: Nat]
ExecutionRec == [status: Statuses, report: ReportsOf]

AnalysisRec == [pc: {"idle", "look", "trigger", "record"}, monitor: Monitors,
                newest: Nat, triggered: BOOLEAN]

WeeklySteps == DOMAIN Then \cup {"idle", "script", "emit_weekly_summary"}

WeeklyRec == [pc: WeeklySteps, tries: 0..Retries, result: [Monitors -> BOOLEAN],
              file: BOOLEAN, xcom: BOOLEAN]

(***************************************************************************)
(* Types.  An execution exists when a run of analyse_schedule asks for a    *)
(* training run on it, and a week is under way when its script does.        *)
(***************************************************************************)
ExecutionsOK ==
  /\ executions \in [Monitors -> Seq(ExecutionRec)]
  /\ Len(executions["data_quality"]) + Len(executions["model_quality"]) <= LastExecution

NewestExists ==
  \A p \in Analyses :
    at[p].pc = "trigger" => at[p].newest \in 1..Len(executions[at[p].monitor])

ScriptBelongs ==
  /\ at[Script].pc # "idle" => weekly.pc = "script"
  /\ weekly.pc # "idle" => week \in Weeks

TypeInv ==
  /\ callsFail \in BOOLEAN
  /\ ExecutionsOK
  /\ events \subseteq Events
  /\ at \in [Analyses -> AnalysisRec]
  /\ NewestExists
  /\ requests \subseteq Executions
  /\ asked \subseteq Weeks
  /\ weekly \in WeeklyRec
  /\ week \in 0..LastWeek
  /\ ScriptBelongs
  /\ said \subseteq Weeks

(* What was noted as a request in this week's run is one, at each place the  *)
(* note passes through: the analysis, the result file, XCom, the summary.    *)
NotesAreTrue ==
  /\ at[Script].triggered => at[Script].pc = "record" /\ week \in asked
  /\ \A m \in Monitors : weekly.result[m] => week \in asked
  /\ weekly.xcom => week \in asked

SummaryInv == TypeInv /\ NotesAreTrue /\ SummaryIsTrue

-----------------------------------------------------------------------------
LEMMA ScriptApart ==
  /\ Script \notin Executions
  /\ Script \in Analyses
  /\ \A p \in Executions : p \in Analyses /\ p # Script /\ p[1] \in Monitors
BY DEF Script, Executions, Analyses, Monitors

LEMMA NoAnalysisType == NoAnalysis \in AnalysisRec
BY DEF NoAnalysis, AnalysisRec, Monitors

LEMMA WeeklyStepsAre ==
  WeeklySteps = {"collect_ground_truth", "should_recapture_baseline", "capture_baseline",
                 "skip_baseline", "idle", "run_drift_analysis", "script", "emit_weekly_summary"}
BY DEF WeeklySteps, Then

LEMMA ThenStays ==
  \A pc \in DOMAIN Then :
    /\ pc \in WeeklySteps /\ pc # "idle" /\ pc # "script"
    /\ \A next \in Then[pc] : next \in WeeklySteps /\ next # "idle" /\ next # "script"
BY WeeklyStepsAre DEF Then

LEMMA NoWeekType == NoWeek \in WeeklyRec
BY WeeklyStepsAre, DriftAssumption DEF NoWeek, WeeklyRec

(* A task that raises starts again, goes to the summary or ends the run; it  *)
(* leaves the notes of the run as they are, or drops them all.               *)
LEMMA TaskFailsKeeps ==
  ASSUME weekly \in WeeklyRec, NEW first \in WeeklySteps, first # "idle", first # "script",
         TaskFails(first)
  PROVE  /\ weekly' \in WeeklyRec
         /\ weekly'.pc # "script"
         /\ \/ weekly' = NoWeek
            \/ weekly'.pc # "idle" /\ weekly'.result = weekly.result /\ weekly'.xcom = weekly.xcom
<1>1. CASE ~AttemptsUsed
  <2>1. weekly.tries + 1 \in 0..Retries
    BY <1>1, DriftAssumption DEF AttemptsUsed, WeeklyRec
  <2>2. weekly' = [weekly EXCEPT !.pc = first, !.tries = @ + 1]
    BY <1>1 DEF TaskFails
  <2> QED
    BY <2>1, <2>2 DEF WeeklyRec
<1>2. CASE AttemptsUsed /\ first # "emit_weekly_summary"
  <2>1. weekly' = [weekly EXCEPT !.pc = "emit_weekly_summary", !.tries = 0]
    BY <1>2 DEF TaskFails
  <2>2. "emit_weekly_summary" \in WeeklySteps /\ 0 \in 0..Retries
    BY WeeklyStepsAre, DriftAssumption
  <2> QED
    BY <2>1, <2>2 DEF WeeklyRec
<1>3. CASE AttemptsUsed /\ first = "emit_weekly_summary"
  <2>1. weekly' = NoWeek
    BY <1>3 DEF TaskFails
  <2>2. NoWeek.pc = "idle"
    BY DEF NoWeek
  <2> QED
    BY <2>1, <2>2, NoWeekType
<1> QED
  BY <1>1, <1>2, <1>3

LEMMA InitSummary == Init => SummaryInv
<1> SUFFICES ASSUME Init PROVE SummaryInv
  OBVIOUS
<1>1. ExecutionsOK
  <2>1. executions = [m \in Monitors |-> <<>>]
    BY DEF Init
  <2>2. <<>> \in Seq(ExecutionRec) /\ Len(<<>>) = 0
    OBVIOUS
  <2> QED
    BY <2>1, <2>2, DriftAssumption DEF ExecutionsOK, Monitors
<1>2. at = [p \in Analyses |-> NoAnalysis] /\ at[Script] = NoAnalysis
  BY ScriptApart DEF Init
<1>3. NewestExists /\ ScriptBelongs /\ at \in [Analyses -> AnalysisRec]
  BY <1>2, NoAnalysisType DEF NewestExists, ScriptBelongs, Init, NoAnalysis, NoWeek
<1>4. NotesAreTrue
  BY <1>2 DEF NotesAreTrue, Init, NoAnalysis, NoWeek
<1> QED
  BY <1>1, <1>3, <1>4, NoWeekType, DriftAssumption
  DEF Init, SummaryInv, TypeInv, SummaryIsTrue

-----------------------------------------------------------------------------
(* SageMaker's steps: executions only ever get more. *)
LEMMA SageMakerStep ==
  ASSUME SummaryInv, NEW m \in Monitors, StartExecution(m) \/ EndExecution(m)
  PROVE  SummaryInv'
<1>1. UNCHANGED <<callsFail, at, requests, asked, weekly, week, said>>
  BY DEF StartExecution, EndExecution
<1>2. /\ executions[m] \in Seq(ExecutionRec)
      /\ Len(executions["data_quality"]) \in Nat /\ Len(executions["model_quality"]) \in Nat
      /\ Len(executions[m]) \in Nat
  BY DEF SummaryInv, TypeInv, ExecutionsOK, Monitors
<1>3. CASE StartExecution(m)
  <2> DEFINE new == [status |-> "InProgress", report |-> NoViolation]
  <2>1. new \in ExecutionRec
    BY DEF ExecutionRec, Statuses, ReportsOf, NoViolation
  <2>2. executions' = [executions EXCEPT ![m] = Append(executions[m], new)]
    BY <1>3 DEF StartExecution
  <2> HIDE DEF new
  <2>3. Append(executions[m], new) \in Seq(ExecutionRec)
        /\ Len(Append(executions[m], new)) = Len(executions[m]) + 1
    BY <1>2, <2>1
  <2>4. executions' \in [Monitors -> Seq(ExecutionRec)]
    BY <2>2, <2>3 DEF SummaryInv, TypeInv, ExecutionsOK
  <2>5. \A x \in Monitors : Len(executions'[x]) = IF x = m THEN Len(executions[x]) + 1
                                                  ELSE Len(executions[x])
    BY <2>2, <2>3 DEF SummaryInv, TypeInv, ExecutionsOK
  <2>6. Len(executions["data_quality"]) + Len(executions["model_quality"]) < LastExecution
    BY <1>3 DEF StartExecution
  <2>7. ExecutionsOK'
    <3> DEFINE dq == Len(executions["data_quality"])
               mq == Len(executions["model_quality"])
    <3>1. dq \in Nat /\ mq \in Nat /\ LastExecution \in Nat /\ dq + mq < LastExecution
      BY <1>2, <2>6, DriftAssumption
    <3>2. "data_quality" \in Monitors /\ "model_quality" \in Monitors
      BY DEF Monitors
    <3>3. (dq + 1) + mq <= LastExecution /\ dq + (mq + 1) <= LastExecution
      <4> HIDE DEF dq, mq
      <4> QED
        BY <3>1
    <3>4. CASE m = "data_quality"
      <4>1. Len(executions'["data_quality"]) = dq + 1 /\ Len(executions'["model_quality"]) = mq
        BY <2>5, <3>2, <3>4
      <4> QED
        BY <2>4, <3>3, <4>1 DEF ExecutionsOK
    <3>5. CASE m = "model_quality"
      <4>1. Len(executions'["data_quality"]) = dq /\ Len(executions'["model_quality"]) = mq + 1
        BY <2>5, <3>2, <3>5
      <4> QED
        BY <2>4, <3>3, <4>1 DEF ExecutionsOK
    <3> QED
      BY <3>4, <3>5 DEF Monitors
  <2>8. NewestExists'
    <3>1. \A x \in Monitors : Len(executions[x]) \in Nat
      BY DEF SummaryInv, TypeInv, ExecutionsOK
    <3>2. \A p \in Analyses : at[p].monitor \in Monitors /\ at[p].newest \in Nat
      BY DEF SummaryInv, TypeInv, AnalysisRec
    <3> QED
      BY <1>1, <2>5, <3>1, <3>2 DEF SummaryInv, TypeInv, NewestExists
  <2> QED
    BY <1>1, <1>3, <2>7, <2>8
    DEF StartExecution, SummaryInv, TypeInv, ScriptBelongs, NotesAreTrue, SummaryIsTrue
<1>4. CASE EndExecution(m)
  <2> DEFINE n == Len(executions[m])
  <2>1. n \in 1..Len(executions[m]) /\ n \in 1..LastExecution
    <3>1. executions[m] # <<>>
      BY <1>4 DEF EndExecution
    <3>2. n >= 1
      BY <1>2, <3>1
    <3>3. n <= LastExecution
      BY <1>2, DriftAssumption DEF SummaryInv, TypeInv, ExecutionsOK, Monitors
    <3> QED
      BY <1>2, <3>2, <3>3, DriftAssumption
  <2>2. \E e \in ExecutionRec :
          /\ executions' = [executions EXCEPT ![m] = [executions[m] EXCEPT ![n] = e]]
          /\ \/ events' = events
             \/ e.status \in Ends /\ events' = events \cup {[of |-> <<m, n>>, status |-> e.status]}
    <3>1. CASE \E report \in Reports :
                LET status == IF Violations(report) = 0 THEN "Completed" ELSE "CompletedWithViolations"
                IN  /\ executions' = [executions EXCEPT ![m][n] = [status |-> status, report |-> report]]
                    /\ events' = events \cup {[of |-> <<m, n>>, status |-> status]}
      <4>1. PICK report \in Reports, status \in Ends :
              /\ executions' = [executions EXCEPT ![m][n] = [status |-> status, report |-> report]]
              /\ events' = events \cup {[of |-> <<m, n>>, status |-> status]}
        BY <3>1 DEF Ends
      <4>2. [status |-> status, report |-> report] \in ExecutionRec
        BY DriftAssumption DEF ExecutionRec, ReportsOf, Statuses
      <4> QED
        BY <4>1, <4>2
    <3>2. CASE /\ executions' = [executions EXCEPT ![m][n].status = "Failed"]
               /\ UNCHANGED events
      <4>1. executions[m][n] \in ExecutionRec
        BY <1>2, <2>1, ElementOfSeq
      <4>2. [executions[m][n] EXCEPT !.status = "Failed"] \in ExecutionRec
        BY <4>1 DEF ExecutionRec, Statuses
      <4> QED
        BY <3>2, <4>2
    <3> QED
      BY <1>4, <3>1, <3>2 DEF EndExecution
  <2>3. PICK e \in ExecutionRec :
          /\ executions' = [executions EXCEPT ![m] = [executions[m] EXCEPT ![n] = e]]
          /\ \/ events' = events
             \/ e.status \in Ends /\ events' = events \cup {[of |-> <<m, n>>, status |-> e.status]}
    BY <2>2
  <2>4. /\ [executions[m] EXCEPT ![n] = e] \in Seq(ExecutionRec)
        /\ Len([executions[m] EXCEPT ![n] = e]) = Len(executions[m])
    BY <1>2, <2>1, ExceptSeq
  <2>5. /\ executions' \in [Monitors -> Seq(ExecutionRec)]
        /\ \A x \in Monitors : Len(executions'[x]) = Len(executions[x])
    BY <2>3, <2>4 DEF SummaryInv, TypeInv, ExecutionsOK
  <2>6. ExecutionsOK'
    BY <2>5 DEF SummaryInv, TypeInv, ExecutionsOK, Monitors
  <2>7. events' \subseteq Events
    <3>1. <<m, n>> \in Executions
      BY <2>1 DEF Executions
    <3> HIDE DEF n
    <3> QED
      BY <2>3, <3>1 DEF SummaryInv, TypeInv, Events
  <2>8. NewestExists'
    <3>1. \A p \in Analyses : at[p].monitor \in Monitors
      BY DEF SummaryInv, TypeInv, AnalysisRec
    <3> QED
      BY <1>1, <2>5, <3>1 DEF SummaryInv, TypeInv, NewestExists
  <2> QED
    BY <1>1, <2>6, <2>7, <2>8 DEF SummaryInv, TypeInv, ScriptBelongs, NotesAreTrue, SummaryIsTrue
<1> QED
  BY <1>3, <1>4

-----------------------------------------------------------------------------
(* A run of analyse_schedule: only the script's notes matter to the summary. *)
LEMMA AnalysedType ==
  ASSUME SummaryInv, NEW p \in Analyses, NEW triggered \in BOOLEAN
  PROVE  /\ Analysed(p, triggered) \in AnalysisRec
         /\ Analysed(p, triggered).pc # "trigger"
         /\ p # Script => Analysed(p, triggered) = NoAnalysis
         /\ p = Script => /\ Analysed(p, triggered).pc = "record"
                          /\ Analysed(p, triggered).triggered = triggered
BY DEF Analysed, NoAnalysis, AnalysisRec, Monitors, SummaryInv, TypeInv

LEMMA AnalysisMoves ==
  ASSUME SummaryInv, NEW p \in Analyses, NEW to \in AnalysisRec,
         at' = [at EXCEPT ![p] = to],
         to.pc = "trigger" => to.newest \in 1..Len(executions[to.monitor]),
         p = Script /\ to.pc # "idle" => weekly.pc = "script",
         p = Script /\ to.triggered => to.pc = "record" /\ week \in asked',
         UNCHANGED <<callsFail, executions, weekly, week, said>>,
         events' \subseteq Events, requests' \subseteq Executions,
         asked \subseteq asked', asked' \subseteq Weeks
  PROVE  SummaryInv'
<1>1. at' \in [Analyses -> AnalysisRec] /\ \A q \in Analyses : at'[q] = IF q = p THEN to ELSE at[q]
  BY DEF SummaryInv, TypeInv
<1>2. NewestExists'
  BY <1>1 DEF SummaryInv, TypeInv, NewestExists
<1>3. ScriptBelongs' /\ NotesAreTrue'
  BY <1>1, ScriptApart DEF SummaryInv, TypeInv, ScriptBelongs, NotesAreTrue
<1> QED
  BY <1>1, <1>2, <1>3 DEF SummaryInv, TypeInv, ExecutionsOK, SummaryIsTrue

LEMMA LookStep ==
  ASSUME SummaryInv, NEW p \in Analyses, Look(p)
  PROVE  SummaryInv'
<1> DEFINE m == at[p].monitor
<1>1. /\ at[p] \in AnalysisRec /\ m \in Monitors /\ at[p].pc = "look"
      /\ UNCHANGED <<callsFail, executions, events, requests, asked, weekly, week, said>>
  BY DEF Look, SummaryInv, TypeInv, AnalysisRec
<1>2. p = Script => weekly.pc = "script" /\ ~at[p].triggered
  BY <1>1 DEF SummaryInv, TypeInv, ScriptBelongs, NotesAreTrue
<1>3. CASE Drifts(m) /\ at' = [at EXCEPT ![p].pc = "trigger", ![p].newest = Len(executions[m])]
  <2> DEFINE to == [at[p] EXCEPT !.pc = "trigger", !.newest = Len(executions[m])]
  <2>1. executions[m] \in Seq(ExecutionRec) /\ executions[m] # <<>>
    BY <1>1, <1>3 DEF Drifts, SummaryInv, TypeInv, ExecutionsOK
  <2>2. Len(executions[m]) \in Nat /\ Len(executions[m]) >= 1
    BY <2>1
  <2>3. /\ to \in AnalysisRec /\ to.monitor = m /\ to.newest = Len(executions[m])
        /\ to.pc = "trigger" /\ to.triggered = at[p].triggered
    BY <1>1, <2>2 DEF AnalysisRec
  <2>4. at' = [at EXCEPT ![p] = to]
    BY <1>3
  <2> HIDE DEF to, m
  <2>5. to.newest \in 1..Len(executions[to.monitor])
    BY <2>2, <2>3
  <2>6. asked' = asked /\ asked' \subseteq Weeks /\ events' \subseteq Events /\ requests' \subseteq Executions
    BY <1>1 DEF SummaryInv, TypeInv
  <2> QED
    BY <1>1, <1>2, <2>3, <2>4, <2>5, <2>6, AnalysisMoves
<1>4. CASE at' = [at EXCEPT ![p] = Analysed(p, FALSE)]
  <2>1. asked' = asked /\ asked' \subseteq Weeks /\ events' \subseteq Events /\ requests' \subseteq Executions
    BY <1>1 DEF SummaryInv, TypeInv
  <2>2. /\ Analysed(p, FALSE) \in AnalysisRec /\ Analysed(p, FALSE).pc # "trigger"
        /\ p = Script => ~Analysed(p, FALSE).triggered
    BY AnalysedType
  <2> QED
    BY <1>1, <1>2, <1>4, <2>1, <2>2, AnalysisMoves
<1> QED
  BY <1>3, <1>4 DEF Look

LEMMA TriggerStep ==
  ASSUME SummaryInv, NEW p \in Analyses, Trigger(p)
  PROVE  SummaryInv'
<1>1. /\ at[p] \in AnalysisRec /\ at[p].monitor \in Monitors /\ at[p].pc = "trigger"
      /\ UNCHANGED <<callsFail, executions, events, weekly, week, said>>
  BY DEF Trigger, SummaryInv, TypeInv, AnalysisRec
<1>2. PICK posted \in BOOLEAN, answered \in BOOLEAN :
        /\ at' = [at EXCEPT ![p] = Analysed(p, Triggered(posted, answered))]
        /\ requests' = requests \cup (IF posted THEN {<<at[p].monitor, at[p].newest>>} ELSE {})
        /\ asked' = asked \cup (IF posted /\ p = Script THEN {week} ELSE {})
  BY DEF Trigger
<1> DEFINE to == Analysed(p, Triggered(posted, answered))
<1>3. Triggered(posted, answered) \in BOOLEAN /\ (Triggered(posted, answered) => posted)
  BY DEF Triggered
<1>4. p = Script => weekly.pc = "script" /\ week \in Weeks
  BY <1>1 DEF SummaryInv, TypeInv, ScriptBelongs
<1>5. <<at[p].monitor, at[p].newest>> \in Executions
  <2>1. Len(executions[at[p].monitor]) \in Nat /\ Len(executions[at[p].monitor]) <= LastExecution
    BY <1>1, DriftAssumption DEF SummaryInv, TypeInv, ExecutionsOK, Monitors
  <2>2. at[p].newest \in 1..Len(executions[at[p].monitor])
    BY <1>1 DEF SummaryInv, TypeInv, NewestExists
  <2>3. at[p].newest \in 1..LastExecution
    BY <2>1, <2>2, DriftAssumption
  <2> QED
    BY <1>1, <2>3 DEF Executions
<1>6. /\ requests' \subseteq Executions /\ asked \subseteq asked' /\ asked' \subseteq Weeks
      /\ events' \subseteq Events
  BY <1>1, <1>2, <1>4, <1>5 DEF SummaryInv, TypeInv
<1>7. /\ to \in AnalysisRec /\ to.pc # "trigger" /\ (p # Script => to = NoAnalysis)
      /\ p = Script => to.pc = "record" /\ to.triggered = Triggered(posted, answered)
  BY <1>3, AnalysedType
<1>8. p = Script /\ to.triggered => to.pc = "record" /\ week \in asked'
  BY <1>2, <1>3, <1>7
<1>9. at' = [at EXCEPT ![p] = to]
  BY <1>2
<1> HIDE DEF to
<1> QED
  BY <1>1, <1>4, <1>6, <1>7, <1>8, <1>9, AnalysisMoves

LEMMA RaisesStep ==
  ASSUME SummaryInv, NEW p \in Analyses, AnalysisRaises(p)
  PROVE  SummaryInv'
<1>1. /\ at' = [at EXCEPT ![p] = NoAnalysis]
      /\ UNCHANGED <<callsFail, executions, events, requests, asked, weekly, week, said>>
  BY DEF AnalysisRaises
<1>2. NoAnalysis.pc = "idle" /\ ~NoAnalysis.triggered
  BY DEF NoAnalysis
<1>3. asked \subseteq asked' /\ asked' \subseteq Weeks /\ events' \subseteq Events /\ requests' \subseteq Executions
  BY <1>1 DEF SummaryInv, TypeInv
<1> QED
  BY <1>1, <1>2, <1>3, NoAnalysisType, AnalysisMoves

LEMMA HandlerStep ==
  ASSUME SummaryInv, NEW e \in Events, Handler(e)
  PROVE  SummaryInv'
<1>1. /\ e.of \in Executions /\ e.of \in Analyses /\ e.of # Script /\ e.of[1] \in Monitors
      /\ at[e.of] \in AnalysisRec /\ at[e.of].pc = "idle"
  BY ScriptApart DEF Handler, Events, SummaryInv, TypeInv
<1>2. /\ events' \subseteq Events
      /\ UNCHANGED <<callsFail, executions, requests, asked, weekly, week, said>>
  BY DEF Handler, SummaryInv, TypeInv
<1>3. CASE at' = at
  BY <1>2, <1>3
  DEF SummaryInv, TypeInv, ExecutionsOK, NewestExists, ScriptBelongs, NotesAreTrue, SummaryIsTrue
<1>4. CASE at' = [at EXCEPT ![e.of].pc = "look", ![e.of].monitor = e.of[1]]
  <2> DEFINE to == [at[e.of] EXCEPT !.pc = "look", !.monitor = e.of[1]]
  <2>1. to \in AnalysisRec /\ to.pc = "look"
    BY <1>1 DEF AnalysisRec
  <2>2. at' = [at EXCEPT ![e.of] = to]
    BY <1>4
  <2> HIDE DEF to
  <2>3. asked \subseteq asked' /\ asked' \subseteq Weeks /\ requests' \subseteq Executions
    BY <1>2 DEF SummaryInv, TypeInv
  <2> QED
    BY <1>1, <1>2, <2>1, <2>2, <2>3, AnalysisMoves
<1> QED
  BY <1>3, <1>4 DEF Handler

(* Record hands a note over to the result file; main is still under way.    *)
LEMMA RecordStep ==
  ASSUME SummaryInv, Record
  PROVE  SummaryInv'
<1> DEFINE m  == at[Script].monitor
           to == IF m = "data_quality"
                 THEN [NoAnalysis EXCEPT !.pc = "look", !.monitor = "model_quality"]
                 ELSE NoAnalysis
<1>1. /\ at[Script] \in AnalysisRec /\ m \in Monitors /\ at[Script].pc = "record"
      /\ UNCHANGED <<callsFail, executions, events, requests, asked, week, said>>
  BY ScriptApart DEF Record, SummaryInv, TypeInv, AnalysisRec
<1>2. weekly.pc = "script" /\ weekly \in WeeklyRec
  BY <1>1 DEF SummaryInv, TypeInv, ScriptBelongs
<1>3. /\ weekly' = [weekly EXCEPT !.result[m] = at[Script].triggered, !.file = m = "model_quality"]
      /\ at' = [at EXCEPT ![Script] = to]
  BY DEF Record
<1>4. to \in AnalysisRec /\ to.pc \in {"idle", "look"} /\ ~to.triggered
  BY DEF NoAnalysis, AnalysisRec, Monitors
<1> HIDE DEF to, m
<1>5. /\ at' \in [Analyses -> AnalysisRec]
      /\ \A p \in Analyses : at'[p] = IF p = Script THEN to ELSE at[p]
  BY <1>3, <1>4 DEF SummaryInv, TypeInv
<1>6. /\ weekly' \in WeeklyRec /\ weekly'.pc = "script" /\ weekly'.xcom = weekly.xcom
      /\ \A x \in Monitors : weekly'.result[x] = IF x = m THEN at[Script].triggered ELSE weekly.result[x]
  BY <1>1, <1>2, <1>3 DEF WeeklyRec, AnalysisRec
<1>7. NewestExists'
  BY <1>1, <1>4, <1>5 DEF SummaryInv, TypeInv, NewestExists
<1>8. ScriptBelongs'
  BY <1>1, <1>2, <1>6 DEF SummaryInv, TypeInv, ScriptBelongs
<1>9. NotesAreTrue'
  <2>1. ~at'[Script].triggered
    BY <1>4, <1>5, ScriptApart
  <2>2. \A x \in Monitors : weekly'.result[x] => week \in asked
    BY <1>1, <1>6 DEF SummaryInv, NotesAreTrue
  <2>3. weekly'.xcom => week \in asked
    BY <1>6 DEF SummaryInv, NotesAreTrue
  <2> QED
    BY <1>1, <2>1, <2>2, <2>3 DEF NotesAreTrue
<1> QED
  BY <1>1, <1>5, <1>6, <1>7, <1>8, <1>9 DEF SummaryInv, TypeInv, ExecutionsOK, SummaryIsTrue

-----------------------------------------------------------------------------
(* The weekly DAG, with no script under way before or after the step.       *)
LEMMA WeeklyMoves ==
  ASSUME SummaryInv, weekly' \in WeeklyRec, weekly'.pc # "script", at[Script].pc = "idle",
         weekly'.pc # "idle" => week \in Weeks,
         \A m \in Monitors : weekly'.result[m] => week \in asked,
         weekly'.xcom => week \in asked,
         said' \subseteq Weeks, said' \subseteq asked,
         UNCHANGED <<callsFail, executions, events, at, requests, asked, week>>
  PROVE  SummaryInv'
BY DEF SummaryInv, TypeInv, ExecutionsOK, NewestExists, ScriptBelongs, NotesAreTrue, SummaryIsTrue

(* A task that raises, with no script under way. *)
LEMMA WeeklyRaises ==
  ASSUME SummaryInv, NEW first \in WeeklySteps, first # "idle", first # "script", TaskFails(first),
         weekly.pc # "idle", at[Script].pc = "idle",
         UNCHANGED <<callsFail, executions, events, at, requests, asked, week, said>>
  PROVE  SummaryInv'
<1>1. /\ weekly' \in WeeklyRec
      /\ weekly'.pc # "script"
      /\ \/ weekly' = NoWeek
         \/ weekly'.pc # "idle" /\ weekly'.result = weekly.result /\ weekly'.xcom = weekly.xcom
  BY TaskFailsKeeps DEF SummaryInv, TypeInv
<1>2. week \in Weeks
  BY DEF SummaryInv, TypeInv, ScriptBelongs
<1>3. \A m \in Monitors : ~NoWeek.result[m] /\ ~NoWeek.xcom
  BY DEF NoWeek
<1>4. /\ \A m \in Monitors : weekly'.result[m] => week \in asked
      /\ weekly'.xcom => week \in asked
  BY <1>1, <1>3 DEF SummaryInv, NotesAreTrue, Monitors
<1> QED
  BY <1>1, <1>2, <1>4, WeeklyMoves DEF SummaryInv, TypeInv, SummaryIsTrue

LEMMA StartWeekStep ==
  ASSUME SummaryInv, StartWeek
  PROVE  SummaryInv'
<1>1. /\ weekly.pc = "idle" /\ week < LastWeek /\ week' = week + 1
      /\ weekly' = [NoWeek EXCEPT !.pc = "collect_ground_truth"]
      /\ UNCHANGED <<callsFail, executions, events, at, requests, asked, said>>
  BY DEF StartWeek
<1>2. week' \in 0..LastWeek /\ week' \in Weeks
  BY <1>1, DriftAssumption DEF SummaryInv, TypeInv, Weeks
<1>3. /\ weekly' \in WeeklyRec /\ \A m \in Monitors : ~weekly'.result[m]
      /\ ~weekly'.xcom
  BY <1>1, NoWeekType, WeeklyStepsAre DEF NoWeek, WeeklyRec
<1>4. at[Script].pc = "idle" /\ ~at[Script].triggered
  BY <1>1 DEF SummaryInv, TypeInv, ScriptBelongs, NotesAreTrue
<1> QED
  BY <1>1, <1>2, <1>3, <1>4
  DEF SummaryInv, TypeInv, ExecutionsOK, NewestExists, ScriptBelongs, NotesAreTrue, SummaryIsTrue

LEMMA TaskStep ==
  ASSUME SummaryInv, Task
  PROVE  SummaryInv'
<1>1. /\ weekly.pc \in DOMAIN Then
      /\ UNCHANGED <<callsFail, executions, events, at, requests, asked, week, said>>
  BY DEF Task
<1>2. weekly.pc \in WeeklySteps /\ weekly.pc # "idle" /\ weekly.pc # "script"
  BY <1>1, ThenStays
<1>3. at[Script].pc = "idle" /\ week \in Weeks
  BY <1>2 DEF SummaryInv, TypeInv, ScriptBelongs
<1>4. CASE \E next \in Then[weekly.pc] : TaskDone(next)
  <2>1. PICK next \in Then[weekly.pc] : weekly' = [weekly EXCEPT !.pc = next, !.tries = 0]
    BY <1>4 DEF TaskDone
  <2>2. next \in WeeklySteps /\ next # "script" /\ 0 \in 0..Retries
    BY <1>1, ThenStays, DriftAssumption
  <2>3. /\ weekly' \in WeeklyRec /\ weekly'.pc = next
        /\ weekly'.result = weekly.result /\ weekly'.xcom = weekly.xcom
    BY <2>1, <2>2 DEF SummaryInv, TypeInv, WeeklyRec
  <2> QED
    BY <1>1, <1>3, <2>2, <2>3, WeeklyMoves DEF SummaryInv, TypeInv, NotesAreTrue, SummaryIsTrue
<1>5. CASE TaskFails(weekly.pc)
  BY <1>1, <1>2, <1>3, <1>5, WeeklyRaises
<1> QED
  BY <1>4, <1>5 DEF Task

LEMMA RunDriftAnalysisStep ==
  ASSUME SummaryInv, RunDriftAnalysis
  PROVE  SummaryInv'
<1> DEFINE to == [at[Script] EXCEPT !.pc = "look"]
<1>1. /\ weekly.pc = "run_drift_analysis"
      /\ weekly' = [weekly EXCEPT !.pc = "script", !.result = NoWeek.result, !.file = FALSE]
      /\ at' = [at EXCEPT ![Script] = to]
      /\ UNCHANGED <<callsFail, executions, events, requests, asked, week, said>>
  BY DEF RunDriftAnalysis
<1>2. at[Script].pc = "idle" /\ ~at[Script].triggered /\ week \in Weeks
  BY <1>1 DEF SummaryInv, TypeInv, ScriptBelongs, NotesAreTrue
<1>3. to \in AnalysisRec /\ to.pc = "look" /\ ~to.triggered
  BY <1>2, ScriptApart DEF SummaryInv, TypeInv, AnalysisRec
<1>4. /\ weekly' \in WeeklyRec /\ weekly'.pc = "script" /\ weekly'.xcom = weekly.xcom
      /\ \A m \in Monitors : ~weekly'.result[m]
  BY <1>1, WeeklyStepsAre DEF NoWeek, WeeklyRec, SummaryInv, TypeInv
<1> HIDE DEF to
<1>5. /\ at' \in [Analyses -> AnalysisRec]
      /\ \A p \in Analyses : at'[p] = IF p = Script THEN to ELSE at[p]
  BY <1>1, <1>3 DEF SummaryInv, TypeInv
<1>6. NewestExists'
  BY <1>1, <1>3, <1>5 DEF SummaryInv, TypeInv, NewestExists
<1>7. ScriptBelongs' /\ NotesAreTrue'
  BY <1>1, <1>2, <1>3, <1>4, <1>5, ScriptApart DEF SummaryInv, ScriptBelongs, NotesAreTrue
<1> QED
  BY <1>1, <1>4, <1>5, <1>6, <1>7 DEF SummaryInv, TypeInv, ExecutionsOK, SummaryIsTrue

LEMMA ReadResultStep ==
  ASSUME SummaryInv, ReadResult
  PROVE  SummaryInv'
<1>1. /\ weekly.pc = "script" /\ at[Script].pc = "idle"
      /\ UNCHANGED <<callsFail, executions, events, at, requests, asked, week, said>>
  BY DEF ReadResult
<1>2. week \in Weeks /\ weekly \in WeeklyRec
  BY <1>1 DEF SummaryInv, TypeInv, ScriptBelongs
<1>3. CASE weekly' = [weekly EXCEPT !.pc = "should_recapture_baseline", !.tries = 0,
                        !.xcom = weekly.file /\ \E m \in Monitors : weekly.result[m],
                        !.file = FALSE, !.result = NoWeek.result]
  <2> DEFINE drift == weekly.file /\ \E m \in Monitors : weekly.result[m]
  <2>1. drift \in BOOLEAN /\ (drift => week \in asked)
    BY DEF SummaryInv, NotesAreTrue
  <2>2. weekly' = [weekly EXCEPT !.pc = "should_recapture_baseline", !.tries = 0,
                     !.xcom = drift, !.file = FALSE, !.result = NoWeek.result]
    BY <1>3
  <2> HIDE DEF drift
  <2>3. "should_recapture_baseline" \in WeeklySteps /\ 0 \in 0..Retries
        /\ NoWeek.result \in [Monitors -> BOOLEAN] /\ \A m \in Monitors : ~NoWeek.result[m]
    BY WeeklyStepsAre, DriftAssumption DEF NoWeek
  <2>4. /\ weekly' \in WeeklyRec /\ weekly'.pc = "should_recapture_baseline"
        /\ weekly'.result = NoWeek.result /\ weekly'.xcom = drift
    BY <1>2, <2>1, <2>2, <2>3 DEF WeeklyRec
  <2> QED
    BY <1>1, <1>2, <2>1, <2>3, <2>4, WeeklyMoves DEF SummaryInv, TypeInv, SummaryIsTrue
<1>4. CASE TaskFails("run_drift_analysis")
  <2>1. "run_drift_analysis" \in WeeklySteps
    BY WeeklyStepsAre
  <2> QED
    BY <1>1, <1>4, <2>1, WeeklyRaises
<1> QED
  BY <1>3, <1>4 DEF ReadResult

LEMMA DriftTaskDiesStep ==
  ASSUME SummaryInv, DriftTaskDies
  PROVE  SummaryInv'
<1>1. /\ weekly.pc = "script" /\ at' = [at EXCEPT ![Script] = NoAnalysis]
      /\ TaskFails("run_drift_analysis")
      /\ UNCHANGED <<callsFail, executions, events, requests, asked, week, said>>
  BY DEF DriftTaskDies
<1>2. /\ weekly' \in WeeklyRec
      /\ \/ weekly' = NoWeek
         \/ weekly'.pc # "idle" /\ weekly'.result = weekly.result /\ weekly'.xcom = weekly.xcom
  BY <1>1, WeeklyStepsAre, TaskFailsKeeps DEF SummaryInv, TypeInv
<1>3. /\ at' \in [Analyses -> AnalysisRec]
      /\ \A p \in Analyses : at'[p] = IF p = Script THEN NoAnalysis ELSE at[p]
  BY <1>1, NoAnalysisType DEF SummaryInv, TypeInv
<1>4. NoAnalysis.pc = "idle" /\ ~NoAnalysis.triggered
  BY DEF NoAnalysis
<1>5. NewestExists'
  BY <1>1, <1>3, <1>4 DEF SummaryInv, TypeInv, NewestExists
<1>6. ScriptBelongs'
  BY <1>1, <1>3, <1>4, ScriptApart DEF SummaryInv, TypeInv, ScriptBelongs
<1>7. \A m \in Monitors : ~NoWeek.result[m] /\ ~NoWeek.xcom
  BY DEF NoWeek
<1>8. NotesAreTrue'
  BY <1>1, <1>2, <1>3, <1>4, <1>7, ScriptApart DEF SummaryInv, NotesAreTrue, Monitors
<1> QED
  BY <1>1, <1>2, <1>3, <1>5, <1>6, <1>8 DEF SummaryInv, TypeInv, ExecutionsOK, SummaryIsTrue

LEMMA EmitStep ==
  ASSUME SummaryInv, EmitWeeklySummary
  PROVE  SummaryInv'
<1>1. /\ weekly.pc = "emit_weekly_summary"
      /\ UNCHANGED <<callsFail, executions, events, at, requests, asked, week>>
  BY DEF EmitWeeklySummary
<1>2. at[Script].pc = "idle" /\ week \in Weeks
  BY <1>1 DEF SummaryInv, TypeInv, ScriptBelongs
<1>3. CASE weekly' = NoWeek /\ said' = IF weekly.xcom THEN said \cup {week} ELSE said
  <2>1. /\ NoWeek.pc = "idle" /\ ~NoWeek.xcom
        /\ \A m \in Monitors : ~NoWeek.result[m]
    BY DEF NoWeek
  <2>2. said' \subseteq Weeks /\ said' \subseteq asked
    BY <1>2, <1>3 DEF SummaryInv, TypeInv, NotesAreTrue, SummaryIsTrue
  <2> QED
    BY <1>1, <1>2, <1>3, <2>1, <2>2, NoWeekType, WeeklyMoves
<1>4. CASE TaskFails("emit_weekly_summary") /\ UNCHANGED said
  <2>1. "emit_weekly_summary" \in WeeklySteps
    BY WeeklyStepsAre
  <2> QED
    BY <1>1, <1>2, <1>4, <2>1, WeeklyRaises
<1> QED
  BY <1>3, <1>4 DEF EmitWeeklySummary

-----------------------------------------------------------------------------
LEMMA SummaryStep == SummaryInv /\ [Next]_vars => SummaryInv'
<1> SUFFICES ASSUME SummaryInv, [Next]_vars PROVE SummaryInv'
  OBVIOUS
<1>1. ASSUME NEW m \in Monitors, StartExecution(m) \/ EndExecution(m) PROVE SummaryInv'
  BY <1>1, SageMakerStep
<1>2. ASSUME NEW e \in Events, Handler(e) PROVE SummaryInv'
  BY <1>2, HandlerStep
<1>3. ASSUME NEW p \in Analyses, AnalysisStep(p) PROVE SummaryInv'
  BY <1>3, LookStep, TriggerStep, RecordStep, RaisesStep DEF AnalysisStep
<1>4. CASE StartWeek
  BY <1>4, StartWeekStep
<1>5. CASE WeeklyStep
  BY <1>5, TaskStep, RunDriftAnalysisStep, ReadResultStep, DriftTaskDiesStep, EmitStep
  DEF WeeklyStep
<1>6. CASE UNCHANGED vars
  BY <1>6 DEF vars, SummaryInv, TypeInv, ExecutionsOK, NewestExists, ScriptBelongs,
              NotesAreTrue, SummaryIsTrue
<1> QED
  BY <1>1, <1>2, <1>3, <1>4, <1>5, <1>6 DEF Next

LEMMA SummaryHolds == Spec => []SummaryInv
BY InitSummary, SummaryStep, PTL DEF Spec

(* Every variable keeps its type: a training run is asked for on executions  *)
(* there are, and a script runs within a weekly run only.                    *)
THEOREM DriftTypes == Spec => []TypeOK
<1>1. SummaryInv => TypeOK
  <2> SUFFICES ASSUME SummaryInv PROVE TypeOK
    OBVIOUS
  <2>1. \A m \in Monitors :
          /\ Len(executions[m]) <= LastExecution
          /\ \A n \in 1..Len(executions[m]) : executions[m][n].status \in Statuses
    <3> TAKE m \in Monitors
    <3>1. executions[m] \in Seq(ExecutionRec)
      BY DEF SummaryInv, TypeInv, ExecutionsOK
    <3>2. Len(executions[m]) <= LastExecution
      BY DriftAssumption DEF SummaryInv, TypeInv, ExecutionsOK, Monitors
    <3>3. \A n \in 1..Len(executions[m]) : executions[m][n] \in ExecutionRec
      BY <3>1, ElementOfSeq
    <3> QED
      BY <3>2, <3>3 DEF ExecutionRec
  <2>2. weekly.pc \in WeeklySteps /\ weekly.tries \in 0..Retries
    BY DEF SummaryInv, TypeInv, WeeklyRec
  <2> QED
    BY <2>1, <2>2 DEF SummaryInv, TypeInv, TypeOK, AnalysisRec, WeeklySteps
<1> QED
  BY <1>1, SummaryHolds, PTL

(* A summary that says training was asked for is right, whichever attempt,   *)
(* script or worker died on the way.                                         *)
THEOREM SummariesAreTrue == Spec => []SummaryIsTrue
<1>1. SummaryInv => SummaryIsTrue
  BY DEF SummaryInv
<1> QED
  BY <1>1, SummaryHolds, PTL
=============================================================================
