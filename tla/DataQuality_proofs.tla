-------------------------- MODULE DataQuality_proofs --------------------------
(***************************************************************************)
(* Proofs about DataQuality for every length of the hour, every freshness   *)
(* threshold and every bound on the time.                                   *)
(***************************************************************************)
EXTENDS DataQuality, TLAPS

-----------------------------------------------------------------------------
(* The schedule's arithmetic: multiples of the hour. *)

LEMMA MultipleOf == \A n \in Nat : n % Hour = 0 => \E k \in Nat : n = Hour * k
BY QualityAssumption, SMT

LEMMA OfMultiple == ASSUME NEW n \in Nat, NEW k \in Nat, n = Hour * k PROVE n % Hour = 0
BY QualityAssumption, SMT

LEMMA NextHour == \A n \in Nat : n % Hour = 0 => (n + Hour) % Hour = 0
<1> SUFFICES ASSUME NEW n \in Nat, n % Hour = 0 PROVE (n + Hour) % Hour = 0
  OBVIOUS
<1>1. PICK k \in Nat : n = Hour * k
  BY MultipleOf
<1>2. n + Hour = Hour * (k + 1)
  BY <1>1, QualityAssumption, SMT
<1>3. n + Hour \in Nat /\ k + 1 \in Nat
  BY QualityAssumption
<1> QED
  BY <1>2, <1>3, OfMultiple

LEMMA FirstHour == 0 % Hour = 0
BY QualityAssumption, SMT

(***************************************************************************)
(* Types.                                                                  *)
(***************************************************************************)
Results == {"none", "ok", "issue", "raised"}

LEMMA NewRunType ==
  ASSUME now \in Ticks
  PROVE  /\ NewRun \in [on: BOOLEAN, at: -1..LastTick, met: SUBSET Checks, alerts: SUBSET Alerts,
                        result: [Checks -> Results]]
         /\ NewRun.met = {} /\ NewRun.alerts = {} /\ NewRun.on /\ NewRun.at = now
         /\ NewRun.result = NoResult
BY QualityAssumption DEF NewRun, NoResult, Results, Ticks

LEMMA InitType == Init => TypeOK
<1> SUFFICES ASSUME Init PROVE TypeOK
  OBVIOUS
<1>1. -1 \in -1..LastTick /\ 0 \in Ticks
  BY QualityAssumption DEF Ticks
<1>2. NoResult \in [Checks -> Results]
  BY DEF NoResult, Results
<1> QED
  BY <1>1, <1>2 DEF Init, TypeOK, Results

(* The one way a check leaves a result. *)
LEMMA EndsType ==
  ASSUME TypeOK, NEW c \in Checks, NEW met \in BOOLEAN, NEW result \in Results,
         Ends(c, met, result), met => result \in {"issue", "raised"}
  PROVE  TypeOK'
<1> DEFINE own == IF result = "raised" THEN {Alert(c, {}, {})} ELSE {}
<1>0. own \subseteq Alerts
  BY DEF Alert, Alerts, Tasks
<1>1. /\ run' = [run EXCEPT !.result = [run.result EXCEPT ![c] = result],
                            !.met = IF met THEN run.met \cup {c} ELSE run.met,
                            !.alerts = run.alerts \cup own]
      /\ run.on /\ run.result[c] = "none"
  BY DEF Ends
<1> HIDE DEF own
<1>2. run'.result = [run.result EXCEPT ![c] = result] /\ run'.met \subseteq run.met \cup {c}
  BY <1>1 DEF TypeOK
<1>3. run' \in [on: BOOLEAN, at: -1..LastTick, met: SUBSET Checks, alerts: SUBSET Alerts,
                result: [Checks -> Results]]
  BY <1>0, <1>1 DEF TypeOK, Results
<1>4. run'.met \subseteq {x \in Checks : run'.result[x] \in {"issue", "raised"}}
  BY <1>1, <1>2 DEF TypeOK
<1>5. UNCHANGED <<now, sent, written, lastSaid>>
  BY DEF Ends
<1> QED
  BY <1>3, <1>4, <1>5 DEF TypeOK, Results

(* Every check ends by Ends. *)
CheckStep == CheckKinesis \/ CheckS3 \/ CheckGlueAthena \/ CheckRaises

LEMMA CheckEnds ==
  ASSUME CheckStep
  PROVE  \E c \in Checks, met \in BOOLEAN, result \in Results :
           /\ Ends(c, met, result)
           /\ met => result \in {"issue", "raised"}
           /\ result = "issue" => met
           /\ result # "none"
           /\ c = "s3" /\ result = "ok" => IsStale(FALSE)
           /\ c = "kinesis" /\ result = "ok" => NoRecords(FALSE)
<1>1. CASE CheckKinesis
  <2>1. PICK none \in BOOLEAN, other \in BOOLEAN :
          /\ NoRecords(none)
          /\ Returns("kinesis", none \/ other) \/ Ends("kinesis", none \/ other, "raised")
    BY <1>1 DEF CheckKinesis
  <2>2. (none \/ other) \in BOOLEAN /\ "kinesis" \in Checks /\ "kinesis" # "s3"
    BY DEF Checks
  <2>3. CASE Ends("kinesis", none \/ other, "raised")
    BY <2>2, <2>3 DEF Results
  <2>4. CASE Returns("kinesis", none \/ other) /\ (none \/ other)
    <3>1. Ends("kinesis", none \/ other, "issue")
      BY <2>4 DEF Returns
    <3> QED
      BY <3>1, <2>2, <2>4 DEF Results
  <2>5. CASE Returns("kinesis", none \/ other) /\ ~(none \/ other)
    <3>1. Ends("kinesis", none \/ other, "ok")
      BY <2>5 DEF Returns
    <3>2. none = FALSE
      BY <2>5
    <3> QED
      BY <3>1, <3>2, <2>1, <2>2, <2>5 DEF Results
  <2> QED
    BY <2>1, <2>3, <2>4, <2>5
<1>2. CASE CheckS3
  <2>1. PICK stale \in BOOLEAN : IsStale(stale) /\ Returns("s3", stale)
    BY <1>2 DEF CheckS3
  <2>2. "s3" \in Checks /\ "s3" # "kinesis"
    BY DEF Checks
  <2>3. CASE stale
    BY <2>1, <2>2, <2>3 DEF Returns, Results
  <2>4. CASE ~stale
    <3>1. stale = FALSE
      BY <2>4
    <3>2. Ends("s3", FALSE, "ok")
      BY <2>1, <3>1 DEF Returns
    <3> QED
      BY <3>1, <3>2, <2>1, <2>2 DEF Results
  <2> QED
    BY <2>3, <2>4
<1>3. CASE CheckGlueAthena
  <2>1. PICK c \in {"glue", "athena"}, issue \in BOOLEAN : Returns(c, issue)
    BY <1>3 DEF CheckGlueAthena
  <2>2. c \in Checks /\ c # "s3" /\ c # "kinesis"
    BY DEF Checks
  <2> QED
    BY <2>1, <2>2 DEF Returns, Results
<1>4. CASE CheckRaises
  BY <1>4 DEF CheckRaises, Results
<1> QED
  BY <1>1, <1>2, <1>3, <1>4 DEF CheckStep

LEMMA NextSteps == Next => \/ Put \/ WriteFile \/ StartRun \/ CheckStep
                           \/ Aggregate \/ AggregateRaises \/ Tick
BY DEF Next, CheckStep

LEMMA EndRunType ==
  ASSUME TypeOK, NEW alerts, alerts \subseteq Alerts, EndRun(alerts)
  PROVE  TypeOK'
<1>1. NoResult \in [Checks -> Results]
  BY DEF NoResult, Results
<1>2. run' \in [on: BOOLEAN, at: -1..LastTick, met: SUBSET Checks, alerts: SUBSET Alerts,
                result: [Checks -> Results]] /\ ~run'.on
  BY <1>1 DEF EndRun, TypeOK, Results
<1>3. lastSaid' \in [Watching -> -1..LastTick] /\ UNCHANGED <<now, sent, written>>
  BY DEF EndRun, TypeOK
<1> QED
  BY <1>2, <1>3 DEF TypeOK, Results

(* The two ways the aggregation ends. *)
LEMMA AggregateEnds ==
  ASSUME Aggregate \/ AggregateRaises
  PROVE  \E alerts \in SUBSET Alerts :
           EndRun(alerts) /\ (Collected # {} => Collected \subseteq Told(alerts))
<1>1. Collected \subseteq Checks
  BY DEF Collected
<1>2. \A error \in {{}, Collected} :
        LET alerts == {Alert("aggregate", error, Collected)}
        IN  alerts \subseteq Alerts /\ Collected \subseteq Told(alerts)
  <2> SUFFICES ASSUME NEW error \in {{}, Collected}
               PROVE  LET alert == Alert("aggregate", error, Collected)
                      IN  alert \in Alerts /\ Collected \subseteq Told({alert})
    OBVIOUS
  <2>1. Alert("aggregate", error, Collected) \in Alerts
    BY <1>1 DEF Alert, Alerts, Tasks
  <2>2. \A c \in Collected : LeadsTo(Alert("aggregate", error, Collected), c)
    BY DEF Alert, LeadsTo
  <2> QED
    BY <1>1, <2>1, <2>2 DEF Told, Tasks
<1>3. CASE AggregateRaises
  BY <1>2, <1>3 DEF AggregateRaises
<1>4. CASE Aggregate /\ Collected = {}
  <2>1. EndRun({})
    BY <1>4 DEF Aggregate
  <2> QED
    BY <1>4, <2>1
<1>5. CASE Aggregate /\ Collected # {}
  <2>1. EndRun({Alert("aggregate", Collected, Collected)})
    BY <1>5 DEF Aggregate
  <2> QED
    BY <1>1, <1>2, <2>1
<1> QED
  BY <1>3, <1>4, <1>5

LEMMA TypeStep == TypeOK /\ [Next]_vars => TypeOK'
<1> SUFFICES ASSUME TypeOK, [Next]_vars PROVE TypeOK'
  OBVIOUS
<1>1. CASE Put
  BY <1>1, QualityAssumption DEF Put, TypeOK, Ticks
<1>2. CASE WriteFile
  BY <1>2, QualityAssumption DEF WriteFile, TypeOK, Ticks
<1>3. CASE StartRun
  BY <1>3, NewRunType DEF StartRun, TypeOK, Results
<1>4. CASE CheckStep
  BY <1>4, CheckEnds, EndsType
<1>5. CASE Aggregate \/ AggregateRaises
  BY <1>5, AggregateEnds, EndRunType
<1>7. CASE Tick
  BY <1>7, QualityAssumption DEF Tick, TypeOK, Ticks
<1>8. CASE UNCHANGED vars
  BY <1>8 DEF vars, TypeOK
<1> QED
  BY <1>1, <1>2, <1>3, <1>4, <1>5, <1>7, <1>8, NextSteps

(* Type correctness, with what a run met being among its own results.        *)
THEOREM QualityTypes == Spec => []TypeOK
BY InitType, TypeStep, PTL DEF Spec

(***************************************************************************)
(* Alerts.  While a run is on, the checks that raised have alerts of their   *)
(* own; with what the aggregation collects, that is every check that is not  *)
(* "ok", and those that met an issue are among them.                        *)
(***************************************************************************)
Raised == {c \in Checks : run.result[c] = "raised"}

RaisedTold == run.on => Raised \subseteq Told(run.alerts)

AlertInv == TypeOK /\ RaisedTold /\ NoIssueWithoutAlert

LEMMA MoreTold ==
  ASSUME NEW old, NEW more
  PROVE  Told(old \cup more) = Told(old) \cup Told(more)
BY DEF Told

LEMMA OwnTold == ASSUME NEW c \in Checks PROVE c \in Told({Alert(c, {}, {})})
BY DEF Told, Alert, LeadsTo, Tasks

LEMMA EndsTold ==
  ASSUME AlertInv, NEW c \in Checks, NEW met \in BOOLEAN, NEW result \in Results,
         Ends(c, met, result)
  PROVE  RaisedTold' /\ run'.on
<1>1. run.on /\ run'.on /\ run'.result = [run.result EXCEPT ![c] = result]
  BY DEF Ends, AlertInv, TypeOK
<1>2. Raised' \subseteq Raised \cup (IF result = "raised" THEN {c} ELSE {})
  BY <1>1 DEF Raised, AlertInv, TypeOK
<1>3. Raised \subseteq Told(run.alerts)
  BY <1>1 DEF AlertInv, RaisedTold
<1>4. CASE result = "raised"
  <2>1. run'.alerts = run.alerts \cup {Alert(c, {}, {})}
    BY <1>4 DEF Ends, AlertInv, TypeOK
  <2>2. Told(run'.alerts) = Told(run.alerts) \cup Told({Alert(c, {}, {})})
    BY <2>1, MoreTold
  <2>3. Raised' \subseteq Told(run'.alerts)
    BY <1>2, <1>3, <1>4, <2>2, OwnTold
  <2> QED
    BY <1>1, <2>3 DEF RaisedTold, Told
<1>5. CASE result # "raised"
  <2>1. run'.alerts = run.alerts
    BY <1>5 DEF Ends, AlertInv, TypeOK
  <2>2. Raised' \subseteq Told(run'.alerts)
    BY <1>2, <1>3, <1>5, <2>1
  <2> QED
    BY <1>1, <2>2 DEF RaisedTold, Told
<1> QED
  BY <1>1, <1>4, <1>5

(* A run that ends has alerts that lead to all checks that are not "ok". *)
LEMMA EndTold ==
  ASSUME TypeOK, RaisedTold, NEW alerts \in SUBSET Alerts, EndRun(alerts),
         Collected # {} => Collected \subseteq Told(alerts)
  PROVE  /\ Raised \cup Collected \subseteq Told(run.alerts \cup alerts)
         /\ run'.alerts = run.alerts \cup alerts
<1>1. Raised \subseteq Told(run.alerts) /\ run'.alerts = run.alerts \cup alerts
  BY DEF EndRun, TypeOK, RaisedTold
<1> QED
  BY <1>1, MoreTold

LEMMA AlertStep == AlertInv /\ [Next]_vars => AlertInv'
<1> SUFFICES ASSUME AlertInv, [Next]_vars PROVE AlertInv'
  OBVIOUS
<1>0. TypeOK /\ TypeOK'
  BY TypeStep DEF AlertInv
<1>1. CASE Put \/ WriteFile \/ Tick \/ UNCHANGED vars
  <2>1. UNCHANGED run
    BY <1>1 DEF Put, WriteFile, Tick, vars
  <2> QED
    BY <1>0, <2>1 DEF AlertInv, RaisedTold, Raised, NoIssueWithoutAlert, Told
<1>2. CASE StartRun
  <2>1. run'.on /\ run'.result = NoResult
    BY <1>0, <1>2, NewRunType DEF StartRun, TypeOK
  <2>2. Raised' = {}
    BY <2>1 DEF Raised, NoResult
  <2> QED
    BY <1>0, <2>1, <2>2 DEF AlertInv, RaisedTold, NoIssueWithoutAlert
<1>3. CASE CheckStep
  <2>1. PICK c \in Checks, met \in BOOLEAN, result \in Results : Ends(c, met, result)
    BY <1>3, CheckEnds
  <2> QED
    BY <1>0, <2>1, EndsTold DEF AlertInv, NoIssueWithoutAlert
<1>4. CASE Aggregate \/ AggregateRaises
  <2>1. PICK alerts \in SUBSET Alerts :
          EndRun(alerts) /\ (Collected # {} => Collected \subseteq Told(alerts))
    BY <1>4, AggregateEnds
  <2>2. run'.met = run.met /\ ~run'.on /\ run.on
    BY <1>0, <2>1 DEF EndRun, TypeOK
  <2>3. run.met \subseteq Raised \cup Collected
    BY <1>0, <2>2 DEF TypeOK, Raised, Collected
  <2>4. Raised \cup Collected \subseteq Told(run'.alerts)
    BY <2>1, EndTold DEF AlertInv
  <2>5. run'.met \subseteq Told(run'.alerts)
    BY <2>2, <2>3, <2>4
  <2> QED
    BY <1>0, <2>2, <2>5 DEF AlertInv, RaisedTold, NoIssueWithoutAlert, Told
<1> QED
  BY <1>1, <1>2, <1>3, <1>4, NextSteps

LEMMA InitAlert == Init => AlertInv
BY InitType DEF Init, AlertInv, RaisedTold, NoIssueWithoutAlert

LEMMA AlertsInv == Spec => []AlertInv
BY InitAlert, AlertStep, PTL DEF Spec

(* Whichever tasks of a run raise, an alert leads to every check that came   *)
(* upon an issue: its own, or that of the aggregation by its error or log.   *)
THEOREM IssuesReachAnAlert == Spec => []NoIssueWithoutAlert
BY AlertsInv, PTL DEF AlertInv

(***************************************************************************)
(* Outages.  The schedule keeps the newest run within an hour of now, and   *)
(* every run that is over has spoken of the bucket, or found a fresh file   *)
(* there, and likewise of the stream.                                       *)
(***************************************************************************)
OnTime ==
  /\ run.at >= 0 => run.at <= now /\ run.at % Hour = 0
  /\ run.at < 0 => now = 0 /\ ~run.on
  /\ run.on => now <= run.at + 1
  /\ now <= run.at + Hour

StaleHeard(at)  == at >= 0 => lastSaid["s3"] >= at \/ (written # -1 /\ written >= at - Fresh)
SilentHeard(at) == at >= 0 => lastSaid["kinesis"] >= at \/ sent >= at - 1

Heard ==
  /\ ~run.on => StaleHeard(run.at) /\ SilentHeard(run.at)
  /\ run.on => /\ StaleHeard(run.at - Hour) /\ SilentHeard(run.at - Hour)
               /\ run.result["s3"] = "ok" => written # -1 /\ written >= run.at - Fresh
               /\ run.result["kinesis"] = "ok" => sent >= run.at - 1

OutageInv == AlertInv /\ sent <= now /\ written <= now /\ OnTime /\ Heard

LEMMA InitOutage == Init => OutageInv
<1> SUFFICES ASSUME Init PROVE OutageInv
  OBVIOUS
<1>1. run.at = -1 /\ ~run.on /\ now = 0 /\ sent = -1 /\ written = -1
  BY DEF Init
<1>2. OnTime /\ Heard
  BY <1>1, QualityAssumption DEF OnTime, Heard, StaleHeard, SilentHeard
<1> QED
  BY <1>1, <1>2, InitAlert DEF OutageInv

(* The numbers of a state, for the steps below. *)
LEMMA Numbers ==
  ASSUME TypeOK
  PROVE  /\ now \in Nat /\ sent \in Int /\ written \in Int /\ run.at \in Int
         /\ lastSaid["s3"] \in Int /\ lastSaid["kinesis"] \in Int
         /\ sent >= -1 /\ written >= -1 /\ run.at >= -1
         /\ Hour \in Nat /\ Hour >= 2 /\ Fresh \in Nat
<1>1. "s3" \in Watching /\ "kinesis" \in Watching
  BY DEF Watching
<1> QED
  BY <1>1, QualityAssumption DEF TypeOK, Ticks

LEMMA TickOnTime ==
  ASSUME TypeOK, OnTime, Tick
  PROVE  now + 1 <= run.at + Hour /\ (run.on => now = run.at) /\ run.at >= 0
<1>1. ~Due /\ (run.on => run.at = now)
  BY DEF Tick
<1>2. run.at >= 0
  <2> SUFFICES ASSUME run.at < 0 PROVE FALSE
    BY Numbers
  <2>1. now = 0 /\ run.at # now
    BY Numbers DEF OnTime
  <2> QED
    BY <1>1, <2>1, FirstHour DEF Due
<1>3. now # run.at + Hour
  <2> SUFFICES ASSUME now = run.at + Hour PROVE FALSE
    OBVIOUS
  <2>1. now % Hour = 0
    BY <1>2, Numbers, NextHour DEF OnTime
  <2>2. run.at # now
    BY Numbers
  <2> QED
    BY <1>1, <2>1, <2>2 DEF Due
<1> QED
  BY <1>1, <1>2, <1>3, Numbers DEF OnTime

LEMMA EndHeard ==
  ASSUME OutageInv, AlertInv', NEW alerts \in SUBSET Alerts, EndRun(alerts),
         Collected # {} => Collected \subseteq Told(alerts)
  PROVE  OutageInv'
<1> DEFINE of == Told(run.alerts \cup alerts)
<1>1. Raised \cup Collected \subseteq of
  BY EndTold DEF OutageInv, AlertInv
<1>2. run'.at = run.at /\ ~run'.on /\ run.on /\ UNCHANGED <<now, sent, written>>
  BY DEF EndRun, OutageInv, AlertInv, TypeOK
<1>3. \A c \in Watching : c \in of => lastSaid'[c] = run.at
  BY DEF EndRun
<1>4. \A c \in Checks : c \in of \/ run.result[c] = "ok"
  <2> TAKE c \in Checks
  <2>1. run.result[c] \in {"ok", "issue", "raised"}
    BY DEF EndRun, OutageInv, AlertInv, TypeOK
  <2> QED
    BY <1>1, <2>1 DEF Raised, Collected
<1>5. "s3" \in Watching /\ "kinesis" \in Watching /\ "s3" \in Checks /\ "kinesis" \in Checks
  BY DEF Watching, Checks
<1>6. TypeOK
  BY DEF OutageInv, AlertInv
<1> HIDE DEF of
<1>7. StaleHeard(run.at)'
  BY <1>2, <1>3, <1>4, <1>5, <1>6, Numbers DEF OutageInv, Heard, StaleHeard
<1>8. SilentHeard(run.at)'
  BY <1>2, <1>3, <1>4, <1>5, <1>6, Numbers DEF OutageInv, Heard, SilentHeard
<1>9. OnTime'
  BY <1>2, <1>6 DEF OutageInv, OnTime
<1> QED
  BY <1>2, <1>7, <1>8, <1>9 DEF OutageInv, Heard

LEMMA OutageStep == OutageInv /\ [Next]_vars => OutageInv'
<1> SUFFICES ASSUME OutageInv, [Next]_vars PROVE OutageInv'
  OBVIOUS
<1> USE Numbers
<1>0. TypeOK /\ TypeOK' /\ AlertInv'
  BY AlertStep DEF OutageInv, AlertInv
<1>1. CASE Put
  BY <1>0, <1>1 DEF Put, OutageInv, OnTime, Heard, StaleHeard, SilentHeard
<1>2. CASE WriteFile
  BY <1>0, <1>2 DEF WriteFile, OutageInv, OnTime, Heard, StaleHeard, SilentHeard
<1>3. CASE StartRun
  <2>1. /\ run' = NewRun /\ ~run.on /\ UNCHANGED <<now, sent, written, lastSaid>>
        /\ now % Hour = 0
    BY <1>3 DEF StartRun, Due
  <2>2. /\ run'.at = now /\ run'.on
        /\ run'.result["s3"] = "none" /\ run'.result["kinesis"] = "none"
    BY <1>0, <2>1, NewRunType DEF NoResult, Checks, TypeOK
  <2>3. now - Hour <= run.at
    BY <1>0 DEF OutageInv, OnTime
  <2>4. StaleHeard(now - Hour) /\ SilentHeard(now - Hour)
    BY <1>0, <2>1, <2>3 DEF OutageInv, Heard, StaleHeard, SilentHeard
  <2>5. OnTime'
    BY <1>0, <2>1, <2>2 DEF OnTime
  <2>6. Heard'
    BY <2>1, <2>2, <2>4 DEF Heard, StaleHeard, SilentHeard
  <2> QED
    BY <1>0, <2>1, <2>5, <2>6 DEF OutageInv
<1>4. CASE CheckStep
  <2>1. PICK c \in Checks, met \in BOOLEAN, result \in Results :
          /\ Ends(c, met, result)
          /\ c = "s3" /\ result = "ok" => IsStale(FALSE)
          /\ c = "kinesis" /\ result = "ok" => NoRecords(FALSE)
    BY <1>4, CheckEnds
  <2>2. /\ run.on /\ UNCHANGED <<now, sent, written, lastSaid>>
        /\ run'.on /\ run'.at = run.at
        /\ run'.result = [run.result EXCEPT ![c] = result]
    BY <1>0, <2>1 DEF Ends, TypeOK
  <2>3. run.at >= 0
    BY <1>0, <2>2 DEF OutageInv, OnTime
  <2>4. run'.result["s3"] = "ok" => written # -1 /\ written >= run.at - Fresh
    <3>1. "s3" # c => run'.result["s3"] = run.result["s3"]
      BY <1>0, <2>2 DEF TypeOK, Checks
    <3>2. "s3" = c => run'.result["s3"] = result
      BY <1>0, <2>2 DEF TypeOK, Checks
    <3> QED
      BY <1>0, <2>1, <2>2, <3>1, <3>2 DEF OutageInv, Heard, IsStale
  <2>5. run'.result["kinesis"] = "ok" => sent >= run.at - 1
    <3>1. "kinesis" # c => run'.result["kinesis"] = run.result["kinesis"]
      BY <1>0, <2>2 DEF TypeOK, Checks
    <3>2. "kinesis" = c => run'.result["kinesis"] = result
      BY <1>0, <2>2 DEF TypeOK, Checks
    <3> QED
      BY <1>0, <2>1, <2>2, <2>3, <3>1, <3>2 DEF OutageInv, OnTime, Heard, NoRecords
  <2>6. OnTime'
    BY <1>0, <2>2 DEF OutageInv, OnTime
  <2>7. Heard'
    BY <2>2, <2>4, <2>5 DEF OutageInv, Heard, StaleHeard, SilentHeard
  <2> QED
    BY <1>0, <2>2, <2>6, <2>7 DEF OutageInv
<1>5. CASE Aggregate \/ AggregateRaises
  BY <1>0, <1>5, AggregateEnds, EndHeard
<1>7. CASE Tick
  <2>1. now + 1 <= run.at + Hour /\ (run.on => now = run.at) /\ run.at >= 0
    BY <1>0, <1>7, TickOnTime DEF OutageInv
  <2>2. now' = now + 1 /\ UNCHANGED <<sent, written, run, lastSaid>>
    BY <1>7 DEF Tick
  <2> QED
    BY <1>0, <2>1, <2>2 DEF OutageInv, OnTime, Heard, StaleHeard, SilentHeard
<1>8. CASE UNCHANGED vars
  BY <1>0, <1>8 DEF vars, OutageInv, OnTime, Heard, StaleHeard, SilentHeard
<1> QED
  BY <1>1, <1>2, <1>3, <1>4, <1>5, <1>7, <1>8, NextSteps

LEMMA OutageTold == OutageInv => StaleBucketSaid /\ SilentStreamSaid
<1> SUFFICES ASSUME OutageInv PROVE StaleBucketSaid /\ SilentStreamSaid
  OBVIOUS
<1> USE Numbers
<1>0. TypeOK
  BY DEF OutageInv, AlertInv
<1>1. StaleBucketSaid
  BY <1>0 DEF OutageInv, OnTime, Heard, StaleHeard, StaleBucketSaid
<1>2. SilentStreamSaid
  BY <1>0 DEF OutageInv, OnTime, Heard, SilentHeard, SilentStreamSaid
<1> QED
  BY <1>1, <1>2

LEMMA Outages == Spec => []OutageInv
BY InitOutage, OutageStep, PTL DEF Spec

(* Whatever the length of the hour and the freshness threshold, a bucket     *)
(* that got no file is told of within an hour and a run of becoming stale.   *)
THEOREM StaleBucketIsTold == Spec => []StaleBucketSaid
BY Outages, OutageTold, PTL

(* Likewise a stream that gets no events, from the last event on.            *)
THEOREM SilentStreamIsTold == Spec => []SilentStreamSaid
BY Outages, OutageTold, PTL
=============================================================================
