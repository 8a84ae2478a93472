------------------------- MODULE ModelRelease_proofs -------------------------
(***************************************************************************)
(* Proofs about ModelRelease for every set of versions, every set of       *)
(* operators, every number of retries and every length of the canary       *)
(* window.                                                                 *)
(***************************************************************************)
EXTENDS ModelRelease, TLAPS

(* Facts about the rule and registry updates that every step relies on. *)
LEMMA SplitType ==
  /\ Split(100, 0) \in [TargetGroups -> 0..100]
  /\ Split(90, 10) \in [TargetGroups -> 0..100]
  /\ Split(0, 100) \in [TargetGroups -> 0..100]
BY DEF Split, TargetGroups

LEMMA TransitionType ==
  ASSUME stage \in [Versions -> Stages],
         NEW v \in Versions, NEW to \in Stages, NEW archive \in BOOLEAN
  PROVE  Transition(v, to, archive) \in [Versions -> Stages]
BY DEF Transition, Stages

(* A failed task keeps its version, forgets what it read and stops or starts *)
(* again from the first line of the same script.                             *)
LEMMA TaskFailsType ==
  ASSUME release \in ReleaseRecords, NEW why \in Exits
  PROVE  /\ TaskFails(why) \in ReleaseRecords
         /\ TaskFails(why).v = release.v
         /\ TaskFails(why).seen = {}
         /\ TaskFails(why).pc \in {"idle", FirstStep}
<1>1. FirstStep \in {"route", "traffic"}
  BY DEF FirstStep
<1>2. CASE release.tries < Retries
  <2>1. TaskFails(why) =
          [release EXCEPT !.pc = FirstStep, !.checks = 0, !.seen = {}, !.tries = @ + 1]
    BY <1>2 DEF TaskFails
  <2>2. release.tries + 1 \in 0..Retries
    BY <1>2, ConstantsAssumption DEF ReleaseRecords
  <2>3. TaskFails(why) = [pc |-> FirstStep, v |-> release.v, tries |-> release.tries + 1,
                          checks |-> 0, seen |-> {}, exit |-> release.exit]
    BY <2>1 DEF ReleaseRecords
  <2> QED
    BY <2>2, <2>3, <1>1 DEF ReleaseRecords, CanarySteps, PromoteSteps
<1>3. CASE ~(release.tries < Retries)
  <2>1. TaskFails(why) =
          [release EXCEPT !.pc = "idle", !.checks = 0, !.seen = {}, !.tries = 0, !.exit = why]
    BY <1>3 DEF TaskFails
  <2>2. 0 \in 0..Retries
    BY ConstantsAssumption
  <2>3. TaskFails(why) = [pc |-> "idle", v |-> release.v, tries |-> 0,
                          checks |-> 0, seen |-> {}, exit |-> why]
    BY <2>1 DEF ReleaseRecords
  <2> QED
    BY <2>2, <2>3 DEF ReleaseRecords
<1> QED
  BY <1>2, <1>3

(* What a step of rollback.py does to its own record and to no other. *)
LEMMA GotoType ==
  ASSUME rb \in [Operators -> RollbackRecords],
         NEW o \in Operators, NEW pc \in RollbackSteps, NEW prev \in Versions \cup {None},
         Goto(o, pc, prev)
  PROVE  /\ rb' \in [Operators -> RollbackRecords]
         /\ rb'[o].pc = pc /\ rb'[o].failed = rb[o].failed /\ rb'[o].prev = prev
         /\ \A p \in Operators \ {o} : rb'[p] = rb[p]
BY DEF Goto, RollbackRecords

(***************************************************************************)
(* Type correctness.  A running script knows the version it works on.      *)
(***************************************************************************)
ReleaseBusy == release.pc # "idle" => release.v \in Versions

RollbackBusy ==
  \A o \in Operators :
    /\ rb[o].pc # "idle" => rb[o].failed \in Versions
    /\ rb[o].pc = "restore" => rb[o].prev \in Versions

TypeInv == TypeOK /\ ReleaseBusy /\ RollbackBusy

(* The record of an operator who runs no rollback. *)
LEMMA IdleType == Idle \in RollbackRecords
BY DEF Idle, RollbackRecords, RollbackSteps

LEMMA InitTypeInv == Init => TypeInv
<1> SUFFICES ASSUME Init PROVE TypeInv
  OBVIOUS
<1>1. weights \in [TargetGroups -> 0..100]
  BY SplitType DEF Init
<1>2. release \in ReleaseRecords /\ ReleaseBusy
  BY ConstantsAssumption DEF Init, ReleaseRecords, ReleaseBusy, Readings, Exits
<1>3. rb \in [Operators -> RollbackRecords] /\ RollbackBusy
  BY IdleType DEF Init, RollbackBusy, Idle
<1>4. stage \in [Versions -> Stages] /\ deployed \in [Versions -> Nat]
  BY DEF Init, Stages
<1> QED
  BY <1>1, <1>2, <1>3, <1>4 DEF Init, TypeInv, TypeOK

LEMMA ReleaseStepTypeInv == TypeInv /\ ReleaseStep => TypeInv'
<1> SUFFICES ASSUME TypeInv, ReleaseStep PROVE TypeInv'
  OBVIOUS
<1>a. release \in ReleaseRecords /\ stage \in [Versions -> Stages]
  BY DEF TypeInv, TypeOK
<1>1. CASE RouteCanary
  <2>1. release' \in ReleaseRecords /\ ReleaseBusy'
    BY <1>1, <1>a DEF RouteCanary, ReleaseRecords, CanarySteps, TypeInv, ReleaseBusy
  <2> QED
    BY <1>1, <2>1, SplitType
       DEF RouteCanary, TypeInv, TypeOK, RollbackBusy, bucket, history
<1>2. CASE \E reading \in Readings : CheckCanary(reading)
  <2> PICK reading \in Readings : CheckCanary(reading)
    BY <1>2
  <2> DEFINE next == IF release.checks + 1 < MaxChecks THEN "monitor" ELSE "tag"
  <2>1. ASSUME Breach(reading)
        PROVE  release' \in ReleaseRecords /\ release'.v = release.v
    <3>1. release' = [pc |-> "revert", v |-> release.v, tries |-> release.tries,
                      checks |-> 0, seen |-> {}, exit |-> release.exit]
      BY <2>1, <1>a DEF CheckCanary, ReleaseRecords
    <3> QED
      BY <3>1, <1>a DEF ReleaseRecords, CanarySteps
  <2>2. ASSUME ~Breach(reading)
        PROVE  release' \in ReleaseRecords /\ release'.v = release.v
    <3>1. release' = [pc |-> next, v |-> release.v, tries |-> release.tries,
                      checks |-> release.checks + 1,
                      seen |-> release.seen \cup {reading}, exit |-> release.exit]
      BY <2>2, <1>a DEF CheckCanary, ReleaseRecords
    <3>2. next \in {"monitor", "tag"}
      OBVIOUS
    <3> QED
      BY <3>1, <3>2, <1>a DEF ReleaseRecords, CanarySteps
  <2>3. release' \in ReleaseRecords /\ release'.v = release.v
    BY <2>1, <2>2
  <2>4. release.pc = "monitor"
    BY DEF CheckCanary
  <2> QED
    BY <2>3, <2>4
       DEF CheckCanary, TypeInv, TypeOK, ReleaseBusy, RollbackBusy, bucket, history
<1>3. CASE RevertCanary
  <2>1. release' \in ReleaseRecords /\ release'.v = release.v /\ release.pc = "revert"
    BY <1>3, <1>a, TaskFailsType DEF RevertCanary, Exits
  <2> QED
    BY <1>3, <2>1, SplitType
       DEF RevertCanary, TypeInv, TypeOK, ReleaseBusy, RollbackBusy, bucket, history
<1>4. CASE TagStaging
  <2>1. release' = [pc |-> "traffic", v |-> release.v, tries |-> 0, checks |-> 0,
                    seen |-> {}, exit |-> release.exit]
    BY <1>4, <1>a DEF TagStaging, ReleaseRecords
  <2>2. release' \in ReleaseRecords /\ release'.v = release.v /\ release.v \in Versions
    BY <1>4, <2>1, <1>a, ConstantsAssumption
       DEF TagStaging, ReleaseRecords, PromoteSteps, TypeInv, ReleaseBusy
  <2>3. stage' \in [Versions -> Stages]
    BY <1>4, <1>a, <2>2, TransitionType DEF TagStaging, Stages
  <2> QED
    BY <1>4, <2>2, <2>3
       DEF TagStaging, TypeInv, TypeOK, ReleaseBusy, RollbackBusy, bucket
<1>5. CASE PromoteTraffic
  <2>1. release' \in ReleaseRecords /\ ReleaseBusy'
    BY <1>5, <1>a DEF PromoteTraffic, ReleaseRecords, PromoteSteps, TypeInv, ReleaseBusy
  <2> QED
    BY <1>5, <2>1, SplitType
       DEF PromoteTraffic, TypeInv, TypeOK, RollbackBusy, bucket, history
<1>6. CASE PromoteStage
  <2>1. release' \in ReleaseRecords /\ ReleaseBusy' /\ release.v \in Versions
    BY <1>6, <1>a DEF PromoteStage, ReleaseRecords, PromoteSteps, TypeInv, ReleaseBusy
  <2>2. stage' \in [Versions -> Stages]
    BY <1>6, <1>a, <2>1, TransitionType DEF PromoteStage, Stages
  <2> QED
    BY <1>6, <2>1, <2>2 DEF PromoteStage, TypeInv, TypeOK, RollbackBusy, bucket
<1>7. CASE WriteRecord
  <2>1. release' \in ReleaseRecords /\ ReleaseBusy'
    BY <1>7, <1>a DEF WriteRecord, ReleaseRecords, PromoteSteps, TypeInv, ReleaseBusy
  <2>2. clock' \in Nat
    BY <1>7 DEF WriteRecord, TypeInv, TypeOK
  <2>3. deployed' \in [Versions -> Nat]
    BY <1>7, <2>2 DEF WriteRecord, TypeInv, TypeOK
  <2> QED
    BY <1>7, <2>1, <2>2, <2>3 DEF WriteRecord, TypeInv, TypeOK, RollbackBusy, history
<1>8. CASE WriteLatest
  <2>1. release' \in ReleaseRecords /\ ReleaseBusy'
    <3>1. CASE release' = [release EXCEPT !.pc = "idle", !.tries = 0, !.exit = "ok"]
      <4>1. release' = [pc |-> "idle", v |-> release.v, tries |-> 0, checks |-> release.checks,
                        seen |-> release.seen, exit |-> "ok"]
        BY <3>1, <1>a DEF ReleaseRecords
      <4> QED
        BY <4>1, <1>a, ConstantsAssumption DEF ReleaseRecords, Exits, ReleaseBusy
    <3>2. CASE release' = TaskFails("error")
      <4>1. release' \in ReleaseRecords /\ release'.v = release.v /\ release.pc # "idle"
        BY <1>8, <3>2, <1>a, TaskFailsType DEF WriteLatest, Exits
      <4> QED
        BY <4>1 DEF TypeInv, ReleaseBusy
    <3> QED
      BY <1>8, <3>1, <3>2 DEF WriteLatest
  <2>2. latest' \in Versions \cup {None}
    BY <1>8 DEF WriteLatest, TypeInv, ReleaseBusy
  <2> QED
    BY <1>8, <2>1, <2>2 DEF WriteLatest, TypeInv, TypeOK, RollbackBusy, history
<1>9. CASE ReleaseError
  <2>1. release' \in ReleaseRecords /\ release'.v = release.v /\ release.pc # "idle"
    BY <1>9, <1>a, TaskFailsType DEF ReleaseError, Exits
  <2> QED
    BY <1>9, <2>1
       DEF ReleaseError, TypeInv, TypeOK, ReleaseBusy, RollbackBusy, bucket, history
<1> QED
  BY <1>1, <1>2, <1>3, <1>4, <1>5, <1>6, <1>7, <1>8, <1>9 DEF ReleaseStep

LEMMA RollbackStepTypeInv ==
  ASSUME NEW o \in Operators
  PROVE  TypeInv /\ RollbackStep(o) => TypeInv'
<1> SUFFICES ASSUME TypeInv, RollbackStep(o) PROVE TypeInv'
  OBVIOUS
<1>a. /\ rb \in [Operators -> RollbackRecords]
      /\ stage \in [Versions -> Stages]
      /\ rb[o].pc # "idle" => rb[o].failed \in Versions
      /\ rb[o].pc = "restore" => rb[o].prev \in Versions
  BY DEF TypeInv, TypeOK, RollbackBusy
<1>b. /\ {"idle", "traffic", "incident", "archive", "choose", "restore"} \subseteq RollbackSteps
      /\ Stages = {"Absent", "None", "Staging", "Production", "Archived"}
  BY DEF RollbackSteps, RegistrySteps, Stages
<1>c. ASSUME NEW pc \in RollbackSteps, NEW prev \in Versions \cup {None}, Goto(o, pc, prev),
             rb[o].pc # "idle", pc = "restore" => prev \in Versions
      PROVE  rb' \in [Operators -> RollbackRecords] /\ RollbackBusy'
  BY <1>a, <1>c, GotoType DEF TypeInv, RollbackBusy
<1>1. CASE RestoreTraffic(o)
  <2>1. rb' \in [Operators -> RollbackRecords] /\ RollbackBusy'
    BY <1>1, <1>b, <1>c DEF RestoreTraffic
  <2> QED
    BY <1>1, <2>1, SplitType DEF RestoreTraffic, TypeInv, TypeOK, ReleaseBusy, bucket, history
<1>2. CASE ArchiveFailed(o)
  <2>1. rb' \in [Operators -> RollbackRecords] /\ RollbackBusy'
    BY <1>2, <1>b, <1>c DEF ArchiveFailed
  <2>2. stage' \in [Versions -> Stages]
    BY <1>2, <1>a, <1>b, TransitionType DEF ArchiveFailed
  <2> QED
    BY <1>2, <2>1, <2>2 DEF ArchiveFailed, TypeInv, TypeOK, ReleaseBusy, bucket, history
<1>3. CASE ChoosePrevious(o)
  <2>1. PICK p \in Versions : Goto(o, "restore", p)
    BY <1>3 DEF ChoosePrevious, Recorded
  <2>2. rb' \in [Operators -> RollbackRecords] /\ RollbackBusy'
    BY <1>3, <2>1, <1>b, <1>c DEF ChoosePrevious
  <2> QED
    BY <1>3, <2>2 DEF ChoosePrevious, TypeInv, TypeOK, ReleaseBusy, bucket, history
<1>4. CASE NoPrevious(o)
  <2>1. rb' \in [Operators -> RollbackRecords] /\ RollbackBusy'
    BY <1>4, <1>b, <1>c DEF NoPrevious
  <2> QED
    BY <1>4, <2>1 DEF NoPrevious, TypeInv, TypeOK, ReleaseBusy, bucket
<1>5. CASE RestorePrevious(o)
  <2>1. rb' \in [Operators -> RollbackRecords] /\ RollbackBusy'
    BY <1>5, <1>b, <1>c DEF RestorePrevious
  <2>2. stage' \in [Versions -> Stages]
    BY <1>5, <1>a, <1>b, TransitionType DEF RestorePrevious
  <2> QED
    BY <1>5, <2>1, <2>2 DEF RestorePrevious, TypeInv, TypeOK, ReleaseBusy, bucket
<1>6. CASE RegistryError(o)
  <2>1. rb' \in [Operators -> RollbackRecords] /\ RollbackBusy'
    BY <1>6, <1>b, <1>c DEF RegistryError, RegistrySteps
  <2>2. orphaned' \in BOOLEAN
    BY <1>6 DEF RegistryError
  <2> QED
    BY <1>6, <2>1, <2>2 DEF RegistryError, TypeInv, TypeOK, ReleaseBusy, bucket
<1>7. CASE WriteIncident(o)
  <2>1. rb' \in [Operators -> RollbackRecords] /\ RollbackBusy'
    BY <1>7, <1>a, IdleType DEF WriteIncident, TypeInv, RollbackBusy, Idle
  <2>2. incidents' \subseteq Versions
    BY <1>7, <1>a DEF WriteIncident, TypeInv, TypeOK
  <2> QED
    BY <1>7, <2>1, <2>2 DEF WriteIncident, TypeInv, TypeOK, ReleaseBusy, history
<1>8. CASE RollbackDies(o)
  <2>1. rb' \in [Operators -> RollbackRecords] /\ RollbackBusy'
    BY <1>8, <1>a, IdleType DEF RollbackDies, TypeInv, RollbackBusy, Idle
  <2>2. orphaned' \in BOOLEAN
    BY <1>8 DEF RollbackDies
  <2> QED
    BY <1>8, <2>1, <2>2 DEF RollbackDies, TypeInv, TypeOK, ReleaseBusy, bucket
<1> QED
  BY <1>1, <1>2, <1>3, <1>4, <1>5, <1>6, <1>7, <1>8 DEF RollbackStep

LEMMA NextTypeInv == TypeInv /\ [Next]_vars => TypeInv'
<1> SUFFICES ASSUME TypeInv, [Next]_vars PROVE TypeInv'
  OBVIOUS
<1>1. CASE ReleaseStep
  BY <1>1, ReleaseStepTypeInv
<1>2. ASSUME NEW o \in Operators, RollbackStep(o) PROVE TypeInv'
  BY <1>2, RollbackStepTypeInv
<1>3. ASSUME NEW o \in Operators, NEW v \in Versions, StartRollback(o, v) PROVE TypeInv'
  <2>1. [pc |-> "traffic", failed |-> v, prev |-> None] \in RollbackRecords
    BY DEF RollbackRecords, RollbackSteps
  <2>2. rb' \in [Operators -> RollbackRecords] /\ RollbackBusy'
    BY <1>3, <2>1 DEF StartRollback, TypeInv, TypeOK, RollbackBusy
  <2> QED
    BY <1>3, <2>2 DEF StartRollback, TypeInv, TypeOK, ReleaseBusy, bucket
<1>4. ASSUME NEW v \in Versions, StartRelease(v) PROVE TypeInv'
  <2>1. release' \in ReleaseRecords /\ ReleaseBusy'
    BY <1>4, ConstantsAssumption
       DEF StartRelease, ReleaseRecords, ReleaseBusy, CanarySteps, Exits
  <2> QED
    BY <1>4, <2>1 DEF StartRelease, TypeInv, TypeOK, RollbackBusy, bucket
<1>5. ASSUME NEW v \in Versions, Register(v) PROVE TypeInv'
  <2>1. stage' \in [Versions -> Stages]
    BY <1>5 DEF Register, TypeInv, TypeOK, Stages
  <2> QED
    BY <1>5, <2>1
       DEF Register, TypeInv, TypeOK, ReleaseBusy, RollbackBusy, bucket, history
<1>6. CASE PodStart
  <2>1. serving' \in Versions \cup {None}
    BY <1>6 DEF PodStart, Production
  <2> QED
    BY <1>6, <2>1 DEF PodStart, TypeInv, TypeOK, ReleaseBusy, RollbackBusy, bucket, history
<1>7. CASE UNCHANGED vars
  BY <1>7 DEF vars, TypeInv, TypeOK, ReleaseBusy, RollbackBusy
<1> QED
  BY <1>1, <1>2, <1>3, <1>4, <1>5, <1>6, <1>7 DEF Next

(* The state of the scripts and services is well formed in every behaviour. *)
THEOREM TypeCorrect == Spec => []TypeOK
<1>1. Spec => []TypeInv
  BY InitTypeInv, NextTypeInv, PTL DEF Spec
<1>2. TypeInv => TypeOK
  BY DEF TypeInv
<1> QED
  BY <1>1, <1>2, PTL

(***************************************************************************)
(* Only vetted versions go live.  The invariant is not inductive as it     *)
(* stands: the vetting happens in the canary and is used in the promotion  *)
(* and, through the records, in a rollback.  VettedInv carries it there.   *)
(***************************************************************************)
CanaryClean ==
  /\ release.pc = "route" => release.seen = {}
  /\ release.pc \in {"monitor", "tag"} => release.seen \subseteq {"ok"}

PromotesVetted == release.pc \in PromoteSteps => release.v \in vetted

RestoresVetted == \A o \in Operators : rb[o].pc = "restore" => rb[o].prev \in vetted

VettedInv == OnlyVettedLive /\ CanaryClean /\ PromotesVetted /\ RestoresVetted

(***************************************************************************)
(* Something stays in Production.  What a release works on before its      *)
(* promotion is in no record and not in Production, so the canary's tag    *)
(* takes nothing out of Production; what has a record was promoted, so     *)
(* restoring it puts something back.                                       *)
(***************************************************************************)
RecordedStages == \A v \in Recorded : stage[v] \in {"Production", "Archived"}

CanaryFresh ==
  release.pc \in CanarySteps =>
    /\ release.v \notin Recorded
    /\ stage[release.v] # "Production"

PromotedStages ==
  release.pc \in {"record", "latest"} => stage[release.v] \in {"Production", "Archived"}

RestoresRecorded == \A o \in Operators : rb[o].pc = "restore" => rb[o].prev \in Recorded

RecordsOrdered == \A v \in Versions : deployed[v] <= clock

RecordInv ==
  /\ RecordedStages
  /\ CanaryFresh
  /\ PromotedStages
  /\ RestoresRecorded
  /\ RecordsOrdered

Restoring == \E o \in Operators : rb[o].pc \in {"choose", "restore"}

AvailableInv ==
  (Recorded # {} \/ release.pc \in {"record", "latest"}) /\ ~orphaned =>
    Production # {} \/ Restoring

(* What each registry call does to the version it names and to the others. *)
LEMMA TransitionStages ==
  ASSUME stage \in [Versions -> Stages], NEW v \in Versions
  PROVE  /\ stage' = Transition(v, "Production", TRUE) =>
              /\ stage'[v] = "Production"
              /\ \A w \in Versions \ {v} : stage'[w] \in {stage[w], "Archived"}
         /\ stage' = Transition(v, "Production", FALSE) =>
              stage'[v] = "Production" /\ \A w \in Versions \ {v} : stage'[w] = stage[w]
         /\ stage' = Transition(v, "Staging", FALSE) =>
              stage'[v] = "Staging" /\ \A w \in Versions \ {v} : stage'[w] = stage[w]
         /\ stage' = Transition(v, "Archived", FALSE) =>
              stage'[v] = "Archived" /\ \A w \in Versions \ {v} : stage'[w] = stage[w]
BY DEF Transition, Stages

(* What each registry call does to the set of Production versions. *)
LEMMA TransitionProduction ==
  ASSUME stage \in [Versions -> Stages], NEW v \in Versions
  PROVE  /\ stage' = Transition(v, "Production", TRUE) => Production' = {v}
         /\ stage' = Transition(v, "Production", FALSE) => Production' = Production \cup {v}
         /\ stage' = Transition(v, "Staging", FALSE) => Production' = Production \ {v}
         /\ stage' = Transition(v, "Archived", FALSE) => Production' = Production \ {v}
BY DEF Transition, Production, Stages

(* Where each step of the release goes: it keeps its version, and a rollback *)
(* that runs meanwhile is not disturbed.                                     *)
LEMMA ReleaseMoves ==
  ASSUME TypeInv, ReleaseStep
  PROVE  /\ release.v \in Versions /\ release'.v = release.v /\ UNCHANGED rb
         /\ RouteCanary => release'.pc = "monitor" /\ release'.seen = release.seen
         /\ \A reading \in Readings : CheckCanary(reading) =>
              /\ release'.pc \in {"revert", "monitor", "tag"}
              /\ release'.pc # "revert" =>
                   reading = "ok" /\ release'.seen = release.seen \cup {reading}
         /\ RevertCanary => release'.pc \in {"idle", "route"} /\ release'.seen = {}
         /\ TagStaging => release'.pc = "traffic"
         /\ PromoteTraffic => release'.pc = "production"
         /\ PromoteStage => release'.pc = "record"
         /\ WriteRecord => release'.pc = "latest"
         /\ WriteLatest =>
              /\ release'.pc \in {"idle", "traffic"}
              /\ release'.pc = "traffic" => release'.seen = {}
         /\ ReleaseError =>
              /\ release'.seen = {}
              /\ release'.pc \in IF release.pc \in CanarySteps
                                 THEN {"idle", "route"} ELSE {"idle", "traffic"}
<1>a. release \in ReleaseRecords
  BY DEF TypeInv, TypeOK
<1>b. release.pc # "idle" /\ UNCHANGED rb
  BY DEF ReleaseStep, RouteCanary, CheckCanary, RevertCanary, TagStaging, PromoteTraffic,
         PromoteStage, WriteRecord, WriteLatest, ReleaseError
<1>c. release.v \in Versions
  BY <1>b DEF TypeInv, ReleaseBusy
<1>1. RouteCanary =>
        release'.pc = "monitor" /\ release'.seen = release.seen /\ release'.v = release.v
  BY <1>a DEF RouteCanary, ReleaseRecords
<1>2. ASSUME NEW reading \in Readings, CheckCanary(reading)
      PROVE  /\ release'.v = release.v
             /\ release'.pc \in {"revert", "monitor", "tag"}
             /\ release'.pc # "revert" =>
                  reading = "ok" /\ release'.seen = release.seen \cup {reading}
  <2> DEFINE next == IF release.checks + 1 < MaxChecks THEN "monitor" ELSE "tag"
  <2>1. CASE Breach(reading)
    <3>1. release' = [pc |-> "revert", v |-> release.v, tries |-> release.tries,
                      checks |-> 0, seen |-> {}, exit |-> release.exit]
      BY <2>1, <1>2, <1>a DEF CheckCanary, ReleaseRecords
    <3> QED
      BY <3>1
  <2>2. CASE ~Breach(reading)
    <3>1. release' = [pc |-> next, v |-> release.v, tries |-> release.tries,
                      checks |-> release.checks + 1,
                      seen |-> release.seen \cup {reading}, exit |-> release.exit]
      BY <2>2, <1>2, <1>a DEF CheckCanary, ReleaseRecords
    <3>2. next \in {"monitor", "tag"} /\ reading = "ok"
      BY <2>2 DEF Breach, Readings
    <3> QED
      BY <3>1, <3>2
  <2> QED
    BY <2>1, <2>2
<1>3. RevertCanary =>
        release'.pc \in {"idle", "route"} /\ release'.seen = {} /\ release'.v = release.v
  <2>1. RevertCanary => release' = TaskFails("breach") /\ FirstStep = "route"
    BY DEF RevertCanary, FirstStep, CanarySteps
  <2> QED
    BY <2>1, <1>a, TaskFailsType DEF Exits
<1>4. TagStaging => release'.pc = "traffic" /\ release'.v = release.v
  <2>1. TagStaging =>
          release' = [pc |-> "traffic", v |-> release.v, tries |-> 0, checks |-> 0,
                      seen |-> {}, exit |-> release.exit]
    BY <1>a DEF TagStaging, ReleaseRecords
  <2> QED
    BY <2>1
<1>5. PromoteTraffic => release'.pc = "production" /\ release'.v = release.v
  BY <1>a DEF PromoteTraffic, ReleaseRecords
<1>6. PromoteStage => release'.pc = "record" /\ release'.v = release.v
  BY <1>a DEF PromoteStage, ReleaseRecords
<1>7. WriteRecord => release'.pc = "latest" /\ release'.v = release.v
  BY <1>a DEF WriteRecord, ReleaseRecords
<1>8. WriteLatest =>
        /\ release'.v = release.v
        /\ release'.pc \in {"idle", "traffic"}
        /\ release'.pc = "traffic" => release'.seen = {}
  <2>1. CASE release' = [release EXCEPT !.pc = "idle", !.tries = 0, !.exit = "ok"]
    <3>1. release' = [pc |-> "idle", v |-> release.v, tries |-> 0,
                      checks |-> release.checks, seen |-> release.seen, exit |-> "ok"]
      BY <2>1, <1>a DEF ReleaseRecords
    <3> QED
      BY <3>1
  <2>2. CASE WriteLatest /\ release' = TaskFails("error")
    <3>1. FirstStep = "traffic"
      BY <2>2 DEF WriteLatest, FirstStep, CanarySteps
    <3> QED
      BY <2>2, <3>1, <1>a, TaskFailsType DEF Exits
  <2> QED
    BY <2>1, <2>2 DEF WriteLatest
<1>9. ReleaseError =>
        /\ release'.seen = {} /\ release'.v = release.v
        /\ release'.pc \in IF release.pc \in CanarySteps
                           THEN {"idle", "route"} ELSE {"idle", "traffic"}
  <2>1. ReleaseError => release' = TaskFails("error")
    BY DEF ReleaseError
  <2> QED
    BY <2>1, <1>a, TaskFailsType DEF Exits, FirstStep
<1> QED
  BY <1>b, <1>c, <1>1, <1>2, <1>3, <1>4, <1>5, <1>6, <1>7, <1>8, <1>9 DEF ReleaseStep

(* Where each step of a rollback goes. *)
LEMMA RollbackMoves ==
  ASSUME TypeInv, NEW o \in Operators, RollbackStep(o)
  PROVE  /\ \A p \in Operators \ {o} : rb'[p] = rb[p]
         /\ rb[o].failed \in Versions
         /\ rb[o].pc = "restore" => rb[o].prev \in Versions
         /\ RestoreTraffic(o) => rb'[o].pc = "archive"
         /\ ArchiveFailed(o) => rb'[o].pc = "choose"
         /\ ChoosePrevious(o) => rb'[o].pc = "restore" /\ rb'[o].prev \in Recorded
         /\ NoPrevious(o) \/ RestorePrevious(o) \/ RegistryError(o) => rb'[o].pc = "incident"
         /\ WriteIncident(o) \/ RollbackDies(o) => rb'[o].pc = "idle"
<1>a. /\ rb \in [Operators -> RollbackRecords]
      /\ rb[o].pc # "idle" => rb[o].failed \in Versions
      /\ rb[o].pc = "restore" => rb[o].prev \in Versions
  BY DEF TypeInv, TypeOK, RollbackBusy
<1>b. {"idle", "traffic", "incident", "archive", "choose", "restore"} \subseteq RollbackSteps
  BY DEF RollbackSteps, RegistrySteps
<1>c. ASSUME NEW pc \in RollbackSteps, NEW prev \in Versions \cup {None}, Goto(o, pc, prev)
      PROVE  rb'[o].pc = pc /\ rb'[o].prev = prev /\ \A p \in Operators \ {o} : rb'[p] = rb[p]
  BY <1>a, <1>c, GotoType
<1>d. rb[o].pc # "idle"
  BY DEF RollbackStep, RestoreTraffic, ArchiveFailed, ChoosePrevious, NoPrevious,
         RestorePrevious, RegistryError, RegistrySteps, WriteIncident, RollbackDies
<1>1. RestoreTraffic(o) =>
        rb'[o].pc = "archive" /\ \A p \in Operators \ {o} : rb'[p] = rb[p]
  BY <1>b, <1>c DEF RestoreTraffic
<1>2. ArchiveFailed(o) =>
        rb'[o].pc = "choose" /\ \A p \in Operators \ {o} : rb'[p] = rb[p]
  BY <1>b, <1>c DEF ArchiveFailed
<1>3. ASSUME ChoosePrevious(o)
      PROVE  /\ rb'[o].pc = "restore" /\ rb'[o].prev \in Recorded
             /\ \A p \in Operators \ {o} : rb'[p] = rb[p]
  <2>1. PICK p \in Recorded : p \in Versions /\ Goto(o, "restore", p)
    BY <1>3 DEF ChoosePrevious, Recorded
  <2> QED
    BY <2>1, <1>b, <1>c
<1>4. NoPrevious(o) \/ RestorePrevious(o) \/ RegistryError(o) =>
        rb'[o].pc = "incident" /\ \A p \in Operators \ {o} : rb'[p] = rb[p]
  BY <1>b, <1>c DEF NoPrevious, RestorePrevious, RegistryError
<1>5. WriteIncident(o) \/ RollbackDies(o) =>
        rb'[o].pc = "idle" /\ \A p \in Operators \ {o} : rb'[p] = rb[p]
  BY <1>a DEF WriteIncident, RollbackDies, Idle
<1> QED
  BY <1>a, <1>d, <1>1, <1>2, <1>3, <1>4, <1>5 DEF RollbackStep

LEMMA InitRecordInv == Init => RecordInv
BY DEF Init, RecordInv, RecordedStages, CanaryFresh, PromotedStages, RestoresRecorded,
       RecordsOrdered, Recorded, Idle, CanarySteps

LEMMA ReleaseStepRecordInv == TypeInv /\ RecordInv /\ ReleaseStep => RecordInv'
<1> SUFFICES ASSUME TypeInv, RecordInv, ReleaseStep PROVE RecordInv'
  OBVIOUS
<1>a. /\ release.v \in Versions /\ release'.v = release.v /\ UNCHANGED rb
      /\ stage \in [Versions -> Stages] /\ deployed \in [Versions -> Nat] /\ clock \in Nat
  BY ReleaseMoves DEF TypeInv, TypeOK
<1>b. /\ CanarySteps = {"route", "monitor", "revert", "tag"}
      /\ Recorded = {v \in Versions : deployed[v] > 0}
  BY DEF CanarySteps, Recorded
<1> USE DEF RecordInv, RecordedStages, CanaryFresh, PromotedStages, RestoresRecorded,
            RecordsOrdered
(* Steps that leave the registry and the records alone. *)
<1>c. ASSUME UNCHANGED <<stage, deployed, clock>>,
             release'.pc \in CanarySteps => release.pc \in CanarySteps,
             release'.pc \notin {"record", "latest"}
      PROVE  RecordInv'
  <2>1. Recorded' = Recorded
    BY <1>c DEF Recorded
  <2> QED
    BY <1>a, <1>c, <2>1
<1>1. CASE RouteCanary
  <2>1. release'.pc = "monitor" /\ release.pc = "route"
    BY <1>1, ReleaseMoves DEF RouteCanary
  <2> QED
    BY <1>1, <1>b, <1>c, <2>1 DEF RouteCanary, bucket
<1>2. CASE \E reading \in Readings : CheckCanary(reading)
  <2>1. release'.pc \in {"revert", "monitor", "tag"} /\ release.pc = "monitor"
    BY <1>2, ReleaseMoves DEF CheckCanary
  <2> QED
    BY <1>2, <1>b, <1>c, <2>1 DEF CheckCanary, bucket
<1>3. CASE RevertCanary
  <2>1. release'.pc \in {"idle", "route"} /\ release.pc = "revert"
    BY <1>3, ReleaseMoves DEF RevertCanary
  <2> QED
    BY <1>3, <1>b, <1>c, <2>1 DEF RevertCanary, bucket
<1>4. CASE TagStaging
  <2>1. release'.pc = "traffic" /\ release.v \notin Recorded
    BY <1>4, <1>b, ReleaseMoves DEF TagStaging
  <2>2. UNCHANGED <<deployed, clock>> /\ Recorded' = Recorded
    BY <1>4 DEF TagStaging, bucket, Recorded
  <2>3. \A w \in Versions \ {release.v} : stage'[w] = stage[w]
    BY <1>4, <1>a, TransitionStages DEF TagStaging
  <2> QED
    BY <1>a, <1>b, <2>1, <2>2, <2>3
<1>5. CASE PromoteTraffic
  <2>1. release'.pc = "production"
    BY <1>5, ReleaseMoves
  <2> QED
    BY <1>5, <1>b, <1>c, <2>1 DEF PromoteTraffic, bucket
<1>6. CASE PromoteStage
  <2>1. release'.pc = "record"
    BY <1>6, ReleaseMoves
  <2>2. UNCHANGED <<deployed, clock>> /\ Recorded' = Recorded
    BY <1>6 DEF PromoteStage, bucket, Recorded
  <2>3. /\ stage'[release.v] = "Production"
        /\ \A w \in Versions \ {release.v} : stage'[w] \in {stage[w], "Archived"}
    BY <1>6, <1>a, TransitionStages DEF PromoteStage
  <2> QED
    BY <1>a, <1>b, <2>1, <2>2, <2>3
<1>7. CASE WriteRecord
  <2>1. release'.pc = "latest" /\ release.pc = "record"
    BY <1>7, ReleaseMoves DEF WriteRecord
  <2>2. clock' \in Nat /\ clock' >= clock /\ clock' > 0
    BY <1>7, <1>a, <1>b DEF WriteRecord
  <2>3. deployed' = [deployed EXCEPT ![release.v] = clock'] /\ UNCHANGED stage
    BY <1>7 DEF WriteRecord
  <2>4. \A v \in Versions : deployed'[v] <= clock'
    BY <1>a, <2>2, <2>3
  <2>5. Recorded' = Recorded \cup {release.v}
    BY <1>a, <2>2, <2>3 DEF Recorded
  <2> QED
    BY <1>a, <1>b, <2>1, <2>3, <2>4, <2>5
<1>8. CASE WriteLatest
  <2>1. /\ release'.pc \in {"idle", "traffic"} /\ release.pc = "latest"
        /\ release'.pc = "traffic" => release'.seen = {}
    BY <1>8, ReleaseMoves DEF WriteLatest
  <2> QED
    BY <1>8, <1>b, <1>c, <2>1 DEF WriteLatest
<1>9. CASE ReleaseError
  <2>1. release'.pc \in IF release.pc \in CanarySteps THEN {"idle", "route"} ELSE {"idle", "traffic"}
    BY <1>9, ReleaseMoves
  <2> QED
    BY <1>9, <1>b, <1>c, <2>1 DEF ReleaseError, bucket
<1> QED
  BY <1>1, <1>2, <1>3, <1>4, <1>5, <1>6, <1>7, <1>8, <1>9 DEF ReleaseStep

LEMMA RollbackStepRecordInv ==
  ASSUME NEW o \in Operators
  PROVE  TypeInv /\ RecordInv /\ RollbackStep(o) => RecordInv'
<1> SUFFICES ASSUME TypeInv, RecordInv, RollbackStep(o) PROVE RecordInv'
  OBVIOUS
<1>a. /\ UNCHANGED <<release, deployed, clock>> /\ Recorded' = Recorded
      /\ Recorded \subseteq Versions
      /\ stage \in [Versions -> Stages]
  BY DEF RollbackStep, RestoreTraffic, ArchiveFailed, ChoosePrevious, NoPrevious,
         RestorePrevious, RegistryError, WriteIncident, RollbackDies, bucket, Recorded,
         TypeInv, TypeOK
<1>b. release.pc # "idle" => release.v \in Versions
  BY DEF TypeInv, ReleaseBusy
<1>c. CanarySteps = {"route", "monitor", "revert", "tag"}
  BY DEF CanarySteps
<1>d. /\ \A p \in Operators \ {o} : rb'[p] = rb[p]
      /\ rb[o].failed \in Versions
      /\ rb[o].pc = "restore" => rb[o].prev \in Versions
      /\ rb'[o].pc = "restore" => rb'[o].prev \in Recorded
  BY RollbackMoves DEF RollbackStep
<1> USE DEF RecordInv, RecordedStages, CanaryFresh, PromotedStages, RestoresRecorded,
            RecordsOrdered
<1>1. CASE ArchiveFailed(o)
  <2>1. /\ stage'[rb[o].failed] = "Archived"
        /\ \A w \in Versions \ {rb[o].failed} : stage'[w] = stage[w]
    BY <1>1, <1>a, <1>d, TransitionStages DEF ArchiveFailed
  <2> QED
    BY <1>a, <1>b, <1>c, <1>d, <2>1
<1>2. CASE RestorePrevious(o)
  <2>1. rb[o].prev \in Recorded
    BY <1>2 DEF RestorePrevious
  <2>2. /\ stage'[rb[o].prev] = "Production"
        /\ \A w \in Versions \ {rb[o].prev} : stage'[w] = stage[w]
    BY <1>2, <1>a, <2>1, TransitionStages DEF RestorePrevious
  <2> QED
    BY <1>a, <1>b, <1>c, <1>d, <2>1, <2>2
<1>3. CASE UNCHANGED stage
  BY <1>3, <1>a, <1>b, <1>c, <1>d
<1> QED
  BY <1>1, <1>2, <1>3
     DEF RollbackStep, RestoreTraffic, ChoosePrevious, NoPrevious, RegistryError,
         WriteIncident, RollbackDies

LEMMA NextRecordInv == TypeInv /\ RecordInv /\ [Next]_vars => RecordInv'
<1> SUFFICES ASSUME TypeInv, RecordInv, [Next]_vars PROVE RecordInv'
  OBVIOUS
<1>a. stage \in [Versions -> Stages] /\ (release.pc # "idle" => release.v \in Versions)
  BY DEF TypeInv, TypeOK, ReleaseBusy
<1> USE DEF RecordInv, RecordedStages, CanaryFresh, PromotedStages, RestoresRecorded,
            RecordsOrdered, Recorded
<1>1. CASE ReleaseStep
  BY <1>1, ReleaseStepRecordInv
<1>2. ASSUME NEW o \in Operators, RollbackStep(o) PROVE RecordInv'
  BY <1>2, RollbackStepRecordInv
<1>3. ASSUME NEW o \in Operators, NEW v \in Versions, StartRollback(o, v) PROVE RecordInv'
  <2>1. rb'[o].pc = "traffic" /\ \A p \in Operators \ {o} : rb'[p] = rb[p]
    BY <1>3 DEF StartRollback, TypeInv, TypeOK
  <2> QED
    BY <1>3, <2>1 DEF StartRollback, bucket
<1>4. ASSUME NEW v \in Versions, StartRelease(v) PROVE RecordInv'
  BY <1>4 DEF StartRelease, Candidates, bucket
<1>5. ASSUME NEW v \in Versions, Register(v) PROVE RecordInv'
  <2>1. stage'[v] = "None" /\ stage[v] = "Absent"
        /\ \A w \in Versions \ {v} : stage'[w] = stage[w]
    BY <1>5, <1>a DEF Register
  <2>2. UNCHANGED <<release, rb, deployed, clock>>
    BY <1>5 DEF Register, bucket
  <2> QED
    BY <1>a, <2>1, <2>2 DEF CanarySteps
<1>6. CASE PodStart
  BY <1>6 DEF PodStart, bucket
<1>7. CASE UNCHANGED vars
  BY <1>7 DEF vars
<1> QED
  BY <1>1, <1>2, <1>3, <1>4, <1>5, <1>6, <1>7 DEF Next

LEMMA InitVettedInv == Init => VettedInv
BY DEF Init, VettedInv, OnlyVettedLive, CanaryClean, PromotesVetted, RestoresVetted,
       Production, Recorded, Idle, PromoteSteps

LEMMA ReleaseStepVettedInv == TypeInv /\ VettedInv /\ ReleaseStep => VettedInv'
<1> SUFFICES ASSUME TypeInv, VettedInv, ReleaseStep PROVE VettedInv'
  OBVIOUS
<1>a. /\ release.v \in Versions /\ release'.v = release.v /\ UNCHANGED <<rb, serving>>
      /\ stage \in [Versions -> Stages] /\ deployed \in [Versions -> Nat]
  BY ReleaseMoves
     DEF TypeInv, TypeOK, ReleaseStep, RouteCanary, CheckCanary, RevertCanary, TagStaging,
         PromoteTraffic, PromoteStage, WriteRecord, WriteLatest, ReleaseError
<1>b. /\ CanarySteps = {"route", "monitor", "revert", "tag"}
      /\ PromoteSteps = {"traffic", "production", "record", "latest"}
  BY DEF CanarySteps, PromoteSteps
<1>c. release.pc \in {"idle"} \cup CanarySteps \cup PromoteSteps
  BY DEF TypeInv, TypeOK, ReleaseRecords
<1> USE DEF VettedInv, OnlyVettedLive, CanaryClean, PromotesVetted, RestoresVetted
(* Steps that leave the registry and the records alone. *)
<1>d. ASSUME UNCHANGED <<stage, deployed, vetted>>, CanaryClean', PromotesVetted'
      PROVE  VettedInv'
  <2>1. Production' = Production /\ Recorded' = Recorded
    BY <1>d DEF Production, Recorded
  <2> QED
    BY <1>a, <1>d, <2>1
<1>1. CASE RouteCanary
  <2>1. release'.pc = "monitor" /\ release'.seen = release.seen /\ release.pc = "route"
    BY <1>1, ReleaseMoves DEF RouteCanary
  <2> QED
    BY <1>1, <1>b, <1>d, <2>1 DEF RouteCanary, bucket, history
<1>2. CASE \E reading \in Readings : CheckCanary(reading)
  <2> PICK reading \in Readings : CheckCanary(reading)
    BY <1>2
  <2>1. /\ release'.pc \in {"revert", "monitor", "tag"} /\ release.pc = "monitor"
        /\ release'.pc # "revert" =>
             reading = "ok" /\ release'.seen = release.seen \cup {reading}
    BY ReleaseMoves DEF CheckCanary
  <2>2. release'.pc \in {"monitor", "tag"} => release'.seen \subseteq {"ok"}
    BY <2>1
  <2> QED
    BY <1>b, <1>d, <2>1, <2>2 DEF CheckCanary, bucket, history
<1>3. CASE RevertCanary
  <2>1. release'.pc \in {"idle", "route"} /\ release'.seen = {}
    BY <1>3, ReleaseMoves DEF RevertCanary
  <2> QED
    BY <1>3, <1>b, <1>d, <2>1 DEF RevertCanary, bucket, history
<1>4. CASE TagStaging
  <2>1. release'.pc = "traffic" /\ release.seen \subseteq {"ok"}
    BY <1>4, ReleaseMoves DEF TagStaging
  <2>2. vetted' = vetted \cup {release.v} /\ Recorded' = Recorded
    BY <1>4, <2>1 DEF TagStaging, bucket, Recorded
  <2>3. Production' \subseteq Production
    BY <1>4, <1>a, TransitionProduction DEF TagStaging
  <2> QED
    BY <1>a, <1>b, <2>1, <2>2, <2>3
<1>5. CASE PromoteTraffic
  <2>1. release'.pc = "production" /\ release.pc = "traffic"
    BY <1>5, ReleaseMoves DEF PromoteTraffic
  <2> QED
    BY <1>5, <1>a, <1>b, <1>d, <2>1 DEF PromoteTraffic, bucket, history
<1>6. CASE PromoteStage
  <2>1. release'.pc = "record" /\ release.pc = "production"
    BY <1>6, ReleaseMoves DEF PromoteStage
  <2>2. vetted' = vetted /\ Recorded' = Recorded
    BY <1>6 DEF PromoteStage, bucket, Recorded
  <2>3. Production' = {release.v}
    BY <1>6, <1>a, TransitionProduction DEF PromoteStage
  <2> QED
    BY <1>a, <1>b, <2>1, <2>2, <2>3
<1>7. CASE WriteRecord
  <2>1. release'.pc = "latest" /\ release.pc = "record"
    BY <1>7, ReleaseMoves DEF WriteRecord
  <2>2. vetted' = vetted /\ Production' = Production
    BY <1>7 DEF WriteRecord, history, Production
  <2>3. Recorded' \subseteq Recorded \cup {release.v}
    BY <1>7, <1>a DEF WriteRecord, Recorded
  <2> QED
    BY <1>a, <1>b, <2>1, <2>2, <2>3
<1>8. CASE WriteLatest
  <2>1. /\ release'.pc \in {"idle", "traffic"} /\ release.pc = "latest"
        /\ release'.pc = "traffic" => release'.seen = {}
    BY <1>8, ReleaseMoves DEF WriteLatest
  <2> QED
    BY <1>8, <1>a, <1>b, <1>d, <2>1 DEF WriteLatest, history, PromoteSteps
<1>9. CASE ReleaseError
  <2>1. /\ release'.seen = {} /\ release.pc # "idle"
        /\ release'.pc \in IF release.pc \in CanarySteps
                           THEN {"idle", "route"} ELSE {"idle", "traffic"}
    BY <1>9, ReleaseMoves DEF ReleaseError
  <2>2. release'.pc \in PromoteSteps => release.pc \in PromoteSteps
    BY <1>b, <1>c, <2>1
  <2> QED
    BY <1>9, <1>a, <1>d, <2>1, <2>2 DEF ReleaseError, bucket, history
<1> QED
  BY <1>1, <1>2, <1>3, <1>4, <1>5, <1>6, <1>7, <1>8, <1>9 DEF ReleaseStep

LEMMA RollbackStepVettedInv ==
  ASSUME NEW o \in Operators
  PROVE  TypeInv /\ VettedInv /\ RollbackStep(o) => VettedInv'
<1> SUFFICES ASSUME TypeInv, VettedInv, RollbackStep(o) PROVE VettedInv'
  OBVIOUS
<1>a. /\ UNCHANGED <<release, deployed, vetted, serving>> /\ Recorded' = Recorded
      /\ stage \in [Versions -> Stages]
  BY DEF RollbackStep, RestoreTraffic, ArchiveFailed, ChoosePrevious, NoPrevious,
         RestorePrevious, RegistryError, WriteIncident, RollbackDies, bucket, history,
         Recorded, TypeInv, TypeOK
<1>b. /\ \A p \in Operators \ {o} : rb'[p] = rb[p]
      /\ rb[o].failed \in Versions
      /\ rb[o].pc = "restore" => rb[o].prev \in Versions
      /\ rb'[o].pc = "restore" => rb'[o].prev \in Recorded
  BY RollbackMoves DEF RollbackStep
<1> USE DEF VettedInv, OnlyVettedLive, CanaryClean, PromotesVetted, RestoresVetted
<1>c. Production' \subseteq vetted
  <2>1. CASE ArchiveFailed(o)
    <3>1. Production' = Production \ {rb[o].failed}
      BY <2>1, <1>a, <1>b, TransitionProduction DEF ArchiveFailed
    <3> QED
      BY <3>1
  <2>2. CASE RestorePrevious(o)
    BY <2>2, <1>a, <1>b, TransitionProduction DEF RestorePrevious
  <2>3. CASE UNCHANGED stage
    BY <2>3 DEF Production
  <2> QED
    BY <2>1, <2>2, <2>3
       DEF RollbackStep, RestoreTraffic, ChoosePrevious, NoPrevious, RegistryError,
           WriteIncident, RollbackDies
<1> QED
  BY <1>a, <1>b, <1>c

LEMMA NextVettedInv == TypeInv /\ VettedInv /\ [Next]_vars => VettedInv'
<1> SUFFICES ASSUME TypeInv, VettedInv, [Next]_vars PROVE VettedInv'
  OBVIOUS
<1> USE DEF VettedInv, OnlyVettedLive, CanaryClean, PromotesVetted, RestoresVetted
<1>1. CASE ReleaseStep
  BY <1>1, ReleaseStepVettedInv
<1>2. ASSUME NEW o \in Operators, RollbackStep(o) PROVE VettedInv'
  BY <1>2, RollbackStepVettedInv
<1>3. ASSUME NEW o \in Operators, NEW v \in Versions, StartRollback(o, v) PROVE VettedInv'
  <2>1. rb'[o].pc = "traffic" /\ \A p \in Operators \ {o} : rb'[p] = rb[p]
    BY <1>3 DEF StartRollback, TypeInv, TypeOK
  <2> QED
    BY <1>3, <2>1 DEF StartRollback, bucket, Production, Recorded
<1>4. ASSUME NEW v \in Versions, StartRelease(v) PROVE VettedInv'
  BY <1>4 DEF StartRelease, bucket, Production, Recorded, PromoteSteps
<1>5. ASSUME NEW v \in Versions, Register(v) PROVE VettedInv'
  <2>1. Production' \subseteq Production
    BY <1>5 DEF Register, Production, TypeInv, TypeOK
  <2> QED
    BY <1>5, <2>1 DEF Register, bucket, history, Recorded
<1>6. CASE PodStart
  BY <1>6 DEF PodStart, bucket, history, Production, Recorded
<1>7. CASE UNCHANGED vars
  BY <1>7 DEF vars, Production, Recorded
<1> QED
  BY <1>1, <1>2, <1>3, <1>4, <1>5, <1>6, <1>7 DEF Next

(* No version is in Production, in a deployment record or in the memory of a *)
(* pod unless a canary window of its own ended without a breach.             *)
THEOREM OnlyVettedGoLive == Spec => []OnlyVettedLive
<1>1. Spec => []TypeInv
  BY InitTypeInv, NextTypeInv, PTL DEF Spec
<1>2. Spec => []VettedInv
  BY <1>1, InitVettedInv, NextVettedInv, PTL DEF Spec
<1>3. VettedInv => OnlyVettedLive
  BY DEF VettedInv
<1> QED
  BY <1>2, <1>3, PTL

-----------------------------------------------------------------------------
LEMMA InitAvailableInv == Init => AvailableInv
BY DEF Init, AvailableInv, Recorded

LEMMA ReleaseStepAvailableInv ==
  TypeInv /\ RecordInv /\ AvailableInv /\ ReleaseStep => AvailableInv'
<1> SUFFICES ASSUME TypeInv, RecordInv, AvailableInv, ReleaseStep PROVE AvailableInv'
  OBVIOUS
<1>a. /\ release.v \in Versions /\ release'.v = release.v
      /\ stage \in [Versions -> Stages] /\ Restoring' = Restoring
  BY ReleaseMoves DEF TypeInv, TypeOK, Restoring
<1> USE DEF AvailableInv
(* Steps that leave the registry alone and reach no later step. *)
<1>b. ASSUME UNCHANGED <<stage, deployed, orphaned>>,
             release'.pc \in {"record", "latest"} => release.pc \in {"record", "latest"}
      PROVE  AvailableInv'
  <2>1. Production' = Production /\ Recorded' = Recorded
    BY <1>b DEF Production, Recorded
  <2> QED
    BY <1>a, <1>b, <2>1
<1>1. CASE RouteCanary
  BY <1>1, <1>b, ReleaseMoves DEF RouteCanary, bucket, history
<1>2. CASE \E reading \in Readings : CheckCanary(reading)
  <2>1. release'.pc \in {"revert", "monitor", "tag"}
    BY <1>2, ReleaseMoves
  <2> QED
    BY <1>2, <1>b, <2>1 DEF CheckCanary, bucket, history
<1>3. CASE RevertCanary
  <2>1. release'.pc \in {"idle", "route"}
    BY <1>3, ReleaseMoves
  <2> QED
    BY <1>3, <1>b, <2>1 DEF RevertCanary, bucket, history
<1>4. CASE TagStaging
  <2>1. release'.pc = "traffic"
    BY <1>4, ReleaseMoves
  <2>2. release.v \notin Production
    BY <1>4 DEF TagStaging, RecordInv, CanaryFresh, CanarySteps, Production
  <2>3. Production' = Production
    <3>1. Production' = Production \ {release.v}
      BY <1>4, <1>a, TransitionProduction DEF TagStaging
    <3> QED
      BY <3>1, <2>2
  <2>4. Recorded' = Recorded /\ UNCHANGED orphaned
    BY <1>4 DEF TagStaging, bucket, Recorded
  <2> QED
    BY <1>a, <2>1, <2>3, <2>4
<1>5. CASE PromoteTraffic
  <2>1. release'.pc = "production"
    BY <1>5, ReleaseMoves
  <2> QED
    BY <1>5, <1>b, <2>1 DEF PromoteTraffic, bucket, history
<1>6. CASE PromoteStage
  BY <1>6, <1>a, TransitionProduction DEF PromoteStage
<1>7. CASE WriteRecord
  <2>1. Production' = Production /\ UNCHANGED orphaned /\ release.pc = "record"
    BY <1>7 DEF WriteRecord, history, Production
  <2> QED
    BY <1>a, <2>1
<1>8. CASE WriteLatest
  <2>1. /\ release'.pc \in {"idle", "traffic"} /\ release.pc = "latest"
        /\ release'.pc = "traffic" => release'.seen = {}
    BY <1>8, ReleaseMoves DEF WriteLatest
  <2> QED
    BY <1>8, <1>b, <2>1 DEF WriteLatest, history
<1>9. CASE ReleaseError
  <2>1. release'.pc \in {"idle", "route", "traffic"}
    BY <1>9, ReleaseMoves
  <2> QED
    BY <1>9, <1>b, <2>1 DEF ReleaseError, bucket, history
<1> QED
  BY <1>1, <1>2, <1>3, <1>4, <1>5, <1>6, <1>7, <1>8, <1>9 DEF ReleaseStep

LEMMA RollbackStepAvailableInv ==
  ASSUME NEW o \in Operators
  PROVE  TypeInv /\ AvailableInv /\ RollbackStep(o) => AvailableInv'
<1> SUFFICES ASSUME TypeInv, AvailableInv, RollbackStep(o) PROVE AvailableInv'
  OBVIOUS
<1>a. /\ UNCHANGED <<release, deployed>> /\ Recorded' = Recorded
      /\ stage \in [Versions -> Stages]
      /\ orphaned \in BOOLEAN
  BY DEF RollbackStep, RestoreTraffic, ArchiveFailed, ChoosePrevious, NoPrevious,
         RestorePrevious, RegistryError, WriteIncident, RollbackDies, bucket, Recorded,
         TypeInv, TypeOK
<1>b. /\ \A p \in Operators \ {o} : rb'[p] = rb[p]
      /\ rb[o].pc = "restore" => rb[o].prev \in Versions
  BY RollbackMoves
<1> USE DEF AvailableInv
(* A step of o that keeps the registry: what o itself held Restoring for. *)
<1>c. ASSUME UNCHANGED <<stage, orphaned>>,
             rb[o].pc \in {"choose", "restore"} => rb'[o].pc \in {"choose", "restore"}
      PROVE  AvailableInv'
  <2>1. Production' = Production
    BY <1>c DEF Production
  <2>2. Restoring => Restoring'
    BY <1>b, <1>c DEF Restoring
  <2> QED
    BY <1>a, <1>c, <2>1, <2>2
<1>1. CASE RestoreTraffic(o)
  BY <1>1, <1>c DEF RestoreTraffic, history
<1>2. CASE ArchiveFailed(o)
  <2>1. rb'[o].pc = "choose"
    BY <1>2, RollbackMoves
  <2> QED
    BY <2>1 DEF Restoring
<1>3. CASE ChoosePrevious(o)
  <2>1. rb'[o].pc = "restore"
    BY <1>3, RollbackMoves
  <2> QED
    BY <1>3, <1>c, <2>1 DEF ChoosePrevious, history
<1>4. CASE NoPrevious(o)
  BY <1>4 DEF NoPrevious
<1>5. CASE RestorePrevious(o)
  BY <1>5, <1>a, <1>b, TransitionProduction DEF RestorePrevious
<1>6. CASE RegistryError(o)
  <2>1. CASE rb[o].pc = "archive"
    BY <1>6, <1>a, <1>c, <2>1 DEF RegistryError
  <2>2. CASE rb[o].pc # "archive"
    BY <1>6, <2>2 DEF RegistryError
  <2> QED
    BY <2>1, <2>2
<1>7. CASE WriteIncident(o)
  BY <1>7, <1>c DEF WriteIncident, history
<1>8. CASE RollbackDies(o)
  <2>1. CASE rb[o].pc \in {"choose", "restore"}
    BY <1>8, <2>1 DEF RollbackDies
  <2>2. CASE rb[o].pc \notin {"choose", "restore"}
    BY <1>8, <1>a, <1>c, <2>2 DEF RollbackDies
  <2> QED
    BY <2>1, <2>2
<1> QED
  BY <1>1, <1>2, <1>3, <1>4, <1>5, <1>6, <1>7, <1>8 DEF RollbackStep

LEMMA NextAvailableInv == TypeInv /\ RecordInv /\ AvailableInv /\ [Next]_vars => AvailableInv'
<1> SUFFICES ASSUME TypeInv, RecordInv, AvailableInv, [Next]_vars PROVE AvailableInv'
  OBVIOUS
<1> USE DEF AvailableInv
<1>1. CASE ReleaseStep
  BY <1>1, ReleaseStepAvailableInv
<1>2. ASSUME NEW o \in Operators, RollbackStep(o) PROVE AvailableInv'
  BY <1>2, RollbackStepAvailableInv
<1>3. ASSUME NEW o \in Operators, NEW v \in Versions, StartRollback(o, v) PROVE AvailableInv'
  <2>1. rb[o].pc = "idle" /\ \A p \in Operators \ {o} : rb'[p] = rb[p]
    BY <1>3 DEF StartRollback, TypeInv, TypeOK
  <2>2. Restoring => Restoring'
    BY <2>1 DEF Restoring
  <2> QED
    BY <1>3, <2>2 DEF StartRollback, bucket, Production, Recorded
<1>4. ASSUME NEW v \in Versions, StartRelease(v) PROVE AvailableInv'
  BY <1>4 DEF StartRelease, bucket, Production, Recorded, Restoring
<1>5. ASSUME NEW v \in Versions, Register(v) PROVE AvailableInv'
  <2>1. Production' = Production
    BY <1>5 DEF Register, Production, TypeInv, TypeOK
  <2> QED
    BY <1>5, <2>1 DEF Register, bucket, history, Recorded, Restoring
<1>6. CASE PodStart
  BY <1>6 DEF PodStart, bucket, history, Production, Recorded, Restoring
<1>7. CASE UNCHANGED vars
  BY <1>7 DEF vars, Production, Recorded, Restoring
<1> QED
  BY <1>1, <1>2, <1>3, <1>4, <1>5, <1>6, <1>7 DEF Next

(* Once something was promoted, a restarting pod finds a Production version, *)
(* except while a rollback is between archiving and restoring, or after one  *)
(* ended there without a version to put back.                                *)
THEOREM ProductionStaysAvailable == Spec => []ProductionAvailable
<1>1. Spec => []TypeInv
  BY InitTypeInv, NextTypeInv, PTL DEF Spec
<1>2. Spec => []RecordInv
  BY <1>1, InitRecordInv, NextRecordInv, PTL DEF Spec
<1>3. Spec => []AvailableInv
  BY <1>1, <1>2, InitAvailableInv, NextAvailableInv, PTL DEF Spec
<1>4. AvailableInv => ProductionAvailable
  BY DEF AvailableInv, ProductionAvailable, Restoring
<1> QED
  BY <1>3, <1>4, PTL

-----------------------------------------------------------------------------
(* The scripts implement ModelLifecycle: TagStaging approves, PromoteStage   *)
(* replaces, RestorePrevious reinstates, ArchiveFailed withdraws, and every  *)
(* other step leaves both sets alone.                                        *)
LEMMA LifecycleStep ==
  TypeInv /\ VettedInv /\ RecordInv /\ [Next]_vars => [Lifecycle!Next]_(Lifecycle!vars)
<1> SUFFICES ASSUME TypeInv, VettedInv, RecordInv, [Next]_vars
             PROVE  [Lifecycle!Next]_(Lifecycle!vars)
  OBVIOUS
<1> USE DEF Lifecycle!vars
<1>a. stage \in [Versions -> Stages]
  BY DEF TypeInv, TypeOK
<1>b. release.pc # "idle" => release.v \in Versions
  BY DEF TypeInv, ReleaseBusy
<1>1. CASE TagStaging
  <2>1. release.v \notin Production
    BY <1>1 DEF TagStaging, RecordInv, CanaryFresh, CanarySteps, Production
  <2>2. Production' = Production /\ release.v \in Versions
    <3>1. release.v \in Versions
      BY <1>1, <1>b DEF TagStaging
    <3>2. Production' = Production \ {release.v}
      BY <1>1, <1>a, <3>1, TransitionProduction DEF TagStaging
    <3> QED
      BY <3>1, <3>2, <2>1
  <2>3. vetted' = vetted \cup {release.v} \/ vetted' = vetted
    BY <1>1 DEF TagStaging
  <2>4. CASE vetted' = vetted \cup {release.v}
    <3>1. Lifecycle!Approve(release.v)
      BY <2>2, <2>4 DEF Lifecycle!Approve
    <3> QED
      BY <2>2, <3>1 DEF Lifecycle!Next
  <2> QED
    BY <2>2, <2>3, <2>4
<1>2. CASE PromoteStage
  <2>1. Production' = {release.v} /\ release.v \in Versions /\ vetted' = vetted
    BY <1>2, <1>a, <1>b, TransitionProduction DEF PromoteStage
  <2>2. release.v \in vetted
    BY <1>2 DEF PromoteStage, VettedInv, PromotesVetted, PromoteSteps
  <2>3. Lifecycle!Replace(release.v)
    BY <2>1, <2>2 DEF Lifecycle!Replace
  <2> QED
    BY <2>1, <2>3 DEF Lifecycle!Next
<1>3. ASSUME NEW o \in Operators, RestorePrevious(o) PROVE Lifecycle!Next
  <2>1. rb[o].prev \in Versions /\ rb[o].prev \in vetted /\ vetted' = vetted
    BY <1>3 DEF RestorePrevious, TypeInv, RollbackBusy, VettedInv, RestoresVetted
  <2>2. Production' = Production \cup {rb[o].prev}
    BY <1>3, <1>a, <2>1, TransitionProduction DEF RestorePrevious
  <2>3. Lifecycle!Reinstate(rb[o].prev)
    BY <2>1, <2>2 DEF Lifecycle!Reinstate
  <2> QED
    BY <2>1, <2>3 DEF Lifecycle!Next
<1>4. ASSUME NEW o \in Operators, ArchiveFailed(o) PROVE Lifecycle!Next
  <2>1. rb[o].failed \in Versions /\ vetted' = vetted
    BY <1>4 DEF ArchiveFailed, history, TypeInv, RollbackBusy
  <2>2. Production' = Production \ {rb[o].failed}
    BY <1>4, <1>a, <2>1, TransitionProduction DEF ArchiveFailed
  <2>3. Lifecycle!Withdraw(rb[o].failed)
    BY <2>1, <2>2 DEF Lifecycle!Withdraw
  <2> QED
    BY <2>1, <2>3 DEF Lifecycle!Next
<1>5. ASSUME NEW v \in Versions, Register(v) PROVE UNCHANGED Lifecycle!vars
  <2>1. Production' = Production
    BY <1>5, <1>a DEF Register, Production
  <2> QED
    BY <1>5, <2>1 DEF Register, history
<1>6. CASE UNCHANGED <<stage, vetted>>
  BY <1>6 DEF Production
<1>7. ReleaseStep => TagStaging \/ PromoteStage \/ UNCHANGED <<stage, vetted>>
  BY DEF ReleaseStep, RouteCanary, CheckCanary, RevertCanary, PromoteTraffic, WriteRecord,
         WriteLatest, ReleaseError, history
<1>8. \A o \in Operators : RollbackStep(o) =>
        ArchiveFailed(o) \/ RestorePrevious(o) \/ UNCHANGED <<stage, vetted>>
  BY DEF RollbackStep, RestoreTraffic, ChoosePrevious, NoPrevious, RegistryError,
         WriteIncident, RollbackDies, history
<1>9. /\ PodStart \/ UNCHANGED vars => UNCHANGED <<stage, vetted>>
      /\ \A v \in Versions : StartRelease(v) => UNCHANGED <<stage, vetted>>
      /\ \A o \in Operators, v \in Versions : StartRollback(o, v) => UNCHANGED <<stage, vetted>>
  BY DEF PodStart, vars, history, StartRelease, StartRollback
<1> QED
  BY <1>1, <1>2, <1>3, <1>4, <1>5, <1>6, <1>7, <1>8, <1>9 DEF Next

LEMMA LifecycleInit == Init => Lifecycle!Init
BY DEF Init, Lifecycle!Init, Production

(* Every behaviour of the scripts is one of the life cycle. *)
THEOREM ReleaseImplementsLifecycle == Spec => ImplementsLifecycle
<1>1. Spec => []TypeInv
  BY InitTypeInv, NextTypeInv, PTL DEF Spec
<1>2. Spec => []VettedInv
  BY <1>1, InitVettedInv, NextVettedInv, PTL DEF Spec
<1>3. Spec => []RecordInv
  BY <1>1, InitRecordInv, NextRecordInv, PTL DEF Spec
<1>4. Spec => Lifecycle!Spec
  BY <1>1, <1>2, <1>3, LifecycleInit, LifecycleStep, PTL DEF Spec, Lifecycle!Spec
<1> QED
  BY <1>4 DEF ImplementsLifecycle

=============================================================================
