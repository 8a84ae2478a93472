----------------------- MODULE ModelReleaseEnd_proofs -----------------------
(***************************************************************************)
(* Proofs about how a release ends: what it leaves on the listener rule,   *)
(* in the registry and in the records, for every set of versions and of    *)
(* operators, every number of retries and every length of the window.      *)
(***************************************************************************)
EXTENDS ModelRelease_proofs

(* A task that gave up says why; one that is retried goes on. *)
LEMMA TaskFailsExit ==
  ASSUME release \in ReleaseRecords, NEW why \in Exits
  PROVE  TaskFails(why).pc = "idle" => TaskFails(why).exit = why
<1>1. FirstStep # "idle"
  BY DEF FirstStep
<1>2. CASE release.tries < Retries
  BY <1>1, <1>2 DEF TaskFails, ReleaseRecords
<1>3. CASE ~(release.tries < Retries)
  BY <1>3 DEF TaskFails, ReleaseRecords
<1> QED
  BY <1>2, <1>3

(* What the three weight settings leave on the canary. *)
LEMMA SplitCanary ==
  /\ Split(100, 0)["canary"] = 0
  /\ Split(90, 10)["canary"] = 10
  /\ Split(0, 100)["canary"] = 100
BY DEF Split, TargetGroups

(* The steps of rollback.py set no weight but all to stable. *)
LEMMA RollbackWeights ==
  ASSUME NEW o \in Operators, RollbackStep(o)
  PROVE  UNCHANGED release /\ (weights' = weights \/ weights' = Split(100, 0))
BY DEF RollbackStep, RestoreTraffic, ArchiveFailed, ChoosePrevious, NoPrevious,
       RestorePrevious, RegistryError, WriteIncident, RollbackDies

(***************************************************************************)
(* No forgotten canary.  Inductive with one more part: once the promotion  *)
(* has moved the traffic, 10% is no longer what the canary has, whatever   *)
(* rollbacks do, so only a script that raised can end with it.             *)
(***************************************************************************)
CanaryPassed ==
  release.pc \in {"production", "record", "latest"} => weights["canary"] # 10

CanaryInv == NoForgottenCanary /\ CanaryPassed

LEMMA InitCanaryInv == Init => CanaryInv
BY SplitCanary DEF Init, CanaryInv, NoForgottenCanary, CanaryPassed

LEMMA ReleaseStepCanaryInv == TypeInv /\ CanaryInv /\ ReleaseStep => CanaryInv'
<1> SUFFICES ASSUME TypeInv, CanaryInv, ReleaseStep PROVE CanaryInv'
  OBVIOUS
<1>a. release \in ReleaseRecords
  BY DEF TypeInv, TypeOK
<1> USE DEF CanaryInv, NoForgottenCanary, CanaryPassed
<1>1. CASE RouteCanary
  <2>1. release'.pc = "monitor"
    BY <1>1, ReleaseMoves
  <2> QED
    BY <2>1
<1>2. CASE \E reading \in Readings : CheckCanary(reading)
  <2>1. release'.pc \in {"revert", "monitor", "tag"}
    BY <1>2, ReleaseMoves
  <2> QED
    BY <2>1
<1>3. CASE RevertCanary
  BY <1>3, SplitCanary DEF RevertCanary
<1>4. CASE TagStaging
  <2>1. release'.pc = "traffic"
    BY <1>4, ReleaseMoves
  <2> QED
    BY <2>1
<1>5. CASE PromoteTraffic
  BY <1>5, SplitCanary DEF PromoteTraffic
<1>6. CASE PromoteStage
  <2>1. release'.pc = "record" /\ release.pc = "production"
    BY <1>6, ReleaseMoves DEF PromoteStage
  <2> QED
    BY <1>6, <2>1 DEF PromoteStage
<1>7. CASE WriteRecord
  <2>1. release'.pc = "latest" /\ release.pc = "record"
    BY <1>7, ReleaseMoves DEF WriteRecord
  <2> QED
    BY <1>7, <2>1 DEF WriteRecord
<1>8. CASE WriteLatest
  <2>1. /\ release'.pc \in {"idle", "traffic"} /\ release.pc = "latest"
        /\ UNCHANGED weights
    BY <1>8, ReleaseMoves DEF WriteLatest
  <2> QED
    BY <2>1
<1>9. CASE ReleaseError
  <2>1. release'.pc = "idle" => release'.exit = "error"
    BY <1>9, <1>a, TaskFailsExit DEF ReleaseError, Exits
  <2>2. release'.pc \in {"idle", "route", "traffic"}
    BY <1>9, ReleaseMoves
  <2> QED
    BY <2>1, <2>2
<1> QED
  BY <1>1, <1>2, <1>3, <1>4, <1>5, <1>6, <1>7, <1>8, <1>9 DEF ReleaseStep

LEMMA NextCanaryInv == TypeInv /\ CanaryInv /\ [Next]_vars => CanaryInv'
<1> SUFFICES ASSUME TypeInv, CanaryInv, [Next]_vars PROVE CanaryInv'
  OBVIOUS
<1> USE DEF CanaryInv, NoForgottenCanary, CanaryPassed
<1>1. CASE ReleaseStep
  BY <1>1, ReleaseStepCanaryInv
<1>2. ASSUME NEW o \in Operators, RollbackStep(o) PROVE CanaryInv'
  BY <1>2, RollbackWeights, SplitCanary
<1>3. ASSUME NEW v \in Versions, StartRelease(v) PROVE CanaryInv'
  BY <1>3 DEF StartRelease
<1>4. ASSUME NEW v \in Versions, Register(v) PROVE CanaryInv'
  BY <1>4 DEF Register
<1>5. ASSUME NEW o \in Operators, NEW v \in Versions, StartRollback(o, v) PROVE CanaryInv'
  BY <1>5 DEF StartRollback
<1>6. CASE PodStart
  BY <1>6 DEF PodStart
<1>7. CASE UNCHANGED vars
  BY <1>7 DEF vars
<1> QED
  BY <1>1, <1>2, <1>3, <1>4, <1>5, <1>6, <1>7 DEF Next

(* A release that ended by success or by a breach leaves no traffic on an  *)
(* unwatched canary, whatever rollbacks ran beside it.                     *)
THEOREM CanaryIsNotForgotten == Spec => []NoForgottenCanary
<1>1. Spec => []TypeInv
  BY InitTypeInv, NextTypeInv, PTL DEF Spec
<1>2. Spec => []CanaryInv
  BY <1>1, InitCanaryInv, NextCanaryInv, PTL DEF Spec
<1>3. CanaryInv => NoForgottenCanary
  BY DEF CanaryInv
<1> QED
  BY <1>2, <1>3, PTL

(***************************************************************************)
(* Promotion is complete.  While no rollback has run since the promotion   *)
(* began, each of its steps leaves behind what it did, a retry of the task *)
(* does it again, and a version registered meanwhile disturbs nothing.     *)
(***************************************************************************)
CalmAlone == calm => \A o \in Operators : rb[o].pc = "idle"

NewestRecord(v) == \A w \in Versions : deployed[w] <= deployed[v]

CalmSteps ==
  calm =>
    /\ release.pc \in {"production", "record", "latest"} => weights = Split(0, 100)
    /\ release.pc \in {"record", "latest"} => Production = {release.v}
    /\ release.pc = "latest" => NewestRecord(release.v)

CompleteInv == PromotionComplete /\ CalmAlone /\ CalmSteps

LEMMA InitCompleteInv == Init => CompleteInv
BY DEF Init, CompleteInv, PromotionComplete, CalmAlone, CalmSteps

LEMMA ReleaseStepCompleteInv ==
  TypeInv /\ RecordInv /\ CompleteInv /\ ReleaseStep => CompleteInv'
<1> SUFFICES ASSUME TypeInv, RecordInv, CompleteInv, ReleaseStep PROVE CompleteInv'
  OBVIOUS
<1>a. /\ release.v \in Versions /\ release'.v = release.v /\ UNCHANGED rb
      /\ stage \in [Versions -> Stages] /\ deployed \in [Versions -> Nat] /\ clock \in Nat
      /\ release \in ReleaseRecords
  BY ReleaseMoves DEF TypeInv, TypeOK
<1> USE DEF CompleteInv, PromotionComplete, CalmAlone, CalmSteps, NewestRecord
(* Steps of the canary, and whatever sends a task back to its first line. *)
<1>b. ASSUME calm' = calm, release'.pc \notin {"production", "record", "latest"},
             release'.pc = "idle" => release'.exit # "ok"
      PROVE  CompleteInv'
  BY <1>a, <1>b
<1>1. CASE RouteCanary
  <2>1. release'.pc = "monitor"
    BY <1>1, ReleaseMoves
  <2> QED
    BY <1>1, <1>b, <2>1 DEF RouteCanary, history
<1>2. CASE \E reading \in Readings : CheckCanary(reading)
  <2>1. release'.pc \in {"revert", "monitor", "tag"}
    BY <1>2, ReleaseMoves
  <2> QED
    BY <1>2, <1>b, <2>1 DEF CheckCanary, history
<1>3. CASE RevertCanary
  <2>1. release'.pc \in {"idle", "route"}
    BY <1>3, ReleaseMoves
  <2>2. release'.pc = "idle" => release'.exit = "breach"
    BY <1>3, <1>a, TaskFailsExit DEF RevertCanary, Exits
  <2> QED
    BY <1>3, <1>b, <2>1, <2>2 DEF RevertCanary, history
<1>4. CASE TagStaging
  <2>1. release'.pc = "traffic"
    BY <1>4, ReleaseMoves
  <2>2. calm' => \A o \in Operators : rb'[o].pc = "idle"
    BY <1>4, <1>a DEF TagStaging
  <2> QED
    BY <2>1, <2>2
<1>5. CASE PromoteTraffic
  <2>1. release'.pc = "production"
    BY <1>5, ReleaseMoves
  <2> QED
    BY <1>5, <1>a, <2>1 DEF PromoteTraffic, history
<1>6. CASE PromoteStage
  <2>1. release'.pc = "record" /\ release.pc = "production"
    BY <1>6, ReleaseMoves DEF PromoteStage
  <2>2. Production' = {release.v}
    BY <1>6, <1>a, TransitionProduction DEF PromoteStage
  <2> QED
    BY <1>6, <1>a, <2>1, <2>2 DEF PromoteStage
<1>7. CASE WriteRecord
  <2>1. release'.pc = "latest" /\ release.pc = "record"
    BY <1>7, ReleaseMoves DEF WriteRecord
  <2>2. deployed' = [deployed EXCEPT ![release.v] = clock'] /\ clock' \in Nat /\ clock <= clock'
    BY <1>7, <1>a DEF WriteRecord
  <2>3. NewestRecord(release.v)'
    <3>1. \A w \in Versions : deployed[w] <= clock
      BY DEF RecordInv, RecordsOrdered
    <3> QED
      BY <1>a, <2>2, <3>1
  <2>4. UNCHANGED <<weights, calm>> /\ Production' = Production
    BY <1>7 DEF WriteRecord, history, Production
  <2> QED
    BY <1>a, <2>1, <2>3, <2>4
<1>8. CASE WriteLatest
  <2>1. /\ release'.pc \in {"idle", "traffic"}
        /\ release.pc = "latest" /\ latest' = release.v
    BY <1>8, ReleaseMoves DEF WriteLatest
  <2>2. UNCHANGED <<weights, calm, deployed>> /\ Production' = Production
    BY <1>8 DEF WriteLatest, history, Production
  <2> QED
    BY <1>a, <2>1, <2>2
<1>9. CASE ReleaseError
  <2>1. release'.pc = "idle" => release'.exit = "error"
    BY <1>9, <1>a, TaskFailsExit DEF ReleaseError, Exits
  <2>2. release'.pc \in {"idle", "route", "traffic"}
    BY <1>9, ReleaseMoves
  <2> QED
    BY <1>9, <1>b, <2>1, <2>2 DEF ReleaseError, history
<1> QED
  BY <1>1, <1>2, <1>3, <1>4, <1>5, <1>6, <1>7, <1>8, <1>9 DEF ReleaseStep

LEMMA NextCompleteInv ==
  TypeInv /\ RecordInv /\ CompleteInv /\ [Next]_vars => CompleteInv'
<1> SUFFICES ASSUME TypeInv, RecordInv, CompleteInv, [Next]_vars PROVE CompleteInv'
  OBVIOUS
<1> USE DEF CompleteInv, PromotionComplete, CalmAlone, CalmSteps, NewestRecord
<1>1. CASE ReleaseStep
  BY <1>1, ReleaseStepCompleteInv
(* A rollback that takes a step was running: it was not calm, and is not. *)
<1>2. ASSUME NEW o \in Operators, RollbackStep(o) PROVE CompleteInv'
  <2>1. rb[o].pc # "idle" /\ calm' = calm
    BY <1>2
       DEF RollbackStep, RestoreTraffic, ArchiveFailed, ChoosePrevious, NoPrevious,
           RestorePrevious, RegistryError, RegistrySteps, WriteIncident, RollbackDies, history
  <2> QED
    BY <2>1
<1>3. ASSUME NEW o \in Operators, NEW v \in Versions, StartRollback(o, v) PROVE CompleteInv'
  BY <1>3 DEF StartRollback
<1>4. ASSUME NEW v \in Versions, StartRelease(v) PROVE CompleteInv'
  BY <1>4 DEF StartRelease
<1>5. ASSUME NEW v \in Versions, Register(v) PROVE CompleteInv'
  <2>1. Production' = Production
    BY <1>5 DEF Register, Production, TypeInv, TypeOK
  <2> QED
    BY <1>5, <2>1 DEF Register, bucket, history
<1>6. CASE PodStart
  BY <1>6 DEF PodStart, bucket, history, Production
<1>7. CASE UNCHANGED vars
  BY <1>7 DEF vars, Production
<1> QED
  BY <1>1, <1>2, <1>3, <1>4, <1>5, <1>6, <1>7 DEF Next

(* A promotion that exited 0, with no rollback since it began, left rule,  *)
(* registry and both records on its version, however often it was retried. *)
THEOREM PromotionIsComplete == Spec => []PromotionComplete
<1>1. Spec => []TypeInv
  BY InitTypeInv, NextTypeInv, PTL DEF Spec
<1>2. Spec => []RecordInv
  BY <1>1, InitRecordInv, NextRecordInv, PTL DEF Spec
<1>3. Spec => []CompleteInv
  BY <1>1, <1>2, InitCompleteInv, NextCompleteInv, PTL DEF Spec
<1>4. CompleteInv => PromotionComplete
  BY DEF CompleteInv
<1> QED
  BY <1>3, <1>4, PTL

=============================================================================
