------------------------- MODULE TrainingDag_proofs -------------------------
(***************************************************************************)
(* Proofs about the two pipelines, for any number of dates, snapshots,     *)
(* retries and requests: every state has its type; what a run deploys was  *)
(* trained by a job of its own; and, as long as nobody triggers the        *)
(* feature pipeline by hand, jobs train on validated snapshots and both    *)
(* models of a run were trained and tested on the splits of one snapshot.  *)
(***************************************************************************)
EXTENDS TrainingDag, SequenceTheorems, TLAPS

(* The shapes of the state, in full. *)
Askers   == {"feature_pipeline", "drift_detector", "manual"}
Read     == 0..LastSnapshot
Branches == {"submit", "wait", "done", "failed"}
Jobs     == [run: Nat, by: Askers, train: Read, validation: Read,
             status: {"none", "Starting", "InProgress", "Completed", "Failed"}]
Judged   == [run: Nat, passed: BOOLEAN, auc: 0..2, test: Read]

TrainingType ==
  [pc: {"idle", "train", "pick", "deploy", "promote"} \cup ModelTypes, run: Nat,
   date: Dates \cup {None}, by: Askers, force: ModelTypes \cup {None}, tries: 0..TrainingRetries,
   branch: [ModelTypes -> Branches], again: [ModelTypes -> 0..TrainingRetries],
   results: [ModelTypes -> Judged], winner: ModelTypes \cup {None}]

TypeInv ==
  /\ FeatureTypeOK
  /\ requests \in Seq(Requests)
  /\ open \subseteq UNION Asked
  /\ training \in TrainingType
  /\ runs \in Nat
  /\ jobs \in [ModelTypes -> [Dates -> Jobs]]
  /\ gate \in [ModelTypes -> Judged]

(* A run past the join has both branches done; a branch past its submit has *)
(* a job of this run under its name.                                        *)
Joined == training.pc \in {"pick", "deploy", "promote"} \cup ModelTypes

BranchInv ==
  \A m \in ModelTypes :
    /\ Joined => training.branch[m] = "done"
    /\ training.branch[m] \in {"wait", "done"} =>
         /\ training.date \in Dates
         /\ Job(m).run = training.run
         /\ Job(m).by = training.by
    /\ training.branch[m] = "done" => Job(m).status = "Completed"

(* Without a shared /tmp a verdict that passed is one of this very run.     *)
VerdictInv ==
  /\ training.pc \in {"deploy", "promote"} => training.winner \in Passed
  /\ executor = "kubernetes" =>
       \A m \in ModelTypes :
         /\ ~gate[m].passed
         /\ training.results[m].passed => training.results[m].run = training.run

(* How far the feature pipeline's run got with the splits of its date. *)
ExportInv ==
  /\ feature.ds <= day
  /\ feature.pc = "idle" => feature.ds = 0
  /\ feature.pc # "idle" => feature.ds \in Dates
  /\ feature.pc \in {"validation", "test", "validate", "gate", "trigger"} =>
       splits[feature.ds]["train"] = feature.df
  /\ feature.pc \in {"test", "validate", "gate", "trigger"} =>
       splits[feature.ds]["validation"] = feature.df
  /\ feature.pc \in {"validate", "gate", "trigger"} => splits[feature.ds]["test"] = feature.df
  /\ feature.pc \in {"gate", "trigger"} => feature.df \in sound

(* A date the feature pipeline asked a training run for is settled, wherever *)
(* that request has got to.                                                  *)
SettledInv ==
  /\ \A i \in 1..Len(requests) :
       requests[i].by = "feature_pipeline" => Settled(requests[i].date)
  /\ training.by = "feature_pipeline" => Settled(training.date)
  /\ \A m \in ModelTypes, d \in Dates :
       jobs[m][d].by = "feature_pipeline" => Settled(d)

(* What such a job copied, and what such a run tested on, is what is there. *)
ReadInv ==
  /\ \A m \in ModelTypes, d \in Dates :
       jobs[m][d].by = "feature_pipeline" /\ jobs[m][d].status \in {"InProgress", "Completed"} =>
         jobs[m][d].train = splits[d]["train"] /\ jobs[m][d].validation = splits[d]["train"]
  /\ \A m \in ModelTypes, d \in Dates :
       jobs[m][d].status \in {"none", "Starting"} => jobs[m][d].train = 0
  /\ training.run <= runs
  /\ \A m \in ModelTypes : gate[m].run <= runs
  /\ training.by = "feature_pipeline" => training.run > 0
  /\ training.by = "feature_pipeline" =>
       \A m \in ModelTypes :
         /\ gate[m].run = training.run => gate[m].test = splits[training.date]["train"]
         /\ training.results[m].run = training.run =>
              training.results[m].test = splits[training.date]["train"]

RunInv   == TypeInv /\ ExportInv /\ BranchInv /\ VerdictInv
SplitInv == SettledInv /\ ReadInv

-----------------------------------------------------------------------------
(* The feature pipeline.  A step of it advances its run to the next task,   *)
(* leaves the run where it is, sends it back or ends it, or begins one.     *)
FeatureType == [pc: FeatureSteps, ds: 0..LastDate, tries: 0..FeatureRetries,
                outcome: Outcomes, df: 0..LastSnapshot, cron: BOOLEAN]

Advance ==
  /\ feature.pc \in DOMAIN After /\ feature'.pc = After[feature.pc]
  /\ feature'.ds = feature.ds /\ (feature.pc # "read" => feature'.df = feature.df)
  /\ feature.pc = "validate" => splits[feature.ds]["train"] \in sound
  /\ splits' = IF feature.pc \in SplitNames
               THEN [splits EXCEPT ![feature.ds][feature.pc] = feature.df] ELSE splits
  /\ day' = day

Stay == /\ feature'.pc = feature.pc /\ feature'.ds = feature.ds /\ feature'.df = feature.df
        /\ UNCHANGED <<splits, day>>

Fall == /\ \/ feature' = NoFeature
           \/ feature'.pc = FirstLine /\ feature'.ds = feature.ds /\ feature'.df = feature.df
        /\ UNCHANGED <<splits, day>>

Begin == /\ feature.pc = "idle"
         /\ day' \in Dates /\ (day' = day + 1 \/ (Manual /\ day' = day))
         /\ feature'.pc = "wait_for_raw_data" /\ feature'.ds = day'
         /\ splits' = splits

Asks == requests' = Append(requests, [date |-> feature.ds, by |-> "feature_pipeline", force |-> None])

FeatureMoves ==
  /\ Advance \/ Stay \/ Fall \/ Begin
  /\ requests' = requests \/ (feature.pc = "trigger" /\ Asks)
  /\ UNCHANGED <<executor, sound>>

LEMMA AfterIs ==
  /\ DOMAIN After = {"wait_for_raw_data", "start_curated", "wait_curated", "crawl",
                     "crawling", "start_features", "wait_features", "read", "train", "validation", "test",
                     "validate", "gate"}
  /\ After["wait_for_raw_data"] = "start_curated" /\ After["start_curated"] = "wait_curated"
  /\ After["wait_curated"] = "crawl" /\ After["crawl"] = "crawling" /\ After["crawling"] = "start_features"
  /\ After["start_features"] = "wait_features" /\ After["wait_features"] = "read"
  /\ After["read"] = "train" /\ After["train"] = "validation"
  /\ After["validation"] = "test" /\ After["test"] = "validate"
  /\ After["validate"] = "gate" /\ After["gate"] = "trigger"
BY DEF After

LEMMA AfterSteps ==
  /\ \A pc \in DOMAIN After : After[pc] \in FeatureSteps
  /\ FeatureSteps = DOMAIN After \cup {"idle", "trigger"}
BY AfterIs DEF FeatureSteps

(* The ways a step writes the run: each keeps its type. *)
LEMMA NoFeatureType == NoFeature \in FeatureType
BY AfterSteps, FeatureAssumption DEF NoFeature, FeatureType, Outcomes

LEMMA TaskDoneMoves ==
  ASSUME feature \in FeatureType, feature.pc \in DOMAIN After, TaskDone
  PROVE  /\ feature' \in FeatureType
         /\ feature'.pc = After[feature.pc] /\ feature'.ds = feature.ds /\ feature'.df = feature.df
<1>1. After[feature.pc] \in FeatureSteps /\ 0 \in 0..FeatureRetries
  BY AfterSteps, FeatureAssumption
<1> QED
  BY <1>1 DEF TaskDone, FeatureType

LEMMA FeatureFailsMoves ==
  ASSUME feature \in FeatureType, FeatureFails
  PROVE  /\ feature' \in FeatureType
         /\ \/ feature' = NoFeature
            \/ feature'.pc = FirstLine /\ feature'.ds = feature.ds /\ feature'.df = feature.df
<1>1. FirstLine \in FeatureSteps
  BY AfterSteps, AfterIs DEF FirstLine, FeatureType, SplitNames
<1>2. CASE feature.tries < FeatureRetries
  <2>1. feature.tries + 1 \in 0..FeatureRetries
    BY <1>2, FeatureAssumption DEF FeatureType
  <2> QED
    BY <1>1, <1>2, <2>1 DEF FeatureFails, FeatureType
<1>3. CASE ~(feature.tries < FeatureRetries)
  BY <1>3, NoFeatureType DEF FeatureFails
<1> QED
  BY <1>2, <1>3

LEMMA FeatureStepMoves ==
  ASSUME FeatureTypeOK, FeatureNext
  PROVE  FeatureMoves /\ FeatureTypeOK'
<1>1. feature \in FeatureType
  BY DEF FeatureTypeOK, FeatureType
<1>2. /\ 0 \in 0..FeatureRetries /\ 0 \in 0..LastSnapshot /\ Dates \subseteq 0..LastDate
      /\ FeatureRetries \in Nat /\ LastSnapshot \in Nat
  BY FeatureAssumption DEF Dates
<1>3. ASSUME NEW d \in Dates, StartFeature(d) PROVE FeatureMoves /\ FeatureTypeOK'
  <2>1. feature' \in FeatureType /\ feature'.pc = "wait_for_raw_data" /\ feature'.ds = d
    BY <1>2, <1>3, AfterSteps, AfterIs DEF StartFeature, NoFeature, FeatureType, Outcomes
  <2>2. glue' \in [GlueJobs -> Runners]
    BY <1>3 DEF StartFeature, FeatureTypeOK, Runners
  <2>3. day' \in 0..LastDate
    BY <1>2, <1>3 DEF StartFeature
  <2> QED
    BY <1>3, <2>1, <2>2, <2>3 DEF StartFeature, FeatureMoves, Begin, FeatureTypeOK, FeatureType
<1>4. ASSUME Wait PROVE FeatureMoves /\ FeatureTypeOK'
  <2>1. feature.pc \in DOMAIN After /\ feature.pc \notin SplitNames /\ feature.pc # "validate"
    BY <1>4, AfterIs DEF Wait, SplitNames
  <2>2. CASE TaskDone
    BY <1>1, <1>4, <2>1, <2>2, TaskDoneMoves DEF Wait, FeatureMoves, Advance, FeatureTypeOK, FeatureType
  <2>3. CASE feature' = NoFeature
    BY <1>4, <2>3, NoFeatureType DEF Wait, FeatureMoves, Fall, FeatureTypeOK, FeatureType
  <2> QED
    BY <1>4, <2>2, <2>3 DEF Wait
<1>5. ASSUME StartGlue PROVE FeatureMoves /\ FeatureTypeOK'
  <2>1. /\ feature.pc \in DOMAIN After /\ feature.pc \notin SplitNames /\ feature.pc # "validate"
        /\ JobOf(feature.pc) \in GlueJobs
    BY <1>5, AfterIs DEF StartGlue, SplitNames, JobOf, GlueJobs
  <2>2. glue' \in [GlueJobs -> Runners]
    BY <1>5, <2>1 DEF StartGlue, FeatureTypeOK, Runners
  <2>3. CASE FeatureFails
    BY <1>1, <1>5, <2>2, <2>3, FeatureFailsMoves DEF StartGlue, FeatureMoves, Fall, FeatureTypeOK, FeatureType
  <2>4. CASE feature' = [feature EXCEPT !.pc = After[@], !.tries = 0, !.outcome = "none"]
    <3>1. After[feature.pc] \in FeatureSteps /\ "none" \in Outcomes
      BY <2>1, AfterSteps DEF Outcomes
    <3>2. /\ feature' \in FeatureType
          /\ feature'.pc = After[feature.pc] /\ feature'.ds = feature.ds /\ feature'.df = feature.df
      BY <1>1, <1>2, <2>4, <3>1 DEF FeatureType
    <3> QED
      BY <1>5, <2>1, <2>2, <3>2 DEF StartGlue, FeatureMoves, Advance, FeatureTypeOK, FeatureType
  <2> QED
    BY <1>5, <2>3, <2>4 DEF StartGlue
<1>6. ASSUME WaitGlue PROVE FeatureMoves /\ FeatureTypeOK'
  <2>1. feature.pc \in DOMAIN After /\ feature.pc \notin SplitNames /\ feature.pc # "validate"
    BY <1>6, AfterIs DEF WaitGlue, SplitNames
  <2>2. CASE TaskDone
    BY <1>1, <1>6, <2>1, <2>2, TaskDoneMoves DEF WaitGlue, FeatureMoves, Advance, FeatureTypeOK, FeatureType
  <2>3. CASE FeatureFails
    BY <1>1, <1>6, <2>3, FeatureFailsMoves DEF WaitGlue, FeatureMoves, Fall, FeatureTypeOK, FeatureType
  <2> QED
    BY <1>6, <2>2, <2>3 DEF WaitGlue
<1>7. ASSUME ReadSnapshot PROVE FeatureMoves /\ FeatureTypeOK'
  <2>1. feature.pc \in DOMAIN After /\ feature.pc \notin SplitNames /\ After[feature.pc] = "train"
    BY <1>7, AfterIs DEF ReadSnapshot, SplitNames
  <2>2. "train" \in FeatureSteps /\ snapshot \in 0..LastSnapshot
    BY AfterIs, AfterSteps DEF FeatureTypeOK
  <2>3. feature' \in FeatureType /\ feature'.pc = "train" /\ feature'.ds = feature.ds
    BY <1>1, <1>7, <2>2 DEF ReadSnapshot, FeatureType
  <2> QED
    BY <1>7, <2>1, <2>3 DEF ReadSnapshot, FeatureMoves, Advance, FeatureTypeOK, FeatureType
<1>8. ASSUME WriteSplit PROVE FeatureMoves /\ FeatureTypeOK'
  <2>1. /\ feature.pc \in SplitNames /\ feature.pc \in DOMAIN After
        /\ feature.pc # "validate" /\ After[feature.pc] \in FeatureSteps
    BY <1>8, AfterIs, AfterSteps DEF WriteSplit, SplitNames
  <2>2. /\ feature' \in FeatureType
        /\ feature'.pc = After[feature.pc] /\ feature'.ds = feature.ds /\ feature'.df = feature.df
    <3>1. CASE TaskDone
      BY <1>1, <2>1, <3>1, TaskDoneMoves
    <3>2. CASE feature' = [feature EXCEPT !.pc = After[@]]
      BY <1>1, <2>1, <3>2 DEF FeatureType
    <3> QED
      BY <1>8, <3>1, <3>2 DEF WriteSplit
  <2>3. splits' \in [Dates -> [SplitNames -> 0..LastSnapshot]]
    <3>1. splits \in [Dates -> [SplitNames -> 0..LastSnapshot]] /\ feature.df \in 0..LastSnapshot
      BY DEF FeatureTypeOK
    <3> QED
      BY <1>8, <3>1 DEF WriteSplit
  <2> QED
    BY <1>8, <2>1, <2>2, <2>3 DEF WriteSplit, FeatureMoves, Advance, FeatureTypeOK, FeatureType
<1>9. ASSUME Validate PROVE FeatureMoves /\ FeatureTypeOK'
  <2>1. feature.pc \in DOMAIN After /\ feature.pc \notin SplitNames /\ feature.pc = "validate"
    BY <1>9, AfterIs DEF Validate, SplitNames
  <2>2. file' \in BOOLEAN \cup {None}
    BY <1>9 DEF Validate, FeatureTypeOK, Passes
  <2>3. CASE splits[feature.ds]["train"] \in sound
    BY <1>1, <1>9, <2>1, <2>2, <2>3, TaskDoneMoves
    DEF Validate, Passes, FeatureMoves, Advance, FeatureTypeOK, FeatureType
  <2>4. CASE splits[feature.ds]["train"] \notin sound
    BY <1>1, <1>9, <2>2, <2>4, FeatureFailsMoves
    DEF Validate, Passes, FeatureMoves, Fall, FeatureTypeOK, FeatureType
  <2> QED
    BY <2>3, <2>4
<1>10. ASSUME Gate PROVE FeatureMoves /\ FeatureTypeOK'
  <2>1. feature.pc \in DOMAIN After /\ feature.pc \notin SplitNames /\ feature.pc # "validate"
    BY <1>10, AfterIs DEF Gate, SplitNames
  <2>2. CASE TaskDone
    BY <1>1, <1>10, <2>1, <2>2, TaskDoneMoves DEF Gate, FeatureMoves, Advance, FeatureTypeOK, FeatureType
  <2>3. CASE feature' = NoFeature
    BY <1>10, <2>3, NoFeatureType DEF Gate, FeatureMoves, Fall, FeatureTypeOK, FeatureType
  <2> QED
    BY <1>10, <2>2, <2>3 DEF Gate
<1>11. ASSUME Trigger PROVE FeatureMoves /\ FeatureTypeOK'
  <2>1. /\ feature' \in FeatureType
        /\ \/ feature' = NoFeature
           \/ feature'.pc = FirstLine /\ feature'.ds = feature.ds /\ feature'.df = feature.df
    BY <1>1, <1>11, NoFeatureType, FeatureFailsMoves DEF Trigger
  <2> QED
    BY <1>11, <2>1 DEF Trigger, FeatureMoves, Fall, Asks, FeatureTypeOK, FeatureType
<1>12. ASSUME FeatureError PROVE FeatureMoves /\ FeatureTypeOK'
  BY <1>1, <1>12, FeatureFailsMoves DEF FeatureError, FeatureMoves, Fall, FeatureTypeOK, FeatureType
<1>13. ASSUME NEW job \in GlueJobs, GlueEnds(job) PROVE FeatureMoves /\ FeatureTypeOK'
  <2>1. PICK outcome \in Outcomes \ {"none"} :
          /\ IF outcome = "SUCCEEDED" THEN Succeeds(job) ELSE Fails(job)
          /\ feature' = IF glue[job] = "dag" /\ feature.pc # "idle"
                        THEN [feature EXCEPT !.outcome = outcome] ELSE feature
    BY <1>13 DEF GlueEnds
  <2>2. /\ feature' \in FeatureType
        /\ feature'.pc = feature.pc /\ feature'.ds = feature.ds /\ feature'.df = feature.df
    BY <1>1, <2>1 DEF FeatureType
  <2>3. glue' \in [GlueJobs -> Runners] /\ snapshot' \in 0..LastSnapshot
    BY <1>2, <1>13, <2>1 DEF Succeeds, Fails, FeatureTypeOK, Runners
  <2> QED
    BY <1>13, <2>2, <2>3 DEF GlueEnds, FeatureMoves, Stay, FeatureTypeOK, FeatureType
<1>14. ASSUME ScheduleGlue PROVE FeatureMoves /\ FeatureTypeOK'
  <2>1. /\ feature' \in FeatureType
        /\ feature'.pc = feature.pc /\ feature'.ds = feature.ds /\ feature'.df = feature.df
    BY <1>1, <1>14 DEF ScheduleGlue, FeatureType
  <2>2. glue' \in [GlueJobs -> Runners]
    BY <1>14 DEF ScheduleGlue, FeatureTypeOK, Runners
  <2> QED
    BY <1>14, <2>1, <2>2 DEF ScheduleGlue, FeatureMoves, Stay, FeatureTypeOK, FeatureType
<1>15. ASSUME StartCrawl PROVE FeatureMoves /\ FeatureTypeOK'
  <2>1. /\ feature.pc \in DOMAIN After /\ feature.pc \notin SplitNames \cup {"read", "validate"}
        /\ After[feature.pc] \in FeatureSteps
    BY <1>15, AfterIs, AfterSteps DEF StartCrawl, SplitNames
  <2>2. CASE feature' = [feature EXCEPT !.pc = After[@]]
    <3>1. /\ feature' \in FeatureType /\ feature'.pc = After[feature.pc]
          /\ feature'.ds = feature.ds /\ feature'.df = feature.df
      BY <1>1, <2>1, <2>2 DEF FeatureType
    <3> QED
      BY <1>15, <2>1, <3>1 DEF StartCrawl, FeatureMoves, Advance, FeatureTypeOK, FeatureType
  <2>3. CASE FeatureFails
    BY <1>1, <1>15, <2>3, FeatureFailsMoves DEF StartCrawl, FeatureMoves, Fall, FeatureTypeOK, FeatureType
  <2> QED
    BY <1>15, <2>2, <2>3 DEF StartCrawl
<1>16. ASSUME CrawlEnds PROVE FeatureMoves /\ FeatureTypeOK'
  <2>1. feature.pc \in DOMAIN After /\ feature.pc \notin SplitNames /\ feature.pc # "validate"
    BY <1>16, AfterIs DEF CrawlEnds, SplitNames
  <2> QED
    BY <1>1, <1>16, <2>1, TaskDoneMoves DEF CrawlEnds, FeatureMoves, Advance, FeatureTypeOK, FeatureType
<1> QED
  BY <1>3, <1>4, <1>5, <1>6, <1>7, <1>8, <1>9, <1>10, <1>11, <1>12, <1>13, <1>14, <1>15, <1>16
  DEF FeatureNext, FeatureStep

-----------------------------------------------------------------------------
(* The splits of a date, as the feature pipeline writes them. *)
LEMMA ExportStep ==
  ASSUME FeatureTypeOK, ExportInv, FeatureMoves
  PROVE  ExportInv'
<1>1. /\ feature.ds \in 0..LastDate /\ day \in Nat /\ Dates \subseteq Nat
      /\ splits \in [Dates -> [SplitNames -> 0..LastSnapshot]]
  BY FeatureAssumption DEF FeatureTypeOK, Dates
<1>2. CASE Begin
  BY <1>1, <1>2 DEF Begin, ExportInv, Dates
<1>3. CASE Stay
  BY <1>3 DEF Stay, ExportInv, FeatureMoves
<1>4. CASE Fall
  <2>1. CASE feature' = NoFeature
    BY <1>1, <1>4, <2>1 DEF Fall, NoFeature, ExportInv
  <2>2. CASE feature'.pc = FirstLine /\ feature'.ds = feature.ds /\ feature'.df = feature.df
    <3>1. feature.pc = "idle" => feature'.pc = "idle"
      BY <2>2 DEF FirstLine, SplitNames
    <3>2. feature'.pc \in {"read", "crawl", feature.pc} /\ feature'.pc \notin {"validation", "test"}
      BY <2>2 DEF FirstLine, SplitNames
    <3> QED
      BY <1>4, <2>2, <3>1, <3>2 DEF Fall, ExportInv, FeatureMoves
  <2> QED
    BY <1>4, <2>1, <2>2 DEF Fall
<1>5. CASE Advance
  <2>1. feature.pc # "idle" /\ feature.ds \in Dates
    BY <1>5, AfterIs DEF Advance, ExportInv
  <2>2. CASE feature.pc \in SplitNames
    <3>1. /\ splits'[feature.ds][feature.pc] = feature.df
          /\ \A s \in SplitNames \ {feature.pc} : splits'[feature.ds][s] = splits[feature.ds][s]
      BY <1>1, <1>5, <2>1, <2>2 DEF Advance
    <3> QED
      BY <1>5, <2>1, <2>2, <3>1, AfterIs DEF Advance, ExportInv, SplitNames
  <2>3. CASE feature.pc \notin SplitNames
    <3>1. splits' = splits /\ sound' = sound
      BY <1>5, <2>3 DEF Advance, FeatureMoves
    <3>2. CASE feature.pc \in {"validate", "gate"}
      BY <1>5, <2>1, <3>1, <3>2, AfterIs DEF Advance, ExportInv
    <3>3. CASE feature.pc \notin {"validate", "gate"}
      <4>1. feature'.pc \notin {"idle", "validation", "test", "validate", "gate", "trigger"}
        BY <1>5, <2>3, <3>3, AfterIs DEF Advance, SplitNames
      <4> QED
        BY <1>5, <2>1, <4>1 DEF Advance, ExportInv
    <3> QED
      BY <3>2, <3>3
  <2> QED
    BY <2>2, <2>3
<1> QED
  BY <1>2, <1>3, <1>4, <1>5 DEF FeatureMoves

(* A settled date stays settled: without runs by hand the next run has a    *)
(* later date, and the run of this one is past its export.                  *)
LEMMA SettledStays ==
  ASSUME FeatureTypeOK, ~Manual, FeatureMoves, NEW d, Settled(d)
  PROVE  Settled(d)' /\ splits'[d] = splits[d]
<1>1. /\ feature.ds \in 0..LastDate /\ day \in Nat /\ d \in Nat \ {0} /\ d \in Dates
      /\ splits \in [Dates -> [SplitNames -> 0..LastSnapshot]]
  BY FeatureAssumption DEF FeatureTypeOK, Dates, Settled
<1>2. splits'[d] = splits[d]
  <2>1. CASE Advance /\ feature.pc \in SplitNames
    <3>1. feature.ds # d
      BY <2>1 DEF Settled, SplitNames
    <3> QED
      BY <1>1, <2>1, <3>1 DEF Advance
  <2> QED
    BY <2>1 DEF FeatureMoves, Advance, Stay, Fall, Begin
<1>3. d <= day'
  BY <1>1 DEF FeatureMoves, Advance, Stay, Fall, Begin, Settled
<1>4. feature'.ds = d => feature'.pc = "trigger"
  <2>1. CASE Begin
    BY <1>1, <2>1 DEF Begin, Settled
  <2>2. CASE Stay
    BY <2>2 DEF Stay, Settled
  <2>3. CASE Fall
    BY <1>1, <2>3 DEF Fall, Settled, NoFeature, FirstLine, SplitNames
  <2>4. CASE Advance
    <3>1. feature.pc # "trigger"
      BY <2>4, AfterIs DEF Advance
    <3> QED
      BY <2>4, <3>1 DEF Advance, Settled
  <2> QED
    BY <2>1, <2>2, <2>3, <2>4 DEF FeatureMoves
<1> QED
  BY <1>1, <1>2, <1>3, <1>4 DEF Settled, FeatureMoves

(* The request the last task makes is for a settled date. *)
LEMMA AsksForSettled ==
  ASSUME FeatureTypeOK, ExportInv, feature.pc = "trigger"
  PROVE  Settled(feature.ds)
BY DEF ExportInv, Settled, SplitNames

-----------------------------------------------------------------------------
(* The training pipeline.  The ways a step writes its run. *)
SameRun == /\ training'.run = training.run /\ training'.date = training.date
           /\ training'.by = training.by

(* The branch of one model type moves, and nothing else a property reads. *)
BranchMoves(m, next) ==
  /\ SameRun
  /\ training'.branch = [training.branch EXCEPT ![m] = next]
  /\ training'.pc = training.pc
  /\ training'.results = training.results
  /\ training'.winner = training.winner

LEMMA NoTrainingType == NoTraining \in TrainingType
<1>1. NoVerdict \in Judged
  BY FeatureAssumption DEF NoVerdict, Judged, Read
<1>2. 0 \in 0..TrainingRetries
  BY TrainingAssumption
<1> QED
  BY <1>1, <1>2 DEF NoTraining, TrainingType, Askers, Branches

LEMMA BranchDoneMoves ==
  ASSUME training \in TrainingType, NEW m \in ModelTypes, NEW next \in Branches, BranchDone(m, next)
  PROVE  training' \in TrainingType /\ BranchMoves(m, next)
<1>1. 0 \in 0..TrainingRetries
  BY TrainingAssumption
<1> QED
  BY <1>1 DEF BranchDone, TrainingType, BranchMoves, SameRun

LEMMA BranchFailsMoves ==
  ASSUME training \in TrainingType, NEW m \in ModelTypes, BranchFails(m)
  PROVE  /\ training' \in TrainingType
         /\ BranchMoves(m, training.branch[m]) \/ BranchMoves(m, "failed")
<1>1. /\ training.again[m] \in 0..TrainingRetries /\ 0 \in 0..TrainingRetries
      /\ TrainingRetries \in Nat /\ "failed" \in Branches
  BY TrainingAssumption DEF TrainingType, Branches
<1>2. CASE training.again[m] < TrainingRetries
  <2>1. training.again[m] + 1 \in 0..TrainingRetries
    BY <1>1, <1>2
  <2>2. training' = [training EXCEPT !.again[m] = @ + 1]
    BY <1>2 DEF BranchFails
  <2>3. training' \in TrainingType
    BY <2>1, <2>2 DEF TrainingType
  <2> QED
    BY <2>2, <2>3 DEF TrainingType, BranchMoves, SameRun
<1>3. CASE ~(training.again[m] < TrainingRetries)
  BY <1>1, <1>3 DEF BranchFails, TrainingType, BranchMoves, SameRun
<1> QED
  BY <1>2, <1>3

LEMMA TaskFailsMoves ==
  ASSUME training \in TrainingType, TaskFails, training.pc \notin {"idle", "train"}
  PROVE  /\ training' \in TrainingType
         /\ \/ training' = NoTraining
            \/ /\ SameRun /\ training'.branch = training.branch /\ training'.winner = training.winner
               /\ \/ /\ training.pc \in ModelTypes /\ training'.pc = "xgboost"
                     /\ training'.results = NoTraining.results
                  \/ training'.pc = training.pc /\ training'.results = training.results
<1>1. CASE training.tries < TrainingRetries
  <2>1. training.tries + 1 \in 0..TrainingRetries
    BY <1>1, TrainingAssumption DEF TrainingType
  <2>2. "xgboost" \in ModelTypes /\ NoTraining.results \in [ModelTypes -> Judged]
    BY NoTrainingType DEF TrainingType, ModelTypes
  <2>3. CASE training.pc \in ModelTypes
    <3>1. training' = [training EXCEPT !.tries = @ + 1, !.pc = "xgboost", !.results = NoTraining.results]
      BY <1>1, <2>3 DEF TaskFails, TrainingType
    <3> QED
      BY <2>1, <2>2, <2>3, <3>1 DEF TrainingType, SameRun
  <2>4. CASE training.pc \notin ModelTypes
    <3>1. /\ training'.tries = training.tries + 1 /\ training'.pc = training.pc
          /\ training'.results = training.results
      BY <1>1, <2>4 DEF TaskFails, TrainingType
    <3>2. training' \in TrainingType
      BY <1>1, <2>1, <2>4 DEF TaskFails, TrainingType
    <3> QED
      BY <1>1, <3>1, <3>2 DEF TaskFails, TrainingType, SameRun
  <2> QED
    BY <2>3, <2>4
<1>2. CASE ~(training.tries < TrainingRetries)
  BY <1>2, NoTrainingType DEF TaskFails
<1> QED
  BY <1>1, <1>2

LEMMA ResultsMoves ==
  ASSUME training \in TrainingType, NEW m \in ModelTypes, NEW verdict \in Judged, Results(m, verdict)
  PROVE  /\ training' \in TrainingType
         /\ SameRun /\ training'.branch = training.branch
         /\ training'.pc \in {"pytorch", "pick"}
         /\ training'.results = [training.results EXCEPT ![m] = verdict]
<1>1. 0 \in 0..TrainingRetries /\ "pytorch" \in ModelTypes
  BY TrainingAssumption DEF ModelTypes
<1> QED
  BY <1>1 DEF Results, TrainingType, SameRun

(* A forced type that passed is the winner, and else one that passed is. *)
LEMMA WinnerPassed ==
  ASSUME Passed # {}
  PROVE  Winner \in Passed /\ Winner \in ModelTypes
<1>1. Passed \subseteq ModelTypes
  BY DEF Passed
<1>2. CASE training.force \in Passed
  BY <1>1, <1>2 DEF Winner
<1>3. CASE training.force \notin Passed /\ Passed = ModelTypes
  BY <1>3 DEF Winner, ModelTypes
<1>4. CASE training.force \notin Passed /\ Passed # ModelTypes
  <2>1. (CHOOSE m \in Passed : TRUE) \in Passed
    OBVIOUS
  <2> QED
    BY <1>1, <1>4, <2>1 DEF Winner
<1> QED
  BY <1>2, <1>3, <1>4

-----------------------------------------------------------------------------
(* Jobs.  A job that exists keeps its run and who asked for it.             *)
JobsKept ==
  \A m \in ModelTypes, d \in Dates :
    /\ jobs'[m][d].run = jobs[m][d].run /\ jobs'[m][d].by = jobs[m][d].by
    /\ jobs[m][d].status = "Completed" => jobs'[m][d].status = "Completed"

JobsType == [ModelTypes -> [Dates -> Jobs]]

LEMMA CreateMoves ==
  ASSUME training \in TrainingType, jobs \in JobsType, NEW m \in ModelTypes, CanCreate(m), Create(m)
  PROVE  /\ jobs' \in JobsType /\ training.date \in Dates
         /\ jobs'[m][training.date].run = training.run
         /\ jobs'[m][training.date].by = training.by
         /\ jobs'[m][training.date].status = "Starting"
         /\ jobs'[m][training.date].train = 0
         /\ \A n \in ModelTypes, d \in Dates :
              n # m \/ d # training.date => jobs'[n][d] = jobs[n][d]
<1> DEFINE new == [NoJob EXCEPT !.run = training.run, !.by = training.by, !.status = "Starting"]
<1>1. training.date \in Dates
  BY DEF CanCreate, TrainingType
<1>2. /\ new \in Jobs /\ new.run = training.run /\ new.by = training.by
      /\ new.status = "Starting" /\ new.train = 0
  <2>1. training.run \in Nat /\ training.by \in Askers
    BY DEF TrainingType
  <2>2. 0 \in Read /\ 0 \in Nat /\ "manual" \in Askers
    BY FeatureAssumption DEF Read, Askers
  <2>3. NoJob \in Jobs /\ NoJob.train = 0
    BY <2>2 DEF NoJob, Jobs
  <2> QED
    BY <2>1, <2>3 DEF Jobs
<1>3. jobs[m][training.date] = NoJob
  BY DEF CanCreate, Job
<1>4. jobs' = [jobs EXCEPT ![m][training.date] = new]
  BY <1>3 DEF Create
<1> HIDE DEF new
<1> QED
  BY <1>1, <1>2, <1>4 DEF JobsType

(* SageMaker starts a job: it copies both channels, or fails. *)
LEMMA StartJobMoves ==
  ASSUME FeatureTypeOK, jobs \in JobsType, NEW m \in ModelTypes, NEW d \in Dates, StartJob(m, d)
  PROVE  /\ jobs' \in JobsType /\ JobsKept
         /\ jobs[m][d].status = "Starting" /\ jobs'[m][d].status \in {"InProgress", "Failed"}
         /\ jobs'[m][d].train = splits[d]["train"] /\ jobs'[m][d].validation = splits[d]["validation"]
         /\ \A n \in ModelTypes, e \in Dates : n # m \/ e # d => jobs'[n][e] = jobs[n][e]
<1> DEFINE status == IF splits[d]["train"] = 0 \/ splits[d]["validation"] = 0
                     THEN "Failed" ELSE "InProgress"
           new == [jobs[m][d] EXCEPT !.status = status,
                     !.train = splits[d]["train"], !.validation = splits[d]["validation"]]
<1>1. jobs[m][d] \in Jobs /\ jobs[m][d].status = "Starting"
  BY DEF JobsType, StartJob
<1>2. /\ splits[d]["train"] \in Read /\ splits[d]["validation"] \in Read
      /\ status \in {"Failed", "InProgress"}
  BY DEF FeatureTypeOK, SplitNames, Read
<1>3. jobs' = [jobs EXCEPT ![m][d] = new]
  BY DEF StartJob, JobsType
<1> HIDE DEF status
<1>4. /\ new \in Jobs /\ new.run = jobs[m][d].run /\ new.by = jobs[m][d].by
      /\ new.status \in {"InProgress", "Failed"}
      /\ new.train = splits[d]["train"] /\ new.validation = splits[d]["validation"]
  BY <1>1, <1>2 DEF Jobs
<1> HIDE DEF new
<1>5. /\ jobs' \in JobsType /\ jobs'[m][d] = new
      /\ \A n \in ModelTypes, e \in Dates : n # m \/ e # d => jobs'[n][e] = jobs[n][e]
  BY <1>3, <1>4 DEF JobsType
<1> QED
  BY <1>1, <1>4, <1>5 DEF JobsKept

LEMMA EndJobMoves ==
  ASSUME jobs \in JobsType, NEW m \in ModelTypes, NEW d \in Dates, EndJob(m, d)
  PROVE  /\ jobs' \in JobsType /\ JobsKept
         /\ jobs[m][d].status = "InProgress" /\ jobs'[m][d].status \in {"Completed", "Failed"}
         /\ jobs'[m][d].train = jobs[m][d].train /\ jobs'[m][d].validation = jobs[m][d].validation
         /\ \A n \in ModelTypes, e \in Dates : n # m \/ e # d => jobs'[n][e] = jobs[n][e]
<1>1. jobs[m][d] \in Jobs /\ jobs[m][d].status = "InProgress"
  BY DEF JobsType, EndJob
<1>2. PICK status \in {"Completed", "Failed"} : jobs' = [jobs EXCEPT ![m][d].status = status]
  BY DEF EndJob
<1> DEFINE new == [jobs[m][d] EXCEPT !.status = status]
<1>3. jobs' = [jobs EXCEPT ![m][d] = new]
  BY <1>2 DEF JobsType
<1>4. /\ new \in Jobs /\ new.run = jobs[m][d].run /\ new.by = jobs[m][d].by
      /\ new.status \in {"Completed", "Failed"}
      /\ new.train = jobs[m][d].train /\ new.validation = jobs[m][d].validation
  BY <1>1 DEF Jobs
<1> HIDE DEF new
<1>5. /\ jobs' \in JobsType /\ jobs'[m][d] = new
      /\ \A n \in ModelTypes, e \in Dates : n # m \/ e # d => jobs'[n][e] = jobs[n][e]
  BY <1>3, <1>4 DEF JobsType
<1> QED
  BY <1>1, <1>4, <1>5 DEF JobsKept

-----------------------------------------------------------------------------
(* Every step of the two pipelines and of SageMaker preserves RunInv. *)
LEMMA RunInvFeature ==
  ASSUME RunInv, FeatureNext, UNCHANGED trainingVars
  PROVE  RunInv'
<1>1. FeatureMoves /\ FeatureTypeOK'
  BY FeatureStepMoves DEF RunInv, TypeInv
<1>2. ExportInv'
  BY <1>1, ExportStep DEF RunInv, TypeInv
<1>3. requests' \in Seq(Requests)
  <2>1. requests \in Seq(Requests)
    BY DEF RunInv, TypeInv
  <2>2. ASSUME feature.pc = "trigger", Asks PROVE requests' \in Seq(Requests)
    <3>1. feature.ds \in Dates
      BY <2>2 DEF RunInv, ExportInv
    <3>2. [date |-> feature.ds, by |-> "feature_pipeline", force |-> None] \in Requests
      BY <3>1 DEF Requests
    <3> QED
      BY <2>1, <2>2, <3>2 DEF Asks
  <2> QED
    BY <1>1, <2>1, <2>2 DEF FeatureMoves
<1>4. TypeInv'
  BY <1>1, <1>3 DEF RunInv, TypeInv, trainingVars, TrainingType
<1>5. BranchInv' /\ VerdictInv'
  BY <1>1 DEF RunInv, BranchInv, VerdictInv, Joined, Job, Passed, trainingVars, FeatureMoves
<1> QED
  BY <1>2, <1>4, <1>5 DEF RunInv

LEMMA RunInvFrame ==
  ASSUME RunInv, UNCHANGED featureVars
  PROVE  /\ FeatureTypeOK' /\ ExportInv' /\ requests' \in Seq(Requests)
         /\ executor' = executor
BY DEF RunInv, TypeInv, FeatureTypeOK, ExportInv, featureVars

LEMMA RunInvOver ==
  ASSUME RunInv, UNCHANGED <<featureVars, open, runs, jobs, gate>>, training' = NoTraining
  PROVE  RunInv'
<1>1. TypeInv' /\ ExportInv'
  BY RunInvFrame, NoTrainingType DEF RunInv, TypeInv
<1>2. /\ training'.pc = "idle" /\ \A m \in ModelTypes : training'.branch[m] = "submit"
      /\ \A m \in ModelTypes : ~training'.results[m].passed
  BY DEF NoTraining, NoVerdict
<1>3. BranchInv'
  BY <1>2 DEF BranchInv, Joined, ModelTypes
<1>4. VerdictInv'
  BY <1>2, RunInvFrame DEF VerdictInv, RunInv
<1> QED
  BY <1>1, <1>3, <1>4 DEF RunInv

LEMMA RunInvAskFor ==
  ASSUME RunInv, NEW request \in open, AskFor(request)
  PROVE  RunInv'
<1>1. request \in Requests
  BY TrainingAssumption DEF RunInv, TypeInv
<1>2. requests' \in Seq(Requests)
  BY <1>1 DEF AskFor, RunInv, TypeInv
<1>3. FeatureTypeOK' /\ ExportInv'
  BY DEF AskFor, RunInv, TypeInv, FeatureTypeOK, ExportInv
<1>4. TypeInv'
  BY <1>2, <1>3 DEF AskFor, RunInv, TypeInv
<1>5. BranchInv' /\ VerdictInv'
  BY DEF AskFor, RunInv, BranchInv, VerdictInv, Joined, Job, Passed
<1> QED
  BY <1>3, <1>4, <1>5 DEF RunInv

(* The run that StartTraining makes of a request. *)
LEMMA StartMoves ==
  ASSUME RunInv, StartTraining
  PROVE  /\ training' \in TrainingType /\ Head(requests) \in Requests
         /\ requests' = Tail(requests) /\ requests' \in Seq(Requests) /\ requests # <<>>
         /\ training'.pc = "train" /\ training'.run = runs + 1
         /\ training'.date = Head(requests).date /\ training'.by = Head(requests).by
         /\ training'.branch = NoTraining.branch /\ training'.results = NoTraining.results
<1>1. requests \in Seq(Requests) /\ requests # <<>> /\ runs \in Nat
  BY DEF StartTraining, RunInv, TypeInv
<1>2. Head(requests) \in Requests /\ Tail(requests) \in Seq(Requests)
  BY <1>1
<1>3. /\ Head(requests).date \in Dates \cup {None} /\ Head(requests).by \in Askers
      /\ Head(requests).force \in ModelTypes \cup {None} /\ runs + 1 \in Nat
  BY <1>1, <1>2 DEF Requests, Askers
<1>4. training' \in TrainingType
  BY <1>3, NoTrainingType DEF StartTraining, TrainingType
<1> QED
  BY <1>1, <1>2, <1>4 DEF StartTraining, NoTraining

LEMMA RunInvStart ==
  ASSUME RunInv, StartTraining
  PROVE  RunInv'
<1>1. /\ training' \in TrainingType /\ requests' \in Seq(Requests) /\ training'.pc = "train"
      /\ \A m \in ModelTypes : training'.branch[m] = "submit"
      /\ \A m \in ModelTypes : ~training'.results[m].passed
  BY StartMoves DEF NoTraining, NoVerdict
<1>2. FeatureTypeOK' /\ ExportInv' /\ executor' = executor
  BY DEF StartTraining, RunInv, TypeInv, FeatureTypeOK, ExportInv
<1>3. TypeInv'
  BY <1>1, <1>2 DEF StartTraining, RunInv, TypeInv
<1>4. BranchInv'
  BY <1>1 DEF BranchInv, Joined, ModelTypes
<1>5. VerdictInv'
  BY <1>1, <1>2 DEF StartTraining, VerdictInv, RunInv
<1> QED
  BY <1>2, <1>3, <1>4, <1>5 DEF RunInv

(* Verdicts are of no interest to a step of the branches. *)
LEMMA VerdictsKept ==
  ASSUME RunInv, SameRun, UNCHANGED <<executor, gate>>,
         training'.pc \notin {"deploy", "promote"} \/ (UNCHANGED training.pc /\ UNCHANGED training.winner),
         \/ UNCHANGED training.results
         \/ training'.results = NoTraining.results /\ training'.pc \notin {"deploy", "promote"}
  PROVE  VerdictInv'
<1>1. \A m \in ModelTypes : ~NoTraining.results[m].passed
  BY DEF NoTraining, NoVerdict
<1> QED
  BY <1>1 DEF RunInv, VerdictInv, SameRun, Passed

LEMMA RunInvSubmit ==
  ASSUME RunInv, NEW m \in ModelTypes, Submit(m)
  PROVE  RunInv'
<1>1. /\ training \in TrainingType /\ jobs \in JobsType
      /\ training.pc = "train" /\ training.branch[m] = "submit"
      /\ UNCHANGED <<featureVars, open, runs, gate>>
  BY DEF Submit, RunInv, TypeInv, JobsType
<1>2. FeatureTypeOK' /\ ExportInv' /\ requests' \in Seq(Requests) /\ executor' = executor
  BY <1>1, RunInvFrame
<1>3. /\ training' \in TrainingType
      /\ \/ BranchMoves(m, "wait") /\ CanCreate(m) /\ Create(m)
         \/ /\ BranchMoves(m, "submit") \/ BranchMoves(m, "failed")
            /\ (CanCreate(m) /\ Create(m)) \/ UNCHANGED jobs
  <2>1. "wait" \in Branches
    BY DEF Branches
  <2>2. CASE CanCreate(m) /\ BranchDone(m, "wait") /\ Create(m)
    BY <1>1, <2>1, <2>2, BranchDoneMoves
  <2>3. CASE BranchFails(m) /\ ((CanCreate(m) /\ Create(m)) \/ UNCHANGED jobs)
    BY <1>1, <2>3, BranchFailsMoves
  <2> QED
    BY <2>2, <2>3 DEF Submit
<1>4. jobs' \in JobsType
  BY <1>1, <1>3, CreateMoves
<1>5. TypeInv'
  BY <1>1, <1>2, <1>3, <1>4 DEF RunInv, TypeInv, JobsType
<1>6. /\ SameRun /\ training'.pc = "train" /\ UNCHANGED training.results
      /\ \A n \in ModelTypes : n # m => training'.branch[n] = training.branch[n]
      /\ training'.branch[m] \in {"wait", "done"} =>
           training'.branch[m] = "wait" /\ CanCreate(m) /\ Create(m)
  BY <1>1, <1>3 DEF BranchMoves, TrainingType
<1>7. VerdictInv'
  BY <1>1, <1>2, <1>6, VerdictsKept
<1>8. ASSUME NEW n \in ModelTypes, training'.branch[n] \in {"wait", "done"}
      PROVE  /\ training'.date \in Dates
             /\ jobs'[n][training'.date].run = training'.run
             /\ jobs'[n][training'.date].by = training'.by
             /\ training'.branch[n] = "done" => jobs'[n][training'.date].status = "Completed"
  <2>1. CASE n = m
    BY <1>1, <1>6, <1>8, <2>1, CreateMoves DEF SameRun
  <2>2. CASE n # m
    <3>1. training.date \in Dates /\ training'.branch[n] = training.branch[n]
      BY <1>6, <1>8, <2>2 DEF RunInv, BranchInv
    <3>2. jobs'[n][training.date] = jobs[n][training.date]
      BY <1>1, <1>3, <2>2, <3>1, CreateMoves
    <3> QED
      BY <1>6, <1>8, <3>1, <3>2 DEF RunInv, BranchInv, Job, SameRun
  <2> QED
    BY <2>1, <2>2
<1>9. BranchInv'
  BY <1>6, <1>8 DEF BranchInv, Joined, Job, ModelTypes
<1> QED
  BY <1>2, <1>5, <1>7, <1>9 DEF RunInv

LEMMA RunInvWait ==
  ASSUME RunInv, NEW m \in ModelTypes, WaitForJob(m) \/ BranchError(m)
  PROVE  RunInv'
<1>1. /\ training \in TrainingType /\ training.pc = "train"
      /\ training.branch[m] \in {"submit", "wait"}
      /\ UNCHANGED <<featureVars, open, runs, jobs, gate>>
  BY DEF WaitForJob, BranchError, RunInv, TypeInv
<1>2. FeatureTypeOK' /\ ExportInv' /\ requests' \in Seq(Requests) /\ executor' = executor
  BY <1>1, RunInvFrame
<1>3. /\ training' \in TrainingType
      /\ \/ /\ BranchMoves(m, "done") /\ Job(m).status = "Completed"
            /\ training.branch[m] = "wait"
         \/ BranchMoves(m, training.branch[m]) \/ BranchMoves(m, "failed")
  <2>1. "done" \in Branches
    BY DEF Branches
  <2>2. \/ BranchFails(m)
        \/ BranchDone(m, "done") /\ Job(m).status = "Completed" /\ training.branch[m] = "wait"
    BY DEF WaitForJob, BranchError
  <2> QED
    BY <1>1, <2>1, <2>2, BranchDoneMoves, BranchFailsMoves
<1>4. TypeInv'
  BY <1>1, <1>2, <1>3 DEF RunInv, TypeInv
<1>5. /\ SameRun /\ training'.pc = "train" /\ UNCHANGED training.results
      /\ \A n \in ModelTypes : n # m => training'.branch[n] = training.branch[n]
      /\ training'.branch[m] = "done" => Job(m).status = "Completed"
      /\ training'.branch[m] \in {"wait", "done"} => training.branch[m] = "wait"
  BY <1>1, <1>3 DEF BranchMoves, TrainingType
<1>6. VerdictInv'
  BY <1>1, <1>2, <1>5, VerdictsKept
<1>7. BranchInv'
  <2>1. \A n \in ModelTypes : Job(n)' = Job(n)
    BY <1>1, <1>5 DEF Job, SameRun
  <2>2. ~Joined'
    BY <1>5 DEF Joined, ModelTypes
  <2>3. \A n \in ModelTypes : /\ training'.branch[n] \in {"wait", "done"} =>
                                  training.branch[n] \in {"wait", "done"}
                             /\ training'.branch[n] = "done" => Job(n).status = "Completed"
    BY <1>5 DEF RunInv, BranchInv
  <2> QED
    BY <1>1, <1>5, <2>1, <2>2, <2>3 DEF RunInv, BranchInv, SameRun
<1> QED
  BY <1>2, <1>4, <1>6, <1>7 DEF RunInv

(* A step after the join: the branches and the jobs stay as they are.       *)
LEMMA BranchesKept ==
  ASSUME RunInv, SameRun, UNCHANGED <<jobs, training.branch>>,
         Joined \/ \A m \in ModelTypes : training.branch[m] = "done"
  PROVE  BranchInv'
<1>1. \A m \in ModelTypes : Job(m)' = Job(m)
  BY DEF Job, SameRun
<1> QED
  BY <1>1 DEF RunInv, BranchInv, SameRun

LEMMA RunInvJoin ==
  ASSUME RunInv, Join
  PROVE  RunInv'
<1>1. CASE \A m \in ModelTypes : training.branch[m] = "done"
  <2>1. /\ training \in TrainingType /\ training' = [training EXCEPT !.pc = "xgboost"]
        /\ UNCHANGED <<featureVars, open, runs, jobs, gate>> /\ "xgboost" \in ModelTypes
    BY <1>1 DEF Join, RunInv, TypeInv, ModelTypes
  <2>2. /\ training' \in TrainingType /\ SameRun /\ training'.pc = "xgboost"
        /\ training'.branch = training.branch /\ training'.results = training.results
    BY <2>1 DEF TrainingType, SameRun
  <2>3. /\ FeatureTypeOK' /\ ExportInv' /\ requests' \in Seq(Requests)
        /\ executor' = executor /\ BranchInv'
    BY <1>1, <2>1, <2>2, RunInvFrame, BranchesKept
  <2>4. VerdictInv'
    BY <2>1, <2>2, <2>3, VerdictsKept
  <2> QED
    BY <2>1, <2>2, <2>3, <2>4 DEF RunInv, TypeInv
<1>2. CASE ~(\A m \in ModelTypes : training.branch[m] = "done")
  BY <1>2, RunInvOver DEF Join
<1> QED
  BY <1>1, <1>2

(* A verdict of the test split of this run's date, by this very run. *)
LEMMA VerdictType ==
  ASSUME RunInv, Joined, NEW verdict \in Verdicts
  PROVE  /\ verdict \in Judged /\ training.date \in Dates
         /\ verdict.run = training.run /\ verdict.test = splits[training.date]["test"]
<1>1. training.date \in Dates
  BY DEF RunInv, BranchInv, ModelTypes
<1>2. /\ splits[training.date]["test"] \in Read /\ training.run \in Nat
  BY <1>1 DEF RunInv, TypeInv, FeatureTypeOK, SplitNames, Read, TrainingType
<1> QED
  BY <1>1, <1>2 DEF Verdicts, Judged

(* An evaluation that reads a verdict, of this run or of an earlier one.    *)
LEMMA ResultStep ==
  ASSUME RunInv, NEW m \in ModelTypes, training.pc = m, NEW verdict \in Judged, Results(m, verdict),
         UNCHANGED <<featureVars, open, runs, jobs>>,
         gate' \in [ModelTypes -> Judged],
         executor = "kubernetes" => gate' = gate /\ (verdict.passed => verdict.run = training.run)
  PROVE  RunInv'
<1>1. /\ training' \in TrainingType /\ SameRun /\ training'.branch = training.branch
      /\ training'.pc \in {"pytorch", "pick"}
      /\ training'.results = [training.results EXCEPT ![m] = verdict]
  BY ResultsMoves DEF RunInv, TypeInv
<1>2. Joined
  BY DEF Joined
<1>3. /\ FeatureTypeOK' /\ ExportInv' /\ requests' \in Seq(Requests)
      /\ executor' = executor /\ BranchInv'
  BY <1>1, <1>2, RunInvFrame, BranchesKept
<1>4. VerdictInv'
  <2>1. ASSUME executor = "kubernetes", NEW n \in ModelTypes
        PROVE  /\ ~gate'[n].passed
               /\ training'.results[n].passed => training'.results[n].run = training'.run
    <3>1. training.results \in [ModelTypes -> Judged]
      BY DEF RunInv, TypeInv, TrainingType
    <3>2. training'.results[n] = IF n = m THEN verdict ELSE training.results[n]
      BY <1>1, <3>1
    <3> QED
      BY <1>1, <2>1, <3>2 DEF RunInv, VerdictInv, SameRun
  <2> QED
    BY <1>1, <1>3, <2>1 DEF VerdictInv
<1> QED
  BY <1>1, <1>3, <1>4 DEF RunInv, TypeInv

LEMMA RunInvEvaluate ==
  ASSUME RunInv, NEW m \in ModelTypes, Evaluate(m) \/ EvaluateDies(m)
  PROVE  RunInv'
<1>1. gate \in [ModelTypes -> Judged] /\ (executor = "kubernetes" => ~gate[m].passed)
  BY DEF RunInv, TypeInv, VerdictInv
<1>2. CASE Evaluate(m)
  <2>1. PICK verdict \in Verdicts :
          /\ Results(m, verdict)
          /\ gate' = IF executor = "local" THEN [gate EXCEPT ![m] = verdict] ELSE gate
    BY <1>2 DEF Evaluate
  <2>2. training.pc = m /\ Joined
    BY <1>2 DEF Evaluate, Joined
  <2>3. verdict \in Judged /\ verdict.run = training.run
    BY <2>2, VerdictType
  <2>4. gate' \in [ModelTypes -> Judged]
    BY <1>1, <2>1, <2>3
  <2> QED
    BY <1>2, <2>1, <2>2, <2>3, <2>4, ResultStep DEF Evaluate
<1>3. CASE EvaluateDies(m)
  <2>1. gate[m] \in Judged
    BY <1>1
  <2> QED
    BY <1>1, <1>3, <2>1, ResultStep DEF EvaluateDies
<1> QED
  BY <1>2, <1>3

LEMMA RunInvPick ==
  ASSUME RunInv, PickWinner
  PROVE  RunInv'
<1>1. CASE Passed = {}
  BY <1>1, RunInvOver DEF PickWinner
<1>2. CASE Passed # {}
  <2>1. Winner \in Passed /\ Winner \in ModelTypes
    BY <1>2, WinnerPassed
  <2>2. /\ training \in TrainingType /\ training.pc = "pick" /\ 0 \in 0..TrainingRetries
        /\ training' = [training EXCEPT !.pc = "deploy", !.winner = Winner, !.tries = 0]
        /\ UNCHANGED <<featureVars, open, runs, jobs, gate>>
    BY <1>2, TrainingAssumption DEF PickWinner, RunInv, TypeInv
  <2>3. /\ training' \in TrainingType /\ SameRun /\ training'.winner = Winner
        /\ training'.branch = training.branch /\ training'.results = training.results
    BY <2>1, <2>2 DEF TrainingType, SameRun
  <2>4. Joined
    BY <2>2 DEF Joined
  <2>5. /\ FeatureTypeOK' /\ ExportInv' /\ requests' \in Seq(Requests)
        /\ executor' = executor /\ BranchInv'
    BY <2>2, <2>3, <2>4, RunInvFrame, BranchesKept
  <2>6. VerdictInv'
    BY <2>1, <2>2, <2>3, <2>5 DEF RunInv, VerdictInv, Passed, SameRun
  <2> QED
    BY <2>2, <2>3, <2>5, <2>6 DEF RunInv, TypeInv
<1> QED
  BY <1>1, <1>2

LEMMA RunInvDeploy ==
  ASSUME RunInv, Deploy \/ Promote
  PROVE  RunInv'
<1>1. CASE Deploy
  <2>1. /\ training \in TrainingType /\ training.pc = "deploy" /\ 0 \in 0..TrainingRetries
        /\ training' = [training EXCEPT !.pc = "promote", !.tries = 0]
        /\ UNCHANGED <<featureVars, open, runs, jobs, gate>>
    BY <1>1, TrainingAssumption DEF Deploy, RunInv, TypeInv
  <2>2. /\ training' \in TrainingType /\ SameRun /\ training'.winner = training.winner
        /\ training'.branch = training.branch /\ training'.results = training.results
    BY <2>1 DEF TrainingType, SameRun
  <2>3. Joined
    BY <2>1 DEF Joined
  <2>4. /\ FeatureTypeOK' /\ ExportInv' /\ requests' \in Seq(Requests)
        /\ executor' = executor /\ BranchInv'
    BY <2>1, <2>2, <2>3, RunInvFrame, BranchesKept
  <2>5. VerdictInv'
    BY <2>1, <2>2, <2>4 DEF RunInv, VerdictInv, Passed, SameRun
  <2> QED
    BY <2>1, <2>2, <2>4, <2>5 DEF RunInv, TypeInv
<1>2. CASE Promote
  BY <1>2, RunInvOver DEF Promote
<1> QED
  BY <1>1, <1>2

LEMMA RunInvError ==
  ASSUME RunInv, TrainingError
  PROVE  RunInv'
<1>1. /\ training \in TrainingType /\ TaskFails /\ Joined /\ training.pc \notin {"idle", "train"}
      /\ UNCHANGED <<featureVars, open, runs, jobs, gate>>
  BY DEF TrainingError, RunInv, TypeInv, Joined, ModelTypes
<1>2. CASE training' = NoTraining
  BY <1>1, <1>2, RunInvOver
<1>3. CASE training' # NoTraining
  <2>1. /\ training' \in TrainingType /\ SameRun
        /\ training'.branch = training.branch /\ training'.winner = training.winner
        /\ \/ /\ training'.pc = "xgboost" /\ training'.results = NoTraining.results
           \/ training'.pc = training.pc /\ training'.results = training.results
    BY <1>1, <1>3, TaskFailsMoves
  <2>2. /\ FeatureTypeOK' /\ ExportInv' /\ requests' \in Seq(Requests)
        /\ executor' = executor /\ BranchInv'
    BY <1>1, <2>1, RunInvFrame, BranchesKept
  <2>3. VerdictInv'
    BY <1>1, <2>1, <2>2, VerdictsKept
  <2> QED
    BY <1>1, <2>1, <2>2, <2>3 DEF RunInv, TypeInv
<1> QED
  BY <1>2, <1>3

LEMMA RunInvJob ==
  ASSUME RunInv, NEW m \in ModelTypes, NEW d \in Dates, JobStep(m, d)
  PROVE  RunInv'
<1>1. /\ jobs' \in JobsType /\ JobsKept
      /\ UNCHANGED <<featureVars, open, training, runs, gate>>
  BY StartJobMoves, EndJobMoves DEF JobStep, StartJob, EndJob, RunInv, TypeInv, JobsType
<1>2. FeatureTypeOK' /\ ExportInv' /\ requests' \in Seq(Requests) /\ executor' = executor
  BY <1>1, RunInvFrame
<1>3. TypeInv' /\ VerdictInv'
  BY <1>1, <1>2 DEF RunInv, TypeInv, JobsType, VerdictInv, Passed
<1>4. BranchInv'
  BY <1>1 DEF RunInv, BranchInv, Joined, Job, JobsKept
<1> QED
  BY <1>2, <1>3, <1>4 DEF RunInv

LEMMA RunInvInit == Init => RunInv
<1> SUFFICES ASSUME Init PROVE RunInv
  OBVIOUS
<1>1. /\ 0 \in Nat /\ 0 \in 0..LastDate /\ 0 \in 0..LastSnapshot /\ 0 \in Read
  BY FeatureAssumption DEF Read
<1>2. FeatureTypeOK
  BY <1>1, NoFeatureType DEF Init, FeatureInit, FeatureTypeOK, FeatureType, Runners
<1>3. NoVerdict \in Judged /\ NoJob \in Jobs
  BY <1>1 DEF NoVerdict, Judged, NoJob, Jobs, Askers
<1>4. TypeInv
  BY <1>1, <1>2, <1>3, NoTrainingType DEF Init, FeatureInit, TypeInv
<1>5. ExportInv
  BY <1>1 DEF Init, FeatureInit, ExportInv, NoFeature
<1>6. BranchInv /\ VerdictInv
  BY DEF Init, BranchInv, VerdictInv, Joined, ModelTypes, NoTraining, NoVerdict
<1> QED
  BY <1>4, <1>5, <1>6 DEF RunInv

LEMMA RunInvStep == RunInv /\ [Next]_vars => RunInv'
<1> SUFFICES ASSUME RunInv, [Next]_vars PROVE RunInv'
  OBVIOUS
<1>1. CASE FeatureNext /\ UNCHANGED trainingVars
  BY <1>1, RunInvFeature
<1>2. CASE \E request \in open : AskFor(request)
  BY <1>2, RunInvAskFor
<1>3. CASE StartTraining
  BY <1>3, RunInvStart
<1>4. CASE TrainingStep \/ TrainingFails
  BY <1>4, RunInvSubmit, RunInvWait, RunInvEvaluate, RunInvJoin, RunInvPick, RunInvDeploy,
     RunInvError DEF TrainingStep, TrainingFails
<1>5. CASE \E m \in ModelTypes, d \in Dates : JobStep(m, d)
  BY <1>5, RunInvJob
<1>6. CASE UNCHANGED vars
  BY <1>6, RunInvFrame DEF vars, trainingVars, RunInv, TypeInv, BranchInv, VerdictInv, Joined, Job, Passed
<1> QED
  BY <1>1, <1>2, <1>3, <1>4, <1>5, <1>6 DEF Next

-----------------------------------------------------------------------------
(* Every state has its type, whatever fails and whoever asks for runs:      *)
(* the tasks of both DAGs, the jobs, the gate files and the requests        *)
(* (feature_pipeline.py, training_pipeline.py).                             *)
THEOREM TrainingTypes == Spec => []TypeOK
<1>1. RunInv => TypeOK
  <2>1. ASSUME RunInv, NEW i \in 1..Len(requests) PROVE requests[i] \in Requests
    BY <2>1 DEF RunInv, TypeInv
  <2>2. RunInv => training \in TrainingType /\ jobs \in JobsType
    BY DEF RunInv, TypeInv, JobsType
  <2> QED
    BY <2>1, <2>2 DEF RunInv, TypeInv, TypeOK, TrainingType, Branches, JobsType, Jobs
<1> QED
  BY <1>1, RunInvInit, RunInvStep, PTL DEF Spec

(* A run deploys a model that a job of this very run trained and that       *)
(* passed an evaluation, one of this very run where tasks share no /tmp     *)
(* (training_pipeline.py, submit to deploy): earlier runs may have left     *)
(* jobs of the same name and gate files behind.                             *)
THEOREM OwnWorkIsDeployed == Spec => []DeploysOwnWork
<1>1. RunInv => DeploysOwnWork
  <2> SUFFICES ASSUME RunInv, training.pc \in {"deploy", "promote"} PROVE DeploysOwnWork
    BY DEF DeploysOwnWork
  <2>1. Joined /\ training.winner \in Passed /\ training.winner \in ModelTypes
    BY DEF Joined, RunInv, VerdictInv, Passed
  <2> QED
    BY <2>1 DEF DeploysOwnWork, RunInv, BranchInv, VerdictInv, Passed
<1> QED
  BY <1>1, RunInvInit, RunInvStep, PTL DEF Spec

-----------------------------------------------------------------------------
(* SplitInv is preserved as long as nobody triggers the feature pipeline by *)
(* hand: a second run for a date writes over splits that jobs are to read.  *)
LEMMA SettledSame ==
  ASSUME UNCHANGED <<day, feature, splits, sound>>, NEW d, Settled(d)
  PROVE  Settled(d)'
BY DEF Settled

LEMMA SplitInvFeature ==
  ASSUME ~Manual, RunInv, SplitInv, FeatureNext, UNCHANGED trainingVars
  PROVE  SplitInv'
<1>1. FeatureMoves /\ FeatureTypeOK /\ ExportInv /\ requests \in Seq(Requests)
  BY FeatureStepMoves DEF RunInv, TypeInv
<1>2. \A d : Settled(d) => Settled(d)' /\ splits'[d] = splits[d]
  BY <1>1, SettledStays
<1>3. UNCHANGED <<training, runs, jobs, gate>>
  BY DEF trainingVars
<1>4. ASSUME NEW i \in 1..Len(requests'), requests'[i].by = "feature_pipeline",
             NEW d, d = requests'[i].date
      PROVE  Settled(d)'
  <2>1. CASE requests' = requests
    BY <1>2, <1>4, <2>1 DEF SplitInv, SettledInv
  <2>2. CASE feature.pc = "trigger" /\ Asks
    <3> DEFINE ask == [date |-> feature.ds, by |-> "feature_pipeline", force |-> None]
    <3>1. requests' = Append(requests, ask) /\ ask.date = feature.ds
      BY <2>2 DEF Asks
    <3> HIDE DEF ask
    <3>2. CASE i \in 1..Len(requests)
      <4>1. requests'[i] = requests[i]
        BY <1>1, <3>1, <3>2
      <4> QED
        BY <1>2, <1>4, <3>2, <4>1 DEF SplitInv, SettledInv
    <3>3. CASE i = Len(requests) + 1
      <4>1. requests'[i].date = feature.ds
        BY <1>1, <3>1, <3>3
      <4> QED
        BY <1>1, <1>2, <1>4, <2>2, <4>1, AsksForSettled
    <3> QED
      BY <1>1, <1>4, <3>1, <3>2, <3>3
  <2> QED
    BY <1>1, <2>1, <2>2 DEF FeatureMoves
<1>5. SettledInv'
  BY <1>2, <1>3, <1>4 DEF SplitInv, SettledInv
<1>6. ReadInv'
  BY <1>2, <1>3 DEF SplitInv, SettledInv, ReadInv
<1> QED
  BY <1>5, <1>6 DEF SplitInv

LEMMA SplitInvAskFor ==
  ASSUME RunInv, SplitInv, NEW request \in open, AskFor(request)
  PROVE  SplitInv'
<1>1. /\ request.by # "feature_pipeline" /\ request \in Requests
      /\ requests \in Seq(Requests) /\ requests' = Append(requests, request)
      /\ UNCHANGED <<day, feature, splits, sound, training, runs, jobs, gate>>
  BY TrainingAssumption DEF AskFor, RunInv, TypeInv
<1>2. ASSUME NEW i \in 1..Len(requests'), requests'[i].by = "feature_pipeline",
             NEW d, d = requests'[i].date
      PROVE  Settled(d)'
  <2>1. i \in 1..Len(requests) /\ requests'[i] = requests[i]
    BY <1>1, <1>2
  <2> QED
    BY <1>1, <1>2, <2>1, SettledSame DEF SplitInv, SettledInv
<1>3. SettledInv'
  BY <1>1, <1>2, SettledSame DEF SplitInv, SettledInv
<1>4. ReadInv'
  BY <1>1 DEF SplitInv, ReadInv
<1> QED
  BY <1>3, <1>4 DEF SplitInv

LEMMA SplitInvStart ==
  ASSUME RunInv, SplitInv, StartTraining
  PROVE  SplitInv'
<1>1. /\ requests \in Seq(Requests) /\ requests # <<>> /\ requests' = Tail(requests)
      /\ training'.run = runs + 1 /\ runs' = runs + 1 /\ runs \in Nat
      /\ training'.date = requests[1].date /\ training'.by = requests[1].by
      /\ training'.results = NoTraining.results
      /\ UNCHANGED <<day, feature, splits, sound, jobs, gate>>
      /\ gate \in [ModelTypes -> Judged]
  BY StartMoves DEF StartTraining, RunInv, TypeInv
<1>2. 1 \in 1..Len(requests)
  BY <1>1
<1>3. ASSUME NEW i \in 1..Len(requests') PROVE i + 1 \in 1..Len(requests) /\ requests'[i] = requests[i + 1]
  BY <1>1
<1>4. SettledInv'
  BY <1>1, <1>2, <1>3, SettledSame DEF SplitInv, SettledInv
<1>5. \A m \in ModelTypes : gate[m].run \in Nat /\ gate[m].run <= runs
  BY <1>1 DEF SplitInv, ReadInv, Judged
<1>6. \A m \in ModelTypes : training'.results[m].run = 0
  BY <1>1 DEF NoTraining, NoVerdict
<1>7. ReadInv'
  BY <1>1, <1>5, <1>6 DEF SplitInv, ReadInv
<1> QED
  BY <1>4, <1>7 DEF SplitInv

(* A step of the run that touches neither jobs nor gate files. *)
LEMMA SplitInvRun ==
  ASSUME RunInv, SplitInv, UNCHANGED <<featureVars, runs, jobs, gate>>,
         \/ training' = NoTraining
         \/ SameRun /\ training'.results \in {training.results, NoTraining.results}
  PROVE  SplitInv'
<1>1. UNCHANGED <<day, feature, splits, sound, requests, runs, jobs, gate>> /\ runs \in Nat
  BY DEF featureVars, RunInv, TypeInv
<1>2. CASE training' = NoTraining
  <2>1. training'.by = "manual" /\ training'.run = 0
    BY <1>2 DEF NoTraining
  <2>2. SettledInv'
    BY <1>1, <2>1, SettledSame DEF SplitInv, SettledInv
  <2>3. ReadInv'
    BY <1>1, <2>1 DEF SplitInv, ReadInv
  <2> QED
    BY <2>2, <2>3 DEF SplitInv
<1>3. CASE SameRun /\ training'.results \in {training.results, NoTraining.results}
  <2>1. SettledInv'
    BY <1>1, <1>3, SettledSame DEF SplitInv, SettledInv, SameRun
  <2>2. \A m \in ModelTypes : NoTraining.results[m].run = 0
    BY DEF NoTraining, NoVerdict
  <2>3. ReadInv'
    BY <1>1, <1>3, <2>2 DEF SplitInv, ReadInv, SameRun
  <2> QED
    BY <2>1, <2>3 DEF SplitInv
<1> QED
  BY <1>2, <1>3

LEMMA SplitInvSubmit ==
  ASSUME RunInv, SplitInv, NEW m \in ModelTypes, Submit(m)
  PROVE  SplitInv'
<1>1. /\ training \in TrainingType /\ jobs \in JobsType
      /\ UNCHANGED <<day, feature, splits, sound, requests, runs, gate>>
      /\ UNCHANGED featureVars
  BY DEF Submit, featureVars, RunInv, TypeInv, JobsType
<1>2. SameRun /\ training'.results = training.results
  BY <1>1, BranchDoneMoves, BranchFailsMoves DEF Submit, BranchMoves, Branches
<1>3. CASE UNCHANGED jobs
  BY <1>1, <1>2, <1>3, SplitInvRun
<1>4. CASE CanCreate(m) /\ Create(m)
  <2>1. ASSUME NEW n \in ModelTypes, NEW d \in Dates
        PROVE  \/ jobs'[n][d] = jobs[n][d]
               \/ /\ jobs'[n][d].by = training.by /\ d = training.date
                  /\ jobs'[n][d].status = "Starting" /\ jobs'[n][d].train = 0
    BY <1>1, <1>4, CreateMoves
  <2>2. SettledInv'
    BY <1>1, <1>2, <2>1, SettledSame DEF SplitInv, SettledInv, SameRun
  <2>3. ReadInv'
    BY <1>1, <1>2, <2>1 DEF SplitInv, ReadInv, SameRun
  <2> QED
    BY <2>2, <2>3 DEF SplitInv
<1> QED
  BY <1>3, <1>4 DEF Submit

(* An evaluation: the verdict it records is of the settled test split, its  *)
(* own or one that this run wrote in an earlier attempt.                    *)
LEMMA SplitInvEvaluate ==
  ASSUME RunInv, SplitInv, NEW m \in ModelTypes, Evaluate(m) \/ EvaluateDies(m)
  PROVE  SplitInv'
<1>1. /\ training \in TrainingType /\ gate \in [ModelTypes -> Judged] /\ training.pc = m /\ Joined
      /\ UNCHANGED <<day, feature, splits, sound, requests, runs, jobs>>
  BY DEF Evaluate, EvaluateDies, Joined, featureVars, RunInv, TypeInv
<1>2. PICK verdict \in Judged :
        /\ Results(m, verdict)
        /\ verdict.run <= runs
        /\ training.by = "feature_pipeline" /\ verdict.run = training.run =>
             verdict.test = splits[training.date]["train"]
        /\ gate' = gate \/ gate' = [gate EXCEPT ![m] = verdict]
  <2>1. CASE Evaluate(m)
    <3>1. PICK verdict \in Verdicts :
            /\ Results(m, verdict)
            /\ gate' = IF executor = "local" THEN [gate EXCEPT ![m] = verdict] ELSE gate
      BY <2>1 DEF Evaluate
    <3>2. /\ verdict \in Judged /\ verdict.run = training.run
          /\ verdict.test = splits[training.date]["test"]
      BY <1>1, VerdictType
    <3>3. training.by = "feature_pipeline" =>
            splits[training.date]["test"] = splits[training.date]["train"]
      BY DEF SplitInv, SettledInv, Settled, SplitNames
    <3> QED
      BY <3>1, <3>2, <3>3 DEF SplitInv, ReadInv
  <2>2. CASE EvaluateDies(m)
    <3>1. gate[m] \in Judged /\ Results(m, gate[m]) /\ gate' = gate
      BY <1>1, <2>2 DEF EvaluateDies
    <3> QED
      BY <3>1 DEF SplitInv, ReadInv
  <2> QED
    BY <2>1, <2>2
<1>3. SameRun /\ training'.results = [training.results EXCEPT ![m] = verdict]
  BY <1>1, <1>2, ResultsMoves
<1>4. SettledInv'
  BY <1>1, <1>3, SettledSame DEF SplitInv, SettledInv, SameRun
<1>5. ASSUME NEW n \in ModelTypes
      PROVE  /\ gate'[n] \in {gate[n], verdict} /\ (gate'[n] = gate[n] \/ n = m)
             /\ training'.results[n] \in {training.results[n], verdict}
  BY <1>1, <1>2, <1>3 DEF TrainingType
<1>6. ReadInv'
  BY <1>1, <1>2, <1>3, <1>5 DEF SplitInv, ReadInv, SameRun
<1> QED
  BY <1>4, <1>6 DEF SplitInv

LEMMA SplitInvTraining ==
  ASSUME RunInv, SplitInv, TrainingStep \/ TrainingFails
  PROVE  SplitInv'
<1>1. training \in TrainingType
  BY DEF RunInv, TypeInv
<1>2. ASSUME NEW m \in ModelTypes, WaitForJob(m) \/ BranchError(m) PROVE SplitInv'
  <2>1. /\ BranchFails(m) \/ BranchDone(m, "done")
        /\ UNCHANGED <<featureVars, runs, jobs, gate>>
    BY <1>2 DEF WaitForJob, BranchError
  <2>2. SameRun /\ training'.results = training.results
    BY <1>1, <2>1, BranchDoneMoves, BranchFailsMoves DEF BranchMoves, Branches
  <2> QED
    BY <2>1, <2>2, SplitInvRun
<1>3. ASSUME Join \/ PickWinner \/ Deploy \/ Promote PROVE SplitInv'
  <2>1. training' = NoTraining \/ (SameRun /\ training'.results = training.results)
    BY <1>1, <1>3 DEF Join, PickWinner, Deploy, Promote, TrainingType, SameRun
  <2> QED
    BY <1>3, <2>1, SplitInvRun DEF Join, PickWinner, Deploy, Promote
<1>4. ASSUME TrainingError PROVE SplitInv'
  <2>1. TaskFails /\ training.pc \notin {"idle", "train"} /\ UNCHANGED <<featureVars, runs, jobs, gate>>
    BY <1>4 DEF TrainingError, ModelTypes
  <2> QED
    BY <1>1, <2>1, TaskFailsMoves, SplitInvRun
<1> QED
  BY <1>2, <1>3, <1>4, SplitInvSubmit, SplitInvEvaluate DEF TrainingStep, TrainingFails

LEMMA SplitInvJob ==
  ASSUME RunInv, SplitInv, NEW m \in ModelTypes, NEW d \in Dates, JobStep(m, d)
  PROVE  SplitInv'
<1>1. /\ UNCHANGED <<day, feature, splits, sound, requests, training, runs, gate>>
      /\ jobs \in JobsType /\ FeatureTypeOK
  BY DEF JobStep, StartJob, EndJob, featureVars, RunInv, TypeInv, JobsType
<1>2. /\ JobsKept
      /\ \A n \in ModelTypes, e \in Dates : n # m \/ e # d => jobs'[n][e] = jobs[n][e]
  BY <1>1, StartJobMoves, EndJobMoves DEF JobStep
<1>3. SettledInv'
  BY <1>1, <1>2, SettledSame DEF SplitInv, SettledInv, JobsKept
<1>4. jobs'[m][d].status \notin {"none", "Starting"}
  BY <1>1, StartJobMoves, EndJobMoves DEF JobStep
<1>5. ASSUME jobs'[m][d].by = "feature_pipeline"
      PROVE  jobs'[m][d].train = splits[d]["train"] /\ jobs'[m][d].validation = splits[d]["train"]
  <2>1. jobs[m][d].by = "feature_pipeline" /\ splits[d]["validation"] = splits[d]["train"]
    BY <1>2, <1>5 DEF JobsKept, SplitInv, SettledInv, Settled, SplitNames
  <2>2. CASE StartJob(m, d)
    BY <1>1, <2>1, <2>2, StartJobMoves
  <2>3. CASE EndJob(m, d)
    BY <1>1, <2>1, <2>3, EndJobMoves DEF SplitInv, ReadInv
  <2> QED
    BY <2>2, <2>3 DEF JobStep
<1>6. ReadInv'
  BY <1>1, <1>2, <1>4, <1>5 DEF SplitInv, ReadInv
<1> QED
  BY <1>3, <1>6 DEF SplitInv

LEMMA SplitInvInit == Init => SplitInv
BY DEF Init, FeatureInit, SplitInv, SettledInv, ReadInv, NoTraining, NoJob, NoVerdict

LEMMA SplitInvStep == ~Manual /\ RunInv /\ SplitInv /\ [Next]_vars => SplitInv'
<1> SUFFICES ASSUME ~Manual, RunInv, SplitInv, [Next]_vars PROVE SplitInv'
  OBVIOUS
<1>1. CASE UNCHANGED vars
  <2>1. UNCHANGED <<day, feature, splits, sound, requests, training, runs, jobs, gate>>
    BY <1>1 DEF vars, featureVars, trainingVars
  <2> QED
    BY <2>1, SettledSame DEF SplitInv, SettledInv, ReadInv
<1> QED
  BY <1>1, SplitInvFeature, SplitInvAskFor, SplitInvStart, SplitInvTraining, SplitInvJob DEF Next

LEMMA SplitsAreSettled ==
  ASSUME ~Manual
  PROVE  Spec => [](RunInv /\ SplitInv)
BY RunInvInit, RunInvStep, SplitInvInit, SplitInvStep, PTL DEF Spec

(* Where nobody triggers the feature pipeline by hand, a job it asked for   *)
(* trains and early-stops on the splits of one snapshot, and that one       *)
(* passed the validation (feature_pipeline.py, the export to the trigger),  *)
(* through retries, lost Glue runs and Glue's own schedule.                 *)
THEOREM ValidatedDataIsTrainedOn ==
  ASSUME ~Manual
  PROVE  Spec => []TrainsOnValidated
<1>1. SplitInv => TrainsOnValidated
  BY DEF SplitInv, SettledInv, Settled, ReadInv, TrainsOnValidated
<1> QED
  BY <1>1, SplitsAreSettled, PTL

(* Likewise the two models a run compares were trained on the same splits   *)
(* and, when their verdicts are of this run, tested on those splits' test   *)
(* set (feature_pipeline.py:220).  By hand it is not so: the run SameSplits *)
(* shows it.                                                                *)
THEOREM SameSplitsAreCompared ==
  ASSUME ~Manual
  PROVE  Spec => []ComparesSameSplits
<1>1. RunInv /\ SplitInv => ComparesSameSplits
  <2> SUFFICES ASSUME RunInv, SplitInv, training.pc = "pick", training.by = "feature_pipeline",
                      NEW m \in ModelTypes, NEW n \in ModelTypes
               PROVE  /\ Job(m).train = Job(n).train
                      /\ training.results[n].run = training.run =>
                           training.results[n].test = Job(m).train
    BY DEF ComparesSameSplits
  <2>1. ASSUME NEW t \in ModelTypes PROVE Job(t).train = splits[training.date]["train"]
    <3>1. /\ training.date \in Dates /\ Job(t).by = "feature_pipeline"
          /\ Job(t).status = "Completed"
      BY DEF RunInv, BranchInv, Joined
    <3> QED
      BY <3>1 DEF SplitInv, ReadInv, Job
  <2> QED
    BY <2>1 DEF SplitInv, ReadInv
<1> QED
  BY <1>1, SplitsAreSettled, PTL

-----------------------------------------------------------------------------
(* The refinement.  Only the date of the running feature pipeline can become *)
(* settled.                                                                  *)
LEMMA OneIsSettled ==
  ASSUME FeatureTypeOK, ~Manual, ExportInv, FeatureMoves, NEW d \in Dates, d # feature.ds, ~Settled(d)
  PROVE  ~Settled(d)'
<1>1. /\ day \in Nat /\ d \in Nat \ {0} /\ feature.ds \in Nat
      /\ splits \in [Dates -> [SplitNames -> 0..LastSnapshot]]
  BY FeatureAssumption DEF FeatureTypeOK, Dates
<1>2. CASE Begin
  BY <1>1, <1>2 DEF Begin, Settled, FeatureMoves
<1>3. CASE Advance
  <2>1. splits'[d] = splits[d]
    BY <1>1, <1>3 DEF Advance
  <2> QED
    BY <1>3, <2>1 DEF Advance, Settled, FeatureMoves
<1>4. CASE Stay \/ Fall
  <2>1. feature'.ds # d /\ UNCHANGED <<splits, day>>
    BY <1>1, <1>4 DEF Stay, Fall, NoFeature
  <2> QED
    BY <2>1 DEF Settled, FeatureMoves
<1> QED
  BY <1>2, <1>3, <1>4 DEF FeatureMoves

LEMMA SoundNumbers ==
  ASSUME FeatureTypeOK, NEW s \in sound
  PROVE  s \in Nat /\ s # 0
BY FeatureAssumption DEF FeatureTypeOK, Snapshots

(* The variables of the promise that a step of one side leaves alone. *)
LEMMA PublishedSame ==
  ASSUME UNCHANGED <<day, feature, splits, sound>>
  PROVE  Published' = Published
BY DEF Published, Settled

LEMMA PromiseFeature ==
  ASSUME ~Manual, RunInv, FeatureNext, UNCHANGED trainingVars
  PROVE  Promise!Next \/ UNCHANGED Promise!vars
<1>1. FeatureMoves /\ FeatureTypeOK /\ ExportInv
  BY FeatureStepMoves DEF RunInv, TypeInv
<1>2. UNCHANGED <<sound, Trained, Chosen>>
  BY <1>1 DEF FeatureMoves, trainingVars, Trained, Chosen
<1>3. \A d \in Dates : d # feature.ds \/ Settled(d) \/ ~Settled(d)' => Published'[d] = Published[d]
  <2> SUFFICES ASSUME NEW d \in Dates, d # feature.ds \/ Settled(d) \/ ~Settled(d)'
               PROVE  Published'[d] = Published[d]
    OBVIOUS
  <2>1. /\ Published[d] = IF Settled(d) THEN splits[d]["train"] ELSE 0
        /\ Published'[d] = IF Settled(d)' THEN splits'[d]["train"] ELSE 0
    BY DEF Published
  <2>2. CASE Settled(d)
    <3>1. Settled(d)' /\ splits'[d] = splits[d]
      BY <1>1, <2>2, SettledStays
    <3> QED
      BY <2>1, <2>2, <3>1
  <2>3. CASE ~Settled(d)
    <3>1. ~Settled(d)'
      BY <1>1, <2>3, OneIsSettled
    <3> QED
      BY <2>1, <2>3, <3>1
  <2> QED
    BY <2>2, <2>3
<1>4. Published = [d \in Dates |-> Published[d]] /\ Published' = [d \in Dates |-> Published'[d]]
  BY DEF Published
<1>5. ASSUME NEW d \in Dates, d = feature.ds, ~Settled(d), Settled(d)'
      PROVE  Promise!Next
  <2> DEFINE s == splits'[d]["train"]
  <2>1. Published[d] = 0 /\ Published'[d] = s
    BY <1>5 DEF Published
  <2>2. s \in sound
    BY <1>2, <1>5 DEF Settled
  <2> HIDE DEF s
  <2>3. Published' = [Published EXCEPT ![d] = s]
    BY <1>3, <1>4, <1>5, <2>1
  <2>4. Promise!Publish(d)
    BY <1>2, <2>1, <2>2, <2>3 DEF Promise!Publish
  <2> QED
    BY <2>4 DEF Promise!Next
<1>6. CASE \A d \in Dates : d = feature.ds => Settled(d) \/ ~Settled(d)'
  <2>1. \A d \in Dates : Published'[d] = Published[d]
    BY <1>3, <1>6
  <2>2. Published' = Published
    BY <1>4, <2>1
  <2> QED
    BY <1>2, <2>2 DEF Promise!vars
<1> QED
  BY <1>5, <1>6

LEMMA PromiseJob ==
  ASSUME RunInv, SplitInv, NEW m \in ModelTypes, NEW d \in Dates, JobStep(m, d)
  PROVE  Promise!Next \/ UNCHANGED Promise!vars
<1>1. /\ UNCHANGED <<day, feature, splits, sound, training>>
      /\ jobs \in JobsType /\ FeatureTypeOK
  BY DEF JobStep, StartJob, EndJob, featureVars, RunInv, TypeInv, JobsType
<1>2. UNCHANGED <<sound, Published, Chosen>>
  BY <1>1, PublishedSame DEF Chosen
<1>3. /\ JobsKept
      /\ \A n \in ModelTypes, e \in Dates : n # m \/ e # d => jobs'[n][e] = jobs[n][e]
  BY <1>1, StartJobMoves, EndJobMoves DEF JobStep
<1> DEFINE seen(n, e) == IF jobs[n][e].by = "feature_pipeline" THEN jobs[n][e].train ELSE 0
<1>4. /\ Trained = [n \in ModelTypes |-> [e \in Dates |-> seen(n, e)]]
      /\ Trained' = [n \in ModelTypes |-> [e \in Dates |-> seen(n, e)']]
  BY DEF Trained
<1>5. \A n \in ModelTypes, e \in Dates : n # m \/ e # d => seen(n, e)' = seen(n, e)
  BY <1>3
<1>6. CASE StartJob(m, d) /\ jobs[m][d].by = "feature_pipeline"
  <2>1. /\ jobs[m][d].status = "Starting" /\ jobs'[m][d].train = splits[d]["train"]
        /\ jobs'[m][d].by = "feature_pipeline"
    BY <1>1, <1>3, <1>6, StartJobMoves DEF JobsKept
  <2>2. Settled(d) /\ jobs[m][d].train = 0
    BY <1>6, <2>1 DEF SplitInv, SettledInv, ReadInv
  <2>3. Published[d] = splits[d]["train"] /\ Published[d] # 0
    <3>1. splits[d]["train"] \in sound
      BY <2>2 DEF Settled
    <3> QED
      BY <1>1, <2>2, <3>1, SoundNumbers DEF Published
  <2>4. seen(m, d) = 0 /\ seen(m, d)' = Published[d]
    BY <1>6, <2>1, <2>2, <2>3
  <2> HIDE DEF seen
  <2>5. Trained[m][d] = 0
    BY <1>4, <2>4
  <2>6. Trained' = [Trained EXCEPT ![m][d] = Published[d]]
    BY <1>4, <1>5, <2>4
  <2>7. Promise!Train(m, d)
    BY <1>2, <2>3, <2>5, <2>6 DEF Promise!Train
  <2> QED
    BY <2>7 DEF Promise!Next
<1>7. CASE ~(StartJob(m, d) /\ jobs[m][d].by = "feature_pipeline")
  <2>1. seen(m, d)' = seen(m, d)
    BY <1>1, <1>3, <1>7, EndJobMoves DEF JobStep, JobsKept
  <2> HIDE DEF seen
  <2>2. Trained' = Trained
    BY <1>4, <1>5, <2>1
  <2> QED
    BY <1>2, <2>2 DEF Promise!vars
<1> QED
  BY <1>6, <1>7

(* Steps that end a deployment, or do not touch one. *)
LEMMA PromiseRun ==
  ASSUME UNCHANGED <<day, feature, splits, sound, jobs>>, Chosen' = Chosen \/ Chosen' = None
  PROVE  Promise!Next \/ UNCHANGED Promise!vars
<1>1. UNCHANGED <<sound, Published, Trained>>
  BY PublishedSame DEF Trained
<1> QED
  BY <1>1 DEF Promise!Next, Promise!Finish, Promise!vars

LEMMA PromiseSubmit ==
  ASSUME RunInv, SplitInv, NEW m \in ModelTypes, Submit(m)
  PROVE  UNCHANGED Promise!vars
<1>1. /\ training \in TrainingType /\ jobs \in JobsType /\ training.pc = "train"
      /\ UNCHANGED <<day, feature, splits, sound>>
  BY DEF Submit, featureVars, RunInv, TypeInv, JobsType
<1>2. training'.pc = "train"
  BY <1>1, BranchDoneMoves, BranchFailsMoves DEF Submit, BranchMoves, Branches
<1>3. UNCHANGED <<sound, Published, Chosen>>
  BY <1>1, <1>2, PublishedSame DEF Chosen
<1>4. Trained' = Trained
  <2>1. CASE UNCHANGED jobs
    BY <2>1 DEF Trained
  <2>2. CASE CanCreate(m) /\ Create(m)
    <3>1. /\ jobs[m][training.date] = NoJob /\ jobs'[m][training.date].train = 0
          /\ \A n \in ModelTypes, e \in Dates :
               n # m \/ e # training.date => jobs'[n][e] = jobs[n][e]
      BY <1>1, <2>2, CreateMoves DEF CanCreate, Job
    <3>2. NoJob.by # "feature_pipeline"
      BY DEF NoJob
    <3>3. ASSUME NEW n \in ModelTypes, NEW e \in Dates
          PROVE  (IF jobs'[n][e].by = "feature_pipeline" THEN jobs'[n][e].train ELSE 0)
                 = (IF jobs[n][e].by = "feature_pipeline" THEN jobs[n][e].train ELSE 0)
      BY <3>1, <3>2
    <3> QED
      BY <3>3 DEF Trained
  <2> QED
    BY <2>1, <2>2 DEF Submit
<1> QED
  BY <1>3, <1>4 DEF Promise!vars

LEMMA PromisePick ==
  ASSUME RunInv, SplitInv, PickWinner
  PROVE  Promise!Next \/ UNCHANGED Promise!vars
<1>1. /\ training \in TrainingType /\ training.pc = "pick" /\ FeatureTypeOK
      /\ UNCHANGED <<day, feature, splits, sound, jobs>>
  BY DEF PickWinner, featureVars, RunInv, TypeInv
<1>2. Chosen = None
  BY <1>1 DEF Chosen
<1>3. CASE Passed = {} \/ training.by # "feature_pipeline"
  <2>1. Chosen' = None
    BY <1>1, <1>3 DEF PickWinner, Chosen, NoTraining, TrainingType
  <2> QED
    BY <1>1, <2>1, PromiseRun
<1>4. CASE Passed # {} /\ training.by = "feature_pipeline"
  <2>1. Winner \in ModelTypes
    BY <1>4, WinnerPassed
  <2>2. Chosen' = <<Winner, training.date>>
    BY <1>1, <1>4 DEF PickWinner, Chosen, TrainingType
  <2>3. /\ training.date \in Dates /\ Settled(training.date)
        /\ \A n \in ModelTypes : /\ jobs[n][training.date].by = "feature_pipeline"
                                 /\ jobs[n][training.date].train = splits[training.date]["train"]
    BY <1>1, <1>4 DEF RunInv, BranchInv, Joined, Job, SplitInv, SettledInv, ReadInv, ModelTypes
  <2>4. Published[training.date] = splits[training.date]["train"] /\ Published[training.date] # 0
    <3>1. splits[training.date]["train"] \in sound
      BY <2>3 DEF Settled
    <3> QED
      BY <1>1, <2>3, <3>1, SoundNumbers DEF Published
  <2>5. \A n \in ModelTypes : Trained[n][training.date] = Published[training.date]
    BY <2>3, <2>4 DEF Trained
  <2>6. UNCHANGED <<sound, Published, Trained>>
    BY <1>1, PublishedSame DEF Trained
  <2>7. Promise!Choose(Winner, training.date)
    BY <1>2, <2>2, <2>4, <2>5, <2>6 DEF Promise!Choose
  <2> QED
    BY <2>1, <2>3, <2>7 DEF Promise!Next
<1> QED
  BY <1>3, <1>4

LEMMA PromiseTraining ==
  ASSUME RunInv, SplitInv, TrainingStep \/ TrainingFails
  PROVE  Promise!Next \/ UNCHANGED Promise!vars
<1>1. training \in TrainingType
  BY DEF RunInv, TypeInv
<1>2. ASSUME NEW m \in ModelTypes, WaitForJob(m) \/ BranchError(m)
      PROVE  Promise!Next \/ UNCHANGED Promise!vars
  <2>1. /\ training.pc = "train"
        /\ BranchFails(m) \/ BranchDone(m, "done")
        /\ UNCHANGED <<day, feature, splits, sound, jobs>>
    BY <1>2 DEF WaitForJob, BranchError, featureVars
  <2>2. training'.pc = "train"
    BY <1>1, <2>1, BranchDoneMoves, BranchFailsMoves DEF BranchMoves, Branches
  <2>3. Chosen' = Chosen
    BY <2>1, <2>2 DEF Chosen
  <2> QED
    BY <2>1, <2>3, PromiseRun
<1>3. ASSUME NEW m \in ModelTypes, Evaluate(m) \/ EvaluateDies(m)
      PROVE  Promise!Next \/ UNCHANGED Promise!vars
  <2>1. training'.pc \in {"pytorch", "pick"}
    BY <1>1, <1>3 DEF Evaluate, EvaluateDies, Results, TrainingType
  <2>2. Chosen' = None
    BY <2>1 DEF Chosen
  <2> QED
    BY <1>3, <2>2, PromiseRun DEF Evaluate, EvaluateDies, featureVars
<1>4. ASSUME Join PROVE Promise!Next \/ UNCHANGED Promise!vars
  <2>1. training'.pc \in {"xgboost", "idle"}
    BY <1>1, <1>4 DEF Join, NoTraining, TrainingType
  <2>2. Chosen' = None
    BY <2>1 DEF Chosen
  <2> QED
    BY <1>4, <2>2, PromiseRun DEF Join, featureVars
<1>5. ASSUME Deploy \/ Promote PROVE Promise!Next \/ UNCHANGED Promise!vars
  <2>1. CASE Deploy
    <3>1. /\ SameRun /\ training'.winner = training.winner
          /\ training.pc = "deploy" /\ training'.pc = "promote"
      BY <1>1, <2>1 DEF Deploy, TrainingType, SameRun
    <3>2. Chosen' = Chosen
      BY <3>1 DEF Chosen, SameRun
    <3> QED
      BY <2>1, <3>2, PromiseRun DEF Deploy, featureVars
  <2>2. CASE Promote
    <3>1. Chosen' = None
      BY <2>2 DEF Promote, Chosen, NoTraining
    <3> QED
      BY <2>2, <3>1, PromiseRun DEF Promote, featureVars
  <2> QED
    BY <1>5, <2>1, <2>2
<1>6. ASSUME TrainingError PROVE Promise!Next \/ UNCHANGED Promise!vars
  <2>1. /\ TaskFails /\ training.pc \notin {"idle", "train"}
        /\ UNCHANGED <<day, feature, splits, sound, jobs>>
    BY <1>6 DEF TrainingError, ModelTypes, featureVars
  <2>2. CASE training' = NoTraining
    <3>1. Chosen' = None
      BY <2>2 DEF Chosen, NoTraining
    <3> QED
      BY <2>1, <3>1, PromiseRun
  <2>3. CASE training' # NoTraining
    <3>1. /\ SameRun /\ training'.winner = training.winner
          /\ training'.pc = training.pc \/ (training.pc \in ModelTypes /\ training'.pc = "xgboost")
      BY <1>1, <2>1, <2>3, TaskFailsMoves
    <3>2. Chosen' = Chosen
      BY <3>1 DEF Chosen, SameRun, ModelTypes
    <3> QED
      BY <2>1, <3>2, PromiseRun
  <2> QED
    BY <2>2, <2>3
<1> QED
  BY <1>2, <1>3, <1>4, <1>5, <1>6, PromiseSubmit, PromisePick DEF TrainingStep, TrainingFails

LEMMA PromiseStep ==
  ~Manual /\ RunInv /\ SplitInv /\ [Next]_vars => [Promise!Next]_Promise!vars
<1> SUFFICES ASSUME ~Manual, RunInv, SplitInv, [Next]_vars
             PROVE  Promise!Next \/ UNCHANGED Promise!vars
  OBVIOUS
<1>1. ASSUME NEW request \in open, AskFor(request) PROVE Promise!Next \/ UNCHANGED Promise!vars
  BY <1>1, PromiseRun DEF AskFor, Chosen
<1>2. ASSUME StartTraining PROVE Promise!Next \/ UNCHANGED Promise!vars
  <2>1. Chosen' = None
    BY <1>2, StartMoves DEF Chosen
  <2> QED
    BY <1>2, <2>1, PromiseRun DEF StartTraining
<1>3. ASSUME UNCHANGED vars PROVE Promise!Next \/ UNCHANGED Promise!vars
  BY <1>3, PromiseRun DEF vars, featureVars, trainingVars, Chosen
<1> QED
  BY <1>1, <1>2, <1>3, PromiseFeature, PromiseJob, PromiseTraining DEF Next

LEMMA PromiseInit == Init => Promise!Init
<1> SUFFICES ASSUME Init PROVE Promise!Init
  OBVIOUS
<1>1. \A d \in Dates : ~Settled(d)
  BY DEF Init, FeatureInit, Settled, Dates
<1>2. Published = [d \in Dates |-> 0]
  BY <1>1 DEF Published
<1>3. Trained = [m \in ModelTypes |-> [d \in Dates |-> 0]]
  BY DEF Init, Trained, NoJob
<1>4. Chosen = None
  BY DEF Init, Chosen, NoTraining
<1> QED
  BY <1>2, <1>3, <1>4 DEF Promise!Init

(* Where nobody triggers the feature pipeline by hand, the two DAGs with    *)
(* their retries, queue, Glue runs and jobs implement ValidatedTraining:    *)
(* the splits of a date are published once and sound, jobs read those, and  *)
(* a winner is one of models that were all trained on them.                 *)
THEOREM PipelinesImplementTraining ==
  ASSUME ~Manual
  PROVE  Spec => ImplementsTraining
<1>1. Spec => [](RunInv /\ SplitInv)
  BY SplitsAreSettled
<1>2. RunInv /\ SplitInv /\ [Next]_vars => [Promise!Next]_Promise!vars
  BY PromiseStep
<1>3. Spec => Promise!Spec
  BY <1>1, <1>2, PromiseInit, PTL DEF Spec, Promise!Spec
<1> QED
  BY <1>3 DEF ImplementsTraining
=============================================================================
