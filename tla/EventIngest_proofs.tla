-------------------------- MODULE EventIngest_proofs --------------------------
(***************************************************************************)
(* Proofs about EventIngest for every set of events, every length of the   *)
(* day and hour of the Glue job, every number of tries and every pattern   *)
(* of redelivery.                                                          *)
(***************************************************************************)
EXTENDS EventIngest, FiniteSetTheorems, TLAPS

-----------------------------------------------------------------------------
(* Helpers. *)

(* A batch is finite, so the number of its records counts. *)
LEMMA WriteType ==
  ASSUME arrivals \in [Events -> SUBSET Ticks], rows \in [Events -> Many], now \in Ticks,
         NEW ok, ok \subseteq Events, Write(ok)
  PROVE  /\ arrivals' \in [Events -> SUBSET Ticks] /\ rows' \in [Events -> Many]
         /\ \A e \in Events : arrivals[e] \subseteq arrivals'[e]
         /\ \A e \in ok : arrivals'[e] # {}
         /\ \A e \in Events : arrivals'[e] \subseteq arrivals[e] \cup {now}
         /\ \A e \in Events : e \notin ok => arrivals'[e] = arrivals[e]
<1>1. Cardinality(ok) \in Nat
  BY FS_Subset, FS_CardinalityType, IngestAssumption
<1>2. \A n \in Many, copies \in {1, Cardinality(ok)} : Upto2(n + copies) \in Many
  BY <1>1 DEF Many, Upto2
<1>3. rows' \in [Events -> Many]
  <2>1. PICK copies \in {1, Cardinality(ok)} :
          rows' = [e \in Events |-> IF e \in ok THEN Upto2(rows[e] + copies) ELSE rows[e]]
    BY DEF Write
  <2> QED
    BY <1>2, <2>1
<1> QED
  BY <1>3 DEF Write

LEMMA MergedType ==
  ASSUME curated \in [Events -> Many], job.source \in [Events -> Many]
  PROVE  MergedTable \in [Events -> Many]
BY DEF MergedTable

LEMMA SourceType ==
  /\ [running |-> FALSE, NOW |-> 0, source |-> [e \in Events |-> 0]]
        \in [running: BOOLEAN, NOW: Ticks, source: [Events -> Many]]
  /\ now \in Ticks =>
       [running |-> TRUE, NOW |-> now, source |-> [e \in Events |-> SourceRows(e, now)]]
          \in [running: BOOLEAN, NOW: Ticks, source: [Events -> Many]]
<1>1. \A e \in Events : SourceRows(e, now) \in Many
  BY DEF SourceRows, Many
<1>2. 0 \in Ticks /\ 0 \in Many
  BY IngestAssumption DEF Ticks, Many
<1> QED
  BY <1>1, <1>2

(***************************************************************************)
(* The invariant: the types; what was published is somewhere; a run of the *)
(* Glue job carries an event at most once, and only one that is in the     *)
(* lake.                                                                   *)
(***************************************************************************)
CarriesOnce ==
  \A e \in Events :
    /\ curated[e] <= 1
    /\ job.source[e] <= 1
    /\ job.source[e] > 0 => arrivals[e] # {}

DeliveryInv == TypeOK /\ PublishedIsKept /\ CarriesOnce

LEMMA InitDeliveryInv == Init => DeliveryInv
<1> SUFFICES ASSUME Init PROVE DeliveryInv
  OBVIOUS
<1>1. NoJob \in [running: BOOLEAN, NOW: Ticks, source: [Events -> Many]]
  BY SourceType DEF NoJob
<1>2. NoPublish \in [running: BOOLEAN, remaining: SUBSET Events, attempt: 0..Attempts]
  BY IngestAssumption DEF NoPublish
<1>3. 0 \in Ticks /\ 0 \in Many /\ -1 \in -1..LastTick /\ LastTick \in Nat
  BY IngestAssumption DEF Ticks, Many
<1>4. DOMAIN kind = Events /\ \A e \in Events : kind[e] \in Kinds(e)
  BY DEF Init
<1>5. /\ born \in [Events -> -1..LastTick] /\ rows \in [Events -> Many]
      /\ arrivals \in [Events -> SUBSET Ticks] /\ curated \in [Events -> Many]
  BY <1>3 DEF Init
<1>6. now \in Ticks /\ done \in -1..LastTick /\ missed \in BOOLEAN
  BY <1>3 DEF Init
<1>7. TypeOK
  BY <1>1, <1>2, <1>4, <1>5, <1>6 DEF Init, TypeOK
<1> QED
  BY <1>7 DEF Init, DeliveryInv, PublishedIsKept, CarriesOnce, NoJob

(* The producer and the webhook receiver. *)
SendStep ==
  \/ \E batch \in SUBSET Events : Generate(batch)
  \/ \E ok \in SUBSET Events : PutRecords(ok)
  \/ \E stored \in SUBSET Events : PutRaises(stored)
  \/ Return
  \/ \E batch, ok \in SUBSET Events, at \in Ticks : Receive(batch, at, ok)
  \/ \E batch, stored \in SUBSET Events, at \in Ticks : ReceiveRaises(batch, at, stored)

TransformStep ==
  \/ \E batch \in SUBSET Events, again, converts \in BOOLEAN : Transform(batch, again, converts)
  \/ \E batch \in SUBSET Events : TransformRaises(batch)

JobStep ==
  \/ StartRun
  \/ Merge
  \/ \E merged \in BOOLEAN : RunFails(merged)
  \/ Tick

(* What a step chooses from are sets of events. *)
LEMMA NextSteps == TypeOK /\ Next => SendStep \/ TransformStep \/ JobStep
<1> SUFFICES ASSUME TypeOK, Next PROVE SendStep \/ TransformStep \/ JobStep
  OBVIOUS
<1>1. /\ SUBSET (Events \ Webhook) \subseteq SUBSET Events
      /\ SUBSET publish.remaining \subseteq SUBSET Events
      /\ SUBSET stream \subseteq SUBSET Events
  BY DEF TypeOK
<1>2. \A batch \in SUBSET Webhook : batch \in SUBSET Events /\ SUBSET batch \subseteq SUBSET Events
  BY IngestAssumption
<1>3. CASE \E batch \in SUBSET (Events \ Webhook) : Generate(batch)
  BY <1>1, <1>3, Zenon DEF SendStep
<1>4. CASE \E ok \in SUBSET publish.remaining : PutRecords(ok)
  BY <1>1, <1>4, Zenon DEF SendStep
<1>5. CASE \E stored \in SUBSET publish.remaining : PutRaises(stored)
  BY <1>1, <1>5, Zenon DEF SendStep
<1>6. CASE \E batch \in SUBSET Webhook, at \in Ticks : \E ok \in SUBSET batch : Receive(batch, at, ok)
  BY <1>2, <1>6, Zenon DEF SendStep
<1>7. CASE \E batch \in SUBSET Webhook, at \in Ticks :
             \E stored \in SUBSET batch : ReceiveRaises(batch, at, stored)
  BY <1>2, <1>7, Zenon DEF SendStep
<1>8. CASE \E batch \in SUBSET stream, again, converts \in BOOLEAN : Transform(batch, again, converts)
  BY <1>1, <1>8, Zenon DEF TransformStep
<1>9. CASE \E batch \in SUBSET stream : TransformRaises(batch)
  BY <1>1, <1>9, Zenon DEF TransformStep
<1>10. CASE Return
  BY <1>10 DEF SendStep
<1> QED
  BY <1>3, <1>4, <1>5, <1>6, <1>7, <1>8, <1>9, <1>10 DEF Next, JobStep

(* What every step of a sender leaves to the others, and what it tells. *)
LEMMA SendFacts ==
  ASSUME TypeOK, SendStep
  PROVE  /\ \E stored, told \in SUBSET Events :
              /\ told \subseteq stored
              /\ stream' = stream \cup stored /\ published' = published \cup told
         /\ UNCHANGED <<now, kind, lake, table>>
         /\ born' \in [Events -> -1..LastTick]
         /\ \A e \in Events : born[e] # -1 => born'[e] = born[e]
<1> USE DEF lake, table
<1>0. now \in -1..LastTick /\ Ticks \subseteq -1..LastTick /\ born \in [Events -> -1..LastTick]
  BY IngestAssumption DEF TypeOK, Ticks
<1>1. CASE \E batch \in SUBSET Events : Generate(batch)
  <2>1. stream' = stream \cup {} /\ published' = published \cup {}
    BY <1>1 DEF Generate
  <2> QED
    BY <2>1, <1>1, <1>0 DEF Generate
<1>2. CASE \E ok \in SUBSET Events : PutRecords(ok)
  BY <1>2, <1>0 DEF PutRecords
<1>3. CASE \E stored \in SUBSET Events : PutRaises(stored)
  <2> PICK stored \in SUBSET Events : PutRaises(stored)
    BY <1>3
  <2>1. stream' = stream \cup stored /\ published' = published \cup {}
    BY DEF PutRaises
  <2> QED
    BY <2>1, <1>0 DEF PutRaises
<1>4. CASE Return
  <2>1. stream' = stream \cup {} /\ published' = published \cup {}
    BY <1>4 DEF Return
  <2> QED
    BY <2>1, <1>4, <1>0 DEF Return
<1>5. CASE \E batch, ok \in SUBSET Events, at \in Ticks : Receive(batch, at, ok)
  BY <1>5, <1>0 DEF Receive, Request
<1>6. CASE \E batch, stored \in SUBSET Events, at \in Ticks : ReceiveRaises(batch, at, stored)
  <2> PICK batch \in SUBSET Events, stored \in SUBSET Events, at \in Ticks :
             ReceiveRaises(batch, at, stored)
    BY <1>6
  <2>1. stream' = stream \cup stored /\ published' = published \cup {}
    BY DEF ReceiveRaises
  <2> QED
    BY <2>1, <1>0 DEF ReceiveRaises, Request
<1> QED
  BY <1>1, <1>2, <1>3, <1>4, <1>5, <1>6 DEF SendStep

LEMMA SendType ==
  ASSUME TypeOK, SendStep
  PROVE  /\ publish' \in [running: BOOLEAN, remaining: SUBSET Events, attempt: 0..Attempts]
         /\ published' \subseteq Events /\ repeats' \subseteq Events /\ stream' \subseteq Events
<1>0. /\ publish \in [running: BOOLEAN, remaining: SUBSET Events, attempt: 0..Attempts]
      /\ published \subseteq Events /\ repeats \subseteq Events /\ stream \subseteq Events
      /\ Attempts \in Nat \ {0}
  BY IngestAssumption DEF TypeOK
<1>1. NoPublish \in [running: BOOLEAN, remaining: SUBSET Events, attempt: 0..Attempts]
  BY IngestAssumption DEF NoPublish
<1>2. CASE \E batch \in SUBSET Events : Generate(batch)
  BY <1>2, <1>0 DEF Generate
<1>3. CASE \E ok \in SUBSET Events : PutRecords(ok)
  <2> PICK ok \in SUBSET Events : PutRecords(ok)
    BY <1>3
  <2>1. publish' = [running |-> publish.running, remaining |-> publish.remaining \ ok,
                    attempt |-> publish.attempt + 1]
    BY <1>0 DEF PutRecords
  <2>2. publish.attempt + 1 \in 0..Attempts
    BY <1>0 DEF PutRecords, Finished
  <2>3. publish' \in [running: BOOLEAN, remaining: SUBSET Events, attempt: 0..Attempts]
    BY <2>1, <2>2, <1>0
  <2> QED
    BY <2>3, <1>0 DEF PutRecords
<1>4. CASE \E stored \in SUBSET Events : PutRaises(stored)
  BY <1>4, <1>0, <1>1 DEF PutRaises
<1>5. CASE Return
  BY <1>5, <1>0, <1>1 DEF Return
<1>6. CASE \E batch, ok \in SUBSET Events, at \in Ticks : Receive(batch, at, ok)
  BY <1>6, <1>0 DEF Receive
<1>7. CASE \E batch, stored \in SUBSET Events, at \in Ticks : ReceiveRaises(batch, at, stored)
  BY <1>7, <1>0 DEF ReceiveRaises
<1> QED
  BY <1>2, <1>3, <1>4, <1>5, <1>6, <1>7 DEF SendStep

(* What the transformer does to a batch: each record stays on the stream, is *)
(* written, or ends where it can be found; nothing else is touched.          *)
LEMMA TransformFacts ==
  ASSUME TypeOK, TransformStep
  PROVE  /\ arrivals' \in [Events -> SUBSET Ticks] /\ rows' \in [Events -> Many]
         /\ stream' \subseteq stream
         /\ errors \subseteq errors' /\ errors' \subseteq Events
         /\ dropped \subseteq dropped' /\ dropped' \subseteq Events
         /\ \A e \in Events : /\ arrivals[e] \subseteq arrivals'[e]
                              /\ arrivals'[e] \subseteq arrivals[e] \cup {now}
         /\ \E batch \in SUBSET stream :
              /\ \A e \in batch : \/ e \in stream' \/ arrivals'[e] # {}
                                  \/ e \in errors' \/ (e \in dropped' /\ kind[e] = "smoke_test")
              /\ \A e \in Events \ batch :
                   /\ e \in stream' <=> e \in stream
                   /\ arrivals'[e] = arrivals[e]
                   /\ e \in errors' \cup dropped' <=> e \in errors \cup dropped
         /\ \A e \in Events : arrivals'[e] # arrivals[e] => e \in stream
         /\ UNCHANGED <<now, producer, table>>
<1> USE DEF producer, table
<1>0. /\ stream \subseteq Events /\ errors \subseteq Events /\ dropped \subseteq Events
      /\ arrivals \in [Events -> SUBSET Ticks] /\ rows \in [Events -> Many] /\ now \in Ticks
  BY DEF TypeOK
<1>1. ASSUME NEW batch \in SUBSET Events, NEW again \in BOOLEAN, NEW converts \in BOOLEAN,
             Transform(batch, again, converts)
      PROVE  /\ arrivals' \in [Events -> SUBSET Ticks] /\ rows' \in [Events -> Many]
             /\ \A e \in Events : /\ arrivals[e] \subseteq arrivals'[e]
                                  /\ arrivals'[e] \subseteq arrivals[e] \cup {now}
             /\ \A e \in batch : \/ e \in stream' \/ arrivals'[e] # {}
                                 \/ e \in errors' \/ (e \in dropped' /\ kind[e] = "smoke_test")
             /\ \A e \in Events \ batch : arrivals'[e] = arrivals[e]
  <2> DEFINE ok == batch \ (OfKind("malformed") \cup OfKind("smoke_test"))
  <2>1. CASE converts
    <3>1. Write(ok) /\ ok \subseteq Events
      BY <1>1, <2>1 DEF Transform
    <3> HIDE DEF ok
    <3>2. /\ arrivals' \in [Events -> SUBSET Ticks] /\ rows' \in [Events -> Many]
          /\ \A e \in Events : arrivals[e] \subseteq arrivals'[e]
          /\ \A e \in ok : arrivals'[e] # {}
          /\ \A e \in Events : arrivals'[e] \subseteq arrivals[e] \cup {now}
          /\ \A e \in Events : e \notin ok => arrivals'[e] = arrivals[e]
      BY <3>1, <1>0, WriteType
    <3>3. \A e \in batch \ ok : e \in errors' \/ (e \in dropped' /\ kind[e] = "smoke_test")
      BY <1>1, <2>1 DEF Transform, OfKind, ok
    <3>4. ok \subseteq batch
      BY DEF ok
    <3> QED
      BY <3>2, <3>3, <3>4
  <2>2. CASE ~converts
    <3>1. arrivals' = arrivals /\ rows' = rows
      BY <1>1, <2>2 DEF Transform
    <3>2. \A e \in batch : e \in errors' \/ (e \in dropped' /\ kind[e] = "smoke_test")
      BY <1>1, <2>2 DEF Transform, OfKind
    <3>3. arrivals' \in [Events -> SUBSET Ticks] /\ rows' \in [Events -> Many]
      BY <3>1, <1>0
    <3>4. \A e \in Events : /\ arrivals[e] \subseteq arrivals'[e]
                            /\ arrivals'[e] \subseteq arrivals[e] \cup {now}
      BY <3>1
    <3>5. \A e \in Events \ batch : arrivals'[e] = arrivals[e]
      BY <3>1
    <3>6. \A e \in batch : \/ e \in stream' \/ arrivals'[e] # {}
                           \/ e \in errors' \/ (e \in dropped' /\ kind[e] = "smoke_test")
      BY <3>2
    <3> QED
      BY <3>3, <3>4, <3>5, <3>6, Zenon
  <2> QED
    BY <2>1, <2>2
<1>2. ASSUME NEW batch \in SUBSET Events, NEW again \in BOOLEAN, NEW converts \in BOOLEAN,
             Transform(batch, again, converts)
      PROVE  /\ batch \subseteq stream /\ stream' \subseteq stream
             /\ errors \subseteq errors' /\ errors' \subseteq Events
             /\ dropped \subseteq dropped' /\ dropped' \subseteq Events
             /\ \A e \in Events \ batch :
                  /\ e \in stream' <=> e \in stream
                  /\ e \in errors' \cup dropped' <=> e \in errors \cup dropped
             /\ UNCHANGED <<now, producer, table>>
  BY <1>0, <1>2 DEF Transform
<1>3. CASE \E batch \in SUBSET Events, again, converts \in BOOLEAN :
             Transform(batch, again, converts)
  <2> PICK batch \in SUBSET Events, again \in BOOLEAN, converts \in BOOLEAN :
             Transform(batch, again, converts)
    BY <1>3
  <2>1. batch \in SUBSET stream
    BY <1>2
  <2>2. /\ \A e \in batch : \/ e \in stream' \/ arrivals'[e] # {}
                            \/ e \in errors' \/ (e \in dropped' /\ kind[e] = "smoke_test")
        /\ \A e \in Events \ batch :
             /\ e \in stream' <=> e \in stream
             /\ arrivals'[e] = arrivals[e]
             /\ e \in errors' \cup dropped' <=> e \in errors \cup dropped
    <3>1. \A e \in batch : \/ e \in stream' \/ arrivals'[e] # {}
                           \/ e \in errors' \/ (e \in dropped' /\ kind[e] = "smoke_test")
      BY <1>1
    <3>2. \A e \in Events \ batch :
             /\ e \in stream' <=> e \in stream
             /\ e \in errors' \cup dropped' <=> e \in errors \cup dropped
      BY <1>2
    <3>3. \A e \in Events \ batch : arrivals'[e] = arrivals[e]
      BY <1>1
    <3> QED
      BY <3>1, <3>2, <3>3
  <2>3. \A e \in Events : arrivals'[e] # arrivals[e] => e \in stream
    BY <2>1, <2>2
  <2>4. /\ arrivals' \in [Events -> SUBSET Ticks] /\ rows' \in [Events -> Many]
        /\ \A e \in Events : /\ arrivals[e] \subseteq arrivals'[e]
                             /\ arrivals'[e] \subseteq arrivals[e] \cup {now}
    BY <1>1
  <2>5. /\ stream' \subseteq stream
        /\ errors \subseteq errors' /\ errors' \subseteq Events
        /\ dropped \subseteq dropped' /\ dropped' \subseteq Events
        /\ UNCHANGED <<now, producer, table>>
    BY <1>2
  <2> QED
    BY <2>1, <2>2, <2>3, <2>4, <2>5, Zenon
<1>4. CASE \E batch \in SUBSET Events : TransformRaises(batch)
  BY <1>4, <1>0 DEF TransformRaises
<1> QED
  BY <1>3, <1>4 DEF TransformStep

(* What the Glue job and the clock do. *)
LEMMA JobFacts ==
  ASSUME TypeOK, CarriesOnce, JobStep
  PROVE  /\ UNCHANGED <<producer, stream, lake>>
         /\ now' \in Ticks /\ done' \in -1..LastTick /\ missed' \in BOOLEAN
         /\ job' \in [running: BOOLEAN, NOW: Ticks, source: [Events -> Many]]
         /\ \A e \in Events : job'.source[e] <= 1 /\ (job'.source[e] > 0 => arrivals[e] # {})
         /\ curated' = curated \/ curated' = MergedTable
<1> USE DEF producer, lake
<1>0. /\ now \in Ticks /\ done \in -1..LastTick /\ missed \in BOOLEAN
      /\ job \in [running: BOOLEAN, NOW: Ticks, source: [Events -> Many]]
      /\ LastTick \in Nat
  BY IngestAssumption DEF TypeOK
<1>1. /\ NoJob \in [running: BOOLEAN, NOW: Ticks, source: [Events -> Many]]
      /\ \A e \in Events : NoJob.source[e] <= 1 /\ (NoJob.source[e] > 0 => arrivals[e] # {})
  BY SourceType DEF NoJob
<1>2. CASE StartRun
  <2>1. job' = [running |-> TRUE, NOW |-> now, source |-> [e \in Events |-> SourceRows(e, now)]]
    BY <1>2 DEF StartRun
  <2>2. \A e \in Events : SourceRows(e, now) <= 1 /\ (SourceRows(e, now) > 0 => arrivals[e] # {})
    BY DEF SourceRows, Wanted
  <2>3. job' \in [running: BOOLEAN, NOW: Ticks, source: [Events -> Many]]
    BY <2>1, <1>0, SourceType
  <2> QED
    BY <2>1, <2>2, <2>3, <1>2, <1>0 DEF StartRun
<1>3. CASE Merge
  BY <1>3, <1>0, <1>1 DEF Merge, Ticks
<1>4. CASE \E merged \in BOOLEAN : RunFails(merged)
  BY <1>4, <1>0, <1>1 DEF RunFails
<1>5. CASE Tick
  BY <1>5, <1>0 DEF Tick, Ticks, CarriesOnce
<1> QED
  BY <1>2, <1>3, <1>4, <1>5 DEF JobStep

-----------------------------------------------------------------------------
LEMMA NextDeliveryInv == DeliveryInv /\ [Next]_vars => DeliveryInv'
<1> SUFFICES ASSUME DeliveryInv, [Next]_vars PROVE DeliveryInv'
  OBVIOUS
<1>0. TypeOK /\ CarriesOnce /\ PublishedIsKept
  BY DEF DeliveryInv
<1>1. CASE SendStep
  <2>1. UNCHANGED <<now, kind, arrivals, rows, errors, dropped, job, curated, done, missed>>
    BY <1>1, <1>0, SendFacts DEF lake, table
  <2>2. TypeOK'
    BY <1>1, <1>0, <2>1, SendFacts, SendType DEF TypeOK
  <2>3. PublishedIsKept'
    BY <1>1, <1>0, <2>1, SendFacts DEF PublishedIsKept
  <2>4. CarriesOnce'
    BY <1>0, <2>1 DEF CarriesOnce
  <2> QED
    BY <2>2, <2>3, <2>4 DEF DeliveryInv
<1>2. CASE TransformStep
  <2>1. UNCHANGED <<now, kind, born, publish, published, repeats, job, curated, done, missed>>
    BY <1>2, <1>0, TransformFacts DEF producer, table
  <2>2. TypeOK'
    BY <1>2, <1>0, <2>1, TransformFacts DEF TypeOK
  <2>3. PublishedIsKept'
    <3> SUFFICES ASSUME NEW e \in published
                 PROVE  \/ e \in stream' \/ arrivals'[e] # {}
                        \/ e \in errors' \/ (e \in dropped' /\ kind[e] = "smoke_test")
      BY <2>1 DEF PublishedIsKept
    <3>1. e \in Events
      BY <1>0 DEF TypeOK
    <3>2. \/ e \in stream \/ arrivals[e] # {}
          \/ e \in errors \/ (e \in dropped /\ kind[e] = "smoke_test")
      BY <1>0 DEF PublishedIsKept
    <3> QED
      BY <3>1, <3>2, <1>0, <1>2, TransformFacts
  <2>4. CarriesOnce'
    BY <1>0, <1>2, <2>1, TransformFacts DEF CarriesOnce
  <2> QED
    BY <2>2, <2>3, <2>4 DEF DeliveryInv
<1>3. CASE JobStep
  <2>1. UNCHANGED <<kind, born, publish, published, repeats, stream, arrivals, rows, errors, dropped>>
    BY <1>3, <1>0, JobFacts DEF producer, lake
  <2>2. curated' \in [Events -> Many]
    BY <1>3, <1>0, JobFacts, MergedType DEF TypeOK
  <2>3. TypeOK'
    BY <1>3, <1>0, <2>1, <2>2, JobFacts DEF TypeOK
  <2>4. PublishedIsKept'
    BY <1>0, <2>1 DEF PublishedIsKept
  <2>5. \A e \in Events : curated'[e] <= 1
    BY <1>3, <1>0, JobFacts DEF CarriesOnce, MergedTable
  <2>6. CarriesOnce'
    BY <1>3, <1>0, <2>1, <2>5, JobFacts DEF CarriesOnce
  <2> QED
    BY <2>3, <2>4, <2>6 DEF DeliveryInv
<1>4. CASE UNCHANGED vars
  BY <1>4 DEF vars, DeliveryInv, TypeOK, PublishedIsKept, CarriesOnce
<1> QED
  BY <1>1, <1>2, <1>3, <1>4, NextSteps DEF DeliveryInv

(* The invariant holds throughout. *)
THEOREM DeliveryInvariant == Spec => []DeliveryInv
<1> QED
  BY InitDeliveryInv, NextDeliveryInv, PTL DEF Spec

(* Type correctness of EventIngest. *)
THEOREM IngestTypes == Spec => []TypeOK
<1>1. DeliveryInv => TypeOK
  BY DEF DeliveryInv
<1> QED
  BY <1>1, DeliveryInvariant, PTL

(* What a sender was told is published can be found, however its batches    *)
(* were split, repeated, redelivered or refused.                            *)
THEOREM PublishedIsNotLost == Spec => []PublishedIsKept
<1>1. DeliveryInv => PublishedIsKept
  BY DEF DeliveryInv
<1> QED
  BY <1>1, DeliveryInvariant, PTL

(* The curated table holds an event at most once.                           *)
THEOREM NothingTwice == Spec => []CuratedOnce
<1>1. DeliveryInv => CuratedOnce
  BY DEF DeliveryInv, CarriesOnce, CuratedOnce
<1> QED
  BY <1>1, DeliveryInvariant, PTL

-----------------------------------------------------------------------------
(* The refinement. *)

LEMMA WhereaboutsCases ==
  ASSUME TypeOK, CarriesOnce, NEW e \in Events
  PROVE  \/ curated[e] = 1 /\ Whereabouts(e) = "curated"
         \/ curated[e] = 0 /\ (e \in stream \/ arrivals[e] # {}) /\ Whereabouts(e) = "pending"
         \/ /\ curated[e] = 0 /\ e \notin stream /\ arrivals[e] = {}
            /\ e \in errors \cup dropped /\ Whereabouts(e) = "aside"
         \/ /\ curated[e] = 0 /\ e \notin stream /\ arrivals[e] = {}
            /\ e \notin errors \cup dropped /\ Whereabouts(e) = "source"
<1>1. curated[e] \in 0..2 /\ curated[e] <= 1
  BY DEF TypeOK, CarriesOnce, Many
<1>2. curated[e] = 0 \/ curated[e] = 1
  BY <1>1
<1> QED
  BY <1>2 DEF Whereabouts

LEMMA DeliveryStart == Init => Delivery!Init
<1> SUFFICES ASSUME Init PROVE Delivery!Init
  OBVIOUS
<1>1. TypeOK /\ CarriesOnce
  BY InitDeliveryInv DEF DeliveryInv
<1>2. \A e \in Events : Whereabouts(e) = "source"
  BY <1>1, WhereaboutsCases DEF Init
<1> QED
  BY <1>2 DEF Init, Delivery!Init

(* A sender's step is a Send of what was stored. *)
LEMMA SendDelivers ==
  ASSUME DeliveryInv, DeliveryInv', SendStep
  PROVE  Delivery!Next
<1>0. TypeOK /\ CarriesOnce /\ TypeOK' /\ CarriesOnce'
  BY DEF DeliveryInv
<1>1. PICK stored \in SUBSET Events, told \in SUBSET Events :
        told \subseteq stored /\ stream' = stream \cup stored /\ published' = published \cup told
  BY <1>0, SendFacts
<1>2. UNCHANGED <<arrivals, errors, dropped, curated>>
  BY <1>0, SendFacts DEF lake, table
<1>3. \A e \in Events : Whereabouts(e)' =
        IF e \in {x \in stored : Whereabouts(x) # "curated"} THEN "pending" ELSE Whereabouts(e)
  <2> SUFFICES ASSUME NEW e \in Events
               PROVE  Whereabouts(e)' = IF e \in stored /\ Whereabouts(e) # "curated"
                                        THEN "pending" ELSE Whereabouts(e)
    OBVIOUS
  <2>1. curated[e] = 0 \/ curated[e] = 1
    BY <1>0, WhereaboutsCases
  <2>2. CASE curated[e] = 1
    BY <2>2, <1>2 DEF Whereabouts
  <2>3. CASE curated[e] = 0 /\ e \in stored
    <3>1. Whereabouts(e) # "curated"
      BY <2>3, <1>0, WhereaboutsCases
    <3>2. Whereabouts(e)' = "pending"
      BY <2>3, <1>1, <1>2 DEF Whereabouts
    <3> QED
      BY <3>1, <3>2, <2>3
  <2>4. CASE curated[e] = 0 /\ e \notin stored
    <3>1. e \in stream' <=> e \in stream
      BY <2>4, <1>1
    <3> QED
      BY <3>1, <2>4, <1>2 DEF Whereabouts
  <2> QED
    BY <2>1, <2>2, <2>3, <2>4
<1>4. Delivery!Send(stored, told)
  BY <1>1, <1>3 DEF Delivery!Send, Delivery!Becomes
<1> QED
  BY <1>4, <1>1 DEF Delivery!Next

(* A transformer's step sets aside what it neither wrote nor left on the stream. *)
LEMMA TransformDelivers ==
  ASSUME DeliveryInv, DeliveryInv', TransformStep
  PROVE  Delivery!Next
<1>0. TypeOK /\ CarriesOnce /\ TypeOK' /\ CarriesOnce'
  BY DEF DeliveryInv
<1> DEFINE S == {e \in Events : Whereabouts(e) = "pending" /\ Whereabouts(e)' = "aside"}
<1>1. curated' = curated /\ published' = published
  BY <1>0, TransformFacts DEF producer, table
<1>2. \A e \in Events : Whereabouts(e)' = IF e \in S THEN "aside" ELSE Whereabouts(e)
  <2> SUFFICES ASSUME NEW e \in Events
               PROVE  Whereabouts(e)' = IF e \in S THEN "aside" ELSE Whereabouts(e)
    OBVIOUS
  <2>1. CASE curated[e] # 0
    BY <2>1, <1>0, <1>1 DEF Whereabouts, TypeOK, CarriesOnce, Many
  <2>2. PICK batch \in SUBSET stream :
          /\ \A x \in batch : \/ x \in stream' \/ arrivals'[x] # {}
                              \/ x \in errors' \/ (x \in dropped' /\ kind[x] = "smoke_test")
          /\ \A x \in Events \ batch :
               /\ x \in stream' <=> x \in stream
               /\ arrivals'[x] = arrivals[x]
               /\ x \in errors' \cup dropped' <=> x \in errors \cup dropped
    BY <1>0, TransformFacts
  <2>3. CASE curated[e] = 0 /\ e \in batch
    <3>1. Whereabouts(e) = "pending"
      BY <2>3 DEF Whereabouts
    <3>2. Whereabouts(e)' \in {"pending", "aside"}
      BY <2>2, <2>3, <1>1 DEF Whereabouts
    <3> QED
      BY <3>1, <3>2
  <2>4. CASE curated[e] = 0 /\ e \notin batch
    <3>1. Whereabouts(e)' = Whereabouts(e)
      BY <2>2, <2>4, <1>1 DEF Whereabouts
    <3> QED
      BY <3>1
  <2> QED
    BY <2>1, <2>3, <2>4
<1>3. \A e \in S : Whereabouts(e) = "pending"
  OBVIOUS
<1>4. S \in SUBSET Events
  OBVIOUS
<1> HIDE DEF S
<1>5. Delivery!SetAside(S)
  BY <1>1, <1>2, <1>3, <1>4 DEF Delivery!SetAside, Delivery!Becomes
<1> QED
  BY <1>4, <1>5 DEF Delivery!Next

(* A Glue job's MERGE curates what the job carries and the table lacks; its  *)
(* other steps are invisible.                                                *)
LEMMA JobDelivers ==
  ASSUME DeliveryInv, DeliveryInv', JobStep
  PROVE  Delivery!Next
<1>0. TypeOK /\ CarriesOnce /\ TypeOK' /\ CarriesOnce'
  BY DEF DeliveryInv
<1> DEFINE S == {e \in Events : curated[e] = 0 /\ curated'[e] = 1}
<1>1. UNCHANGED <<published, stream, arrivals, errors, dropped>>
  BY <1>0, JobFacts DEF producer, lake
<1>2. \A e \in Events : curated'[e] # curated[e] => curated[e] = 0 /\ curated'[e] = 1 /\ arrivals[e] # {}
  <2> SUFFICES ASSUME NEW e \in Events, curated'[e] # curated[e]
               PROVE  curated[e] = 0 /\ curated'[e] = 1 /\ arrivals[e] # {}
    OBVIOUS
  <2>1. curated' = MergedTable
    BY <1>0, JobFacts
  <2>2. curated[e] = 0 /\ curated'[e] = job.source[e]
    BY <2>1, <1>0 DEF MergedTable, TypeOK, Many
  <2>3. job.source[e] \in 0..2 /\ job.source[e] <= 1
    BY <1>0 DEF TypeOK, Many, CarriesOnce
  <2> QED
    BY <2>2, <2>3, <1>0 DEF CarriesOnce
<1>3. \A e \in Events : Whereabouts(e)' = IF e \in S THEN "curated" ELSE Whereabouts(e)
  <2> SUFFICES ASSUME NEW e \in Events
               PROVE  Whereabouts(e)' = IF e \in S THEN "curated" ELSE Whereabouts(e)
    OBVIOUS
  <2>1. CASE curated'[e] # curated[e]
    <3>1. e \in S /\ curated'[e] = 1
      BY <2>1, <1>2
    <3> QED
      BY <3>1 DEF Whereabouts
  <2>2. CASE curated'[e] = curated[e]
    <3>1. e \notin S
      BY <2>2
    <3>2. Whereabouts(e)' = Whereabouts(e)
      BY <2>2, <1>1 DEF Whereabouts
    <3> QED
      BY <3>1, <3>2
  <2> QED
    BY <2>1, <2>2
<1>4. \A e \in S : Whereabouts(e) = "pending"
  BY <1>2 DEF Whereabouts
<1>5. S \in SUBSET Events
  OBVIOUS
<1> HIDE DEF S
<1>6. Delivery!Curate(S)
  BY <1>1, <1>3, <1>4, <1>5 DEF Delivery!Curate, Delivery!Becomes
<1> QED
  BY <1>5, <1>6 DEF Delivery!Next

(* EventIngest implements EventDelivery: no step moves an event backwards,   *)
(* drops one silently or puts one into the table a second time.              *)
THEOREM IngestDelivers == Spec => ImplementsDelivery
<1>1. DeliveryInv /\ DeliveryInv' /\ [Next]_vars
        => [Delivery!Next]_<<[e \in Events |-> Whereabouts(e)], published>>
  <2> SUFFICES ASSUME DeliveryInv, DeliveryInv', [Next]_vars
               PROVE  Delivery!Next \/ UNCHANGED <<[e \in Events |-> Whereabouts(e)], published>>
    OBVIOUS
  <2>1. CASE Next
    BY <2>1, NextSteps, SendDelivers, TransformDelivers, JobDelivers
       DEF DeliveryInv
  <2>2. CASE UNCHANGED vars
    BY <2>2 DEF vars, Whereabouts
  <2> QED
    BY <2>1, <2>2
<1> QED
  BY <1>1, DeliveryStart, DeliveryInvariant, PTL DEF Spec, ImplementsDelivery, Delivery!Spec

-----------------------------------------------------------------------------
(* Division: quotient and remainder exist and are unique. *)

LEMMA Division ==
  \A a \in Int, d \in Nat \ {0} :
    a \div d \in Int /\ a % d \in 0..(d - 1) /\ a = d * (a \div d) + (a % d)
OBVIOUS

LEMMA NextMultiple ==
  ASSUME NEW d \in Nat \ {0}, NEW p \in Int, NEW q \in Int, p < q
  PROVE  d * p + d <= d * q
<1>1. PICK k \in Nat : q = p + 1 + k
  OBVIOUS
<1>2. d * q = d * p + d + d * k
  BY <1>1
<1>3. d * k >= 0
  OBVIOUS
<1> QED
  BY <1>2, <1>3

LEMMA UniqueDivision ==
  ASSUME NEW d \in Nat \ {0}, NEW q \in Int, NEW r \in 0..(d - 1), NEW a \in Int, a = d * q + r
  PROVE  a \div d = q /\ a % d = r
<1> DEFINE p == a \div d
<1>1. p \in Int /\ a % d \in 0..(d - 1) /\ a = d * p + (a % d)
  BY Division
<1> HIDE DEF p
<1>0. d * p \in Int /\ d * q \in Int
  BY <1>1
<1>2. CASE p < q
  <2>1. d * p + d <= d * q
    BY <1>1, <1>2, NextMultiple
  <2> QED
    BY <2>1, <1>0, <1>1
<1>3. CASE q < p
  <2>1. d * q + d <= d * p
    BY <1>1, <1>3, NextMultiple
  <2> QED
    BY <2>1, <1>0, <1>1
<1>4. CASE p = q
  BY <1>0, <1>1, <1>4 DEF p
<1> QED
  BY <1>1, <1>2, <1>3, <1>4

(* The ticks at which the Glue job starts. *)
Scheduled(N) == N % Day = StartHour

(* The two day partitions a scheduled run reads hold every tick of the day   *)
(* before it: this is where StartHour >= 1 and the hour of overlap matter.   *)
LEMMA PartitionsCover ==
  ASSUME NEW N \in Ticks, Scheduled(N), NEW t \in Ticks, N - Day <= t, t < N
  PROVE  t \in Partitions(N)
<1> DEFINE q == N \div Day
<1>0. Day \in Nat \ {0} /\ StartHour \in 1..(Day - 1) /\ N \in Int /\ t \in Int
  BY IngestAssumption DEF Ticks
<1>1. q \in Int /\ N = Day * q + StartHour
  BY <1>0, Division DEF Scheduled
<1> HIDE DEF q
<1>2. Day * q \in Int /\ q - 1 \in Int /\ Day * (q - 1) = Day * q - Day
  BY <1>0, <1>1
<1>3. DayOf(N) = q
  BY <1>0, <1>1, UniqueDivision DEF DayOf
<1>4. DayOf(N - Window) = q - 1
  <2>1. N - Window = Day * (q - 1) + (StartHour - 1)
    BY <1>0, <1>1, <1>2 DEF Window
  <2>2. StartHour - 1 \in 0..(Day - 1) /\ N - Window \in Int
    BY <1>0 DEF Window
  <2> QED
    BY <2>1, <2>2, <1>0, <1>2, UniqueDivision DEF DayOf
<1>5. CASE t >= Day * q
  <2>1. t = Day * q + (t - Day * q) /\ t - Day * q \in 0..(Day - 1)
    BY <1>0, <1>1, <1>2, <1>5
  <2>2. DayOf(t) = q
    BY <2>1, <1>0, <1>1, UniqueDivision DEF DayOf
  <2> QED
    BY <2>2, <1>3 DEF Partitions
<1>6. CASE t < Day * q
  <2> DEFINE p == q - 1
             r == t - Day * p
  <2>1. p \in Int /\ Day * p \in Int /\ t = Day * p + r /\ r \in 0..(Day - 1)
    BY <1>0, <1>1, <1>2, <1>6
  <2> HIDE DEF p, r
  <2>2. DayOf(t) = p
    BY <2>1, <1>0, UniqueDivision DEF DayOf
  <2>3. DayOf(t) = q - 1
    BY <2>2 DEF p
  <2> QED
    BY <2>3, <1>4 DEF Partitions
<1> QED
  BY <1>0, <1>2, <1>5, <1>6

(* A day before a scheduled tick is a scheduled tick. *)
LEMMA ScheduledBefore ==
  ASSUME NEW N \in Int, Scheduled(N)
  PROVE  Scheduled(N - Day)
<1> DEFINE q == N \div Day
<1>0. Day \in Nat \ {0} /\ StartHour \in 0..(Day - 1)
  BY IngestAssumption
<1>1. q \in Int /\ N = Day * q + StartHour
  BY <1>0, Division DEF Scheduled
<1> HIDE DEF q
<1>2. N - Day = Day * (q - 1) + StartHour /\ q - 1 \in Int /\ N - Day \in Int
  BY <1>0, <1>1
<1> QED
  BY <1>0, <1>2, UniqueDivision DEF Scheduled

(***************************************************************************)
(* Why no event falls between two daily runs.  As long as no run was       *)
(* missed, the last one that committed is at or after every past start     *)
(* tick; a run still going is the one of now or repeats that last one; and *)
(* it carries every event that was written since the run before.           *)
(***************************************************************************)
(* An event that is on its way has a timestamp, which is never changed. *)
Dated ==
  \A e \in Events :
    e \in stream \/ e \in publish.remaining \/ e \in repeats \/ arrivals[e] # {} => born[e] # -1

Arrived == \A e \in Events : \A t \in arrivals[e] : t <= now

Named == Events \ OfKind("anonymous")
InTime(e, t) == t - born[e] \in {0, 1}

RunsKeepUp ==
  ~missed =>
    /\ done <= now
    /\ \A s \in Ticks : Scheduled(s) /\ s < now => s <= done
    /\ job.running => /\ Scheduled(job.NOW) /\ job.NOW <= now
                      /\ job.NOW = now \/ job.NOW = done

RunCarries ==
  ~missed /\ job.running =>
    \A e \in Named : \A t \in arrivals[e] :
      t < job.NOW /\ job.NOW - Day <= t /\ InTime(e, t) => job.source[e] > 0

LateInv == DeliveryInv /\ Dated /\ Arrived /\ RunsKeepUp /\ RunCarries /\ LateArrivalsCaught

LEMMA InitLateInv == Init => LateInv
<1> SUFFICES ASSUME Init PROVE LateInv
  OBVIOUS
<1>1. Ticks \subseteq Nat
  BY DEF Ticks
<1> QED
  BY <1>1, InitDeliveryInv
     DEF Init, LateInv, Dated, Arrived, RunsKeepUp, RunCarries, LateArrivalsCaught, NoJob, NoPublish

(* No step changes the timestamp of an event on its way, or gives an event   *)
(* without one to the stream.                                                *)
LEMMA NextDated ==
  ASSUME DeliveryInv, Dated, Arrived, Next
  PROVE  /\ Dated' /\ Arrived' /\ now <= now'
         /\ \A e \in Events : arrivals[e] # {} => born'[e] = born[e]
<1>0. /\ TypeOK /\ CarriesOnce /\ now \in Int
      /\ \A e \in Events : born[e] \in Int /\ arrivals[e] \subseteq Int
      /\ publish.remaining \subseteq Events /\ Ticks \subseteq Nat
  BY DEF DeliveryInv, TypeOK, Ticks
<1>1. CASE SendStep
  <2>1. UNCHANGED <<now, arrivals>> /\ \A e \in Events : born[e] # -1 => born'[e] = born[e]
    BY <1>0, <1>1, SendFacts DEF lake
  <2>2. Dated'
    <3>0. \A e \in Events : arrivals'[e] # {} => born'[e] # -1
      BY <2>1 DEF Dated
    <3>1. CASE \E batch \in SUBSET Events : Generate(batch)
      <4> PICK batch \in SUBSET Events : Generate(batch)
        BY <3>1
      <4>1. /\ stream' = stream /\ repeats' = repeats /\ publish'.remaining = batch
            /\ \A e \in batch : born'[e] = now
        BY DEF Generate
      <4>2. \A e \in batch : born'[e] # -1
        BY <4>1, <1>0 DEF Ticks, TypeOK
      <4>3. \A e \in Events : e \in stream \/ e \in repeats => born'[e] # -1
        BY <2>1 DEF Dated
      <4> QED
        BY <4>1, <4>2, <4>3, <3>0 DEF Dated
    <3>2. CASE \E ok \in SUBSET Events : PutRecords(ok)
      BY <3>2, <3>0, <2>1, <1>0 DEF PutRecords, Dated, TypeOK
    <3>3. CASE \E stored \in SUBSET Events : PutRaises(stored)
      BY <3>3, <3>0, <2>1, <1>0 DEF PutRaises, Dated, NoPublish
    <3>4. CASE Return
      BY <3>4, <3>0, <2>1, <1>0 DEF Return, Dated, NoPublish
    <3>5. CASE \E batch, ok \in SUBSET Events, at \in Ticks : Receive(batch, at, ok)
      <4> PICK batch \in SUBSET Events, ok \in SUBSET Events, at \in Ticks : Receive(batch, at, ok)
        BY <3>5
      <4>1. \A e \in batch : born'[e] # -1
        BY <1>0 DEF Receive, Request, Dated
      <4>2. \A e \in Events \ batch : /\ e \in stream' <=> e \in stream
                                      /\ e \in repeats' <=> e \in repeats
        BY DEF Receive
      <4>3. publish' = publish
        BY DEF Receive
      <4>4. ASSUME NEW e \in Events \ batch,
                   e \in stream' \/ e \in publish'.remaining \/ e \in repeats'
            PROVE  born'[e] # -1
        <5>1. e \in Events /\ (e \in stream \/ e \in publish.remaining \/ e \in repeats)
          BY <4>2, <4>3, <4>4, Zenon
        <5>2. born[e] # -1
          BY <5>1 DEF Dated
        <5> QED
          BY <5>1, <5>2, <2>1
      <4> QED
        BY <4>1, <4>4, <3>0 DEF Dated
    <3>6. CASE \E batch, stored \in SUBSET Events, at \in Ticks : ReceiveRaises(batch, at, stored)
      <4> PICK batch \in SUBSET Events, stored \in SUBSET Events, at \in Ticks :
                 ReceiveRaises(batch, at, stored)
        BY <3>6
      <4>1. \A e \in batch : born'[e] # -1
        BY <1>0 DEF ReceiveRaises, Request, Dated
      <4>2. \A e \in Events \ batch : /\ e \in stream' <=> e \in stream
                                      /\ e \in repeats' <=> e \in repeats
        BY DEF ReceiveRaises
      <4>3. publish' = publish
        BY DEF ReceiveRaises
      <4>4. ASSUME NEW e \in Events \ batch,
                   e \in stream' \/ e \in publish'.remaining \/ e \in repeats'
            PROVE  born'[e] # -1
        <5>1. e \in Events /\ (e \in stream \/ e \in publish.remaining \/ e \in repeats)
          BY <4>2, <4>3, <4>4, Zenon
        <5>2. born[e] # -1
          BY <5>1 DEF Dated
        <5> QED
          BY <5>1, <5>2, <2>1
      <4> QED
        BY <4>1, <4>4, <3>0 DEF Dated
    <3> QED
      BY <1>1, <3>1, <3>2, <3>3, <3>4, <3>5, <3>6 DEF SendStep
  <2> QED
    BY <2>1, <2>2, <1>0 DEF Arrived, Dated
<1>2. CASE TransformStep
  <2>1. UNCHANGED <<now, born, publish, repeats>> /\ stream' \subseteq stream
    BY <1>0, <1>2, TransformFacts DEF producer
  <2>2. \A e \in Events : /\ arrivals'[e] \subseteq arrivals[e] \cup {now}
                          /\ arrivals'[e] # arrivals[e] => e \in stream
    BY <1>0, <1>2, TransformFacts
  <2>3. Dated'
    <3> SUFFICES ASSUME NEW e \in Events,
                        e \in stream' \/ e \in publish'.remaining \/ e \in repeats' \/ arrivals'[e] # {}
                 PROVE  born'[e] # -1
      BY DEF Dated
    <3>1. e \in stream \/ e \in publish.remaining \/ e \in repeats \/ arrivals[e] # {}
      <4>1. e \in stream' => e \in stream
        BY <2>1, Zenon
      <4>2. arrivals'[e] # {} => e \in stream \/ arrivals[e] # {}
        BY <2>2, Zenon
      <4> QED
        BY <4>1, <4>2, <2>1
    <3> QED
      BY <3>1, <2>1 DEF Dated
  <2>4. Arrived'
    <3> SUFFICES ASSUME NEW e \in Events, NEW t \in arrivals'[e] PROVE t <= now
      BY <2>1 DEF Arrived
    <3>1. t \in arrivals[e] \/ t = now
      <4>1. arrivals'[e] \subseteq arrivals[e] \cup {now}
        BY <2>2, Zenon
      <4> QED
        BY <4>1, Zenon
    <3> QED
      BY <3>1, <1>0 DEF Arrived
  <2> QED
    BY <2>1, <2>3, <2>4, <1>0
<1>3. CASE JobStep
  <2>1. UNCHANGED <<born, publish, repeats, stream, arrivals>>
    BY <1>0, <1>3, JobFacts DEF producer, lake
  <2>2. now' = now \/ now' = now + 1
    BY <1>3 DEF JobStep, StartRun, Merge, RunFails, Tick
  <2>3. Dated'
    BY <2>1 DEF Dated
  <2>4. Arrived'
    BY <2>1, <2>2, <1>0 DEF Arrived
  <2> QED
    BY <2>1, <2>2, <2>3, <2>4, <1>0
<1> QED
  BY <1>1, <1>2, <1>3, <1>0, NextSteps

(* The steps that leave the clock and the Glue job alone: a record that is   *)
(* written now is too young for a run that is still going, and for the last. *)
LEMMA LakeKeepsLate ==
  ASSUME LateInv, Next, UNCHANGED <<now, kind, table>>,
         \A e \in Events : arrivals'[e] \subseteq arrivals[e] \cup {now}
  PROVE  RunsKeepUp' /\ RunCarries' /\ LateArrivalsCaught'
<1> USE DEF table
<1>0. /\ DeliveryInv /\ Dated /\ Arrived /\ RunsKeepUp /\ RunCarries /\ LateArrivalsCaught
      /\ now \in Int /\ done \in Int /\ job.NOW \in Int
      /\ UNCHANGED <<now, kind, job, curated, done, missed>>
  BY DEF LateInv, DeliveryInv, TypeOK, Ticks
<1>1. RunsKeepUp'
  BY <1>0 DEF RunsKeepUp, Scheduled
<1>2. ASSUME NEW e \in Events, NEW t \in arrivals'[e], t # now
      PROVE  t \in arrivals[e] /\ born'[e] = born[e]
  <2>1. t \in arrivals[e]
    BY <1>2, Zenon
  <2> QED
    BY <2>1, <1>0, NextDated
<1>3. RunCarries'
  <2> SUFFICES ASSUME ~missed, job.running, NEW e \in Named, NEW t \in arrivals'[e],
                      t < job.NOW, job.NOW - Day <= t, InTime(e, t)'
               PROVE  job.source[e] > 0
    BY <1>0 DEF RunCarries, Named, OfKind, InTime
  <2>1. t # now /\ e \in Events
    BY <1>0 DEF RunsKeepUp, Named
  <2>2. t \in arrivals[e] /\ born'[e] = born[e]
    BY <2>1, <1>2
  <2> QED
    BY <2>2, <1>0 DEF RunCarries, InTime
<1>4. LateArrivalsCaught'
  <2> SUFFICES ASSUME ~missed, NEW e \in Named, NEW t \in arrivals'[e], t < done, InTime(e, t)'
               PROVE  curated[e] > 0
    BY <1>0 DEF LateArrivalsCaught, Named, OfKind, InTime
  <2>1. t # now /\ e \in Events
    BY <1>0 DEF RunsKeepUp, Named
  <2>2. t \in arrivals[e] /\ born'[e] = born[e]
    BY <2>1, <1>2
  <2> QED
    BY <2>2, <1>0 DEF LateArrivalsCaught, Named, InTime
<1> QED
  BY <1>1, <1>3, <1>4

(* A run that starts now finds what was written in the day before.           *)
LEMMA StartCarries ==
  ASSUME LateInv, StartRun
  PROVE  RunsKeepUp' /\ RunCarries' /\ LateArrivalsCaught'
<1>0. /\ TypeOK /\ Arrived /\ RunsKeepUp /\ LateArrivalsCaught
      /\ now \in Ticks /\ now \in Int /\ done \in Int /\ Day \in Nat \ {0, 1}
      /\ UNCHANGED <<now, kind, born, arrivals, curated, done, missed>>
  BY IngestAssumption DEF LateInv, DeliveryInv, TypeOK, Ticks, StartRun, producer, lake
<1>1. job' = [running |-> TRUE, NOW |-> now, source |-> [e \in Events |-> SourceRows(e, now)]]
      /\ Scheduled(now)
  BY DEF StartRun, Scheduled
<1>2. RunsKeepUp'
  BY <1>0, <1>1 DEF RunsKeepUp, Scheduled
<1>3. LateArrivalsCaught'
  BY <1>0 DEF LateArrivalsCaught, OfKind
<1>4. RunCarries'
  <2> SUFFICES ASSUME NEW e \in Named, NEW t \in arrivals[e],
                      t < now, now - Day <= t, InTime(e, t)
               PROVE  SourceRows(e, now) > 0
    BY <1>0, <1>1 DEF RunCarries, Named, OfKind, InTime
  <2>1. e \in Events /\ kind[e] # "anonymous" /\ t \in Ticks /\ born[e] \in Int /\ t \in Int
    BY <1>0 DEF Named, OfKind, TypeOK, Ticks
  <2>2. t \in Partitions(now)
    BY <2>1, <1>0, <1>1, PartitionsCover
  <2>3. born[e] >= now - Window /\ born[e] <= now
    BY <2>1, <1>0 DEF InTime, Window
  <2> QED
    BY <2>1, <2>2, <2>3 DEF SourceRows, Wanted
<1> QED
  BY <1>2, <1>3, <1>4

(* A run that commits: what it does not carry was in the table after the run *)
(* a day before, because that one was not missed.                            *)
LEMMA MergeCatches ==
  ASSUME LateInv, Merge
  PROVE  RunsKeepUp' /\ RunCarries' /\ LateArrivalsCaught'
<1>0. /\ TypeOK /\ Arrived /\ RunsKeepUp /\ RunCarries /\ LateArrivalsCaught /\ job.running
      /\ now \in Ticks /\ now \in Int /\ done \in Int /\ job.NOW \in Int /\ Day \in Nat \ {0, 1}
      /\ UNCHANGED <<now, kind, born, arrivals, missed>>
      /\ done' = job.NOW /\ job' = NoJob /\ curated' = MergedTable
      /\ curated \in [Events -> Many] /\ job.source \in [Events -> Many]
  BY IngestAssumption DEF LateInv, DeliveryInv, TypeOK, Ticks, Merge, producer, lake
<1>1. RunsKeepUp'
  BY <1>0 DEF RunsKeepUp, NoJob, Scheduled
<1>2. RunCarries'
  BY <1>0 DEF RunCarries, NoJob
<1>3. LateArrivalsCaught'
  <2> SUFFICES ASSUME ~missed, NEW e \in Named, NEW t \in arrivals[e], t < job.NOW, InTime(e, t)
               PROVE  MergedTable[e] > 0
    BY <1>0 DEF LateArrivalsCaught, Named, OfKind, InTime
  <2>1. /\ e \in Events /\ t \in Ticks /\ t \in Nat
        /\ curated[e] \in 0..2 /\ job.source[e] \in 0..2
    BY <1>0 DEF Named, TypeOK, Ticks, Many
  <2>2. curated[e] > 0 \/ job.source[e] > 0
    <3>1. CASE t < done
      BY <3>1, <1>0 DEF LateArrivalsCaught, Named, InTime
    <3>2. CASE ~(t < done)
      <4>1. job.NOW = now /\ Scheduled(now)
        BY <3>2, <2>1, <1>0 DEF RunsKeepUp
      <4>2. Scheduled(now - Day)
        BY <4>1, <1>0, ScheduledBefore
      <4>3. now - Day <= t
        <5>1. CASE now - Day < 0
          BY <5>1, <1>0, <2>1
        <5>2. CASE now - Day >= 0
          <6>1. now - Day \in Ticks /\ now - Day < now
            BY <5>2, <1>0, IngestAssumption DEF Ticks
          <6>2. now - Day <= done
            BY <6>1, <4>2, <1>0 DEF RunsKeepUp
          <6> QED
            BY <6>2, <3>2, <2>1, <1>0
        <5> QED
          BY <5>1, <5>2, <1>0
      <4> QED
        BY <4>1, <4>3, <1>0 DEF RunCarries
    <3> QED
      BY <3>1, <3>2
  <2> QED
    BY <2>1, <2>2 DEF MergedTable
<1> QED
  BY <1>1, <1>2, <1>3

LEMMA FailsKeepsLate ==
  ASSUME LateInv, NEW merged \in BOOLEAN, RunFails(merged)
  PROVE  RunsKeepUp' /\ RunCarries' /\ LateArrivalsCaught'
<1>0. /\ RunsKeepUp /\ LateArrivalsCaught /\ curated \in [Events -> Many]
      /\ UNCHANGED <<now, kind, born, arrivals, done, missed>> /\ job' = NoJob
      /\ curated' = curated \/ curated' = MergedTable
  BY DEF LateInv, DeliveryInv, TypeOK, RunFails, producer, lake
<1>1. RunsKeepUp' /\ RunCarries'
  BY <1>0 DEF RunsKeepUp, RunCarries, NoJob, Scheduled
<1>2. \A e \in Events : curated[e] > 0 => curated'[e] > 0
  BY <1>0 DEF MergedTable
<1>3. LateArrivalsCaught'
  BY <1>0, <1>2 DEF LateArrivalsCaught, OfKind
<1> QED
  BY <1>1, <1>3

(* The clock: a start tick may pass only when its run has committed.         *)
LEMMA TickKeepsLate ==
  ASSUME LateInv, Tick
  PROVE  RunsKeepUp' /\ RunCarries' /\ LateArrivalsCaught'
<1>0. /\ RunsKeepUp /\ RunCarries /\ LateArrivalsCaught
      /\ now \in Int /\ done \in Int /\ job.NOW \in Int /\ Ticks \subseteq Int
      /\ UNCHANGED <<kind, born, arrivals, job, curated, done>> /\ now' = now + 1
  BY DEF LateInv, DeliveryInv, TypeOK, Ticks, Tick, producer, lake
<1>a. ~missed' => ~missed /\ (Scheduled(now) => done = now)
  <2>1. missed' = (missed \/ (now % Day = StartHour /\ done # now))
    BY DEF Tick
  <2> QED
    BY <2>1, Zenon DEF Scheduled
<1>1. RunsKeepUp'
  BY <1>0, <1>a DEF RunsKeepUp, Scheduled
<1>2. RunCarries'
  BY <1>0, <1>a DEF RunCarries, Named, OfKind, InTime
<1>3. LateArrivalsCaught'
  BY <1>0, <1>a DEF LateArrivalsCaught, OfKind
<1> QED
  BY <1>1, <1>2, <1>3

LEMMA NextLateInv == LateInv /\ [Next]_vars => LateInv'
<1> SUFFICES ASSUME LateInv, [Next]_vars PROVE LateInv'
  OBVIOUS
<1>0. /\ DeliveryInv /\ Dated /\ Arrived /\ TypeOK /\ CarriesOnce
  BY DEF LateInv, DeliveryInv
<1>1. DeliveryInv'
  BY <1>0, NextDeliveryInv
<1>2. CASE Next
  <2>1. Dated' /\ Arrived'
    BY <1>0, <1>2, NextDated
  <2>2. CASE SendStep
    <3>1. UNCHANGED <<now, kind, table>> /\ arrivals' = arrivals
      BY <2>2, <1>0, SendFacts DEF lake
    <3>2. \A e \in Events : arrivals'[e] \subseteq arrivals[e] \cup {now}
      BY <3>1
    <3> QED
      BY <3>1, <3>2, <2>1, <1>1, <1>2, LakeKeepsLate DEF LateInv
  <2>3. CASE TransformStep
    <3>1. /\ UNCHANGED <<now, kind, table>>
          /\ \A e \in Events : arrivals'[e] \subseteq arrivals[e] \cup {now}
      BY <2>3, <1>0, TransformFacts DEF producer
    <3> QED
      BY <3>1, <2>1, <1>1, <1>2, LakeKeepsLate DEF LateInv
  <2>4. CASE JobStep
    BY <2>4, <2>1, <1>1, StartCarries, MergeCatches, FailsKeepsLate, TickKeepsLate
       DEF JobStep, LateInv
  <2> QED
    BY <1>2, <2>2, <2>3, <2>4, NextSteps DEF LateInv, DeliveryInv
<1>3. CASE UNCHANGED vars
  BY <1>1, <1>3
     DEF vars, LateInv, Dated, Arrived, RunsKeepUp, RunCarries, LateArrivalsCaught,
         Named, OfKind, InTime, Scheduled
<1> QED
  BY <1>2, <1>3

(* Daily runs with a 25-hour window and two day partitions miss nothing that *)
(* arrives within the hour of overlap, whatever the hour of the job (from    *)
(* 01:00 on) and however often a run is repeated on its day.                 *)
THEOREM LateIsCaught == Spec => []LateArrivalsCaught
<1>1. LateInv => LateArrivalsCaught
  BY DEF LateInv
<1> QED
  BY <1>1, InitLateInv, NextLateInv, PTL DEF Spec

=============================================================================
