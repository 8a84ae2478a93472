----------------------------- MODULE EventIngest -----------------------------
(***************************************************************************)
(* The way of an event into the curated table: publish_batch or the        *)
(* webhook receiver puts it on the Kinesis stream, Firehose has the        *)
(* transformer Lambda turn batches into Parquet under a prefix named for   *)
(* the day of arrival, and the daily Glue job merges what its two day      *)
(* partitions and its 25-hour window hold into the Iceberg table.  Puts,   *)
(* requests, invocations and job runs may fail and are repeated; a         *)
(* repeated one may have had its effect before.                            *)
(***************************************************************************)
EXTENDS Integers, FiniteSets

CONSTANTS
  Events,
  Webhook,     \* those that come from another system, through the webhook receiver
  Redelivered, \* those Firehose may deliver twice: bound of the model
  Skews,       \* how far another system's clock may be ahead of ours, in ticks
  Attempts,    \* tries of publish_batch (3)
  Day,         \* ticks in a day (24 h)
  StartHour,   \* tick of the day at which the Glue job runs (02:00)
  LastBirth,   \* the last tick at which an event begins: bound of the model
  LastTick     \* the last tick: bound of the model

ASSUME IngestAssumption ==
  /\ IsFiniteSet(Events) /\ Webhook \subseteq Events /\ Redelivered \subseteq Events
  /\ Skews \subseteq Int
  /\ Attempts \in Nat \ {0}
  /\ Day \in Nat \ {0, 1}
  /\ StartHour \in 1..(Day - 1)
  /\ LastBirth \in Nat /\ LastTick \in Nat

VARIABLES
  now,
  kind,       \* event -> what it is, see Kinds
  born,       \* event -> tick of its timestamp, -1: there is no such event yet
  publish,    \* the running publish_batch
  published,  \* events a producer counted as successes
  repeats,    \* events of webhook requests that were answered with a 500
  stream,     \* events Firehose has still to deliver
  arrivals,   \* event -> ticks at which Firehose wrote it to the lake
  rows,       \* event -> its rows in the lake: 0, 1 or 2 (more than one)
  errors,     \* events under the error prefix
  dropped,    \* events Firehose dropped
  job,        \* the running Glue job: its NOW, and what it read
  curated,    \* event -> rows of the Iceberg table with its event_id
  done,       \* history: NOW of the last run that committed, -1: none
  missed      \* history: a day went by without one

vars == <<now, kind, born, publish, published, repeats, stream, arrivals, rows, errors,
          dropped, job, curated, done, missed>>

producer == <<kind, born, publish, published, repeats>>
lake     == <<arrivals, rows, errors, dropped>>
table    == <<job, curated, done, missed>>

Ticks == 0..LastTick

(* Valid events; those _parse_record raises on; the smoke tests it drops;   *)
(* the anonymous ones, which the Glue job filters out.  The producer fills  *)
(* every field; the receiver passes on what it gets, but names its source.  *)
Kinds(e) == {"valid"} \cup IF e \in Webhook THEN {"malformed", "anonymous"} ELSE {"smoke_test"}
OfKind(k) == {e \in Events : kind[e] = k}

Many  == 0..2
Upto2(n) == IF n < 2 THEN n ELSE 2

NoPublish == [running |-> FALSE, remaining |-> {}, attempt |-> 0]
NoJob     == [running |-> FALSE, NOW |-> 0, source |-> [e \in Events |-> 0]]

DayOf(t) == t \div Day
Window   == Day + 1   \* 25 hours: a day and one hour of overlap

-----------------------------------------------------------------------------
(* event_producer.py *)

Generate(batch) ==
  /\ ~publish.running
  /\ batch # {} /\ batch \cap Webhook = {}
  /\ \A e \in batch : born[e] = -1
  /\ now <= LastBirth   \* bound: no event begins in the last tick
  /\ born' = [e \in Events |-> IF e \in batch THEN now ELSE born[e]]
  /\ publish' = [running |-> TRUE, remaining |-> batch, attempt |-> 0]
  /\ UNCHANGED <<now, kind, published, repeats, stream, lake, table>>

MFinished == publish.remaining = {} \/ publish.attempt > Attempts
Finished == publish.remaining = {} \/ publish.attempt = Attempts

(* One put_records call; what it did not store is tried again.  (That the   *)
(* SDK may store a record twice shows as a second delivery of it by         *)
(* Firehose.)  The two counts that are returned are left out: metrics and    *)
(* the exit code of the one-shot producer are made of them, no event is.    *)
PutRecords(ok) ==
  /\ publish.running /\ ~Finished
  /\ ok \subseteq publish.remaining
  /\ stream' = stream \cup ok
  /\ published' = published \cup ok
  /\ publish' = [publish EXCEPT !.attempt = @ + 1, !.remaining = @ \ ok]
  /\ UNCHANGED <<now, kind, born, repeats, lake, table>>

(* The call raises after the SDK's own retries, or the producer dies: some *)
(* records may be on the stream, and no count is returned.                 *)
PutRaises(stored) ==
  /\ publish.running /\ ~Finished
  /\ stored \subseteq publish.remaining
  /\ stream' = stream \cup stored
  /\ publish' = NoPublish
  /\ UNCHANGED <<now, kind, born, published, repeats, lake, table>>

Return ==
  /\ publish.running /\ Finished
  /\ publish' = NoPublish
  /\ UNCHANGED <<now, kind, born, published, repeats, stream, lake, table>>

-----------------------------------------------------------------------------
(* webhook_receiver/handler.py *)

(* What a request with a valid signature brings: events under the ids and   *)
(* by the clock of their source; or the same events again, when the request *)
(* was answered with a 500.  An event the source gave no id or no time gets *)
(* new ones with each request, as an event of its own; such are left out.   *)
Request(batch, at) ==
  /\ batch # {} /\ batch \subseteq Webhook
  /\ \/ batch \subseteq repeats /\ born' = born
     \/ /\ \A e \in batch : born[e] = -1
        /\ at - now \in Skews
        /\ now <= LastBirth   \* bound: as above
        /\ born' = [e \in Events |-> IF e \in batch THEN at ELSE born[e]]

(* put_records returns: 200, or 207 when some records were not stored.  Both *)
(* are a success to the caller, so neither is sent again, and the receiver   *)
(* does not retry.                                                           *)
Receive(batch, at, ok) ==
  /\ Request(batch, at)
  /\ ok \subseteq batch
  /\ stream' = stream \cup ok
  /\ published' = published \cup ok
  /\ repeats' = repeats \ batch
  /\ UNCHANGED <<now, kind, publish, lake, table>>

(* put_records raises, in the first 500 records or after some were stored: *)
(* the caller gets a 500.                                                  *)
ReceiveRaises(batch, at, stored) ==
  /\ Request(batch, at)
  /\ batch \cap repeats = {}   \* bound: one repetition
  /\ stored \subseteq batch
  /\ stream' = stream \cup stored
  /\ repeats' = repeats \cup batch
  /\ UNCHANGED <<now, kind, publish, published, lake, table>>

-----------------------------------------------------------------------------
(* firehose_transformer/handler.py *)

(* All the valid records of a batch become one Parquet payload, which is   *)
(* returned for every one of them: n valid records make n copies of each,  *)
(* in one object of which a reader may find only one by its footer.        *)
Write(ok) ==
  /\ arrivals' = [e \in Events |-> IF e \in ok THEN arrivals[e] \cup {now} ELSE arrivals[e]]
  /\ \E copies \in {1, Cardinality(ok)} :
       rows' = [e \in Events |-> IF e \in ok THEN Upto2(rows[e] + copies) ELSE rows[e]]

(* Firehose hands over a batch; when the answer is lost, or a record is on  *)
(* the stream twice, it does so again.  If the conversion to Parquet raises, *)
(* the valid records go to the error prefix with the malformed ones.         *)
MTransform(batch, again, converts) ==
  LET ok == batch \ (OfKind("malformed") \cup OfKind("smoke_test"))
  IN  /\ batch # {} /\ batch \subseteq stream
      /\ again => batch \subseteq Redelivered /\ \A e \in batch : rows[e] = 0  \* bound: once
      /\ stream' = IF again THEN stream ELSE stream \ batch
      /\ dropped' = dropped \cup (batch \cap OfKind("smoke_test"))
      /\ IF converts
         THEN Write(ok) /\ errors' = errors \cup (batch \cap OfKind("malformed"))
         ELSE UNCHANGED <<arrivals, rows>> /\ errors' = errors \cup (batch \cap OfKind("malformed"))
      /\ UNCHANGED <<now, producer, table>>
Transform(batch, again, converts) ==
  LET ok == batch \ (OfKind("malformed") \cup OfKind("smoke_test"))
  IN  /\ batch # {} /\ batch \subseteq stream
      /\ again => batch \subseteq Redelivered /\ \A e \in batch : rows[e] = 0  \* bound: once
      /\ stream' = IF again THEN stream ELSE stream \ batch
      /\ dropped' = dropped \cup (batch \cap OfKind("smoke_test"))
      /\ IF converts
         THEN Write(ok) /\ errors' = errors \cup (batch \cap OfKind("malformed"))
         ELSE UNCHANGED <<arrivals, rows>> /\ errors' = errors \cup (batch \cap OfKind("malformed")) \cup ok
      /\ UNCHANGED <<now, producer, table>>

(* An invocation that raises (_parse_record expects strings and numbers and *)
(* catches nothing but a ValueError) is repeated by Firehose and in the end *)
(* the whole batch goes to the error prefix, whatever else is in it.        *)
TransformRaises(batch) ==
  /\ batch # {} /\ batch \subseteq stream
  /\ batch \cap OfKind("malformed") # {}
  /\ stream' = stream \ batch
  /\ errors' = errors \cup batch
  /\ UNCHANGED <<now, producer, arrivals, rows, dropped, table>>

-----------------------------------------------------------------------------
(* raw_to_curated.py *)

(* The day partitions of CUTOFF and of NOW. *)
MPartitions(NOW) == {t \in Ticks : DayOf(t) = DayOf(NOW)}
Partitions(NOW)  == {t \in Ticks : DayOf(t) \in {DayOf(NOW - Window), DayOf(NOW)}}

(* dropDuplicates, the time window, the customer filter. *)
Wanted(e, NOW) ==
  /\ arrivals[e] \cap Partitions(NOW) # {}
  /\ born[e] >= NOW - Window /\ born[e] <= NOW
  /\ kind[e] # "anonymous"

MSourceRows(e, NOW) == IF Wanted(e, NOW) THEN rows[e] ELSE 0
SourceRows(e, NOW)  == IF Wanted(e, NOW) THEN 1 ELSE 0

(* A run may not get this far: where no event at all arrived on a day, its *)
(* path does not exist and the read raises before anything is done.        *)
StartRun ==
  /\ ~job.running
  /\ now % Day = StartHour
  /\ job' = [running |-> TRUE, NOW |-> now, source |-> [e \in Events |-> SourceRows(e, now)]]
  /\ UNCHANGED <<now, producer, stream, lake, curated, done, missed>>

(* MERGE on event_id: a row that is there is updated, a new one inserted. *)
MMergedTable == [e \in Events |-> Upto2(curated[e] + job.source[e])]
MergedTable  == [e \in Events |-> IF curated[e] > 0 THEN curated[e] ELSE job.source[e]]

Merge ==
  /\ job.running
  /\ curated' = MergedTable
  /\ done' = job.NOW
  /\ job' = NoJob
  /\ UNCHANGED <<now, producer, stream, lake, missed>>

(* A run that fails before its MERGE commits; it is started again.  One that *)
(* fails in the maintenance after it is repeated on the same data.           *)
RunFails(merged) ==
  /\ job.running
  /\ curated' = IF merged THEN MergedTable ELSE curated
  /\ job' = NoJob
  /\ UNCHANGED <<now, producer, stream, lake, done, missed>>

(* publish_batch takes seconds: it is over within the tick. *)
Tick ==
  /\ now < LastTick
  /\ ~publish.running
  /\ now' = now + 1
  /\ missed' = (missed \/ (now % Day = StartHour /\ done # now))
  /\ UNCHANGED <<producer, stream, lake, job, curated, done>>

-----------------------------------------------------------------------------
Init ==
  /\ now = 0
  /\ kind \in {k \in [Events -> UNION {Kinds(e) : e \in Events}] : \A e \in Events : k[e] \in Kinds(e)}
  /\ born = [e \in Events |-> -1]
  /\ publish = NoPublish
  /\ published = {}
  /\ repeats = {}
  /\ stream = {}
  /\ arrivals = [e \in Events |-> {}]
  /\ rows = [e \in Events |-> 0]
  /\ errors = {}
  /\ dropped = {}
  /\ job = NoJob
  /\ curated = [e \in Events |-> 0]
  /\ done = -1
  /\ missed = FALSE

Next ==
  \/ \E batch \in SUBSET (Events \ Webhook) : Generate(batch)
  \/ \E ok \in SUBSET publish.remaining : PutRecords(ok)
  \/ \E stored \in SUBSET publish.remaining : PutRaises(stored)
  \/ Return
  \/ \E batch \in SUBSET Webhook, at \in Ticks : \E ok \in SUBSET batch : Receive(batch, at, ok)
  \/ \E batch \in SUBSET Webhook, at \in Ticks : \E stored \in SUBSET batch : ReceiveRaises(batch, at, stored)
  \/ \E batch \in SUBSET stream, again, converts \in BOOLEAN : Transform(batch, again, converts)
  \/ \E batch \in SUBSET stream : TransformRaises(batch)
  \/ StartRun
  \/ Merge
  \/ \E merged \in BOOLEAN : RunFails(merged)
  \/ Tick

Spec == Init /\ [][Next]_vars

-----------------------------------------------------------------------------
(* Type correctness. *)
TypeOK ==
  /\ now \in Ticks
  /\ born \in [Events -> -1..LastTick]
  /\ publish \in [running: BOOLEAN, remaining: SUBSET Events, attempt: 0..Attempts]
  /\ DOMAIN kind = Events /\ \A e \in Events : kind[e] \in Kinds(e)
  /\ published \subseteq Events /\ repeats \subseteq Events
  /\ stream \subseteq Events
  /\ arrivals \in [Events -> SUBSET Ticks] /\ rows \in [Events -> Many]
  /\ errors \subseteq Events /\ dropped \subseteq Events
  /\ job \in [running: BOOLEAN, NOW: Ticks, source: [Events -> Many]]
  /\ curated \in [Events -> Many]
  /\ done \in -1..LastTick
  /\ missed \in BOOLEAN

(* An event that publish_batch or the webhook receiver counted as published *)
(* is somewhere to be found: on the stream, in the lake, under the error    *)
(* prefix, or dropped on purpose.                                           *)
PublishedIsKept ==
  \A e \in published :
    \/ e \in stream \/ arrivals[e] # {}
    \/ e \in errors \/ (e \in dropped /\ kind[e] = "smoke_test")

(* The curated table holds an event once, whatever the SDK, webhook callers, *)
(* Firehose and Glue repeated, and although every valid record of a transformer batch    *)
(* carries the rows of the whole batch.                                     *)
CuratedOnce == \A e \in Events : curated[e] <= 1

(* As long as no daily run was missed, an event that reached the lake at    *)
(* most one hour after its timestamp, and before the last run, is in the    *)
(* table: the window and the two day partitions leave no gap between runs.  *)
LateArrivalsCaught ==
  ~missed => \A e \in Events \ OfKind("anonymous") : \A t \in arrivals[e] :
    t < done /\ t - born[e] \in {0, 1} => curated[e] > 0

-----------------------------------------------------------------------------
(* Where EventDelivery says the event is. *)
Whereabouts(e) ==
  CASE curated[e] = 1 -> "curated"
    [] curated[e] > 1 -> "doubled"
    [] curated[e] = 0 /\ (e \in stream \/ arrivals[e] # {}) -> "pending"
    [] curated[e] = 0 /\ e \notin stream /\ arrivals[e] = {} ->
         IF e \in errors \cup dropped THEN "aside" ELSE "source"

Delivery == INSTANCE EventDelivery
  WITH status <- [e \in Events |-> Whereabouts(e)], accepted <- published

(* Whatever is repeated, redelivered or lost on the way, an event goes from  *)
(* its source to the stream and from there to the table or the error prefix, *)
(* never back, and never twice: each step of producer, receiver, transformer *)
(* and Glue job is one of EventDelivery's, or invisible to it.               *)
ImplementsDelivery == Delivery!Spec

=============================================================================
