------------------------- MODULE ChurnFeatures_proofs -------------------------
(***************************************************************************)
(* Proofs about the feature table of ChurnFeatures, for any customers, any  *)
(* number of events, any length of the day and of the windows.              *)
(***************************************************************************)
EXTENDS ChurnFeatures, WellFoundedInduction, TLAPS

-----------------------------------------------------------------------------
(* What a write puts into the table: the rows of one run, one for each       *)
(* customer of the matrix, into the day the run began; or nothing.           *)
LEMMA WriteFacts ==
  ASSUME WriteSnapshot
  PROVE  \E rows :
           /\ \A r \in rows : r.c \in InTheMatrix /\ r.asof = job.NOW /\ r \in RowsOf(r.c)
           /\ \A r, s \in rows : r.c = s.c => r = s
           /\ \A c \in InTheMatrix : \E r \in rows : r.c = c
           /\ snapshots' = [d \in Dates |-> snapshots'[d]]
           /\ \A d \in Dates : \/ snapshots'[d] = snapshots[d]
                               \/ d = TODAY /\ rows # {} /\ snapshots'[d] = rows
<1>1. PICK row \in [InTheMatrix -> UNION {RowsOf(c) : c \in InTheMatrix}] :
        /\ \A c \in InTheMatrix : row[c] \in RowsOf(c)
        /\ snapshots' = Overwrite({row[c] : c \in InTheMatrix})
  BY DEF WriteSnapshot
<1> DEFINE rows == {row[c] : c \in InTheMatrix}
<1>2. \A c \in InTheMatrix : row[c].c = c /\ row[c].asof = job.NOW
  <2> TAKE c \in InTheMatrix
  <2> QED
    BY <1>1 DEF RowsOf
<1>3. \A r \in rows : r.c \in InTheMatrix /\ r.asof = job.NOW /\ r \in RowsOf(r.c)
  BY <1>1, <1>2
<1>4. \A r, s \in rows : r.c = s.c => r = s
  BY <1>2
<1>5. \A c \in InTheMatrix : \E r \in rows : r.c = c
  BY <1>2
<1>6. snapshots' = Overwrite(rows)
  BY <1>1
<1>7. \A d \in Dates : \/ snapshots'[d] = snapshots[d]
                       \/ d = TODAY /\ rows # {} /\ snapshots'[d] = rows
  <2> TAKE d \in Dates
  <2> HIDE DEF rows
  <2>1. snapshots'[d] = IF \E r \in rows : DayOf(r.asof) = d
                        THEN {r \in rows : DayOf(r.asof) = d} ELSE snapshots[d]
    BY <1>6 DEF Overwrite
  <2>2. CASE \E r \in rows : DayOf(r.asof) = d
    <3>1. d = TODAY /\ \A r \in rows : DayOf(r.asof) = d
      BY <1>3, <2>2 DEF TODAY
    <3> QED
      BY <2>1, <2>2, <3>1
  <2> QED
    BY <2>1, <2>2
<1> HIDE DEF rows
<1>8. snapshots' = [d \in Dates |-> snapshots'[d]]
  BY <1>6 DEF Overwrite
<1> QED
  BY <1>3, <1>4, <1>5, <1>7, <1>8

(***************************************************************************)
(* The invariant: events are events, a row is never younger than the clock  *)
(* or than the run that will replace it, and the two properties.            *)
(***************************************************************************)
EventsKnown ==
  /\ life \in [Customers -> CustomerState \cup {None}]
  /\ pending \subseteq Events /\ curated \subseteq Events

Ages ==
  /\ now \in Ticks /\ job.NOW \in Ticks /\ job.NOW <= now
  /\ \A d \in Dates : \A r \in snapshots[d] :
       r.asof \in Ticks /\ r.asof <= now /\ (job.running => r.asof <= job.NOW)

TableInv == EventsKnown /\ Ages /\ SnapshotIsWhole /\ SilenceIsKept

LEMMA InitTable == Init => TableInv
<1> SUFFICES ASSUME Init PROVE TableInv
  OBVIOUS
<1>1. life \in [Customers -> CustomerState \cup {None}] /\ 0 \in Ticks /\ \A d \in Dates : snapshots[d] = {}
  BY FeaturesAssumption DEF Init, Ticks
<1> QED
  BY <1>1, FeaturesAssumption
  DEF Init, TableInv, EventsKnown, Ages, SnapshotIsWhole, SilenceIsKept, NoJob, Ticks

(* Whoever sends events leaves the table alone. *)
SendStep ==
  \/ \E c \in Customers, state \in CustomerState : NewCustomer(c, state)
  \/ \E c \in Customers : ContinuousStream(c) \/ ChurnScenario(c)
  \/ \E c \in Customers : \E at \in {now, now + 1} : Webhook(c, at)

LEMMA NextSteps == Next => \/ SendStep
                           \/ \E events \in SUBSET pending : Curate(events)
                           \/ StartFeatures \/ WriteSnapshot \/ FeaturesFail \/ Tick
BY DEF Next, SendStep

LEMMA Numbers ==
  /\ Ticks \subseteq Int /\ LastTick \in Nat /\ -1 \in -1..LastTick
  /\ \A t \in Ticks : t >= 0 /\ t <= LastTick /\ t \in -1..LastTick
  /\ \A t \in Int : t >= 0 /\ t <= LastTick => t \in Ticks
BY FeaturesAssumption DEF Ticks

LEMMA EventType ==
  ASSUME NEW c \in Customers, NEW at \in Ticks, NEW state \in CustomerState \cup {None}
  PROVE  Event(c, at, state) \in Events
BY Numbers DEF Event, Events

LEMMA SendFacts ==
  ASSUME EventsKnown, now \in Ticks, SendStep
  PROVE  EventsKnown' /\ UNCHANGED <<now, curated, job, snapshots>>
<1>1. \A c \in Customers, state \in CustomerState \cup {None} : Generate(c, state) \subseteq Events
  BY EventType DEF Generate
<1>2. \A events : events \subseteq Events /\ Send(events) =>
        /\ pending' \subseteq Events /\ curated' \subseteq Events
        /\ UNCHANGED <<now, curated, job, snapshots>>
  BY DEF Send, EventsKnown
<1>3. CASE \E c \in Customers, state \in CustomerState : NewCustomer(c, state)
  <2>1. PICK c \in Customers, state \in CustomerState : NewCustomer(c, state)
    BY <1>3
  <2>2. life' \in [Customers -> CustomerState \cup {None}]
    BY <2>1 DEF NewCustomer, EventsKnown
  <2> QED
    BY <1>1, <1>2, <2>1, <2>2 DEF NewCustomer, EventsKnown
<1>4. CASE \E c \in Customers : ChurnScenario(c)
  <2>1. PICK c \in Customers : /\ life' = [life EXCEPT ![c] = "churned"]
                              /\ Send(UNION {Generate(c, state) : state \in CustomerState})
    BY <1>4 DEF ChurnScenario
  <2>2. UNION {Generate(c, state) : state \in CustomerState} \subseteq Events
    BY <1>1
  <2>3. life' \in [Customers -> CustomerState \cup {None}]
    BY <2>1 DEF EventsKnown, CustomerState
  <2> QED
    BY <1>2, <2>1, <2>2, <2>3 DEF EventsKnown
<1>5. CASE \E c \in Customers : \E at \in {now, now + 1} : Webhook(c, at)
  <2>1. PICK c \in Customers, at \in Ticks : Send({Event(c, at, None)}) /\ UNCHANGED life
    BY <1>5 DEF Webhook
  <2> QED
    BY <1>2, <2>1, EventType DEF EventsKnown
<1>6. CASE \E c \in Customers : ContinuousStream(c)
  <2>1. PICK c \in Customers : Send(Generate(c, life[c])) /\ UNCHANGED life
    BY <1>6 DEF ContinuousStream
  <2>2. life[c] \in CustomerState \cup {None}
    BY DEF EventsKnown
  <2> QED
    BY <1>1, <1>2, <2>1, <2>2 DEF EventsKnown
<1> QED
  BY <1>3, <1>4, <1>5, <1>6 DEF SendStep

(* A write keeps whatever of the invariant the table has.                    *)
LEMMA WriteKeeps ==
  ASSUME TableInv, WriteSnapshot
  PROVE  TableInv'
<1>1. job.running /\ job' = NoJob /\ UNCHANGED <<now, life, pending, curated>>
  BY DEF WriteSnapshot
<1>2. PICK rows :
        /\ \A r \in rows : r.c \in InTheMatrix /\ r.asof = job.NOW
        /\ \A r, s \in rows : r.c = s.c => r = s
        /\ \A c \in InTheMatrix : \E r \in rows : r.c = c
        /\ \A d \in Dates : \/ snapshots'[d] = snapshots[d]
                            \/ d = TODAY /\ rows # {} /\ snapshots'[d] = rows
  BY WriteFacts
<1>3. EventsKnown'
  BY <1>1 DEF TableInv, EventsKnown
<1>4. Ages'
  <2>1. 0 \in Ticks /\ 0 <= now /\ ~job'.running /\ job'.NOW = 0
    BY <1>1, Numbers, FeaturesAssumption DEF NoJob, TableInv, Ages
  <2>2. \A d \in Dates : \A r \in snapshots'[d] : r.asof \in Ticks /\ r.asof <= now
    BY <1>2 DEF TableInv, Ages
  <2> QED
    BY <1>1, <2>1, <2>2 DEF TableInv, Ages
<1>5. SnapshotIsWhole'
  <2> SUFFICES ASSUME NEW d \in Dates, NEW r \in snapshots'[d], NEW s \in snapshots'[d]
               PROVE  DayOf(r.asof) = d /\ r.asof = s.asof /\ (r.c = s.c => r = s)
    BY DEF SnapshotIsWhole
  <2>1. CASE snapshots'[d] = snapshots[d]
    BY <2>1 DEF TableInv, SnapshotIsWhole
  <2>2. CASE d = TODAY /\ snapshots'[d] = rows
    BY <1>2, <2>2 DEF TODAY
  <2> QED
    BY <1>2, <2>1, <2>2
<1>6. SilenceIsKept'
  <2> SUFFICES ASSUME NEW d \in Dates, NEW r \in snapshots'[d], NEW e \in curated,
                      e.since < r.asof, r.asof - Quarter * Day <= e.at
               PROVE  \E s \in snapshots'[d] : s.c = e.c
    BY <1>1 DEF SilenceIsKept
  <2>1. CASE snapshots'[d] = snapshots[d]
    BY <2>1 DEF TableInv, SilenceIsKept
  <2>2. CASE d = TODAY /\ snapshots'[d] = rows
    <3>1. job.NOW - Quarter * Day <= e.at
      BY <1>2, <2>2
    <3>2. e \in Events
      BY DEF TableInv, EventsKnown
    <3>3. e.c \in Customers /\ e.at \in Int /\ job.NOW \in Int
      BY <3>2, Numbers DEF Events, TableInv, Ages
    <3>4. (Quarter + 1) * Day = Quarter * Day + Day /\ Quarter * Day \in Int /\ Day \in Nat
      BY FeaturesAssumption
    <3>5. e.at >= job.NOW - (Quarter + 1) * Day
      BY <3>1, <3>3, <3>4
    <3>6. e \in EventsOf(e.c)
      BY <3>5 DEF EventsOf
    <3>7. e.c \in InTheMatrix
      BY <3>3, <3>6 DEF InTheMatrix
    <3> QED
      BY <1>2, <2>2, <3>7
  <2> QED
    BY <1>2, <2>1, <2>2
<1> QED
  BY <1>3, <1>4, <1>5, <1>6 DEF TableInv

LEMMA TableStep == TableInv /\ [Next]_vars => TableInv'
<1> SUFFICES ASSUME TableInv, [Next]_vars PROVE TableInv'
  OBVIOUS
<1>1. CASE SendStep
  <2>1. EventsKnown' /\ UNCHANGED <<now, curated, job, snapshots>>
    BY <1>1, SendFacts DEF TableInv, Ages
  <2> QED
    BY <2>1 DEF TableInv, Ages, SnapshotIsWhole, SilenceIsKept
<1>2. CASE \E events \in SUBSET pending : Curate(events)
  <2>1. PICK events \in SUBSET pending : Curate(events)
    BY <1>2
  <2>2. /\ curated' = curated \cup {[e EXCEPT !.since = now] : e \in events}
        /\ pending' \subseteq pending /\ UNCHANGED <<now, life, job, snapshots>>
    BY <2>1 DEF Curate
  <2>3. \A e \in events : [e EXCEPT !.since = now] \in Events /\ [e EXCEPT !.since = now].since = now
    BY Numbers DEF TableInv, EventsKnown, Ages, Events
  <2>4. EventsKnown'
    BY <2>2, <2>3 DEF TableInv, EventsKnown
  <2>5. SilenceIsKept'
    <3> SUFFICES ASSUME NEW d \in Dates, NEW r \in snapshots[d], NEW e \in curated',
                        e.since < r.asof, r.asof - Quarter * Day <= e.at
                 PROVE  \E s \in snapshots[d] : s.c = e.c
      BY <2>2 DEF SilenceIsKept
    <3>1. CASE e \in curated
      BY <3>1 DEF TableInv, SilenceIsKept
    <3>2. CASE e.since = now
      <4>1. now \in Int /\ r.asof \in Int
        BY Numbers DEF TableInv, Ages
      <4>2. r.asof <= now
        BY DEF TableInv, Ages
      <4> QED
        BY <3>2, <4>1, <4>2
    <3> QED
      BY <2>2, <2>3, <3>1, <3>2
  <2> QED
    BY <2>2, <2>4, <2>5 DEF TableInv, Ages, SnapshotIsWhole
<1>3. CASE StartFeatures
  <2>1. /\ job'.running /\ job'.NOW = now
        /\ UNCHANGED <<now, life, pending, curated, snapshots>>
    BY <1>3 DEF StartFeatures
  <2> QED
    BY <2>1, Numbers DEF TableInv, EventsKnown, Ages, SnapshotIsWhole, SilenceIsKept
<1>4. CASE WriteSnapshot
  BY <1>4, WriteKeeps
<1>5. CASE FeaturesFail
  <2>1. /\ ~job'.running /\ job'.NOW = 0 /\ 0 \in Ticks
        /\ UNCHANGED <<now, life, pending, curated, snapshots>>
    BY <1>5, Numbers, FeaturesAssumption DEF FeaturesFail, NoJob
  <2> QED
    BY <2>1, Numbers DEF TableInv, EventsKnown, Ages, SnapshotIsWhole, SilenceIsKept
<1>6. CASE Tick
  <2>1. now' \in Ticks /\ now' = now + 1 /\ UNCHANGED <<life, pending, curated, job, snapshots>>
    BY <1>6, Numbers DEF Tick, TableInv, Ages
  <2>2. \A t \in Ticks : t <= now => t <= now + 1
    BY Numbers DEF TableInv, Ages
  <2>3. job.NOW <= now + 1
    BY <2>2 DEF TableInv, Ages
  <2>4. \A d \in Dates : \A r \in snapshots[d] : r.asof <= now + 1
    BY <2>2 DEF TableInv, Ages
  <2>5. Ages'
    BY <2>1, <2>3, <2>4 DEF TableInv, Ages
  <2> QED
    BY <2>1, <2>5 DEF TableInv, EventsKnown, SnapshotIsWhole, SilenceIsKept
<1>7. CASE UNCHANGED vars
  BY <1>7 DEF vars, TableInv, EventsKnown, Ages, SnapshotIsWhole, SilenceIsKept
<1> QED
  BY <1>1, <1>2, <1>3, <1>4, <1>5, <1>6, <1>7, NextSteps

LEMMA TableHolds == Spec => []TableInv
BY InitTable, TableStep, PTL DEF Spec

(* Whatever runs again, over midnight, or fails: a day of the feature table  *)
(* is the work of one run that began on that day, one row per customer.      *)
THEOREM WholeSnapshots == Spec => []SnapshotIsWhole
<1>1. TableInv => SnapshotIsWhole
  BY DEF TableInv
<1> QED
  BY <1>1, TableHolds, PTL

(* However long a customer has been silent within the quarter, the snapshot  *)
(* has it.                                                                   *)
THEOREM SilentAreKept == Spec => []SilenceIsKept
<1>1. TableInv => SilenceIsKept
  BY DEF TableInv
<1> QED
  BY <1>1, TableHolds, PTL

(* What SnapshotsAdvance says of a step. *)
Advance ==
  \A d \in Dates : \A r \in snapshots[d] :
    /\ snapshots'[d] # {}
    /\ \A s \in snapshots'[d] : s.asof >= r.asof

LEMMA AdvanceStep == TableInv /\ [Next]_vars => [Advance]_vars
<1> SUFFICES ASSUME TableInv, Next PROVE Advance
  BY DEF vars
<1>1. CASE WriteSnapshot
  <2>1. PICK rows :
          /\ \A r \in rows : r.asof = job.NOW
          /\ \A d \in Dates : \/ snapshots'[d] = snapshots[d]
                              \/ d = TODAY /\ rows # {} /\ snapshots'[d] = rows
    BY <1>1, WriteFacts
  <2>2. job.running
    BY <1>1 DEF WriteSnapshot
  <2> SUFFICES ASSUME NEW d \in Dates, NEW r \in snapshots[d]
               PROVE  snapshots'[d] # {} /\ \A s \in snapshots'[d] : s.asof >= r.asof
    BY DEF Advance
  <2>3. r.asof \in Int /\ r.asof <= job.NOW /\ job.NOW \in Int
    BY <2>2, Numbers DEF TableInv, Ages
  <2>4. CASE snapshots'[d] = snapshots[d]
    BY <2>3, <2>4 DEF TableInv, SnapshotIsWhole
  <2>5. CASE rows # {} /\ snapshots'[d] = rows
    BY <2>1, <2>3, <2>5
  <2> QED
    BY <2>1, <2>4, <2>5
<1>2. CASE UNCHANGED snapshots
  <2> SUFFICES ASSUME NEW d \in Dates, NEW r \in snapshots[d]
               PROVE  snapshots'[d] # {} /\ \A s \in snapshots'[d] : s.asof >= r.asof
    BY DEF Advance
  <2>1. r.asof \in Int
    BY Numbers DEF TableInv, Ages
  <2>2. \A s \in snapshots[d] : s.asof = r.asof
    BY DEF TableInv, SnapshotIsWhole
  <2> QED
    BY <1>2, <2>1, <2>2
<1>3. SendStep => UNCHANGED snapshots
  BY SendFacts DEF TableInv, Ages
<1> QED
  BY <1>1, <1>2, <1>3, NextSteps DEF Curate, StartFeatures, FeaturesFail, Tick

(* A snapshot only ever gives way to a later one of its day.                 *)
THEOREM SnapshotsOnlyAdvance == Spec => SnapshotsAdvance
<1>1. TableInv /\ [Next]_vars => [\A d \in Dates : \A r \in snapshots[d] :
        /\ snapshots'[d] # {}
        /\ \A s \in snapshots'[d] : s.asof >= r.asof]_vars
  BY AdvanceStep DEF Advance
<1> QED
  BY <1>1, TableHolds, PTL DEF Spec, SnapshotsAdvance

-----------------------------------------------------------------------------
(* A finite set of ticks has a largest one, from the well-foundedness of <   *)
(* on the natural numbers, and whole days of ticks add up.                   *)

LEMMA LeastNumber ==
  ASSUME NEW S \in SUBSET Nat, S # {}
  PROVE  \E x \in S : \A y \in S : x <= y
<1> DEFINE R == OpToRel(<, Nat)
<1>1. IsWellFoundedOn(R, Nat)
  BY NatLessThanWellFounded
<1>2. \A x, y \in Nat : x < y => <<x, y>> \in R
  BY DEF OpToRel
<1> HIDE DEF R
<1>3. PICK x \in S : \A y \in S : ~(<<y, x>> \in R)
  BY <1>1, WFMin
<1>4. \A y \in S : ~(y < x)
  BY <1>2, <1>3
<1> QED
  BY <1>4

LEMMA TicksCount == Ticks \subseteq Nat /\ \A t \in Ticks : LastTick - t \in Nat
BY FeaturesAssumption DEF Ticks

LEMMA MaxOfTicks ==
  ASSUME NEW S \in SUBSET Ticks, S # {}
  PROVE  Max(S) \in S /\ \A t \in S : t <= Max(S)
<1> DEFINE Distances == {LastTick - t : t \in S}
<1>1. Distances \in SUBSET Nat /\ Distances # {}
  BY TicksCount
<1>2. PICK d \in Distances : \A x \in Distances : d <= x
  BY <1>1, LeastNumber
<1>3. PICK m \in S : d = LastTick - m
  OBVIOUS
<1>4. \A t \in S : m >= t
  <2> TAKE t \in S
  <2>1. d <= LastTick - t
    BY <1>2
  <2> QED
    BY <1>3, <2>1, Numbers
<1>5. Max(S) \in S /\ \A t \in S : Max(S) >= t
  BY <1>4 DEF Max
<1> QED
  BY <1>5, Numbers

LEMMA WholeDays ==
  ASSUME NEW t \in Nat, NEW u \in Nat, NEW days \in Nat
  PROVE  /\ DayOf(t) \in Nat
         /\ t <= u => DayOf(t) <= DayOf(u)
         /\ t <= u + days * Day => DayOf(t) <= DayOf(u) + days
         /\ u + days * Day <= t => DayOf(u) + days <= DayOf(t)
BY FeaturesAssumption DEF DayOf

(***************************************************************************)
(* What a run puts into a row: it has a type, its two recencies agree, and  *)
(* the window says whether the run has seen an event of the last week.      *)
(***************************************************************************)
RowAgrees(r) ==
  IF r.events_7d THEN r.days_since_last_login <= Week ELSE r.days_since_last_login >= Week

LEMMA RowFacts ==
  ASSUME TableInv, NEW c \in InTheMatrix, NEW r \in RowsOf(c)
  PROVE  /\ r \in Rows
         /\ r.c = c /\ r.asof = job.NOW
         /\ RowAgrees(r)
         /\ \A e \in curated : e.c = c /\ job.NOW - Week * Day <= e.at => r.events_7d
<1> DEFINE events == EventsOf(c)
           last   == LastSeen(events)
<1>1. PICK state \in LastStates(events) :
        r = [c |-> c, asof |-> job.NOW, customer_state |-> state,
             days_since_last_login |-> DaysSince(events),
             events_7d |-> InWindow(events, Week) # {}]
  BY DEF RowsOf
<1>2. c \in Customers /\ events # {} /\ events \subseteq Events /\ events \subseteq curated
  BY DEF InTheMatrix, EventsOf, TableInv, EventsKnown
<1>3. job.NOW \in Ticks /\ job.NOW \in Nat /\ job.NOW <= LastTick /\ LastTick \in Nat
  BY Numbers, TicksCount DEF TableInv, Ages
<1>4. /\ last \in {e.at : e \in events} /\ last \in Ticks /\ last \in Nat /\ last <= LastTick
      /\ \A e \in events : e.at <= last
  <2>1. {e.at : e \in events} \in SUBSET Ticks /\ {e.at : e \in events} # {}
    BY <1>2 DEF Events
  <2>2. last \in {e.at : e \in events} /\ \A t \in {e.at : e \in events} : t <= last
    BY <2>1, MaxOfTicks DEF LastSeen
  <2> QED
    BY <2>1, <2>2, Numbers, TicksCount
<1>5. state \in CustomerState \cup {None}
  BY <1>2 DEF LastStates, Events
<1>6. Week \in Nat /\ Quarter \in Nat /\ Week * Day \in Nat /\ Week * Day <= (Quarter + 1) * Day
  BY FeaturesAssumption
<1>7. (InWindow(events, Week) # {}) <=> job.NOW - Week * Day <= last
  <2>1. \A e \in events : e.at \in Nat
    BY <1>2, TicksCount DEF Events
  <2>2. InWindow(events, Week) = {e \in events : e.at >= job.NOW - Week * Day}
    BY DEF InWindow
  <2>3. PICK e \in events : e.at = last
    BY <1>4
  <2> HIDE DEF events, last
  <2>4. ASSUME job.NOW - Week * Day <= last PROVE InWindow(events, Week) # {}
    <3>1. e.at >= job.NOW - Week * Day
      BY <2>3, <2>4, <1>3, <1>4, <1>6
    <3> QED
      BY <2>2, <2>3, <3>1
  <2>5. ASSUME NEW f \in events, f.at >= job.NOW - Week * Day
        PROVE  job.NOW - Week * Day <= last
    BY <2>5, <2>1, <1>3, <1>4, <1>6
  <2> QED
    BY <2>2, <2>4, <2>5
<1>8. DaysSince(events) = DayOf(job.NOW) - DayOf(last)
  BY DEF DaysSince, TODAY
<1>9. /\ DayOf(job.NOW) \in Nat /\ DayOf(last) \in Nat /\ DayOf(LastTick) \in Nat
      /\ DayOf(job.NOW) <= DayOf(LastTick) /\ DayOf(last) <= DayOf(LastTick)
      /\ job.NOW <= last + Week * Day => DayOf(job.NOW) <= DayOf(last) + Week
      /\ last + Week * Day <= job.NOW => DayOf(last) + Week <= DayOf(job.NOW)
  <2> HIDE DEF last
  <2> QED
    BY <1>3, <1>4, <1>6, WholeDays
<1> HIDE DEF events, last
<1>10. r \in Rows
  <2>1. DaysSince(events) \in -DayOf(LastTick)..DayOf(LastTick)
    BY <1>8, <1>9
  <2> QED
    BY <1>1, <1>2, <1>3, <1>5, <2>1 DEF Rows
<1>11. RowAgrees(r)
  <2>1. r.days_since_last_login = DayOf(job.NOW) - DayOf(last)
    BY <1>1, <1>8
  <2>2. r.events_7d <=> job.NOW - Week * Day <= last
    BY <1>1, <1>7
  <2> QED
    BY <2>1, <2>2, <1>3, <1>4, <1>6, <1>9 DEF RowAgrees
<1>12. ASSUME NEW e \in curated, e.c = c, job.NOW - Week * Day <= e.at
       PROVE  r.events_7d
  <2>1. e.at \in Nat
    BY TicksCount DEF TableInv, EventsKnown, Events
  <2>2. e.at >= job.NOW - (Quarter + 1) * Day /\ e.at >= job.NOW - Week * Day
    BY <1>3, <1>6, <1>12, <2>1, FeaturesAssumption
  <2>3. e \in events
    BY <1>12, <2>2 DEF EventsOf, events
  <2>4. InWindow(events, Week) # {}
    BY <2>2, <2>3 DEF InWindow
  <2> QED
    BY <1>1, <2>4
<1> QED
  BY <1>1, <1>10, <1>11, <1>12

(***************************************************************************)
(* The rest of the invariant: types, and what the rows say of their runs.   *)
(***************************************************************************)
WindowsTell ==
  \A d \in Dates : \A r \in snapshots[d] : \A e \in curated :
    /\ e.c = r.c
    /\ e.since < r.asof
    /\ r.asof - Week * Day <= e.at
    => r.events_7d

RowsInv ==
  /\ job \in [running: BOOLEAN, NOW: Ticks]
  /\ snapshots \in [Dates -> SUBSET Rows]
  /\ \A d \in Dates : \A r \in snapshots[d] : RowAgrees(r)
  /\ WindowsTell

LEMMA InitRows == Init => RowsInv
BY TicksCount, FeaturesAssumption
DEF Init, RowsInv, WindowsTell, NoJob, Ticks

LEMMA RowsStep == TableInv /\ RowsInv /\ [Next]_vars => RowsInv'
<1> SUFFICES ASSUME TableInv, RowsInv, [Next]_vars PROVE RowsInv'
  OBVIOUS
<1>1. ASSUME UNCHANGED <<curated, job, snapshots>> PROVE RowsInv'
  BY <1>1 DEF RowsInv, WindowsTell
<1>2. CASE SendStep
  <2>1. UNCHANGED <<curated, job, snapshots>>
    BY <1>2, SendFacts DEF TableInv, Ages
  <2> QED
    BY <1>1, <2>1
<1>3. CASE \E events \in SUBSET pending : Curate(events)
  <2>1. PICK events \in SUBSET pending :
          /\ curated' = curated \cup {[e EXCEPT !.since = now] : e \in events}
          /\ UNCHANGED <<now, life, job, snapshots>>
    BY <1>3 DEF Curate
  <2>2. \A e \in events : [e EXCEPT !.since = now].since = now
    BY DEF TableInv, EventsKnown, Events
  <2>3. WindowsTell'
    <3> SUFFICES ASSUME NEW d \in Dates, NEW r \in snapshots[d], NEW e \in curated',
                        e.c = r.c, e.since < r.asof, r.asof - Week * Day <= e.at
                 PROVE  r.events_7d
      BY <2>1 DEF WindowsTell
    <3>1. CASE e \in curated
      BY <3>1 DEF RowsInv, WindowsTell
    <3>2. CASE e.since = now
      <4>1. now \in Int /\ r.asof \in Int /\ r.asof <= now
        BY Numbers DEF TableInv, Ages
      <4> QED
        BY <3>2, <4>1
    <3> QED
      BY <2>1, <2>2, <3>1, <3>2
  <2> QED
    BY <2>1, <2>3 DEF RowsInv
<1>4. CASE StartFeatures \/ FeaturesFail
  <2>1. UNCHANGED <<curated, snapshots>> /\ job' \in [running: BOOLEAN, NOW: Ticks]
    <3>1. now \in Ticks /\ 0 \in Ticks
      BY FeaturesAssumption DEF TableInv, Ages, Ticks
    <3>2. CASE StartFeatures
      BY <3>1, <3>2 DEF StartFeatures
    <3>3. CASE FeaturesFail
      BY <3>1, <3>3 DEF FeaturesFail, NoJob
    <3> QED
      BY <1>4, <3>2, <3>3
  <2> QED
    BY <2>1 DEF RowsInv, WindowsTell
<1>5. CASE WriteSnapshot
  <2>1. job' = NoJob /\ UNCHANGED curated
    BY <1>5 DEF WriteSnapshot
  <2>2. PICK rows :
          /\ \A r \in rows : r.c \in InTheMatrix /\ r.asof = job.NOW /\ r \in RowsOf(r.c)
          /\ snapshots' = [d \in Dates |-> snapshots'[d]]
          /\ \A d \in Dates : \/ snapshots'[d] = snapshots[d]
                              \/ d = TODAY /\ rows # {} /\ snapshots'[d] = rows
    BY <1>5, WriteFacts
  <2>3. \A r \in rows : /\ r \in Rows /\ RowAgrees(r)
                        /\ \A e \in curated : e.c = r.c /\ r.asof - Week * Day <= e.at => r.events_7d
    BY <2>2, RowFacts
  <2>4. \A d \in Dates : snapshots[d] \subseteq Rows
    BY DEF RowsInv
  <2>5. snapshots' \in [Dates -> SUBSET Rows]
    BY <2>2, <2>3, <2>4
  <2>6. \A d \in Dates : \A r \in snapshots'[d] : RowAgrees(r)
    BY <2>2, <2>3 DEF RowsInv
  <2>7. WindowsTell'
    BY <2>1, <2>2, <2>3 DEF RowsInv, WindowsTell
  <2>8. job' \in [running: BOOLEAN, NOW: Ticks]
    BY <2>1, FeaturesAssumption, TicksCount DEF NoJob, Ticks
  <2> QED
    BY <2>5, <2>6, <2>7, <2>8 DEF RowsInv, RowAgrees
<1>6. CASE Tick \/ UNCHANGED vars
  BY <1>1, <1>6 DEF Tick, vars
<1> QED
  BY <1>2, <1>3, <1>4, <1>5, <1>6, NextSteps

LEMMA RowsHold == Spec => [](TableInv /\ RowsInv)
<1>1. Init => TableInv /\ RowsInv
  BY InitTable, InitRows
<1>2. TableInv /\ RowsInv /\ [Next]_vars => TableInv' /\ RowsInv'
  BY TableStep, RowsStep
<1> QED
  BY <1>1, <1>2, PTL DEF Spec

(* Every variable keeps its type; a row's recency is a number of days there  *)
(* are, which takes the newest event of a customer to exist.                 *)
THEOREM FeatureTypes == Spec => []TypeOK
<1>1. TableInv /\ RowsInv => TypeOK
  BY DEF TableInv, EventsKnown, Ages, RowsInv, TypeOK
<1> QED
  BY <1>1, RowsHold, PTL

(* A row whose window holds an event is at most a week old in calendar days, *)
(* any other at least a week, for any length of the day and of the windows.  *)
THEOREM RecenciesAgree == Spec => []RecencyAgrees
<1>1. RowsInv => RecencyAgrees
  BY DEF RowsInv, RowAgrees, RecencyAgrees
<1> QED
  BY <1>1, RowsHold, PTL

(* The loader takes whoever was active from the newest snapshot: there its   *)
(* rows have their window, so none is dropped, and no later date ranks.      *)
THEOREM ActiveAreLoaded == Spec => []LoadsTheActive
<1>1. ASSUME TableInv, RowsInv PROVE LoadsTheActive
  <2> SUFFICES ASSUME NEW d \in Dates, NewestDate(d), d >= DayOf(now) - Lookback,
                      NEW r \in snapshots[d], NEW e \in curated,
                      e.since < r.asof, r.asof - Week * Day <= e.at
               PROVE  {l \in LoadFeatures : l.c = e.c} = {s \in snapshots[d] : s.c = e.c}
    BY DEF LoadsTheActive
  <2>1. e.c \in Customers
    BY <1>1 DEF TableInv, EventsKnown, Events
  <2>2. \A s \in snapshots[d] : s.c = e.c => s.events_7d
    BY <1>1 DEF TableInv, SnapshotIsWhole, RowsInv, WindowsTell
  <2>3. \A x \in Ranked(e.c) : x \in Dates /\ x <= d /\ \E s \in snapshots[x] : s.c = e.c
    BY DEF Ranked, NewestDate
  <2>4. \E s \in snapshots[d] : s.c = e.c
    <3>1. r.asof - Quarter * Day <= e.at
      <4>1. Week * Day <= Quarter * Day /\ Week * Day \in Nat /\ Quarter * Day \in Nat
        BY FeaturesAssumption
      <4>2. r.asof \in Nat /\ e.at \in Nat
        BY <1>1, TicksCount DEF TableInv, Ages, EventsKnown, Events
      <4> QED
        BY <4>1, <4>2
    <3> QED
      BY <1>1, <3>1 DEF TableInv, SilenceIsKept
  <2>5. d \in Ranked(e.c)
    BY <2>2, <2>4 DEF Ranked
  <2>6. Dates \subseteq Int
    BY DEF Dates
  <2>7. ASSUME NEW l \in LoadFeatures, l.c = e.c PROVE l \in snapshots[d]
    <3>1. PICK x \in Dates : l \in snapshots[x] /\ x \in Ranked(e.c)
                            /\ \A y \in Ranked(e.c) : y <= x
      BY <2>7 DEF LoadFeatures
    <3>2. x = d
      BY <2>3, <2>5, <2>6, <3>1
    <3> QED
      BY <3>1, <3>2
  <2>8. ASSUME NEW s \in snapshots[d], s.c = e.c PROVE s \in LoadFeatures
    <3>1. s.events_7d /\ \A x \in Ranked(e.c) : x <= d
      BY <2>2, <2>3, <2>8
    <3> DEFINE Part(c, y) ==
          {l \in snapshots[y] : l.c = c /\ l.events_7d /\ y \in Ranked(c) /\ \A x \in Ranked(c) : x <= y}
    <3>2. s \in Part(e.c, d)
      BY <2>5, <2>8, <3>1
    <3>3. LoadFeatures = UNION {Part(c, y) : c \in Customers, y \in Dates}
      BY DEF LoadFeatures
    <3> HIDE DEF Part
    <3> QED
      BY <2>1, <3>2, <3>3
  <2> QED
    BY <2>7, <2>8
<1> QED
  BY <1>1, RowsHold, PTL
=============================================================================
