---------------------------- MODULE ChurnFeatures ----------------------------
(***************************************************************************)
(* From customers to training rows: the producers generate events by the   *)
(* state of a customer's life cycle, the webhook brings events without     *)
(* one, the feature job turns the last quarter of the curated table into   *)
(* one snapshot a day, and the loader picks training rows from them.  How  *)
(* an event gets into the curated table is EventIngest's business.         *)
(***************************************************************************)
EXTENDS Integers, FiniteSetsExt

CONSTANTS
  Customers,
  None,
  Day,        \* ticks in a day
  Week,       \* days of the shortest window (7)
  Quarter,    \* days of the longest one (90)
  Lookback,   \* days the loader looks back (90)
  LastTick,   \* the last tick: bound of the model
  MaxEvents   \* events there may be: bound of the model

ASSUME FeaturesAssumption ==
  /\ Day \in Nat \ {0} /\ Week \in Nat \ {0} /\ Quarter \in Nat \ {0}
  /\ Week <= Quarter
  /\ Lookback \in Nat /\ LastTick \in Nat /\ MaxEvents \in Nat
  /\ None \notin {"active", "churned"}

VARIABLES
  now,
  life,       \* customer -> state of its profile, None: only other systems know it
  pending,    \* events on their way
  curated,    \* events in the curated table
  job,        \* the running feature job and its NOW
  snapshots   \* the feature table: date -> rows

vars == <<now, life, pending, curated, job, snapshots>>

Ticks    == 0..LastTick
DayOf(t) == t \div Day
Dates    == 0..DayOf(LastTick)

(* Healthy, at risk and churning customers differ in how much they do.      *)
CustomerState == {"active", "churned"}

(* An event stands for one or more alike; "since" is when it got into the  *)
(* table, -1 before.                                                       *)
Events == [c: Customers, at: Ticks, state: CustomerState \cup {None}, since: -1..LastTick]

(* A row of the feature table.  A window's aggregates are null together, so *)
(* one of them is enough: total_events_7d IS NOT NULL.                      *)
Rows == [c: Customers, asof: Ticks, customer_state: CustomerState \cup {None},
         days_since_last_login: -DayOf(LastTick)..DayOf(LastTick), events_7d: BOOLEAN]

NoJob == [running |-> FALSE, NOW |-> 0]

-----------------------------------------------------------------------------
(* event_schemas.py, event_producer.py *)

Event(c, at, state) == [c |-> c, at |-> at, state |-> state, since |-> -1]

(* One event of a customer, or none: the silence of a churned customer is   *)
(* the signal.                                                              *)
Generate(c, state) == IF state = "churned" THEN {} ELSE {Event(c, now, state)}

Send(events) ==
  /\ pending' = pending \cup events
  /\ Cardinality(pending' \cup curated) <= MaxEvents   \* bound
  /\ UNCHANGED <<now, curated, job, snapshots>>

(* One-shot, and the start of a stream: a profile in any state. *)
NewCustomer(c, state) ==
  /\ life[c] = None
  /\ life' = [life EXCEPT ![c] = state]
  /\ Send(Generate(c, state))

(* A profile never changes its state: a stream goes on as it began. *)
ContinuousStream(c) ==
  /\ life[c] \notin {None, "churned"}
  /\ Send(Generate(c, life[c]))
  /\ UNCHANGED life

(* The journey of one customer, new or known, all of it stamped with the    *)
(* time of the call; its last day brings no event.                          *)
ChurnScenario(c) ==
  /\ life' = [life EXCEPT ![c] = "churned"]
  /\ Send(UNION {Generate(c, state) : state \in CustomerState})

(* Events of another system have no customer_state, and its own clock.       *)
Webhook(c, at) ==
  /\ at \in Ticks
  /\ Send({Event(c, at, None)})
  /\ UNCHANGED life

(* raw_to_curated.py takes no event from the future. *)
Curate(events) ==
  /\ events # {} /\ events \subseteq {e \in pending : e.at <= now}
  /\ pending' = pending \ events
  /\ curated' = curated \cup {[e EXCEPT !.since = now] : e \in events}
  /\ UNCHANGED <<now, life, job, snapshots>>

-----------------------------------------------------------------------------
(* feature_engineering.py *)

(* Glue's trigger or the DAG; a second run at the same time is refused. *)
StartFeatures ==
  /\ ~job.running
  /\ job' = [running |-> TRUE, NOW |-> now]
  /\ UNCHANGED <<now, life, pending, curated, snapshots>>

TODAY == DayOf(job.NOW)

(* What spark.table reads: a lower bound only. *)
EventsOf(c) == {e \in curated : e.c = c /\ e.at >= job.NOW - (Quarter + 1) * Day}

InWindow(events, days) == {e \in events : e.at >= job.NOW - days * Day}

LastSeen(events) == Max({e.at : e \in events})

(* F.last over an order Spark does not define: the state of any event that  *)
(* has one.                                                                 *)
LastStates(events) ==
  LET known == {e.state : e \in events} \ {None}
  IN  IF known = {} THEN {None} ELSE known

MTimeSince(events) == job.NOW - DayOf(LastSeen(events))
MDaysSince(events) == DayOf(now) - DayOf(LastSeen(events))
DaysSince(events) == TODAY - DayOf(LastSeen(events))

RowsOf(c) ==
  LET events == EventsOf(c)
  IN  {[c |-> c, asof |-> job.NOW, customer_state |-> state,
        days_since_last_login |-> DaysSince(events),
        events_7d |-> InWindow(events, Week) # {}] : state \in LastStates(events)}

IsChurned(row) == IF row.customer_state = "churned" THEN 1 ELSE 0

(* Every customer with an event in the table: the windows are left-joined.  *)
MInTheMatrix == {c \in Customers : InWindow(EventsOf(c), Week) # {}}
InTheMatrix  == {c \in Customers : EventsOf(c) # {}}

(* overwritePartitions: the partitions that rows are written to, no other.  *)
MOverwrite(rows) == [d \in Dates |-> IF d = TODAY THEN snapshots[d] \cup rows ELSE snapshots[d]]
MReplaceTable(rows) == [d \in Dates |-> {r \in rows : DayOf(r.asof) = d}]
Overwrite(rows) ==
  [d \in Dates |-> IF \E r \in rows : DayOf(r.asof) = d
                   THEN {r \in rows : DayOf(r.asof) = d} ELSE snapshots[d]]

(* What events_df holds is read here and cached until the write. *)
WriteSnapshot ==
  /\ job.running
  /\ \E row \in [InTheMatrix -> UNION {RowsOf(c) : c \in InTheMatrix}] :
       /\ \A c \in InTheMatrix : row[c] \in RowsOf(c)
       /\ snapshots' = Overwrite({row[c] : c \in InTheMatrix})
  /\ job' = NoJob
  /\ UNCHANGED <<now, life, pending, curated>>

FeaturesFail ==
  /\ job.running
  /\ job' = NoJob
  /\ UNCHANGED <<now, life, pending, curated, snapshots>>

Tick ==
  /\ now < LastTick
  /\ now' = now + 1
  /\ UNCHANGED <<life, pending, curated, job, snapshots>>

-----------------------------------------------------------------------------
(* data_loader.py *)

(* The snapshots load_features_from_athena ranks for a customer: those of    *)
(* the last Lookback days in which it had events in the last seven.          *)
Ranked(c) == {d \in Dates : /\ d >= DayOf(now) - Lookback
                            /\ \E r \in snapshots[d] : r.c = c /\ r.events_7d}

MLoadFeatures ==
  UNION {{r \in snapshots[d] : r.c = c /\ r.events_7d /\ \A x \in Ranked(c) : d <= x} :
           c \in Customers, d \in Dates}
(* ROW_NUMBER() = 1 in descending order of the date. *)
LoadFeatures ==
  UNION {{r \in snapshots[d] : r.c = c /\ r.events_7d /\ d \in Ranked(c) /\ \A x \in Ranked(c) : x <= d} :
           c \in Customers, d \in Dates}

-----------------------------------------------------------------------------
Init ==
  /\ now = 0
  /\ life = [c \in Customers |-> None]
  /\ pending = {} /\ curated = {}
  /\ job = NoJob
  /\ snapshots = [d \in Dates |-> {}]

Next ==
  \/ \E c \in Customers, state \in CustomerState : NewCustomer(c, state)
  \/ \E c \in Customers : ContinuousStream(c) \/ ChurnScenario(c)
  \/ \E c \in Customers : \E at \in {now, now + 1} : Webhook(c, at)
  \/ \E events \in SUBSET pending : Curate(events)
  \/ StartFeatures
  \/ WriteSnapshot
  \/ FeaturesFail
  \/ Tick

Spec == Init /\ [][Next]_vars

-----------------------------------------------------------------------------
(* Type correctness. *)
TypeOK ==
  /\ now \in Ticks
  /\ life \in [Customers -> CustomerState \cup {None}]
  /\ pending \subseteq Events /\ curated \subseteq Events
  /\ job \in [running: BOOLEAN, NOW: Ticks]
  /\ snapshots \in [Dates -> SUBSET Rows]

(* A day's snapshot is the work of one run that started that day, and has   *)
(* one row per customer: whatever runs again, over midnight, or fails.      *)
SnapshotIsWhole ==
  \A d \in Dates : \A r, s \in snapshots[d] :
    /\ DayOf(r.asof) = d
    /\ r.asof = s.asof
    /\ r.c = s.c => r = s

(* A customer with an event of the last quarter is in the snapshot, however  *)
(* long it has been silent: its silence is what the model learns from.       *)
SilenceIsKept ==
  \A d \in Dates : \A r \in snapshots[d] : \A e \in curated :
    /\ e.since < r.asof
    /\ r.asof - Quarter * Day <= e.at
    => \E s \in snapshots[d] : s.c = e.c

(* The window and the recency of a row tell the same story, although one    *)
(* counts hours and the other calendar days.                                *)
RecencyAgrees ==
  \A d \in Dates : \A r \in snapshots[d] :
    IF r.events_7d THEN r.days_since_last_login <= Week ELSE r.days_since_last_login >= Week

(* A snapshot, once written, stays, and is only replaced by one of the same  *)
(* day that was computed later.                                              *)
SnapshotsAdvance ==
  [][\A d \in Dates : \A r \in snapshots[d] :
       /\ snapshots'[d] # {}
       /\ \A s \in snapshots'[d] : s.asof >= r.asof]_vars

(* Whoever had an event in the week before the newest snapshot is loaded    *)
(* from that snapshot and not from an older one.                            *)
NewestDate(d) == snapshots[d] # {} /\ \A x \in Dates : snapshots[x] # {} => x <= d

LoadsTheActive ==
  \A d \in Dates : NewestDate(d) /\ d >= DayOf(now) - Lookback =>
    \A r \in snapshots[d] : \A e \in curated :
      /\ e.since < r.asof
      /\ r.asof - Week * Day <= e.at
      => {l \in LoadFeatures : l.c = e.c} = {s \in snapshots[d] : s.c = e.c}

-----------------------------------------------------------------------------
(* "Label = 1 if customer is in 'churned' state" (feature_engineering.py:166), *)
(* from the state that is "used for model training labels"                     *)
(* (event_schemas.py:147): a customer that had churned when the row was        *)
(* computed is labelled so.                                                    *)
ChurnedLabelled ==
  \A d \in Dates : \A r \in snapshots[d] :
    /\ life[r.c] = "churned"
    /\ \A e \in pending \cup curated : e.c = r.c => e.since \in 0..(r.asof - 1)
    => IsChurned(r) = 1

=============================================================================
