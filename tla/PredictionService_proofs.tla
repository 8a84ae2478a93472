----------------------- MODULE PredictionService_proofs -----------------------
(***************************************************************************)
(* Proofs about PredictionService, for any pods, calls, rows, versions,      *)
(* batch size and time to live.                                              *)
(***************************************************************************)
EXTENDS PredictionService, FiniteSetTheorems, TLAPS

-----------------------------------------------------------------------------
(* uncached_indices: the misses of a lookup in their order, each once.        *)

LEMMA MissesCount ==
  ASSUME NEW found, Len(found) \in Nat, NEW k \in 0..Len(found)
  PROVE  /\ IsFiniteSet(Misses(found, k))
         /\ Cardinality(Misses(found, k)) \in 0..Cardinality(Misses(found, Len(found)))
         /\ Cardinality(Misses(found, Len(found))) \in Nat
         /\ k > 0 /\ found[k] = None => Cardinality(Misses(found, k)) > 0
<1>1. /\ IsFiniteSet(1..Len(found))
      /\ Misses(found, Len(found)) \in SUBSET (1..Len(found))
      /\ Misses(found, k) \in SUBSET Misses(found, Len(found))
  <2>1. IsFiniteSet(1..Len(found))
    BY FS_Interval
  <2> QED
    BY <2>1 DEF Misses
<1>2. IsFiniteSet(Misses(found, Len(found))) /\ IsFiniteSet(Misses(found, k))
  BY <1>1, FS_Subset
<1>3. Cardinality(Misses(found, k)) <= Cardinality(Misses(found, Len(found)))
  BY <1>1, <1>2, FS_Subset
<1>4. Cardinality(Misses(found, k)) \in Nat /\ Cardinality(Misses(found, Len(found))) \in Nat
  BY <1>2, FS_CardinalityType
<1>5. ASSUME k > 0, found[k] = None PROVE Cardinality(Misses(found, k)) > 0
  <2>1. k \in Misses(found, k)
    BY <1>5 DEF Misses
  <2>2. Cardinality(Misses(found, k)) # 0
    BY <1>2, <2>1, FS_EmptySet
  <2> QED
    BY <1>4, <2>2
<1> QED
  BY <1>2, <1>3, <1>4, <1>5

LEMMA MissesGrow ==
  ASSUME NEW found, Len(found) \in Nat,
         NEW i \in 1..Len(found), NEW k \in 1..Len(found), i < k, found[k] = None
  PROVE  Cardinality(Misses(found, i)) < Cardinality(Misses(found, k))
<1>1. /\ Misses(found, i) \in SUBSET Misses(found, k)
      /\ k \in Misses(found, k) /\ k \notin Misses(found, i)
  BY DEF Misses
<1>2. IsFiniteSet(Misses(found, k)) /\ IsFiniteSet(Misses(found, i))
  BY MissesCount
<1>3. Cardinality(Misses(found, i)) <= Cardinality(Misses(found, k))
  BY <1>1, <1>2, FS_Subset
<1>4. Cardinality(Misses(found, i)) # Cardinality(Misses(found, k))
  BY <1>1, <1>2, FS_Subset
<1>5. Cardinality(Misses(found, i)) \in Nat /\ Cardinality(Misses(found, k)) \in Nat
  BY <1>2, FS_CardinalityType
<1> QED
  BY <1>3, <1>4, <1>5

(* Each number of misses up to the last is reached at a row that missed.      *)
LEMMA MissesReached ==
  ASSUME NEW found, Len(found) \in Nat,
         NEW j \in 1..Cardinality(Misses(found, Len(found)))
  PROVE  \E k \in 1..Len(found) : found[k] = None /\ Cardinality(Misses(found, k)) = j
<1> DEFINE M == Misses(found, Len(found))
           f == [k \in M |-> Cardinality(Misses(found, k))]
<1>1. \A k \in M : k \in 1..Len(found) /\ found[k] = None
  BY DEF Misses
<1>2. IsFiniteSet(M) /\ Cardinality(M) \in Nat
  BY MissesCount, FS_CardinalityType
<1>3. f \in [M -> 1..Cardinality(M)]
  <2> SUFFICES ASSUME NEW k \in M PROVE Cardinality(Misses(found, k)) \in 1..Cardinality(M)
    OBVIOUS
  <2>1. k \in 0..Len(found) /\ k > 0 /\ found[k] = None
    BY <1>1
  <2> QED
    BY <1>2, <2>1, MissesCount
<1>4. \A a, b \in M : f[a] = f[b] => a = b
  <2> SUFFICES ASSUME NEW a \in M, NEW b \in M, f[a] = f[b], a # b PROVE FALSE
    OBVIOUS
  <2>1. Cardinality(Misses(found, a)) \in Nat /\ Cardinality(Misses(found, b)) \in Nat
    BY <1>1, MissesCount, FS_CardinalityType
  <2>2. a < b \/ b < a
    BY <1>1
  <2> QED
    BY <1>1, <2>1, <2>2, MissesGrow
<1>5. f \in Injection(M, 1..Cardinality(M))
  BY <1>3, <1>4 DEF Injection, IsInjective
<1>6. IsFiniteSet(1..Cardinality(M)) /\ Cardinality(1..Cardinality(M)) = Cardinality(M)
  BY <1>2, FS_Interval
<1>7. f \in Surjection(M, 1..Cardinality(M))
  BY <1>5, <1>6, FS_Injection
<1>8. \E k \in M : f[k] = j
  BY <1>7 DEF Surjection
<1> QED
  BY <1>1, <1>8

LEMMA UncachedRows ==
  ASSUME NEW found, Len(found) \in Nat
  PROVE  /\ Uncached(found) \in Seq(1..Len(found))
         /\ Len(Uncached(found)) = Cardinality(Misses(found, Len(found)))
         /\ \A j \in 1..Len(Uncached(found)) :
              Uncached(found)[j] \in 1..Len(found) /\ found[Uncached(found)[j]] = None
         /\ \A k \in 1..Len(found) : found[k] = None =>
              /\ Cardinality(Misses(found, k)) \in 1..Len(Uncached(found))
              /\ Uncached(found)[Cardinality(Misses(found, k))] = k
<1> DEFINE N == Cardinality(Misses(found, Len(found)))
           At(j) == CHOOSE k \in 1..Len(found) : found[k] = None /\ Cardinality(Misses(found, k)) = j
<1>1. N \in Nat
  BY MissesCount
<1>2. \A j \in 1..N : At(j) \in 1..Len(found) /\ found[At(j)] = None /\ Cardinality(Misses(found, At(j))) = j
  BY MissesReached
<1>3. Uncached(found) = [j \in 1..N |-> At(j)]
  BY DEF Uncached
<1>4. ASSUME NEW k \in 1..Len(found), found[k] = None
      PROVE  Cardinality(Misses(found, k)) \in 1..N /\ At(Cardinality(Misses(found, k))) = k
  <2> DEFINE j == Cardinality(Misses(found, k))
  <2>1. j \in 1..N
    BY <1>4, MissesCount
  <2>2. At(j) \in 1..Len(found) /\ found[At(j)] = None /\ Cardinality(Misses(found, At(j))) = j
    BY <1>2, <2>1
  <2> HIDE DEF At
  <2>3. ~(At(j) < k) /\ ~(k < At(j))
    BY <1>4, <2>1, <2>2, MissesGrow
  <2> QED
    BY <2>1, <2>2, <2>3
<1> HIDE DEF N, At
<1>5. Uncached(found) \in Seq(1..Len(found)) /\ Len(Uncached(found)) = N
  BY <1>1, <1>2, <1>3
<1> QED
  BY <1>1, <1>2, <1>3, <1>4, <1>5 DEF N

-----------------------------------------------------------------------------
(***************************************************************************)
(* The invariant.  A call knows of each of its rows what it found, or the   *)
(* prediction its own pod made of it; the pod has not been restarted since, *)
(* so what the pod made is of the version it still has in memory.           *)
(***************************************************************************)
Found(rows, found) ==
  /\ found \in Seq(Prediction \cup {None})
  /\ Len(found) <= Len(rows)
  /\ \A k \in 1..Len(found) : found[k] # None => found[k].row = rows[k]

Scored(rows, found, preds, version) ==
  /\ Len(found) = Len(rows)
  /\ Uncached(found) # <<>>
  /\ preds = [j \in 1..Len(Uncached(found)) |->
                [row |-> rows[Uncached(found)[j]], version |-> version]]

Serves(r) == r.pod \in Pods /\ loaded[r.pod] \in Versions /\ r.rows \in Requests

Looking(r) ==
  /\ r \in [pc: {"lookup"}, kind: {"single", "batch"}, pod: Pods, rows: Requests,
             found: Seq(Prediction \cup {None}), preds: {<<>>}, stored: {0}]
  /\ Found(r.rows, r.found) /\ Len(r.found) < Len(r.rows)

Storing(r) ==
  /\ r \in [pc: {"store"}, kind: {"single", "batch"}, pod: Pods, rows: Requests,
             found: Seq(Prediction \cup {None}), preds: Seq(Prediction), stored: Nat]
  /\ Found(r.rows, r.found) /\ Scored(r.rows, r.found, r.preds, loaded[r.pod])
  /\ r.stored < Len(Uncached(r.found))

Replying(r) ==
  /\ r.pc = "reply" /\ r.status \in Statuses
  /\ r.status = 200 =>
       /\ Len(r.results) = Len(r.rows)
       /\ \A k \in 1..Len(r.rows) : r.results[k].row = r.rows[k]

CallOK(r) == r = NoCall \/ (Serves(r) /\ (Looking(r) \/ Storing(r) \/ Replying(r)))

CallsOK == call = [c \in Calls |-> call[c]] /\ \A c \in Calls : CallOK(call[c])

(* A key holds a prediction of its own row, which is at least as old as the  *)
(* absence of the version that made it.                                      *)
EntryOK(row, e) ==
  e = None \/ (e \in Entries /\ e.pred.row = row /\ since[e.pred.version] <= e.age)

CacheOK ==
  /\ cache = [r \in Rows |-> cache[r]]
  /\ \A r \in Rows : EntryOK(r, cache[r])

SinceOK ==
  /\ since \in [Versions -> 0..TTL+1]
  /\ \A p \in Pods : loaded[p] \in Versions => since[loaded[p]] = 0

ServiceInv ==
  /\ loaded \in [Pods -> Versions \cup {None}]
  /\ redis \in BOOLEAN
  /\ scan \subseteq Rows
  /\ SinceOK
  /\ CacheOK
  /\ CallsOK

LEMMA InitService == Init => ServiceInv
<1> SUFFICES ASSUME Init PROVE ServiceInv
  OBVIOUS
<1>1. SinceOK
  BY ServiceAssumption DEF Init, SinceOK
<1>2. CacheOK
  BY DEF Init, CacheOK, EntryOK
<1>3. CallsOK
  BY DEF Init, CallsOK, CallOK
<1> QED
  BY <1>1, <1>2, <1>3 DEF Init, ServiceInv

-----------------------------------------------------------------------------
(* Requests. *)

LEMMA RequestRows ==
  ASSUME NEW rows \in Requests
  PROVE  rows \in Seq(Rows) /\ Len(rows) \in Nat /\ Len(rows) >= 1
<1>1. PICK m \in 0..MaxBatch : rows \in [1..m -> Rows]
  BY ServiceAssumption DEF BoundedSeq, SeqOf
<1>2. m \in Nat /\ rows \in Seq(Rows) /\ Len(rows) = m
  BY <1>1, ServiceAssumption
<1>3. rows # <<>>
  BY ServiceAssumption
<1> QED
  BY <1>2, <1>3

(* A step that gives one call its next place, in a state that serves it.     *)
LEMMA CallMoves ==
  ASSUME ServiceInv, NEW c \in Calls, NEW next, Goto(c, next), CallOK(next),
         UNCHANGED loaded
  PROVE  CallsOK'
<1>1. call' = [call EXCEPT ![c] = next]
  BY DEF Goto
<1>2. call' = [x \in Calls |-> call'[x]] /\ \A x \in Calls : call'[x] = IF x = c THEN next ELSE call[x]
  BY <1>1 DEF ServiceInv, CallsOK
<1>3. \A x \in Calls : CallOK(call'[x])
  BY <1>2 DEF ServiceInv, CallsOK
<1>4. \A x \in Calls : CallOK(call[x])'
  BY <1>3 DEF CallOK, Serves, Looking, Storing, Replying
<1> QED
  BY <1>2, <1>4 DEF CallsOK

LEMMA ReceiveStep ==
  ASSUME ServiceInv, NEW c \in Calls, NEW p \in Pods, NEW kind \in {"single", "batch"},
         NEW rows \in Requests, Receive(c, p, kind, rows)
  PROVE  ServiceInv'
<1> DEFINE next == [pc |-> "lookup", kind |-> kind, pod |-> p, rows |-> rows,
                    found |-> <<>>, preds |-> <<>>, stored |-> 0]
<1>1. Goto(c, next) /\ loaded[p] \in Versions
      /\ UNCHANGED <<loaded, redis, cache, scan, since>>
  BY DEF Receive, Goto, ServiceInv
<1>2. <<>> \in Seq(Prediction \cup {None}) /\ Len(<<>>) = 0
  OBVIOUS
<1>3. Looking(next) /\ Serves(next)
  <2>1. Len(rows) >= 1 /\ Len(rows) \in Nat
    BY RequestRows
  <2> QED
    BY <1>1, <1>2, <2>1 DEF Looking, Serves, Found
<1> HIDE DEF next
<1>4. CallsOK'
  BY <1>1, <1>3, CallMoves DEF CallOK
<1> QED
  BY <1>1, <1>4 DEF ServiceInv, SinceOK, CacheOK, EntryOK

(* Every row of an answer finds its own prediction, hit or miss.             *)
LEMMA ResultsAreOwn ==
  ASSUME NEW rows \in Requests, NEW found, NEW preds, NEW version,
         Found(rows, found), Scored(rows, found, preds, version)
  PROVE  /\ Len(Results(found, preds)) = Len(rows)
         /\ \A k \in 1..Len(rows) : Results(found, preds)[k].row = rows[k]
<1>1. Len(found) = Len(rows) /\ Len(found) \in Nat
  BY DEF Found, Scored
<1>2. Len(Results(found, preds)) = Len(rows)
  BY <1>1 DEF Results
<1>3. ASSUME NEW k \in 1..Len(rows) PROVE Results(found, preds)[k].row = rows[k]
  <2>1. Results(found, preds)[k] = ResultAt(found, preds, k)
    BY <1>1 DEF Results
  <2>2. CASE found[k] # None
    BY <1>1, <2>1, <2>2 DEF ResultAt, Found
  <2>3. CASE found[k] = None
    <3> DEFINE j == Cardinality(Misses(found, k))
    <3>1. j \in 1..Len(Uncached(found)) /\ Uncached(found)[j] = k
      BY <1>1, <2>3, UncachedRows
    <3>2. ResultAt(found, preds, k) = preds[j]
      BY <2>3 DEF ResultAt
    <3> HIDE DEF j
    <3>3. preds[j] = [row |-> rows[k], version |-> version]
      BY <3>1 DEF Scored
    <3> QED
      BY <2>1, <3>2, <3>3
  <2> QED
    BY <2>2, <2>3
<1> QED
  BY <1>2, <1>3

(* One more row is looked up: what comes next is right whichever it is.      *)
LEMMA NextFoundOK ==
  ASSUME ServiceInv, NEW c \in Calls, call[c].pc = "lookup", NEW pred \in Prediction \cup {None},
         pred # None => pred.row = call[c].rows[Len(call[c].found) + 1],
         NextFound(c, pred), UNCHANGED loaded
  PROVE  CallsOK'
<1> DEFINE r     == call[c]
           found == Append(r.found, pred)
<1>1. Serves(r) /\ Looking(r)
  BY DEF ServiceInv, CallsOK, CallOK, NoCall, Storing, Replying
<1>2. /\ r.rows \in Requests /\ r.rows \in Seq(Rows) /\ Len(r.rows) \in Nat
      /\ r.found \in Seq(Prediction \cup {None}) /\ Len(r.found) \in Nat /\ Len(r.found) < Len(r.rows)
  BY <1>1, RequestRows DEF Looking
<1>3. /\ found \in Seq(Prediction \cup {None}) /\ Len(found) = Len(r.found) + 1
      /\ Len(found) <= Len(r.rows)
      /\ \A k \in 1..Len(r.found) : found[k] = r.found[k]
      /\ found[Len(r.found) + 1] = pred
  BY <1>2
<1>4. Found(r.rows, found)
  <2> SUFFICES ASSUME NEW k \in 1..Len(found), found[k] # None PROVE found[k].row = r.rows[k]
    BY <1>3 DEF Found
  <2>1. CASE k \in 1..Len(r.found)
    BY <1>1, <1>3, <2>1 DEF Looking, Found
  <2>2. CASE k = Len(r.found) + 1
    BY <1>3, <2>2
  <2> QED
    BY <1>2, <1>3, <2>1, <2>2
<1> HIDE DEF found
<1>5. CASE Len(found) < Len(r.rows)
  <2> DEFINE next == [r EXCEPT !.found = found]
  <2>1. Goto(c, next)
    BY <1>5 DEF NextFound, found
  <2>2. Looking(next) /\ Serves(next)
    BY <1>1, <1>3, <1>4, <1>5 DEF Looking, Serves
  <2> HIDE DEF next
  <2> QED
    BY <2>1, <2>2, CallMoves DEF CallOK
<1>6. CASE ~(Len(found) < Len(r.rows))
  <2>1. ScoreMisses(c, found) /\ Len(found) = Len(r.rows) /\ Len(found) \in Nat
    BY <1>2, <1>3, <1>6 DEF NextFound, found
  <2> DEFINE uncached == Uncached(found)
  <2>2. /\ uncached \in Seq(1..Len(found)) /\ Len(uncached) \in Nat
        /\ \A j \in 1..Len(uncached) : uncached[j] \in 1..Len(found)
        /\ \A k \in 1..Len(found) : found[k] = None => Cardinality(Misses(found, k)) \in 1..Len(uncached)
    <3>1. Uncached(found) \in Seq(1..Len(found))
      BY <2>1, UncachedRows
    <3>2. Len(Uncached(found)) \in Nat
      BY <3>1
    <3> QED
      BY <2>1, <3>1, <3>2, UncachedRows
  <2>3. ASSUME uncached = <<>>, Answer(c, 200, found) PROVE CallsOK'
    <3> DEFINE next == [pc |-> "reply", pod |-> r.pod, rows |-> r.rows, status |-> 200, results |-> found]
    <3>1. \A k \in 1..Len(found) : found[k] # None
      BY <2>2, <2>3
    <3>2. Replying(next) /\ Serves(next)
      BY <1>1, <1>4, <2>1, <3>1 DEF Replying, Serves, Statuses, Found
    <3>3. Goto(c, next)
      BY <2>3 DEF Answer
    <3> HIDE DEF next
    <3> QED
      BY <3>2, <3>3, CallMoves DEF CallOK
  <2>4. ASSUME uncached # <<>>,
               Goto(c, [r EXCEPT !.pc = "store", !.found = found,
                          !.preds = [j \in 1..Len(uncached) |-> Score(r.rows[uncached[j]], r.pod)]])
        PROVE  CallsOK'
    <3> DEFINE preds == [j \in 1..Len(uncached) |-> Score(r.rows[uncached[j]], r.pod)]
               next  == [r EXCEPT !.pc = "store", !.found = found, !.preds = preds]
    <3>1. Len(uncached) >= 1
      BY <2>2, <2>4
    <3>2. \A j \in 1..Len(uncached) : Score(r.rows[uncached[j]], r.pod) \in Prediction
      BY <1>1, <1>2, <2>1, <2>2 DEF Score, Prediction, Serves
    <3>3. preds \in Seq(Prediction)
      BY <2>2, <3>2
    <3>4. Scored(r.rows, found, preds, loaded[r.pod])
      BY <2>1, <2>4 DEF Scored, Score
    <3> HIDE DEF preds
    <3>5. Storing(next) /\ Serves(next)
      <4>1. /\ r \in [pc: {"lookup"}, kind: {"single", "batch"}, pod: Pods, rows: Requests,
                      found: Seq(Prediction \cup {None}), preds: {<<>>}, stored: {0}]
            /\ loaded[r.pod] \in Versions
        BY <1>1 DEF Looking, Serves
      <4>2. next \in [pc: {"store"}, kind: {"single", "batch"}, pod: Pods, rows: Requests,
                      found: Seq(Prediction \cup {None}), preds: Seq(Prediction), stored: Nat]
        <5> DEFINE K == {"single", "batch"}
                   F == Seq(Prediction \cup {None})
                   P == Seq(Prediction)
                   E == {<<>>}
        <5>1. /\ r \in [pc: {"lookup"}, kind: K, pod: Pods, rows: Requests, found: F, preds: E,
                        stored: {0}]
              /\ found \in F /\ preds \in P
          BY <1>3, <3>3, <4>1
        <5>2. 0 \in Nat
          OBVIOUS
        <5> HIDE DEF r, K, F, P, E
        <5>3. [r EXCEPT !.pc = "store", !.found = found, !.preds = preds] \in
                [pc: {"store"}, kind: K, pod: Pods, rows: Requests, found: F, preds: P, stored: Nat]
          BY <5>1, <5>2
        <5> QED
          BY <5>3 DEF K, F, P
      <4>3. /\ next.rows = r.rows /\ next.found = found /\ next.preds = preds
            /\ next.pod = r.pod /\ next.stored = 0
        BY <4>1
      <4> QED
        BY <1>4, <2>2, <3>1, <3>4, <4>1, <4>2, <4>3 DEF Storing, Serves
    <3>6. Goto(c, next)
      BY <2>4 DEF preds
    <3> HIDE DEF next
    <3> QED
      BY <3>5, <3>6, CallMoves DEF CallOK
  <2>5. ASSUME NEW status \in {422, 500}, Answer(c, status, <<>>) PROVE CallsOK'
    <3> DEFINE next == [pc |-> "reply", pod |-> r.pod, rows |-> r.rows, status |-> status, results |-> <<>>]
    <3>1. Replying(next) /\ Serves(next)
      BY <1>1 DEF Replying, Serves, Statuses
    <3>2. Goto(c, next)
      BY <2>5 DEF Answer
    <3> HIDE DEF next
    <3> QED
      BY <3>1, <3>2, CallMoves DEF CallOK
  <2> QED
    BY <2>1, <2>3, <2>4, <2>5 DEF ScoreMisses
<1> QED
  BY <1>5, <1>6

LEMMA LookupStep ==
  ASSUME ServiceInv, NEW c \in Calls, Lookup(c)
  PROVE  ServiceInv'
<1> DEFINE row == call[c].rows[Len(call[c].found) + 1]
<1>1. /\ call[c].pc = "lookup"
      /\ UNCHANGED <<loaded, redis, cache, scan, since>>
  BY DEF Lookup
<1>2. row \in Rows
  <2>1. Looking(call[c])
    BY <1>1 DEF ServiceInv, CallsOK, CallOK, NoCall, Storing, Replying
  <2>2. call[c].rows \in Seq(Rows) /\ Len(call[c].found) \in Nat /\ Len(call[c].rows) \in Nat
    BY <2>1, RequestRows DEF Looking
  <2>3. Len(call[c].found) + 1 \in 1..Len(call[c].rows)
    BY <2>1, <2>2 DEF Looking
  <2> QED
    BY <2>2, <2>3
<1>3. Cached(row) \in Prediction \cup {None} /\ (Cached(row) # None => Cached(row).row = row)
  <2>1. EntryOK(row, cache[row])
    BY <1>2 DEF ServiceInv, CacheOK
  <2> QED
    BY <2>1 DEF Cached, EntryOK, Entries
<1>4. NextFound(c, Cached(row)) \/ NextFound(c, None)
  BY DEF Lookup
<1> HIDE DEF row
<1>5. CallsOK'
  BY <1>1, <1>3, <1>4, NextFoundOK DEF row
<1> QED
  BY <1>1, <1>5 DEF ServiceInv, SinceOK, CacheOK, EntryOK

(* A prediction is stored by the pod that made it, which still has its model *)
(* in memory: its version is not gone yet, not for a tick.                   *)
LEMMA StoreStep ==
  ASSUME ServiceInv, NEW c \in Calls, Store(c)
  PROVE  ServiceInv'
<1> DEFINE r      == call[c]
           misses == Uncached(r.found)
           j      == r.stored + 1
           row    == r.rows[misses[j]]
<1>1. /\ r.pc = "store"
      /\ UNCHANGED <<loaded, redis, scan, since>>
  BY DEF Store
<1>2. Storing(r) /\ Serves(r)
  BY <1>1 DEF ServiceInv, CallsOK, CallOK, NoCall, Looking, Replying
<1>3. /\ r.rows \in Requests /\ r.rows \in Seq(Rows) /\ Len(r.rows) \in Nat
      /\ Len(r.found) = Len(r.rows) /\ r.stored \in Nat
      /\ Found(r.rows, r.found) /\ Scored(r.rows, r.found, r.preds, loaded[r.pod])
  BY <1>2, RequestRows DEF Storing, Scored
<1>4. misses \in Seq(1..Len(r.rows)) /\ \A i \in 1..Len(misses) : misses[i] \in 1..Len(r.rows)
  BY <1>3, UncachedRows
<1>5. Len(misses) \in Nat /\ r.stored < Len(misses)
  BY <1>2, <1>4 DEF Storing
<1>6. j \in 1..Len(misses) /\ j \in Nat
  <2> HIDE DEF misses
  <2> QED
    BY <1>3, <1>5
<1>7. row \in Rows
  BY <1>3, <1>4, <1>6
<1>8. /\ r.preds[j] = [row |-> row, version |-> loaded[r.pod]]
      /\ loaded[r.pod] \in Versions /\ since[loaded[r.pod]] = 0
  <2>1. r.preds[j] = [row |-> row, version |-> loaded[r.pod]]
    BY <1>3, <1>6 DEF Scored
  <2> QED
    BY <1>2, <2>1 DEF Serves, ServiceInv, SinceOK
<1>9. CacheOK'
  <2> DEFINE entry == [pred |-> r.preds[j], age |-> 0]
  <2>1. entry \in Entries /\ entry.pred.row = row /\ since[entry.pred.version] <= entry.age
    <3>1. 0 \in 0..TTL-1
      BY ServiceAssumption
    <3> HIDE DEF row, j
    <3>2. r.preds[j] \in Prediction
      BY <1>7, <1>8 DEF Prediction
    <3> QED
      BY <1>8, <3>1, <3>2 DEF Entries
  <2>2. CASE cache' = [cache EXCEPT ![row] = entry]
    <3> HIDE DEF entry, row
    <3> QED
      BY <1>1, <2>1, <2>2 DEF ServiceInv, CacheOK, EntryOK
  <2>3. CASE UNCHANGED cache
    BY <1>1, <2>3 DEF ServiceInv, CacheOK, EntryOK
  <2> QED
    BY <2>2, <2>3 DEF Store
<1>10. CallsOK'
  <2>1. CASE j < Len(misses) /\ Goto(c, [r EXCEPT !.stored = j])
    <3> DEFINE next == [r EXCEPT !.stored = j]
    <3>1. Storing(next) /\ Serves(next)
      <4> HIDE DEF j, misses
      <4>1. next \in [pc: {"store"}, kind: {"single", "batch"}, pod: Pods, rows: Requests,
                      found: Seq(Prediction \cup {None}), preds: Seq(Prediction), stored: Nat]
        BY <1>2, <1>6 DEF Storing
      <4>2. /\ next.rows = r.rows /\ next.found = r.found /\ next.preds = r.preds
            /\ next.pod = r.pod /\ next.stored = j
        BY <1>2 DEF Storing
      <4> QED
        BY <1>2, <1>3, <2>1, <4>1, <4>2 DEF Storing, Serves, misses
    <3> HIDE DEF next
    <3> QED
      BY <1>1, <2>1, <3>1, CallMoves DEF CallOK, next
  <2>2. CASE Answer(c, 200, Results(r.found, r.preds))
    <3> DEFINE next == [pc |-> "reply", pod |-> r.pod, rows |-> r.rows,
                        status |-> 200, results |-> Results(r.found, r.preds)]
    <3>1. /\ Len(Results(r.found, r.preds)) = Len(r.rows)
          /\ \A k \in 1..Len(r.rows) : Results(r.found, r.preds)[k].row = r.rows[k]
      BY <1>3, ResultsAreOwn
    <3>2. Replying(next) /\ Serves(next)
      BY <1>2, <3>1 DEF Replying, Serves, Statuses
    <3>3. Goto(c, next)
      BY <2>2 DEF Answer
    <3> HIDE DEF next
    <3> QED
      BY <1>1, <3>2, <3>3, CallMoves DEF CallOK
  <2> QED
    BY <2>1, <2>2 DEF Store
<1> QED
  BY <1>1, <1>9, <1>10 DEF ServiceInv, SinceOK

LEMMA ReplyStep ==
  ASSUME ServiceInv, NEW c \in Calls, Reply(c)
  PROVE  ServiceInv'
<1>1. Goto(c, NoCall) /\ UNCHANGED <<loaded, redis, cache, scan, since>>
  BY DEF Reply
<1>2. CallsOK'
  BY <1>1, CallMoves DEF CallOK
<1> QED
  BY <1>1, <1>2 DEF ServiceInv, SinceOK, CacheOK, EntryOK

-----------------------------------------------------------------------------
(* Invalidation, Redis, probes: whatever is forgotten is not wrong.          *)

LEMMA CallsStay ==
  ASSUME ServiceInv, UNCHANGED <<loaded, call>>
  PROVE  CallsOK'
BY DEF ServiceInv, CallsOK, CallOK, Serves, Looking, Storing, Replying

LEMMA CacheStep ==
  ASSUME ServiceInv,
         \/ StartInvalidate \/ (\E r \in Rows : DeleteKey(r)) \/ AbortInvalidate
         \/ RedisFails \/ RedisReturns
  PROVE  ServiceInv'
<1>1. UNCHANGED <<loaded, call, since>>
  BY DEF StartInvalidate, DeleteKey, AbortInvalidate, RedisFails, RedisReturns
<1>2. CallsOK' /\ SinceOK'
  BY <1>1, CallsStay DEF ServiceInv, SinceOK
<1>3. CacheOK'
  <2>1. CASE UNCHANGED cache
    BY <1>1, <2>1 DEF ServiceInv, CacheOK, EntryOK
  <2>2. CASE cache' = [r \in Rows |-> None]
    BY <1>1, <2>2 DEF CacheOK, EntryOK
  <2>3. CASE \E r \in Rows : DeleteKey(r)
    BY <1>1, <2>3 DEF DeleteKey, ServiceInv, CacheOK, EntryOK
  <2> QED
    BY <2>1, <2>2, <2>3 DEF StartInvalidate, AbortInvalidate, RedisFails, RedisReturns
<1>4. redis' \in BOOLEAN /\ scan' \subseteq Rows
  BY DEF StartInvalidate, DeleteKey, AbortInvalidate, RedisFails, RedisReturns, ServiceInv
<1> QED
  BY <1>1, <1>2, <1>3, <1>4 DEF ServiceInv

(* Time: an entry ages a tick, and its version is absent for at most one more. *)
LEMMA TickStep ==
  ASSUME ServiceInv, Tick
  PROVE  ServiceInv'
<1>1. /\ cache' = [r \in Rows |-> Expire(cache[r])]
      /\ since' = [v \in Versions |->
           IF v \in InMemory THEN 0 ELSE IF since[v] <= TTL THEN since[v] + 1 ELSE since[v]]
      /\ UNCHANGED <<loaded, redis, scan, call>>
  BY DEF Tick
<1>2. \A v \in Versions : since'[v] \in 0..TTL+1 /\ since'[v] <= since[v] + 1 /\ since[v] \in Nat
  <2> TAKE v \in Versions
  <2>1. since[v] \in 0..TTL+1 /\ TTL \in Nat
    BY ServiceAssumption DEF ServiceInv, SinceOK
  <2>2. since'[v] = IF v \in InMemory THEN 0 ELSE IF since[v] <= TTL THEN since[v] + 1 ELSE since[v]
    BY <1>1
  <2> QED
    BY <2>1, <2>2
<1>3. SinceOK'
  <2>1. since' \in [Versions -> 0..TTL+1]
    BY <1>1, <1>2
  <2>2. \A p \in Pods : loaded[p] \in Versions => loaded[p] \in InMemory
    BY ServiceAssumption DEF InMemory
  <2> QED
    BY <1>1, <2>1, <2>2 DEF SinceOK
<1>4. CacheOK'
  <2> SUFFICES ASSUME NEW r \in Rows PROVE EntryOK(r, cache[r])'
    BY <1>1 DEF CacheOK
  <2>1. EntryOK(r, cache[r]) /\ cache'[r] = Expire(cache[r])
    BY <1>1 DEF ServiceInv, CacheOK
  <2>2. CASE cache[r] = None \/ cache[r].age + 1 >= TTL
    BY <2>1, <2>2 DEF EntryOK, Expire
  <2>3. CASE ~(cache[r] = None \/ cache[r].age + 1 >= TTL)
    <3> DEFINE e == cache[r]
    <3>1. /\ e \in Entries /\ e.pred.row = r /\ since[e.pred.version] <= e.age
          /\ e.age \in 0..TTL-1 /\ e.pred \in Prediction
      BY <2>1, <2>3 DEF EntryOK, Entries
    <3>2. e.age + 1 \in 0..TTL-1
      BY <2>3, <3>1, ServiceAssumption
    <3>3. cache'[r] = [e EXCEPT !.age = @ + 1]
      BY <2>1, <2>3 DEF Expire
    <3> HIDE DEF e
    <3>4. cache'[r] \in Entries /\ cache'[r].pred = e.pred /\ cache'[r].age = e.age + 1
      BY <3>1, <3>2, <3>3 DEF Entries
    <3>5. e.pred.version \in Versions
      BY <3>1 DEF Prediction
    <3>6. since'[e.pred.version] <= e.age + 1
      BY <1>2, <3>1, <3>5
    <3> QED
      BY <3>1, <3>4, <3>6 DEF EntryOK
  <2> QED
    BY <2>2, <2>3
<1>5. CallsOK'
  BY <1>1, CallsStay
<1> QED
  BY <1>1, <1>3, <1>4, <1>5 DEF ServiceInv

(* A restart takes the calls of its pod with it: nobody is left to store     *)
(* what the version that goes away has made.                                 *)
LEMMA RestartStep ==
  ASSUME ServiceInv, NEW p \in Pods, NEW v \in Versions \cup {None}, Restart(p, v)
  PROVE  ServiceInv'
<1>1. /\ loaded' = [loaded EXCEPT ![p] = v]
      /\ call' = [c \in Calls |-> IF call[c] # NoCall /\ call[c].pod = p THEN NoCall ELSE call[c]]
      /\ since' = [w \in Versions |-> IF w \in {loaded[p], v} THEN 0 ELSE since[w]]
      /\ UNCHANGED <<redis, cache, scan>>
  BY DEF Restart
<1>2. loaded' \in [Pods -> Versions \cup {None}]
  BY <1>1 DEF ServiceInv
<1>3. \A q \in Pods : loaded'[q] = IF q = p THEN v ELSE loaded[q]
  BY <1>1 DEF ServiceInv
<1>4. \A w \in Versions : since[w] \in Nat /\ since'[w] \in 0..TTL+1 /\ since'[w] <= since[w]
  <2> TAKE w \in Versions
  <2>1. since[w] \in 0..TTL+1 /\ TTL \in Nat
    BY ServiceAssumption DEF ServiceInv, SinceOK
  <2>2. since'[w] = IF w \in {loaded[p], v} THEN 0 ELSE since[w]
    BY <1>1
  <2> QED
    BY <2>1, <2>2
<1>5. SinceOK'
  <2>1. since' \in [Versions -> 0..TTL+1]
    BY <1>1, <1>4
  <2>2. \A q \in Pods : loaded'[q] \in Versions => since'[loaded'[q]] = 0
    BY <1>1, <1>3 DEF ServiceInv, SinceOK
  <2> QED
    BY <2>1, <2>2 DEF SinceOK
<1>6. CacheOK'
  <2> SUFFICES ASSUME NEW r \in Rows, cache[r] # None PROVE EntryOK(r, cache[r])'
    BY <1>1 DEF ServiceInv, CacheOK, EntryOK
  <2>1. /\ cache[r] \in Entries /\ cache[r].pred.row = r
        /\ since[cache[r].pred.version] <= cache[r].age
    BY DEF ServiceInv, CacheOK, EntryOK
  <2>2. cache[r].pred.version \in Versions /\ cache[r].age \in Nat
    BY <2>1, ServiceAssumption DEF Entries, Prediction
  <2>3. since'[cache[r].pred.version] <= cache[r].age
    BY <1>4, <2>1, <2>2
  <2> QED
    BY <1>1, <2>1, <2>3 DEF EntryOK
<1>7. CallsOK'
  <2> SUFFICES ASSUME NEW c \in Calls PROVE CallOK(call[c])'
    BY <1>1 DEF CallsOK
  <2>1. CallOK(call[c]) /\ call'[c] = IF call[c] # NoCall /\ call[c].pod = p THEN NoCall ELSE call[c]
    BY <1>1 DEF ServiceInv, CallsOK
  <2>2. CASE call'[c] = NoCall
    BY <2>2 DEF CallOK
  <2>3. CASE call[c] # NoCall /\ call[c].pod # p /\ call'[c] = call[c]
    <3>1. Serves(call[c]) /\ loaded'[call[c].pod] = loaded[call[c].pod]
      BY <1>3, <2>1, <2>3 DEF CallOK, Serves
    <3> QED
      BY <2>1, <2>3, <3>1 DEF CallOK, Serves, Looking, Storing, Replying
  <2> QED
    BY <2>1, <2>2, <2>3
<1> QED
  BY <1>1, <1>2, <1>5, <1>6, <1>7 DEF ServiceInv

-----------------------------------------------------------------------------
LEMMA ServiceStep == ServiceInv /\ [Next]_vars => ServiceInv'
<1> SUFFICES ASSUME ServiceInv, [Next]_vars PROVE ServiceInv'
  OBVIOUS
<1>1. ASSUME NEW c \in Calls, NEW p \in Pods, NEW kind \in {"single", "batch"},
             NEW rows \in Requests, Receive(c, p, kind, rows)
      PROVE  ServiceInv'
  BY <1>1, ReceiveStep
<1>2. ASSUME NEW c \in Calls, CallStep(c) PROVE ServiceInv'
  BY <1>2, LookupStep, StoreStep, ReplyStep DEF CallStep
<1>3. CASE \/ StartInvalidate \/ (\E r \in Rows : DeleteKey(r)) \/ AbortInvalidate
           \/ RedisFails \/ RedisReturns
  BY <1>3, CacheStep
<1>4. CASE Tick
  BY <1>4, TickStep
<1>5. ASSUME NEW p \in Pods, NEW v \in Versions \cup {None}, Restart(p, v) PROVE ServiceInv'
  BY <1>5, RestartStep
<1>6. CASE UNCHANGED vars
  BY <1>6, CallsStay DEF vars, ServiceInv, SinceOK, CacheOK, EntryOK
<1> QED
  BY <1>1, <1>2, <1>3, <1>4, <1>5, <1>6 DEF Next

LEMMA ServiceHolds == Spec => []ServiceInv
BY InitService, ServiceStep, PTL DEF Spec

(* Every variable keeps its type.                                            *)
THEOREM ServiceTypes == Spec => []TypeOK
<1>1. ServiceInv => TypeOK
  <2> SUFFICES ASSUME ServiceInv PROVE TypeOK
    OBVIOUS
  <2>1. \A c \in Calls : call[c] # NoCall =>
          /\ call[c].pc \in {"lookup", "store", "reply"}
          /\ call[c].pod \in Pods
          /\ call[c].rows \in Requests
          /\ call[c].pc = "reply" => call[c].status \in Statuses
    <3> SUFFICES ASSUME NEW c \in Calls, call[c] # NoCall
                 PROVE  /\ call[c].pc \in {"lookup", "store", "reply"}
                        /\ call[c].pod \in Pods
                        /\ call[c].rows \in Requests
                        /\ call[c].pc = "reply" => call[c].status \in Statuses
      OBVIOUS
    <3>1. Serves(call[c]) /\ (Looking(call[c]) \/ Storing(call[c]) \/ Replying(call[c]))
      BY DEF ServiceInv, CallsOK, CallOK
    <3> QED
      BY <3>1 DEF Serves, Looking, Storing, Replying
  <2>2. \A r \in Rows : cache[r] = None \/ cache[r] \in Entries
    BY DEF ServiceInv, CacheOK, EntryOK
  <2> QED
    BY <2>1, <2>2 DEF ServiceInv, SinceOK, TypeOK
<1> QED
  BY <1>1, ServiceHolds, PTL

(* Every 200 answers each row of its request with a prediction for that row, *)
(* for batches of any length and any mix of hits and misses.                 *)
THEOREM EachRowIsAnswered == Spec => []AnswersTheRow
<1>1. ServiceInv => AnswersTheRow
  <2> SUFFICES ASSUME ServiceInv, NEW c \in Calls, call[c].pc = "reply", call[c].status = 200
               PROVE  /\ Len(call[c].results) = Len(call[c].rows)
                      /\ \A k \in 1..Len(call[c].rows) : call[c].results[k].row = call[c].rows[k]
    BY DEF AnswersTheRow
  <2>1. Replying(call[c])
    BY DEF ServiceInv, CallsOK, CallOK, NoCall, Looking, Storing
  <2> QED
    BY <2>1 DEF Replying
<1> QED
  BY <1>1, ServiceHolds, PTL

(* No cached prediction outlives, by a TTL, the last pod that ran the model  *)
(* that made it, for any number of pods and any interleaving of restarts.    *)
THEOREM WithdrawnModelsExpire == Spec => []WithdrawnModelExpires
<1>1. ServiceInv => WithdrawnModelExpires
  <2> SUFFICES ASSUME ServiceInv, NEW r \in Rows, cache[r] # None
               PROVE  since[cache[r].pred.version] <= cache[r].age /\ cache[r].age < TTL
    BY DEF WithdrawnModelExpires
  <2>1. EntryOK(r, cache[r])
    BY DEF ServiceInv, CacheOK
  <2> QED
    BY <2>1, ServiceAssumption DEF EntryOK, Entries
<1> QED
  BY <1>1, ServiceHolds, PTL
=============================================================================
