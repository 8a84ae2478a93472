-------------------------- MODULE PredictionService --------------------------
(***************************************************************************)
(* The inference pods (main.py, predictor.py) and the Redis cache they     *)
(* share (cache.py).  Every await on Redis is a step; what a coroutine     *)
(* does between two awaits is one step with the await before it.           *)
(*                                                                         *)
(* A row stands for one (customer_id, features) pair: the cache key is a   *)
(* hash of both and of nothing else, so it does not name the model version *)
(* that scored the row.                                                    *)
(***************************************************************************)
EXTENDS Naturals, Sequences, FiniteSets, SequencesExt

CONSTANTS
  Pods, Calls, Rows, Versions,
  Requests,    \* the rows of the requests that are made: bound of the model
  None,        \* no version, or no cache entry
  Incomplete,  \* rows that lack a column the model expects
  MaxBatch,    \* rows in a batch request (500)
  TTL          \* ticks a cached prediction lives (300 s)

ASSUME ServiceAssumption ==
  /\ None \notin Versions
  /\ Incomplete \subseteq Rows
  /\ MaxBatch \in Nat \ {0}
  /\ Requests \subseteq BoundedSeq(Rows, MaxBatch) \ {<<>>}
  /\ TTL \in Nat \ {0}

VARIABLES
  loaded,      \* pod -> version in memory, None: the process is down
  redis,       \* Redis answers
  cache,       \* row -> the cached prediction and its age, or None
  scan,        \* rows an invalidation has yet to delete
  call,        \* call -> the request it works on
  since        \* history: ticks since some pod last had the version, capped

vars == <<loaded, redis, cache, scan, call, since>>

(* predict() and predict_batch(): the result carries the version that made it. *)
Prediction == [row: Rows, version: Versions]
Score(row, p) == [row |-> row, version |-> loaded[p]]

Entries == [pred: Prediction, age: 0..TTL-1]

NoCall == [pc |-> "idle"]

-----------------------------------------------------------------------------
(* Requests. *)

(* found: what the lookups so far returned, None for a miss. *)
Receive(c, p, kind, rows) ==
  /\ call[c].pc = "idle"
  /\ loaded[p] # None
  /\ kind = "single" => Len(rows) = 1
  /\ call' = [call EXCEPT ![c] =
       [pc |-> "lookup", kind |-> kind, pod |-> p, rows |-> rows,
        found |-> <<>>, preds |-> <<>>, stored |-> 0]]
  /\ UNCHANGED <<loaded, redis, cache, scan, since>>

(* uncached_indices: the j-th is the row at which the misses become j. *)
Misses(found, k) == {i \in 1..k : found[i] = None}

Uncached(found) ==
  [j \in 1..Cardinality(Misses(found, Len(found))) |->
     CHOOSE k \in 1..Len(found) : found[k] = None /\ Cardinality(Misses(found, k)) = j]

(* Where the k-th row finds its prediction: pred_idx counts the misses. *)
ResultAt(found, preds, k) ==
  IF found[k] # None THEN found[k]
  ELSE preds[Cardinality(Misses(found, k))]

Results(found, preds) == [k \in 1..Len(found) |-> ResultAt(found, preds, k)]

Goto(c, next) == call' = [call EXCEPT ![c] = next]

Answer(c, status, results) ==
  Goto(c, [pc |-> "reply", pod |-> call[c].pod, rows |-> call[c].rows,
           status |-> status, results |-> results])

(* After the last lookup, before the next await: score the misses.  predict()  *)
(* refuses an incomplete row with a ValueError, predict_batch() fills the hole *)
(* with NaN.  Either may raise, a ValueError or not, on a row the preprocessor *)
(* or the model does not take; /predict alone answers a ValueError with 422.   *)
ScoreMisses(c, found) ==
  LET rows     == call[c].rows
      uncached == Uncached(found)
      missing  == \E j \in 1..Len(uncached) : rows[uncached[j]] \in Incomplete
  IN  \/ /\ uncached = <<>>
         /\ Answer(c, 200, found)
      \/ /\ uncached # <<>>
         /\ call[c].kind = "single" => ~missing
         /\ Goto(c, [call[c] EXCEPT
              !.pc = "store", !.found = found,
              !.preds = [j \in 1..Len(uncached) |-> Score(rows[uncached[j]], call[c].pod)]])
      \/ /\ uncached # <<>>
         /\ \E status \in {422, 500} :
              /\ status = 422 => call[c].kind = "single"
              /\ status = 500 => ~(call[c].kind = "single" /\ missing)
              /\ Answer(c, status, <<>>)

(* get_cached_prediction of the next row: a hit, a miss, or an error (Redis  *)
(* down, timeout, pool exhausted), which reads as a miss.                    *)
Cached(row) == IF cache[row] = None THEN None ELSE cache[row].pred

NextFound(c, pred) ==
  LET found == Append(call[c].found, pred)
  IN  IF Len(found) < Len(call[c].rows)
      THEN Goto(c, [call[c] EXCEPT !.found = found])
      ELSE ScoreMisses(c, found)

MLookup(c) ==
  /\ call[c].pc = "lookup"
  /\ LET row == call[c].rows[Len(call[c].found) + 1]
     IN  \/ /\ redis /\ NextFound(c, Cached(row))
            /\ cache' = [cache EXCEPT ![row] = IF @ = None THEN None ELSE [@ EXCEPT !.age = 0]]
         \/ NextFound(c, None) /\ UNCHANGED cache
  /\ UNCHANGED <<loaded, redis, scan, since>>
Lookup(c) ==
  /\ call[c].pc = "lookup"
  /\ LET row == call[c].rows[Len(call[c].found) + 1]
     IN  \/ redis /\ NextFound(c, Cached(row))
         \/ NextFound(c, None)
  /\ UNCHANGED <<loaded, redis, cache, scan, since>>

MStore(c) ==
  /\ call[c].pc = "store"
  /\ \E d \in Calls :
       LET misses == Uncached(call[c].found)
           j      == call[c].stored + 1
           row    == call[c].rows[misses[j]]
       IN  /\ call[d].pc = "store" /\ call[d].pod = call[c].pod
           /\ j <= Len(call[d].preds)
           /\ \/ redis /\ cache' = [cache EXCEPT ![row] = [pred |-> call[d].preds[j], age |-> 0]]
              \/ UNCHANGED cache
           /\ IF j < Len(misses)
              THEN Goto(c, [call[c] EXCEPT !.stored = j])
              ELSE Answer(c, 200, Results(call[c].found, call[c].preds))
  /\ UNCHANGED <<loaded, redis, scan, since>>
(* set_cached_prediction of the next uncached row, or its logged failure. *)
Store(c) ==
  /\ call[c].pc = "store"
  /\ LET misses == Uncached(call[c].found)
         j      == call[c].stored + 1
         row    == call[c].rows[misses[j]]
     IN  /\ \/ redis /\ cache' = [cache EXCEPT ![row] = [pred |-> call[c].preds[j], age |-> 0]]
            \/ UNCHANGED cache
         /\ IF j < Len(misses)
            THEN Goto(c, [call[c] EXCEPT !.stored = j])
            ELSE Answer(c, 200, Results(call[c].found, call[c].preds))
  /\ UNCHANGED <<loaded, redis, scan, since>>

(* The response leaves the pod. *)
Reply(c) ==
  /\ call[c].pc = "reply"
  /\ Goto(c, NoCall)
  /\ UNCHANGED <<loaded, redis, cache, scan, since>>

-----------------------------------------------------------------------------
(* DELETE /cache/{customer_id}: it scans every customer's keys. *)
StartInvalidate ==
  /\ redis
  /\ scan = {}
  /\ scan' = {r \in Rows : cache[r] # None}
  /\ UNCHANGED <<loaded, redis, cache, call, since>>

DeleteKey(r) ==
  /\ redis
  /\ r \in scan
  /\ cache' = [cache EXCEPT ![r] = None]
  /\ scan' = scan \ {r}
  /\ UNCHANGED <<loaded, redis, call, since>>

(* An error on the way: what was deleted stays deleted, 0 is returned. *)
AbortInvalidate ==
  /\ scan # {}
  /\ scan' = {}
  /\ UNCHANGED <<loaded, redis, cache, call, since>>

-----------------------------------------------------------------------------
(* The surroundings: Redis, time, releases, restarts. *)

RedisFails ==
  /\ redis
  /\ redis' = FALSE
  /\ UNCHANGED <<loaded, cache, scan, call, since>>

(* Back with its keys, or empty. *)
RedisReturns ==
  /\ ~redis
  /\ redis' = TRUE
  /\ cache' \in {cache, [r \in Rows |-> None]}
  /\ UNCHANGED <<loaded, scan, call, since>>

(* SETEX: an entry lives TTL ticks from the moment it was stored. *)
MExpire(entry) ==
  IF entry = None \/ entry.age + 1 > TTL THEN None ELSE [entry EXCEPT !.age = @ + 1]
Expire(entry) ==
  IF entry = None \/ entry.age + 1 >= TTL THEN None ELSE [entry EXCEPT !.age = @ + 1]

InMemory == {loaded[p] : p \in Pods} \ {None}

Tick ==
  /\ cache' = [r \in Rows |-> Expire(cache[r])]
  /\ since' = [v \in Versions |->
       IF v \in InMemory THEN 0 ELSE IF since[v] <= TTL THEN since[v] + 1 ELSE since[v]]
  /\ UNCHANGED <<loaded, redis, scan, call>>

(* The pod goes down with its calls, and load_model() runs in its successor *)
(* with the Production version of that moment; without one it stays down.   *)
Restart(p, v) ==
  /\ loaded' = [loaded EXCEPT ![p] = v]
  /\ call' = [c \in Calls |->
       IF call[c] # NoCall /\ call[c].pod = p THEN NoCall ELSE call[c]]
  /\ since' = [w \in Versions |-> IF w \in {loaded[p], v} THEN 0 ELSE since[w]]
  /\ UNCHANGED <<redis, cache, scan>>

-----------------------------------------------------------------------------
Init ==
  /\ loaded = [p \in Pods |-> None]
  /\ redis = TRUE
  /\ cache = [r \in Rows |-> None]
  /\ scan = {}
  /\ call = [c \in Calls |-> NoCall]
  /\ since = [v \in Versions |-> TTL + 1]

CallStep(c) == Lookup(c) \/ Store(c) \/ Reply(c)

Next ==
  \/ \E c \in Calls, p \in Pods, kind \in {"single", "batch"}, rows \in Requests :
       Receive(c, p, kind, rows)
  \/ \E c \in Calls : CallStep(c)
  \/ StartInvalidate
  \/ \E r \in Rows : DeleteKey(r)
  \/ AbortInvalidate
  \/ RedisFails
  \/ RedisReturns
  \/ Tick
  \/ \E p \in Pods, v \in Versions \cup {None} : Restart(p, v)

Spec == Init /\ [][Next]_vars

-----------------------------------------------------------------------------
Statuses == {200, 422, 500}

(* Type correctness. *)
TypeOK ==
  /\ loaded \in [Pods -> Versions \cup {None}]
  /\ redis \in BOOLEAN
  /\ \A r \in Rows : cache[r] = None \/ cache[r] \in Entries
  /\ scan \subseteq Rows
  /\ \A c \in Calls : call[c] # NoCall =>
       /\ call[c].pc \in {"lookup", "store", "reply"}
       /\ call[c].pod \in Pods
       /\ call[c].rows \in Requests
       /\ call[c].pc = "reply" => call[c].status \in Statuses
  /\ since \in [Versions -> 0..TTL+1]

(* Every 200 answers each row with a prediction for that very row, whatever *)
(* mix of hits and misses the batch had and whatever keys expired, were     *)
(* deleted or were stored by other calls, on this pod or another, between   *)
(* its lookups and while its own predictions are stored.                    *)
AnswersTheRow ==
  \A c \in Calls : call[c].pc = "reply" /\ call[c].status = 200 =>
    /\ Len(call[c].results) = Len(call[c].rows)
    /\ \A k \in 1..Len(call[c].rows) : call[c].results[k].row = call[c].rows[k]

(* A cached prediction is never served longer than TTL after the last pod   *)
(* that ran its model version went away: the key does not name the version, *)
(* so this is all that keeps a withdrawn model out of the answers.          *)
WithdrawnModelExpires ==
  \A r \in Rows : cache[r] # None =>
    /\ since[cache[r].pred.version] <= cache[r].age
    /\ cache[r].age < TTL

=============================================================================
