---------------------------- MODULE EventDelivery ----------------------------
(***************************************************************************)
(* What the ingestion promises of an event, without batches, retries,      *)
(* partitions or clocks: once it was accepted it waits, or is set aside    *)
(* where an operator finds it, or is in the curated table; and there it    *)
(* stays.  EventIngest implements it.                                      *)
(***************************************************************************)
CONSTANT Events

VARIABLES
  status,    \* event -> where it is
  accepted   \* events whose sender was told that they are published

Statuses == {"source", "pending", "aside", "curated"}

Init ==
  /\ status = [e \in Events |-> "source"]
  /\ accepted = {}

Becomes(S, s) == status' = [e \in Events |-> IF e \in S THEN s ELSE status[e]]

(* Senders repeat what they are not sure of, and may send an event that was *)
(* set aside, or is in the table, once more; what is in the table is known. *)
Send(stored, told) ==
  /\ told \subseteq stored
  /\ accepted' = accepted \cup told
  /\ Becomes({e \in stored : status[e] # "curated"}, "pending")

SetAside(S) ==
  /\ UNCHANGED accepted
  /\ \A e \in S : status[e] = "pending"
  /\ Becomes(S, "aside")

Curate(S) ==
  /\ UNCHANGED accepted
  /\ \A e \in S : status[e] = "pending"
  /\ Becomes(S, "curated")

Next ==
  \/ \E S \in SUBSET Events : SetAside(S) \/ Curate(S)
  \/ \E stored, told \in SUBSET Events : Send(stored, told)

Spec == Init /\ [][Next]_<<status, accepted>>
=============================================================================
