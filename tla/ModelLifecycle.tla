--------------------------- MODULE ModelLifecycle ---------------------------
(***************************************************************************)
(* What the release scripts promise, without their mechanism: a version is *)
(* approved by a canary before it ever goes live, versions go live one at  *)
(* a time, and the live set otherwise only shrinks.  ModelRelease is shown *)
(* to implement this module.                                               *)
(***************************************************************************)

CONSTANT Versions  \* the versions the registry can hold

VARIABLES
  approved,  \* versions whose canary window ended without a breach
  live       \* versions the registry calls Production

vars == <<approved, live>>

Init ==
  /\ approved = {}
  /\ live = {}

(* A canary window ends well. *)
Approve(v) ==
  /\ approved' = approved \cup {v}
  /\ UNCHANGED live

(* A promotion: the approved version replaces whatever was live. *)
Replace(v) ==
  /\ v \in approved
  /\ live' = {v}
  /\ UNCHANGED approved

(* A rollback brings back a version that was approved before. *)
Reinstate(v) ==
  /\ v \in approved
  /\ live' = live \cup {v}
  /\ UNCHANGED approved

(* A rollback takes a version away. *)
Withdraw(v) ==
  /\ live' = live \ {v}
  /\ UNCHANGED approved

Next == \E v \in Versions : Approve(v) \/ Replace(v) \/ Reinstate(v) \/ Withdraw(v)

Spec == Init /\ [][Next]_vars

=============================================================================
