---------------------------- MODULE MCEventIngest ----------------------------
(* EventIngest for TLC: an event of the producer and one of a webhook caller, *)
(* two-tick days, two daily runs.                                              *)
EXTENDS EventIngest

=============================================================================
