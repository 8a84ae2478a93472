--------------------------- MODULE MCDriftMonitor ---------------------------
(* DriftMonitor for TLC: reports just below and just at a threshold. *)
EXTENDS DriftMonitor, TLC

Few   == [critical |-> 0, shifts |-> 3, others |-> 1]
Shift == [critical |-> 0, shifts |-> 4, others |-> 0]

FewOrShift == {Few, Shift}
=============================================================================
