------------------------- MODULE MCPredictionService -------------------------
(* PredictionService for TLC: two pods, two calls at once, two rows of which *)
(* one is incomplete, single predictions of either and a batch of both.      *)
EXTENDS PredictionService, TLC

CONSTANTS full, partial

TwoRows == {full, partial}
Asked   == {<<full>>, <<partial>>, <<full, partial>>}

Interchangeable ==
  Permutations(Pods) \cup Permutations(Calls) \cup Permutations(Versions)
=============================================================================
