--------------------------- MODULE MCModelRelease ---------------------------
(* ModelRelease for TLC: versions are numbered by the registry. *)
EXTENDS ModelRelease

TwoVersions == 1..2
=============================================================================
