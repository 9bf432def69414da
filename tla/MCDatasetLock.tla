--------------------------- MODULE MCDatasetLock ---------------------------
(* Model-checking instances of DatasetLock: two commands on one dataset,   *)
(* on a machine with three pids.                                           *)
EXTENDS DatasetLock, TLC

CONSTANTS c1, c2
=============================================================================
