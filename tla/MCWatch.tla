------------------------------ MODULE MCWatch ------------------------------
(* Model-checking instances of Watch.  Init names the recordings in every   *)
(* possible way, so the two have one name in some behaviours and a name     *)
(* each in others.                                                          *)
EXTENDS Watch, TLC

CONSTANTS r1, r2
=============================================================================
