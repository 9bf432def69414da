----------------------------- MODULE MCCallLock -----------------------------
(* Model-checking instances of CallLock: two slots on one machine and one   *)
(* on another that shares the database.                                     *)
EXTENDS CallLock, TLC

CONSTANTS p1, p2, p3, h1, h2

MCHostOf == p1 :> h1 @@ p2 :> h1 @@ p3 :> h2

PairHostOf == p1 :> h1 @@ p2 :> h2

OneHost == [p \in Proc |-> h1]
=============================================================================
