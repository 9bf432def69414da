----------------------------- MODULE Mutex --------------------------------
(***************************************************************************)
(* What a lock promises, without its rows or files, ages and pids: the     *)
(* work has at most one holder; it passes on when the holder gives it up,  *)
(* and is inherited only from a holder that has died.                      *)
(***************************************************************************)
CONSTANTS Proc, Nobody

VARIABLES
    holder,   \* who has the work, or Nobody
    up        \* the processes that are alive

mutexVars == <<holder, up>>

MutexInit == holder = Nobody /\ up = Proc

Take(p) == p \in up /\ holder = Nobody /\ holder' = p /\ UNCHANGED up

Give(p) == p \in up /\ holder = p /\ holder' = Nobody /\ UNCHANGED up

Inherit(p) ==
    /\ p \in up
    /\ holder \in Proc \ up
    /\ holder' = p
    /\ UNCHANGED up

Die(p) == p \in up /\ up' = up \ {p} /\ UNCHANGED holder

MutexNext == \E p \in Proc : Take(p) \/ Give(p) \/ Inherit(p) \/ Die(p)

MutexSpec == MutexInit /\ [][MutexNext]_mutexVars
=============================================================================
