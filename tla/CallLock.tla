------------------------------ MODULE CallLock ------------------------------
(***************************************************************************)
(* The per-call processing lock of src/callqa/state.py: one row of the     *)
(* SQLite table `locks` for one call_id, and the processes (pids) that     *)
(* take it, find it stale, steal it and give it back.                      *)
(*                                                                         *)
(* Every statement the code sends to SQLite is one step, and so is every   *)
(* question it asks the operating system: between the INSERT that fails    *)
(* and the UPDATE that steals, any other process may run.  A process is a  *)
(* slot (host, pid); when it dies the slot may be handed to a new process. *)
(*                                                                         *)
(* Time is kept as ages, so it needs no bound on the run: Tick makes       *)
(* everything one unit older, and an age stops growing at Cap.             *)
(*                                                                         *)
(* NeverExpires, AnyRow and Unconditional are no part of the               *)
(* specification: each is the definition after it with a fault in it, and  *)
(* the properties are checked to notice the difference.                    *)
(***************************************************************************)
EXTENDS Integers, FiniteSets

CONSTANTS
    Proc,        \* slots: a pid on a host
    Host,        \* the machines (or containers) sharing the database
    HostOf,      \* [Proc -> Host]
    TTL,         \* LOCK_TTL_SECONDS, in ticks
    MaxBusy,     \* longest one attempt, or one processing, may last
    MaxCrash,    \* how many crashes the environment may cause
    Windows,     \* TRUE: started_after can tell a process's age
    Recycle,     \* TRUE: a dead slot may be given to a new process
    NoLock       \* the row is absent

ASSUME LockAssumption ==
    /\ HostOf \in [Proc -> Host]
    /\ TTL \in Nat \ {0}
    /\ MaxBusy \in Nat \ {0}
    /\ MaxCrash \in Nat
    /\ Windows \in BOOLEAN
    /\ Recycle \in BOOLEAN
    /\ NoLock \notin Proc \cup [owner : Proc, age : Nat]

VARIABLES
    lock,     \* the row: NoLock, or who wrote it and how long ago
    pc,       \* where each process is in acquire_lock / process_call
    seen,     \* pid and hostname read with the failed INSERT
    acq,      \* age of the row when `acquired_at` was computed
    byDeath,  \* stale_by_death
    lived,    \* age of the process now holding the slot
    busy,     \* how long this attempt, or this processing, has lasted
    crashes   \* crashes so far

vars == <<lock, pc, seen, acq, byDeath, lived, busy, crashes>>

Cap == TTL + 1
Age == 0..Cap
Older(a) == IF a < Cap THEN a + 1 ELSE a

Trying == {"read", "probe", "expire", "steal"}   \* inside acquire_lock
PC == {"dead", "idle", "held"} \cup Trying

Row == [owner : Proc, age : Age]
RowOf(p) == [owner |-> p, age |-> 0]

Alive(p) == pc[p] # "dead"

TypeOK ==
    /\ lock \in Row \cup {NoLock}
    /\ pc \in [Proc -> PC]
    /\ seen \in [Proc -> Proc]
    /\ acq \in [Proc -> Age]
    /\ byDeath \in [Proc -> BOOLEAN]
    /\ lived \in [Proc -> Age]
    /\ busy \in [Proc -> 0..MaxBusy]
    /\ crashes \in 0..MaxCrash

Init ==
    /\ lock = NoLock
    /\ pc = [p \in Proc |-> "idle"]
    /\ seen = [p \in Proc |-> p]
    /\ acq = [p \in Proc |-> 0]
    /\ byDeath = [p \in Proc |-> FALSE]
    /\ lived = [p \in Proc |-> 0]
    /\ busy = [p \in Proc |-> 0]
    /\ crashes = 0

-----------------------------------------------------------------------------
(* acquire_lock, statement by statement. *)

(* What an attempt has read is local to it: when it ends, nothing is left. *)
Forget(p) ==
    /\ seen' = [seen EXCEPT ![p] = p]
    /\ acq' = [acq EXCEPT ![p] = 0]
    /\ byDeath' = [byDeath EXCEPT ![p] = FALSE]
    /\ busy' = [busy EXCEPT ![p] = 0]

(* What _lock_age answers: the age of whatever row is there now, 0.0 when   *)
(* there is none.                                                           *)
LockAge == IF lock = NoLock THEN 0 ELSE lock.age

(* The INSERT succeeds only when there is no row: the primary key makes it  *)
(* atomic.                                                                  *)
TryInsert(p) ==
    /\ pc[p] = "idle"
    /\ lock = NoLock
    /\ lock' = RowOf(p)
    /\ pc' = [pc EXCEPT ![p] = "held"]
    /\ UNCHANGED <<seen, acq, byDeath, lived, busy, crashes>>

(* IntegrityError: the SELECT of pid and hostname runs in the transaction   *)
(* of the failed INSERT, so it finds the row that made it fail.             *)
InsertFails(p) ==
    /\ pc[p] = "idle"
    /\ lock # NoLock
    /\ seen' = [seen EXCEPT ![p] = lock.owner]
    /\ pc' = [pc EXCEPT ![p] = "read"]
    /\ UNCHANGED <<lock, acq, byDeath, lived, busy, crashes>>

(* acquired_at = time.time() - self._lock_age(call_id), in a transaction of *)
(* its own.                                                                 *)
ReadAcquiredAt(p) ==
    /\ pc[p] = "read"
    /\ acq' = [acq EXCEPT ![p] = LockAge]
    /\ pc' = [pc EXCEPT ![p] = "probe"]
    /\ UNCHANGED <<lock, seen, byDeath, lived, busy, crashes>>

(* started_after(pid, acquired_at): the process in that slot is younger     *)
(* than the lock, by more than the one second of slack (1 tick).            *)
StartedAfter(q, age) == Windows /\ Alive(q) /\ lived[q] < age - 1

DeadOwner(p) ==
    LET q == seen[p] IN
    /\ HostOf[q] = HostOf[p]
    /\ q # p
    /\ ~Alive(q) \/ StartedAfter(q, acq[p])

ProbeOwner(p) ==
    /\ pc[p] = "probe"
    /\ byDeath' = [byDeath EXCEPT ![p] = DeadOwner(p)]
    /\ acq' = [acq EXCEPT ![p] = 0]
    /\ pc' = [pc EXCEPT ![p] = "expire"]
    /\ UNCHANGED <<lock, seen, lived, busy, crashes>>

(* stale_by_age reads the age once more; neither kind of stale is           *)
(* CallLockedError and the attempt is over.                                 *)
NeverExpires == FALSE
Expired == LockAge > TTL

CheckExpiry(p) ==
    /\ pc[p] = "expire"
    /\ IF byDeath[p] \/ Expired
         THEN /\ pc' = [pc EXCEPT ![p] = "steal"]
              /\ UNCHANGED <<seen, acq, byDeath, busy>>
         ELSE /\ pc' = [pc EXCEPT ![p] = "idle"]
              /\ Forget(p)
    /\ UNCHANGED <<lock, lived, crashes>>

(* The conditional UPDATE: it changes the row only while the row still      *)
(* names the owner that was judged stale.  It does not look at acquired_at. *)
AnyRow(p) == lock # NoLock
RowStillSeen(p) == lock # NoLock /\ lock.owner = seen[p]

Steal(p) ==
    /\ pc[p] = "steal"
    /\ Forget(p)
    /\ IF RowStillSeen(p)
         THEN /\ lock' = RowOf(p)
              /\ pc' = [pc EXCEPT ![p] = "held"]
         ELSE /\ pc' = [pc EXCEPT ![p] = "idle"]
              /\ UNCHANGED lock
    /\ UNCHANGED <<lived, crashes>>

-----------------------------------------------------------------------------
(* release_lock: the DELETE names the caller's own pid and hostname. *)
Unconditional(p) == lock # NoLock
OwnRow(p) == lock # NoLock /\ lock.owner = p

Release(p) ==
    /\ pc[p] = "held"
    /\ lock' = IF OwnRow(p) THEN NoLock ELSE lock
    /\ pc' = [pc EXCEPT ![p] = "idle"]
    /\ busy' = [busy EXCEPT ![p] = 0]
    /\ UNCHANGED <<seen, acq, byDeath, lived, crashes>>

-----------------------------------------------------------------------------
(* The environment. *)

(* A process is killed at any point; its row, if it has one, stays. *)
Crash(p) ==
    /\ Alive(p)
    /\ crashes < MaxCrash
    /\ crashes' = crashes + 1
    /\ pc' = [pc EXCEPT ![p] = "dead"]
    /\ Forget(p)
    /\ UNCHANGED <<lock, lived>>

(* The operating system hands the slot of a dead process to a new one. *)
Respawn(p) ==
    /\ Recycle
    /\ ~Alive(p)
    /\ pc' = [pc EXCEPT ![p] = "idle"]
    /\ lived' = [lived EXCEPT ![p] = 0]
    /\ UNCHANGED <<lock, seen, acq, byDeath, busy, crashes>>

Busy(p) == pc[p] \in Trying \cup {"held"}

(* Time passes.  MaxBusy bounds what the rest of the program may take:      *)
(* a processing or an attempt at most that long.                            *)
Tick ==
    /\ \A p \in Proc : Busy(p) => busy[p] < MaxBusy
    /\ lock' = IF lock = NoLock THEN lock
               ELSE [lock EXCEPT !.age = Older(@)]
    /\ acq' = [p \in Proc |-> IF pc[p] = "probe" THEN Older(acq[p]) ELSE 0]
    /\ lived' = [p \in Proc |-> Older(lived[p])]
    /\ busy' = [p \in Proc |-> IF Busy(p) THEN busy[p] + 1 ELSE busy[p]]
    /\ UNCHANGED <<pc, seen, byDeath, crashes>>

Acquire(p) ==
    \/ TryInsert(p) \/ InsertFails(p) \/ ReadAcquiredAt(p)
    \/ ProbeOwner(p) \/ CheckExpiry(p) \/ Steal(p)

Next ==
    \/ \E p \in Proc : Acquire(p) \/ Release(p) \/ Crash(p) \/ Respawn(p)
    \/ Tick

Spec == Init /\ [][Next]_vars

(* The scheduling the code justifies: a process that has begun an attempt   *)
(* finishes it (no statement waits for another process), a processing ends  *)
(* (every call ends in an envelope), time passes, and one process, the      *)
(* watch loop, keeps coming back to the call and is started again when it   *)
(* dies.                                                                    *)
CONSTANT Watcher

ASSUME WatcherAssumption == Watcher \in Proc

Fairness ==
    /\ WF_vars(Tick)
    /\ WF_vars(TryInsert(Watcher) \/ InsertFails(Watcher))
    /\ WF_vars(Respawn(Watcher))
    /\ \A p \in Proc :
         /\ WF_vars(ReadAcquiredAt(p) \/ ProbeOwner(p)
                    \/ CheckExpiry(p) \/ Steal(p))
         /\ WF_vars(Release(p))

FairSpec == Spec /\ Fairness

-----------------------------------------------------------------------------
(* Properties. *)

Held(p) == pc[p] = "held"

(* No two processes process the call at the same time: what the lock is     *)
(* for (pipeline.py:9).  It holds when nothing outlives LOCK_TTL_SECONDS    *)
(* and no pid is reused.                                                    *)
MutualExclusion == \A p, q \in Proc : Held(p) /\ Held(q) => p = q

(* A row is removed only when the process it names finishes: a process      *)
(* whose lock was stolen while it was still working does not clear the new  *)
(* owner's lock (state.py:243-248).                                         *)
RemovedByItsWriter ==
    [][lock # NoLock /\ lock' = NoLock
         => Held(lock.owner) /\ pc'[lock.owner] = "idle"]_vars

(* A lock passes from one process to another only when the one it is taken  *)
(* from is not processing, or its row is older than the limit (state.py:    *)
(* 26-28, 193-197).                                                         *)
NoFreshTheft ==
    [][lock # NoLock /\ lock' # NoLock /\ lock'.owner # lock.owner
         => ~Held(lock.owner) \/ lock.age > TTL]_vars

(* A call does not stay locked for ever with nobody processing it, whatever *)
(* machine the dead owner was on (state.py:217-219).                        *)
Unblocked ==
    (lock # NoLock /\ \A p \in Proc : ~Held(p))
        ~> (lock = NoLock \/ \E p \in Proc : Held(p))

(* With nothing outliving the limit and no pid reused, the lock is the      *)
(* abstract one: whoever steals has inherited from a process that died.     *)
Holder == IF lock = NoLock THEN NoLock ELSE lock.owner
Up == {p \in Proc : Alive(p)}

Mutex == INSTANCE Mutex WITH Nobody <- NoLock, holder <- Holder, up <- Up

ImplementsMutex == Mutex!MutexSpec
=============================================================================
