--------------------------- MODULE CallLockProofs ---------------------------
(***************************************************************************)
(* Proofs about CallLock, for any processes, machines, limits and number   *)
(* of crashes.                                                             *)
(***************************************************************************)
EXTENDS CallLock, TLAPS

(* The circumstances the lock relies on: no pid is given to a new process,  *)
(* and no attempt and no processing outlives LOCK_TTL_SECONDS.              *)
Prompt == ~Recycle /\ MaxBusy <= TTL

-----------------------------------------------------------------------------
(* Types. *)

LEMMA Numbers ==
    /\ TTL \in Nat /\ MaxBusy \in Nat /\ MaxCrash \in Nat
    /\ 0 \in Age /\ 0 \in 0..MaxBusy
    /\ Cap = TTL + 1 /\ Age = 0..(TTL + 1)
BY LockAssumption DEF Cap, Age

LEMMA Ages == \A a \in Age : Older(a) \in Age
BY Numbers DEF Older

LEMMA RowTypes == \A p \in Proc : RowOf(p) \in Row /\ RowOf(p) # NoLock
BY Numbers, LockAssumption DEF RowOf, Row, Age

LEMMA ForgetTypes ==
    ASSUME TypeOK, NEW p \in Proc, Forget(p)
    PROVE  /\ seen' \in [Proc -> Proc] /\ acq' \in [Proc -> Age]
           /\ byDeath' \in [Proc -> BOOLEAN] /\ busy' \in [Proc -> 0..MaxBusy]
BY Numbers DEF TypeOK, Forget

(* Every variable keeps its type. *)
THEOREM Typing == Spec => []TypeOK
<1>1. Init => TypeOK
  BY Numbers DEF Init, TypeOK, PC
<1>2. TypeOK /\ [Next]_vars => TypeOK'
  <2> SUFFICES ASSUME TypeOK, [Next]_vars
               PROVE  TypeOK'
    OBVIOUS
  <2>1. ASSUME NEW p \in Proc, TryInsert(p)
        PROVE  TypeOK'
    BY <2>1, RowTypes DEF TryInsert, TypeOK, PC
  <2>2. ASSUME NEW p \in Proc, InsertFails(p)
        PROVE  TypeOK'
    BY <2>2 DEF InsertFails, TypeOK, PC, Trying, Row
  <2>3. ASSUME NEW p \in Proc, ReadAcquiredAt(p)
        PROVE  TypeOK'
    <3>1. LockAge \in Age
      BY Numbers DEF LockAge, TypeOK, Row
    <3>2. QED
      BY <2>3, <3>1 DEF ReadAcquiredAt, TypeOK, PC, Trying
  <2>4. ASSUME NEW p \in Proc, ProbeOwner(p)
        PROVE  TypeOK'
    <3>1. DeadOwner(p) \in BOOLEAN
      BY Zenon DEF DeadOwner
    <3>2. QED
      BY <2>4, <3>1, Numbers DEF ProbeOwner, TypeOK, PC, Trying
  <2>5. ASSUME NEW p \in Proc, CheckExpiry(p)
        PROVE  TypeOK'
    <3>1. CASE byDeath[p] \/ Expired
      BY <2>5, <3>1 DEF CheckExpiry, TypeOK, PC, Trying
    <3>2. CASE ~(byDeath[p] \/ Expired)
      BY <2>5, <3>2, ForgetTypes DEF CheckExpiry, TypeOK, PC
    <3>3. QED
      BY <3>1, <3>2
  <2>6. ASSUME NEW p \in Proc, Steal(p)
        PROVE  TypeOK'
    BY <2>6, ForgetTypes, RowTypes DEF Steal, TypeOK, PC
  <2>7. ASSUME NEW p \in Proc, Release(p)
        PROVE  TypeOK'
    BY <2>7, Numbers DEF Release, TypeOK, PC
  <2>8. ASSUME NEW p \in Proc, Crash(p)
        PROVE  TypeOK'
    BY <2>8, ForgetTypes, Numbers DEF Crash, TypeOK, PC
  <2>9. ASSUME NEW p \in Proc, Respawn(p)
        PROVE  TypeOK'
    BY <2>9, Numbers DEF Respawn, TypeOK, PC
  <2>10. CASE Tick
    <3>1. lock' \in Row \cup {NoLock}
      BY <2>10, Ages DEF Tick, TypeOK, Row
    <3>2. acq' \in [Proc -> Age] /\ lived' \in [Proc -> Age]
      BY <2>10, Ages, Numbers DEF Tick, TypeOK
    <3>3. busy' \in [Proc -> 0..MaxBusy]
      BY <2>10, Numbers DEF Tick, TypeOK
    <3>4. QED
      BY <2>10, <3>1, <3>2, <3>3 DEF Tick, TypeOK
  <2>11. CASE UNCHANGED vars
    BY <2>11 DEF vars, TypeOK
  <2>12. QED
    BY <2>1, <2>2, <2>3, <2>4, <2>5, <2>6, <2>7, <2>8, <2>9, <2>10, <2>11
    DEF Next, Acquire
<1>3. QED
  BY <1>1, <1>2, PTL DEF Spec

-----------------------------------------------------------------------------
(* Why it is exclusive.                                                    *)
(*                                                                         *)
(* MutualExclusion says nothing of a process about to steal.  What makes   *)
(* its UPDATE safe is that the owner it judged stale is dead (Judged), and *)
(* a dead owner's name never comes back into the row.  For the age limit   *)
(* that takes one more fact: a row older than the attempt itself is the    *)
(* row the attempt first saw (SameRow).                                    *)

HolderHasRow == \A p \in Proc : Held(p) => lock # NoLock /\ lock.owner = p

OwnerHolds ==
    lock # NoLock /\ Alive(lock.owner)
        => /\ Held(lock.owner)
           /\ busy[lock.owner] = lock.age
           /\ lock.age <= lived[lock.owner]

IdleIsFresh == \A p \in Proc : pc[p] = "idle" => busy[p] = 0

SameRow ==
    \A p \in Proc : pc[p] \in Trying /\ lock # NoLock /\ busy[p] < lock.age
        => lock.owner = seen[p]

SeenIsOlder ==
    \A p \in Proc : pc[p] \in Trying /\ Alive(seen[p])
        => /\ busy[p] <= lived[seen[p]]
           /\ pc[p] = "probe" => acq[p] <= lived[seen[p]]

Judged ==
    \A p \in Proc : (pc[p] = "expire" /\ byDeath[p]) \/ pc[p] = "steal"
        => ~Alive(seen[p])

LInv ==
    /\ TypeOK
    /\ HolderHasRow /\ OwnerHolds /\ IdleIsFresh
    /\ SameRow /\ SeenIsOlder /\ Judged

LEMMA ExclusiveInit == Init => LInv
<1> SUFFICES ASSUME Init
             PROVE  LInv
  OBVIOUS
<1>1. TypeOK
  BY Numbers DEF Init, TypeOK, PC
<1>2. QED
  BY <1>1 DEF Init, LInv, HolderHasRow, OwnerHolds, IdleIsFresh, SameRow,
              SeenIsOlder, Judged, Held, Trying

(* Types of the pieces the steps below compare. *)
LEMMA Pieces ==
    ASSUME LInv
    PROVE  /\ lock # NoLock => lock.owner \in Proc /\ lock.age \in 0..(TTL + 1)
           /\ \A p \in Proc : /\ busy[p] \in 0..MaxBusy
                              /\ lived[p] \in 0..(TTL + 1)
                              /\ acq[p] \in 0..(TTL + 1)
                              /\ seen[p] \in Proc
           /\ DOMAIN pc = Proc /\ DOMAIN busy = Proc /\ DOMAIN seen = Proc
           /\ DOMAIN acq = Proc /\ DOMAIN lived = Proc /\ DOMAIN byDeath = Proc
BY Numbers DEF LInv, TypeOK, Row

LEMMA ExclusiveTryInsert ==
    ASSUME LInv, NEW p \in Proc, TryInsert(p)
    PROVE  (HolderHasRow /\ OwnerHolds /\ IdleIsFresh /\ SameRow
              /\ SeenIsOlder /\ Judged)'
<1>1. /\ lock' # NoLock /\ lock'.owner = p /\ lock'.age = 0
      /\ \A q \in Proc : pc'[q] = IF q = p THEN "held" ELSE pc[q]
      /\ UNCHANGED <<busy, seen, acq, lived, byDeath>>
  BY RowTypes, Pieces DEF TryInsert, RowOf
<1>2. \A q \in Proc : ~Held(q)
  BY DEF TryInsert, LInv, HolderHasRow
<1>3. busy[p] = 0
  BY DEF TryInsert, LInv, IdleIsFresh
<1>4. HolderHasRow' /\ OwnerHolds'
  BY <1>1, <1>2, <1>3, Pieces DEF HolderHasRow, OwnerHolds, Held, Alive
<1>5. IdleIsFresh' /\ SameRow'
  BY <1>1, Pieces DEF LInv, IdleIsFresh, SameRow, Trying
<1>6. SeenIsOlder' /\ Judged'
  BY <1>1, Pieces DEF TryInsert, LInv, SeenIsOlder, Judged, Alive, Trying
<1>7. QED
  BY <1>4, <1>5, <1>6

LEMMA ExclusiveInsertFails ==
    ASSUME LInv, NEW p \in Proc, InsertFails(p)
    PROVE  (HolderHasRow /\ OwnerHolds /\ IdleIsFresh /\ SameRow
              /\ SeenIsOlder /\ Judged)'
<1>1. /\ lock # NoLock
      /\ \A q \in Proc : pc'[q] = IF q = p THEN "read" ELSE pc[q]
      /\ \A q \in Proc : seen'[q] = IF q = p THEN lock.owner ELSE seen[q]
      /\ UNCHANGED <<lock, busy, acq, lived, byDeath>>
  BY Pieces DEF InsertFails
<1>2. pc[p] = "idle" /\ busy[p] = 0
  BY DEF InsertFails, LInv, IdleIsFresh
<1>3. HolderHasRow' /\ OwnerHolds'
  BY <1>1, <1>2, Pieces DEF LInv, HolderHasRow, OwnerHolds, Held, Alive
<1>4. IdleIsFresh' /\ SameRow'
  BY <1>1, Pieces DEF LInv, IdleIsFresh, SameRow, Trying
<1>5. SeenIsOlder' /\ Judged'
  BY <1>1, <1>2, Pieces DEF LInv, SeenIsOlder, Judged, Alive, Trying
<1>6. QED
  BY <1>3, <1>4, <1>5

LEMMA ExclusiveReadAcquiredAt ==
    ASSUME LInv, NEW p \in Proc, ReadAcquiredAt(p)
    PROVE  (HolderHasRow /\ OwnerHolds /\ IdleIsFresh /\ SameRow
              /\ SeenIsOlder /\ Judged)'
<1>1. /\ pc[p] = "read"
      /\ \A q \in Proc : pc'[q] = IF q = p THEN "probe" ELSE pc[q]
      /\ \A q \in Proc : acq'[q] = IF q = p THEN LockAge ELSE acq[q]
      /\ UNCHANGED <<lock, busy, seen, lived, byDeath>>
  BY Pieces DEF ReadAcquiredAt
<1>2. HolderHasRow' /\ OwnerHolds'
  BY <1>1, Pieces DEF LInv, HolderHasRow, OwnerHolds, Held, Alive
<1>3. IdleIsFresh' /\ SameRow'
  BY <1>1 DEF LInv, IdleIsFresh, SameRow, Trying
<1>4. Alive(seen[p]) => LockAge <= lived[seen[p]]
  <2>1. SUFFICES ASSUME Alive(seen[p]), lock # NoLock
                 PROVE  lock.age <= lived[seen[p]]
    BY Pieces DEF LockAge
  <2>2. CASE lock.age <= busy[p]
    <3>1. busy[p] <= lived[seen[p]]
      BY <1>1, <2>1 DEF LInv, SeenIsOlder, Trying
    <3>2. /\ lock.age \in Int /\ busy[p] \in Int /\ lived[seen[p]] \in Int
      BY <2>1, Pieces, Numbers
    <3>3. QED
      BY <2>2, <3>1, <3>2
  <2>3. CASE busy[p] < lock.age
    BY <1>1, <2>1, <2>3 DEF LInv, SameRow, OwnerHolds, Trying
  <2>4. QED
    BY <2>1, <2>2, <2>3, Pieces, Numbers
<1>5. SeenIsOlder'
  <2>1. SUFFICES ASSUME NEW q \in Proc, pc'[q] \in Trying, Alive(seen[q])'
                 PROVE  /\ busy[q] <= lived[seen[q]]
                        /\ pc'[q] = "probe" => acq'[q] <= lived[seen[q]]
    BY <1>1 DEF SeenIsOlder
  <2>2. pc[q] \in Trying /\ Alive(seen[q])
    BY <1>1, <2>1, Pieces DEF Alive, Trying
  <2>3. /\ busy[q] <= lived[seen[q]]
        /\ pc[q] = "probe" => acq[q] <= lived[seen[q]]
    BY <2>2 DEF LInv, SeenIsOlder
  <2>4. QED
    BY <1>1, <1>4, <2>2, <2>3
<1>6. Judged'
  BY <1>1, Pieces DEF LInv, Judged, Alive
<1>7. QED
  BY <1>2, <1>3, <1>5, <1>6

LEMMA ExclusiveProbeOwner ==
    ASSUME LInv, NEW p \in Proc, ProbeOwner(p)
    PROVE  (HolderHasRow /\ OwnerHolds /\ IdleIsFresh /\ SameRow
              /\ SeenIsOlder /\ Judged)'
<1>1. /\ pc[p] = "probe"
      /\ \A q \in Proc : pc'[q] = IF q = p THEN "expire" ELSE pc[q]
      /\ \A q \in Proc : q # p => acq'[q] = acq[q] /\ byDeath'[q] = byDeath[q]
      /\ byDeath'[p] = DeadOwner(p)
      /\ UNCHANGED <<lock, busy, seen, lived>>
  BY Pieces DEF ProbeOwner
<1>2. HolderHasRow' /\ OwnerHolds'
  BY <1>1, Pieces DEF LInv, HolderHasRow, OwnerHolds, Held, Alive
<1>3. IdleIsFresh' /\ SameRow'
  BY <1>1 DEF LInv, IdleIsFresh, SameRow, Trying
<1>4. SeenIsOlder'
  BY <1>1, Pieces DEF LInv, SeenIsOlder, Alive, Trying
<1>5. DeadOwner(p) => ~Alive(seen[p])
  <2>1. SUFFICES ASSUME StartedAfter(seen[p], acq[p])
                 PROVE  FALSE
    BY DEF DeadOwner
  <2>2. Alive(seen[p]) /\ lived[seen[p]] < acq[p] - 1
    BY <2>1 DEF StartedAfter
  <2>3. acq[p] <= lived[seen[p]]
    BY <1>1, <2>2 DEF LInv, SeenIsOlder, Trying
  <2>4. acq[p] \in Int /\ lived[seen[p]] \in Int
    BY Pieces, Numbers
  <2>5. QED
    BY <2>2, <2>3, <2>4
<1>6. Judged'
  BY <1>1, <1>5, Pieces DEF LInv, Judged, Alive
<1>7. QED
  BY <1>2, <1>3, <1>4, <1>6

LEMMA ExclusiveCheckExpiry ==
    ASSUME LInv, Prompt, NEW p \in Proc, CheckExpiry(p)
    PROVE  (HolderHasRow /\ OwnerHolds /\ IdleIsFresh /\ SameRow
              /\ SeenIsOlder /\ Judged)'
<1>1. pc[p] = "expire" /\ UNCHANGED <<lock, lived>>
  BY DEF CheckExpiry
<1>2. Expired => ~Alive(seen[p])
  <2>1. SUFFICES ASSUME Expired, Alive(seen[p])
                 PROVE  FALSE
    OBVIOUS
  <2>2. lock # NoLock /\ TTL < lock.age
    BY <2>1, Pieces, Numbers DEF Expired, LockAge
  <2>3. lock.owner = seen[p]
    <3>1. busy[p] < lock.age
      BY <2>2, Pieces, Numbers DEF Prompt
    <3>2. QED
      BY <1>1, <2>2, <3>1 DEF LInv, SameRow, Trying
  <2>4. busy[lock.owner] = lock.age
    BY <2>1, <2>2, <2>3 DEF LInv, OwnerHolds
  <2>5. QED
    BY <2>2, <2>4, Pieces, Numbers DEF Prompt
<1>3. CASE byDeath[p] \/ Expired
  <2>1. /\ \A q \in Proc : pc'[q] = IF q = p THEN "steal" ELSE pc[q]
        /\ UNCHANGED <<seen, acq, byDeath, busy>>
    BY <1>3, Pieces DEF CheckExpiry
  <2>2. ~Alive(seen[p])
    BY <1>1, <1>2, <1>3 DEF LInv, Judged
  <2>3. QED
    BY <1>1, <2>1, <2>2, Pieces
    DEF LInv, HolderHasRow, OwnerHolds, IdleIsFresh, SameRow, SeenIsOlder,
        Judged, Held, Alive, Trying
<1>4. CASE ~(byDeath[p] \/ Expired)
  <2>1. /\ \A q \in Proc : pc'[q] = IF q = p THEN "idle" ELSE pc[q]
        /\ \A q \in Proc : busy'[q] = IF q = p THEN 0 ELSE busy[q]
        /\ \A q \in Proc : q # p => /\ seen'[q] = seen[q]
                                    /\ acq'[q] = acq[q]
                                    /\ byDeath'[q] = byDeath[q]
    BY <1>4, Pieces DEF CheckExpiry, Forget
  <2>2. QED
    BY <1>1, <2>1, Pieces
    DEF LInv, HolderHasRow, OwnerHolds, IdleIsFresh, SameRow, SeenIsOlder,
        Judged, Held, Alive, Trying
<1>5. QED
  BY <1>3, <1>4

LEMMA ExclusiveSteal ==
    ASSUME LInv, NEW p \in Proc, Steal(p)
    PROVE  (HolderHasRow /\ OwnerHolds /\ IdleIsFresh /\ SameRow
              /\ SeenIsOlder /\ Judged)'
<1>1. /\ \A q \in Proc : busy'[q] = IF q = p THEN 0 ELSE busy[q]
      /\ \A q \in Proc : q # p => /\ seen'[q] = seen[q]
                                  /\ acq'[q] = acq[q]
                                  /\ byDeath'[q] = byDeath[q]
      /\ pc[p] = "steal" /\ UNCHANGED lived
  BY Pieces DEF Steal, Forget
<1>2. CASE RowStillSeen(p)
  <2>1. /\ lock' # NoLock /\ lock'.owner = p /\ lock'.age = 0
        /\ \A q \in Proc : pc'[q] = IF q = p THEN "held" ELSE pc[q]
    BY <1>2, RowTypes, Pieces DEF Steal, RowOf
  <2>2. ~Alive(lock.owner)
    BY <1>1, <1>2 DEF RowStillSeen, LInv, Judged
  <2>3. \A q \in Proc : ~Held(q)
    BY <2>2 DEF LInv, HolderHasRow, Held, Alive
  <2>4. HolderHasRow' /\ OwnerHolds'
    BY <1>1, <2>1, <2>3, Pieces, Numbers DEF HolderHasRow, OwnerHolds, Held
  <2>5. IdleIsFresh' /\ SameRow'
    BY <1>1, <2>1, Pieces DEF LInv, IdleIsFresh, SameRow, Trying
  <2>6. SeenIsOlder' /\ Judged'
    BY <1>1, <2>1, Pieces DEF LInv, SeenIsOlder, Judged, Alive, Trying
  <2>7. QED
    BY <2>4, <2>5, <2>6
<1>3. CASE ~RowStillSeen(p)
  <2>1. /\ \A q \in Proc : pc'[q] = IF q = p THEN "idle" ELSE pc[q]
        /\ UNCHANGED lock
    BY <1>3, Pieces DEF Steal
  <2>2. HolderHasRow' /\ OwnerHolds' /\ IdleIsFresh'
    BY <1>1, <2>1, Pieces
    DEF LInv, HolderHasRow, OwnerHolds, IdleIsFresh, Held, Alive
  <2>3. SameRow' /\ SeenIsOlder' /\ Judged'
    BY <1>1, <2>1, Pieces
    DEF LInv, SameRow, SeenIsOlder, Judged, Alive, Trying
  <2>4. QED
    BY <2>2, <2>3
<1>4. QED
  BY <1>2, <1>3

LEMMA ExclusiveRelease ==
    ASSUME LInv, NEW p \in Proc, Release(p)
    PROVE  (HolderHasRow /\ OwnerHolds /\ IdleIsFresh /\ SameRow
              /\ SeenIsOlder /\ Judged)'
<1>1. OwnRow(p)
  BY DEF Release, LInv, HolderHasRow, OwnRow, Held
<1>2. /\ lock' = NoLock
      /\ \A q \in Proc : pc'[q] = IF q = p THEN "idle" ELSE pc[q]
      /\ \A q \in Proc : busy'[q] = IF q = p THEN 0 ELSE busy[q]
      /\ UNCHANGED <<seen, acq, byDeath, lived>>
  BY <1>1, Pieces DEF Release
<1>3. \A q \in Proc : q # p => ~Held(q)
  BY <1>1 DEF OwnRow, LInv, HolderHasRow
<1>4. HolderHasRow' /\ OwnerHolds' /\ IdleIsFresh'
  BY <1>2, <1>3 DEF LInv, HolderHasRow, OwnerHolds, IdleIsFresh, Held
<1>5. SameRow' /\ SeenIsOlder' /\ Judged'
  BY <1>2, Pieces DEF Release, LInv, SameRow, SeenIsOlder, Judged, Alive, Trying
<1>6. QED
  BY <1>4, <1>5

LEMMA ExclusiveCrash ==
    ASSUME LInv, NEW p \in Proc, Crash(p)
    PROVE  (HolderHasRow /\ OwnerHolds /\ IdleIsFresh /\ SameRow
              /\ SeenIsOlder /\ Judged)'
<1>1. /\ \A q \in Proc : pc'[q] = IF q = p THEN "dead" ELSE pc[q]
      /\ \A q \in Proc : busy'[q] = IF q = p THEN 0 ELSE busy[q]
      /\ \A q \in Proc : q # p => /\ seen'[q] = seen[q]
                                  /\ acq'[q] = acq[q]
                                  /\ byDeath'[q] = byDeath[q]
      /\ UNCHANGED <<lock, lived>>
  BY Pieces DEF Crash, Forget
<1>2. HolderHasRow' /\ OwnerHolds' /\ IdleIsFresh'
  BY <1>1, Pieces DEF LInv, HolderHasRow, OwnerHolds, IdleIsFresh, Held, Alive
<1>3. SameRow' /\ SeenIsOlder' /\ Judged'
  BY <1>1, Pieces DEF LInv, SameRow, SeenIsOlder, Judged, Alive, Trying
<1>4. QED
  BY <1>2, <1>3

(* Time changes the age of the row and nothing else of it. *)
LEMMA TickKeepsRow ==
    ASSUME TypeOK, Tick, lock # NoLock
    PROVE  /\ lock' # NoLock
           /\ lock'.owner = lock.owner
           /\ lock'.age = Older(lock.age)
<1>1. lock \in Row /\ lock' = [lock EXCEPT !.age = Older(@)]
  BY DEF Tick, TypeOK
<1>2. lock' = [owner |-> lock.owner, age |-> Older(lock.age)]
  BY <1>1 DEF Row
<1>3. lock' \in [owner : Proc, age : Nat]
  BY <1>1, <1>2, Ages, Numbers DEF Row
<1>4. QED
  BY <1>2, <1>3, LockAssumption

LEMMA ExclusiveTick ==
    ASSUME LInv, Prompt, Tick
    PROVE  (HolderHasRow /\ OwnerHolds /\ IdleIsFresh /\ SameRow
              /\ SeenIsOlder /\ Judged)'
<1>1. /\ UNCHANGED <<pc, seen, byDeath>>
      /\ \A p \in Proc : busy'[p] = IF Busy(p) THEN busy[p] + 1 ELSE busy[p]
      /\ \A p \in Proc : lived'[p] = Older(lived[p])
      /\ \A p \in Proc : pc[p] = "probe" => acq'[p] = Older(acq[p])
      /\ \A p \in Proc : Busy(p) => busy[p] < MaxBusy
      /\ lock = NoLock => lock' = NoLock
  BY DEF Tick
<1>2. lock # NoLock => /\ lock' # NoLock
                       /\ lock'.owner = lock.owner
                       /\ lock'.age = Older(lock.age)
  BY TickKeepsRow DEF LInv
<1>3. \A a, b \in 0..(TTL + 1) : a <= b => Older(a) <= Older(b)
  BY Numbers DEF Older
<1>4. \A a \in 0..MaxBusy, b \in 0..(TTL + 1) :
         a < MaxBusy /\ a <= b => a + 1 <= Older(b)
  BY Numbers DEF Older, Prompt
<1>5. \A a \in 0..MaxBusy, b \in 0..(TTL + 1) :
         a < MaxBusy /\ a + 1 < Older(b) => a < b
  BY Numbers DEF Older, Prompt
<1>6. \A a \in 0..MaxBusy : a < MaxBusy => Older(a) = a + 1
  BY Numbers DEF Older, Prompt
<1>7. HolderHasRow' /\ IdleIsFresh'
  BY <1>1, <1>2, Numbers
  DEF LInv, HolderHasRow, IdleIsFresh, Held, Busy, Trying
<1>8. OwnerHolds'
  <2>1. SUFFICES ASSUME lock # NoLock, Alive(lock.owner)
                 PROVE  /\ Held(lock.owner)
                        /\ busy'[lock.owner] = lock'.age
                        /\ lock'.age <= lived'[lock.owner]
    BY <1>1, <1>2 DEF OwnerHolds, Held, Alive
  <2>2. /\ Held(lock.owner) /\ busy[lock.owner] = lock.age
        /\ lock.age <= lived[lock.owner]
    BY <2>1 DEF LInv, OwnerHolds
  <2>3. lock.owner \in Proc /\ Busy(lock.owner)
    BY <2>1, <2>2, Pieces DEF Busy, Held
  <2>4. busy'[lock.owner] = lock'.age
    BY <1>1, <1>2, <1>6, <2>1, <2>2, <2>3, Pieces
  <2>5. lock'.age <= lived'[lock.owner]
    BY <1>1, <1>2, <1>3, <2>1, <2>2, <2>3, Pieces
  <2>6. QED
    BY <2>2, <2>4, <2>5
<1>9. SameRow'
  <2>1. SUFFICES ASSUME NEW p \in Proc, pc[p] \in Trying, lock # NoLock,
                        busy[p] + 1 < Older(lock.age)
                 PROVE  lock.owner = seen[p]
    BY <1>1, <1>2 DEF SameRow, Busy
  <2>2. busy[p] < lock.age
    BY <1>1, <1>5, <2>1, Pieces DEF Busy
  <2>3. QED
    BY <2>1, <2>2 DEF LInv, SameRow
<1>10. SeenIsOlder'
  <2>1. SUFFICES ASSUME NEW p \in Proc, pc[p] \in Trying, Alive(seen[p])
                 PROVE  /\ busy'[p] <= lived'[seen[p]]
                        /\ pc[p] = "probe" => acq'[p] <= lived'[seen[p]]
    BY <1>1 DEF SeenIsOlder, Alive
  <2>2. /\ busy[p] <= lived[seen[p]]
        /\ pc[p] = "probe" => acq[p] <= lived[seen[p]]
    BY <2>1 DEF LInv, SeenIsOlder
  <2>3. busy'[p] <= lived'[seen[p]]
    BY <1>1, <1>4, <2>1, <2>2, Pieces DEF Busy
  <2>4. pc[p] = "probe" => acq'[p] <= lived'[seen[p]]
    BY <1>1, <1>3, <2>2, Pieces
  <2>5. QED
    BY <2>3, <2>4
<1>11. Judged'
  BY <1>1 DEF LInv, Judged, Alive
<1>12. QED
  BY <1>7, <1>8, <1>9, <1>10, <1>11

LEMMA ExclusiveNext ==
    ASSUME LInv, Prompt, [Next]_vars
    PROVE  (HolderHasRow /\ OwnerHolds /\ IdleIsFresh /\ SameRow
              /\ SeenIsOlder /\ Judged)'
<1>1. ASSUME NEW p \in Proc, Respawn(p)
      PROVE  FALSE
  BY <1>1 DEF Respawn, Prompt
<1>2. CASE UNCHANGED vars
  BY <1>2 DEF vars, LInv, HolderHasRow, OwnerHolds, IdleIsFresh, SameRow,
              SeenIsOlder, Judged, Held, Alive
<1>3. QED
  BY <1>1, <1>2, ExclusiveTryInsert, ExclusiveInsertFails,
     ExclusiveReadAcquiredAt, ExclusiveProbeOwner, ExclusiveCheckExpiry,
     ExclusiveSteal, ExclusiveRelease, ExclusiveCrash, ExclusiveTick
  DEF Next, Acquire

LEMMA Exclusive ==
    ASSUME Prompt
    PROVE  Spec => []LInv
<1> DEFINE Rest == /\ HolderHasRow /\ OwnerHolds /\ IdleIsFresh
                   /\ SameRow /\ SeenIsOlder /\ Judged
<1>1. Init => Rest
  BY ExclusiveInit DEF LInv
<1>2. TypeOK /\ Rest /\ [Next]_vars => Rest'
  BY ExclusiveNext DEF LInv
<1>3. TypeOK /\ Rest => LInv
  BY DEF LInv
<1> HIDE DEF Rest
<1>4. QED
  BY <1>1, <1>2, <1>3, Typing, PTL DEF Spec

(* No two processes ever process the call at once, on however many machines *)
(* and however many of them die holding the lock or about to steal it.      *)
THEOREM NoDoubleProcessing ==
    ASSUME Prompt
    PROVE  Spec => []MutualExclusion
<1>1. LInv => MutualExclusion
  BY DEF LInv, HolderHasRow, MutualExclusion
<1>2. QED
  BY <1>1, Exclusive, PTL

(* With no promise about time or pids at all, a row is only ever removed by *)
(* the process it names, and that process had just finished.                *)
THEOREM RemovalIsByTheWriter == Spec => RemovedByItsWriter
<1>1. TypeOK /\ [Next]_vars
        => [lock # NoLock /\ lock' = NoLock
              => Held(lock.owner) /\ pc'[lock.owner] = "idle"]_vars
  <2>1. SUFFICES ASSUME TypeOK, Next, lock # NoLock, lock' = NoLock
                 PROVE  Held(lock.owner) /\ pc'[lock.owner] = "idle"
    OBVIOUS
  <2>2. PICK p \in Proc : Release(p)
    <3>1. ~Tick
      BY <2>1, TickKeepsRow
    <3>2. \A p \in Proc : ~Acquire(p)
      BY <2>1, RowTypes
      DEF Acquire, TryInsert, InsertFails, ReadAcquiredAt, ProbeOwner,
          CheckExpiry, Steal
    <3>3. \A p \in Proc : ~Crash(p) /\ ~Respawn(p)
      BY <2>1 DEF Crash, Respawn
    <3>4. QED
      BY <2>1, <3>1, <3>2, <3>3 DEF Next
  <2>3. QED
    BY <2>1, <2>2 DEF Release, OwnRow, Held, TypeOK
<1>2. QED
  BY <1>1, Typing, PTL DEF Spec, RemovedByItsWriter

-----------------------------------------------------------------------------
(* The lock implements the abstract one. *)

LEMMA UpTo ==
    ASSUME LInv, NEW p \in Proc, NEW c, c # "dead", pc[p] # "dead",
           pc' = [pc EXCEPT ![p] = c]
    PROVE  Up' = Up
BY Pieces DEF Up, Alive

LEMMA MutexStep ==
    ASSUME LInv, Prompt, [Next]_vars
    PROVE  [Mutex!MutexNext]_(Mutex!mutexVars)
<1> USE DEF Mutex!MutexNext, Mutex!mutexVars
<1>1. ASSUME NEW p \in Proc, TryInsert(p)
      PROVE  Mutex!Take(p)
  <2>1. Up' = Up /\ p \in Up
    BY <1>1, UpTo DEF TryInsert, Up, Alive
  <2>2. Holder = NoLock /\ Holder' = p
    BY <1>1, RowTypes DEF TryInsert, Holder, RowOf
  <2>3. QED
    BY <2>1, <2>2 DEF Mutex!Take
<1>2. ASSUME NEW p \in Proc,
             InsertFails(p) \/ ReadAcquiredAt(p) \/ ProbeOwner(p) \/ CheckExpiry(p)
      PROVE  Up' = Up /\ Holder' = Holder
  <2>1. \E c \in PC : c # "dead" /\ pc' = [pc EXCEPT ![p] = c]
    BY <1>2 DEF InsertFails, ReadAcquiredAt, ProbeOwner, CheckExpiry, PC, Trying
  <2>2. pc[p] # "dead" /\ UNCHANGED lock
    BY <1>2 DEF InsertFails, ReadAcquiredAt, ProbeOwner, CheckExpiry
  <2>3. QED
    BY <2>1, <2>2, UpTo DEF Holder
<1>3. ASSUME NEW p \in Proc, Steal(p)
      PROVE  Mutex!Inherit(p) \/ (Up' = Up /\ Holder' = Holder)
  <2>1. Up' = Up /\ p \in Up
    BY <1>3, UpTo DEF Steal, Up, Alive
  <2>2. CASE RowStillSeen(p)
    <3>1. ~Alive(lock.owner) /\ lock # NoLock
      BY <1>3, <2>2 DEF Steal, RowStillSeen, LInv, Judged
    <3>2. Holder \in Proc \ Up
      BY <3>1, Pieces DEF Holder, Up
    <3>3. Holder' = p
      BY <1>3, <2>2, RowTypes DEF Steal, Holder, RowOf
    <3>4. QED
      BY <2>1, <3>2, <3>3 DEF Mutex!Inherit
  <2>3. CASE ~RowStillSeen(p)
    BY <1>3, <2>1, <2>3 DEF Steal, Holder
  <2>4. QED
    BY <2>2, <2>3
<1>4. ASSUME NEW p \in Proc, Release(p)
      PROVE  Mutex!Give(p)
  <2>1. Up' = Up /\ p \in Up
    BY <1>4, UpTo DEF Release, Up, Alive
  <2>2. OwnRow(p)
    BY <1>4 DEF Release, LInv, HolderHasRow, OwnRow, Held
  <2>3. Holder = p /\ Holder' = NoLock
    BY <1>4, <2>2 DEF Release, OwnRow, Holder
  <2>4. QED
    BY <2>1, <2>3 DEF Mutex!Give
<1>5. ASSUME NEW p \in Proc, Crash(p)
      PROVE  Mutex!Die(p)
  <2>1. p \in Up /\ Holder' = Holder
    BY <1>5 DEF Crash, Up, Holder
  <2>2. Up' = Up \ {p}
    BY <1>5, Pieces DEF Crash, Up, Alive
  <2>3. QED
    BY <2>1, <2>2 DEF Mutex!Die
<1>6. CASE Tick
  <2>1. Up' = Up
    BY <1>6 DEF Tick, Up, Alive
  <2>2. Holder' = Holder
    BY <1>6, TickKeepsRow DEF Tick, LInv, Holder
  <2>3. QED
    BY <2>1, <2>2
<1>7. CASE UNCHANGED vars
  BY <1>7 DEF vars, Up, Alive, Holder
<1>8. ~\E p \in Proc : Respawn(p)
  BY DEF Respawn, Prompt
<1>9. QED
  BY <1>1, <1>2, <1>3, <1>4, <1>5, <1>6, <1>7, <1>8 DEF Next, Acquire

(* Every behaviour of the lock is one of the abstract lock: a call changes  *)
(* hands when its holder gives it up, or dies.                              *)
THEOREM LockImplementsMutex ==
    ASSUME Prompt
    PROVE  Spec => ImplementsMutex
<1>1. Init => Mutex!MutexInit
  BY DEF Init, Mutex!MutexInit, Holder, Up, Alive
<1>2. LInv /\ [Next]_vars => [Mutex!MutexNext]_(Mutex!mutexVars)
  BY MutexStep
<1>3. QED
  BY <1>1, <1>2, Exclusive, PTL DEF Spec, ImplementsMutex, Mutex!MutexSpec
=============================================================================
