--------------------------- MODULE DatasetProofs ---------------------------
(***************************************************************************)
(* Proofs about a journey data set: the lock that keeps it to one command  *)
(* (DatasetLock), for any number of commands, and what a run of the report *)
(* says of one customer's story (Timeline), for any rules, any number of   *)
(* events and any order in which they are exported.                        *)
(***************************************************************************)
EXTENDS DatasetLock, Timeline, FiniteSetTheorems, WellFoundedInduction, TLAPS

-----------------------------------------------------------------------------
(* The lock: the types, and that it is exclusive until a command dies, on  *)
(* a file system with hard links.                                          *)

LEMMA AgainTypes ==
    ASSUME TypeOK, NEW p \in Proc, Again(p), tries[p] < 3
    PROVE  tries' \in [Proc -> 0..3] /\ pc' \in [Proc -> PC]
BY DEF TypeOK, Again, Goto, PC

(* A command in the middle of __enter__ has rounds left. *)
RoundsLeft == \A p \in Proc : pc[p] \notin {"refused", "dead"} => tries[p] < 3

LEMMA Rounds == LockSpec => [](TypeOK /\ RoundsLeft)
<1>1. LockInit => TypeOK /\ RoundsLeft
  BY DatasetLockAssumption DEF LockInit, TypeOK, RoundsLeft, PC
<1>2. TypeOK /\ RoundsLeft /\ [LockNext]_lockVars => (TypeOK /\ RoundsLeft)'
  <2> SUFFICES ASSUME TypeOK, RoundsLeft, [LockNext]_lockVars
               PROVE  TypeOK' /\ RoundsLeft'
    OBVIOUS
  <2> USE DatasetLockAssumption DEF TypeOK, RoundsLeft, PC, Goto
  <2>1. ASSUME NEW p \in Proc, Create(p)
        PROVE  TypeOK' /\ RoundsLeft'
    <3>1. [by |-> p, pid |-> IF links THEN pid[p] ELSE NoPid, fresh |-> TRUE] \in File
      BY DEF File
    <3>2. QED
      BY <2>1, <3>1 DEF Create
  <2>2. ASSUME NEW p \in Proc, CreateFails(p)
        PROVE  TypeOK' /\ RoundsLeft'
    BY <2>2 DEF CreateFails
  <2>3. ASSUME NEW p \in Proc, WritePid(p)
        PROVE  TypeOK' /\ RoundsLeft'
    <3>1. file' \in File \cup {NoFile}
      BY <2>3 DEF WritePid, File
    <3>2. QED
      BY <2>3, <3>1 DEF WritePid
  <2>4. ASSUME NEW p \in Proc, ReadHolder(p)
        PROVE  TypeOK' /\ RoundsLeft'
    BY <2>4 DEF ReadHolder, Again, File
  <2>5. ASSUME NEW p \in Proc, Recheck(p)
        PROVE  TypeOK' /\ RoundsLeft'
    BY <2>5 DEF Recheck, Again
  <2>6. ASSUME NEW p \in Proc, Unlink(p)
        PROVE  TypeOK' /\ RoundsLeft'
    BY <2>6 DEF Unlink, Again
  <2>7. ASSUME NEW p \in Proc, Exit(p)
        PROVE  TypeOK' /\ RoundsLeft'
    BY <2>7 DEF Exit, Leave, ExitCheck, ExitRemove
  <2>8. ASSUME NEW p \in Proc, Restart(p)
        PROVE  TypeOK' /\ RoundsLeft'
    BY <2>8 DEF Restart
  <2>9. ASSUME NEW p \in Proc, Crash(p)
        PROVE  TypeOK' /\ RoundsLeft'
    BY <2>9 DEF Crash
  <2>10. CASE OtherStarts \/ OtherEnds \/ Ripen
    BY <2>10 DEF OtherStarts, OtherEnds, Ripen, File
  <2>11. CASE UNCHANGED lockVars
    BY <2>11 DEF lockVars
  <2>12. QED
    BY <2>1, <2>2, <2>3, <2>4, <2>5, <2>6, <2>7, <2>8, <2>9, <2>10, <2>11
    DEF LockNext, Enter
<1>3. QED
  BY <1>1, <1>2, PTL DEF LockSpec

(* The state keeps its types, for any number of commands, pids and crashes. *)
THEOREM Typing == LockSpec => []TypeOK
BY Rounds, PTL

-----------------------------------------------------------------------------
(* Exclusion until somebody dies.                                          *)
(*                                                                         *)
(* Running commands have pids of their own, and the file always names one  *)
(* that is inside; so whoever reads it respects it, and nobody ever gets to *)
(* the steps that remove another's.                                        *)

OwnPid == \A p, q \in Proc : Running(p) /\ Running(q) /\ pid[p] = pid[q] => p = q

InsideHasFile == \A p \in Proc : Inside(p) => Ours(p)

Kept ==
    /\ OwnPid
    /\ InsideHasFile
    /\ file # NoFile => \E p \in Proc : Inside(p) /\ pid[p] = file.pid
    /\ \A p \in Proc : pc[p] \notin {"dead", "write", "recheck", "unlink"}

KeptWhileAlive == links /\ crashes = 0 => Kept

LEMMA KeptNext ==
    ASSUME links, TypeOK, Kept, [LockNext]_lockVars, crashes' = crashes
    PROVE  Kept'
<1> USE DEF Kept, OwnPid, InsideHasFile, Inside, Ours, Running, TypeOK, Goto
<1>1. ASSUME NEW p \in Proc, Create(p)
      PROVE  Kept'
  <2> DEFINE new == [by |-> p, pid |-> pid[p], fresh |-> TRUE]
  <2>1. new # NoFile /\ new.pid = pid[p]
    <3>1. new \in [by : Proc, pid : Pid \cup {NoPid}, fresh : BOOLEAN]
      OBVIOUS
    <3>2. QED
      BY <3>1, DatasetLockAssumption
  <2> HIDE DEF new
  <2>2. /\ file' = new /\ UNCHANGED pid
        /\ pc' = [pc EXCEPT ![p] = "in"] /\ file = NoFile /\ pc[p] = "start"
    BY <1>1 DEF Create, new
  <2>3. \A q \in Proc : pc'[q] = IF q = p THEN "in" ELSE pc[q]
    BY <2>2
  <2>4. \A q \in Proc : ~Inside(q)
    BY <2>2
  <2>5. InsideHasFile'
    BY <2>1, <2>2, <2>3, <2>4
  <2>6. OwnPid'
    BY <2>2, <2>3
  <2>7. (\E q \in Proc : Inside(q) /\ pid[q] = file.pid)'
    BY <2>1, <2>2, <2>3
  <2>8. QED
    BY <2>3, <2>5, <2>6, <2>7
<1>2. ASSUME NEW p \in Proc, CreateFails(p)
      PROVE  Kept'
  <2>1. pc' = [pc EXCEPT ![p] = "read"] /\ pc[p] = "start" /\ UNCHANGED <<file, pid>>
    BY <1>2 DEF CreateFails
  <2>2. QED
    BY <2>1
<1>3. ASSUME NEW p \in Proc, ReadHolder(p)
      PROVE  Kept'
  <2>1. CASE file = NoFile
    <3>1. /\ pc[p] = "read" /\ UNCHANGED <<file, pid>>
          /\ pc' = [pc EXCEPT ![p] = IF tries[p] + 1 < 3 THEN "start" ELSE "refused"]
      BY <1>3, <2>1 DEF ReadHolder, Again
    <3>2. QED
      BY <2>1, <3>1
  <2>2. CASE file # NoFile
    <3>1. Respected
      <4>1. PICK q \in Proc : Inside(q) /\ pid[q] = file.pid
        BY <2>2
      <4>2. Alive(file.pid)
        BY <4>1 DEF Alive
      <4>3. file.pid # NoPid
        BY <4>1, DatasetLockAssumption
      <4>4. QED
        BY <4>2, <4>3 DEF Respected
    <3>2. /\ pc' = [pc EXCEPT ![p] = "refused"] /\ UNCHANGED <<file, pid>>
          /\ pc[p] = "read"
      BY <1>3, <2>2, <3>1 DEF ReadHolder
    <3>3. QED
      BY <3>2
  <2>3. QED
    BY <2>1, <2>2
<1>4. ASSUME NEW p \in Proc, WritePid(p) \/ Recheck(p) \/ Unlink(p)
      PROVE  Kept'
  BY <1>4 DEF WritePid, Recheck, Unlink
<1>5. ASSUME NEW p \in Proc, Exit(p)
      PROVE  Kept'
  <2>1. CASE Leave(p) \/ ExitCheck(p)
    <3>1. /\ UNCHANGED <<file, pid>> /\ Inside(p)
          /\ pc' = [pc EXCEPT ![p] = IF pc[p] = "in" THEN "exit" ELSE "remove"]
      BY <2>1 DEF Leave, ExitCheck
    <3>2. \A q \in Proc : Inside(q)' <=> Inside(q)
      BY <3>1
    <3>3. \A q \in Proc : Running(q)' <=> Running(q)
      BY <3>1
    <3>4. QED
      BY <3>1, <3>2, <3>3
  <2>2. CASE ExitRemove(p)
    <3>1. /\ file' = NoFile /\ UNCHANGED pid /\ pc[p] = "remove"
          /\ pc' = [pc EXCEPT ![p] = "done"]
      BY <2>2 DEF ExitRemove
    <3>2. \A q \in Proc : Inside(q) => q = p
      BY <3>1
    <3>3. QED
      BY <3>1, <3>2
  <2>3. QED
    BY <1>5, <2>1, <2>2 DEF Exit
<1>6. ASSUME NEW p \in Proc, Restart(p)
      PROVE  Kept'
  <2>1. PICK n \in Pid : ~Alive(n) /\ pid' = [pid EXCEPT ![p] = n]
    BY <1>6 DEF Restart
  <2>2. pc' = [pc EXCEPT ![p] = "start"] /\ ~Running(p) /\ UNCHANGED file
    BY <1>6 DEF Restart
  <2>3. \A q \in Proc : Running(q) => pid[q] # n
    BY <2>1 DEF Alive
  <2>4. OwnPid'
    BY <2>1, <2>2, <2>3
  <2>5. \A q \in Proc : q # p => pid'[q] = pid[q] /\ pc'[q] = pc[q]
    BY <2>1, <2>2
  <2>6. ~Inside(p) /\ ~Inside(p)'
    BY <2>2
  <2>7. QED
    BY <2>2, <2>4, <2>5, <2>6
<1>7. ASSUME NEW p \in Proc, Crash(p)
      PROVE  FALSE
  BY <1>7 DEF Crash
<1>8. CASE Ripen
  <2>1. file # NoFile /\ file' = [file EXCEPT !.fresh = FALSE] /\ file \in File
        /\ UNCHANGED <<pc, pid>>
    BY <1>8 DEF Ripen
  <2>2. file'.pid = file.pid /\ file' # NoFile
    BY <2>1, DatasetLockAssumption DEF File
  <2>3. QED
    BY <2>1, <2>2
<1>9. CASE OtherStarts \/ OtherEnds \/ UNCHANGED lockVars
  <2>1. UNCHANGED <<file, pc, pid>>
    BY <1>9 DEF OtherStarts, OtherEnds, lockVars
  <2>2. QED
    BY <2>1
<1>10. QED
  BY <1>1, <1>2, <1>3, <1>4, <1>5, <1>6, <1>7, <1>8, <1>9 DEF LockNext, Enter

(* Deaths are counted for good, and a file system does not change. *)
LEMMA DeathsStay ==
    ASSUME TypeOK, [LockNext]_lockVars, crashes' = 0
    PROVE  crashes = 0 /\ links' = links
<1>1. crashes \in Nat
  BY DatasetLockAssumption DEF TypeOK
<1>2. (crashes' = crashes \/ crashes' = crashes + 1) /\ links' = links
  BY DEF LockNext, Enter, Exit, Create, CreateFails, WritePid, ReadHolder, Recheck,
         Unlink, Leave, ExitCheck, ExitRemove, Restart, Crash, OtherStarts, OtherEnds,
         Ripen, lockVars
<1>3. QED
  BY <1>1, <1>2

(* However many commands contend and whatever pids they and other programs  *)
(* get, until one dies only one of them is inside the dataset, and its file *)
(* is there.                                                                *)
THEOREM Exclusive == LockSpec => []OneWriterWhileAlive
<1>1. LockInit => KeptWhileAlive
  BY DEF LockInit, KeptWhileAlive, Kept, OwnPid, InsideHasFile, Inside
<1>2. TypeOK /\ KeptWhileAlive /\ [LockNext]_lockVars => KeptWhileAlive'
  BY DeathsStay, KeptNext DEF KeptWhileAlive
<1>3. KeptWhileAlive => OneWriterWhileAlive
  BY DEF KeptWhileAlive, Kept, OwnPid, InsideHasFile, Inside, Running,
         OneWriterWhileAlive, OneWriter, Ours
<1>4. QED
  BY <1>1, <1>2, <1>3, Typing, PTL DEF LockSpec

-----------------------------------------------------------------------------
(* Numbers, and loops that go from one number to the next.                 *)

(* A set of natural numbers that is not empty has a smallest element.      *)
LEMMA SmallestIn ==
    ASSUME NEW S \in SUBSET Nat, S # {}
    PROVE  \E x \in S : \A y \in S : x <= y
<1> DEFINE R == OpToRel(<, Nat)
<1>1. IsWellFoundedOn(R, Nat)
  BY NatLessThanWellFounded
<1>2. PICK x \in S : \A y \in S : <<y, x>> \notin R
  <2> HIDE DEF R
  <2>1. QED
    BY <1>1, WFMin
<1>3. \A y \in S : y < x => <<y, x>> \in R
  BY DEF OpToRel
<1>4. \A y \in S : ~(y < x)
  <2> HIDE DEF R
  <2>1. QED
    BY <1>2, <1>3
<1>5. QED
  BY <1>4

LEMMA Induction ==
    ASSUME NEW S \in SUBSET Nat, 0 \in S, \A n \in S : n + 1 \in S
    PROVE  S = Nat
<1> SUFFICES ASSUME Nat \ S # {}
             PROVE  FALSE
  OBVIOUS
<1>1. PICK n \in Nat \ S : \A m \in Nat \ S : n <= m
  BY SmallestIn
<1>2. n # 0 /\ n - 1 \in Nat
  BY <1>1
<1>3. n - 1 \in S
  BY <1>1, <1>2
<1>4. QED
  BY <1>1, <1>2, <1>3

(* What comes after n rounds that each make a state of X out of a state of  *)
(* X.                                                                       *)
Iterates(f, x, F, n) == f \in [0..n -> DOMAIN F] /\ f[0] = x /\ \A k \in 1..n : f[k] = F[f[k - 1]]

LEMMA IteratesAgree ==
    ASSUME NEW X, NEW x \in X, NEW F \in [X -> X], NEW m \in Nat, NEW n \in Nat, m <= n,
           NEW f, Iterates(f, x, F, m), NEW g, Iterates(g, x, F, n)
    PROVE  f[m] = g[m]
<1> DEFINE S == {k \in Nat : k <= m => f[k] = g[k]}
<1>1. 0 \in S
  BY DEF Iterates
<1>2. ASSUME NEW k \in S
      PROVE  k + 1 \in S
  <2> SUFFICES ASSUME k + 1 <= m
               PROVE  f[k + 1] = g[k + 1]
    OBVIOUS
  <2>1. k + 1 \in 1..m /\ k + 1 \in 1..n /\ (k + 1) - 1 = k
    OBVIOUS
  <2>2. f[k + 1] = F[f[k]] /\ g[k + 1] = F[g[k]]
    BY <2>1 DEF Iterates
  <2>3. QED
    BY <1>2, <2>2
<1>3. S \in SUBSET Nat
  OBVIOUS
<1>4. S = Nat
  <2> HIDE DEF S
  <2>1. QED
    BY <1>1, <1>2, <1>3, Induction
<1>5. QED
  BY <1>4

LEMMA IteratesExist ==
    ASSUME NEW X, NEW x \in X, NEW F \in [X -> X]
    PROVE  \A n \in Nat : \E f : Iterates(f, x, F, n)
<1> DEFINE S == {n \in Nat : \E f : Iterates(f, x, F, n)}
<1>1. 0 \in S
  <2>1. Iterates([k \in 0..0 |-> x], x, F, 0)
    BY DEF Iterates
  <2>2. QED
    BY <2>1
<1>2. ASSUME NEW n \in S
      PROVE  n + 1 \in S
  <2>1. PICK f : Iterates(f, x, F, n)
    BY <1>2
  <2> DEFINE g == [k \in 0..n + 1 |-> IF k <= n THEN f[k] ELSE F[f[n]]]
  <2>2. f \in [0..n -> X] /\ f[0] = x
    BY <2>1 DEF Iterates
  <2>3. g \in [0..n + 1 -> X] /\ g[0] = x
    BY <2>2
  <2>4. ASSUME NEW k \in 1..n + 1
        PROVE  g[k] = F[g[k - 1]]
    <3>1. CASE k <= n
      BY <2>1, <3>1 DEF Iterates
    <3>2. CASE k = n + 1
      BY <3>2
    <3>3. QED
      BY <3>1, <3>2
  <2>5. Iterates(g, x, F, n + 1)
    <3> HIDE DEF g
    <3>1. QED
      BY <2>3, <2>4 DEF Iterates
  <2>6. QED
    BY <2>5
<1>3. S \in SUBSET Nat
  OBVIOUS
<1>4. S = Nat
  <2> HIDE DEF S
  <2>1. QED
    BY <1>1, <1>2, <1>3, Induction
<1>5. QED
  BY <1>4

LEMMA LoopExists ==
    ASSUME NEW X, NEW x \in X, NEW F \in [X -> X]
    PROVE  \E f \in [Nat -> X] : f[0] = x /\ \A n \in Nat : f[n + 1] = F[f[n]]
<1> DEFINE Part(n) == CHOOSE f : Iterates(f, x, F, n)
           f == [n \in Nat |-> Part(n)[n]]
<1>1. \A n \in Nat : Iterates(Part(n), x, F, n)
  BY IteratesExist
<1>2. f \in [Nat -> X] /\ f[0] = x
  <2> HIDE DEF Part
  <2>1. \A n \in Nat : Part(n)[n] \in X
    BY <1>1 DEF Iterates
  <2>2. QED
    BY <1>1, <2>1 DEF Iterates
<1>3. ASSUME NEW n \in Nat
      PROVE  f[n + 1] = F[f[n]]
  <2> HIDE DEF Part
  <2>1. Iterates(Part(n), x, F, n) /\ Iterates(Part(n + 1), x, F, n + 1)
    BY <1>1
  <2>2. Part(n)[n] = Part(n + 1)[n]
    BY <2>1, IteratesAgree
  <2>3. n + 1 \in 1..n + 1 /\ (n + 1) - 1 = n
    OBVIOUS
  <2>4. Part(n + 1)[n + 1] = F[Part(n + 1)[n]]
    BY <2>1, <2>3 DEF Iterates
  <2>5. QED
    BY <2>2, <2>4
<1>4. QED
  BY <1>2, <1>3

-----------------------------------------------------------------------------
(* The day on which a promise is due.                                      *)

(* The moment k days after m, at the same hour. *)
DaysAfter(m, k) == m + k * DayLength

LEMMA Divided ==
    ASSUME NEW d \in Nat \ {0}, NEW a \in Int, NEW r \in 0..d - 1
    PROVE  (d * a + r) \div d = a
OBVIOUS

LEMMA DaysLater ==
    ASSUME NEW m \in Nat, NEW k \in Nat
    PROVE  /\ DaysAfter(m, k) \in Nat /\ DaysAfter(m, 0) = m
           /\ DaysAfter(m, k + 1) = DaysAfter(m, k) + DayLength
           /\ DaysAfter(m, k) \div DayLength = m \div DayLength + k
<1> DEFINE q == m \div DayLength
           r == m % DayLength
<1>1. DayLength \in Nat \ {0}
  BY TimelineAssumption
<1>2. q \in Int /\ r \in 0..DayLength - 1 /\ m = DayLength * q + r
  BY <1>1
<1>3. k * DayLength \in Nat /\ 0 * DayLength = 0 /\ (k + 1) * DayLength = k * DayLength + DayLength
  BY <1>1
<1> HIDE DEF q, r
<1>4. m + k * DayLength = DayLength * (q + k) + r
  BY <1>1, <1>2
<1>5. (m + k * DayLength) \div DayLength = q + k
  <2>1. q + k \in Int
    BY <1>2
  <2>2. QED
    BY <1>1, <1>2, <1>4, <2>1, Divided
<1>6. (m + k * DayLength) \div DayLength = m \div DayLength + k
  BY <1>5 DEF q
<1>7. DaysAfter(m, k) \in Nat /\ DaysAfter(m, 0) = m /\ DaysAfter(m, k + 1) = DaysAfter(m, k) + DayLength
  BY <1>1, <1>3 DEF DaysAfter
<1>8. QED
  BY <1>6, <1>7 DEF DaysAfter

LEMMA DaysAfterDays ==
    ASSUME NEW m \in Nat, NEW j \in Nat, NEW k \in Nat
    PROVE  DaysAfter(DaysAfter(m, j), k) = DaysAfter(m, j + k)
BY TimelineAssumption DEF DaysAfter

(* Of three days in a row, one is a working day. *)
LEMMA OneOfThree ==
    ASSUME NEW m \in Nat
    PROVE  \E k \in 1..3 : WorkingDay(DaysAfter(m, k))
<1> DEFINE x == FirstDay + m \div DayLength
<1>1. \A k \in Nat : FirstDay + DaysAfter(m, k) \div DayLength = x + k
  <2>1. m \div DayLength \in Int
    BY TimelineAssumption
  <2>2. QED
    BY <2>1, DaysLater, TimelineAssumption
<1>2. x \in Int
  BY TimelineAssumption
<1> HIDE DEF x
<1>3. \E k \in 1..3 : (x + k) % 7 \notin {4, 5}
  <2>1. (x + 1) % 7 \notin {4, 5} \/ (x + 2) % 7 \notin {4, 5} \/ (x + 3) % 7 \notin {4, 5}
    BY <1>2
  <2>2. QED
    BY <2>1
<1>4. QED
  BY <1>1, <1>3 DEF WorkingDay

(* How many of the k days after a moment are working days. *)
Worked(m, k) == Cardinality({d \in 1..k : WorkingDay(DaysAfter(m, d))})

LEMMA WorkedStep ==
    ASSUME NEW m \in Nat, NEW k \in Nat
    PROVE  /\ Worked(m, k) \in Nat /\ Worked(m, 0) = 0
           /\ Worked(m, k + 1) = IF WorkingDay(DaysAfter(m, k + 1)) THEN Worked(m, k) + 1
                                 ELSE Worked(m, k)
<1> DEFINE Days(n) == {d \in 1..n : WorkingDay(DaysAfter(m, d))}
<1>1. IsFiniteSet(1..k)
  BY FS_Interval
<1>2. IsFiniteSet(Days(k))
  <2>1. Days(k) \subseteq 1..k
    OBVIOUS
  <2> HIDE DEF Days
  <2>2. QED
    BY <1>1, <2>1, FS_Subset
<1>3. Days(0) = {}
  OBVIOUS
<1>4. 1..k + 1 = (1..k) \cup {k + 1}
  OBVIOUS
<1>5. WorkingDay(DaysAfter(m, k + 1)) => Days(k + 1) = Days(k) \cup {k + 1} /\ k + 1 \notin Days(k)
  BY <1>4
<1>6. ~WorkingDay(DaysAfter(m, k + 1)) => Days(k + 1) = Days(k)
  BY <1>4
<1>7. \A n \in Nat : Worked(m, n) = Cardinality(Days(n))
  BY DEF Worked
<1> HIDE DEF Days
<1>8. Cardinality(Days(k)) \in Nat /\ Cardinality(Days(0)) = 0
  BY <1>2, <1>3, FS_CardinalityType, FS_EmptySet
<1>9. WorkingDay(DaysAfter(m, k + 1)) => Cardinality(Days(k + 1)) = Cardinality(Days(k)) + 1
  BY <1>2, <1>5, FS_AddElement
<1>10. k \in Nat /\ k + 1 \in Nat /\ 0 \in Nat
  OBVIOUS
<1>11. QED
  BY <1>6, <1>7, <1>8, <1>9, <1>10

LEMMA ThirdDayCounts ==
    ASSUME NEW m \in Nat
    PROVE  \A n \in Nat : Worked(m, 3 * n) >= n
<1> DEFINE S == {n \in Nat : Worked(m, 3 * n) >= n}
<1>1. 0 \in S
  BY WorkedStep
<1>2. ASSUME NEW n \in S
      PROVE  n + 1 \in S
  <2>1. n \in Nat /\ Worked(m, 3 * n) >= n
    BY <1>2
  <2>2. PICK k \in 1..3 : WorkingDay(DaysAfter(DaysAfter(m, 3 * n), k))
    BY <2>1, DaysLater, OneOfThree
  <2>3. DaysAfter(DaysAfter(m, 3 * n), k) = DaysAfter(m, 3 * n + k)
    BY <2>1, DaysAfterDays
  <2>4. /\ Worked(m, 3 * n) \in Nat
        /\ Worked(m, 3 * n + 1) = IF WorkingDay(DaysAfter(m, 3 * n + 1))
                                  THEN Worked(m, 3 * n) + 1 ELSE Worked(m, 3 * n)
    BY <2>1, WorkedStep
  <2>5. Worked(m, 3 * n + 2) = IF WorkingDay(DaysAfter(m, 3 * n + 2))
                               THEN Worked(m, 3 * n + 1) + 1 ELSE Worked(m, 3 * n + 1)
    <3>1. 3 * n + 1 \in Nat /\ (3 * n + 1) + 1 = 3 * n + 2
      BY <2>1
    <3>2. QED
      BY <3>1, WorkedStep
  <2>6. Worked(m, 3 * n + 3) = IF WorkingDay(DaysAfter(m, 3 * n + 3))
                               THEN Worked(m, 3 * n + 2) + 1 ELSE Worked(m, 3 * n + 2)
    <3>1. 3 * n + 2 \in Nat /\ (3 * n + 2) + 1 = 3 * n + 3
      BY <2>1
    <3>2. QED
      BY <3>1, WorkedStep
  <2>7. \/ WorkingDay(DaysAfter(m, 3 * n + 1)) \/ WorkingDay(DaysAfter(m, 3 * n + 2))
        \/ WorkingDay(DaysAfter(m, 3 * n + 3))
    <3>1. k = 1 \/ k = 2 \/ k = 3
      OBVIOUS
    <3>2. QED
      BY <2>2, <2>3, <3>1
  <2>8. Worked(m, 3 * n + 3) >= Worked(m, 3 * n) + 1
    BY <2>4, <2>5, <2>6, <2>7
  <2>9. 3 * (n + 1) = 3 * n + 3 /\ n + 1 \in Nat /\ Worked(m, 3 * n + 3) \in Nat
    BY <2>1, WorkedStep
  <2>10. QED
    BY <2>1, <2>4, <2>8, <2>9
<1>3. S \in SUBSET Nat
  OBVIOUS
<1>4. S = Nat
  <2> HIDE DEF S
  <2>1. QED
    BY <1>1, <1>2, <1>3, Induction
<1>5. QED
  BY <1>4

(* One round of the loop that looks for the day: the moment it has come to, *)
(* and the working days it still has to count.                              *)
Looking == [at : Nat, left : 0..BusinessDays]
LookOn(s) == IF s.left = 0 THEN s
             ELSE [at |-> s.at + DayLength,
                   left |-> IF WorkingDay(s.at + DayLength) THEN s.left - 1 ELSE s.left]

LEMMA LookOnType ==
    ASSUME NEW s \in Looking
    PROVE  LookOn(s) \in Looking
BY TimelineAssumption DEF Looking, LookOn

(* The loop of AddBusinessDays, as a sequence of such rounds. *)
LEMMA DueByRounds ==
    ASSUME NEW m \in Nat
    PROVE  \E p : /\ p[0] = [at |-> m, left |-> BusinessDays]
                  /\ \A n \in Nat : p[n + 1] = LookOn(p[n])
                  /\ AddBusinessDays(m) = p[3 * BusinessDays].at
<1> DEFINE F == [s \in Looking |-> LookOn(s)]
           x == [at |-> m, left |-> BusinessDays]
           Is(f) == f = [n \in Nat |->
                           IF n = 0 THEN [at |-> m, left |-> BusinessDays]
                           ELSE LET last == f[n - 1]
                                    next == last.at + DayLength
                                IN  IF last.left = 0 THEN last
                                    ELSE [at |-> next,
                                          left |-> IF WorkingDay(next) THEN last.left - 1
                                                   ELSE last.left]]
<1>1. x \in Looking /\ F \in [Looking -> Looking]
  BY TimelineAssumption, LookOnType DEF Looking
<1>2. PICK f \in [Nat -> Looking] : f[0] = x /\ \A n \in Nat : f[n + 1] = F[f[n]]
  <2> HIDE DEF F, x
  <2>1. QED
    BY <1>1, LoopExists
<1>3. \A n \in Nat \ {0} : f[n] = LookOn(f[n - 1])
  <2>1. ASSUME NEW n \in Nat \ {0}
        PROVE  f[n] = LookOn(f[n - 1])
    <3>1. n - 1 \in Nat /\ (n - 1) + 1 = n /\ f[n - 1] \in Looking
      BY <1>2
    <3> HIDE DEF F
    <3>2. f[n] = F[f[n - 1]]
      BY <1>2, <3>1
    <3>3. F[f[n - 1]] = LookOn(f[n - 1])
      BY <3>1 DEF F
    <3>4. QED
      BY <3>2, <3>3
  <2>2. QED
    BY <2>1
<1>4. Is(f)
  <2>1. f = [n \in Nat |-> IF n = 0 THEN x ELSE LookOn(f[n - 1])]
    BY <1>2, <1>3
  <2>2. QED
    BY <2>1 DEF LookOn
<1> DEFINE P == CHOOSE p : Is(p)
<1>5. Is(P)
  <2> HIDE DEF Is
  <2>1. QED
    BY <1>4
<1>6. AddBusinessDays(m) = P[3 * BusinessDays].at
  BY DEF AddBusinessDays
<1>7. P[0] = x /\ \A n \in Nat : P[n + 1] = LookOn(P[n])
  <2> HIDE DEF P
  <2>1. P = [n \in Nat |-> IF n = 0 THEN x ELSE LookOn(P[n - 1])]
    BY <1>5 DEF LookOn
  <2>2. \A n \in Nat : n + 1 \in Nat /\ n + 1 # 0 /\ (n + 1) - 1 = n
    OBVIOUS
  <2> HIDE DEF x
  <2>3. QED
    BY <2>1, <2>2
<1> HIDE DEF P, Is
<1>8. QED
  BY <1>6, <1>7

(* Where the loop has come to after n rounds: to the n-th day, or to the    *)
(* working day it was looking for.                                          *)
Come(m, s, n) == \E k \in 0..n :
    /\ s.at = DaysAfter(m, k) /\ s.left \in 0..BusinessDays
    /\ Worked(m, k) + s.left = BusinessDays
    /\ IF s.left = 0 THEN k > 0 /\ WorkingDay(s.at) ELSE k = n

LEMMA ComeOn ==
    ASSUME NEW m \in Nat, NEW n \in Nat, NEW s, Come(m, s, n)
    PROVE  Come(m, LookOn(s), n + 1)
<1>1. PICK k \in 0..n :
             /\ s.at = DaysAfter(m, k) /\ s.left \in 0..BusinessDays
             /\ Worked(m, k) + s.left = BusinessDays
             /\ IF s.left = 0 THEN k > 0 /\ WorkingDay(s.at) ELSE k = n
  BY DEF Come
<1>2. CASE s.left = 0
  <2>1. LookOn(s) = s /\ k \in 0..n + 1
    BY <1>2 DEF LookOn
  <2>2. QED
    BY <1>1, <1>2, <2>1 DEF Come
<1>3. CASE s.left # 0
  <2>1. k = n /\ s.at + DayLength = DaysAfter(m, n + 1)
    BY <1>1, <1>3, DaysLater
  <2>2. /\ LookOn(s).at = DaysAfter(m, n + 1)
        /\ LookOn(s).left = IF WorkingDay(DaysAfter(m, n + 1)) THEN s.left - 1 ELSE s.left
    BY <1>3, <2>1 DEF LookOn
  <2>3. /\ Worked(m, n) \in Nat
        /\ Worked(m, n + 1) = IF WorkingDay(DaysAfter(m, n + 1)) THEN Worked(m, n) + 1
                              ELSE Worked(m, n)
    BY WorkedStep
  <2>4. LookOn(s).left \in 0..BusinessDays
    BY <1>1, <1>3, <2>2, TimelineAssumption
  <2>5. Worked(m, n + 1) + LookOn(s).left = BusinessDays
    BY <1>1, <2>1, <2>2, <2>3, TimelineAssumption
  <2>6. LookOn(s).left = 0 => WorkingDay(LookOn(s).at)
    BY <1>3, <2>2
  <2>7. n + 1 \in 0..n + 1 /\ n + 1 > 0
    OBVIOUS
  <2>8. QED
    BY <2>2, <2>4, <2>5, <2>6, <2>7 DEF Come
<1>4. QED
  BY <1>2, <1>3

(* A promise is due so many days later that the last of them, and as many   *)
(* of them as the rule says, are working days.                              *)
LEMMA DueIs ==
    ASSUME NEW m \in Nat
    PROVE  \E k \in 1..3 * BusinessDays :
             /\ AddBusinessDays(m) = DaysAfter(m, k)
             /\ WorkingDay(DaysAfter(m, k)) /\ Worked(m, k) = BusinessDays
<1>1. BusinessDays \in Nat \ {0} /\ 3 * BusinessDays \in Nat
  BY TimelineAssumption
<1>2. PICK p : /\ p[0] = [at |-> m, left |-> BusinessDays]
               /\ \A n \in Nat : p[n + 1] = LookOn(p[n])
               /\ AddBusinessDays(m) = p[3 * BusinessDays].at
  BY DueByRounds
<1> DEFINE S == {n \in Nat : Come(m, p[n], n)}
<1>3. 0 \in S
  <2>1. Worked(m, 0) = 0 /\ DaysAfter(m, 0) = m
    BY WorkedStep, DaysLater
  <2>2. QED
    BY <1>1, <1>2, <2>1 DEF Come
<1>4. ASSUME NEW n \in S
      PROVE  n + 1 \in S
  BY <1>2, ComeOn
<1>5. S = Nat
  <2>1. S \in SUBSET Nat
    OBVIOUS
  <2> HIDE DEF S
  <2>2. QED
    BY <1>3, <1>4, <2>1, Induction
<1>6. Come(m, p[3 * BusinessDays], 3 * BusinessDays)
  BY <1>1, <1>5
<1> DEFINE s == p[3 * BusinessDays]
<1>7. PICK k \in 0..3 * BusinessDays :
             /\ s.at = DaysAfter(m, k) /\ s.left \in 0..BusinessDays
             /\ Worked(m, k) + s.left = BusinessDays
             /\ IF s.left = 0 THEN k > 0 /\ WorkingDay(s.at) ELSE k = 3 * BusinessDays
  BY <1>6 DEF Come
<1> HIDE DEF s
<1>8. s.left = 0
  <2> SUFFICES ASSUME s.left # 0
               PROVE  FALSE
    OBVIOUS
  <2>1. k = 3 * BusinessDays /\ Worked(m, k) >= BusinessDays
    <3>1. k = 3 * BusinessDays
      BY <1>7
    <3>2. \A n \in Nat : Worked(m, 3 * n) >= n
      BY ThirdDayCounts
    <3>3. QED
      BY <1>1, <3>1, <3>2
  <2>2. Worked(m, k) \in Nat /\ s.left \in Nat
    <3>1. k \in Nat /\ s.left \in Nat
      BY <1>1, <1>7
    <3>2. QED
      BY <3>1, WorkedStep
  <2>3. QED
    BY <1>1, <1>7, <2>1, <2>2
<1>9. k \in 1..3 * BusinessDays
  BY <1>1, <1>7, <1>8
<1>10. Worked(m, k) \in Nat
  BY <1>1, <1>7, WorkedStep
<1>11. QED
  BY <1>1, <1>2, <1>7, <1>8, <1>9, <1>10 DEF s

-----------------------------------------------------------------------------
(* The customer's story, and what a run makes of the promises in it.       *)

Side == {"inbound", "outbound"}
Kinds == {"abandoned", "unrecorded_answered", "recorded_call", "message"}

\* The contacts and the rows there may be at a moment.
ContactsTo(t) ==
    [channel : {"call", "message"}, direction : Side, kind : Kinds, at : 0..t, end : Nat,
     messages : Seq([at : 0..t, direction : Side]),
     outcome : {"none", "resolved", "not_resolved"}, promise : Nat]
RowsTo(t) == [at : 0..t, banker : DOMAIN Bankers, op : STRING]

\* Nothing is later than the last moment, and a promise in a correspondence
\* stands in one of its messages.
StoryOK ==
    /\ now \in Nat
    /\ contacts \in Seq(ContactsTo(now))
    /\ \A i \in DOMAIN contacts : contacts[i].channel = "message"
                                    => contacts[i].promise <= Len(contacts[i].messages)
    /\ rows \in Seq(RowsTo(now))

LEMMA SeqWithin ==
    ASSUME NEW S, NEW T, S \subseteq T, NEW s \in Seq(S)
    PROVE  s \in Seq(T)
OBVIOUS

LEMMA SeqIs ==
    ASSUME NEW S, NEW s \in Seq(S)
    PROVE  Len(s) \in Nat /\ DOMAIN s = 1..Len(s) /\ \A i \in DOMAIN s : s[i] \in S
OBVIOUS

LEMMA EmptySeq ==
    ASSUME NEW S
    PROVE  <<>> \in Seq(S)
OBVIOUS

LEMMA LaterHolds ==
    ASSUME StoryOK, Later
    PROVE  /\ now' \in Nat /\ now <= now'
           /\ contacts \in Seq(ContactsTo(now')) /\ rows \in Seq(RowsTo(now'))
<1>1. now' \in Nat /\ now \in Nat /\ now <= now'
  BY TimelineAssumption DEF StoryOK, Later
<1>2. ContactsTo(now) \subseteq ContactsTo(now')
  <2>1. Seq([at : 0..now, direction : Side]) \subseteq Seq([at : 0..now', direction : Side])
    <3>1. [at : 0..now, direction : Side] \subseteq [at : 0..now', direction : Side]
      BY <1>1
    <3>2. QED
      BY <3>1, SeqWithin
  <2>2. 0..now \subseteq 0..now'
    BY <1>1
  <2>3. QED
    BY <2>1, <2>2 DEF ContactsTo
<1>3. RowsTo(now) \subseteq RowsTo(now')
  BY <1>1 DEF RowsTo
<1>4. QED
  BY <1>1, <1>2, <1>3, SeqWithin DEF StoryOK

LEMMA CallKeepsStory ==
    ASSUME StoryOK, NEW direction \in Side, NEW kind \in Kinds,
           NEW outcome \in {"none", "resolved", "not_resolved"}, NEW promise \in Nat,
           Call(direction, kind, outcome, promise)
    PROVE  StoryOK'
<1>1. /\ now' \in Nat /\ now <= now'
      /\ contacts \in Seq(ContactsTo(now')) /\ rows \in Seq(RowsTo(now'))
  BY LaterHolds DEF Call
<1> DEFINE none == <<>>
           c == Contact("call", direction, kind, now', now' + 1, none, outcome, promise)
<1>2. c \in ContactsTo(now') /\ c.channel = "call"
  <2>1. now' + 1 \in Nat /\ now' \in 0..now'
    <3>1. \A n \in Nat : n + 1 \in Nat /\ n \in 0..n
      OBVIOUS
    <3>2. now' \in Nat
      BY <1>1
    <3>3. QED
      BY <3>1, <3>2, Zenon
  <2>2. none \in Seq([at : 0..now', direction : Side])
    BY EmptySeq
  <2> HIDE DEF none
  <2>3. QED
    BY <2>1, <2>2 DEF ContactsTo, Contact
<1>3. contacts' = Append(contacts, c) /\ rows' = rows
  BY DEF Call
<1> HIDE DEF c
<1>4. contacts' \in Seq(ContactsTo(now'))
  BY <1>1, <1>2, <1>3
<1>5. ASSUME NEW i \in DOMAIN contacts', contacts'[i].channel = "message"
      PROVE  contacts'[i].promise <= Len(contacts'[i].messages)
  <2>1. i \in DOMAIN contacts /\ contacts'[i] = contacts[i]
    BY <1>1, <1>2, <1>3, <1>5
  <2>2. QED
    BY <1>5, <2>1 DEF StoryOK
<1>6. QED
  BY <1>1, <1>3, <1>4, <1>5 DEF StoryOK

LEMMA WriteKeepsStory ==
    ASSUME StoryOK, NEW direction \in Side, Write(direction)
    PROVE  StoryOK'
<1>1. /\ now' \in Nat /\ now <= now'
      /\ contacts \in Seq(ContactsTo(now')) /\ rows \in Seq(RowsTo(now'))
  BY LaterHolds DEF Write
<1> DEFINE c == Contact("message", direction, "message", now', now',
                        <<[at |-> now', direction |-> direction]>>, "none", 0)
<1>2. c \in ContactsTo(now') /\ c.promise <= Len(c.messages)
  <2>1. <<[at |-> now', direction |-> direction]>> \in Seq([at : 0..now', direction : Side])
    BY <1>1
  <2>2. QED
    BY <1>1, <2>1 DEF ContactsTo, Contact, Kinds
<1>3. contacts' = Append(contacts, c) /\ rows' = rows
  BY DEF Write
<1> HIDE DEF c
<1>4. contacts' \in Seq(ContactsTo(now'))
  BY <1>1, <1>2, <1>3
<1>5. ASSUME NEW i \in DOMAIN contacts', contacts'[i].channel = "message"
      PROVE  contacts'[i].promise <= Len(contacts'[i].messages)
  <2>1. CASE i \in DOMAIN contacts
    BY <1>1, <1>3, <1>5, <2>1 DEF StoryOK
  <2>2. CASE i \notin DOMAIN contacts
    <3>1. contacts'[i] = c
      BY <1>1, <1>3, <2>2
    <3>2. QED
      BY <1>2, <3>1
  <2>3. QED
    BY <2>1, <2>2
<1>6. QED
  BY <1>1, <1>3, <1>4, <1>5 DEF StoryOK

LEMMA ReplyKeepsStory ==
    ASSUME StoryOK, NEW direction \in Side, NEW promises \in BOOLEAN, Reply(direction, promises)
    PROVE  StoryOK'
<1>1. /\ now' \in Nat /\ now <= now'
      /\ contacts \in Seq(ContactsTo(now')) /\ rows \in Seq(RowsTo(now'))
  BY LaterHolds DEF Reply
<1> DEFINE m == [at |-> now', direction |-> direction]
           n(i) == Len(contacts[i].messages) + 1
<1>2. PICK i \in DOMAIN contacts :
           contacts' = [contacts EXCEPT ![i].messages = Append(@, m),
                                        ![i].promise = IF promises THEN n(i) ELSE @]
  BY DEF Reply
<1>3. contacts[i] \in ContactsTo(now') /\ i \in 1..Len(contacts)
  BY <1>1
<1> DEFINE c == [contacts[i] EXCEPT !.messages = Append(@, m),
                                    !.promise = IF promises THEN n(i) ELSE @]
<1>4. contacts' = [contacts EXCEPT ![i] = c]
  BY <1>1, <1>2, <1>3 DEF ContactsTo
<1>5. /\ contacts[i].messages \in Seq([at : 0..now', direction : Side])
      /\ m \in [at : 0..now', direction : Side]
  BY <1>1, <1>3 DEF ContactsTo
<1>6. /\ Append(contacts[i].messages, m) \in Seq([at : 0..now', direction : Side])
      /\ Len(Append(contacts[i].messages, m)) = n(i) /\ n(i) \in Nat
  BY <1>5
<1> HIDE DEF m
<1>7. c.messages = Append(contacts[i].messages, m)
      /\ c.promise = (IF promises THEN n(i) ELSE contacts[i].promise)
      /\ c.channel = contacts[i].channel
  BY <1>3 DEF ContactsTo
<1>8. c \in ContactsTo(now')
  BY <1>3, <1>6 DEF ContactsTo
<1>9. c.channel = "message" => c.promise <= Len(c.messages)
  <2>1. contacts[i].channel = "message" => contacts[i].promise <= Len(contacts[i].messages)
    BY <1>3 DEF StoryOK
  <2>2. contacts[i].promise \in Nat
    BY <1>3 DEF ContactsTo
  <2> HIDE DEF c
  <2>3. QED
    BY <1>6, <1>7, <2>1, <2>2
<1> HIDE DEF c
<1>10. contacts' \in Seq(ContactsTo(now')) /\ DOMAIN contacts' = DOMAIN contacts
  BY <1>1, <1>3, <1>4, <1>8
<1>11. ASSUME NEW j \in DOMAIN contacts', contacts'[j].channel = "message"
       PROVE  contacts'[j].promise <= Len(contacts'[j].messages)
  <2>1. contacts'[j] = IF j = i THEN c ELSE contacts[j]
    BY <1>4, <1>10
  <2>2. QED
    BY <1>9, <1>10, <1>11, <2>1 DEF StoryOK
<1>12. rows' = rows
  BY DEF Reply
<1>13. QED
  BY <1>1, <1>10, <1>11, <1>12 DEF StoryOK

LEMMA ActKeepsStory ==
    ASSUME StoryOK, NEW burst \in Bursts, NEW forwards \in BOOLEAN, Act(burst, forwards)
    PROVE  StoryOK'
<1>1. /\ now' \in Nat /\ now <= now'
      /\ contacts \in Seq(ContactsTo(now')) /\ rows \in Seq(RowsTo(now'))
  BY LaterHolds DEF Act
<1> DEFINE new == [i \in DOMAIN burst |->
                     [at |-> now', banker |-> burst[i].banker, op |-> burst[i].op]]
<1>2. burst \in Seq([banker : DOMAIN Bankers, op : STRING])
  BY TimelineAssumption
<1>3. new \in Seq(RowsTo(now'))
  <2>1. Len(burst) \in Nat /\ DOMAIN burst = 1..Len(burst)
        /\ \A i \in DOMAIN burst : burst[i] \in [banker : DOMAIN Bankers, op : STRING]
    BY <1>2, SeqIs, Zenon
  <2>2. \A i \in DOMAIN burst : new[i] \in RowsTo(now')
    BY <1>1, <2>1 DEF RowsTo
  <2> HIDE DEF new
  <2>3. new \in [1..Len(burst) -> RowsTo(now')]
    BY <2>1, <2>2 DEF new
  <2>4. QED
    BY <2>1, <2>2, <2>3
<1>4. rows' = (IF forwards THEN rows \o new ELSE new \o rows) /\ contacts' = contacts
  BY DEF Act
<1> HIDE DEF new
<1>5. rows' \in Seq(RowsTo(now'))
  BY <1>1, <1>3, <1>4
<1>6. QED
  BY <1>1, <1>4, <1>5 DEF StoryOK

LEMMA StepKeepsStory ==
    ASSUME StoryOK, [Next]_vars
    PROVE  StoryOK'
<1>1. ASSUME Call("inbound", "abandoned", "none", 0)
      PROVE  StoryOK'
  BY <1>1, CallKeepsStory DEF Side, Kinds
<1>2. ASSUME Call("inbound", "unrecorded_answered", "none", 0)
      PROVE  StoryOK'
  BY <1>2, CallKeepsStory DEF Side, Kinds
<1>3. ASSUME NEW outcome \in {"resolved", "not_resolved"},
             Call("inbound", "recorded_call", outcome, 0)
      PROVE  StoryOK'
  BY <1>3, CallKeepsStory DEF Side, Kinds
<1>4. ASSUME NEW direction \in {"inbound", "outbound"},
             Call(direction, "recorded_call", "none", 1)
      PROVE  StoryOK'
  BY <1>4, CallKeepsStory DEF Side, Kinds
<1>5. ASSUME NEW direction \in {"inbound", "outbound"}, Write(direction)
      PROVE  StoryOK'
  BY <1>5, WriteKeepsStory DEF Side
<1>6. ASSUME NEW direction \in Side, NEW promises \in BOOLEAN, Reply(direction, promises)
      PROVE  StoryOK'
  BY <1>6, ReplyKeepsStory
<1>7. ASSUME NEW burst \in Bursts, NEW forwards \in BOOLEAN, Act(burst, forwards)
      PROVE  StoryOK'
  BY <1>7, ActKeepsStory
<1>8. ASSUME Run \/ Over \/ UNCHANGED vars
      PROVE  StoryOK'
  <2>1. now' = now /\ contacts' = contacts /\ rows' = rows
    BY <1>8 DEF Run, Over, vars
  <2>2. QED
    BY <2>1 DEF StoryOK
<1>9. QED
  BY <1>1, <1>2, <1>3, <1>4, <1>5, <1>6, <1>7, <1>8 DEF Next, Side

(* The smallest of some moments, or none. *)
LEMMA EarliestOf ==
    ASSUME NEW S \in SUBSET Nat
    PROVE  /\ S = {} => NoEarlier(S) = NoTime
           /\ S # {} => /\ NoEarlier(S) # NoTime /\ NoEarlier(S) \in S
                        /\ \A y \in S : NoEarlier(S) <= y
<1>1. ASSUME S # {}
      PROVE  Min(S) \in S /\ \A y \in S : Min(S) <= y
  BY <1>1, SmallestIn DEF Min
<1>2. NoTime \notin Nat
  BY TimelineAssumption
<1>3. QED
  BY <1>1, <1>2 DEF NoEarlier

LEMMA PromiseTimeType ==
    ASSUME StoryOK, NEW i \in Promises
    PROVE  PromiseTime(contacts[i]) \in Nat /\ contacts[i] \in ContactsTo(now)
<1>1. contacts[i] \in ContactsTo(now) /\ i \in DOMAIN contacts /\ contacts[i].promise > 0
  BY DEF Promises, StoryOK
<1>2. CASE contacts[i].channel = "message"
  <2>1. contacts[i].promise \in Nat /\ contacts[i].messages \in Seq([at : 0..now, direction : Side])
    BY <1>1 DEF ContactsTo
  <2>2. contacts[i].promise \in 1..Len(contacts[i].messages)
    BY <1>1, <1>2, <2>1 DEF StoryOK
  <2>3. contacts[i].messages[contacts[i].promise] \in [at : 0..now, direction : Side]
    <3>1. contacts[i].promise \in DOMAIN contacts[i].messages
      BY <2>1, <2>2
    <3>2. QED
      BY <2>1, <3>1, SeqIs, Zenon
  <2>4. contacts[i].messages[contacts[i].promise].at \in Nat
    <3>1. now \in Nat
      BY DEF StoryOK
    <3>2. QED
      BY <2>3, <3>1
  <2>5. QED
    BY <1>1, <1>2, <2>4 DEF PromiseTime
<1>3. CASE contacts[i].channel # "message"
  <2>1. contacts[i].end \in Nat
    BY <1>1 DEF ContactsTo
  <2>2. QED
    BY <1>1, <1>3, <2>1 DEF PromiseTime
<1>4. QED
  BY <1>2, <1>3

(* The customer's next contact after a moment is later than it, and no      *)
(* contact of his is between the two.                                       *)
LEMMA NextIs ==
    ASSUME StoryOK, NEW made \in Nat
    PROVE  /\ NextContactAfter(made) # NoTime =>
                /\ NextContactAfter(made) \in Nat
                /\ \E c \in ToSet(contacts) : /\ made < c.at /\ c.direction = "inbound"
                                              /\ NextContactAfter(made) = c.at
           /\ \A c \in ToSet(contacts) : made < c.at /\ c.direction # "outbound" =>
                NextContactAfter(made) # NoTime /\ NextContactAfter(made) <= c.at
<1> DEFINE Returns == {c \in ToSet(contacts) : c.at > made /\ c.direction # "outbound"}
           S == {c.at : c \in Returns}
<1>1. \A c \in ToSet(contacts) : c \in ContactsTo(now)
  BY DEF ToSet, StoryOK
<1>2. \A c \in ToSet(contacts) : c.at \in Nat /\ c.direction \in {"inbound", "outbound"}
  BY <1>1 DEF ContactsTo, StoryOK, Side
<1>3. S \in SUBSET Nat
  BY <1>2
<1>4. NextContactAfter(made) = NoEarlier(S)
  BY DEF NextContactAfter
<1>5. \A y \in S : \E c \in ToSet(contacts) : made < c.at /\ c.direction = "inbound" /\ y = c.at
  BY <1>2
<1>6. \A c \in ToSet(contacts) : made < c.at /\ c.direction # "outbound" => c.at \in S
  BY <1>2
<1> HIDE DEF S
<1>7. QED
  BY <1>3, <1>4, <1>5, <1>6, EarliestOf

\* The bank does something at a moment: it calls or writes, or executes.
Acts(t) ==
    \/ \E r \in ToSet(rows) : r.at = t /\ r.op = "execute"
    \/ \E c \in ToSet(contacts) :
         \/ c.at = t /\ c.direction = "outbound"
         \/ \E m \in ToSet(c.messages) : m.at = t /\ m.direction = "outbound"

LEMMA ActedIs ==
    ASSUME StoryOK, NEW made \in Nat, NEW to \in Nat, BankActed(made, to) # NoTime
    PROVE  \E t \in made + 1 .. now : t <= to /\ Acts(t)
<1> DEFINE outbound == {c.at : c \in {c \in ToSet(contacts) : c.direction = "outbound"}}
           replies == UNION {{m.at : m \in {m \in ToSet(c.messages) : m.direction = "outbound"}} :
                               c \in ToSet(contacts)}
           executed == {r.at : r \in {r \in ToSet(rows) : r.op = "execute"}}
           S == {t \in outbound \cup replies \cup executed : made < t /\ t <= to}
<1>1. \A c \in ToSet(contacts) : c \in ContactsTo(now)
  BY DEF ToSet, StoryOK
<1>2. \A t \in outbound : t \in 0..now /\ Acts(t)
  BY <1>1 DEF ContactsTo, Acts
<1>3. \A t \in replies : t \in 0..now /\ Acts(t)
  <2>1. ASSUME NEW c \in ToSet(contacts), NEW m \in ToSet(c.messages)
        PROVE  m.at \in 0..now
    <3>1. c.messages \in Seq([at : 0..now, direction : Side])
      BY <1>1 DEF ContactsTo
    <3>2. m \in [at : 0..now, direction : Side]
      <4> DEFINE Messages == [at : 0..now, direction : Side]
      <4> HIDE DEF Messages
      <4>1. c.messages \in Seq(Messages)
        BY <3>1 DEF Messages
      <4>2. m \in Messages
        BY <4>1, SeqIs DEF ToSet
      <4>3. QED
        BY <4>2 DEF Messages
    <3>3. QED
      BY <3>2
  <2>2. QED
    BY <2>1 DEF Acts
<1>4. \A t \in executed : t \in 0..now /\ Acts(t)
  <2>1. \A r \in ToSet(rows) : r \in RowsTo(now)
    BY DEF ToSet, StoryOK
  <2>2. \A r \in ToSet(rows) : r.at \in 0..now
    BY <2>1 DEF RowsTo
  <2>3. QED
    BY <2>2 DEF Acts
<1>5. BankActed(made, to) = NoEarlier(S)
  BY DEF BankActed
<1> HIDE DEF outbound, replies, executed
<1>6. \A t \in S : t \in made + 1 .. now /\ t <= to /\ Acts(t)
  BY <1>2, <1>3, <1>4 DEF StoryOK
<1>7. S \in SUBSET Nat
  BY <1>6
<1> HIDE DEF S
<1>8. NoEarlier(S) \in S
  BY <1>5, <1>7, EarliestOf
<1>9. QED
  BY <1>6, <1>8

\* The last run, when nothing happened since, says what the rules say.
ReportOK ==
    fresh => \A i \in DOMAIN contacts :
      /\ report.promises[i] = (IF i \in Promises THEN CheckPromise(contacts[i]) ELSE "none")
      /\ report.classes[i] = ObjectiveClass(i)

LEMMA NothingBeforeThat ==
    ASSUME StoryOK, NEW i \in Promises, CheckPromise(contacts[i]) = "kept"
    PROVE  \E t \in PromiseTime(contacts[i]) + 1 .. now :
             /\ Acts(t)
             /\ \A c \in ToSet(contacts) :
                  PromiseTime(contacts[i]) < c.at /\ c.at < t => c.direction = "outbound"
<1> DEFINE made == PromiseTime(contacts[i])
           due == AddBusinessDays(made)
           next == NextContactAfter(made)
           horizon == IF next # NoTime /\ next < due THEN next ELSE due
<1>1. made \in Nat
  BY PromiseTimeType
<1>2. due \in Nat
  <2> HIDE DEF made
  <2>1. PICK k \in 1..3 * BusinessDays : due = DaysAfter(made, k)
    BY <1>1, DueIs
  <2>2. k \in Nat
    OBVIOUS
  <2> HIDE DEF due
  <2>3. QED
    BY <1>1, <2>1, <2>2, DaysLater
<1>3. BankActed(made, horizon) # NoTime
  BY DEF CheckPromise
<1> HIDE DEF made, due
<1>4. next # NoTime => next \in Nat
  BY <1>1, NextIs
<1> HIDE DEF next
<1>5. horizon \in Nat
  BY <1>2, <1>4
<1>6. PICK t \in made + 1 .. now : t <= horizon /\ Acts(t)
  <2> HIDE DEF horizon
  <2>1. QED
    BY <1>1, <1>3, <1>5, ActedIs
<1>7. ASSUME NEW c \in ToSet(contacts), made < c.at, c.at < t, c.direction # "outbound"
      PROVE  FALSE
  <2>1. next # NoTime /\ next <= c.at
    BY <1>1, <1>7, NextIs DEF next
  <2>2. c.at \in Nat
    <3>1. c \in ContactsTo(now)
      BY DEF ToSet, StoryOK
    <3>2. QED
      BY <3>1 DEF ContactsTo, StoryOK
  <2>3. QED
    BY <1>1, <1>2, <1>4, <1>6, <1>7, <2>1, <2>2
<1>8. QED
  BY <1>6, <1>7 DEF made

LEMMA KeptIsFirst ==
    ASSUME StoryOK, ReportOK
    PROVE  KeptFirst
<1> SUFFICES ASSUME fresh, NEW i \in Promises, report.promises[i] = "kept"
             PROVE  \E t \in PromiseTime(contacts[i]) + 1 .. now :
                      /\ Acts(t)
                      /\ \A c \in ToSet(contacts) :
                           PromiseTime(contacts[i]) < c.at /\ c.at < t
                             => c.direction = "outbound"
  BY DEF KeptFirst, Acts
<1>1. i \in DOMAIN contacts
  BY DEF Promises
<1>2. CheckPromise(contacts[i]) = "kept"
  BY <1>1 DEF ReportOK
<1>3. QED
  BY <1>2, NothingBeforeThat

LEMMA DueIsAWorkingDay ==
    ASSUME StoryOK
    PROVE  DueOnAWorkingDay
<1> SUFFICES ASSUME NEW m \in Nat
             PROVE  LET due == AddBusinessDays(m)
                        days == {d \in 1 .. 3 * BusinessDays : m + d * DayLength <= due}
                    IN  /\ WorkingDay(due)
                        /\ (due - m) % DayLength = 0
                        /\ Cardinality({d \in days : WorkingDay(m + d * DayLength)}) = BusinessDays
  BY PromiseTimeType DEF DueOnAWorkingDay
<1>1. PICK k \in 1..3 * BusinessDays :
             /\ AddBusinessDays(m) = DaysAfter(m, k)
             /\ WorkingDay(DaysAfter(m, k)) /\ Worked(m, k) = BusinessDays
  BY DueIs
<1> DEFINE due == AddBusinessDays(m)
           days == {d \in 1 .. 3 * BusinessDays : m + d * DayLength <= due}
<1>2. DayLength \in Nat \ {0} /\ k \in Nat /\ 3 * BusinessDays \in Nat
  BY TimelineAssumption
<1>3. due = m + k * DayLength
  BY <1>1 DEF DaysAfter
<1>4. (due - m) % DayLength = 0
  <2>1. due - m = k * DayLength
    BY <1>2, <1>3
  <2>2. (k * DayLength) % DayLength = 0
    BY <1>2
  <2>3. QED
    BY <2>1, <2>2
<1>5. \A d \in Nat : m + d * DayLength <= m + k * DayLength <=> d <= k
  BY <1>2
<1>6. days = 1..k
  BY <1>2, <1>3, <1>5
<1>7. {d \in days : WorkingDay(m + d * DayLength)} = {d \in 1..k : WorkingDay(DaysAfter(m, d))}
  BY <1>6 DEF DaysAfter
<1> HIDE DEF days, due
<1>8. QED
  BY <1>1, <1>4, <1>7 DEF Worked, due, days

LEMMA NoVerdictWithoutData ==
    ASSUME StoryOK, ReportOK
    PROVE  NoDataIsNoVerdict
<1> SUFFICES ASSUME fresh, ~covered, NEW i \in DOMAIN contacts
             PROVE  /\ report.classes[i] \notin {"answered_execute", "answered_info",
                                                 "answered_no_trace"}
                    /\ i \in Promises /\ report.promises[i] = "broken" =>
                         \E c \in ToSet(contacts) :
                           PromiseTime(contacts[i]) < c.at /\ c.direction = "inbound"
  BY DEF NoDataIsNoVerdict
<1>1. contacts[i].kind \in Kinds /\ contacts[i].direction \in Side
  <2>1. contacts[i] \in ContactsTo(now)
    BY DEF StoryOK
  <2>2. QED
    BY <2>1 DEF ContactsTo
<1>2. ObjectiveClass(i) \in {"abandoned", "bank_initiated", "content", "unrecorded_no_cover"}
  BY <1>1 DEF ObjectiveClass, TraceOf, HasContent, Kinds, Side
<1>3. report.classes[i] = ObjectiveClass(i)
  BY DEF ReportOK
<1>4. ASSUME i \in Promises, report.promises[i] = "broken"
      PROVE  \E c \in ToSet(contacts) :
               PromiseTime(contacts[i]) < c.at /\ c.direction = "inbound"
  <2>1. CheckPromise(contacts[i]) = "broken"
    BY <1>4 DEF ReportOK
  <2> DEFINE made == PromiseTime(contacts[i])
             next == NextContactAfter(made)
  <2>2. next # NoTime
    BY <2>1 DEF CheckPromise
  <2>3. made \in Nat
    BY <1>4, PromiseTimeType
  <2>4. QED
    BY <2>2, <2>3, NextIs
<1>5. QED
  BY <1>2, <1>3, <1>4

(* A run reads the story and changes nothing in it.  (The prover compares   *)
(* two CASE expressions by their first arms: an equality of two goes by the *)
(* guards here.)                                                            *)
LEMMA RunReads ==
    ASSUME contacts' = contacts, rows' = rows, covered' = covered
    PROVE  /\ Promises' = Promises /\ BuildSessions' = BuildSessions
           /\ \A made : NextContactAfter(made)' = NextContactAfter(made)
           /\ \A from, to : BankActed(from, to)' = BankActed(from, to)
           /\ DataEnd' = DataEnd /\ Candidates' = Candidates
<1>1. Promises' = Promises
  BY DEF Promises
<1>2. BuildSessions' = BuildSessions
  <2>1. ByTime(DOMAIN rows)' = ByTime(DOMAIN rows)
    BY DEF ByTime, Ranked
  <2> DEFINE ordered == [i \in DOMAIN ByTime(DOMAIN rows) |-> rows[ByTime(DOMAIN rows)[i]]]
  <2>2. ordered' = ordered
    BY <2>1
  <2>3. Grouped(ordered)' = Grouped(ordered)
    <3> HIDE DEF ordered
    <3>1. QED
      BY <2>2
  <2>4. QED
    BY <2>3 DEF BuildSessions
<1>3. ASSUME NEW made
      PROVE  NextContactAfter(made)' = NextContactAfter(made)
  BY DEF NextContactAfter
<1>4. ASSUME NEW from, NEW to
      PROVE  BankActed(from, to)' = BankActed(from, to)
  BY DEF BankActed
<1>5. DataEnd' = DataEnd
  BY DEF DataEnd
<1>6. Candidates' = Candidates
  BY DEF Candidates
<1>7. QED
  BY <1>1, <1>2, <1>3, <1>4, <1>5, <1>6

LEMMA SamePromise ==
    ASSUME contacts' = contacts, rows' = rows, covered' = covered, NEW i \in DOMAIN contacts
    PROVE  CheckPromise(contacts[i])' = CheckPromise(contacts[i])
<1> DEFINE made == PromiseTime(contacts[i])
           due == AddBusinessDays(made)
           next == NextContactAfter(made)
           horizon == IF next # NoTime /\ next < due THEN next ELSE due
           acted == BankActed(made, horizon) # NoTime
           back == next # NoTime /\ next <= due
           seen == covered /\ DataEnd >= due
<1>1. made' = made
  BY DEF PromiseTime
<1>2. due' = due
  <2> HIDE DEF made
  <2>1. QED
    BY <1>1
<1>3. next' = next
  <2>1. NextContactAfter(made)' = NextContactAfter(made)
    BY <1>1 DEF NextContactAfter
  <2>2. QED
    BY <2>1
<1>4. acted' = acted /\ back' = back /\ seen' = seen
  <2>1. DataEnd' = DataEnd
    BY RunReads
  <2> HIDE DEF made, due, next
  <2>2. horizon' = horizon
    BY <1>2, <1>3
  <2> HIDE DEF horizon
  <2>3. BankActed(made, horizon)' = BankActed(made, horizon)
    BY <1>1, <2>2 DEF BankActed
  <2>4. QED
    BY <1>2, <1>3, <2>1, <2>3
<1>5. CheckPromise(contacts[i]) = IF acted THEN "kept"
                                  ELSE IF back THEN "broken"
                                  ELSE IF seen THEN "broken" ELSE "unknown"
  BY DEF CheckPromise
<1>6. CheckPromise(contacts[i])' = IF acted' THEN "kept"
                                   ELSE IF back' THEN "broken"
                                   ELSE IF seen' THEN "broken" ELSE "unknown"
  BY DEF CheckPromise
<1> HIDE DEF acted, back, seen
<1>7. QED
  BY <1>4, <1>5, <1>6

LEMMA SameClass ==
    ASSUME contacts' = contacts, rows' = rows, covered' = covered, NEW i \in DOMAIN contacts
    PROVE  ObjectiveClass(i)' = ObjectiveClass(i)
<1>1. BuildSessions' = BuildSessions /\ Candidates' = Candidates
  BY RunReads
<1>2. ASSUME NEW s
      PROVE  ServedBy(s)' = ServedBy(s)
  BY <1>1 DEF ServedBy
<1>3. SessionsFor(i)' = SessionsFor(i)
  <2>1. \A s \in DOMAIN BuildSessions : ServedBy(BuildSessions[s])' = ServedBy(BuildSessions[s])
    <3>1. ASSUME NEW s \in DOMAIN BuildSessions
          PROVE  ServedBy(BuildSessions[s])' = ServedBy(BuildSessions[s])
      BY <1>1 DEF ServedBy
    <3>2. QED
      BY <3>1
  <2>2. QED
    BY <1>1, <2>1 DEF SessionsFor
<1>4. TraceOf(i)' = TraceOf(i)
  BY <1>1, <1>3 DEF TraceOf
<1> DEFINE c == contacts[i]
           A == c.kind = "abandoned"
           B == c.direction = "outbound"
           C == c.direction = "inbound" /\ HasContent(c)
<1>5. A' = A /\ B' = B /\ C' = C
  BY DEF HasContent
<1>6. CASE A
  <2>1. ObjectiveClass(i) = "abandoned"
    BY <1>6 DEF ObjectiveClass, HasContent
  <2>2. ObjectiveClass(i)' = "abandoned"
    BY <1>5, <1>6 DEF ObjectiveClass, HasContent
  <2>3. QED
    BY <2>1, <2>2
<1>7. CASE ~A /\ B
  <2>1. ObjectiveClass(i) = "bank_initiated"
    BY <1>7 DEF ObjectiveClass
  <2>2. ObjectiveClass(i)' = "bank_initiated"
    BY <1>5, <1>7 DEF ObjectiveClass
  <2>3. QED
    BY <2>1, <2>2
<1>8. CASE ~A /\ ~B /\ C
  <2>1. ObjectiveClass(i) = "content"
    BY <1>8 DEF ObjectiveClass
  <2>2. ObjectiveClass(i)' = "content"
    BY <1>5, <1>8 DEF ObjectiveClass
  <2>3. QED
    BY <2>1, <2>2
<1>9. CASE ~A /\ ~B /\ ~C
  <2>1. ObjectiveClass(i) = TraceOf(i)
    BY <1>9 DEF ObjectiveClass
  <2>2. ObjectiveClass(i)' = TraceOf(i)'
    BY <1>5, <1>9 DEF ObjectiveClass
  <2>3. QED
    BY <1>4, <2>1, <2>2
<1>10. QED
  BY <1>6, <1>7, <1>8, <1>9

LEMMA StepKeepsReport ==
    ASSUME ReportOK, [Next]_vars
    PROVE  ReportOK'
<1> SUFFICES ASSUME fresh', NEW i \in DOMAIN contacts'
             PROVE  /\ report'.promises[i] = (IF (i \in Promises)' THEN CheckPromise(contacts[i])'
                                              ELSE "none")
                    /\ report'.classes[i] = ObjectiveClass(i)'
  BY DEF ReportOK
<1>1. CASE Run
  <2>1. contacts' = contacts /\ rows' = rows /\ covered' = covered /\ i \in DOMAIN contacts
    BY <1>1 DEF Run
  <2>2. /\ (i \in Promises)' = (i \in Promises)
        /\ CheckPromise(contacts[i])' = CheckPromise(contacts[i])
        /\ ObjectiveClass(i)' = ObjectiveClass(i)
    BY <2>1, RunReads, SamePromise, SameClass
  <2>3. /\ report'.promises[i] = (IF i \in Promises THEN CheckPromise(contacts[i]) ELSE "none")
        /\ report'.classes[i] = ObjectiveClass(i)
    BY <1>1, <2>1 DEF Run, Of
  <2>4. QED
    BY <2>2, <2>3
<1>2. CASE UNCHANGED vars
  <2>1. contacts' = contacts /\ rows' = rows /\ covered' = covered /\ report' = report /\ fresh
        /\ i \in DOMAIN contacts
    BY <1>2 DEF vars
  <2>2. /\ (i \in Promises)' = (i \in Promises)
        /\ CheckPromise(contacts[i])' = CheckPromise(contacts[i])
        /\ ObjectiveClass(i)' = ObjectiveClass(i)
    BY <2>1, RunReads, SamePromise, SameClass
  <2>3. QED
    BY <2>1, <2>2 DEF ReportOK
<1>3. CASE Later
  BY <1>3 DEF Later
<1>4. QED
  BY <1>1, <1>2, <1>3 DEF Next, Call, Write, Reply, Act, Over

\* Whatever happens on the account and whenever a run looks, its verdicts on
\* the promises are fair: kept by the bank before the customer came back, due
\* on a working day after the days the rule gives, and never broken for want
\* of data (rules.py:97-146, timeparse.py:117-130).
THEOREM FairPromises == Spec => []PromisesAreFair
<1>1. Init => StoryOK /\ ReportOK
  BY EmptySeq DEF Init, StoryOK, ReportOK
<1>2. StoryOK /\ ReportOK /\ [Next]_vars => StoryOK' /\ ReportOK'
  BY StepKeepsStory, StepKeepsReport
<1>3. StoryOK /\ ReportOK => PromisesAreFair
  BY KeptIsFirst, DueIsAWorkingDay, NoVerdictWithoutData DEF PromisesAreFair
<1>4. QED
  BY <1>1, <1>2, <1>3, PTL DEF Spec

-----------------------------------------------------------------------------
(* Totals: what a recursion over the numbers from 0 defines, and so what a *)
(* total is.                                                               *)

(* A function defined by recursion on 0..N, each value made of the number   *)
(* and of the value before.                                                 *)
Makers(N, V) == [1..N -> [V -> V]]
Follows(f, N, V, base, Step) ==
    f \in [0..N -> V] /\ f[0] = base /\ \A n \in 1..N : f[n] = Step[n][f[n - 1]]

LEMMA RecursionExists ==
    ASSUME NEW N \in Nat, NEW V, NEW base \in V, NEW Step, Step \in Makers(N, V)
    PROVE  \E f : Follows(f, N, V, base, Step)
<1> DEFINE Y == [n : 0..N, v : V]
           first == [n |-> 0, v |-> base]
           G == [s \in Y |-> IF s.n < N THEN [n |-> s.n + 1, v |-> Step[s.n + 1][s.v]] ELSE s]
<1>1. first \in Y
  OBVIOUS
<1>2. G \in [Y -> Y]
  <2>1. ASSUME NEW s \in Y
        PROVE  G[s] \in Y
    <3>1. s.n \in 0..N /\ s.v \in V
      OBVIOUS
    <3>2. CASE s.n < N
      <4>1. s.n + 1 \in 1..N
        BY <3>1, <3>2
      <4>2. Step[s.n + 1][s.v] \in V
        BY <3>1, <4>1 DEF Makers
      <4>3. QED
        BY <3>2, <4>1, <4>2
    <3>3. CASE ~(s.n < N)
      BY <3>3
    <3>4. QED
      BY <3>2, <3>3
  <2>2. QED
    BY <2>1
<1>3. PICK g \in [Nat -> Y] : g[0] = first /\ \A n \in Nat : g[n + 1] = G[g[n]]
  <2> HIDE DEF Y, G, first
  <2>1. QED
    BY ONLY <1>1, <1>2, LoopExists
<1> DEFINE S == {n \in Nat : n <= N => g[n].n = n}
<1>4. 0 \in S
  BY <1>3
<1>5. ASSUME NEW n \in S
      PROVE  n + 1 \in S
  <2> SUFFICES ASSUME n + 1 <= N
               PROVE  g[n + 1].n = n + 1
    OBVIOUS
  <2>1. g[n].n = n /\ n < N /\ g[n] \in Y
    BY <1>3
  <2>2. g[n + 1] = [n |-> n + 1, v |-> Step[n + 1][g[n].v]]
    BY <1>3, <2>1
  <2>3. QED
    BY <2>2
<1>6. S = Nat
  <2>1. S \in SUBSET Nat
    OBVIOUS
  <2> HIDE DEF S
  <2>2. QED
    BY <1>4, <1>5, <2>1, Induction
<1> DEFINE f == [n \in 0..N |-> g[n].v]
<1>7. f \in [0..N -> V] /\ f[0] = base
  <2>1. \A n \in 0..N : g[n] \in Y
    BY <1>3
  <2>2. QED
    BY <1>3, <2>1
<1>8. ASSUME NEW n \in 1..N
      PROVE  f[n] = Step[n][f[n - 1]]
  <2>1. n - 1 \in Nat /\ n - 1 < N /\ (n - 1) + 1 = n /\ n - 1 \in 0..N /\ n \in 0..N
    OBVIOUS
  <2>2. g[n - 1].n = n - 1 /\ g[n - 1] \in Y
    <3>1. n - 1 \in S
      BY <1>6, <2>1
    <3>2. QED
      BY <1>3, <2>1, <3>1
  <2>3. g[n] = G[g[n - 1]]
    <3> HIDE DEF G, Y, S
    <3>1. QED
      BY <1>3, <2>1
  <2>4. g[n] = [n |-> n, v |-> Step[n][g[n - 1].v]]
    BY <2>1, <2>2, <2>3
  <2>5. QED
    BY <2>1, <2>4
<1>9. QED
  <2> HIDE DEF f
  <2>1. QED
    BY <1>7, <1>8 DEF Follows

(* The sums of the first numbers of a sequence. *)
SumsOf(f, s) == f \in [0..Len(s) -> Int] /\ f[0] = 0 /\ \A n \in 1..Len(s) : f[n] = f[n - 1] + s[n]

LEMMA TotalIs ==
    ASSUME NEW s, s \in Seq(Int)
    PROVE  \E f : SumsOf(f, s) /\ Total(s) = f[Len(s)]
<1> DEFINE N == Len(s)
           F == [n \in 1..N |-> [v \in Int |-> v + s[n]]]
           Numbers == Int
           zero == 0
<1>1. N \in Nat /\ zero \in Numbers /\ F \in Makers(N, Numbers)
  <2>1. \A i \in 1..N : s[i] \in Int
    OBVIOUS
  <2>2. QED
    BY <2>1 DEF Makers
<1> HIDE DEF F, N, Numbers, zero
<1>2. PICK f : Follows(f, N, Numbers, zero, F)
  BY <1>1, RecursionExists
<1> USE DEF N, Numbers, zero
<1>0. f \in [0..N -> Int] /\ f[0] = 0
  BY <1>2 DEF Follows
<1>3. \A n \in 1..N : f[n] = f[n - 1] + s[n]
  <2>1. ASSUME NEW n \in 1..N
        PROVE  f[n] = f[n - 1] + s[n]
    <3>1. n - 1 \in 0..N /\ f[n - 1] \in Int
      BY <1>1, <1>2 DEF Follows
    <3>2. \A v \in Int : F[n][v] = v + s[n]
      BY DEF F
    <3>3. QED
      BY <1>2, <3>1, <3>2 DEF Follows
  <2>2. QED
    BY <2>1
<1> DEFINE Is(p) == p = [n \in 0..Len(s) |-> IF n = 0 THEN 0 ELSE p[n - 1] + s[n]]
<1>4. Is(f)
  <2>1. f = [n \in 0..N |-> IF n = 0 THEN 0 ELSE f[n - 1] + s[n]]
    BY <1>0, <1>1, <1>3
  <2>2. QED
    BY <2>1
<1> DEFINE P == CHOOSE p : Is(p)
<1>5. Is(P)
  <2> HIDE DEF Is
  <2>1. QED
    BY <1>4
<1>6. Total(s) = P[Len(s)]
  BY DEF Total
<1>7. P[0] = 0 /\ \A n \in 1..N : P[n] = P[n - 1] + s[n]
  <2> HIDE DEF P
  <2>1. QED
    BY <1>1, <1>5
<1> HIDE DEF P
<1> DEFINE S == {n \in Nat : n <= N => P[n] = f[n]}
<1>8. 0 \in S
  BY <1>0, <1>7
<1>9. ASSUME NEW n \in S
      PROVE  n + 1 \in S
  <2> SUFFICES ASSUME n + 1 <= N
               PROVE  P[n + 1] = f[n + 1]
    OBVIOUS
  <2>1. n + 1 \in 1..N /\ (n + 1) - 1 = n /\ P[n] = f[n]
    BY <1>1
  <2> HIDE DEF S, N
  <2>2. QED
    BY <1>3, <1>7, <2>1
<1>10. S = Nat
  <2>1. S \in SUBSET Nat
    OBVIOUS
  <2> HIDE DEF S
  <2>2. QED
    BY <1>8, <1>9, <2>1, Induction
<1>11. Total(s) = f[N]
  BY <1>1, <1>6, <1>10
<1>12. SumsOf(f, s)
  BY <1>0, <1>3 DEF SumsOf
<1>13. QED
  BY <1>11, <1>12

LEMMA NumbersOf ==
    ASSUME NEW s, s \in Seq(Int)
    PROVE  Len(s) \in Nat /\ \A n \in 1..Len(s) : s[n] \in Int
OBVIOUS

(* Sums depend on nothing but the numbers.                                  *)
LEMMA SumsAgree ==
    ASSUME NEW s, s \in Seq(Int), NEW t, t \in Seq(Int), NEW f, SumsOf(f, s), NEW g, SumsOf(g, t),
           NEW m \in Nat, m <= Len(s), m <= Len(t), \A i \in 1..m : s[i] = t[i]
    PROVE  f[m] = g[m]
<1> DEFINE S == {k \in Nat : k <= m => f[k] = g[k]}
<1>0. Len(s) \in Nat /\ Len(t) \in Nat
  BY NumbersOf
<1>1. 0 \in S
  BY DEF SumsOf
<1>2. ASSUME NEW k \in S
      PROVE  k + 1 \in S
  <2> SUFFICES ASSUME k + 1 <= m
               PROVE  f[k + 1] = g[k + 1]
    OBVIOUS
  <2>1. /\ k + 1 \in 1..m /\ k + 1 \in 1..Len(s) /\ k + 1 \in 1..Len(t)
        /\ (k + 1) - 1 = k /\ f[k] = g[k]
    BY <1>0
  <2>2. f[k + 1] = f[k] + s[k + 1] /\ g[k + 1] = g[k] + t[k + 1]
    BY <2>1 DEF SumsOf
  <2>3. QED
    BY <2>1, <2>2
<1>3. S = Nat
  <2>1. S \in SUBSET Nat
    OBVIOUS
  <2> HIDE DEF S
  <2>2. QED
    BY <1>1, <1>2, <2>1, Induction
<1>4. QED
  BY <1>3

(* Nothing adds up to nothing, and integers to an integer.                  *)
LEMMA TotalEmpty == Total(<<>>) = 0 /\ \A s \in Seq(Int) : Total(s) \in Int
<1>1. ASSUME NEW s \in Seq(Int)
      PROVE  Total(s) \in Int /\ (Len(s) = 0 => Total(s) = 0)
  <2>1. PICK f : SumsOf(f, s) /\ Total(s) = f[Len(s)]
    BY TotalIs
  <2>2. Len(s) \in 0..Len(s)
    BY NumbersOf
  <2>3. f[Len(s)] \in Int /\ f[0] = 0
    BY <2>1, <2>2 DEF SumsOf
  <2>4. QED
    BY <2>1, <2>3
<1>2. <<>> \in Seq(Int) /\ Len(<<>>) = 0
  OBVIOUS
<1>3. QED
  BY <1>1, <1>2

(* One number more adds that number; another last number, the difference.  *)
LEMMA TotalLast ==
    ASSUME NEW s, s \in Seq(Int), NEW t, t \in Seq(Int), Len(t) = Len(s) + 1,
           \A i \in 1..Len(s) : s[i] = t[i]
    PROVE  Total(t) = Total(s) + t[Len(t)]
<1>1. PICK f : SumsOf(f, s) /\ Total(s) = f[Len(s)]
  BY TotalIs
<1>2. PICK g : SumsOf(g, t) /\ Total(t) = g[Len(t)]
  BY TotalIs
<1>3. Len(s) \in Nat /\ Len(t) \in 1..Len(t) /\ Len(t) - 1 = Len(s) /\ Len(s) <= Len(t)
  BY NumbersOf
<1>4. f[Len(s)] = g[Len(s)]
  BY <1>1, <1>2, <1>3, SumsAgree
<1>5. g[Len(t)] = g[Len(t) - 1] + t[Len(t)]
  BY <1>2, <1>3 DEF SumsOf
<1>6. QED
  BY <1>1, <1>2, <1>3, <1>4, <1>5

LEMMA TotalWithMore ==
    ASSUME NEW s, s \in Seq(Int), NEW x \in Int
    PROVE  Total(Append(s, x)) = Total(s) + x
<1> DEFINE t == Append(s, x)
<1>1. /\ t \in Seq(Int) /\ Len(t) = Len(s) + 1 /\ \A i \in 1..Len(s) : s[i] = t[i]
      /\ t[Len(t)] = x
  OBVIOUS
<1> HIDE DEF t
<1>2. Total(t) = Total(s) + t[Len(t)]
  BY <1>1, TotalLast
<1>3. QED
  BY <1>1, <1>2 DEF t

LEMMA TotalWithOther ==
    ASSUME NEW s, s \in Seq(Int), Len(s) # 0, NEW t, t \in Seq(Int), Len(t) = Len(s),
           \A i \in 1..Len(s) - 1 : t[i] = s[i]
    PROVE  Total(t) = Total(s) - s[Len(s)] + t[Len(t)]
<1> DEFINE r == SubSeq(s, 1, Len(s) - 1)
<1>1. Len(s) \in Nat /\ s[Len(s)] \in Int /\ t[Len(t)] \in Int
  BY NumbersOf
<1>2. r \in Seq(Int) /\ Len(r) = Len(s) - 1 /\ \A i \in 1..Len(s) - 1 : r[i] = s[i]
  BY <1>1
<1>7. /\ Len(s) = Len(r) + 1 /\ Len(t) = Len(r) + 1
      /\ \A i \in 1..Len(r) : r[i] = s[i] /\ r[i] = t[i]
  BY <1>1, <1>2
<1> HIDE DEF r
<1>3. Total(s) = Total(r) + s[Len(s)]
  BY <1>2, <1>7, TotalLast
<1>4. Total(t) = Total(r) + t[Len(t)]
  BY <1>2, <1>7, TotalLast
<1>5. Total(r) \in Int
  BY <1>2, TotalEmpty
<1>6. QED
  BY <1>1, <1>3, <1>4, <1>5

(* What is two numbers in every place adds up to two totals.                *)
LEMMA TotalSplit ==
    ASSUME NEW s, s \in Seq(Int), NEW t, t \in Seq(Int), NEW u, u \in Seq(Int),
           Len(t) = Len(s), Len(u) = Len(s), \A i \in 1..Len(s) : s[i] = t[i] + u[i]
    PROVE  Total(s) = Total(t) + Total(u)
<1>1. PICK f : SumsOf(f, s) /\ Total(s) = f[Len(s)]
  BY TotalIs
<1>2. PICK g : SumsOf(g, t) /\ Total(t) = g[Len(t)]
  BY TotalIs
<1>3. PICK h : SumsOf(h, u) /\ Total(u) = h[Len(u)]
  BY TotalIs
<1> DEFINE S == {k \in Nat : k <= Len(s) => f[k] = g[k] + h[k]}
<1>4. Len(s) \in Nat
  BY NumbersOf
<1>5. 0 \in S
  BY <1>1, <1>2, <1>3 DEF SumsOf
<1>6. ASSUME NEW k \in S
      PROVE  k + 1 \in S
  <2> SUFFICES ASSUME k + 1 <= Len(s)
               PROVE  f[k + 1] = g[k + 1] + h[k + 1]
    OBVIOUS
  <2>0. k \in Nat /\ k <= Len(s) /\ f[k] = g[k] + h[k]
    BY <1>4
  <2>1. k + 1 \in 1..Len(s) /\ (k + 1) - 1 = k /\ k \in 0..Len(s)
    BY <1>4, <2>0
  <2>2. /\ f[k + 1] = f[k] + s[k + 1] /\ g[k + 1] = g[k] + t[k + 1]
        /\ h[k + 1] = h[k] + u[k + 1]
    BY <1>1, <1>2, <1>3, <2>1 DEF SumsOf
  <2>3. g[k] \in Int /\ h[k] \in Int
    BY <1>2, <1>3, <2>1 DEF SumsOf
  <2>4. t[k + 1] \in Int /\ u[k + 1] \in Int /\ s[k + 1] = t[k + 1] + u[k + 1]
    BY <2>1, NumbersOf
  <2>5. \A a, b, c, d \in Int : (a + b) + (c + d) = (a + c) + (b + d)
    OBVIOUS
  <2>6. f[k + 1] = (g[k] + h[k]) + (t[k + 1] + u[k + 1])
    BY <2>0, <2>2, <2>4
  <2>7. QED
    BY ONLY <2>2, <2>3, <2>4, <2>5, <2>6
<1>7. S = Nat
  <2>1. S \in SUBSET Nat
    OBVIOUS
  <2> HIDE DEF S
  <2>2. QED
    BY <1>5, <1>6, <2>1, Induction
<1>8. QED
  BY <1>1, <1>2, <1>3, <1>4, <1>7

-----------------------------------------------------------------------------
(* The rows in time order.                                                 *)

LEMMA UpTo ==
    ASSUME NEW n \in Nat
    PROVE  IsFiniteSet(1..n) /\ Cardinality(1..n) = n
<1>1. IsFiniteSet(1..n) /\ Cardinality(1..n) = IF 1 > n THEN 0 ELSE n - 1 + 1
  BY FS_Interval
<1>2. QED
  BY <1>1

(* The log in time order.                                                   *)
Sooner(x, y) == rows[x].at < rows[y].at \/ (rows[x].at = rows[y].at /\ x < y)
Ahead(y) == {x \in DOMAIN rows : Sooner(x, y)}
InOrder == [i \in DOMAIN ByTime(DOMAIN rows) |-> rows[ByTime(DOMAIN rows)[i]]]

LEMMA RowIs ==
    ASSUME StoryOK
    PROVE  /\ Len(rows) \in Nat /\ DOMAIN rows = 1..Len(rows) /\ now \in Nat
           /\ \A i \in 1..Len(rows) : rows[i] \in RowsTo(now) /\ rows[i].at \in 0..now
<1>1. rows \in Seq(RowsTo(now)) /\ now \in Nat
  BY DEF StoryOK
<1>2. Len(rows) \in Nat /\ DOMAIN rows = 1..Len(rows) /\ \A i \in DOMAIN rows : rows[i] \in RowsTo(now)
  BY <1>1, SeqIs
<1>3. QED
  BY <1>1, <1>2 DEF RowsTo

LEMMA SoonerIsAhead ==
    ASSUME StoryOK
    PROVE  \A x, y \in 1..Len(rows) :
             /\ IsFiniteSet(Ahead(x)) /\ Cardinality(Ahead(x)) \in 0..Len(rows) - 1
             /\ Sooner(x, y) => Cardinality(Ahead(x)) < Cardinality(Ahead(y))
             /\ x = y \/ Sooner(x, y) \/ Sooner(y, x)
<1> DEFINE n == Len(rows)
<1>1. n \in Nat /\ DOMAIN rows = 1..n /\ \A i \in 1..n : rows[i].at \in Nat
  <2>1. \A i \in 1..n : rows[i].at \in 0..now
    BY RowIs
  <2>2. QED
    BY <2>1, RowIs
<1>2. IsFiniteSet(1..n) /\ Cardinality(1..n) = n
  BY <1>1, UpTo
<1>3. ASSUME NEW x \in 1..n
      PROVE  IsFiniteSet(Ahead(x)) /\ Cardinality(Ahead(x)) \in 0..n - 1
  <2>1. Ahead(x) \in SUBSET ((1..n) \ {x})
    BY <1>1, <1>3 DEF Ahead, Sooner
  <2>2. IsFiniteSet((1..n) \ {x}) /\ Cardinality((1..n) \ {x}) = n - 1
    BY <1>1, <1>2, FS_RemoveElement
  <2>3. IsFiniteSet(Ahead(x)) /\ Cardinality(Ahead(x)) <= n - 1
    BY <2>1, <2>2, FS_Subset
  <2>4. Cardinality(Ahead(x)) \in Nat
    BY <2>3, FS_CardinalityType
  <2>5. QED
    BY <1>1, <2>3, <2>4
<1>4. ASSUME NEW x \in 1..n, NEW y \in 1..n, Sooner(x, y)
      PROVE  Cardinality(Ahead(x)) < Cardinality(Ahead(y))
  <2>1. Ahead(x) \in SUBSET Ahead(y)
    BY <1>1, <1>4 DEF Ahead, Sooner
  <2>2. x \in Ahead(y) /\ x \notin Ahead(x)
    BY <1>1, <1>4 DEF Ahead, Sooner
  <2>3. IsFiniteSet(Ahead(y)) /\ Cardinality(Ahead(y)) \in 0..n - 1 /\ Cardinality(Ahead(x)) \in 0..n - 1
    BY <1>3
  <2>4. Cardinality(Ahead(x)) <= Cardinality(Ahead(y)) /\ Cardinality(Ahead(x)) # Cardinality(Ahead(y))
    BY <2>1, <2>2, <2>3, FS_Subset
  <2>5. QED
    BY <1>1, <2>3, <2>4
<1>5. ASSUME NEW x \in 1..n, NEW y \in 1..n
      PROVE  x = y \/ Sooner(x, y) \/ Sooner(y, x)
  BY <1>1 DEF Sooner
<1>6. QED
  BY <1>3, <1>4, <1>5

(* Each rank is taken once, so that the order is one of all the rows.       *)
LEMMA OrderIs ==
    ASSUME StoryOK
    PROVE  LET n == Len(rows)
               order == ByTime(DOMAIN rows)
           IN  /\ order \in [1..n -> 1..n]
               /\ \A k \in 1..n : Cardinality(Ahead(order[k])) = k - 1
               /\ \A j, k \in 1..n : j < k => Sooner(order[j], order[k])
<1> DEFINE n == Len(rows)
           order == ByTime(DOMAIN rows)
           rank == [x \in 1..n |-> Cardinality(Ahead(x)) + 1]
<1>1. n \in Nat /\ DOMAIN rows = 1..n
  BY RowIs
<1>2. IsFiniteSet(1..n) /\ Cardinality(1..n) = n
  BY <1>1, UpTo
<1>3. \A x \in 1..n : Cardinality(Ahead(x)) \in 0..n - 1
  BY SoonerIsAhead
<1>4. rank \in [1..n -> 1..n]
  BY <1>1, <1>3
<1>5. \A x, y \in 1..n : rank[x] = rank[y] => x = y
  <2>1. ASSUME NEW x \in 1..n, NEW y \in 1..n, rank[x] = rank[y]
        PROVE  x = y
    <3>1. Cardinality(Ahead(x)) = Cardinality(Ahead(y))
      BY <1>1, <1>3, <2>1
    <3>2. QED
      BY <1>1, <1>3, <3>1, SoonerIsAhead
  <2>2. QED
    BY <2>1
<1>6. rank \in Surjection(1..n, 1..n)
  <2> HIDE DEF rank
  <2>1. rank \in Injection(1..n, 1..n)
    BY <1>4, <1>5 DEF Injection, IsInjective
  <2>2. QED
    BY <1>2, <2>1, FS_Injection
<1>7. \A k \in 1..n : \E x \in 1..n : rank[x] = k
  <2> HIDE DEF rank
  <2>1. QED
    BY <1>6 DEF Surjection
<1>8. \A k \in 1..n : \E x \in 1..n : Cardinality(Ahead(x)) = k - 1
  <2>1. ASSUME NEW k \in 1..n
        PROVE  \E x \in 1..n : Cardinality(Ahead(x)) = k - 1
    <3>1. PICK x \in 1..n : rank[x] = k
      BY <1>7
    <3>2. Cardinality(Ahead(x)) + 1 = k
      BY <3>1
    <3>3. QED
      BY <1>1, <1>3, <3>2
  <2>2. QED
    BY <2>1
<1>9. order = [k \in 1..n |-> CHOOSE x \in 1..n : Cardinality(Ahead(x)) = k - 1]
  BY <1>1, <1>2 DEF ByTime, Ranked, Ahead, Sooner
<1> HIDE DEF order, rank
<1>10. \A k \in 1..n : order[k] \in 1..n /\ Cardinality(Ahead(order[k])) = k - 1
  BY <1>8, <1>9
<1>11. order \in [1..n -> 1..n]
  BY <1>9, <1>10
<1>12. ASSUME NEW j \in 1..n, NEW k \in 1..n, j < k
       PROVE  Sooner(order[j], order[k])
  <2>1. /\ order[j] \in 1..n /\ Cardinality(Ahead(order[j])) = j - 1
        /\ order[k] \in 1..n /\ Cardinality(Ahead(order[k])) = k - 1
    BY <1>10
  <2>2. order[j] # order[k]
    BY <1>1, <1>12, <2>1
  <2>3. ~Sooner(order[k], order[j])
    BY <1>1, <1>12, <2>1, SoonerIsAhead
  <2>4. QED
    BY <2>1, <2>2, <2>3, SoonerIsAhead
<1>13. QED
  BY <1>10, <1>11, <1>12 DEF order

LEMMA InOrderIs ==
    ASSUME StoryOK
    PROVE  /\ InOrder \in Seq(RowsTo(now)) /\ Len(InOrder) = Len(rows)
           /\ \A j, k \in 1..Len(rows) : j < k => InOrder[j].at <= InOrder[k].at
<1> DEFINE n == Len(rows)
           order == ByTime(DOMAIN rows)
<1>1. n \in Nat /\ now \in Nat /\ \A i \in 1..n : rows[i] \in RowsTo(now) /\ rows[i].at \in 0..now
  BY RowIs
<1>2. order \in [1..n -> 1..n] /\ \A j, k \in 1..n : j < k => Sooner(order[j], order[k])
  BY OrderIs
<1>3. InOrder = [i \in DOMAIN order |-> rows[order[i]]]
  BY DEF InOrder
<1> HIDE DEF order
<1>4. InOrder \in [1..n -> RowsTo(now)] /\ \A k \in 1..n : InOrder[k] = rows[order[k]]
  BY <1>1, <1>2, <1>3
<1>5. InOrder \in Seq(RowsTo(now)) /\ Len(InOrder) = n
  BY <1>1, <1>4
<1>6. ASSUME NEW j \in 1..n, NEW k \in 1..n, j < k
      PROVE  InOrder[j].at <= InOrder[k].at
  <2>1. rows[order[j]].at <= rows[order[k]].at
    BY <1>1, <1>2, <1>6 DEF Sooner
  <2>2. QED
    BY <1>4, <2>1
<1>7. QED
  BY <1>5, <1>6

-----------------------------------------------------------------------------
(* The sessions: built one row at a time, and sound after each.            *)

(* The sessions, row by row.                                                *)
Builds(f, ordered) ==
    f[0] = <<>> /\ \A k \in 1..Len(ordered) : f[k] = Extended(ordered, k, f[k - 1])

LEMMA ReplaceLast ==
    ASSUME NEW S, NEW s, s \in Seq(S), NEW x, Len(s) # 0 => x \in S
    PROVE  LET t == [s EXCEPT ![Len(s)] = x]
           IN  /\ t \in Seq(S) /\ Len(t) = Len(s)
               /\ \A i \in 1..Len(s) - 1 : t[i] = s[i]
               /\ Len(s) # 0 => t[Len(s)] = x
<1> DEFINE t == [s EXCEPT ![Len(s)] = x]
           n == Len(s)
<1>1. n \in Nat /\ s \in [1..n -> S]
  OBVIOUS
<1>2. /\ \A i \in 1..n : t[i] = IF i = n THEN x ELSE s[i]
      /\ DOMAIN t = 1..n /\ t = [i \in 1..n |-> t[i]]
  BY <1>1
<1> HIDE DEF t
<1>3. t \in [1..n -> S]
  BY <1>1, <1>2
<1>4. t \in Seq(S) /\ Len(t) = n
  BY <1>1, <1>3
<1>5. QED
  BY <1>1, <1>2, <1>4 DEF t

LEMMA AddLast ==
    ASSUME NEW S, NEW s, s \in Seq(S), NEW x \in S
    PROVE  /\ Append(s, x) \in Seq(S) /\ Len(Append(s, x)) = Len(s) + 1 /\ Len(s) \in Nat
           /\ \A i \in 1..Len(s) : Append(s, x)[i] = s[i]
           /\ Append(s, x)[Len(s) + 1] = x
OBVIOUS

LEMMA ExtendedType ==
    ASSUME NEW Row, NEW ordered, ordered \in Seq(Row), NEW k \in 1..Len(ordered),
           NEW built, built \in Seq(Seq(Row))
    PROVE  Extended(ordered, k, built) \in Seq(Seq(Row))
<1>1. ordered[k] \in Row
  OBVIOUS
<1>2. <<ordered[k]>> \in Seq(Row)
  BY <1>1
<1>3. Append(built, <<ordered[k]>>) \in Seq(Seq(Row))
  BY <1>2, AddLast
<1> DEFINE x == Append(built[Len(built)], ordered[k])
<1>4. Len(built) # 0 => x \in Seq(Row)
  <2>1. Len(built) # 0 => built[Len(built)] \in Seq(Row)
    BY SeqIs
  <2>2. QED
    BY <1>1, <2>1
<1>5. [built EXCEPT ![Len(built)] = x] \in Seq(Seq(Row))
  <2> HIDE DEF x
  <2>1. QED
    BY <1>4, ReplaceLast
<1>6. QED
  BY <1>3, <1>5 DEF Extended

(* The recursion has a value for every number of rows.                      *)
LEMMA GroupedIs ==
    ASSUME NEW Row, NEW ordered, ordered \in Seq(Row)
    PROVE  \E f : Builds(f, ordered) /\ Grouped(ordered) = f[Len(ordered)]
<1> DEFINE N == Len(ordered)
           V == Seq(Seq(Row))
           base == <<>>
           F == [k \in 1..N |-> [built \in V |-> Extended(ordered, k, built)]]
<1>1. N \in Nat /\ base \in V
  BY NumbersOf
<1>2. F \in Makers(N, V)
  <2>1. \A k \in 1..N : \A built \in V : Extended(ordered, k, built) \in V
    BY ExtendedType
  <2> HIDE DEF V
  <2>2. QED
    BY <2>1 DEF Makers
<1> HIDE DEF F, N, V, base
<1>3. PICK f : Follows(f, N, V, base, F)
  BY <1>1, <1>2, RecursionExists
<1>4. f \in [0..N -> V] /\ f[0] = base /\ \A k \in 1..N : f[k] = F[k][f[k - 1]]
  BY <1>3 DEF Follows
<1>5. \A k \in 1..N : f[k] = Extended(ordered, k, f[k - 1])
  <2>1. ASSUME NEW k \in 1..N
        PROVE  f[k] = Extended(ordered, k, f[k - 1])
    <3>1. f[k - 1] \in V
      BY <1>1, <1>4
    <3>2. \A built \in V : F[k][built] = Extended(ordered, k, built)
      BY DEF F
    <3>3. QED
      BY <1>4, <3>1, <3>2
  <2>2. QED
    BY <2>1
<1> DEFINE Is(p) == p = [n \in 0..Len(ordered) |->
                           IF n = 0 THEN <<>> ELSE Extended(ordered, n, p[n - 1])]
<1>6. Is(f)
  <2>1. f = [n \in 0..N |-> IF n = 0 THEN base ELSE Extended(ordered, n, f[n - 1])]
    BY <1>1, <1>4, <1>5
  <2>2. QED
    BY <2>1 DEF N, base
<1> DEFINE P == CHOOSE p : Is(p)
<1>7. Is(P)
  <2> HIDE DEF Is
  <2>1. QED
    BY <1>6
<1>8. Grouped(ordered) = P[Len(ordered)]
  BY DEF Grouped
<1>9. Builds(P, ordered)
  <2> HIDE DEF P
  <2>1. Len(ordered) \in Nat
    BY <1>1 DEF N
  <2>2. QED
    BY <1>7, <2>1 DEF Builds
<1> HIDE DEF P
<1>10. QED
  BY <1>8, <1>9

SoundSession(s) ==
    /\ s # <<>> /\ StartOf(s) <= EndOf(s)
    /\ \A j \in DOMAIN s : s[j].banker = s[1].banker
Lengths(built) == [i \in DOMAIN built |-> Len(built[i])]

\* What holds of the sessions of the first k rows.
Sound(built, ordered, k) ==
    /\ k = 0 => built = <<>>
    /\ k > 0 => Len(built) > 0 /\ Last(built[Len(built)]) = ordered[k]
    /\ \A i \in DOMAIN built : /\ SoundSession(built[i])
                               /\ i > 1 => EndOf(built[i - 1]) <= StartOf(built[i])
    /\ Total(Lengths(built)) = k

LEMMA NewSession ==
    ASSUME NEW Row, \A r \in Row : r.at \in Nat, NEW row \in Row
    PROVE  /\ SoundSession(<<row>>) /\ <<row>> \in Seq(Row) /\ Len(<<row>>) = 1
           /\ StartOf(<<row>>) = row.at /\ EndOf(<<row>>) = row.at /\ Last(<<row>>) = row
BY DEF SoundSession, StartOf, EndOf, Last

LEMMA LongerSession ==
    ASSUME NEW Row, \A r \in Row : r.at \in Nat, NEW row \in Row,
           NEW s, s \in Seq(Row), SoundSession(s), row.banker = Last(s).banker,
           Last(s).at <= row.at
    PROVE  LET t == Append(s, row)
           IN  /\ SoundSession(t) /\ t \in Seq(Row) /\ Len(t) = Len(s) + 1
               /\ StartOf(t) = StartOf(s) /\ Last(t) = row
<1> DEFINE t == Append(s, row)
           n == Len(s)
<1>1. n \in Nat /\ n # 0 /\ DOMAIN s = 1..n /\ \A i \in 1..n : s[i] \in Row
  BY SeqIs DEF SoundSession
<1>2. /\ t \in Seq(Row) /\ Len(t) = n + 1 /\ \A i \in 1..n : t[i] = s[i]
      /\ t[n + 1] = row
  BY AddLast
<1> HIDE DEF t
<1>3. DOMAIN t = 1..n + 1 /\ Last(t) = row /\ t[1] = s[1] /\ Last(s) = s[n]
  BY <1>1, <1>2, SeqIs DEF Last
<1>4. StartOf(t) = StartOf(s) /\ EndOf(t) = row.at
  BY <1>3 DEF StartOf, EndOf
<1>5. s[1].at \in Nat /\ s[n].at \in Nat /\ row.at \in Nat
  BY <1>1
<1>6. StartOf(t) <= EndOf(t)
  BY <1>3, <1>4, <1>5 DEF SoundSession, StartOf, EndOf
<1>7. \A j \in 1..n + 1 : t[j].banker = t[1].banker
  <2>1. \A j \in 1..n : s[j].banker = s[1].banker
    BY <1>1 DEF SoundSession
  <2>2. row.banker = s[1].banker
    BY <1>1, <1>3, <2>1
  <2>3. QED
    BY <1>1, <1>2, <1>3, <2>1, <2>2
<1>8. t # <<>>
  BY <1>1, <1>2
<1>9. SoundSession(t)
  BY <1>3, <1>6, <1>7, <1>8 DEF SoundSession
<1>10. QED
  BY <1>2, <1>3, <1>4, <1>9 DEF t

LEMMA LengthsType ==
    ASSUME NEW Row, NEW built, built \in Seq(Seq(Row))
    PROVE  Lengths(built) \in Seq(Int) /\ Len(Lengths(built)) = Len(built)
           /\ Len(built) \in Nat /\ DOMAIN built = 1..Len(built)
           /\ \A i \in 1..Len(built) : Lengths(built)[i] = Len(built[i]) /\ built[i] \in Seq(Row)
<1> DEFINE S == Seq(Row)
<1>1. Len(built) \in Nat /\ DOMAIN built = 1..Len(built) /\ \A i \in DOMAIN built : built[i] \in S
  <2> HIDE DEF S
  <2>1. built \in Seq(S)
    BY DEF S
  <2>2. QED
    BY <2>1, SeqIs
<1>2. \A i \in DOMAIN built : Len(built[i]) \in Int
  BY <1>1
<1>3. QED
  BY <1>1, <1>2 DEF Lengths

(* A row that opens a session, and a row that lengthens the last.           *)
LEMMA OpenedIsSound ==
    ASSUME NEW Row, \A r \in Row : r.at \in Nat, NEW ordered, ordered \in Seq(Row),
           NEW k \in 1..Len(ordered), k > 1 => ordered[k - 1].at <= ordered[k].at,
           NEW built, built \in Seq(Seq(Row)), Sound(built, ordered, k - 1)
    PROVE  Sound(Append(built, <<ordered[k]>>), ordered, k)
<1> DEFINE row == ordered[k]
           new == <<row>>
           next == Append(built, new)
<1>0. PICK n \in Nat : n = Len(built)
  BY LengthsType
<1>1. row \in Row /\ k \in Nat /\ k - 1 \in Nat
  BY NumbersOf
<1>2. /\ SoundSession(new) /\ new \in Seq(Row) /\ Len(new) = 1
      /\ StartOf(new) = row.at /\ EndOf(new) = row.at /\ Last(new) = row
  BY <1>1, NewSession
<1> HIDE DEF row, new
<1>3. /\ n \in Nat /\ DOMAIN built = 1..n /\ Lengths(built) \in Seq(Int)
      /\ \A i \in 1..n : built[i] \in Seq(Row)
  BY <1>0, LengthsType
<1>4. /\ next \in Seq(Seq(Row)) /\ Len(next) = n + 1 /\ \A i \in 1..n : next[i] = built[i]
      /\ next[n + 1] = new
  BY <1>0, <1>2, AddLast
<1> HIDE DEF next
<1>5. DOMAIN next = 1..n + 1
  BY <1>3, <1>4, LengthsType
<1>6. k > 1 => n > 0 /\ EndOf(built[n]) <= row.at
  <2> SUFFICES ASSUME k > 1
               PROVE  n > 0 /\ EndOf(built[n]) <= row.at
    OBVIOUS
  <2>1. n > 0 /\ Last(built[n]) = ordered[k - 1]
    BY <1>0, <1>1 DEF Sound
  <2>2. QED
    BY <2>1 DEF EndOf, row
<1>7. k = 1 => n = 0
  BY <1>0, <1>1 DEF Sound
<1>8. ASSUME NEW i \in 1..n + 1
      PROVE  SoundSession(next[i]) /\ (i > 1 => EndOf(next[i - 1]) <= StartOf(next[i]))
  <2>1. CASE i \in 1..n
    <3>0. i > 1 => i - 1 \in 1..n
      BY <2>1
    <3>1. next[i] = built[i] /\ (i > 1 => next[i - 1] = built[i - 1])
      BY <1>4, <2>1, <3>0
    <3>2. SoundSession(built[i]) /\ (i > 1 => EndOf(built[i - 1]) <= StartOf(built[i]))
      BY <1>3, <2>1 DEF Sound
    <3>3. QED
      BY <3>1, <3>2
  <2>2. CASE i = n + 1
    <3>1. i > 1 => n \in 1..n /\ i - 1 = n /\ k > 1
      BY <1>1, <1>3, <1>7, <2>2
    <3>2. QED
      BY <1>2, <1>4, <1>6, <2>2, <3>1
  <2>3. QED
    BY <1>3, <2>1, <2>2
<1>9. Lengths(next) = Append(Lengths(built), 1)
  <2>1. Lengths(next) = [i \in 1..n + 1 |-> IF i = n + 1 THEN 1 ELSE Len(built[i])]
    BY <1>2, <1>3, <1>4, <1>5 DEF Lengths
  <2>2. Lengths(built) = [i \in 1..n |-> Len(built[i])] /\ Len(Lengths(built)) = n
    BY <1>0, <1>3, LengthsType DEF Lengths
  <2>3. QED
    BY <1>3, <2>1, <2>2
<1>10. Total(Lengths(next)) = k
  <2>1. Total(Lengths(next)) = Total(Lengths(built)) + 1
    BY <1>3, <1>9, TotalWithMore
  <2>2. Total(Lengths(built)) = k - 1
    BY DEF Sound
  <2>3. QED
    BY <1>1, <2>1, <2>2
<1>11. Len(next) > 0 /\ Last(next[Len(next)]) = row /\ k # 0
  BY <1>1, <1>2, <1>3, <1>4
<1>12. QED
  BY <1>5, <1>8, <1>10, <1>11 DEF Sound, next, new, row

LEMMA LengthenedIsSound ==
    ASSUME NEW Row, \A r \in Row : r.at \in Nat, NEW ordered, ordered \in Seq(Row),
           NEW k \in 1..Len(ordered), k > 1, ordered[k - 1].at <= ordered[k].at,
           ordered[k].banker = ordered[k - 1].banker,
           NEW built, built \in Seq(Seq(Row)), Sound(built, ordered, k - 1)
    PROVE  Sound([built EXCEPT ![Len(built)] = Append(@, ordered[k])], ordered, k)
<1> DEFINE row == ordered[k]
           old == built[Len(built)]
           new == Append(old, row)
           next == [built EXCEPT ![Len(built)] = new]
<1>0. PICK n \in Nat : n = Len(built)
  BY LengthsType
<1>1. row \in Row /\ k \in Nat /\ k - 1 \in Nat
  BY NumbersOf
<1>2. /\ n \in Nat /\ DOMAIN built = 1..n /\ Lengths(built) \in Seq(Int) /\ Len(Lengths(built)) = n
      /\ \A i \in 1..n : built[i] \in Seq(Row) /\ Lengths(built)[i] = Len(built[i])
  BY <1>0, LengthsType
<1>3. n \in 1..n /\ old = built[n] /\ Last(old) = ordered[k - 1] /\ SoundSession(old) /\ old \in Seq(Row)
  <2>1. n > 0 /\ Last(old) = ordered[k - 1]
    BY <1>0, <1>1 DEF Sound
  <2>2. n \in 1..n /\ old = built[n]
    BY <1>0, <2>1
  <2>3. QED
    BY <1>2, <2>1, <2>2 DEF Sound
<1>4. /\ SoundSession(new) /\ new \in Seq(Row) /\ Len(new) = Len(old) + 1
      /\ StartOf(new) = StartOf(old) /\ Last(new) = row
  <2> HIDE DEF old
  <2>1. row.banker = Last(old).banker /\ Last(old).at <= row.at
    BY <1>3
  <2> HIDE DEF row
  <2>2. QED
    BY <1>1, <1>3, <2>1, LongerSession
<1> HIDE DEF old, row, new
<1>5. /\ next \in Seq(Seq(Row)) /\ Len(next) = n /\ \A i \in 1..n - 1 : next[i] = built[i]
      /\ next[n] = new
  BY <1>0, <1>2, <1>3, <1>4, ReplaceLast
<1> HIDE DEF next
<1>6. /\ DOMAIN next = 1..n /\ Lengths(next) \in Seq(Int) /\ Len(Lengths(next)) = n
      /\ \A i \in 1..n : Lengths(next)[i] = Len(next[i])
  BY <1>0, <1>5, LengthsType
<1>7. ASSUME NEW i \in 1..n
      PROVE  SoundSession(next[i]) /\ (i > 1 => EndOf(next[i - 1]) <= StartOf(next[i]))
  <2>1. SoundSession(built[i]) /\ (i > 1 => EndOf(built[i - 1]) <= StartOf(built[i]))
    BY <1>2 DEF Sound
  <2>2. i > 1 => i - 1 \in 1..n - 1 /\ next[i - 1] = built[i - 1]
    BY <1>2, <1>5
  <2>3. CASE i = n
    BY <1>3, <1>4, <1>5, <2>1, <2>2, <2>3
  <2>4. CASE i # n
    <3>1. i \in 1..n - 1
      BY <2>4
    <3>2. next[i] = built[i]
      BY <1>5, <3>1
    <3>3. QED
      BY <2>1, <2>2, <3>2
  <2>5. QED
    BY <2>3, <2>4
<1>8. Total(Lengths(next)) = k
  <2>1. \A i \in 1..n - 1 : Lengths(next)[i] = Lengths(built)[i]
    BY <1>2, <1>5, <1>6
  <2>2. Total(Lengths(next)) = Total(Lengths(built)) - Lengths(built)[n] + Lengths(next)[n]
    BY <1>0, <1>2, <1>3, <1>6, <2>1, TotalWithOther
  <2>3. Lengths(built)[n] = Len(old) /\ Lengths(next)[n] = Len(old) + 1 /\ Len(old) \in Nat
    BY <1>2, <1>3, <1>4, <1>5, <1>6, SeqIs
  <2>4. Total(Lengths(built)) = k - 1
    BY DEF Sound
  <2>5. QED
    BY <1>1, <2>2, <2>3, <2>4
<1>9. Len(next) > 0 /\ Last(next[Len(next)]) = row /\ k # 0
  BY <1>1, <1>3, <1>4, <1>5
<1>10. QED
  BY <1>6, <1>7, <1>8, <1>9 DEF Sound, next, new, old, row

(* The sessions of the log are sound, whoever works on the account.         *)
LEMMA GroupedIsSound ==
    ASSUME NEW Row, \A r \in Row : r.at \in Nat, NEW ordered, ordered \in Seq(Row),
           \A k \in 1..Len(ordered) : k > 1 => ordered[k - 1].at <= ordered[k].at
    PROVE  Grouped(ordered) \in Seq(Seq(Row)) /\ Sound(Grouped(ordered), ordered, Len(ordered))
<1>1. PICK f : Builds(f, ordered) /\ Grouped(ordered) = f[Len(ordered)]
  BY GroupedIs
<1> DEFINE S == {k \in Nat : k <= Len(ordered) =>
                               f[k] \in Seq(Seq(Row)) /\ Sound(f[k], ordered, k)}
<1>2. Len(ordered) \in Nat
  BY SeqIs
<1>3. 0 \in S
  <2>1. f[0] = <<>> /\ <<>> \in Seq(Seq(Row))
    BY <1>1, EmptySeq DEF Builds
  <2>2. DOMAIN <<>> = {} /\ Lengths(<<>>) = <<>>
    BY DEF Lengths
  <2>3. Sound(<<>>, ordered, 0)
    BY <2>2, TotalEmpty DEF Sound
  <2>4. QED
    BY <2>1, <2>3
<1>4. ASSUME NEW k \in S
      PROVE  k + 1 \in S
  <2> DEFINE m == k + 1
  <2> SUFFICES ASSUME m <= Len(ordered)
               PROVE  f[m] \in Seq(Seq(Row)) /\ Sound(f[m], ordered, m)
    OBVIOUS
  <2>1. /\ k \in Nat /\ m \in 1..Len(ordered) /\ m - 1 = k
        /\ f[k] \in Seq(Seq(Row)) /\ Sound(f[k], ordered, k)
    <3>1. k \in Nat /\ m \in 1..Len(ordered) /\ m - 1 = k /\ k <= Len(ordered)
      BY <1>2
    <3>2. QED
      BY <3>1
  <2> HIDE DEF S, m
  <2>2. f[m] = Extended(ordered, m, f[k])
    BY <1>1, <2>1 DEF Builds
  <2>3. f[m] \in Seq(Seq(Row))
    BY <2>1, <2>2, ExtendedType
  <2>4. CASE m = 1 \/ OpensSession(ordered[m - 1], ordered[m])
    <3>1. f[m] = Append(f[k], <<ordered[m]>>)
      BY <2>2, <2>4 DEF Extended
    <3>2. QED
      BY <2>1, <2>3, <3>1, OpenedIsSound
  <2>5. CASE ~(m = 1 \/ OpensSession(ordered[m - 1], ordered[m]))
    <3>0. PICK built : built = f[k]
      OBVIOUS
    <3>1. f[m] = [built EXCEPT ![Len(built)] = Append(@, ordered[m])]
      BY <2>2, <2>5, <3>0 DEF Extended
    <3>2. ordered[m].banker = ordered[m - 1].banker /\ m > 1
      BY <2>1, <2>5 DEF OpensSession
    <3>3. ordered[m - 1].at <= ordered[m].at
      BY <2>1, <3>2
    <3>4. Sound([built EXCEPT ![Len(built)] = Append(@, ordered[m])], ordered, m)
      BY <2>1, <3>0, <3>2, <3>3, LengthenedIsSound
    <3>5. QED
      BY <2>3, <3>1, <3>4
  <2>6. QED
    BY <2>3, <2>4, <2>5
<1>5. S = Nat
  <2>1. S \in SUBSET Nat
    OBVIOUS
  <2> HIDE DEF S
  <2>2. QED
    BY <1>3, <1>4, <2>1, Induction
<1>6. QED
  BY <1>1, <1>2, <1>5

-----------------------------------------------------------------------------
(* The page: what a fresh report shows of the sessions, and of itself.     *)

LEMMA BuildIsSound ==
    ASSUME StoryOK
    PROVE  /\ BuildSessions \in Seq(Seq(RowsTo(now))) /\ BuildSessions = Grouped(InOrder)
           /\ Sound(BuildSessions, InOrder, Len(rows))
           /\ \A r \in RowsTo(now) : r.at \in Nat
<1>1. BuildSessions = Grouped(InOrder)
  BY DEF BuildSessions, InOrder
<1>2. \A r \in RowsTo(now) : r.at \in Nat
  BY DEF RowsTo, StoryOK
<1>3. /\ InOrder \in Seq(RowsTo(now)) /\ Len(InOrder) = Len(rows) /\ Len(rows) \in Nat
      /\ \A k \in 1..Len(rows) : k > 1 => InOrder[k - 1].at <= InOrder[k].at
  <2>1. /\ InOrder \in Seq(RowsTo(now)) /\ Len(InOrder) = Len(rows) /\ Len(rows) \in Nat
        /\ \A j, k \in 1..Len(rows) : j < k => InOrder[j].at <= InOrder[k].at
    BY InOrderIs, RowIs
  <2>2. \A k \in 1..Len(rows) : k > 1 => k - 1 \in 1..Len(rows) /\ k - 1 < k
    BY <2>1
  <2>3. QED
    BY <2>1, <2>2
<1> DEFINE Row == RowsTo(now)
<1> HIDE DEF Row
<1>4. Grouped(InOrder) \in Seq(Seq(Row)) /\ Sound(Grouped(InOrder), InOrder, Len(InOrder))
  <2>1. InOrder \in Seq(Row) /\ \A r \in Row : r.at \in Nat
    BY <1>2, <1>3 DEF Row
  <2>2. QED
    BY <1>3, <2>1, GroupedIsSound
<1>5. QED
  BY <1>1, <1>2, <1>3, <1>4 DEF Row

(* What a session is, where it stands in the list.                          *)
LEMMA SessionIs ==
    ASSUME StoryOK
    PROVE  /\ Len(BuildSessions) \in Nat /\ DOMAIN BuildSessions = 1..Len(BuildSessions)
           /\ \A i \in 1..Len(BuildSessions) :
                StartOf(BuildSessions[i]) \in Nat /\ EndOf(BuildSessions[i]) \in Nat
<1> DEFINE Row == RowsTo(now)
<1>1. /\ BuildSessions \in Seq(Seq(Row)) /\ Sound(BuildSessions, InOrder, Len(rows))
      /\ \A r \in Row : r.at \in Nat
  BY BuildIsSound
<1> HIDE DEF Row
<1>2. /\ Len(BuildSessions) \in Nat /\ DOMAIN BuildSessions = 1..Len(BuildSessions)
      /\ \A i \in 1..Len(BuildSessions) : BuildSessions[i] \in Seq(Row)
  BY <1>1, LengthsType
<1>3. ASSUME NEW i \in 1..Len(BuildSessions)
      PROVE  StartOf(BuildSessions[i]) \in Nat /\ EndOf(BuildSessions[i]) \in Nat
  <2>1. PICK s \in Seq(Row) : s = BuildSessions[i] /\ s # <<>>
    BY <1>1, <1>2 DEF Sound, SoundSession
  <2>2. s[1] \in Row /\ s[Len(s)] \in Row
    BY <2>1
  <2>3. QED
    BY <1>1, <2>1, <2>2 DEF StartOf, EndOf, Last
<1>4. QED
  BY <1>2, <1>3

LEMMA FreshSessions ==
    ASSUME StoryOK, Run
    PROVE  SessionsAreSound'
<1> DEFINE built == BuildSessions
<1>1. report'.sessions = built /\ rows' = rows
  BY DEF Run
<1>2. Sound(built, InOrder, Len(rows))
  BY BuildIsSound
<1> HIDE DEF built
<1>3. /\ \A i \in DOMAIN built : /\ SoundSession(built[i])
                                 /\ i > 1 => EndOf(built[i - 1]) <= StartOf(built[i])
      /\ Total(Lengths(built)) = Len(rows)
  BY <1>2 DEF Sound
<1>4. QED
  BY <1>1, <1>3 DEF SessionsAreSound, SoundSession, Lengths

(* The minutes of some sessions and of the rest are the minutes of all.     *)
LEMMA MinutesSplit ==
    ASSUME StoryOK, NEW S
    PROVE  LET all == DOMAIN BuildSessions
           IN  Minutes(BuildSessions, all)
                 = Minutes(BuildSessions, {i \in all : i \in S})
                   + Minutes(BuildSessions, {i \in all : i \notin S})
<1> DEFINE built == BuildSessions
           n == Len(BuildSessions)
           long(i) == EndOf(built[i]) - StartOf(built[i])
           s == [i \in 1..n |-> long(i)]
           t == [i \in 1..n |-> IF i \in S THEN long(i) ELSE 0]
           u == [i \in 1..n |-> IF i \notin S THEN long(i) ELSE 0]
<1>1. n \in Nat /\ DOMAIN built = 1..n
  BY SessionIs
<1>2. \A i \in 1..n : long(i) \in Int
  <2>1. \A i \in 1..n : StartOf(built[i]) \in Nat /\ EndOf(built[i]) \in Nat
    BY SessionIs
  <2> HIDE DEF built, n
  <2>2. QED
    BY <2>1
<1>3. /\ Minutes(built, DOMAIN built) = Total(s)
      /\ Minutes(built, {i \in DOMAIN built : i \in S}) = Total(t)
      /\ Minutes(built, {i \in DOMAIN built : i \notin S}) = Total(u)
  <2>1. \A T : Minutes(built, T) = Total([i \in 1..n |-> IF i \in T THEN long(i) ELSE 0])
    BY <1>1 DEF Minutes
  <2> HIDE DEF built, n, long
  <2>2. /\ s = [i \in 1..n |-> IF i \in DOMAIN built THEN long(i) ELSE 0]
        /\ t = [i \in 1..n |-> IF i \in {j \in DOMAIN built : j \in S} THEN long(i) ELSE 0]
        /\ u = [i \in 1..n |-> IF i \in {j \in DOMAIN built : j \notin S} THEN long(i) ELSE 0]
    BY <1>1
  <2> HIDE DEF s, t, u
  <2>3. QED
    BY <2>1, <2>2
<1> HIDE DEF built, n, long
<1>4. s \in Seq(Int) /\ t \in Seq(Int) /\ u \in Seq(Int)
      /\ Len(s) = n /\ Len(t) = n /\ Len(u) = n
  <2>1. s \in [1..n -> Int] /\ t \in [1..n -> Int] /\ u \in [1..n -> Int]
    BY <1>2
  <2> HIDE DEF s, t, u
  <2>2. QED
    BY <1>1, <2>1
<1>5. \A i \in 1..n : s[i] = t[i] + u[i]
  BY <1>2
<1> HIDE DEF s, t, u
<1>6. Total(s) = Total(t) + Total(u)
  BY <1>4, <1>5, TotalSplit
<1>7. QED
  BY <1>3, <1>6 DEF built

(* A list whose neighbours are all alike holds one value.                   *)
LEMMA AllAlike ==
    ASSUME NEW n \in Nat, NEW c, \A i \in 1..n : i > 1 => c[i - 1] = c[i]
    PROVE  \A i \in 1..n : c[i] = c[1]
<1> DEFINE S == {k \in Nat : k + 1 <= n => c[k + 1] = c[1]}
<1>1. 0 \in S
  OBVIOUS
<1>2. ASSUME NEW k \in S
      PROVE  k + 1 \in S
  <2> SUFFICES ASSUME k + 2 <= n
               PROVE  c[k + 2] = c[1]
    OBVIOUS
  <2>1. k + 2 \in 1..n /\ k + 2 > 1 /\ (k + 2) - 1 = k + 1 /\ c[k + 1] = c[1]
    OBVIOUS
  <2>2. QED
    BY <2>1
<1>3. S = Nat
  <2>1. S \in SUBSET Nat
    OBVIOUS
  <2> HIDE DEF S
  <2>2. QED
    BY <1>1, <1>2, <2>1, Induction
<1>4. ASSUME NEW i \in 1..n
      PROVE  c[i] = c[1]
  <2>1. i - 1 \in S /\ (i - 1) + 1 = i /\ i <= n
    BY <1>3
  <2>2. QED
    BY <2>1
<1>5. QED
  BY <1>4

(* Where both kinds of unit occur, two sessions in a row differ.            *)
LEMMA CrossingIsHandedOver ==
    ASSUME StoryOK, StorySessions.crossed
    PROVE  StorySessions.handoffs > 0
<1> DEFINE n == Len(BuildSessions)
           changes == {i \in (1..n) \ {1} : Classes[i - 1] # Classes[i]}
<1>1. n \in Nat /\ DOMAIN BuildSessions = 1..n
  BY SessionIs
<1>2. DOMAIN Classes = 1..n
  BY <1>1 DEF Classes
<1>3. /\ "center" \in ToSet(Classes) /\ {"own", "other"} \cap ToSet(Classes) # {}
      /\ StorySessions.handoffs = Cardinality(changes)
  BY <1>1 DEF StorySessions
<1>4. PICK i \in 1..n, j \in 1..n : Classes[i] # Classes[j]
  <2>1. PICK i \in 1..n : Classes[i] = "center"
    BY <1>2, <1>3 DEF ToSet
  <2>2. PICK j \in 1..n : Classes[j] \in {"own", "other"}
    BY <1>2, <1>3 DEF ToSet
  <2>3. QED
    BY <2>1, <2>2
<1>5. changes # {}
  <2> SUFFICES ASSUME changes = {}
               PROVE  FALSE
    OBVIOUS
  <2>1. \A k \in 1..n : k > 1 => Classes[k - 1] = Classes[k]
    BY <1>1
  <2> HIDE DEF n, changes
  <2>2. \A k \in 1..n : Classes[k] = Classes[1]
    BY <1>1, <2>1, AllAlike
  <2>3. QED
    BY <1>4, <2>2
<1>6. IsFiniteSet(changes)
  <2>1. changes \in SUBSET (1..n) /\ IsFiniteSet(1..n)
    BY <1>1, UpTo
  <2>2. QED
    BY <2>1, FS_Subset
<1> HIDE DEF changes
<1>7. Cardinality(changes) \in Nat /\ Cardinality(changes) # 0
  BY <1>5, <1>6, FS_CardinalityType, FS_EmptySet
<1>8. QED
  BY <1>3, <1>7

LEMMA FreshFigures ==
    ASSUME StoryOK, Run
    PROVE  FiguresAgree'
<1> DEFINE built == BuildSessions
           all == DOMAIN built
           S == {i \in all : ServedBy(built[i]) = 0}
           idle == {i \in all : i \in S}
           behind == {i \in all : i \notin S}
           seen == {i \in DOMAIN report'.sessions : report'.served[i] # 0}
<1>1. /\ report'.sessions = built /\ report'.figures = StorySessions
      /\ report'.served = [i \in all |-> ServedBy(built[i])]
  BY DEF Run
<1>2. Minutes(built, all) = Minutes(built, idle) + Minutes(built, behind)
  BY MinutesSplit
<1>3. seen = behind
  <2> HIDE DEF built
  <2>1. QED
    BY <1>1
<1>4. /\ StorySessions.minutes = Minutes(built, all)
      /\ StorySessions.backgroundMinutes = Minutes(built, S)
      /\ S = idle
  BY DEF StorySessions
<1>5. StorySessions.crossed => StorySessions.handoffs > 0
  BY CrossingIsHandedOver
<1>6. report'.figures.minutes = report'.figures.backgroundMinutes + Minutes(built, seen)
  <2> HIDE DEF built, all, S, idle, behind, seen
  <2>1. QED
    BY <1>1, <1>2, <1>3, <1>4
<1>7. Minutes(built, seen)
        = Minutes(report.sessions, {i \in DOMAIN report.sessions : report.served[i] # 0})'
  <2> HIDE DEF built
  <2>1. QED
    BY <1>1 DEF Minutes, Total, EndOf, StartOf
<1> HIDE DEF seen, built
<1>8. QED
  BY <1>1, <1>5, <1>6, <1>7 DEF FiguresAgree

(* The rules call the story open from a fact, which no verdict replaces.    *)
LEMMA FactIsShown ==
    ASSUME StoryOK
    PROVE  FactBeatsModel
<1> SUFFICES ASSUME contacts # <<>>, Last(contacts).kind = "abandoned",
                    \A r \in ToSet(rows) : r.op = "execute" => r.at <= Last(contacts).at,
                    NEW verdict
             PROVE  ShownStatus(verdict) = "open"
  BY DEF FactBeatsModel
<1> DEFINE last == Last(contacts)
           after == {r.at : r \in {r \in ToSet(rows) : r.op = "execute" /\ r.at > last.at}}
<1>1. last.at \in Nat
  <2>1. Len(contacts) \in Nat /\ Len(contacts) # 0 /\ DOMAIN contacts = 1..Len(contacts)
        /\ \A i \in DOMAIN contacts : contacts[i] \in ContactsTo(now)
    <3>1. PICK s \in Seq(ContactsTo(now)) : s = contacts
      BY DEF StoryOK
    <3>2. QED
      BY <3>1, SeqIs
  <2>2. last \in ContactsTo(now)
    BY <2>1 DEF Last
  <2>3. QED
    BY <2>2 DEF ContactsTo, StoryOK
<1>2. \A r \in ToSet(rows) : r.at \in Nat
  <2>1. DOMAIN rows = 1..Len(rows) /\ \A i \in DOMAIN rows : rows[i] \in RowsTo(now)
    BY SeqIs DEF StoryOK
  <2>2. QED
    BY <2>1 DEF RowsTo, ToSet, StoryOK
<1>3. after = {}
  <2>1. ~(\E r \in ToSet(rows) : r.op = "execute" /\ r.at > last.at)
    BY <1>1, <1>2
  <2>2. QED
    BY <2>1
<1>4. ~HasContent(last)
  BY DEF HasContent
<1>5. InferStatus = [status |-> "open", basis |-> "fact"]
  BY <1>3, <1>4 DEF InferStatus
<1>6. QED
  BY <1>5 DEF ShownStatus

LEMMA StepKeepsPage ==
    ASSUME StoryOK, SessionsAreSound, FiguresAgree, [Next]_vars
    PROVE  SessionsAreSound' /\ FiguresAgree'
<1>1. CASE Run
  BY <1>1, FreshSessions, FreshFigures
<1>2. CASE UNCHANGED vars
  <2>1. report' = report /\ fresh' = fresh /\ rows' = rows /\ contacts' = contacts
    BY <1>2 DEF vars
  <2>2. SessionsAreSound'
    BY <2>1 DEF SessionsAreSound, StartOf, EndOf, Total
  <2> DEFINE seen == {i \in DOMAIN report.sessions : report.served[i] # 0}
  <2>3. seen' = seen
    BY <2>1
  <2>4. Minutes(report.sessions, seen)' = Minutes(report.sessions, seen)
    <3> HIDE DEF seen
    <3>1. QED
      BY <2>1, <2>3 DEF Minutes, Total, StartOf, EndOf
  <2>5. FiguresAgree'
    <3> HIDE DEF seen
    <3>1. FiguresAgree => (fresh /\ contacts # <<>> =>
            /\ report.figures.minutes
                 = report.figures.backgroundMinutes + Minutes(report.sessions, seen)
            /\ report.figures.crossed => report.figures.handoffs > 0)
      BY DEF FiguresAgree, seen
    <3>2. QED
      BY <2>1, <2>3, <2>4, <3>1 DEF FiguresAgree, seen
  <2>6. QED
    BY <2>2, <2>5
<1>3. CASE Later
  <2>1. report' = report /\ ~fresh'
    BY <1>3 DEF Later
  <2>2. SessionsAreSound'
    BY <2>1 DEF SessionsAreSound, StartOf, EndOf
  <2>3. QED
    BY <2>1, <2>2 DEF FiguresAgree
<1>4. QED
  BY <1>1, <1>2, <1>3 DEF Next, Call, Write, Reply, Act, Over

LEMMA EmptyPage ==
    ASSUME Init
    PROVE  SessionsAreSound /\ FiguresAgree
<1>1. report.sessions = <<>> /\ rows = <<>> /\ contacts = <<>> /\ fresh = TRUE
  BY DEF Init
<1>2. DOMAIN report.sessions = {}
  BY <1>1
<1>3. Total([i \in DOMAIN report.sessions |-> Len(report.sessions[i])]) = Len(rows)
  <2>1. [i \in DOMAIN report.sessions |-> Len(report.sessions[i])] = <<>>
    BY <1>2
  <2>2. QED
    BY <1>1, <2>1, TotalEmpty
<1>4. QED
  BY <1>1, <1>2, <1>3 DEF SessionsAreSound, FiguresAgree

\* However the export is ordered and whatever the bankers do in one moment,
\* the page agrees with the log and with itself: sound sessions that hold
\* every row once, figures that add up, and a fact no verdict hides
\* (sessions.py:55-80, session_analysis.py:165-199, analysis.py:166-185).
THEOREM PageIsTrue == Spec => []PageAgrees
<1>1. Init => StoryOK /\ SessionsAreSound /\ FiguresAgree
  BY EmptySeq, EmptyPage DEF Init, StoryOK
<1>2. StoryOK /\ SessionsAreSound /\ FiguresAgree /\ [Next]_vars
        => StoryOK' /\ SessionsAreSound' /\ FiguresAgree'
  BY StepKeepsStory, StepKeepsPage
<1>3. StoryOK /\ SessionsAreSound /\ FiguresAgree => PageAgrees
  BY FactIsShown DEF PageAgrees
<1>4. QED
  BY <1>1, <1>2, <1>3, PTL DEF Spec
=============================================================================
