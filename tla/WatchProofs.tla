---------------------------- MODULE WatchProofs ----------------------------
(***************************************************************************)
(* Proofs about Watch, for any number of recordings and names, any         *)
(* periods, and any number of other processes' doings: the state keeps its *)
(* types; no recording is overwritten; none is put aside that was not      *)
(* processed; what is in processed/ is what the call was made from; and,   *)
(* if the loop sleeps no less than stable_seconds between two passes, no   *)
(* recording is processed that was written within stable_seconds.          *)
(***************************************************************************)
EXTENDS Watch, FiniteSetTheorems, WellFoundedInduction, TLAPS

(* A set of natural numbers has a least one. *)
LEMMA SmallestIn ==
    ASSUME NEW S \in SUBSET Nat, S # {}
    PROVE  \E x \in S : \A y \in S : x <= y
<1> DEFINE R == OpToRel(<, Nat)
<1>1. IsWellFoundedOn(R, Nat)
  BY NatLessThanWellFounded
<1>2. PICK x \in S : \A y \in S : ~ (<<y, x>> \in R)
  <2> HIDE DEF R
  <2>1. QED
    BY <1>1, WFMin
<1>3. \A y \in S : y < x => <<y, x>> \in R
  BY DEF OpToRel
<1>4. \A y \in S : x <= y
  <2> HIDE DEF R
  <2>1. \A y \in S : ~ (y < x)
    BY <1>2, <1>3
  <2>2. QED
    BY <2>1
<1>5. QED
  BY <1>4

(* In a pass, the name the loop is at is one of those left. *)
LEMMA HereIsLeft ==
    ASSUME todo \subseteq Name, todo # {}
    PROVE  here \in todo /\ here \in Name
<1>1. todo \in SUBSET Nat
  BY WatchAssumption
<1>2. \E x \in todo : \A y \in todo : x <= y
  BY <1>1, SmallestIn
<1>3. here \in todo
  BY <1>2 DEF here, Min
<1>4. QED
  BY <1>3

LEMMA HereStays ==
    ASSUME todo' = todo
    PROVE  here' = here
BY DEF here

-----------------------------------------------------------------------------
(* Types.                                                                  *)
(*                                                                         *)
(* That `now` stays within its bound takes an account of the pass: each    *)
(* name has waited once at most for _size_settled, so with k names left it *)
(* has waited for the others only.                                         *)

Room(k) == MaxCycle + (Cardinality(Name) - k) * Settle

LEMMA Rooms ==
    /\ NowCap \in Nat /\ SinceCap \in Nat
    /\ NowCap <= SinceCap /\ NowCap + Stable = SinceCap
    /\ \A k \in 0..Cardinality(Name) :
          Room(k) \in Nat /\ MaxCycle <= Room(k) /\ Room(k) <= NowCap
    /\ \A k \in 1..Cardinality(Name) : Room(k - 1) = Room(k) + Settle
<1>1. Cardinality(Name) \in Nat
  BY FS_CardinalityType, WatchAssumption
<1>2. Settle \in Nat /\ MaxCycle \in Nat /\ Stable \in Nat
  BY WatchAssumption
<1> DEFINE c == Cardinality(Name)
<1>3. \A a \in Nat : a * Settle \in Nat
  BY <1>2
<1>4. \A k \in 0..c : (c - k) * Settle = c * Settle - k * Settle
  BY <1>1, <1>2
<1>5. NowCap = MaxCycle + c * Settle
  BY DEF NowCap
<1>6. \A k \in 0..c : Room(k) = MaxCycle + (c - k) * Settle
  BY DEF Room
<1>7. \A k \in 0..c : c - k \in Nat
  BY <1>1
<1> HIDE DEF c
<1>8. c \in Nat
  BY <1>1 DEF c
<1>9. \A k \in 0..c : Room(k) \in Nat /\ MaxCycle <= Room(k) /\ Room(k) <= NowCap
  <2>1. TAKE k \in 0..c
  <2>2. (c - k) * Settle \in Nat /\ k * Settle \in Nat /\ c * Settle \in Nat
    BY <1>3, <1>7, <1>8
  <2>3. QED
    BY <2>2, <1>2, <1>4, <1>5, <1>6
<1>10. \A k \in 1..c : Room(k - 1) = Room(k) + Settle
  <2>1. TAKE k \in 1..c
  <2>2. k - 1 \in 0..c /\ k \in 0..c
    BY <1>8
  <2>3. (c - (k - 1)) * Settle = (c - k) * Settle + Settle
    BY <1>2, <1>8
  <2>4. (c - k) * Settle \in Nat
    BY <1>3, <1>7, <2>2
  <2>5. QED
    BY <1>2, <1>6, <2>2, <2>3, <2>4
<1>11. NowCap \in Nat /\ SinceCap = Stable + NowCap
  BY <1>2, <1>3, <1>5, <1>8 DEF SinceCap
<1>12. QED
  BY <1>2, <1>9, <1>10, <1>11 DEF c

LEMMA Counting ==
    ASSUME todo \subseteq Name
    PROVE  /\ Cardinality(todo) \in 0..Cardinality(Name)
           /\ todo # {} => /\ Cardinality(todo) \in 1..Cardinality(Name)
                           /\ Cardinality(todo \ {here}) = Cardinality(todo) - 1
<1>1. IsFiniteSet(todo) /\ Cardinality(todo) <= Cardinality(Name)
  BY FS_Subset, WatchAssumption
<1>2. Cardinality(todo) \in Nat /\ Cardinality(Name) \in Nat
  BY <1>1, FS_CardinalityType, WatchAssumption
<1>3. ASSUME todo # {}
      PROVE  Cardinality(todo) # 0 /\ Cardinality(todo \ {here}) = Cardinality(todo) - 1
  BY <1>1, <1>3, HereIsLeft, FS_RemoveElement, FS_EmptySet
<1>4. QED
  BY <1>1, <1>2, <1>3

LEMMA AtMostFacts ==
    ASSUME NEW a \in Nat, NEW cap \in Nat
    PROVE  AtMost(a, cap) \in 0..cap /\ (a <= cap => AtMost(a, cap) = a)
           /\ (cap <= a => AtMost(a, cap) = cap)
BY DEF AtMost

Paces ==
    /\ pc = "sleep" <=> todo = {}
    /\ pc = "settle" => sizes[here] \in Entry
    /\ pc = "scan" => now <= Room(Cardinality(todo))
    /\ pc = "settle" => now <= Room(Cardinality(todo)) + AtMost(slept, Settle)
    /\ pc \in {"process", "pick", "move"} => now <= Room(Cardinality(todo)) + Settle

Shape == TypeOK /\ sizes \in [Name -> Entry \cup {NoFile}] /\ Paces

PaceTypes ==
    /\ pc \in {"sleep", "scan", "settle", "process", "pick", "move"}
    /\ todo \subseteq Name
    /\ now \in 0..NowCap
    /\ slept \in 0..(Poll + Settle)

LEMMA Passing ==
    ASSUME Shape, pc # "sleep", Continue
    PROVE  PaceTypes' /\ Paces'
<1>1. todo \subseteq Name /\ todo # {} /\ now \in Nat
  BY Rooms DEF Shape, TypeOK, Paces
<1>2. here \in Name /\ here \in todo
  BY <1>1, HereIsLeft
<1>3. now <= Room(Cardinality(todo)) + Settle
  <2>1. pc = "settle" => AtMost(slept, Settle) <= Settle
    BY AtMostFacts, WatchAssumption DEF Shape, TypeOK
  <2>2. Room(Cardinality(todo)) \in Nat
    BY <1>1, Counting, Rooms
  <2>3. AtMost(slept, Settle) \in Nat
    BY AtMostFacts, WatchAssumption DEF Shape, TypeOK
  <2>4. QED
    BY <2>1, <2>2, <2>3, WatchAssumption DEF Shape, TypeOK, Paces
<1>4. todo' = todo \ {here} /\ slept' = 0
  BY DEF Continue
<1>5. pc' = IF todo' = {} THEN "sleep" ELSE "scan"
  BY DEF Continue, Goto
<1>6. now' = IF todo' = {} THEN 0 ELSE now
  BY DEF Continue
<1>7. /\ Cardinality(todo) \in 1..Cardinality(Name)
      /\ Cardinality(todo') = Cardinality(todo) - 1
  BY <1>1, <1>4, Counting
<1>8. now <= Room(Cardinality(todo'))
  BY <1>3, <1>7, Rooms
<1>9. slept' \in 0..(Poll + Settle)
  BY <1>4, WatchAssumption
<1>10. now' \in 0..NowCap
  BY <1>6, Rooms DEF Shape, TypeOK
<1>11. Cardinality(Name) \in Nat
  BY FS_CardinalityType, WatchAssumption
<1>12. PaceTypes'
  BY <1>1, <1>4, <1>5, <1>9, <1>10 DEF PaceTypes
<1>13. QED
  BY <1>5, <1>6, <1>8, <1>12 DEF Paces

(* A step within one file of a pass, in which no time passes. *)
LEMMA Staying ==
    ASSUME Shape, UNCHANGED <<todo, now>>, pc # "sleep",
           pc' \in {"process", "pick", "move"},
           slept' \in 0..(Poll + Settle)
    PROVE  PaceTypes' /\ Paces'
<1>1. todo \subseteq Name /\ todo # {} /\ now \in Nat
  BY Rooms DEF Shape, TypeOK, Paces
<1>2. Room(Cardinality(todo)) \in Nat
  BY <1>1, Counting, Rooms
<1>3. AtMost(slept, Settle) \in 0..Settle
  BY AtMostFacts, WatchAssumption DEF Shape, TypeOK
<1>4. now <= Room(Cardinality(todo)) + Settle
  BY <1>2, <1>3, WatchAssumption DEF Shape, TypeOK, Paces
<1>5. PaceTypes'
  BY DEF Shape, TypeOK, PaceTypes
<1>6. QED
  BY <1>1, <1>4, <1>5 DEF Paces

(* A step of somebody else. *)
LEMMA NotMyStep ==
    ASSUME Shape, UNCHANGED loop
    PROVE  PaceTypes' /\ Paces'
BY HereStays DEF Shape, TypeOK, PaceTypes, Paces, loop

LEMMA PutTypes ==
    ASSUME TypeOK, NEW r \in Recording, NEW d \in Folder, NEW n \in Name, NEW kind,
           Put(r, <<d, n>>, kind)
    PROVE  /\ file' \in [Name -> Recording \cup {NoFile}]
           /\ place' \in [Recording -> Place]
           /\ plain' \in [Folder \X Name -> Recording \cup {NoFile}]
           /\ stamped' \in [Folder \X Name -> Recording \cup {NoFile}]
<1>1. <<d, n>> \in Folder \X Name /\ <<d, n>>[1] = d /\ <<d, n>>[2] = n
  OBVIOUS
<1> DEFINE was == IF kind = "plain" THEN plain[<<d, n>>] ELSE stamped[<<d, n>>]
<1>2.   /\ place' = [x \in Recording |-> IF x = r THEN d
                                         ELSE IF x = was THEN "lost" ELSE place[x]]
        /\ plain' = IF kind = "plain" THEN [plain EXCEPT ![<<d, n>>] = r] ELSE plain
        /\ stamped' = IF kind = "stamped" THEN [stamped EXCEPT ![<<d, n>>] = r] ELSE stamped
        /\ file' = [file EXCEPT ![n] = NoFile]
  BY <1>1 DEF Put
<1>3. place' \in [Recording -> Place]
  <2>1. \A x \in Recording : place[x] \in Place
    BY DEF TypeOK
  <2>2. d \in Place /\ "lost" \in Place
    BY DEF Place
  <2>3. QED
    BY <1>2, <2>1, <2>2
<1>4. plain' \in [Folder \X Name -> Recording \cup {NoFile}]
  BY <1>1, <1>2 DEF TypeOK
<1>5. stamped' \in [Folder \X Name -> Recording \cup {NoFile}]
  BY <1>1, <1>2 DEF TypeOK
<1>6. file' \in [Name -> Recording \cup {NoFile}]
  BY <1>2 DEF TypeOK
<1>7. QED
  BY <1>3, <1>4, <1>5, <1>6

LEMMA MadeFromTypes ==
    ASSUME TypeOK, NEW n \in Name
    PROVE  MadeFrom(n) \in [Name -> Recording \cup {NoFile}]
BY DEF TypeOK, MadeFrom

(* The parts of TypeOK that others than the loop can change, the call's     *)
(* state, and what the loop notes of a file.                                *)
WorldTypes ==
    /\ nameOf \in [Recording -> Name]
    /\ file \in [Name -> Recording \cup {NoFile}]
    /\ place \in [Recording -> Place]
    /\ left \in [Recording -> 0..Pieces]
    /\ old \in [Recording -> BOOLEAN]
    /\ quiet \in [Recording -> 0..Stable]
    /\ plain \in [Folder \X Name -> Recording \cup {NoFile}]
    /\ stamped \in [Folder \X Name -> Recording \cup {NoFile}]
    /\ lock \in [Name -> {"free", "loop", "other"}]
    /\ built \in [Name -> Recording \cup {NoFile}]
    /\ tried \subseteq Recording
    /\ meddled \in BOOLEAN
    /\ faults \in 0..MaxFault

NoteTypes ==
    /\ sizes \in [Name -> Entry \cup {NoFile}]
    /\ status \in Folder
    /\ target \in {"plain", "stamped"}

LEMMA ShapeParts ==
    /\ Shape => WorldTypes /\ NoteTypes /\ PaceTypes /\ Paces
    /\ WorldTypes /\ NoteTypes /\ PaceTypes /\ Paces => Shape
    /\ (WorldTypes /\ NoteTypes /\ PaceTypes /\ Paces)' => Shape'
<1>1. \A s : s \in [Name -> Entry \cup {NoFile}]
        => \A n \in Name : s[n] = NoFile \/ s[n] \in Entry
  OBVIOUS
<1>2. QED
  BY <1>1 DEF Shape, TypeOK, WorldTypes, NoteTypes, PaceTypes

LEMMA RecorderShape ==
    ASSUME Shape, NEW r \in Recording, Arrive(r) \/ Append(r)
    PROVE  Shape'
<1> USE ShapeParts
<1>1. WorldTypes'
  <2>1. CASE Arrive(r)
    <3>1. PICK k \in 0..Pieces, o \in BOOLEAN :
            left' = [left EXCEPT ![r] = k] /\ old' = [old EXCEPT ![r] = o]
      BY <2>1 DEF Arrive
    <3>2. old' \in [Recording -> BOOLEAN]
      BY <3>1, Zenon DEF WorldTypes
    <3>3. left' \in [Recording -> 0..Pieces]
      BY <3>1 DEF WorldTypes
    <3>4. quiet' \in [Recording -> 0..Stable] /\ place' \in [Recording -> Place]
      BY <2>1, WatchAssumption DEF Arrive, WorldTypes, Place
    <3>5. QED
      BY <2>1, <3>2, <3>3, <3>4 DEF Arrive, WorldTypes, folders, calls, env
  <2>2. CASE Append(r)
    <3>1. left[r] \in 0..Pieces /\ Pieces \in Nat
      BY WatchAssumption DEF WorldTypes
    <3>2. left' \in [Recording -> 0..Pieces]
      BY <2>2, <3>1 DEF Append, WorldTypes
    <3>3. quiet' \in [Recording -> 0..Stable]
      BY <2>2, WatchAssumption DEF Append, WorldTypes
    <3>4. QED
      BY <2>2, <3>2, <3>3 DEF Append, WorldTypes, folders, calls, env
  <2>3. QED
    BY <2>1, <2>2
<1>2. NoteTypes' /\ PaceTypes' /\ Paces'
  BY NotMyStep DEF Arrive, Append, loop, NoteTypes
<1>3. QED
  BY <1>1, <1>2

LEMMA OthersShape ==
    ASSUME Shape, NEW n \in Name, OtherTakes(n) \/ OtherEnds(n) \/ OtherMoves(n)
    PROVE  Shape'
<1> USE ShapeParts
<1>1. WorldTypes'
  <2>1. CASE OtherTakes(n)
    BY <2>1, WatchAssumption DEF OtherTakes, Fault, WorldTypes, recorder, folders
  <2>2. CASE OtherEnds(n)
    BY <2>2, MadeFromTypes DEF OtherEnds, Shape, WorldTypes, recorder, folders, env
  <2>3. CASE OtherMoves(n)
    <3>1. file[n] \in Recording
      BY <2>3 DEF OtherMoves, WorldTypes
    <3>2. "processed" \in Folder
      BY DEF Folder
    <3>3. QED
      BY <2>3, <3>1, <3>2, PutTypes DEF OtherMoves, Shape, WorldTypes, calls
  <2>4. QED
    BY <2>1, <2>2, <2>3
<1>2. UNCHANGED loop
  BY DEF OtherTakes, OtherEnds, OtherMoves
<1>3. NoteTypes' /\ PaceTypes' /\ Paces'
  BY <1>2, NotMyStep DEF loop, NoteTypes
<1>4. QED
  BY <1>1, <1>3

(* What the loop can know of the file it is at. *)
LEMMA AtFile ==
    ASSUME Shape, pc # "sleep"
    PROVE  /\ todo # {} /\ here \in todo /\ here \in Name
           /\ rec = file[here]
           /\ rec # NoFile => /\ rec \in Recording /\ left[rec] \in 0..Pieces
                              /\ MtimeAge \in 0..Stable
           /\ now \in Nat
           /\ sizes[here] # NoFile => sizes[here] \in Entry
<1>1. todo # {} /\ todo \subseteq Name
  BY DEF Shape, TypeOK, Paces
<1>2. here \in todo /\ here \in Name
  BY <1>1, HereIsLeft
<1>3. rec = file[here]
  BY DEF rec
<1>4. now \in Nat
  BY Rooms DEF Shape, TypeOK
<1>5. ASSUME rec # NoFile
      PROVE  /\ rec \in Recording /\ left[rec] \in 0..Pieces
             /\ MtimeAge \in 0..Stable
  <2>1. rec \in Recording
    BY <1>2, <1>3, <1>5 DEF Shape, TypeOK
  <2>2. left[rec] \in 0..Pieces /\ quiet[rec] \in 0..Stable
    BY <2>1 DEF Shape, TypeOK
  <2>3. MtimeAge = Stable \/ MtimeAge = quiet[rec]
    BY Zenon DEF MtimeAge
  <2>4. QED
    BY <2>1, <2>2, <2>3, WatchAssumption
<1>6. QED
  BY <1>1, <1>2, <1>3, <1>4, <1>5 DEF Shape, TypeOK

LEMMA NoteShape ==
    ASSUME Shape, pc # "sleep", rec # NoFile, NEW age \in 0..SinceCap, Note(age)
    PROVE  sizes' \in [Name -> Entry \cup {NoFile}] /\ sizes'[here] \in Entry
<1>1. here \in Name /\ left[rec] \in 0..Pieces
  BY AtFile
<1>2. [left |-> left[rec], since |-> age] \in Entry
  BY <1>1 DEF Entry
<1>3. QED
  BY <1>1, <1>2 DEF Note, Shape

LEMMA ScanShape ==
    ASSUME Shape, Scan
    PROVE  Shape'
<1> USE ShapeParts
<1>1. WorldTypes'
  BY DEF Scan, NewPass, Gone, FirstSight, Settled, SeenBefore, recorder, folders,
         calls, env, WorldTypes
<1>2. status' \in Folder /\ target' \in {"plain", "stamped"}
  BY DEF Scan, NewPass, Gone, FirstSight, Settled, SeenBefore, NoteTypes
<1>3. CASE NewPass
  <2>1. todo' \subseteq Name /\ now' = 0 /\ slept' = 0
    BY <1>3 DEF NewPass
  <2>2. pc' = IF todo' = {} THEN "sleep" ELSE "scan"
    BY <1>3 DEF NewPass, Goto
  <2>3. Cardinality(todo') \in 0..Cardinality(Name)
    <3>1. IsFiniteSet(todo') /\ Cardinality(todo') <= Cardinality(Name)
      BY <2>1, FS_Subset, WatchAssumption
    <3>2. Cardinality(todo') \in Nat /\ Cardinality(Name) \in Nat
      BY <3>1, FS_CardinalityType, WatchAssumption
    <3>3. QED
      BY <3>1, <3>2
  <2>4. 0 <= Room(Cardinality(todo'))
    BY <2>3, Rooms
  <2>5. slept' \in 0..(Poll + Settle) /\ now' \in 0..NowCap
    BY <2>1, Rooms, WatchAssumption
  <2>6. sizes' \in [Name -> Entry \cup {NoFile}]
    BY <1>3 DEF NewPass, Shape
  <2>7. QED
    BY <1>1, <1>2, <2>1, <2>2, <2>4, <2>5, <2>6 DEF NoteTypes, PaceTypes, Paces
<1>4. CASE Gone
  <2>1. PaceTypes' /\ Paces'
    BY <1>4, Passing DEF Gone
  <2>2. NoteTypes'
    BY <1>2, <1>4 DEF Gone, NoteTypes
  <2>3. QED
    BY <1>1, <2>1, <2>2
<1>5. CASE FirstSight
  <2>1. now + MtimeAge \in 0..SinceCap
    <3>1. now \in 0..NowCap /\ MtimeAge \in 0..Stable
      BY <1>5, AtFile DEF FirstSight, Shape, TypeOK
    <3>2. QED
      BY <3>1, Rooms, WatchAssumption
  <2>2. sizes' \in [Name -> Entry \cup {NoFile}] /\ sizes'[here] \in Entry
    BY <1>5, <2>1, NoteShape DEF FirstSight
  <2>3. CASE MtimeAge >= Stable
    <3>1. pc' = "settle" /\ slept' = 0 /\ UNCHANGED <<todo, now>>
      BY <1>5, <2>3 DEF FirstSight, Goto
    <3>2. here' = here
      BY <3>1, HereStays
    <3>3. AtMost(slept', Settle) \in Nat
      BY <3>1, AtMostFacts, WatchAssumption
    <3>4. now <= Room(Cardinality(todo)) /\ now \in Nat
      BY <1>5, AtFile DEF FirstSight, Shape, Paces
    <3>5. Room(Cardinality(todo)) \in Nat
      BY Counting, Rooms DEF Shape, TypeOK
    <3>6. Paces'
      BY <1>5, <2>2, <3>1, <3>2, <3>3, <3>4, <3>5, AtFile DEF FirstSight, Paces
    <3>7. slept' \in 0..(Poll + Settle)
      BY <3>1, WatchAssumption
    <3>8. PaceTypes'
      BY <3>1, <3>7 DEF PaceTypes, Shape, TypeOK
    <3>9. QED
      BY <1>1, <1>2, <2>2, <3>6, <3>8 DEF NoteTypes
  <2>4. CASE ~(MtimeAge >= Stable)
    <3>1. Continue
      BY <1>5, <2>4 DEF FirstSight
    <3>2. QED
      BY <1>1, <1>2, <1>5, <2>2, <3>1, Passing DEF FirstSight, NoteTypes
  <2>5. QED
    BY <2>3, <2>4
<1>6. CASE Settled
  <2>1. CASE rec # NoFile /\ left[rec] = sizes[here].left
    <3>1. Goto("process") /\ UNCHANGED <<todo, slept, now, sizes>>
      BY <1>6, <2>1 DEF Settled
    <3>2. PaceTypes' /\ Paces'
      BY <1>6, <3>1, Staying DEF Settled, Goto, Shape, TypeOK
    <3>3. QED
      BY <1>1, <1>2, <3>1, <3>2 DEF NoteTypes
  <2>2. CASE ~(rec # NoFile /\ left[rec] = sizes[here].left)
    <3>1. Continue /\ sizes' = [sizes EXCEPT ![here].since = now]
      BY <1>6, <2>2 DEF Settled
    <3>2. now \in 0..SinceCap
      BY Rooms DEF Shape, TypeOK
    <3>3. sizes[here] \in Entry /\ here \in Name
      BY <1>6, AtFile DEF Settled, Shape, Paces
    <3>4. [sizes[here] EXCEPT !.since = now] \in Entry
      BY <3>2, <3>3 DEF Entry
    <3>5. sizes' \in [Name -> Entry \cup {NoFile}]
      BY <3>1, <3>3, <3>4 DEF Shape
    <3>6. QED
      BY <1>1, <1>2, <1>6, <3>1, <3>5, Passing DEF Settled, NoteTypes
  <2>3. QED
    BY <2>1, <2>2
<1>7. CASE SeenBefore
  <2>1. CASE StillSame
    <3>1. Goto("process") /\ UNCHANGED <<todo, slept, now, sizes>>
      BY <1>7, <2>1 DEF SeenBefore
    <3>2. PaceTypes' /\ Paces'
      BY <1>7, <3>1, Staying DEF SeenBefore, Goto, Shape, TypeOK
    <3>3. QED
      BY <1>1, <1>2, <3>1, <3>2 DEF NoteTypes
  <2>2. CASE ~StillSame
    <3>1. Continue /\ (Note(now) \/ UNCHANGED sizes)
      BY <1>7, <2>2 DEF SeenBefore
    <3>2. now \in 0..SinceCap
      BY Rooms DEF Shape, TypeOK
    <3>3. sizes' \in [Name -> Entry \cup {NoFile}]
      BY <1>7, <3>1, <3>2, NoteShape DEF SeenBefore, Shape
    <3>4. QED
      BY <1>1, <1>2, <1>7, <3>1, <3>3, Passing DEF SeenBefore, NoteTypes
  <2>3. QED
    BY <2>1, <2>2
<1>8. QED
  BY <1>3, <1>4, <1>5, <1>6, <1>7 DEF Scan

LEMMA HandleShape ==
    ASSUME Shape, Handle
    PROVE  Shape'
<1> USE ShapeParts
<1>1. pc # "sleep" /\ here \in Name
  BY AtFile DEF Handle, Process, Locked, Ended, PickTarget, Move
<1>2. CASE Process
  <2>1. WorldTypes'
    BY <1>1, <1>2, AtFile DEF Process, WorldTypes, recorder, folders, env
  <2>2. NoteTypes' /\ PaceTypes' /\ Paces'
    BY <1>2, NotMyStep DEF Process, NoteTypes, loop
  <2>3. QED
    BY <2>1, <2>2
<1>3. CASE Locked
  <2>1. WorldTypes'
    BY <1>3 DEF Locked, WorldTypes, recorder, folders, calls, env
  <2>2. Continue /\ UNCHANGED <<status, target>>
    BY <1>3 DEF Locked, LeaveIt
  <2>3. sizes' \in [Name -> Entry \cup {NoFile}]
    BY <1>1, <1>3 DEF Locked, NoteTypes
  <2>4. QED
    BY <1>1, <2>1, <2>2, <2>3, Passing DEF NoteTypes
<1>4. CASE Ended
  <2>1. built' = built \/ built' = MadeFrom(here)
    BY <1>4, Zenon DEF Ended
  <2>2. built' \in [Name -> Recording \cup {NoFile}]
    BY <1>1, <2>1, MadeFromTypes DEF Shape, WorldTypes
  <2>3. WorldTypes'
    BY <1>1, <1>4, <2>2 DEF Ended, WorldTypes, recorder, folders, env
  <2>4. status' \in Folder
    BY <1>4 DEF Ended, FolderOf, Folder
  <2>5. NoteTypes'
    BY <1>1, <1>4, <2>4 DEF Ended, NoteTypes
  <2>6. PaceTypes' /\ Paces'
    BY <1>1, <1>4, Staying DEF Ended, Goto, Shape, TypeOK
  <2>7. QED
    BY <2>3, <2>5, <2>6
<1>5. CASE PickTarget
  <2>1. WorldTypes'
    BY <1>5 DEF PickTarget, WorldTypes, recorder, folders, calls, env
  <2>2. NoteTypes'
    BY <1>5 DEF PickTarget, FreeTarget, NoteTypes
  <2>3. PaceTypes' /\ Paces'
    BY <1>1, <1>5, Staying DEF PickTarget, Goto, Shape, TypeOK
  <2>4. QED
    BY <2>1, <2>2, <2>3
<1>6. CASE Move
  <2>1. /\ file' \in [Name -> Recording \cup {NoFile}]
        /\ place' \in [Recording -> Place]
        /\ plain' \in [Folder \X Name -> Recording \cup {NoFile}]
        /\ stamped' \in [Folder \X Name -> Recording \cup {NoFile}]
    <3>1. CASE rec # NoFile /\ Put(rec, <<status, here>>, target)
      BY <1>1, <3>1, AtFile, PutTypes DEF Shape, TypeOK
    <3>2. CASE UNCHANGED <<file, place, folders>>
      BY <3>2 DEF WorldTypes, folders
    <3>3. QED
      BY <1>6, <3>1, <3>2 DEF Move
  <2>2. faults' \in 0..MaxFault
    BY <1>6, WatchAssumption DEF Move, Fault, WorldTypes
  <2>3. WorldTypes'
    BY <1>6, <2>1, <2>2 DEF Move, WorldTypes, calls
  <2>4. NoteTypes'
    BY <1>6 DEF Move, NoteTypes, Folder
  <2>5. QED
    BY <1>1, <1>6, <2>3, <2>4, Passing DEF Move
<1>7. QED
  BY <1>2, <1>3, <1>4, <1>5, <1>6 DEF Handle

LEMMA TickShape ==
    ASSUME Shape, Tick
    PROVE  Shape'
<1> USE ShapeParts
<1>1. WorldTypes'
  <2>1. \A r \in Recording : AtMost(quiet[r] + 1, Stable) \in 0..Stable
    <3>1. TAKE r \in Recording
    <3>2. quiet[r] + 1 \in Nat
      BY WatchAssumption DEF WorldTypes
    <3>3. QED
      BY <3>2, AtMostFacts, WatchAssumption
  <2>2. quiet' \in [Recording -> 0..Stable]
    BY <2>1, WatchAssumption DEF Tick
  <2>3. stamped' \in [Folder \X Name -> Recording \cup {NoFile}]
    BY DEF Tick
  <2>4. QED
    BY <2>2, <2>3 DEF Tick, WorldTypes, calls, env
<1>2. NoteTypes'
  <2>1. \A n \in Name : sizes[n] # NoFile
          => [sizes[n] EXCEPT !.since = AtMost(@ + 1, SinceCap)] \in Entry
    <3>1. TAKE n \in Name
    <3>2. HAVE sizes[n] # NoFile
    <3>3. sizes[n] \in Entry
      BY <3>2 DEF NoteTypes
    <3>4. sizes[n].since + 1 \in Nat
      BY <3>3, Rooms DEF Entry
    <3>5. AtMost(sizes[n].since + 1, SinceCap) \in 0..SinceCap
      BY <3>4, Rooms, AtMostFacts
    <3>6. QED
      BY <3>3, <3>5 DEF Entry
  <2>2. sizes' \in [Name -> Entry \cup {NoFile}]
    BY <2>1 DEF Tick
  <2>3. QED
    BY <2>2 DEF Tick, NoteTypes
<1>3. UNCHANGED <<pc, todo>> /\ here' = here
  BY HereStays DEF Tick
<1>4. now \in Nat /\ slept \in Nat /\ Settle \in Nat /\ Poll \in Nat
  BY Rooms, WatchAssumption DEF PaceTypes
<1>5. Room(Cardinality(todo)) \in Nat /\ MaxCycle <= Room(Cardinality(todo))
      /\ MaxCycle \in Nat /\ Room(Cardinality(todo)) <= NowCap
  BY Counting, Rooms, WatchAssumption DEF PaceTypes
<1>6. slept' \in 0..(Poll + Settle)
  <2>1. AtMost(slept + 1, Poll + Settle) \in 0..(Poll + Settle)
    BY <1>4, AtMostFacts
  <2>2. QED
    BY <2>1 DEF Tick, PaceTypes
<1>7. pc = "settle" /\ slept < Settle => slept' = slept + 1
  <2>1. slept < Settle => AtMost(slept + 1, Poll + Settle) = slept + 1
    BY <1>4, AtMostFacts
  <2>2. QED
    BY <2>1 DEF Tick
<1>8. Paces'
  <2>1. pc = "scan" => now' <= Room(Cardinality(todo))
    BY <1>4, <1>5 DEF Tick
  <2>2. pc = "settle" => now' <= Room(Cardinality(todo)) + AtMost(slept', Settle)
    <3>1. HAVE pc = "settle"
    <3>2. now' = now + 1 /\ AtMost(slept', Settle) \in Nat
      BY <1>4, <1>6, <3>1, AtMostFacts DEF Tick
    <3>3. CASE slept < Settle
      <4>1. AtMost(slept', Settle) = slept + 1 /\ AtMost(slept, Settle) = slept
        BY <1>4, <1>7, <3>1, <3>3, AtMostFacts
      <4>2. QED
        BY <1>4, <1>5, <3>1, <3>2, <4>1 DEF Paces
    <3>4. CASE ~(slept < Settle)
      BY <1>4, <1>5, <3>1, <3>2, <3>4 DEF Tick
    <3>5. QED
      BY <3>3, <3>4
  <2>3. pc \in {"process", "pick", "move"} => now' <= Room(Cardinality(todo)) + Settle
    BY <1>4, <1>5 DEF Tick
  <2>4. pc = "settle" => sizes'[here] \in Entry
    <3>1. HAVE pc = "settle"
    <3>2. here \in Name /\ sizes[here] \in Entry
      BY <3>1, AtFile DEF Paces
    <3>3. sizes'[here] \in Entry \cup {NoFile}
      BY <1>2, <3>2 DEF NoteTypes
    <3>4. sizes'[here] = NoFile => NoFile \in Entry
      <4>1. HAVE sizes'[here] = NoFile
      <4>2. sizes[here] = NoFile \/
              sizes'[here] = [sizes[here] EXCEPT !.since = AtMost(@ + 1, SinceCap)]
        BY <3>2 DEF Tick
      <4>3. [sizes[here] EXCEPT !.since = AtMost(@ + 1, SinceCap)] \in Entry
        <5>1. sizes[here].since + 1 \in Nat
          BY <3>2, Rooms DEF Entry
        <5>2. AtMost(sizes[here].since + 1, SinceCap) \in 0..SinceCap
          BY <5>1, Rooms, AtMostFacts
        <5>3. QED
          BY <3>2, <5>2 DEF Entry
      <4>4. QED
        BY <3>2, <4>1, <4>2, <4>3
    <3>5. QED
      BY <3>3, <3>4
  <2>5. QED
    BY <1>3, <2>1, <2>2, <2>3, <2>4 DEF Paces
<1>9. now' \in 0..NowCap
  <2>1. now < MaxCycle => now + 1 <= NowCap
    BY <1>4, <1>5, Rooms
  <2>2. CASE pc = "settle" /\ slept < Settle
    <3>1. now + 1 <= Room(Cardinality(todo)) + Settle
      <4>1. AtMost(slept, Settle) = slept
        BY <1>4, <2>2, AtMostFacts
      <4>2. QED
        BY <1>4, <1>5, <2>2, <4>1 DEF Paces
    <3>2. Cardinality(todo) \in 1..Cardinality(Name)
      BY <2>2, Counting DEF Paces, PaceTypes
    <3>3. Room(Cardinality(todo) - 1) = Room(Cardinality(todo)) + Settle
          /\ Room(Cardinality(todo) - 1) <= NowCap
      <4>1. Cardinality(Name) \in Nat
        BY FS_CardinalityType, WatchAssumption
      <4>2. Cardinality(todo) - 1 \in 0..Cardinality(Name)
        BY <3>2, <4>1
      <4>3. QED
        BY <3>2, <4>2, Rooms
    <3>4. now + 1 <= NowCap
      BY <1>4, <1>5, <3>1, <3>3, Rooms
    <3>5. now' = now + 1
      BY <2>2 DEF Tick
    <3>6. QED
      BY <1>4, <3>4, <3>5, Rooms
  <2>3. CASE ~(pc = "settle" /\ slept < Settle)
    BY <1>4, <2>1, <2>3, Rooms DEF Tick, PaceTypes
  <2>4. QED
    BY <2>2, <2>3
<1>10. PaceTypes'
  BY <1>3, <1>6, <1>9 DEF PaceTypes
<1>11. QED
  BY <1>1, <1>2, <1>8, <1>10

LEMMA Shaping == Spec => []Shape
<1>1. Init => Shape
  <2> SUFFICES ASSUME Init
               PROVE  Shape
    OBVIOUS
  <2>1. old \in [Recording -> BOOLEAN] /\ meddled \in BOOLEAN
    BY Zenon DEF Init
  <2>2. WorldTypes
    BY <2>1, WatchAssumption DEF Init, WorldTypes, Place
  <2>3. NoteTypes
    BY DEF Init, NoteTypes, Folder
  <2>4. PaceTypes /\ Paces
    BY Rooms, WatchAssumption DEF Init, PaceTypes, Paces
  <2>5. QED
    BY <2>2, <2>3, <2>4, ShapeParts
<1>2. Shape /\ [Next]_vars => Shape'
  <2> SUFFICES ASSUME Shape, [Next]_vars
               PROVE  Shape'
    OBVIOUS
  <2>1. CASE UNCHANGED vars
    <3>1. UNCHANGED loop /\ NoteTypes' /\ WorldTypes'
      BY <2>1, ShapeParts DEF vars, loop, recorder, folders, calls, env, NoteTypes, WorldTypes
    <3>2. QED
      BY <3>1, NotMyStep, ShapeParts
  <2>2. QED
    BY <2>1, RecorderShape, OthersShape, ScanShape, HandleShape, TickShape DEF Next
<1>3. QED
  BY <1>1, <1>2, PTL DEF Spec

(* Every variable keeps its type; in particular no pass lasts longer than   *)
(* the waits of its files and MaxCycle allow.                               *)
THEOREM Typing == Spec => []TypeOK
<1>1. Shape => TypeOK
  BY DEF Shape
<1>2. QED
  BY <1>1, Shaping, PTL
-----------------------------------------------------------------------------
(* Nothing is overwritten.                                                 *)
(*                                                                         *)
(* A recording moved under its plain name goes where nothing was when the  *)
(* target was picked; one moved as name.<second> goes where nothing is,    *)
(* because the last one moved there in this second was of another name, or *)
(* of an earlier pass, and between two passes a second at least goes by.   *)

Spaced ==
    \A t \in Folder \X Name :
        stamped[t] # NoFile => t[2] \notin todo /\ (pc = "sleep" => slept = 0)

Aimed ==
    ~meddled /\ pc = "move" /\ target = "plain" => plain[<<status, here>>] = NoFile

Clear == Spaced /\ Aimed /\ NoneOverwritten

(* What a move does to where the recordings are. *)
LEMMA PutFacts ==
    ASSUME TypeOK, NEW r \in Recording, NEW d \in Folder, NEW n \in Name,
           NEW kind \in {"plain", "stamped"}, Put(r, <<d, n>>, kind)
    PROVE  /\ file' = [file EXCEPT ![n] = NoFile]
           /\ place'[r] = d
           /\ \A x \in Recording \ {r} :
                 place'[x] = place[x] \/ (place'[x] = "lost" /\
                   x = IF kind = "plain" THEN plain[<<d, n>>] ELSE stamped[<<d, n>>])
           /\ kind = "plain" => UNCHANGED stamped
           /\ \A t \in Folder \X Name : t # <<d, n>> => stamped'[t] = stamped[t]
<1>1. <<d, n>> \in Folder \X Name /\ <<d, n>>[1] = d /\ <<d, n>>[2] = n
  OBVIOUS
<1> DEFINE was == IF kind = "plain" THEN plain[<<d, n>>] ELSE stamped[<<d, n>>]
<1>2.   /\ place' = [x \in Recording |-> IF x = r THEN d
                                         ELSE IF x = was THEN "lost" ELSE place[x]]
        /\ stamped' = IF kind = "stamped" THEN [stamped EXCEPT ![<<d, n>>] = r] ELSE stamped
        /\ file' = [file EXCEPT ![n] = NoFile]
  BY <1>1 DEF Put
<1>3. place'[r] = d
  <2> HIDE DEF was
  <2>1. QED
    BY <1>2
<1>4. \A x \in Recording \ {r} : place'[x] = place[x] \/ (place'[x] = "lost" /\ x = was)
  <2> HIDE DEF was
  <2>1. QED
    BY <1>2
<1>5. kind = "plain" => UNCHANGED stamped
  BY <1>2
<1>6. \A t \in Folder \X Name : t # <<d, n>> => stamped'[t] = stamped[t]
  BY <1>1, <1>2 DEF TypeOK
<1>7. QED
  BY <1>2, <1>3, <1>4, <1>5, <1>6

(* Where the loop goes from a file that it is done with. *)
LEMMA ContinueFacts ==
    ASSUME Shape, pc # "sleep", Continue
    PROVE  /\ todo' = todo \ {here} /\ here \in todo
           /\ slept' = 0
           /\ pc' \in {"sleep", "scan"}
           /\ pc' = "sleep" <=> todo' = {}
BY AtFile DEF Continue, Goto

(* What the steps of the loop that end no file leave as it was. *)
LEMMA SpacedScan ==
    ASSUME Shape, Spaced, Scan
    PROVE  Spaced'
<1>1. UNCHANGED stamped
  BY DEF Scan, NewPass, Gone, FirstSight, Settled, SeenBefore, folders
<1>2. CASE NewPass
  <2>1. pc = "sleep" /\ slept # 0
    BY <1>2, WatchAssumption DEF NewPass, Shape, TypeOK
  <2>2. \A t \in Folder \X Name : stamped[t] = NoFile
    BY <2>1 DEF Spaced
  <2>3. QED
    BY <1>1, <2>2 DEF Spaced
<1>3. ASSUME pc # "sleep", todo' \subseteq todo, pc' = "sleep" => slept' = 0
      PROVE  Spaced'
  BY <1>1, <1>3 DEF Spaced
<1>4. pc # "sleep" /\ Continue => Spaced'
  BY <1>3, ContinueFacts
<1>5. CASE Gone
  BY <1>4, <1>5 DEF Gone
<1>6. CASE FirstSight
  <2>1. Continue \/ (pc' = "settle" /\ todo' = todo)
    BY <1>6 DEF FirstSight, Goto
  <2>2. QED
    BY <1>3, <1>4, <1>6, <2>1 DEF FirstSight
<1>7. CASE Settled \/ SeenBefore
  <2>1. Continue \/ (pc' = "process" /\ todo' = todo)
    BY <1>7 DEF Settled, SeenBefore, Goto
  <2>2. QED
    BY <1>3, <1>4, <1>7, <2>1 DEF Settled, SeenBefore
<1>8. QED
  BY <1>2, <1>5, <1>6, <1>7 DEF Scan

LEMMA MoveClear ==
    ASSUME Shape, Clear, Move
    PROVE  Clear'
<1>1. pc = "move" /\ Continue /\ meddled' = meddled
  BY DEF Move
<1>2. here \in Name /\ here \in todo /\ rec = file[here]
  BY <1>1, AtFile
<1>3. todo' = todo \ {here} /\ pc' # "move" /\ (pc' = "sleep" => slept' = 0)
  BY <1>1, ContinueFacts
<1>4. status \in Folder /\ target \in {"plain", "stamped"}
  BY DEF Shape, TypeOK
<1>5. CASE rec # NoFile /\ Put(rec, <<status, here>>, target)
  <2>1. rec \in Recording
    BY <1>1, <1>5, AtFile
  <2>2. \A t \in Folder \X Name : t # <<status, here>> => stamped'[t] = stamped[t]
    BY <1>2, <1>4, <1>5, <2>1, PutFacts DEF Shape
  <2>3. Spaced'
    <3>1. SUFFICES ASSUME NEW t \in Folder \X Name, stamped'[t] # NoFile
                   PROVE  t[2] \notin todo'
      BY <1>3 DEF Spaced
    <3>2. t = <<status, here>> => t[2] = here
      OBVIOUS
    <3>3. QED
      BY <1>3, <2>2, <3>1, <3>2 DEF Clear, Spaced
  <2>4. <<status, here>> \in Folder \X Name
    BY <1>2, <1>4
  <2>5. stamped[<<status, here>>] = NoFile
    BY <1>2, <2>4 DEF Clear, Spaced
  <2>6. ASSUME ~meddled, NEW x \in Recording
        PROVE  place'[x] # "lost"
    <3>1. target = "plain" => plain[<<status, here>>] = NoFile
      BY <1>1, <2>6 DEF Clear, Aimed
    <3>2. place[x] # "lost"
      BY <2>6 DEF Clear, NoneOverwritten
    <3>3. x # IF target = "plain" THEN plain[<<status, here>>] ELSE stamped[<<status, here>>]
      BY <2>5, <3>1, WatchAssumption
    <3>4. status # "lost"
      BY <1>4 DEF Folder
    <3>5. CASE x = rec
      BY <1>2, <1>4, <1>5, <2>1, <3>4, <3>5, PutFacts DEF Shape
    <3>6. CASE x # rec
      BY <1>2, <1>4, <1>5, <2>1, <3>2, <3>3, <3>6, PutFacts DEF Shape
    <3>7. QED
      BY <3>5, <3>6
  <2>7. QED
    BY <1>1, <1>3, <2>3, <2>6 DEF Clear, Aimed, NoneOverwritten
<1>6. CASE UNCHANGED <<place, folders>>
  BY <1>1, <1>3, <1>6 DEF Clear, Spaced, Aimed, NoneOverwritten, folders
<1>7. QED
  BY <1>5, <1>6 DEF Move

LEMMA ClearNext ==
    ASSUME Shape, Clear, [Next]_vars
    PROVE  Clear'
<1>1. CASE Scan
  <2>1. UNCHANGED <<place, folders, meddled>> /\ pc' # "move"
    <3>1. Continue => pc' # "move"
      BY DEF Continue, Goto
    <3>2. QED
      BY <1>1, <3>1 DEF Scan, NewPass, Gone, FirstSight, Settled, SeenBefore, Goto, recorder, env
  <2>2. QED
    BY <1>1, <2>1, SpacedScan DEF Clear, Aimed, NoneOverwritten
<1>2. CASE Process
  BY <1>2, HereStays DEF Process, Clear, Spaced, Aimed, NoneOverwritten, recorder,
         folders, loop, env
<1>3. CASE Locked
  <2>1. Continue /\ pc # "sleep" /\ UNCHANGED <<place, folders, meddled>>
    BY <1>3 DEF Locked, LeaveIt, recorder, env
  <2>2. QED
    BY <2>1, ContinueFacts DEF Clear, Spaced, Aimed, NoneOverwritten, folders
<1>4. CASE Ended
  BY <1>4 DEF Ended, Goto, Clear, Spaced, Aimed, NoneOverwritten, recorder, folders, env
<1>5. CASE PickTarget
  <2>1. UNCHANGED <<todo, status, plain, stamped, meddled, place>> /\ pc' = "move"
        /\ target' = FreeTarget
    BY <1>5 DEF PickTarget, Goto, recorder, folders, env
  <2>2. Aimed'
    BY <2>1, HereStays DEF FreeTarget, Aimed
  <2>3. QED
    BY <2>1, <2>2 DEF Clear, Spaced, NoneOverwritten
<1>6. CASE Move
  BY <1>6, MoveClear
<1>7. ASSUME NEW r \in Recording, Arrive(r) \/ Append(r)
      PROVE  Clear'
  <2>1. UNCHANGED <<folders, loop, meddled>> /\ here' = here
    BY <1>7, HereStays DEF Arrive, Append, loop, env
  <2>2. \A x \in Recording : place[x] # "lost" => place'[x] # "lost"
    BY <1>7 DEF Arrive, Append, Shape, TypeOK
  <2>3. QED
    BY <2>1, <2>2 DEF Clear, Spaced, Aimed, NoneOverwritten, folders, loop
<1>8. ASSUME NEW n \in Name, OtherTakes(n) \/ OtherEnds(n)
      PROVE  Clear'
  <2>1. UNCHANGED <<folders, loop, meddled, place>> /\ here' = here
    BY <1>8, HereStays DEF OtherTakes, OtherEnds, loop, env, recorder
  <2>2. QED
    BY <2>1 DEF Clear, Spaced, Aimed, NoneOverwritten, folders, loop
<1>9. ASSUME NEW n \in Name, OtherMoves(n)
      PROVE  Clear'
  <2>1. meddled' /\ UNCHANGED loop /\ Put(file[n], <<"processed", n>>, "plain")
    BY <1>9, Zenon DEF OtherMoves
  <2>2. UNCHANGED stamped
    BY <2>1 DEF Put
  <2>3. QED
    BY <2>1, <2>2 DEF Clear, Spaced, Aimed, NoneOverwritten, loop
<1>10. CASE Tick
  <2>1. \A t \in Folder \X Name : stamped'[t] = NoFile
    BY <1>10 DEF Tick
  <2>2. UNCHANGED <<pc, todo, target, status, plain, place, meddled>>
    BY <1>10 DEF Tick, env
  <2>3. QED
    BY <2>1, <2>2, HereStays DEF Clear, Spaced, Aimed, NoneOverwritten
<1>11. CASE UNCHANGED vars
  BY <1>11, HereStays DEF vars, recorder, folders, loop, env, Clear, Spaced, Aimed, NoneOverwritten
<1>12. QED
  BY <1>1, <1>2, <1>3, <1>4, <1>5, <1>6, <1>7, <1>8, <1>9, <1>10, <1>11 DEF Next, Handle

(* No recording is overwritten while this loop is the only one that moves   *)
(* files, however many of them have one name and whatever moves fail.       *)
THEOREM NoRecordingIsLost == Spec => []NoneOverwritten
<1>1. Init => Clear
  BY DEF Init, Clear, Spaced, Aimed, NoneOverwritten
<1>2. Clear => NoneOverwritten
  BY DEF Clear
<1>3. QED
  BY <1>1, <1>2, ClearNext, Shaping, PTL DEF Spec
-----------------------------------------------------------------------------
(* Where the recordings are: input/calls/ has each under its own name, and *)
(* nothing that was moved away; and the loop has the lock of no call but   *)
(* the one it is having processed.                                         *)

Filed ==
    /\ \A n \in Name : file[n] # NoFile => nameOf[file[n]] = n /\ place[file[n]] = "calls"
    /\ \A r \in Recording : place[r] = "calls" => file[nameOf[r]] = r
    /\ \A t \in Folder \X Name :
          /\ plain[t] # NoFile => place[plain[t]] \notin {"calls", "coming"}
          /\ stamped[t] # NoFile => place[stamped[t]] \notin {"calls", "coming"}

Held == \A n \in Name : lock[n] = "loop" => pc = "process" /\ n = here

Settings == Shape /\ Filed /\ Held

LEMMA PutFiled ==
    ASSUME Shape, Filed, NEW n \in Name, file[n] # NoFile, NEW d \in Folder,
           NEW kind \in {"plain", "stamped"}, Put(file[n], <<d, n>>, kind),
           UNCHANGED nameOf
    PROVE  Filed'
<1> DEFINE r == file[n]
<1> DEFINE was == IF kind = "plain" THEN plain[<<d, n>>] ELSE stamped[<<d, n>>]
<1>1. <<d, n>> \in Folder \X Name /\ <<d, n>>[1] = d /\ <<d, n>>[2] = n
  OBVIOUS
<1>2. r \in Recording /\ nameOf[r] = n /\ place[r] = "calls"
  BY DEF Shape, TypeOK, Filed
<1>3.   /\ place' = [x \in Recording |-> IF x = r THEN d
                                         ELSE IF x = was THEN "lost" ELSE place[x]]
        /\ plain' = IF kind = "plain" THEN [plain EXCEPT ![<<d, n>>] = r] ELSE plain
        /\ stamped' = IF kind = "stamped" THEN [stamped EXCEPT ![<<d, n>>] = r] ELSE stamped
        /\ file' = [file EXCEPT ![n] = NoFile]
  BY <1>1 DEF Put
<1>4. was # NoFile => place[was] # "calls"
  BY <1>1 DEF Filed
<1> HIDE DEF was, r
<1>5. d \notin {"calls", "coming", "lost"}
  BY DEF Folder
<1>6. \A x \in Recording \ {r} : place'[x] = place[x] \/ (x = was /\ place'[x] = "lost")
  BY <1>3
<1>7. place'[r] = d
  BY <1>2, <1>3
<1>8. \A m \in Name : m # n => file'[m] = file[m]
  BY <1>3 DEF Shape, TypeOK
<1>9. file'[n] = NoFile
  BY <1>3 DEF Shape, TypeOK
<1>10. ASSUME NEW m \in Name, file'[m] # NoFile
       PROVE  nameOf'[file'[m]] = m /\ place'[file'[m]] = "calls"
  <2>1. m # n /\ file'[m] = file[m] /\ file[m] \in Recording
    BY <1>8, <1>9, <1>10 DEF Shape, TypeOK
  <2>2. nameOf[file[m]] = m /\ place[file[m]] = "calls"
    BY <1>10, <2>1 DEF Filed
  <2>3. file[m] # r
    BY <1>2, <2>1, <2>2
  <2>4. place'[file[m]] = "calls"
    BY <1>4, <1>6, <2>1, <2>2, <2>3, WatchAssumption
  <2>5. QED
    BY <2>1, <2>2, <2>4
<1>11. ASSUME NEW x \in Recording, place'[x] = "calls"
       PROVE  file'[nameOf'[x]] = x
  <2>1. x # r /\ place[x] = "calls"
    BY <1>5, <1>6, <1>7, <1>11
  <2>2. file[nameOf[x]] = x /\ nameOf[x] \in Name
    BY <2>1 DEF Shape, TypeOK, Filed
  <2>3. nameOf[x] # n
    BY <2>1, <2>2 DEF r
  <2>4. QED
    BY <1>8, <2>2, <2>3
<1>12. ASSUME NEW x \in Recording, place[x] \notin {"calls", "coming"}
       PROVE  place'[x] \notin {"calls", "coming"}
  BY <1>5, <1>6, <1>7, <1>12
<1>13. ASSUME NEW t \in Folder \X Name
       PROVE  /\ plain'[t] # NoFile => place'[plain'[t]] \notin {"calls", "coming"}
              /\ stamped'[t] # NoFile => place'[stamped'[t]] \notin {"calls", "coming"}
  <2>1. plain'[t] = r \/ plain'[t] = plain[t]
    BY <1>1, <1>3 DEF Shape, TypeOK
  <2>2. stamped'[t] = r \/ stamped'[t] = stamped[t]
    BY <1>1, <1>3 DEF Shape, TypeOK
  <2>3. place'[r] \notin {"calls", "coming"}
    BY <1>5, <1>7
  <2>4. plain[t] # NoFile => plain[t] \in Recording /\ place[plain[t]] \notin {"calls", "coming"}
    BY DEF Filed, Shape, TypeOK
  <2>5. stamped[t] # NoFile => stamped[t] \in Recording /\ place[stamped[t]] \notin {"calls", "coming"}
    BY DEF Filed, Shape, TypeOK
  <2>6. QED
    BY <1>12, <2>1, <2>2, <2>3, <2>4, <2>5
<1>14. QED
  BY <1>10, <1>11, <1>13 DEF Filed

LEMMA FiledNext ==
    ASSUME Shape, Filed, [Next]_vars
    PROVE  Filed'
<1>1. CASE UNCHANGED <<file, nameOf, place, plain>>
           /\ (UNCHANGED stamped \/ stamped' = [t \in Folder \X Name |-> NoFile])
  BY <1>1 DEF Filed
<1>2. CASE Scan \/ Process \/ Locked \/ Ended \/ PickTarget \/ UNCHANGED vars
  BY <1>1, <1>2 DEF Scan, NewPass, Gone, FirstSight, Settled, SeenBefore, Process,
         Locked, Ended, PickTarget, vars, recorder, folders
<1>3. CASE Tick
  BY <1>1, <1>3 DEF Tick
<1>4. CASE Move
  <2>1. here \in Name /\ status \in Folder /\ target \in {"plain", "stamped"} /\ rec = file[here]
        /\ UNCHANGED nameOf
    BY <1>4, AtFile DEF Move, Shape, TypeOK
  <2>2. CASE rec # NoFile /\ Put(rec, <<status, here>>, target)
    BY <2>1, <2>2, PutFiled
  <2>3. CASE UNCHANGED <<file, place, folders>>
    BY <1>1, <2>1, <2>3 DEF folders
  <2>4. QED
    BY <1>4, <2>2, <2>3 DEF Move
<1>5. ASSUME NEW r \in Recording, Arrive(r)
      PROVE  Filed'
  <2>1. /\ place[r] = "coming" /\ file[nameOf[r]] = NoFile /\ nameOf[r] \in Name
        /\ file' = [file EXCEPT ![nameOf[r]] = r]
        /\ place' = [place EXCEPT ![r] = "calls"]
        /\ UNCHANGED <<nameOf, plain, stamped>>
    BY <1>5 DEF Arrive, folders, Shape, TypeOK
  <2>2. ASSUME NEW m \in Name, file'[m] # NoFile
        PROVE  nameOf'[file'[m]] = m /\ place'[file'[m]] = "calls"
    BY <2>1, <2>2 DEF Filed, Shape, TypeOK
  <2>3. ASSUME NEW x \in Recording, place'[x] = "calls"
        PROVE  file'[nameOf'[x]] = x
    <3>1. CASE x = r
      BY <2>1, <3>1 DEF Shape, TypeOK
    <3>2. CASE x # r
      BY <2>1, <2>3, <3>2, WatchAssumption DEF Filed, Shape, TypeOK
    <3>3. QED
      BY <3>1, <3>2
  <2>4. \A t \in Folder \X Name :
          /\ plain'[t] # NoFile => place'[plain'[t]] \notin {"calls", "coming"}
          /\ stamped'[t] # NoFile => place'[stamped'[t]] \notin {"calls", "coming"}
    BY <2>1 DEF Filed, Shape, TypeOK
  <2>5. QED
    BY <2>2, <2>3, <2>4 DEF Filed
<1>6. ASSUME NEW r \in Recording, Append(r)
      PROVE  Filed'
  BY <1>1, <1>6 DEF Append, folders
<1>7. ASSUME NEW n \in Name, OtherTakes(n) \/ OtherEnds(n)
      PROVE  Filed'
  BY <1>1, <1>7 DEF OtherTakes, OtherEnds, recorder, folders
<1>8. ASSUME NEW n \in Name, OtherMoves(n)
      PROVE  Filed'
  <2>1. file[n] # NoFile
    BY <1>8, WatchAssumption DEF OtherMoves, Shape, TypeOK
  <2>2. Put(file[n], <<"processed", n>>, "plain") /\ UNCHANGED nameOf /\ "processed" \in Folder
    BY <1>8 DEF OtherMoves, Folder
  <2>3. QED
    BY <2>1, <2>2, PutFiled
<1>9. QED
  BY <1>2, <1>3, <1>4, <1>5, <1>6, <1>7, <1>8 DEF Next, Handle

LEMMA HeldNext ==
    ASSUME Shape, Held, [Next]_vars
    PROVE  Held'
<1>1. CASE Scan
  <2>1. pc # "process" /\ UNCHANGED lock
    BY <1>1 DEF Scan, NewPass, Gone, FirstSight, Settled, SeenBefore, calls
  <2>2. QED
    BY <2>1 DEF Held
<1>2. CASE Process
  BY <1>2, HereStays DEF Process, loop, Held, Shape, TypeOK
<1>3. CASE Locked
  BY <1>3 DEF Locked, calls, Held
<1>4. CASE Ended
  BY <1>4 DEF Ended, Held, Shape, TypeOK
<1>5. CASE PickTarget \/ Move
  BY <1>5 DEF PickTarget, Move, calls, Held
<1>6. CASE Tick
  BY <1>6, HereStays DEF Tick, calls, Held
<1>7. ASSUME NEW r \in Recording, Arrive(r) \/ Append(r)
      PROVE  Held'
  BY <1>7, HereStays DEF Arrive, Append, calls, loop, Held
<1>8. ASSUME NEW n \in Name, OtherTakes(n) \/ OtherEnds(n) \/ OtherMoves(n)
      PROVE  Held'
  <2>1. UNCHANGED <<pc, here>>
    BY <1>8, HereStays DEF OtherTakes, OtherEnds, OtherMoves, loop
  <2>2. \A m \in Name : lock'[m] = "loop" => lock[m] = "loop"
    BY <1>8 DEF OtherTakes, OtherEnds, OtherMoves, calls, Shape, TypeOK
  <2>3. QED
    BY <2>1, <2>2 DEF Held
<1>9. CASE UNCHANGED vars
  BY <1>9, HereStays DEF vars, calls, loop, Held
<1>10. QED
  BY <1>1, <1>2, <1>3, <1>4, <1>5, <1>6, <1>7, <1>8, <1>9 DEF Next, Handle

LEMMA SettingsHold == Spec => []Settings
<1>1. Init => Filed /\ Held
  BY DEF Init, Filed, Held
<1>2. QED
  BY <1>1, FiledNext, HeldNext, Shaping, PTL DEF Spec, Settings
-----------------------------------------------------------------------------
(* Nothing is put aside that was not processed.                            *)
(*                                                                         *)
(* From the moment a file is found until it is moved it stays where it is, *)
(* so the one that is moved is the one process_call was run on; what the   *)
(* loop remembers of a name is of the file there now, and forgotten before *)
(* the file is moved.                                                      *)

Following ==
    /\ pc \in {"settle", "process", "pick", "move"} => rec # NoFile
    /\ pc \in {"pick", "move"} => rec \in tried /\ sizes[here] = NoFile
    /\ pc = "process" /\ lock[here] = "loop" => rec \in tried

Handling ==
    ~meddled =>
        /\ Following
        /\ \A n \in Name : sizes[n] # NoFile => file[n] # NoFile
        /\ \A r \in Recording : place[r] \in Folder => r \in tried

(* A step of the loop that moves nothing. *)
LEMMA HandlingStays ==
    ASSUME Handling, UNCHANGED <<meddled, file, place>>, tried \subseteq tried',
           ~meddled => Following',
           \A n \in Name : sizes'[n] # NoFile => sizes[n] # NoFile \/ file[n] # NoFile
    PROVE  Handling'
BY DEF Handling

LEMMA Elsewhere ==
    ASSUME Shape, pc # "sleep", Continue
    PROVE  Following'
BY ContinueFacts DEF Following

LEMMA NoteKeeps ==
    ASSUME Shape, pc # "sleep", rec # NoFile, NEW age, Note(age)
    PROVE  \A n \in Name : sizes'[n] # NoFile => sizes[n] # NoFile \/ file[n] # NoFile
<1>1. here \in Name /\ rec = file[here]
  BY AtFile
<1>2. \A n \in Name : n # here => sizes'[n] = sizes[n]
  BY <1>1 DEF Note, Shape
<1>3. QED
  BY <1>1, <1>2

LEMMA HandlingScan ==
    ASSUME Settings, Handling, Scan
    PROVE  Handling'
<1>1. Shape
  BY DEF Settings
<1>2. UNCHANGED <<meddled, file, place, tried, lock>>
  BY DEF Scan, NewPass, Gone, FirstSight, Settled, SeenBefore, recorder, calls, env
<1>3. CASE NewPass
  <2>1. pc' \in {"sleep", "scan"} /\ UNCHANGED sizes
    BY <1>3 DEF NewPass, Goto
  <2>2. QED
    BY <1>2, <2>1, HandlingStays DEF Following
<1>4. CASE Gone
  BY <1>1, <1>2, <1>4, Elsewhere, HandlingStays DEF Gone
<1>5. CASE FirstSight
  <2>1. \A n \in Name : sizes'[n] # NoFile => sizes[n] # NoFile \/ file[n] # NoFile
    BY <1>1, <1>5, NoteKeeps DEF FirstSight
  <2>2. Following'
    <3>1. CASE Continue
      BY <1>1, <1>5, <3>1, Elsewhere DEF FirstSight
    <3>2. CASE pc' = "settle" /\ todo' = todo
      BY <1>2, <1>5, <3>2, HereStays DEF FirstSight, Following, rec
    <3>3. QED
      BY <1>5, <3>1, <3>2 DEF FirstSight, Goto
  <2>3. QED
    BY <1>2, <2>1, <2>2, HandlingStays
<1>6. ASSUME pc' = "process", todo' = todo, rec # NoFile, pc \in {"settle", "scan"},
             UNCHANGED sizes
      PROVE  Handling'
  <2>1. here \in Name
    BY <1>1, <1>6, AtFile
  <2>2. lock[here] # "loop"
    BY <1>6, <2>1 DEF Settings, Held
  <2>3. Following'
    BY <1>2, <1>6, <2>2, HereStays DEF Following, rec
  <2>4. QED
    BY <1>2, <1>6, <2>3, HandlingStays
<1>7. CASE Settled
  <2>1. CASE rec # NoFile /\ left[rec] = sizes[here].left
    BY <1>6, <1>7, <2>1 DEF Settled, Goto
  <2>2. CASE ~(rec # NoFile /\ left[rec] = sizes[here].left)
    <3>1. Continue /\ pc = "settle" /\ sizes' = [sizes EXCEPT ![here].since = now]
      BY <1>7, <2>2 DEF Settled
    <3>2. here \in Name /\ rec = file[here]
      BY <1>1, <3>1, AtFile
    <3>3. \A n \in Name : n # here => sizes'[n] = sizes[n]
      BY <1>1, <3>1, <3>2 DEF Shape
    <3>4. CASE meddled
      BY <1>2, <3>4 DEF Handling
    <3>5. CASE ~meddled
      <4>1. rec # NoFile
        BY <3>1, <3>5 DEF Handling, Following
      <4>2. QED
        BY <1>1, <1>2, <3>1, <3>2, <3>3, <4>1, Elsewhere, HandlingStays
    <3>6. QED
      BY <3>4, <3>5
  <2>3. QED
    BY <2>1, <2>2
<1>8. CASE SeenBefore
  <2>1. CASE StillSame
    BY <1>6, <1>8, <2>1 DEF SeenBefore, Goto
  <2>2. CASE ~StillSame
    <3>1. Continue /\ pc # "sleep" /\ rec # NoFile /\ (Note(now) \/ UNCHANGED sizes)
      BY <1>8, <2>2 DEF SeenBefore
    <3>2. \A n \in Name : sizes'[n] # NoFile => sizes[n] # NoFile \/ file[n] # NoFile
      BY <1>1, <3>1, NoteKeeps
    <3>3. QED
      BY <1>1, <1>2, <3>1, <3>2, Elsewhere, HandlingStays
  <2>3. QED
    BY <2>1, <2>2
<1>9. QED
  BY <1>3, <1>4, <1>5, <1>7, <1>8 DEF Scan

LEMMA HandlingMove ==
    ASSUME Settings, Handling, Move
    PROVE  Handling'
<1>1. Shape /\ pc = "move" /\ Continue /\ UNCHANGED <<meddled, tried, sizes>>
  BY DEF Settings, Move, calls
<1>2. here \in Name /\ rec = file[here] /\ status \in Folder /\ target \in {"plain", "stamped"}
  BY <1>1, AtFile DEF Shape, TypeOK
<1>3. Following'
  BY <1>1, Elsewhere
<1>4. CASE rec # NoFile /\ Put(rec, <<status, here>>, target)
  <2>1. rec \in Recording
    BY <1>1, <1>4, AtFile
  <2>2. /\ file' = [file EXCEPT ![here] = NoFile]
        /\ \A x \in Recording \ {rec} : place'[x] = place[x] \/ place'[x] = "lost"
    BY <1>1, <1>2, <1>4, <2>1, PutFacts DEF Shape
  <2>3. \A n \in Name : n # here => file'[n] = file[n]
    BY <1>1, <2>2 DEF Shape, TypeOK
  <2>4. "lost" \notin Folder
    BY DEF Folder
  <2>5. QED
    BY <1>1, <1>2, <1>3, <2>1, <2>2, <2>3, <2>4 DEF Handling, Following
<1>5. CASE UNCHANGED <<file, place>>
  BY <1>1, <1>3, <1>5, HandlingStays
<1>6. QED
  BY <1>4, <1>5 DEF Move

LEMMA HandlingNext ==
    ASSUME Settings, Handling, [Next]_vars
    PROVE  Handling'
<1>1. Shape
  BY DEF Settings
<1>2. CASE Scan
  BY <1>2, HandlingScan
<1>3. CASE Process
  <2>1. /\ pc = "process" /\ UNCHANGED <<meddled, file, place, pc, todo, sizes>>
        /\ tried' = IF rec = NoFile THEN tried ELSE tried \cup {rec}
    BY <1>3 DEF Process, recorder, env, loop
  <2>2. here' = here /\ rec' = rec
    BY <2>1, HereStays DEF rec
  <2>3. ~meddled => Following'
    BY <2>1, <2>2 DEF Handling, Following
  <2>4. tried \subseteq tried'
    BY <2>1
  <2>5. QED
    BY <2>1, <2>3, <2>4, HandlingStays
<1>4. CASE Locked
  <2>1. /\ pc = "process" /\ Continue /\ UNCHANGED <<meddled, file, place, tried>>
        /\ sizes' = [sizes EXCEPT ![here] = NoFile]
    BY <1>4 DEF Locked, LeaveIt, recorder, env, calls
  <2>2. \A n \in Name : sizes'[n] # NoFile => sizes[n] # NoFile
    BY <1>1, <2>1 DEF Shape
  <2>3. QED
    BY <1>1, <2>1, <2>2, Elsewhere, HandlingStays
<1>5. CASE Ended
  <2>1. /\ pc = "process" /\ lock[here] = "loop" /\ pc' = "pick"
        /\ UNCHANGED <<meddled, file, place, tried, todo>>
        /\ sizes' = [sizes EXCEPT ![here] = NoFile]
    BY <1>5 DEF Ended, Goto, recorder, env
  <2>2. here \in Name /\ here' = here /\ rec' = rec
    BY <1>1, <2>1, AtFile, HereStays DEF rec
  <2>3. sizes'[here] = NoFile /\ \A n \in Name : sizes'[n] # NoFile => sizes[n] # NoFile
    BY <1>1, <2>1, <2>2 DEF Shape
  <2>4. ~meddled => Following'
    BY <2>1, <2>2, <2>3 DEF Handling, Following
  <2>5. QED
    BY <2>1, <2>3, <2>4, HandlingStays
<1>6. CASE PickTarget
  <2>1. /\ pc = "pick" /\ pc' = "move"
        /\ UNCHANGED <<meddled, file, place, tried, todo, sizes>>
    BY <1>6 DEF PickTarget, Goto, recorder, env, calls
  <2>2. here' = here /\ rec' = rec
    BY <2>1, HereStays DEF rec
  <2>3. QED
    BY <2>1, <2>2, HandlingStays DEF Handling, Following
<1>7. CASE Move
  BY <1>7, HandlingMove
<1>8. ASSUME NEW r \in Recording, Arrive(r) \/ Append(r)
      PROVE  Handling'
  <2>1. UNCHANGED <<meddled, pc, todo, sizes, tried, lock>> /\ here' = here
    BY <1>8, HereStays DEF Arrive, Append, calls, loop, env
  <2>2. \A n \in Name : file[n] # NoFile => file'[n] = file[n]
    BY <1>8 DEF Arrive, Append, Shape, TypeOK, Settings
  <2>3. \A x \in Recording : place'[x] \in Folder => place[x] \in Folder
    BY <1>8 DEF Arrive, Append, Shape, TypeOK, Settings, Folder
  <2>4. ~meddled => Following'
    <3>1. pc # "sleep" /\ rec # NoFile => rec' = rec
      BY <1>1, <2>1, <2>2, AtFile DEF rec
    <3>2. QED
      BY <2>1, <3>1 DEF Handling, Following
  <2>5. \A n \in Name : file[n] # NoFile => file'[n] # NoFile
    BY <2>2
  <2>6. QED
    BY <2>1, <2>3, <2>4, <2>5 DEF Handling
<1>9. ASSUME NEW n \in Name, OtherTakes(n) \/ OtherEnds(n)
      PROVE  Handling'
  <2>1. UNCHANGED <<meddled, pc, todo, sizes, file, place>> /\ here' = here /\ rec' = rec
    BY <1>9, HereStays DEF OtherTakes, OtherEnds, recorder, loop, env, rec
  <2>2. tried \subseteq tried'
    BY <1>9 DEF OtherTakes, OtherEnds
  <2>3. pc # "sleep" /\ lock'[here] = "loop" => lock[here] = "loop"
    BY <1>1, <1>9, AtFile DEF OtherTakes, OtherEnds, Shape, TypeOK
  <2>4. ~meddled => Following'
    BY <2>1, <2>2, <2>3 DEF Handling, Following
  <2>5. QED
    BY <2>1, <2>2, <2>4, HandlingStays
<1>10. ASSUME NEW n \in Name, OtherMoves(n)
       PROVE  Handling'
  BY <1>10 DEF OtherMoves, Handling
<1>11. CASE Tick
  <2>1. UNCHANGED <<meddled, pc, todo, file, place, tried, lock>> /\ here' = here /\ rec' = rec
    BY <1>11, HereStays DEF Tick, calls, env, rec
  <2>2. \A n \in Name : sizes[n] = NoFile => sizes'[n] = NoFile
    BY <1>11 DEF Tick
  <2>3. pc # "sleep" => here \in Name
    BY <1>1, AtFile
  <2>4. pc \in {"pick", "move"} /\ sizes[here] = NoFile => sizes'[here] = NoFile
    BY <2>2, <2>3
  <2>5. ~meddled => Following'
    BY <2>1, <2>4 DEF Handling, Following
  <2>6. QED
    BY <2>1, <2>2, <2>5, HandlingStays
<1>12. CASE UNCHANGED vars
  BY <1>12, HereStays DEF vars, recorder, calls, loop, env, Handling, Following, rec
<1>13. QED
  BY <1>2, <1>3, <1>4, <1>5, <1>6, <1>7, <1>8, <1>9, <1>10, <1>11, <1>12 DEF Next, Handle

LEMMA HandlingHolds == Spec => []Handling
<1>1. Init => Handling
  BY DEF Init, Handling, Following, Folder
<1>2. QED
  BY <1>1, HandlingNext, SettingsHold, PTL DEF Spec

(* Every recording that left input/calls/ had process_call run on it, while *)
(* this loop is the only one that moves files: one that another process is  *)
(* working on is left where it is.                                          *)
THEOREM OnlyHandledLeave == Spec => []Handled
<1>1. Handling => Handled
  BY DEF Handling, Handled
<1>2. QED
  BY <1>1, HandlingHolds, PTL
-----------------------------------------------------------------------------
(* What is in processed/ was processed.                                    *)
(*                                                                         *)
(* A call is made from a file of its own name and never again from         *)
(* another, and a file goes to processed/ only when its call was made.     *)

MadeOfItsOwn == \A n \in Name : built[n] # NoFile => nameOf[built[n]] = n

Making ==
    /\ MadeOfItsOwn
    /\ pc \in {"pick", "move"} /\ status = "processed" => built[here] # NoFile
    /\ \A r \in Recording : place[r] = "processed" => built[nameOf[r]] # NoFile

(* What is made stays made. *)
LEMMA MakingStays ==
    ASSUME Settings, Making, UNCHANGED nameOf,
           \A n \in Name : built'[n] = built[n] \/ (built[n] = NoFile /\ built'[n] = file[n]),
           pc' \in {"pick", "move"} /\ status' = "processed" =>
             built'[here'] # NoFile,
           \A r \in Recording : place'[r] = "processed" =>
             place[r] = "processed" \/ built[nameOf[r]] # NoFile
    PROVE  Making'
<1>1. \A r \in Recording : nameOf[r] \in Name
  BY DEF Settings, Shape, TypeOK
<1>2. MadeOfItsOwn'
  BY DEF Making, MadeOfItsOwn, Settings, Filed
<1>3. \A n \in Name : built[n] # NoFile => built'[n] # NoFile
  OBVIOUS
<1>4. QED
  BY <1>1, <1>2, <1>3 DEF Making

LEMMA MadeFromFacts ==
    ASSUME Shape, NEW n \in Name
    PROVE  /\ \A m \in Name : m # n => MadeFrom(n)[m] = built[m]
           /\ MadeFrom(n)[n] = IF built[n] = NoFile THEN file[n] ELSE built[n]
BY DEF MadeFrom, Shape, TypeOK

LEMMA MakingNext ==
    ASSUME Settings, Making, [Next]_vars
    PROVE  Making'
<1>1. Shape
  BY DEF Settings
<1>2. CASE Scan \/ Locked
  <2>1. pc' \notin {"pick", "move"}
    <3>1. Continue => pc' \in {"sleep", "scan"}
      BY DEF Continue, Goto
    <3>2. QED
      BY <1>2, <3>1 DEF Scan, NewPass, Gone, FirstSight, Settled, SeenBefore, Goto,
             Locked, LeaveIt
  <2>2. UNCHANGED <<nameOf, built, place>>
    BY <1>2 DEF Scan, NewPass, Gone, FirstSight, Settled, SeenBefore, Locked,
           recorder, calls
  <2>3. QED
    BY <2>1, <2>2, MakingStays
<1>3. CASE Process \/ UNCHANGED vars
  <2>1. UNCHANGED <<nameOf, built, place, pc, status, todo>>
    BY <1>3 DEF Process, vars, recorder, calls, loop
  <2>2. QED
    BY <2>1, HereStays, MakingStays DEF Making
<1>4. CASE Ended
  <2>1. UNCHANGED <<nameOf, place, todo>> /\ here \in Name /\ here' = here
    BY <1>1, <1>4, AtFile, HereStays DEF Ended, recorder
  <2>2. PICK ok \in BOOLEAN :
          /\ ok => MadeFrom(here)[here] # NoFile
          /\ built' \in (IF ok THEN {} ELSE {built}) \cup {MadeFrom(here)}
          /\ status' = FolderOf(ok)
    BY <1>4 DEF Ended
  <2>3. built' = built \/ built' = MadeFrom(here)
    BY <2>2
  <2>4. status' = "processed" => ok /\ built' = MadeFrom(here)
    BY <2>2 DEF FolderOf
  <2>5. \A n \in Name : built'[n] = built[n] \/ (built[n] = NoFile /\ built'[n] = file[n])
    BY <1>1, <2>1, <2>3, MadeFromFacts
  <2>6. status' = "processed" => built'[here'] # NoFile
    BY <2>1, <2>2, <2>4
  <2>7. QED
    BY <2>1, <2>5, <2>6, MakingStays
<1>5. CASE PickTarget
  <2>1. UNCHANGED <<nameOf, built, place, status, todo>> /\ pc = "pick"
    BY <1>5 DEF PickTarget, recorder, calls
  <2>2. QED
    BY <2>1, HereStays, MakingStays DEF Making
<1>6. CASE Move
  <2>1. UNCHANGED <<nameOf, built>> /\ pc = "move" /\ pc' \in {"sleep", "scan"}
    BY <1>6 DEF Move, calls, Continue, Goto
  <2>2. here \in Name /\ rec = file[here] /\ status \in Folder /\ target \in {"plain", "stamped"}
    BY <1>1, <2>1, AtFile DEF Shape, TypeOK
  <2>3. CASE rec # NoFile /\ Put(rec, <<status, here>>, target)
    <3>1. rec \in Recording /\ nameOf[rec] = here
      BY <1>1, <2>1, <2>2, <2>3, AtFile DEF Settings, Filed
    <3>2. /\ place'[rec] = status
          /\ \A x \in Recording \ {rec} : place'[x] = place[x] \/ place'[x] = "lost"
      BY <1>1, <2>2, <2>3, <3>1, PutFacts DEF Shape
    <3>3. \A r \in Recording : place'[r] = "processed" =>
            place[r] = "processed" \/ built[nameOf[r]] # NoFile
      BY <2>1, <3>1, <3>2 DEF Making
    <3>4. QED
      BY <2>1, <3>3, MakingStays
  <2>4. CASE UNCHANGED place
    BY <2>1, <2>4, MakingStays
  <2>5. QED
    BY <1>6, <2>3, <2>4 DEF Move
<1>7. ASSUME NEW r \in Recording, Arrive(r) \/ Append(r)
      PROVE  Making'
  <2>1. UNCHANGED <<nameOf, built, pc, status, todo>>
    BY <1>7 DEF Arrive, Append, calls, loop
  <2>2. \A x \in Recording : place'[x] = "processed" => place[x] = "processed"
    BY <1>1, <1>7 DEF Arrive, Append, Shape, TypeOK
  <2>3. QED
    BY <2>1, <2>2, HereStays, MakingStays DEF Making
<1>8. ASSUME NEW n \in Name, OtherTakes(n) \/ OtherEnds(n)
      PROVE  Making'
  <2>1. UNCHANGED <<nameOf, place, pc, status, todo>> /\ here' = here
    BY <1>8, HereStays DEF OtherTakes, OtherEnds, recorder, loop
  <2>2. built' = built \/ built' = MadeFrom(n)
    BY <1>8 DEF OtherTakes, OtherEnds
  <2>3. \A m \in Name : built'[m] = built[m] \/ (built[m] = NoFile /\ built'[m] = file[m])
    BY <1>1, <2>2, MadeFromFacts
  <2>4. pc \in {"pick", "move"} /\ status = "processed" => built'[here] # NoFile
    <3>1. pc \in {"pick", "move"} => here \in Name
      BY <1>1, AtFile
    <3>2. QED
      BY <2>3, <3>1 DEF Making
  <2>5. QED
    BY <2>1, <2>3, <2>4, MakingStays
<1>9. ASSUME NEW n \in Name, OtherMoves(n)
      PROVE  Making'
  <2>1. /\ file[n] \in tried /\ built[n] # NoFile
        /\ Put(file[n], <<"processed", n>>, "plain")
        /\ UNCHANGED <<nameOf, built, pc, status, todo>>
    BY <1>9 DEF OtherMoves, calls, loop
  <2>2. file[n] \in Recording /\ "processed" \in Folder
    BY <1>1, <2>1 DEF Shape, TypeOK, Folder
  <2>3. \A x \in Recording \ {file[n]} : place'[x] = place[x] \/ place'[x] = "lost"
    BY <1>1, <2>1, <2>2, PutFacts DEF Shape
  <2>4. nameOf[file[n]] = n
    BY <2>2, WatchAssumption DEF Settings, Filed
  <2>5. \A r \in Recording : place'[r] = "processed" =>
          place[r] = "processed" \/ built[nameOf[r]] # NoFile
    BY <2>1, <2>3, <2>4
  <2>6. QED
    BY <2>1, <2>5, HereStays, MakingStays DEF Making
<1>10. CASE Tick
  <2>1. UNCHANGED <<nameOf, built, place, pc, status, todo>>
    BY <1>10 DEF Tick, calls
  <2>2. QED
    BY <2>1, HereStays, MakingStays DEF Making
<1>11. QED
  BY <1>2, <1>3, <1>4, <1>5, <1>6, <1>7, <1>8, <1>9, <1>10 DEF Next, Handle

(* A recording in processed/ is the one its call was made from, unless      *)
(* another had its name: whatever failed, whoever else processed or moved   *)
(* files, and however often.                                                *)
THEOREM ProcessedMeansMade == Spec => []ProcessedWasMade
<1>1. Init => Making
  BY DEF Init, Making, MadeOfItsOwn
<1>2. Settings /\ Making => ProcessedWasMade
  <2> SUFFICES ASSUME Settings, Making, NEW r \in Recording, place[r] = "processed",
                      Unrivalled(r)
               PROVE  built[nameOf[r]] = r
    BY DEF ProcessedWasMade
  <2>1. nameOf[r] \in Name /\ built[nameOf[r]] # NoFile
    BY DEF Making, Settings, Shape, TypeOK
  <2>2. built[nameOf[r]] \in Recording /\ nameOf[built[nameOf[r]]] = nameOf[r]
    BY <2>1 DEF Making, MadeOfItsOwn, Settings, Shape, TypeOK
  <2>3. QED
    BY <2>2 DEF Unrivalled
<1>3. QED
  BY <1>1, <1>2, MakingNext, SettingsHold, PTL DEF Spec
-----------------------------------------------------------------------------
(* Nothing is processed that is still being written.                       *)
(*                                                                         *)
(* A file with as many pieces left as when it was last looked at has not   *)
(* been written since: not for as long as the loop has slept, and so, when *)
(* a pass begins, not for stable_seconds, if it sleeps that long.          *)

Watched(n) == sizes[n] # NoFile \/ (pc = "settle" /\ n = here)

Rested(n) ==
    LET r == file[n] IN
    /\ left[r] <= sizes[n].left
    /\ left[r] = sizes[n].left =>
          /\ pc = "sleep" => quiet[r] >= AtMost(slept, Stable)
          /\ n \in todo /\ (pc = "scan" \/ n # here) => quiet[r] >= Stable
          /\ pc = "settle" /\ n = here =>
                quiet[r] >= AtMost(slept, Stable) /\ (~old[r] => quiet[r] >= Stable)

Quieter == ~meddled => \A n \in Name : Watched(n) => Rested(n)

LEMMA WatchedFacts ==
    ASSUME Settings, Handling, ~meddled, NEW n \in Name, Watched(n)
    PROVE  /\ file[n] # NoFile /\ file[n] \in Recording /\ place[file[n]] = "calls"
           /\ left[file[n]] \in Nat /\ quiet[file[n]] \in 0..Stable /\ Stable \in Nat
           /\ sizes[n] \in Entry /\ sizes[n].left \in Nat
<1>1. file[n] # NoFile
  BY DEF Watched, Handling, Following, rec
<1>2. sizes[n] \in Entry
  BY DEF Watched, Settings, Shape, Paces
<1>3. file[n] \in Recording /\ place[file[n]] = "calls"
  BY <1>1 DEF Settings, Filed, Shape, TypeOK
<1>4. quiet[file[n]] \in 0..Stable /\ left[file[n]] \in 0..Pieces
  BY <1>3 DEF Settings, Shape, TypeOK
<1>5. QED
  BY <1>1, <1>2, <1>3, <1>4, WatchAssumption DEF Entry

(* A file other than the one a pass goes on from. *)
LEMMA RestedBehind ==
    ASSUME Settings, Handling, Quieter, ~meddled, pc # "sleep", Continue,
           NEW n \in Name, n # here, Watched(n), UNCHANGED <<left, quiet, old>>,
           file'[n] = file[n], sizes'[n] = sizes[n]
    PROVE  Rested(n)'
<1>1. /\ todo' = todo \ {here} /\ slept' = 0 /\ pc' \in {"sleep", "scan"}
  BY ContinueFacts DEF Settings
<1>2. Rested(n) /\ quiet[file[n]] \in 0..Stable /\ Stable \in Nat
  BY WatchedFacts DEF Quieter
<1>3. AtMost(slept', Stable) = 0
  BY <1>1, <1>2, AtMostFacts
<1>4. QED
  BY <1>1, <1>2, <1>3 DEF Rested

(* The file itself, looked at and left until the next pass. *)
LEMMA RestedHere ==
    ASSUME Settings, pc # "sleep", Continue, UNCHANGED <<left, quiet, old>>,
           rec # NoFile, file' = file, NEW n \in Name, n = here,
           left[rec] <= sizes'[n].left
    PROVE  Rested(n)'
<1>1. /\ todo' = todo \ {here} /\ slept' = 0 /\ pc' \in {"sleep", "scan"}
  BY ContinueFacts DEF Settings
<1>2. rec = file[here] /\ rec \in Recording
  BY AtFile DEF Settings
<1>3. quiet[rec] \in 0..Stable /\ Stable \in Nat
  BY <1>2, WatchAssumption DEF Settings, Shape, TypeOK
<1>4. AtMost(slept', Stable) = 0
  BY <1>1, <1>3, AtMostFacts
<1>5. QED
  BY <1>1, <1>2, <1>3, <1>4 DEF Rested

LEMMA QuieterScan ==
    ASSUME Settings, Handling, Quieter, ~meddled, Poll >= Stable, Scan
    PROVE  Quieter'
<1>1. Shape /\ UNCHANGED <<meddled, file, left, quiet, old>>
  BY DEF Settings, Scan, NewPass, Gone, FirstSight, Settled, SeenBefore, recorder, env
<1>2. CASE NewPass
  <2>1. /\ pc = "sleep" /\ slept >= Poll /\ slept' = 0 /\ pc' \in {"sleep", "scan"}
        /\ UNCHANGED sizes
    BY <1>2 DEF NewPass, Goto
  <2>2. SUFFICES ASSUME NEW n \in Name, Watched(n)'
                 PROVE  Rested(n)'
    BY DEF Quieter
  <2>3. Watched(n)
    BY <2>1, <2>2 DEF Watched
  <2>4. Rested(n) /\ quiet[file[n]] \in 0..Stable /\ Stable \in Nat
    BY <2>3, WatchedFacts DEF Quieter
  <2>5. slept \in Nat /\ Poll \in Nat
    BY <1>1, WatchAssumption DEF Shape, TypeOK
  <2>6. AtMost(slept, Stable) = Stable /\ AtMost(slept', Stable) = 0
    BY <2>1, <2>4, <2>5, AtMostFacts
  <2>7. QED
    BY <1>1, <2>1, <2>4, <2>6 DEF Rested
<1>3. ASSUME pc # "sleep", Continue, rec # NoFile,
             \A n \in Name : n # here => sizes'[n] = sizes[n],
             sizes'[here] # NoFile => left[rec] <= sizes'[here].left
      PROVE  Quieter'
  <2>1. SUFFICES ASSUME NEW n \in Name, Watched(n)'
                 PROVE  Rested(n)'
    BY DEF Quieter
  <2>2. pc' \in {"sleep", "scan"}
    BY <1>1, <1>3, ContinueFacts
  <2>3. sizes'[n] # NoFile
    BY <2>1, <2>2 DEF Watched
  <2>4. CASE n = here
    BY <1>1, <1>3, <2>3, <2>4, RestedHere
  <2>5. CASE n # here
    BY <1>1, <1>3, <2>3, <2>5, RestedBehind DEF Watched
  <2>6. QED
    BY <2>4, <2>5
<1>4. ASSUME pc \in {"settle", "scan"}, pc' = "process", todo' = todo, UNCHANGED sizes
      PROVE  Quieter'
  <2>1. SUFFICES ASSUME NEW n \in Name, Watched(n)'
                 PROVE  Rested(n)'
    BY DEF Quieter
  <2>2. Watched(n) /\ here' = here
    BY <1>4, <2>1, HereStays DEF Watched
  <2>3. Rested(n)
    BY <2>2 DEF Quieter
  <2>4. QED
    BY <1>1, <1>4, <2>2, <2>3 DEF Rested
<1>5. ASSUME Note(now) \/ Note(now + MtimeAge), pc # "sleep", rec # NoFile
      PROVE  /\ \A n \in Name : n # here => sizes'[n] = sizes[n]
             /\ sizes'[here].left = left[rec] /\ left[rec] \in Nat
  BY <1>1, <1>5, AtFile, WatchAssumption DEF Note, Shape
<1>6. CASE Gone
  <2>1. pc = "scan" /\ rec = NoFile /\ Continue /\ UNCHANGED sizes
    BY <1>6 DEF Gone
  <2>2. SUFFICES ASSUME NEW n \in Name, Watched(n)'
                 PROVE  Rested(n)'
    BY DEF Quieter
  <2>3. Watched(n)
    BY <1>1, <2>1, <2>2, ContinueFacts DEF Watched
  <2>4. n # here
    BY <2>1, <2>3, WatchedFacts DEF rec
  <2>5. QED
    BY <1>1, <2>1, <2>3, <2>4, RestedBehind
<1>7. CASE FirstSight
  <2>1. pc = "scan" /\ rec # NoFile /\ Note(now + MtimeAge)
    BY <1>7 DEF FirstSight
  <2>2. CASE Continue
    BY <1>3, <1>5, <2>1, <2>2
  <2>3. CASE MtimeAge >= Stable /\ pc' = "settle" /\ slept' = 0 /\ todo' = todo
    <3>1. SUFFICES ASSUME NEW n \in Name, Watched(n)'
                   PROVE  Rested(n)'
      BY DEF Quieter
    <3>2. here' = here /\ rec = file[here] /\ rec \in Recording
      BY <1>1, <2>1, <2>3, HereStays, AtFile
    <3>3. CASE n = here
      <4>1. quiet[rec] \in 0..Stable /\ Stable \in Nat
        BY <3>2, WatchAssumption DEF Settings, Shape, TypeOK
      <4>2. AtMost(slept', Stable) = 0
        BY <2>3, <4>1, AtMostFacts
      <4>3. ~old[rec] => quiet[rec] >= Stable
        BY <2>3 DEF MtimeAge
      <4>4. sizes'[here].left = left[rec] /\ left[rec] \in Nat
        BY <1>5, <2>1
      <4>5. QED
        BY <1>1, <2>3, <3>2, <3>3, <4>1, <4>2, <4>3, <4>4 DEF Rested
    <3>4. CASE n # here
      <4>1. sizes'[n] = sizes[n]
        BY <1>5, <2>1, <3>4
      <4>2. Watched(n)
        BY <3>1, <3>2, <3>4, <4>1 DEF Watched
      <4>3. Rested(n)
        BY <4>2 DEF Quieter
      <4>4. QED
        BY <1>1, <2>1, <2>3, <3>2, <3>4, <4>1, <4>3 DEF Rested
    <3>5. QED
      BY <3>3, <3>4
  <2>4. QED
    BY <1>7, <2>2, <2>3 DEF FirstSight, Goto
<1>8. CASE Settled
  <2>1. CASE rec # NoFile /\ left[rec] = sizes[here].left
    BY <1>4, <1>8, <2>1 DEF Settled, Goto
  <2>2. CASE ~(rec # NoFile /\ left[rec] = sizes[here].left)
    <3>1. Continue /\ pc = "settle" /\ sizes' = [sizes EXCEPT ![here].since = now]
      BY <1>8, <2>2 DEF Settled
    <3>2. here \in Name /\ rec = file[here] /\ rec # NoFile
      BY <1>1, <3>1, AtFile DEF Handling, Following
    <3>3. Watched(here)
      BY <3>1 DEF Watched
    <3>4. Rested(here) /\ sizes[here] \in Entry
      BY <3>2, <3>3, WatchedFacts DEF Quieter
    <3>5. sizes'[here].left = sizes[here].left
      BY <1>1, <3>1, <3>2, <3>4 DEF Shape, Entry
    <3>6. \A n \in Name : n # here => sizes'[n] = sizes[n]
      BY <1>1, <3>1, <3>2 DEF Shape
    <3>7. QED
      BY <1>3, <3>1, <3>2, <3>4, <3>5, <3>6 DEF Rested
  <2>3. QED
    BY <2>1, <2>2
<1>9. CASE SeenBefore
  <2>1. pc = "scan" /\ rec # NoFile /\ sizes[here] # NoFile
    BY <1>9 DEF SeenBefore
  <2>2. CASE StillSame
    BY <1>4, <1>9, <2>2 DEF SeenBefore, Goto
  <2>3. CASE ~StillSame
    <3>1. Continue /\ (Note(now) \/ UNCHANGED sizes)
      BY <1>9, <2>3 DEF SeenBefore
    <3>2. CASE Note(now)
      BY <1>3, <1>5, <2>1, <3>1, <3>2
    <3>3. CASE UNCHANGED sizes
      <4>1. here \in Name /\ rec = file[here]
        BY <1>1, <2>1, AtFile
      <4>2. Rested(here)
        BY <2>1, <4>1 DEF Quieter, Watched
      <4>3. QED
        BY <1>3, <2>1, <3>1, <3>3, <4>1, <4>2 DEF Rested
    <3>4. QED
      BY <3>1, <3>2, <3>3
  <2>4. QED
    BY <2>2, <2>3
<1>10. QED
  BY <1>2, <1>6, <1>7, <1>8, <1>9 DEF Scan

LEMMA QuieterHandle ==
    ASSUME Settings, Handling, Quieter, ~meddled, Handle
    PROVE  Quieter'
<1>1. Shape /\ UNCHANGED <<meddled, left, quiet, old>>
  BY DEF Settings, Handle, Process, Locked, Ended, PickTarget, Move, recorder, env
<1>2. CASE Process
  <2>1. UNCHANGED <<file, pc, todo, slept, sizes>> /\ here' = here
    BY <1>2, HereStays DEF Process, loop
  <2>2. QED
    BY <1>1, <2>1 DEF Quieter, Watched, Rested
<1>3. CASE Locked
  <2>1. pc = "process" /\ Continue /\ UNCHANGED file /\ sizes' = [sizes EXCEPT ![here] = NoFile]
    BY <1>3 DEF Locked, LeaveIt
  <2>2. SUFFICES ASSUME NEW n \in Name, Watched(n)'
                 PROVE  Rested(n)'
    BY DEF Quieter
  <2>3. sizes'[n] # NoFile
    BY <1>1, <2>1, <2>2, ContinueFacts DEF Watched
  <2>4. here \in Name
    BY <1>1, <2>1, AtFile
  <2>5. n # here /\ sizes'[n] = sizes[n]
    BY <1>1, <2>1, <2>3, <2>4 DEF Shape
  <2>6. QED
    BY <1>1, <2>1, <2>3, <2>5, RestedBehind DEF Watched
<1>4. CASE Ended \/ PickTarget
  <2>1. /\ pc \in {"process", "pick"} /\ pc' \in {"pick", "move"}
        /\ UNCHANGED <<file, todo>>
        /\ UNCHANGED sizes \/ sizes' = [sizes EXCEPT ![here] = NoFile]
    BY <1>4 DEF Ended, PickTarget, Goto
  <2>2. SUFFICES ASSUME NEW n \in Name, Watched(n)'
                 PROVE  Rested(n)'
    BY DEF Quieter
  <2>3. here' = here /\ sizes'[n] # NoFile
    BY <2>1, <2>2, HereStays DEF Watched
  <2>4. sizes'[n] = sizes[n]
    BY <1>1, <2>1, <2>3 DEF Shape
  <2>5. Rested(n)
    BY <2>3, <2>4 DEF Quieter, Watched
  <2>6. QED
    BY <1>1, <2>1, <2>3, <2>4, <2>5 DEF Rested
<1>5. CASE Move
  <2>1. pc = "move" /\ Continue /\ UNCHANGED sizes
    BY <1>5 DEF Move
  <2>2. SUFFICES ASSUME NEW n \in Name, Watched(n)'
                 PROVE  Rested(n)'
    BY DEF Quieter
  <2>3. sizes[n] # NoFile
    BY <1>1, <2>1, <2>2, ContinueFacts DEF Watched
  <2>4. here \in Name /\ sizes[here] = NoFile /\ rec = file[here]
    BY <1>1, <2>1, AtFile DEF Handling, Following
  <2>5. n # here
    BY <2>3, <2>4
  <2>6. file'[n] = file[n]
    <3>1. CASE rec # NoFile /\ Put(rec, <<status, here>>, target)
      <4>1. rec \in Recording /\ status \in Folder /\ target \in {"plain", "stamped"}
        BY <1>1, <2>1, <3>1, AtFile DEF Shape, TypeOK
      <4>2. file' = [file EXCEPT ![here] = NoFile]
        BY <1>1, <2>4, <3>1, <4>1, PutFacts DEF Shape
      <4>3. QED
        BY <1>1, <2>5, <4>2 DEF Shape, TypeOK
    <3>2. CASE UNCHANGED file
      BY <3>2
    <3>3. QED
      BY <1>5, <3>1, <3>2 DEF Move
  <2>7. QED
    BY <1>1, <2>1, <2>3, <2>5, <2>6, RestedBehind DEF Watched
<1>6. QED
  BY <1>2, <1>3, <1>4, <1>5 DEF Handle

LEMMA QuieterRecorder ==
    ASSUME Settings, Handling, Quieter, ~meddled, NEW r \in Recording, Arrive(r) \/ Append(r)
    PROVE  Quieter'
<1>1. UNCHANGED <<pc, todo, slept, sizes>> /\ here' = here
  BY HereStays DEF Arrive, Append, loop
<1>2. SUFFICES ASSUME NEW n \in Name, Watched(n)'
               PROVE  Rested(n)'
  BY DEF Quieter
<1>3. Watched(n)
  BY <1>1, <1>2 DEF Watched
<1> DEFINE x == file[n]
<1>4. /\ x # NoFile /\ x \in Recording /\ place[x] = "calls" /\ left[x] \in Nat
      /\ sizes[n].left \in Nat
  BY <1>3, WatchedFacts
<1>5. Rested(n)
  BY <1>3 DEF Quieter
<1>6. CASE Arrive(r)
  <2>1. place[r] = "coming" /\ file[nameOf[r]] = NoFile
    BY <1>6 DEF Arrive
  <2>2. x # r /\ file'[n] = x
    BY <1>4, <1>6, <2>1 DEF Arrive, Settings, Shape, TypeOK
  <2>3. left'[x] = left[x] /\ old'[x] = old[x] /\ quiet'[x] = quiet[x]
    BY <1>4, <1>6, <2>2 DEF Arrive, Settings, Shape, TypeOK
  <2>4. QED
    BY <1>1, <1>5, <2>2, <2>3 DEF Rested
<1>7. CASE Append(r)
  <2>1. file'[n] = x
    BY <1>7 DEF Append
  <2>2. CASE x = r
    <3>1. left'[x] = left[x] - 1
      BY <1>4, <1>7, <2>2 DEF Append, Settings, Shape, TypeOK
    <3>2. left'[x] < sizes'[n].left
      BY <1>1, <1>4, <1>5, <3>1 DEF Rested
    <3>3. left'[file'[n]] < sizes'[n].left /\ left'[file'[n]] \in Int /\ sizes'[n].left \in Nat
      BY <1>1, <1>4, <2>1, <3>1, <3>2
    <3>4. QED
      BY <3>3 DEF Rested
  <2>3. CASE x # r
    <3>1. left'[x] = left[x] /\ old'[x] = old[x] /\ quiet'[x] = quiet[x]
      BY <1>4, <1>7, <2>3 DEF Append, Settings, Shape, TypeOK
    <3>2. QED
      BY <1>1, <1>5, <2>1, <3>1 DEF Rested
  <2>4. QED
    BY <2>2, <2>3
<1>8. QED
  BY <1>6, <1>7

LEMMA QuieterTick ==
    ASSUME Settings, Handling, Quieter, ~meddled, Tick
    PROVE  Quieter'
<1>1. UNCHANGED <<pc, todo, file, left, old>> /\ here' = here
  BY HereStays DEF Tick
<1>2. SUFFICES ASSUME NEW n \in Name, Watched(n)'
               PROVE  Rested(n)'
  BY DEF Quieter
<1>3. Watched(n)
  BY <1>1, <1>2 DEF Tick, Watched
<1> DEFINE r == file[n]
<1>4. /\ r \in Recording /\ place[r] = "calls" /\ left[r] \in Nat /\ quiet[r] \in 0..Stable
      /\ Stable \in Nat /\ sizes[n] \in Entry
  BY <1>3, WatchedFacts
<1>5. Rested(n)
  BY <1>3 DEF Quieter
<1>6. quiet'[r] = AtMost(quiet[r] + 1, Stable)
  BY <1>4 DEF Tick
<1>7. sizes'[n].left = sizes[n].left
  BY <1>4 DEF Tick, Entry
<1>8. slept \in Nat /\ Poll + Settle \in Nat
  BY WatchAssumption DEF Settings, Shape, TypeOK
<1>9. pc \in {"sleep", "settle"} => slept' = AtMost(slept + 1, Poll + Settle)
  BY DEF Tick
<1>10. quiet[r] >= AtMost(slept, Stable) /\ pc \in {"sleep", "settle"}
         => quiet'[r] >= AtMost(slept', Stable)
  BY <1>4, <1>6, <1>8, <1>9 DEF AtMost
<1>11. quiet[r] >= Stable => quiet'[r] >= Stable
  BY <1>4, <1>6 DEF AtMost
<1>12. QED
  BY <1>1, <1>5, <1>7, <1>10, <1>11 DEF Rested

LEMMA QuieterNext ==
    ASSUME Settings, Handling, Quieter, Poll >= Stable, [Next]_vars
    PROVE  Quieter'
<1>1. CASE meddled
  <2>1. meddled'
    BY <1>1, Zenon DEF Next, vars, Arrive, Append, Scan, NewPass, Gone, FirstSight, Settled,
       SeenBefore, Handle, Process, Locked, Ended, PickTarget, Move, OtherTakes,
       OtherEnds, OtherMoves, Tick, env
  <2>2. QED
    BY <2>1 DEF Quieter
<1>2. CASE ~meddled
  <2>1. ASSUME NEW n \in Name, OtherTakes(n) \/ OtherEnds(n)
        PROVE  Quieter'
    <3>1. UNCHANGED <<meddled, file, left, old, quiet, pc, todo, slept, sizes>>
      BY <1>2, <2>1 DEF OtherTakes, OtherEnds, recorder, loop, env
    <3>2. QED
      BY <3>1, HereStays DEF Quieter, Watched, Rested
  <2>2. ASSUME NEW n \in Name, OtherMoves(n)
        PROVE  Quieter'
    BY <2>2 DEF OtherMoves, Quieter
  <2>3. CASE UNCHANGED vars
    BY <2>3, HereStays DEF vars, recorder, loop, env, Quieter, Watched, Rested
  <2>4. QED
    BY <1>2, <2>1, <2>2, <2>3, QuieterScan, QuieterHandle, QuieterRecorder, QuieterTick
    DEF Next
<1>3. QED
  BY <1>1, <1>2

(* The file that the loop turns to is one that has not been written for     *)
(* stable_seconds.                                                          *)
LEMMA Turning ==
    ASSUME Settings, Handling, Quieter, ~meddled, [Next]_vars, pc # "process",
           pc' = "process"
    PROVE  quiet[rec] >= IF old[rec] THEN AtMost(Settle, Stable) ELSE Stable
<1>1. Shape /\ Stable \in Nat /\ Settle \in Nat /\ slept \in Nat
  BY WatchAssumption DEF Settings, Shape, TypeOK
<1>2. ~ Continue
  BY DEF Continue, Goto
<1>3. Settled \/ SeenBefore
  BY <1>2 DEF Next, vars, Arrive, Append, Scan, NewPass, Gone, FirstSight,
     Handle, Process, Locked, Ended, PickTarget, Move, OtherTakes,
     OtherEnds, OtherMoves, Tick, loop, Goto
<1>4. CASE Settled
  <2>1. pc = "settle" /\ slept >= Settle /\ rec # NoFile /\ left[rec] = sizes[here].left
    BY <1>2, <1>4 DEF Settled
  <2>2. here \in Name /\ rec = file[here]
    BY <1>1, <2>1, AtFile
  <2>3. quiet[rec] >= AtMost(slept, Stable) /\ (~old[rec] => quiet[rec] >= Stable)
    BY <2>1, <2>2 DEF Quieter, Watched, Rested
  <2>4. quiet[rec] \in Nat
    BY <1>1, <2>1, AtFile DEF Shape, TypeOK
  <2>5. AtMost(slept, Stable) >= AtMost(Settle, Stable)
    BY <1>1, <2>1 DEF AtMost
  <2>6. AtMost(slept, Stable) \in 0..Stable /\ AtMost(Settle, Stable) \in 0..Stable
    BY <1>1, AtMostFacts
  <2>7. QED
    BY <2>3, <2>4, <2>5, <2>6
<1>5. CASE SeenBefore
  <2>1. pc = "scan" /\ rec # NoFile /\ sizes[here] # NoFile /\ left[rec] = sizes[here].left
    BY <1>2, <1>5 DEF SeenBefore, StillSame
  <2>2. here \in Name /\ here \in todo /\ rec = file[here]
    BY <1>1, <2>1, AtFile
  <2>3. quiet[rec] >= Stable
    BY <2>1, <2>2 DEF Quieter, Watched, Rested
  <2>4. quiet[rec] \in Nat
    BY <1>1, <2>1, AtFile DEF Shape, TypeOK
  <2>5. AtMost(Settle, Stable) <= Stable /\ AtMost(Settle, Stable) \in Nat
    BY <1>1, AtMostFacts
  <2>6. QED
    BY <1>1, <2>3, <2>4, <2>5
<1>6. QED
  BY <1>3, <1>4, <1>5

(* If poll_seconds is not less than stable_seconds, a recording is          *)
(* processed only when it has not been written for stable_seconds, or, when *)
(* it came with the mtime of its source, while _size_settled waited: for    *)
(* every length of the passes and however the file is written meanwhile.    *)
THEOREM StableBeforeProcessing ==
    ASSUME Poll >= Stable
    PROVE  Spec => StableFirst
<1>1. Init => Quieter
  BY DEF Init, Quieter, Watched
<1>2. Settings /\ Handling /\ Quieter /\ [Next]_vars => Quieter'
  BY QuieterNext
<1>3. Settings /\ Handling /\ Quieter /\ [Next]_vars
        => [pc # "process" /\ pc' = "process" /\ ~meddled
              => quiet[rec] >= IF old[rec] THEN AtMost(Settle, Stable) ELSE Stable]_vars
  BY Turning
<1>4. QED
  BY <1>1, <1>2, <1>3, SettingsHold, HandlingHolds, PTL DEF Spec, StableFirst
=============================================================================
