--------------------------- MODULE PipelineProofs ---------------------------
(***************************************************************************)
(* Proofs about Pipeline, for every set of faults, every stop_after and    *)
(* every number of runs: the state keeps its types; and nothing built from *)
(* replaced data is published until a run that recomputes after a loss     *)
(* ends short of its last stage.                                           *)
(***************************************************************************)
EXTENDS Pipeline, TLAPS

LEMMA StageFacts ==
    /\ Stage = 1..8
    /\ Done = 9 /\ Off = 0 /\ NoStop = 9
    /\ Ingestion = 1 /\ Judge = 7 /\ Report = 8
BY DEF Stage, Done, Off, NoStop, Ingestion, Judge, Report

(* A stage is computed from stages before it only. *)
LEMMA InputsBefore ==
    ASSUME NEW s \in Stage
    PROVE  Inputs(s) \subseteq 1..(s - 1)
<1>1. s \in {1, 2, 3, 4, 5, 6, 7, 8}
  BY DEF Stage, Ingestion, Report
<1> USE DEF Inputs, Ingestion, Audio, Asr, Speakers, Redaction, Features,
            Judge, Report
<1>2. CASE s = 1
  BY <1>2
<1>3. CASE s = 2
  BY <1>3
<1>4. CASE s = 3
  BY <1>4
<1>5. CASE s = 4
  BY <1>5
<1>6. CASE s = 5
  BY <1>6
<1>7. CASE s = 6
  BY <1>7
<1>8. CASE s = 7
  BY <1>8
<1>9. CASE s = 8
  BY <1>9
<1>10. QED
  BY <1>1, <1>2, <1>3, <1>4, <1>5, <1>6, <1>7, <1>8, <1>9

-----------------------------------------------------------------------------
(* Types. *)

(* Leaving a run puts every local back to a value of its type. *)
LEMMA LeaveRunTypes ==
    ASSUME LeaveRun
    PROVE  /\ at' \in Off..Done /\ step' \in {"load", "make", "mark"}
           /\ from' \in Stage \cup {Done}
           /\ stop' \in Stage \cup {NoStop}
           /\ force' \in BOOLEAN /\ reasons' \in BOOLEAN
<1>1. at' = Off /\ step' = "load" /\ from' = Done /\ stop' = NoStop
  BY DEF LeaveRun
<1>2. force' \in BOOLEAN /\ reasons' \in BOOLEAN
  BY Zenon DEF LeaveRun
<1>3. Off \in Off..Done
  BY StageFacts
<1>4. QED
  BY <1>1, <1>2, <1>3

LEMMA CutShortTypes ==
    ASSUME CutShort, cut \in BOOLEAN
    PROVE  cut' \in BOOLEAN
BY Zenon DEF CutShort

LEMMA VerdictTypes == \A r : Verdict(r) \in {"success", "review"}
BY Zenon DEF Verdict

LEMMA FinishTypes ==
    ASSUME TypeOK, at \in Stage, Finish(at)
    PROVE  /\ at' \in Off..Done /\ step' = "load"
           /\ from' \in Stage \cup {Done}
           /\ stop' \in Stage \cup {NoStop}
           /\ force' \in BOOLEAN /\ reasons' \in BOOLEAN
           /\ results' \in Status /\ partial' \in Status
           /\ cut' \in BOOLEAN
<1>1. CASE at = stop /\ at # Report
  <2>1. LeaveRun /\ CutShort /\ WriteStopped(SeenAtStop(at))
    BY <1>1, Zenon DEF Finish
  <2>2. step' = "load"
    BY <2>1 DEF LeaveRun
  <2>3. cut' \in BOOLEAN
    BY <2>1, CutShortTypes DEF TypeOK
  <2>4. QED
    BY <2>1, <2>2, <2>3, LeaveRunTypes, VerdictTypes
    DEF TypeOK, WriteStopped, Status
<1>2. CASE ~(at = stop /\ at # Report)
  <2>1. /\ at' = at + 1 /\ step' = "load"
        /\ reasons' = ReasonsWith(at)
        /\ UNCHANGED <<from, stop, force, outcome>>
    BY <1>2, Zenon DEF Finish
  <2>2. reasons' \in BOOLEAN
    BY <2>1, Zenon DEF ReasonsWith
  <2>3. at' \in Off..Done
    BY <2>1, StageFacts
  <2>4. QED
    BY <2>1, <2>2, <2>3 DEF TypeOK, outcome
<1>3. QED
  BY <1>1, <1>2

(* Every variable keeps its type. *)
THEOREM Typing == Spec => []TypeOK
<1>1. Init => TypeOK
  <2> SUFFICES ASSUME Init
               PROVE  TypeOK
    OBVIOUS
  <2>1. force \in BOOLEAN /\ reasons \in BOOLEAN /\ cut \in BOOLEAN
    BY Zenon DEF Init
  <2>2. QED
    BY <2>1, PipelineAssumption, StageFacts DEF Init, TypeOK, Status
<1>2. TypeOK /\ [Next]_vars => TypeOK'
  <2> SUFFICES ASSUME TypeOK, [Next]_vars
               PROVE  TypeOK'
    OBVIOUS
  <2> USE PipelineAssumption, StageFacts
  <2>1. ASSUME NEW s \in Stops, NEW f \in Forces, Begin(s, f)
        PROVE  TypeOK'
    <3>1. rows' \subseteq Stage
      BY <2>1 DEF Begin, ClearIfForced, TypeOK
    <3>2. force' \in BOOLEAN /\ reasons' \in BOOLEAN /\ cut' \in BOOLEAN
      BY <2>1, Zenon DEF Begin, PipelineAssumption
    <3>3. QED
      BY <2>1, <3>1, <3>2 DEF Begin, TypeOK, outcome, env
  <2>2. CASE Expire
    BY <2>2 DEF Expire, TypeOK, run, files, outcome, env
  <2>3. CASE LoadArtifact
    BY <2>3, FinishTypes DEF LoadArtifact, TypeOK, files, env
  <2>4. CASE NoteRecompute
    BY <2>4 DEF NoteRecompute, LowerOf, TypeOK, files, outcome, env
  <2>5. CASE MakeArtifact
    BY <2>5 DEF MakeArtifact, TypeOK, outcome, env
  <2>6. CASE MarkDone
    BY <2>6, FinishTypes DEF MarkDone, TypeOK, env
  <2>7. CASE Publish
    BY <2>7, LeaveRunTypes, VerdictTypes DEF Publish, TypeOK, Status, files, env
  <2>8. CASE JudgeGivesUp
    BY <2>8, LeaveRunTypes, CutShortTypes DEF JudgeGivesUp, Fault, TypeOK, Status, files
  <2>9. CASE Fail
    BY <2>9, LeaveRunTypes, CutShortTypes DEF Fail, Fault, TypeOK, Status, files
  <2>10. CASE Release
    BY <2>10 DEF Release, TypeOK, run, files, outcome, env
  <2>11. CASE ReleaseFails
    BY <2>11 DEF ReleaseFails, Fault, TypeOK, run, files, outcome
  <2>12. CASE Crash
    BY <2>12, LeaveRunTypes, CutShortTypes DEF Crash, Fault, TypeOK, files, outcome
  <2>13. ASSUME NEW s \in Stage, NEW how \in {"none", "bad"}, Damage(s, how)
         PROVE  TypeOK'
    BY <2>13 DEF Damage, TypeOK, run, outcome
  <2>14. CASE UNCHANGED vars
    BY <2>14 DEF vars, run, files, outcome, env, TypeOK
  <2>15. QED
    BY <2>1, <2>2, <2>3, <2>4, <2>5, <2>6, <2>7, <2>8, <2>9, <2>10,
       <2>11, <2>12, <2>13, <2>14 DEF Next, Advance
<1>3. QED
  BY <1>1, <1>2, PTL DEF Spec

-----------------------------------------------------------------------------
(* Freshness.                                                              *)
(*                                                                         *)
(* Resumable is not inductive: it says nothing of the run in progress.     *)
(* What has to be added is where the run stands among the rows: every      *)
(* stage it has passed has its row, and once it has begun to recompute (or *)
(* was forced) neither the stage it is in nor, since rows come in order,   *)
(* any later one is recorded as done.  So a stage that is rewritten never  *)
(* has a recorded stage after it.                                          *)

Recomputing == force \/ from # Done \/ step # "load"

Position ==
    /\ \A s \in Stage : s < at => s \in rows
    /\ Recomputing /\ at \in Stage => at \notin rows
    /\ step # "load" => at \in Stage
    /\ step = "mark" => disk[at] = "good" /\ at \notin stale

IInv == TypeOK /\ Resumable /\ Position

LEMMA InitInv == Init => Resumable /\ Position
BY StageFacts DEF Init, Resumable, Position, Recomputing

(* A stage without a row has no row after it. *)
LEMMA RowsBefore ==
    ASSUME IInv, NEW s \in Stage, s \notin rows, NEW t \in rows
    PROVE  t < s
<1>1. t \in 1..8 /\ s \in 1..8 /\ 1..t \subseteq rows
  BY StageFacts DEF IInv, TypeOK, Resumable
<1>2. QED
  BY <1>1

(* The run has no artifact of a stage and no row is touched: enough for     *)
(* every way a run ends and for what happens between runs.                  *)
LEMMA Leaving ==
    ASSUME IInv, LeaveRun, UNCHANGED files
    PROVE  Resumable' /\ Position'
<1>1. at' = 0 /\ step' = "load"
  BY StageFacts DEF LeaveRun
<1>2. Position'
  BY <1>1, StageFacts DEF Position
<1>3. QED
  BY <1>2 DEF IInv, Resumable, files

LEMMA Standing ==
    ASSUME IInv, UNCHANGED <<run, files>>
    PROVE  Resumable' /\ Position'
BY DEF IInv, Resumable, Position, Recomputing, run, files

(* A stage is complete and recorded, and the rows are what they should be:  *)
(* the run leaves or goes on to the next stage.                             *)
LEMMA Finishing ==
    ASSUME IInv, at \in Stage, Finish(at), Resumable',
           UNCHANGED <<disk, stale>>, at \in rows', rows \subseteq rows',
           Recomputing => at + 1 \notin rows',
           step = "load" => ~Recomputing
    PROVE  Position'
<1>1. CASE at = stop /\ at # Report
  <2>1. LeaveRun
    BY <1>1, Zenon DEF Finish
  <2>2. at' = 0 /\ step' = "load"
    BY <2>1, StageFacts DEF LeaveRun
  <2>3. QED
    BY <2>2, StageFacts DEF Position
<1>2. CASE ~(at = stop /\ at # Report)
  <2>1. at' = at + 1 /\ step' = "load" /\ UNCHANGED <<from, force>>
    BY <1>2, Zenon DEF Finish
  <2>2. \A s \in Stage : s < at' => s \in rows'
    <3>1. TAKE s \in Stage
    <3>2. HAVE s < at'
    <3>3. s < at \/ s = at
      BY <2>1, <3>2, StageFacts
    <3>4. QED
      BY <3>3 DEF IInv, Position
  <2>3. Recomputing' => Recomputing
    BY <2>1 DEF Recomputing
  <2>4. Recomputing' => at' \notin rows'
    BY <2>1, <2>3
  <2>5. QED
    BY <2>1, <2>2, <2>4 DEF Position
<1>3. QED
  BY <1>1, <1>2

LEMMA NextInv ==
    ASSUME IInv, [Next]_vars, damage = 0, damage' = 0
    PROVE  Resumable' /\ Position'
<1>1. ASSUME NEW s \in Stops, NEW f \in Forces, Begin(s, f)
      PROVE  Resumable' /\ Position'
  <2>1. at' = 1 /\ step' = "load" /\ from' = Done /\ force' = f
    BY <1>1, StageFacts DEF Begin
  <2>2. rows' = IF f THEN {} ELSE rows
    BY <1>1 DEF Begin, ClearIfForced
  <2>3. rows' \subseteq rows
    BY <2>2
  <2>4. Resumable'
    BY <1>1, <2>2 DEF Begin, IInv, Resumable
  <2>5. Recomputing' => rows' = {}
    BY <2>1, <2>2, Zenon DEF Recomputing
  <2>6. QED
    BY <2>1, <2>4, <2>5, StageFacts DEF Position
<1>2. CASE Expire
  BY <1>2, Standing DEF Expire
<1>3. CASE LoadArtifact
  <2>1. at \in Stage /\ step = "load" /\ Finish(at) /\ UNCHANGED files
    BY <1>3 DEF LoadArtifact
  <2>2. ~force /\ at < from /\ at \in rows
    BY <1>3 DEF LoadArtifact, Usable, IsDone
  <2>3. ~Recomputing
    BY <2>1, <2>2 DEF IInv, Position
  <2>4. Resumable'
    BY <2>1 DEF IInv, Resumable, files
  <2>5. Position'
    BY <2>1, <2>2, <2>3, <2>4, Finishing DEF files
  <2>6. QED
    BY <2>4, <2>5
<1>4. CASE NoteRecompute
  <2>1. at \in Stage /\ step = "load" /\ ~Usable(at) /\ step' = "make"
        /\ UNCHANGED <<at, files>>
    BY <1>4 DEF NoteRecompute
  <2>2. at \notin rows
    <3>1. SUFFICES ASSUME at \in rows
                   PROVE  FALSE
      OBVIOUS
    <3>2. disk[at] = "good"
      BY <3>1 DEF IInv, Resumable
    <3>3. ~Recomputing
      BY <2>1, <3>1 DEF IInv, Position
    <3>4. ~force /\ at < from
      BY <2>1, <3>3, StageFacts DEF Recomputing
    <3>5. QED
      BY <2>1, <3>1, <3>2, <3>4 DEF Usable, IsDone
  <2>3. Resumable'
    BY <2>1 DEF IInv, Resumable, files
  <2>4. Position'
    BY <2>1, <2>2 DEF IInv, Position, files
  <2>5. QED
    BY <2>3, <2>4
<1>5. CASE MakeArtifact
  <2>1. at \in Stage /\ step = "make" /\ step' = "mark" /\ UNCHANGED <<rows, at>>
    BY <1>5 DEF MakeArtifact
  <2>2. at \notin rows
    BY <2>1 DEF IInv, Position, Recomputing
  <2>3. Inputs(at) \subseteq rows
    BY <2>1, InputsBefore, StageFacts DEF IInv, Position
  <2>4. Inputs(at) \cap stale = {}
    BY <2>3 DEF IInv, Resumable
  <2>5. stale' = {t \in Stage : at \in Inputs(t)} \cup (stale \ {at})
    BY <1>5, <2>4 DEF MakeArtifact
  <2>6. \A t \in Stage : at \in Inputs(t) => at < t
    BY <2>1, InputsBefore, StageFacts
  <2>7. \A t \in rows : t \in Stage /\ t < at
    BY <2>1, <2>2, RowsBefore DEF IInv, TypeOK
  <2>8. rows \cap stale' = {}
    BY <2>1, <2>5, <2>6, <2>7, StageFacts DEF IInv, Resumable
  <2>9. at \notin stale'
    BY <2>1, <2>5, <2>6, StageFacts
  <2>10. disk' = [disk EXCEPT ![at] = "good"] /\ disk \in [Stage -> {"none", "good", "bad"}]
    BY <1>5 DEF MakeArtifact, IInv, TypeOK
  <2>11. disk'[at] = "good" /\ \A t \in rows : disk'[t] = "good"
    BY <2>1, <2>7, <2>10 DEF IInv, Resumable
  <2>12. Resumable'
    BY <2>1, <2>8, <2>11 DEF IInv, Resumable
  <2>13. Position'
    BY <2>1, <2>2, <2>9, <2>11 DEF IInv, Position
  <2>14. QED
    BY <2>12, <2>13
<1>6. CASE MarkDone
  <2>1. at \in Stage /\ step = "mark" /\ rows' = rows \cup {at} /\ Finish(at)
        /\ UNCHANGED <<disk, stale>>
    BY <1>6 DEF MarkDone
  <2>2. at \notin rows /\ disk[at] = "good" /\ at \notin stale
    BY <2>1 DEF IInv, Position, Recomputing
  <2>3. 1..at \subseteq rows'
    BY <2>1, StageFacts DEF IInv, Position
  <2>4. Resumable'
    BY <2>1, <2>2, <2>3 DEF IInv, Resumable
  <2>5. at + 1 \notin rows'
    <3>1. \A t \in rows : t \in Stage /\ t < at
      BY <2>1, <2>2, RowsBefore DEF IInv, TypeOK
    <3>2. QED
      BY <2>1, <3>1, StageFacts
  <2>6. Position'
    BY <2>1, <2>4, <2>5, Finishing
  <2>7. QED
    BY <2>4, <2>6
<1>7. CASE Publish
  BY <1>7, Leaving DEF Publish
<1>8. CASE JudgeGivesUp
  BY <1>8, Leaving DEF JudgeGivesUp
<1>9. CASE Fail
  BY <1>9, Leaving DEF Fail
<1>10. CASE Release
  BY <1>10, Standing DEF Release
<1>11. CASE ReleaseFails
  BY <1>11, Standing DEF ReleaseFails
<1>12. CASE Crash
  BY <1>12, Leaving DEF Crash
<1>13. ASSUME NEW s \in Stage, NEW how \in {"none", "bad"}, Damage(s, how)
       PROVE  FALSE
  BY <1>13 DEF Damage
<1>14. CASE UNCHANGED vars
  BY <1>14, Standing DEF vars
<1>15. QED
  BY <1>1, <1>2, <1>3, <1>4, <1>5, <1>6, <1>7, <1>8, <1>9, <1>10,
     <1>11, <1>12, <1>13, <1>14 DEF Next, Advance

(* Losses are never undone: what holds while damage = 0 need only be kept   *)
(* by the steps that leave it so.                                           *)
LEMMA LossesStay ==
    ASSUME TypeOK, [Next]_vars, damage' = 0
    PROVE  damage = 0
<1>1. damage \in Nat
  BY PipelineAssumption DEF TypeOK
<1>2. damage' = damage \/ damage' = damage + 1
  BY DEF Next, Begin, Expire, Advance, LoadArtifact, NoteRecompute,
         MakeArtifact, MarkDone, Publish, JudgeGivesUp, Fail, Release,
         ReleaseFails, Crash, Damage, Fault, env, vars
<1>3. QED
  BY <1>1, <1>2

Sound == damage = 0 => Resumable /\ Position

LEMMA Soundness == Spec => []Sound
<1>1. Init => Sound
  BY InitInv DEF Sound
<1>2. TypeOK /\ Sound /\ [Next]_vars => Sound'
  BY LossesStay, NextInv DEF Sound, IInv
<1>3. QED
  BY <1>1, <1>2, Typing, PTL DEF Spec

(* Until an artifact is lost, whatever failures, crashes, reviews, early    *)
(* stops and forced runs there are, the rows in the database are the first  *)
(* stages in order, each over an artifact that is there and was built from  *)
(* those before it.                                                         *)
THEOREM RowsStayResumable == Spec => []ResumableUnlessLost
<1>1. Sound => ResumableUnlessLost
  BY DEF Sound, ResumableUnlessLost
<1>2. QED
  BY <1>1, Soundness, PTL

(* Nor does any such history let a run publish data that was replaced: the  *)
(* loss of an artifact is what it takes.                                    *)
THEOREM FaultsNeverPublishStale == Spec => [](damage = 0 => PublishedFresh)
<1>1. TypeOK /\ Sound => (damage = 0 => PublishedFresh)
  <2>1. SUFFICES ASSUME TypeOK, Sound, damage = 0, at = Done
                 PROVE  stale = {}
    BY DEF PublishedFresh
  <2>2. \A s \in Stage : s \in rows
    BY <2>1, StageFacts DEF Sound, Position
  <2>3. QED
    BY <2>1, <2>2 DEF Sound, Resumable, TypeOK
<1>2. QED
  BY <1>1, Soundness, Typing, PTL
-----------------------------------------------------------------------------
(* Losses.                                                                 *)
(*                                                                         *)
(* Here the cascade itself is at work.  Only a recorded stage can be taken *)
(* over, so what counts is what is both recorded and stale.  As long as no *)
(* run was cut short after a loss, such a stage is one the run in progress *)
(* has yet to recompute, because it is at or after the first one           *)
(* recomputed; and between runs there is none.  A run with force begins    *)
(* with no rows and records none it has not just made.                     *)

Course ==
    /\ \A s \in Stage : s < at => s \in rows
    /\ from # Done => from <= at
    /\ step # "load" => at \in Stage /\ from # Done
    /\ force /\ at # Off => \A s \in rows : s < at

Cascade ==
    /\ \A s \in rows \cap stale :
         /\ at # Off /\ at <= s
         /\ step = "mark" => at < s
         /\ from # Done
    /\ step = "mark" => at \notin stale

CascadeUnlessCut == Course /\ (~cut => Cascade)

(* A run that leaves is out of its course's way. *)
LEMMA CourseLeft ==
    ASSUME TypeOK, LeaveRun
    PROVE  Course'
<1>1. at' = 0 /\ from' = Done /\ step' = "load"
  BY StageFacts DEF LeaveRun
<1>2. QED
  BY <1>1, StageFacts DEF Course

LEMMA CourseFinish ==
    ASSUME TypeOK, Course, at \in Stage, Finish(at), at \in rows',
           rows \subseteq rows', rows' \subseteq rows \cup {at}
    PROVE  Course'
<1>1. CASE at = stop /\ at # Report
  <2>1. LeaveRun
    BY <1>1, Zenon DEF Finish
  <2>2. QED
    BY <2>1, CourseLeft
<1>2. CASE ~(at = stop /\ at # Report)
  <2>1. at' = at + 1 /\ step' = "load" /\ UNCHANGED <<from, force>>
    BY <1>2, Zenon DEF Finish
  <2>2. \A s \in Stage : s < at' => s \in rows'
    BY <2>1, StageFacts DEF Course
  <2>3. force' => \A s \in rows' : s < at'
    <3>1. SUFFICES ASSUME force', NEW s \in rows'
                   PROVE  s < at'
      OBVIOUS
    <3>2. s \in rows => s < at
      BY <2>1, <3>1, StageFacts DEF Course
    <3>3. QED
      BY <2>1, <3>2, StageFacts DEF TypeOK
  <2>4. from' # Done => from' <= at'
    BY <2>1, StageFacts DEF Course, TypeOK
  <2>5. QED
    BY <2>1, <2>2, <2>3, <2>4, Zenon DEF Course
<1>3. QED
  BY <1>1, <1>2

LEMMA CourseNext ==
    ASSUME TypeOK, Course, [Next]_vars
    PROVE  Course'
<1> USE StageFacts
<1>1. ASSUME NEW s \in Stops, NEW f \in Forces, Begin(s, f)
      PROVE  Course'
  <2>1. at' = 1 /\ step' = "load" /\ from' = Done /\ force' = f
    BY <1>1 DEF Begin
  <2>2. f => rows' = {}
    BY <1>1 DEF Begin, ClearIfForced
  <2>3. \A t \in Stage : ~(t < 1)
    OBVIOUS
  <2>4. QED
    BY <2>1, <2>2, <2>3 DEF Course
<1>2. CASE LoadArtifact
  BY <1>2, CourseFinish DEF LoadArtifact, Usable, IsDone, files
<1>3. CASE NoteRecompute
  <2>1. at \in Stage /\ UNCHANGED <<at, force, rows>> /\ from' = LowerOf(from, at)
    BY <1>3 DEF NoteRecompute, files
  <2>2. from' <= at /\ from' # Done
    BY <2>1 DEF LowerOf, TypeOK
  <2>3. QED
    BY <2>1, <2>2 DEF Course
<1>4. CASE MakeArtifact
  BY <1>4 DEF MakeArtifact, Course
<1>5. CASE MarkDone
  BY <1>5, CourseFinish DEF MarkDone
<1>6. CASE Publish \/ JudgeGivesUp \/ Fail \/ Crash
  BY <1>6, CourseLeft DEF Publish, JudgeGivesUp, Fail, Crash
<1>7. CASE Expire \/ Release \/ ReleaseFails \/ UNCHANGED vars
  BY <1>7 DEF Expire, Release, ReleaseFails, run, files, vars, Course
<1>8. ASSUME NEW s \in Stage, NEW how \in {"none", "bad"}, Damage(s, how)
      PROVE  Course'
  BY <1>8 DEF Damage, run, Course
<1>9. QED
  BY <1>1, <1>2, <1>3, <1>4, <1>5, <1>6, <1>7, <1>8 DEF Next, Advance

(* A run that ends short of its last stage, and is not one to remember,     *)
(* leaves nothing recorded that is stale: no artifact was lost, or it had   *)
(* recomputed nothing, or it was forced and recorded only what it made.     *)
LEMMA NothingLeftBehind ==
    ASSUME TypeOK, Course, Cascade, ~(damage > 0 /\ from # Done /\ ~force),
           damage = 0 => rows \cap stale = {}
    PROVE  rows \cap stale = {}
<1>1. CASE damage = 0
  BY <1>1
<1>2. CASE from = Done
  BY <1>2 DEF Cascade
<1>3. CASE force
  <2>1. SUFFICES ASSUME NEW s \in rows \cap stale
                 PROVE  FALSE
    OBVIOUS
  <2>2. at # Off /\ at <= s /\ s \in 1..8 /\ at \in 0..9
    BY StageFacts DEF Cascade, TypeOK
  <2>3. s < at
    BY <1>3, <2>2 DEF Course
  <2>4. QED
    BY <2>2, <2>3
<1>4. damage \in Nat
  BY PipelineAssumption DEF TypeOK
<1>5. QED
  BY <1>1, <1>2, <1>3, <1>4

(* A stage that ends, loaded or made anew, leaves nothing stale behind it.  *)
LEMMA CascadeFinish ==
    ASSUME TypeOK, Course, at \in Stage, Finish(at), ~cut', UNCHANGED stale,
           \A t \in rows' \cap stale : at < t /\ from # Done,
           (damage > 0 /\ from # Done /\ ~force) \/ rows' \cap stale = {}
    PROVE  Cascade'
<1>1. CASE at = stop /\ at # Report
  <2>1. LeaveRun /\ CutShort
    BY <1>1, Zenon DEF Finish
  <2>2. ~(damage > 0 /\ from # Done /\ ~force)
    BY <2>1, Zenon DEF CutShort
  <2>3. rows' \cap stale = {} /\ step' = "load"
    BY <2>1, <2>2 DEF LeaveRun
  <2>4. QED
    BY <2>3 DEF Cascade
<1>2. CASE ~(at = stop /\ at # Report)
  <2>1. /\ at' = at + 1 /\ step' = "load"
        /\ UNCHANGED <<from, force>>
    BY <1>2, Zenon DEF Finish
  <2>2. \A t \in stale : t \in 1..8
    BY StageFacts DEF TypeOK
  <2>3. at' # Off /\ at \in 1..8
    BY <2>1, StageFacts
  <2>4. ASSUME NEW t \in rows' \cap stale'
        PROVE  at' <= t /\ from' # Done
    <3>1. t \in rows' \cap stale
      OBVIOUS
    <3>2. at < t /\ from # Done /\ t \in 1..8
      BY <2>2, <3>1
    <3>3. QED
      BY <2>1, <2>3, <3>2
  <2>5. QED
    BY <2>1, <2>3, <2>4 DEF Cascade
<1>3. QED
  BY <1>1, <1>2

LEMMA CascadeNext ==
    ASSUME TypeOK, Course, ~cut => Cascade, ~cut', [Next]_vars,
           (damage = 0 => Resumable), (damage = 0 => Resumable)'
    PROVE  Cascade'
<1> USE StageFacts
<1>1. ASSUME NEW s \in Stops, NEW f \in Forces, Begin(s, f)
      PROVE  Cascade'
  <2>1. at = Off /\ cut' = (cut /\ ~f) /\ UNCHANGED stale /\ step' = "load"
    BY <1>1 DEF Begin
  <2>2. rows' = IF f THEN {} ELSE rows
    BY <1>1 DEF Begin, ClearIfForced
  <2>3. CASE f
    BY <2>1, <2>2, <2>3 DEF Cascade
  <2>4. CASE ~f
    BY <2>1, <2>2, <2>4 DEF Cascade
  <2>5. QED
    BY <2>3, <2>4
<1>2. ASSUME Finish(at)
      PROVE  ~cut
  BY <1>2, Zenon DEF Finish, CutShort, outcome
<1>3. CASE LoadArtifact
  <2>1. ~force /\ at < from /\ at \in Stage /\ UNCHANGED <<rows, stale>> /\ Finish(at)
    BY <1>3 DEF LoadArtifact, Usable, IsDone, files
  <2>2. from = Done
    BY <2>1 DEF Course, TypeOK
  <2>3. rows \cap stale = {}
    BY <1>2, <2>1, <2>2 DEF Cascade
  <2>4. QED
    BY <2>1, <2>3, CascadeFinish
<1>4. CASE NoteRecompute
  <2>1. /\ at \in Stage /\ step = "load" /\ step' = "make" /\ ~cut
        /\ UNCHANGED <<at, force, rows, stale>> /\ from' = LowerOf(from, at)
    BY <1>4, Zenon DEF NoteRecompute, files, outcome
  <2>2. from' # Done
    BY <2>1 DEF LowerOf, TypeOK
  <2>3. QED
    BY <2>1, <2>2 DEF Cascade
<1>5. CASE MakeArtifact
  <2>1. /\ at \in Stage /\ step = "make" /\ step' = "mark" /\ ~cut
        /\ UNCHANGED <<rows, at, from>>
    BY <1>5, Zenon DEF MakeArtifact, outcome
  <2>2. \A t \in Stage : at \in Inputs(t) => at < t
    BY <2>1, InputsBefore
  <2>3. Inputs(at) \subseteq rows /\ \A t \in Inputs(at) : t < at
    BY <2>1, InputsBefore DEF Course
  <2>4. Inputs(at) \cap stale = {}
    <3>1. \A t \in rows \cap stale : ~(t < at)
      BY <2>1 DEF Cascade, TypeOK
    <3>2. QED
      BY <2>3, <3>1
  <2>5. stale' = {t \in Stage : at \in Inputs(t)} \cup (stale \ {at})
    BY <1>5, <2>4 DEF MakeArtifact
  <2>6. at \notin stale'
    BY <2>1, <2>2, <2>5
  <2>7. \A t \in stale' \cap rows : at < t
    BY <2>1, <2>2, <2>5 DEF Cascade, TypeOK
  <2>8. from # Done /\ at # Off
    BY <2>1 DEF Course
  <2>9. QED
    BY <2>1, <2>6, <2>7, <2>8 DEF Cascade, TypeOK
<1>6. CASE MarkDone
  <2>1. /\ step = "mark" /\ at \in Stage /\ rows' = rows \cup {at} /\ Finish(at)
        /\ UNCHANGED stale
    BY <1>6 DEF MarkDone
  <2>2. at \notin stale /\ \A t \in rows \cap stale : at < t /\ from # Done
    BY <1>2, <2>1 DEF Cascade
  <2>3. rows' \cap stale = rows \cap stale
    BY <2>1, <2>2
  <2>4. \A t \in rows' \cap stale : at < t /\ from # Done
    BY <2>2, <2>3
  <2>5. (damage > 0 /\ from # Done /\ ~force) \/ rows \cap stale = {}
    BY <1>2, <2>1, NothingLeftBehind DEF Resumable
  <2>6. QED
    BY <2>1, <2>3, <2>4, <2>5, CascadeFinish
<1>7. CASE Publish
  <2>1. at = Done /\ ~cut /\ UNCHANGED <<rows, stale>> /\ step' = "load"
    BY <1>7, Zenon DEF Publish, LeaveRun, files
  <2>2. rows \cap stale = {}
    BY <2>1 DEF Cascade, TypeOK
  <2>3. QED
    BY <2>1, <2>2 DEF Cascade
<1>8. CASE JudgeGivesUp \/ Fail \/ Crash
  <2>1. CutShort /\ step' = "load" /\ UNCHANGED <<rows, stale>>
    BY <1>8 DEF JudgeGivesUp, Fail, Crash, LeaveRun, files
  <2>2. ~cut /\ ~(damage > 0 /\ from # Done /\ ~force)
    BY <2>1, Zenon DEF CutShort
  <2>3. rows \cap stale = {}
    BY <2>2, NothingLeftBehind DEF Resumable
  <2>4. QED
    BY <2>1, <2>3 DEF Cascade
<1>9. CASE Expire \/ Release \/ ReleaseFails \/ UNCHANGED vars
  BY <1>9, Zenon DEF Expire, Release, ReleaseFails, run, files, outcome, vars, Cascade
<1>10. ASSUME NEW s \in Stage, NEW how \in {"none", "bad"}, Damage(s, how)
       PROVE  Cascade'
  BY <1>10, Zenon DEF Damage, run, outcome, Cascade
<1>11. QED
  BY <1>1, <1>3, <1>4, <1>5, <1>6, <1>7, <1>8, <1>9, <1>10 DEF Next, Advance

(* A run that has all its stages publishes only what was built from what is *)
(* there, whatever was lost and however runs failed, were killed or stopped *)
(* early before: unless, since the last run with force, one that had begun  *)
(* to recompute ended short of its last stage after a loss.                 *)
THEOREM FreshPublication == Spec => []FreshUnlessCut
<1>1. Init => CascadeUnlessCut
  BY StageFacts DEF Init, CascadeUnlessCut, Course, Cascade
<1>2. TypeOK /\ ResumableUnlessLost /\ ResumableUnlessLost' /\ CascadeUnlessCut
        /\ [Next]_vars => CascadeUnlessCut'
  BY CourseNext, CascadeNext DEF CascadeUnlessCut, ResumableUnlessLost
<1>3. TypeOK /\ CascadeUnlessCut => FreshUnlessCut
  <2>1. SUFFICES ASSUME TypeOK, CascadeUnlessCut, ~cut, at = Done
                 PROVE  stale = {}
    BY DEF FreshUnlessCut, PublishedFresh
  <2>2. \A s \in stale : s \in Stage /\ s < at
    BY <2>1, StageFacts DEF TypeOK
  <2>3. stale \subseteq rows
    BY <2>1, <2>2 DEF CascadeUnlessCut, Course
  <2>4. QED
    BY <2>1, <2>2, <2>3, StageFacts DEF CascadeUnlessCut, Cascade
<1>4. QED
  BY <1>1, <1>2, <1>3, RowsStayResumable, Typing, PTL DEF Spec
-----------------------------------------------------------------------------
(* What a run has seen.                                                    *)
(*                                                                         *)
(* ReviewSurvivesResume speaks of the end of a run only.  On the way there *)
(* a run has seen the stages before the one it is in, no more and no less, *)
(* however often each was made, loaded or flagged anew.                    *)

Seen == at # Off => (reasons <=> \E s \in flagged : s < at)

(* A stage that ends hands its own reason on, if the run goes on.           *)
LEMMA SeenFinish ==
    ASSUME TypeOK, Seen, at \in Stage, Finish(at), UNCHANGED flagged
    PROVE  Seen'
<1>1. CASE at = stop /\ at # Report
  <2>1. LeaveRun
    BY <1>1, Zenon DEF Finish
  <2>2. QED
    BY <2>1 DEF LeaveRun, Seen
<1>2. CASE ~(at = stop /\ at # Report)
  <2>1. at' = at + 1 /\ reasons' = ReasonsWith(at)
    BY <1>2, Zenon DEF Finish
  <2>2. reasons' <=> (reasons \/ at \in flagged)
    BY <2>1, Zenon DEF ReasonsWith
  <2>3. (\E s \in flagged : s < at') <=> (\E s \in flagged : s < at) \/ at \in flagged
    BY <2>1, StageFacts DEF TypeOK
  <2>4. at # Off
    BY StageFacts
  <2>5. (\E s \in flagged' : s < at') <=> (\E s \in flagged : s < at')
    OBVIOUS
  <2>6. QED
    BY <2>2, <2>3, <2>4, <2>5, Zenon DEF Seen
<1>3. QED
  BY <1>1, <1>2

LEMMA SeenNext ==
    ASSUME TypeOK, Seen, [Next]_vars
    PROVE  Seen'
<1>1. ASSUME NEW s \in Stops, NEW f \in Forces, Begin(s, f)
      PROVE  Seen'
  <2>1. at' = 1 /\ ~reasons' /\ flagged' = flagged
    BY <1>1, StageFacts DEF Begin
  <2>2. ~ \E t \in flagged : t < 1
    BY StageFacts DEF TypeOK
  <2>3. QED
    BY <2>1, <2>2 DEF Seen
<1>2. CASE LoadArtifact
  BY <1>2, SeenFinish DEF LoadArtifact, files
<1>3. CASE MakeArtifact
  <2>1. at \in Stage /\ UNCHANGED <<at, reasons>>
    BY <1>3 DEF MakeArtifact
  <2>2. flagged' \subseteq flagged \cup {at} /\ flagged \subseteq flagged' \cup {at}
    BY <1>3 DEF MakeArtifact
  <2>3. (\E s \in flagged' : s < at) <=> (\E s \in flagged : s < at)
    BY <2>1, <2>2, StageFacts
  <2>4. QED
    BY <2>1, <2>3, Zenon DEF Seen
<1>4. CASE MarkDone
  BY <1>4, SeenFinish DEF MarkDone
<1>5. CASE Publish \/ JudgeGivesUp \/ Fail \/ Crash
  <2>1. at' = Off
    BY <1>5 DEF Publish, JudgeGivesUp, Fail, Crash, LeaveRun
  <2>2. QED
    BY <2>1 DEF Seen
<1>6. CASE Expire \/ NoteRecompute \/ Release \/ ReleaseFails \/ UNCHANGED vars
  <2>1. UNCHANGED <<at, reasons, flagged>>
    BY <1>6 DEF Expire, NoteRecompute, Release, ReleaseFails, run, files, vars
  <2>2. QED
    BY <2>1, Zenon DEF Seen
<1>7. ASSUME NEW s \in Stage, NEW how \in {"none", "bad"}, Damage(s, how)
      PROVE  Seen'
  <2>1. UNCHANGED <<at, reasons, flagged>>
    BY <1>7 DEF Damage, run
  <2>2. QED
    BY <2>1, Zenon DEF Seen
<1>8. QED
  BY <1>1, <1>2, <1>3, <1>4, <1>5, <1>6, <1>7 DEF Next, Advance

(* A reason for review in any artifact, loaded or made, reaches the         *)
(* envelope, and nothing else does (pipeline.py: each stage adds to         *)
(* review_reasons whether its artifact was loaded or made).                 *)
THEOREM ReviewsReachTheEnvelope == Spec => []ReviewSurvivesResume
<1>1. Init => Seen
  BY DEF Init, Seen
<1>2. TypeOK /\ Seen => ReviewSurvivesResume
  <2>1. SUFFICES ASSUME TypeOK, Seen, at = Done
                 PROVE  reasons <=> flagged # {}
    BY DEF ReviewSurvivesResume
  <2>2. at # Off /\ \A s \in flagged : s < at
    BY <2>1, StageFacts DEF TypeOK
  <2>3. QED
    BY <2>1, <2>2, Zenon DEF Seen
<1>3. QED
  BY <1>1, <1>2, SeenNext, Typing, PTL DEF Spec

-----------------------------------------------------------------------------
(* Early stops.                                                            *)
(*                                                                         *)
(* A run that was asked to stop early publishes nothing, because it never  *)
(* gets past the stage it was asked to stop after.                         *)

NotBeyondStop == at # Off => at <= stop \/ stop = Report

LEMMA StopFinish ==
    ASSUME TypeOK, NotBeyondStop, at \in Stage, Finish(at)
    PROVE  NotBeyondStop' /\ results' = results
<1>1. CASE at = stop /\ at # Report
  <2>1. LeaveRun /\ results' = results
    BY <1>1, Zenon DEF Finish, WriteStopped
  <2>2. QED
    BY <2>1 DEF LeaveRun, NotBeyondStop
<1>2. CASE ~(at = stop /\ at # Report)
  <2>1. at' = at + 1 /\ stop' = stop /\ results' = results
    BY <1>2, Zenon DEF Finish, outcome
  <2>2. QED
    BY <1>2, <2>1, StageFacts DEF NotBeyondStop, TypeOK
<1>3. QED
  BY <1>1, <1>2

LEMMA StopNext ==
    ASSUME TypeOK, NotBeyondStop, [Next]_vars
    PROVE  /\ NotBeyondStop'
           /\ stop \notin {Report, NoStop} => results' \in {results, "failed", "review"}
<1> USE StageFacts
<1>1. ASSUME NEW s \in Stops, NEW f \in Forces, Begin(s, f)
      PROVE  NotBeyondStop' /\ results' = results
  BY <1>1, PipelineAssumption DEF Begin, NotBeyondStop, outcome
<1>2. CASE LoadArtifact \/ MarkDone
  BY <1>2, StopFinish DEF LoadArtifact, MarkDone
<1>3. CASE Publish
  <2>1. stop \in {Report, NoStop}
    BY <1>3 DEF Publish, NotBeyondStop, TypeOK
  <2>2. NotBeyondStop'
    BY <1>3 DEF Publish, LeaveRun, NotBeyondStop
  <2>3. QED
    BY <2>1, <2>2
<1>4. CASE JudgeGivesUp \/ Fail \/ Crash
  BY <1>4 DEF JudgeGivesUp, Fail, Crash, LeaveRun, NotBeyondStop, outcome
<1>5. CASE Expire \/ NoteRecompute \/ MakeArtifact \/ Release \/ ReleaseFails \/ UNCHANGED vars
  BY <1>5 DEF Expire, NoteRecompute, MakeArtifact, Release, ReleaseFails, run,
              outcome, vars, NotBeyondStop
<1>6. ASSUME NEW s \in Stage, NEW how \in {"none", "bad"}, Damage(s, how)
      PROVE  NotBeyondStop' /\ results' = results
  BY <1>6 DEF Damage, run, outcome, NotBeyondStop
<1>7. QED
  BY <1>1, <1>2, <1>3, <1>4, <1>5, <1>6 DEF Next, Advance

(* No run that was asked to stop early makes the call count as done:        *)
(* results/ gets nothing from it but a failure or a call for review.        *)
THEOREM EarlyStopsPublishNothing == Spec => PartialIsNotDone
<1>1. Init => NotBeyondStop
  BY DEF Init, NotBeyondStop
<1>2. TypeOK /\ NotBeyondStop /\ [Next]_vars
        => [stop \notin {Report, NoStop} => results' \in {results, "failed", "review"}]_vars
  BY StopNext
<1>3. QED
  BY <1>1, <1>2, StopNext, Typing, PTL DEF Spec, PartialIsNotDone
=============================================================================
