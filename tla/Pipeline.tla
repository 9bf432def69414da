------------------------------ MODULE Pipeline ------------------------------
(***************************************************************************)
(* process_call (src/callqa/pipeline.py) on one call: the eight stages,    *)
(* their artifacts on disk, their rows in the state database, and what one *)
(* run after another makes of them when a run may resume, stop early, be   *)
(* forced, fail, be held for review or be killed, and when an artifact may *)
(* be deleted or damaged between and during the runs.                      *)
(*                                                                         *)
(* Artifacts have no contents here, only what the properties tell apart:   *)
(* `stale` says whose inputs have been rewritten since they were built,    *)
(* and `flagged` whose contents give a reason for a human to review.       *)
(* One process at a time is inside a call: that is CallLock's promise.     *)
(*                                                                         *)
(* KeepRows, NoCascade, AnyFile, PublishStopped and OnlyIfMade             *)
(* are no part of the specification: each is the definition after it with  *)
(* a fault in it, and the properties are checked to notice the difference. *)
(***************************************************************************)
EXTENDS Integers, FiniteSets

CONSTANTS
    Faults,      \* which of FaultKind the environment may cause
    MaxFault,    \* how many crashes, failures and reviews it may cause
    MaxDamage,   \* how many artifacts it may delete or damage
    Stops,       \* the values of stop_after in use: stages, and NoStop
    Forces,      \* the values of config.run.force in use
    Doubtful     \* the stages whose contents may give a reason for review

(* STAGES, by position. *)
Ingestion == 1
Audio == 2
Asr == 3
Speakers == 4
Redaction == 5
Features == 6
Judge == 7
Report == 8

Stage == Ingestion..Report
Done == Report + 1         \* past the last stage: about to write the result
Off == 0                   \* no run
NoStop == Done             \* stop_after=None: no stage is the last one

(* Stages whose contents may add to review_reasons: a short recording, too  *)
(* little speech, doubtful roles, redaction disabled.                       *)
Reviewing == {Ingestion, Audio, Speakers, Redaction}

FaultKind == {"crash", "fail", "review", "release"}

ASSUME PipelineAssumption ==
    /\ Faults \subseteq FaultKind
    /\ MaxFault \in Nat
    /\ MaxDamage \in Nat
    /\ Stops \subseteq Stage \cup {NoStop}
    /\ Forces \subseteq BOOLEAN
    /\ Doubtful \subseteq Reviewing

VARIABLES
    rows,      \* stages recorded 'done' in the state database
    disk,      \* each stage's artifact: "none", "good", or "bad" (unusable)
    stale,     \* artifacts built from inputs that were rewritten since
    flagged,   \* artifacts whose contents are a reason for review
    at,        \* stage the run is in; Off, Done
    step,      \* "load", "make" or "mark" within the stage
    from,      \* _recompute_from; Done stands for None
    stop,      \* stop_after
    force,     \* config.run.force
    reasons,   \* review_reasons is not empty
    lock,      \* the lock's row: "free", "held", "dead" (owner crashed), "leaked"
    results,   \* the status in results/<call_id>.json
    partial,   \* the status in results_partial/<call_id>.json
    cut,       \* see CutShort; it decides nothing
    faults, damage     \* what the environment has done so far

run == <<at, step, from, stop, force, reasons>>
files == <<rows, disk, stale, flagged>>
outcome == <<results, partial, cut>>
env == <<faults, damage>>
vars == <<run, files, lock, outcome, env>>

Status == {"none", "success", "review", "failed"}

TypeOK ==
    /\ rows \subseteq Stage
    /\ disk \in [Stage -> {"none", "good", "bad"}]
    /\ stale \subseteq Stage
    /\ flagged \subseteq Stage
    /\ at \in Off..Done
    /\ step \in {"load", "make", "mark"}
    /\ from \in Stage \cup {Done}
    /\ stop \in Stage \cup {NoStop}
    /\ force \in BOOLEAN
    /\ reasons \in BOOLEAN
    /\ lock \in {"free", "held", "dead", "leaked"}
    /\ results \in Status
    /\ partial \in Status
    /\ cut \in BOOLEAN
    /\ faults \in 0..MaxFault
    /\ damage \in 0..MaxDamage

Init ==
    /\ rows = {} /\ stale = {} /\ flagged = {}
    /\ disk = [s \in Stage |-> "none"]
    /\ at = Off /\ step = "load" /\ from = Done
    /\ stop = NoStop /\ force = FALSE /\ reasons = FALSE
    /\ lock = "free"
    /\ results = "none" /\ partial = "none" /\ cut = FALSE
    /\ faults = 0 /\ damage = 0

-----------------------------------------------------------------------------
(* What each stage is computed from. *)
Inputs(s) ==
    CASE s = Ingestion -> {}
      [] s = Audio     -> {Ingestion}
      [] s = Asr       -> {Audio}
      [] s = Speakers  -> {Audio, Asr}
      [] s = Redaction -> {Speakers}
      [] s = Features  -> {Ingestion, Audio, Speakers}
      [] s = Judge     -> {Redaction, Features}
      [] s = Report    -> {Ingestion, Speakers, Redaction, Features, Judge}

Fault(kind) ==
    /\ kind \in Faults
    /\ faults < MaxFault
    /\ faults' = faults + 1
    /\ UNCHANGED damage

(* The run has its outcome, its locals are gone; finally comes next. *)
LeaveRun ==
    /\ at' = Off /\ step' = "load" /\ from' = Done
    /\ stop' = NoStop /\ force' = FALSE /\ reasons' = FALSE

(* What is remembered of a run that ends short of its last stage: that it   *)
(* had begun to recompute, after an artifact was lost.  A run with force,   *)
(* which begins with no rows at all, leaves nothing to remember and makes   *)
(* what was remembered void.                                                *)
CutShort == cut' = (cut \/ (damage > 0 /\ from # Done /\ ~force))

-----------------------------------------------------------------------------
(* A run begins: the lock is free, or its owner is dead and it is stolen.   *)
(* force clears the call's rows before anything else.                       *)
KeepRows(f) == rows
ClearIfForced(f) == IF f THEN {} ELSE rows

Begin(stopAfter, f) ==
    /\ at = Off
    /\ lock \in {"free", "dead"}
    /\ lock' = "held"
    /\ at' = Ingestion /\ step' = "load" /\ from' = Done
    /\ stop' = stopAfter /\ force' = f /\ reasons' = FALSE
    /\ rows' = ClearIfForced(f)
    /\ cut' = (cut /\ ~f)
    /\ UNCHANGED <<disk, stale, flagged, results, partial, env>>

(* A lock that a live process failed to give back refuses every run (the    *)
(* caller gets a "locked:" envelope and nothing is written) until           *)
(* LOCK_TTL_SECONDS later, when it may be stolen.                           *)
Expire ==
    /\ lock = "leaked"
    /\ lock' = "dead"
    /\ UNCHANGED <<run, files, outcome, env>>

-----------------------------------------------------------------------------
(* _ArtifactStore: is_done, load, mark_done. *)

NoCascade(s) == ~force /\ s \in rows /\ disk[s] # "none"
IsDone(s) == ~force /\ s < from /\ s \in rows /\ disk[s] # "none"

(* load returns the artifact only when it is done and can be used; the      *)
(* report is not loaded but checked for being whole.                        *)
AnyFile(s) == IsDone(s)
Usable(s) == IsDone(s) /\ disk[s] = "good"

LowerOf(a, b) == IF a < b THEN a ELSE b

(* The envelope of a run that stops early goes to results_partial/.         *)
Verdict(r) == IF r THEN "review" ELSE "success"

PublishStopped(r) ==
    /\ results' = Verdict(r) /\ UNCHANGED partial
WriteStopped(r) ==
    /\ partial' = Verdict(r) /\ UNCHANGED results

(* The stage is complete: its artifact is in memory.  Its contents may add  *)
(* a reason for review.  _stopped for the last stage wanted (stop_after =   *)
(* "report" stops nothing: no check follows that stage), else go on.        *)
OnlyIfMade(s) == reasons \/ (step = "mark" /\ s \in flagged)
ReasonsWith(s) == reasons \/ s \in flagged

(* The length of the recording and the speakers' roles are looked at only   *)
(* after the stop of their own stage.                                       *)
SeenAtStop(s) == IF s \in {Ingestion, Speakers} THEN reasons ELSE ReasonsWith(s)

Finish(s) ==
    IF s = stop /\ s # Report
      THEN /\ LeaveRun
           /\ CutShort
           /\ WriteStopped(SeenAtStop(s))
      ELSE /\ at' = s + 1 /\ step' = "load"
           /\ reasons' = ReasonsWith(s)
           /\ UNCHANGED <<from, stop, force, outcome>>

LoadArtifact ==
    /\ at \in Stage /\ step = "load"
    /\ Usable(at)
    /\ Finish(at)
    /\ UNCHANGED <<files, lock, env>>

(* Not done, unusable, or after a stage already recomputed in this run. *)
NoteRecompute ==
    /\ at \in Stage /\ step = "load"
    /\ ~Usable(at)
    /\ from' = LowerOf(from, at)
    /\ step' = "make"
    /\ UNCHANGED <<at, stop, force, reasons, files, lock, outcome, env>>

(* Compute the stage and write its artifact: atomic, so the file is the     *)
(* whole new one or still the old one.                                      *)
MakeArtifact ==
    /\ at \in Stage /\ step = "make"
    /\ disk' = [disk EXCEPT ![at] = "good"]
    /\ stale' = {t \in Stage : at \in Inputs(t)}
                  \cup (IF Inputs(at) \cap stale # {} THEN stale \cup {at}
                                                      ELSE stale \ {at})
    /\ \E f \in BOOLEAN :
         /\ f => at \in Doubtful
         /\ flagged' = IF f THEN flagged \cup {at} ELSE flagged \ {at}
    /\ step' = "mark"
    /\ UNCHANGED <<rows, at, from, stop, force, reasons, lock, outcome, env>>

MarkDone ==
    /\ at \in Stage /\ step = "mark"
    /\ rows' = rows \cup {at}
    /\ Finish(at)
    /\ UNCHANGED <<disk, stale, flagged, lock, env>>

-----------------------------------------------------------------------------
(* How a run ends. *)

(* All stages complete: the envelope that counts. *)
Publish ==
    /\ at = Done
    /\ results' = Verdict(reasons)
    /\ LeaveRun
    /\ UNCHANGED <<files, lock, partial, cut, env>>

(* NeedsHumanReviewError: the result is written, the judge is not marked,   *)
(* and whatever scorecard and row there were stay.                          *)
JudgeGivesUp ==
    /\ at = Judge /\ step = "make"
    /\ Fault("review")
    /\ results' = "review"
    /\ LeaveRun
    /\ CutShort
    /\ UNCHANGED <<files, lock, partial>>

(* Any exception: the failed envelope is written, unless that fails too,    *)
(* and the stages done so far stay as they are.                             *)
Fail ==
    /\ at # Off
    /\ Fault("fail")
    /\ results' \in {results, "failed"}
    /\ LeaveRun
    /\ CutShort
    /\ UNCHANGED <<files, lock, partial>>

(* finally: the lock is given back. *)
Release ==
    /\ at = Off
    /\ lock = "held"
    /\ lock' = "free"
    /\ UNCHANGED <<run, files, outcome, env>>

(* Something in finally raises (the worker cannot be killed in time, the    *)
(* database cannot be written): the lock's row stays and the exception      *)
(* leaves process_call.                                                     *)
ReleaseFails ==
    /\ at = Off
    /\ lock = "held"
    /\ Fault("release")
    /\ lock' = "leaked"
    /\ UNCHANGED <<run, files, outcome>>

(* The process is killed, or interrupted from the keyboard, which still     *)
(* runs finally.                                                            *)
Crash ==
    /\ lock = "held"
    /\ Fault("crash")
    /\ LeaveRun
    /\ CutShort
    /\ lock' \in {"dead", "free"}
    /\ UNCHANGED <<files, results, partial>>

(* An artifact is deleted (retention, an operator) or becomes unusable. *)
Damage(s, how) ==
    /\ disk[s] = "good"
    /\ damage < MaxDamage
    /\ disk' = [disk EXCEPT ![s] = how]
    /\ damage' = damage + 1
    /\ UNCHANGED <<run, rows, stale, flagged, lock, outcome, faults>>

Advance ==
    LoadArtifact \/ NoteRecompute \/ MakeArtifact \/ MarkDone \/ Publish

Next ==
    \/ \E s \in Stops, f \in Forces : Begin(s, f)
    \/ Expire
    \/ Advance \/ JudgeGivesUp \/ Fail \/ Release \/ ReleaseFails \/ Crash
    \/ \E s \in Stage, how \in {"none", "bad"} : Damage(s, how)

Spec == Init /\ [][Next]_vars

(* A run that has begun goes on (it waits for nobody), the lock of a dead   *)
(* process can always be taken over in the end, and somebody runs the call  *)
(* again, without --force and to the end.                                   *)
FairSpec ==
    /\ Spec
    /\ WF_vars(Advance) /\ WF_vars(Release) /\ WF_vars(Expire)
    /\ SF_vars(Begin(NoStop, FALSE))

-----------------------------------------------------------------------------
(* Properties. *)

(* When a run has all its stages, everything it is about to publish was     *)
(* built from the artifacts that are there now: no report or scorecard left *)
(* over from data that has since been replaced (pipeline.py:91-94).         *)
PublishedFresh == at = Done => stale = {}

(* That is so unless, since the last run with force, a run that had begun   *)
(* to recompute ended short of its last stage, an artifact having been lost *)
(* before: "Once a stage is (re)computed, every LATER stage must recompute  *)
(* too, even if it is still marked done from an earlier run"                *)
(* (pipeline.py:91-92) is remembered by that run only.  Losses alone do no  *)
(* harm, nor do failures, crashes and early stops alone, nor both in        *)
(* another order.                                                           *)
FreshUnlessCut == ~cut => PublishedFresh

(* While no artifact was lost, the rows are the first stages, in order, and *)
(* each has its artifact, built from the artifacts before it: a row never   *)
(* runs ahead of the file, and a resumed run never finds a later stage done *)
(* over an earlier one that is not, whatever stopped the runs before it.    *)
Resumable ==
    /\ \A s \in rows : 1..s \subseteq rows
    /\ \A s \in rows : disk[s] = "good" /\ s \notin stale

ResumableUnlessLost == damage = 0 => Resumable

(* A reason for review found in any artifact, one loaded from an earlier    *)
(* run as much as one made in this, reaches the envelope, and nothing else  *)
(* does.                                                                    *)
ReviewSurvivesResume == at = Done => (reasons <=> flagged # {})

(* A run that was asked to stop early never makes the call count as done.   *)
PartialIsNotDone ==
    [][stop \notin {Report, NoStop} => results' \in {results, "failed", "review"}]_vars

Complete ==
    /\ results \in {"success", "review"}
    /\ \A s \in Stage : s \in rows /\ disk[s] = "good"

(* However runs fail, are killed or lose artifacts, running the call again  *)
(* finishes it in the end: nothing needs --force (pipeline.py:121-127).     *)
Recovers == []<>Complete
=============================================================================
