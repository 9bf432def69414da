------------------------- MODULE CallAnalysisProofs -------------------------
(* That the segments a run uses are about the recording it transcribed.     *)
(* A run trusts the file beside the recording, which any worker may have    *)
(* written.  The argument is about who can still write it: a worker of this *)
(* run reads this run's recording, and a worker of an earlier run is either *)
(* gone or was seen at the start.                                           *)
(* What the later stages compute is left to TLC: it is defined by folds     *)
(* over the words of a call.                                                *)
EXTENDS CallAnalysis, TLAPS

USE CallAnalysisAssumption DEF CallAnalysisAssumption

\* The file is about the recording on disk, if it is there.
Current == outFile \in {None, audio}

\* A run that holds a worker holds one that reads what the run transcribed,
\* and its file is that worker's, or was the one of nobody.
WorkerIsMine ==
    worker.state # "none" =>
      /\ pc \in {"asr", "collect", "failing"}
      /\ worker.reads = audio
      /\ late \/ Current

\* No worker of an earlier run is alive in a run that saw none at its start.
\* A run that could not remove the old file ends before it looks.
NoneBefore ==
    ~late /\ (worker.state # "none" \/ pc \notin {"idle", "failing"}) => orphan = None

\* Segments are only there when no run of this recording can fail any more.
AnswerIsLast == answer # None => pc \in {"speakers", "redaction", "features", "done"}

IInv == TypeOK /\ WorkerIsMine /\ NoneBefore /\ AnswerIsLast /\ AnswerIsOfThisRecording

\* No worker, and the runs, of a call that has just come to hand.
LEMMA Begins == Init => IInv
<1> SUFFICES ASSUME Init PROVE IInv
    OBVIOUS
<1>1. TypeOK
  <2>1. 0 \in 0 .. MaxFault /\ 0 \in 0 .. MaxAudio /\ 1 \in 1 .. MaxAudio
    OBVIOUS
  <2>2. worker \in [state : WorkerState, reads : 0 .. MaxAudio] /\ worker.state = "none"
    BY <2>1 DEF Init, WorkerState, NoWorker
  <2> QED BY <2>1, <2>2 DEF Init, TypeOK, PC
<1>2. WorkerIsMine /\ NoneBefore /\ AnswerIsLast /\ AnswerIsOfThisRecording
    BY DEF Init, WorkerIsMine, NoneBefore, AnswerIsLast, AnswerIsOfThisRecording, NoWorker
<1> QED BY <1>1, <1>2 DEF IInv

\* What the worker does, alone or left behind, keeps the invariant.
LEMMA WorkerSteps ==
    IInv /\ (\/ WorkerWrites \/ WorkerFails \/ WorkerQuits \/ WorkerHangs
             \/ OrphanWrites \/ OrphanNotices) => IInv'
<1> SUFFICES ASSUME IInv,
                    \/ WorkerWrites \/ WorkerFails \/ WorkerQuits \/ WorkerHangs
                    \/ OrphanWrites \/ OrphanNotices
             PROVE  IInv'
    OBVIOUS
<1> USE DEF IInv, TypeOK, WorkerIsMine, Current, NoneBefore, AnswerIsLast,
            AnswerIsOfThisRecording, PC, WorkerState
<1>1. CASE WorkerWrites
    BY <1>1 DEF WorkerWrites, procVars
<1>2. CASE WorkerFails
    BY <1>2 DEF WorkerFails, Fault
<1>3. CASE WorkerQuits
    BY <1>3 DEF WorkerQuits, Fault
<1>4. CASE WorkerHangs
    BY <1>4 DEF WorkerHangs, Fault
<1>5. CASE OrphanWrites
    BY <1>5 DEF OrphanWrites
<1>6. CASE OrphanNotices
    BY <1>6 DEF OrphanNotices
<1> QED BY <1>1, <1>2, <1>3, <1>4, <1>5, <1>6

\* So does a start.
LEMMA Starts ==
    IInv /\ (StartAlone \/ StartWorker \/ NotStarted \/ OldFileHeld) => IInv'
<1> SUFFICES ASSUME IInv, StartAlone \/ StartWorker \/ NotStarted \/ OldFileHeld
             PROVE  IInv'
    OBVIOUS
<1> USE DEF IInv, TypeOK, WorkerIsMine, Current, NoneBefore, AnswerIsLast,
            AnswerIsOfThisRecording, PC, WorkerState
<1>1. CASE StartAlone
    BY <1>1 DEF StartAlone
<1>2. CASE StartWorker
  <2>1. worker' \in [state : WorkerState, reads : 0 .. MaxAudio]
    BY <1>2 DEF StartWorker
  <2>2. worker'.state = "running" /\ worker'.reads = audio
    BY <1>2 DEF StartWorker
  <2> QED BY <1>2, <2>1, <2>2 DEF StartWorker
<1>3. CASE NotStarted
  <2>1. UNCHANGED worker
    BY <1>3 DEF NotStarted
  <2>2. faults' \in 0 .. MaxFault
    BY <1>3 DEF NotStarted, Fault
  <2>3. TypeOK'
    BY <1>3, <2>1, <2>2 DEF NotStarted
  <2> QED BY <1>3, <2>1, <2>3 DEF NotStarted
<1>4. CASE OldFileHeld
    BY <1>4 DEF OldFileHeld, Fault
<1> QED BY <1>1, <1>2, <1>3, <1>4

\* So do the steps of recognition and of the collecting, however they end.
LEMMA Collects ==
    IInv /\ (\/ Transcribe \/ TranscribeFails \/ Collect \/ CollectTimesOut
             \/ KillTimesOut \/ DiarizeInProcess \/ DiarizeFails) => IInv'
<1> SUFFICES ASSUME IInv,
                    \/ Transcribe \/ TranscribeFails \/ Collect \/ CollectTimesOut
                    \/ KillTimesOut \/ DiarizeInProcess \/ DiarizeFails
             PROVE  IInv'
    OBVIOUS
<1> USE DEF IInv, TypeOK, WorkerIsMine, Current, NoneBefore, AnswerIsLast,
            AnswerIsOfThisRecording, PC, WorkerState
<1>1. CASE Transcribe
    BY <1>1 DEF Transcribe
<1>2. CASE TranscribeFails
    BY <1>2 DEF TranscribeFails, Fault
<1>3. CASE Collect
    BY <1>3 DEF Collect, Cleanup, Alive, NoWorker
<1>4. CASE CollectTimesOut
    BY <1>4 DEF CollectTimesOut, Cleanup, Alive, NoWorker
<1>5. CASE KillTimesOut
    BY <1>5 DEF KillTimesOut, Fault
<1>6. CASE DiarizeInProcess
    BY <1>6 DEF DiarizeInProcess, Own
<1>7. CASE DiarizeFails
    BY <1>7 DEF DiarizeFails, Fault
<1> QED BY <1>1, <1>2, <1>3, <1>4, <1>5, <1>6, <1>7

\* A run that ends before its dialog leaves no worker of its own, and the
\* recording may be made anew: nothing of it was used yet.
LEMMA Ends == IInv /\ (RunFails \/ Crash) => IInv'
<1> SUFFICES ASSUME IInv, RunFails \/ Crash PROVE IInv'
    OBVIOUS
<1> USE DEF IInv, TypeOK, WorkerIsMine, Current, NoneBefore, AnswerIsLast,
            AnswerIsOfThisRecording, PC, WorkerState
<1>1. audio' \in 1 .. MaxAudio
    BY DEF RunFails, Crash, Remade
<1>2. answer = None
    BY DEF RunFails, Crash
<1>3. CASE RunFails
    BY <1>1, <1>2, <1>3 DEF RunFails, Cleanup, NoWorker
<1>4. CASE Crash
  <2>1. orphan' = None \/ orphan' \in [state : {"running", "hung"}, reads : 1 .. MaxAudio]
    <3>1. CASE Alive
      <4>1. worker = [state |-> worker.state, reads |-> worker.reads]
          OBVIOUS
      <4> QED BY <4>1, <1>4, <3>1 DEF Crash, Alive
    <3>2. CASE ~Alive
        BY <1>4, <3>2 DEF Crash
    <3> QED BY <3>1, <3>2
  <2> QED BY <1>1, <1>2, <1>4, <2>1 DEF Crash, Fault, NoWorker
<1> QED BY <1>3, <1>4

\* The stages that follow touch nothing of it.
LEMMA Goes == IInv /\ (Attribute \/ Redact \/ ComputeFeatures \/ UNCHANGED vars) => IInv'
<1> SUFFICES ASSUME IInv, Attribute \/ Redact \/ ComputeFeatures \/ UNCHANGED vars
             PROVE  IInv'
    OBVIOUS
<1>1. /\ \/ pc' = pc
         \/ /\ pc \in {"speakers", "redaction", "features"}
            /\ pc' \in {"redaction", "features", "done"}
      /\ UNCHANGED <<audio, worker, orphan, outFile, answer, late, faults>>
    BY DEF Attribute, Redact, ComputeFeatures, vars, procVars
<1> QED BY <1>1 DEF IInv, TypeOK, WorkerIsMine, Current, NoneBefore, AnswerIsLast,
                    AnswerIsOfThisRecording, PC, WorkerState

LEMMA Stays == IInv /\ [Next]_vars => IInv'
BY WorkerSteps, Starts, Collects, Ends, Goes DEF Next, Finished

LEMMA Inductive == Spec => []IInv
BY Begins, Stays, PTL DEF Spec

\* The variables of a run and its worker have their types, whatever the calls,
\* the recordings and the faults.
THEOREM Typing == Spec => []TypeOK
<1>1. IInv => TypeOK
    BY DEF IInv
<1> QED BY <1>1, Inductive, PTL

\* The segments a run collects are about the recording it transcribed, unless
\* a worker of an earlier run was alive when it started 
\* (pipeline.py:149-272: the file is removed before the worker is started, and
\* read when it has ended).
THEOREM SegmentsAreOfThisRecording == Spec => []AnswerIsOfThisRecording
<1>1. IInv => AnswerIsOfThisRecording
    BY DEF IInv
<1> QED BY <1>1, Inductive, PTL

=============================================================================
