---------------------------- MODULE CallAnalysis ----------------------------
(* Stages 3 to 6 of one call (pipeline.py): recognition, with the          *)
(* diarization worker racing it on a mono recording, then the dialog, the  *)
(* masks of its text and of its audio, and its features.                   *)
(*                                                                         *)
(* A call is [mono, auto, parallel, segments, other, regions, text, finds, *)
(* names, persons, secret, plain]: the transcript (of the banker's channel, *)
(* `other` of the customer's, when stereo; auto: which is whose has to be  *)
(* found out), what the diarizer says of it, the tokens of each word of    *)
(* the dialog or, in a call with no text, what the redactor finds in it,   *)
(* and whether the worker may run beside recognition.  What the worker     *)
(* writes is told apart only by the recording it read: the audio stage may *)
(* have remade that between two runs.  `secret` and `plain` are words that *)
(* somebody who understands the call would have masked, and left.          *)
EXTENDS Speakers, Features, Masks, Detection, Functions

CONSTANTS
    Calls,        \* the calls to analyse
    MaxAudio,     \* bound: recordings one call has in its life
    MaxFault      \* bound: what goes wrong with workers and runs

ASSUME CallAnalysisAssumption == MaxAudio \in Nat \ {0} /\ MaxFault \in Nat

VARIABLES
    call, pc,
    audio,        \* which recording of the call is on disk
    worker,       \* the worker this run holds: [state, reads]
    orphan,       \* the worker of a killed run, or None
    outFile,      \* <wav>.diar.json: the recording it is about, or None
    answer,       \* the recording the worker's segments are about, or Own
    late,         \* history: a worker of an earlier run was alive at the start
    faults,
    dialog, gone, silences, features

procVars == <<pc, audio, worker, orphan, outFile, answer, late, faults>>
dataVars == <<dialog, gone, silences, features>>
vars == <<call, procVars, dataVars>>

Own == 0          \* diarized by the run itself
NoWorker == [state |-> "none", reads |-> 0]
WorkerState == {"none", "running", "hung", "exit0", "exit1"}
PC == {"idle", "asr", "collect", "in-process", "speakers", "redaction",
       "features", "done", "failing"}

TypeOK ==
    /\ pc \in PC
    /\ audio \in 1 .. MaxAudio /\ faults \in 0 .. MaxFault
    /\ worker \in [state : WorkerState, reads : 0 .. MaxAudio]
    /\ orphan = None \/ orphan \in [state : {"running", "hung"}, reads : 1 .. MaxAudio]
    /\ outFile \in {None} \cup (1 .. MaxAudio)
    /\ answer \in {None, Own} \cup (1 .. MaxAudio)
    /\ late \in BOOLEAN
    /\ worker.state # "none" => pc \in {"asr", "collect", "failing"}

Init ==
    /\ call \in Calls /\ pc = "idle" /\ audio = 1
    /\ worker = NoWorker /\ orphan = None /\ outFile = None /\ answer = None
    /\ late = FALSE /\ faults = 0
    /\ dialog = None /\ gone = None /\ silences = None /\ features = None

\* Faults are followed in the calls that have a worker.
Fault == call.parallel /\ faults < MaxFault /\ faults' = faults + 1

-----------------------------------------------------------------------------
(* The worker's process.                                                   *)

Alive == worker.state \in {"running", "hung"}

WorkerWrites ==
    /\ worker.state = "running"
    /\ worker' = [worker EXCEPT !.state = "exit0"] /\ outFile' = worker.reads
    /\ UNCHANGED <<call, dataVars, pc, audio, orphan, answer, late, faults>>

WorkerFails ==
    /\ worker.state = "running" /\ Fault
    /\ worker' = [worker EXCEPT !.state = "exit1"]
    /\ UNCHANGED <<call, dataVars, pc, audio, orphan, outFile, answer, late>>

\* exit_when_process_ends takes the living parent for gone: exit 0, no file.
WorkerQuits ==
    /\ worker.state = "running" /\ Fault
    /\ worker' = [worker EXCEPT !.state = "exit0"]
    /\ UNCHANGED <<call, dataVars, pc, audio, orphan, outFile, answer, late>>

WorkerHangs ==
    /\ worker.state = "running" /\ Fault
    /\ worker' = [worker EXCEPT !.state = "hung"]
    /\ UNCHANGED <<call, dataVars, pc, audio, orphan, outFile, answer, late>>

OrphanWrites ==
    /\ orphan # None /\ orphan.state = "running"
    /\ outFile' = orphan.reads /\ orphan' = None
    /\ UNCHANGED <<call, dataVars, pc, audio, worker, answer, late, faults>>

\* Seeded defect: nobody watches the pipeline.
OrphanUnwatched == orphan # None /\ UNCHANGED vars

\* The watching thread of a worker sees that its pipeline has ended.
OrphanNotices ==
    /\ orphan # None /\ orphan' = None
    /\ UNCHANGED <<call, dataVars,
                  pc, audio, worker, outFile, answer, late, faults>>

-----------------------------------------------------------------------------
(* A run.  Removing the worker's file may fail (another program holds it), *)
(* and so may the start of the process.                                    *)

Clear(f) == f = None

StartAlone ==
    /\ pc = "idle" /\ ~(call.mono /\ call.parallel)
    /\ pc' = "asr" /\ late' = (orphan # None)
    /\ UNCHANGED <<call, dataVars,
                  audio, worker, orphan, outFile, answer, faults>>

\* Seeded defect: an earlier run's file is left in place.
StartOverOldFile ==
    /\ pc = "idle" /\ call.mono /\ call.parallel
    /\ pc' = "asr" /\ late' = (orphan # None)
    /\ worker' = [state |-> "running", reads |-> audio]
    /\ UNCHANGED <<call, dataVars, audio, orphan, outFile, answer, faults>>

StartWorker ==
    /\ pc = "idle" /\ call.mono /\ call.parallel
    /\ pc' = "asr" /\ outFile' = None /\ late' = (orphan # None)
    /\ worker' = [state |-> "running", reads |-> audio]
    /\ UNCHANGED <<call, dataVars, audio, orphan, answer, faults>>

NotStarted ==
    /\ pc = "idle" /\ call.mono /\ call.parallel /\ Fault
    /\ pc' = "asr" /\ outFile' = None /\ late' = (orphan # None)
    /\ UNCHANGED <<call, dataVars, audio, worker, orphan, answer>>

OldFileHeld ==
    /\ pc = "idle" /\ call.mono /\ call.parallel /\ outFile # None /\ Fault
    /\ pc' = "failing"
    /\ UNCHANGED <<call, dataVars,
                  audio, worker, orphan, outFile, answer, late>>

Transcribe ==
    /\ pc = "asr"
    /\ pc' = IF worker.state # "none" THEN "collect"
             ELSE IF call.mono THEN "in-process" ELSE "speakers"
    /\ UNCHANGED <<call, dataVars,
                  audio, worker, orphan, outFile, answer, late, faults>>

TranscribeFails ==
    /\ pc = "asr" /\ Fault /\ pc' = "failing"
    /\ UNCHANGED <<call, dataVars,
                  audio, worker, orphan, outFile, answer, late>>

\* _cleanup_files: best effort.
Cleanup == outFile' \in {None, outFile}

\* The worker has ended: its file is used when it exited with 0 and wrote one
\* with segments in it.
Collect ==
    /\ pc = "collect" /\ ~Alive
    /\ IF worker.state = "exit0" /\ outFile # None /\ call.regions # <<>>
       THEN pc' = "speakers" /\ answer' = outFile
       ELSE pc' = "in-process" /\ UNCHANGED answer
    /\ worker' = NoWorker /\ Cleanup
    /\ UNCHANGED <<call, dataVars, audio, orphan, late, faults>>

\* Seeded defect: the worker is waited for without a limit.
WaitsForEver == pc = "collect" /\ Alive /\ UNCHANGED vars

\* It exceeded its time: killed, and the call diarizes in its own process.
CollectTimesOut ==
    /\ pc = "collect" /\ Alive
    /\ pc' = "in-process" /\ worker' = NoWorker /\ Cleanup
    /\ UNCHANGED <<call, dataVars, audio, orphan, answer, late, faults>>

\* kill() and still not gone ten seconds later: wait() raises, out of collect.
KillTimesOut ==
    /\ pc = "collect" /\ worker.state = "hung" /\ Fault
    /\ pc' = "failing"
    /\ UNCHANGED <<call, dataVars,
                  audio, worker, orphan, outFile, answer, late>>

DiarizeInProcess ==
    /\ pc = "in-process" /\ pc' = "speakers" /\ answer' = Own
    /\ UNCHANGED <<call, dataVars,
                  audio, worker, orphan, outFile, late, faults>>

DiarizeFails ==
    /\ pc = "in-process" /\ Fault /\ pc' = "failing"
    /\ UNCHANGED <<call, dataVars,
                  audio, worker, orphan, outFile, answer, late>>

\* The finally block of a failed run, and the next run, of a recording that
\* may have been made anew.
Remade == audio' \in audio .. MaxAudio

RunFails ==
    /\ pc = "failing" /\ pc' = "idle" /\ worker' = NoWorker
    /\ IF worker.state = "none" THEN UNCHANGED outFile ELSE Cleanup
    /\ Remade /\ UNCHANGED <<call, dataVars, orphan, answer, late, faults>>

Crash ==
    /\ worker.state # "none" /\ Fault
    /\ pc' = "idle" /\ worker' = NoWorker /\ Remade
    /\ orphan' = IF Alive THEN worker ELSE orphan
    /\ UNCHANGED <<call, dataVars, outFile, answer, late>>

-----------------------------------------------------------------------------
(* The stages that follow.                                                 *)

Attribute ==
    /\ pc = "speakers" /\ pc' = "redaction"
    /\ IF call.mono
       THEN \E pieces \in {AttributeSegments(call.segments, call.regions)} :
              dialog' = AssignMonoRoles(pieces)
       ELSE \E merged \in {MergeStereo(call.segments, call.other)} :
              dialog' = IF call.auto THEN VerifyStereoRoles(merged) ELSE merged
    /\ UNCHANGED <<call, gone, silences, features>>
    /\ UNCHANGED <<audio, worker, orphan, outFile, answer, late, faults>>

\* The words of the dialog are numbered through its turns.
FirstWord(turns, i) ==
    1 + MapThenSumSet(LAMBDA j : Len(turns[j].said), 1 .. i - 1)
Numbered(turns) ==
    [i \in DOMAIN turns |->
       LET first == FirstWord(turns, i)
       IN  [start |-> turns[i].start, end |-> turns[i].end,
            first |-> first, last |-> first + Len(turns[i].said) - 1,
            timed |-> {first + k - 1 : k \in turns[i].timed}]]
Spoken(turns) == FlattenSeq([i \in DOMAIN turns |-> turns[i].said])

\* Words joined as a document: a space between two of a turn, a new line
\* between two turns; each token knows the word it is of.
Token(what) == [is |-> what, digits |-> <<>>, says |-> {}, word |-> 0]
Document(turns, words) ==
    LET Listing(i) == SelectSeq([k \in 1 .. turns[i].last - turns[i].first + 1 |->
                                   turns[i].first + k - 1], LAMBDA w : w \in words)
        Of(w) == [k \in DOMAIN call.text[w] |->
                    [is |-> call.text[w][k].is, digits |-> call.text[w][k].digits,
                     says |-> call.text[w][k].says, word |-> w]]
        Line(list) == FlattenSeq([k \in DOMAIN list |->
                        IF k = 1 THEN Of(list[k]) ELSE <<Token("space")>> \o Of(list[k])])
    IN  FlattenSeq([i \in DOMAIN turns |->
                      IF i = 1 THEN Line(Listing(i))
                      ELSE <<Token("newline")>> \o Line(Listing(i))])
\* The positions of each turn of which anything is in the document.
TurnSpans(doc, turns) ==
    LET In(i) == {k \in DOMAIN doc : doc[k].word \in turns[i].first .. turns[i].last}
        spoken == SelectSeq([i \in DOMAIN turns |-> i], LAMBDA i : In(i) # {})
    IN  [k \in DOMAIN spoken |->
           [first |-> Min(In(spoken[k])), last |-> Max(In(spoken[k])),
            speaker |-> dialog.turns[spoken[k]].speaker]]
\* The words a find in a document reaches into.
InWords(doc, found) ==
    [k \in DOMAIN found |->
       LET words == {doc[p].word : p \in found[k][1] .. found[k][2]} \ {0}
       IN  <<Min(words), Max(words)>>]

\* A call with a text is searched; the finds of another are given, in words.
FindsIn(turns, words) ==
    IF call.text = <<>> THEN {Located(words, call.finds)}
    ELSE UNION {{InWords(doc, FindPii(doc, spans)) : spans \in {TurnSpans(doc, turns)}} :
                  doc \in {Document(turns, words)}}

Redact ==
    /\ pc = "redaction" /\ pc' = "features"
    /\ \E turns \in {Numbered(dialog.turns)} :
       \E finds \in FindsIn(turns, 1 .. Len(Spoken(dialog.turns))) :
       \E heard \in FindsIn(turns, Timed(turns)) :
       \E out \in {[i \in DOMAIN turns |->
                      RedactTurn(finds, ToSet(call.names), call.persons, turns[i])]} :
       \E required \in {[i \in DOMAIN turns |->
                           Required(finds \o NameFinds(call.names), out[i].masks, turns[i])]} :
         /\ gone' = [i \in DOMAIN turns |-> out[i].gone]
         /\ silences' = MaskedTimeRanges(turns, Spoken(dialog.turns),
              heard \o Located(Timed(turns), NameFinds(call.names)), required)
    /\ UNCHANGED <<call, dialog, features>>
    /\ UNCHANGED <<audio, worker, orphan, outFile, answer, late, faults>>

\* Stereo: each channel's speech.  Mono: the turns of the dialog.
SpeechSegments(role) ==
    IF call.mono THEN SegmentsOf(dialog.turns, role)
    ELSE IF role = "banker" THEN call.segments ELSE call.other

ComputeFeatures ==
    /\ pc = "features" /\ pc' = "done"
    /\ LET banker == SpeechSegments("banker")
           customer == SpeechSegments("customer")
       IN  features' =
             [speech |-> <<Total(banker), Total(customer)>>,
              monologue |-> LongestMonologue(banker, customer),
              interruptions |-> <<Interruptions(banker, customer),
                                  Interruptions(customer, banker)>>,
              patience |-> PatienceMedian(banker, customer),
              deadAir |-> DeadAirTotal(banker, customer)]
    /\ UNCHANGED <<call, dialog, gone, silences>>
    /\ UNCHANGED <<audio, worker, orphan, outFile, answer, late, faults>>

Finished == pc = "done" /\ UNCHANGED vars

Next ==
    \/ WorkerWrites \/ WorkerFails \/ WorkerQuits \/ WorkerHangs
    \/ OrphanWrites \/ OrphanNotices
    \/ StartAlone \/ StartWorker \/ NotStarted \/ OldFileHeld
    \/ Transcribe \/ TranscribeFails \/ Collect \/ CollectTimesOut
    \/ KillTimesOut \/ DiarizeInProcess \/ DiarizeFails \/ RunFails \/ Crash
    \/ Attribute \/ Redact \/ ComputeFeatures \/ Finished

Spec == Init /\ [][Next]_vars

\* The run goes on while its process lives, whatever the worker does: nothing
\* is asked of WorkerWrites.  A worker's watching thread keeps polling.
Fairness ==
    /\ WF_vars(Transcribe) /\ WF_vars(Collect) /\ WF_vars(CollectTimesOut)
    /\ WF_vars(DiarizeInProcess) /\ WF_vars(RunFails)
    /\ WF_vars(OrphanNotices)

FairSpec == Spec /\ Fairness

-----------------------------------------------------------------------------
(* Properties.                                                             *)

\* The segments a run collects are about the recording it transcribed, not
\* about one an earlier, killed run had: its worker's file is out of the way,
\* unless that worker was still alive when this run started.
AnswerIsOfThisRecording == late \/ answer \in {None, Own, audio}

\* A worker that hangs, fails or cannot be killed never holds up the run: it
\* comes to its dialog, or ends.
RunEnds == pc = "asr" ~> pc \in {"speakers", "idle"}

\* A worker does not outlive a killed pipeline for ever.
OrphansEnd == orphan # None ~> orphan = None

\* However the worker and its pipeline end, neither waits for the other for ever.
WorkerNeverHoldsUp == RunEnds /\ OrphansEnd

Times == 0 .. Max({0} \cup {call.regions[i].end : i \in DOMAIN call.regions})
Covers(regions, t) ==
    \E i \in DOMAIN regions : regions[i].start <= t /\ t < regions[i].end

\* Collapsing the diarization to two labels moves no speech in time, keeps
\* every kept label where it was, and leaves two labels at most.
SpeechKept ==
    pc = "speakers" /\ call.mono =>
      LET reduced == ReduceToTwo(call.regions)
          keep == Kept(ByTime(call.regions))
          Only(regions, l) == SelectSeq(regions, LAMBDA r : r.label = l)
      IN  /\ Cardinality(LabelsIn(reduced)) <= 2
          /\ \A t \in Times :
               /\ Covers(reduced, t) <=> Covers(call.regions, t)
               /\ \A l \in keep : Covers(Only(call.regions, l), t)
                                    => Covers(Only(reduced, l), t)

\* How often a word is in a sequence of turns or segments.
Occurrences(parts, w) ==
    MapThenSumSet(LAMBDA i : Cardinality({k \in DOMAIN parts[i] : parts[i][k] = w}),
                  DOMAIN parts)

\* Every word with a usable time, and every word of a segment that has none,
\* is in exactly one turn, and the turns are in the order of time.
NoWordLost ==
    pc = "redaction" =>
      LET segments == IF call.mono THEN call.segments
                      ELSE call.segments \o call.other
          heard == [i \in DOMAIN segments |->
                      IF ~call.mono \/ Usable(segments[i]) = <<>>
                      THEN segments[i].said ELSE Usable(segments[i])]
          turns == [i \in DOMAIN dialog.turns |-> dialog.turns[i].said]
      IN  /\ \A w \in UNION {{heard[i][k] : k \in DOMAIN heard[i]} :
                              i \in DOMAIN heard} :
               Occurrences(turns, w) = Occurrences(heard, w)
          /\ Len(Spoken(dialog.turns)) = Len(FlattenSeq(heard))
          /\ \A i \in 2 .. Len(turns) :
               dialog.turns[i - 1].start <= dialog.turns[i].start

\* The diarizer's names are arbitrary: with the names exchanged, the dialog,
\* its roles and the confidence in them are the same.
NamesAreArbitrary ==
    pc = "redaction" /\ call.mono =>
      \A p \in {p \in [LabelsIn(call.regions) -> LabelsIn(call.regions)] :
                  IsInjective(p)} :
        LET renamed == [i \in DOMAIN call.regions |->
                          [call.regions[i] EXCEPT !.label = p[@]]]
        IN  \A pieces \in {AttributeSegments(call.segments, renamed)} :
              AssignMonoRoles(pieces) = dialog

\* Whether the channels were swapped is found out once: roles that were just
\* verified are not swapped by verifying them again.
RolesSettle ==
    pc = "redaction" /\ call.auto => VerifyStereoRoles(dialog) = dialog

\* A rapid exchange of single words stays an exchange: both speakers are
\* still heard in a segment of four words or more that alternated.
ExchangeKept ==
    pc = "redaction" /\ call.mono =>
      LET regions == ReduceToTwo(call.regions)
      IN  \A i \in DOMAIN call.segments :
            LET words == Usable(call.segments[i])
                labels == [k \in DOMAIN words |->
                             LabelFor(regions, words[k].start, words[k].end)]
            IN  Len(labels) >= 4 /\ (\A k \in 2 .. Len(labels) :
                                       labels[k] # labels[k - 1])
                  => {p.who : p \in ToSet(PiecesOf(call.segments[i], regions))} = {0, 1}

\* From the diarizer's regions to the dialog nothing that was heard is lost,
\* doubled or moved, and a change of speaker stays one.
DialogIsFaithful == SpeechKept /\ NoWordLost /\ ExchangeKept

\* Who is the banker depends on what is said, not on the diarizer's names or on
\* how often it is asked.
RolesAreStable == NamesAreArbitrary /\ RolesSettle

\* The audio is never less silenced than the text is masked: every word taken
\* out of the text is inside a silence, or its whole turn is when the word has
\* no time.  For what the model of names found this holds only where no other
\* find of the turn overlaps one or began in an earlier turn: such finds are
\* located without a mask of their own and make up for the one not located.
\* For a text that is searched it holds only in turns all of whose words have
\* a time, or none: in part of an answer the audio finds only that part.
AudioCoversText ==
    pc = "features" =>
      \A turns \in {Numbered(dialog.turns)} :
      \A time \in {Spoken(dialog.turns)} :
      \A all \in {call.finds \o NameFinds(call.names)} :
        LET Silent(a, b) == \E k \in DOMAIN silences :
               silences[k][1] <= (IF a < 0 THEN 0 ELSE a) /\ b <= silences[k][2]
            Apart(i) == \A f \in DOMAIN all : Touches(all[f], turns[i]) =>
               /\ all[f][1] >= turns[i].first
               /\ \A g \in DOMAIN all \ {f} : all[f][2] < all[g][1] \/ all[g][2] < all[f][1]
            AllOrNone(i) == turns[i].timed \in {{}, turns[i].first .. turns[i].last}
        IN  \A i \in DOMAIN turns : \A w \in gone[i] :
              \/ w \in call.persons \ ToSet(call.names) /\ ~Apart(i)
              \/ call.text # <<>> /\ ~AllOrNone(i)
              \/ IF w \in turns[i].timed
                   THEN Silent(time[w].start, time[w].end)
                   ELSE Silent(turns[i].start, turns[i].end)

\* What identifies the caller is taken out of the text, however it is said:
\* in groups, in words, across two turns, beside a price, read back, or as an
\* answer of no shape; and what is said around it, and a price, stays.
TextIsMasked ==
    pc = "features" /\ call.text # <<>> =>
      LET masked == UNION {gone[i] : i \in DOMAIN gone}
      IN  call.secret \subseteq masked /\ call.plain \cap masked = {}

\* What the docstring of features.py defines, over all runs of segments.
MonologueOf(own, other) ==
    LET segs == ByStart(own)
        Unbroken(i, j) == \A k \in i + 1 .. j :
          SpeechInWindow(other, segs[k - 1].end, segs[k].start) < MonologueBreak
    IN  Max({0} \cup {Max({segs[k].end : k \in ij[1] .. ij[2]}) - segs[ij[1]].start :
              ij \in {ij \in (DOMAIN segs) \X (DOMAIN segs) :
                        ij[1] <= ij[2] /\ Unbroken(ij[1], ij[2])}})

\* The silent ticks that lie in a long silence between two ticks of speech.
SilenceOf(segs) ==
    LET ticks == Min({s.start : s \in ToSet(segs)}) .. Max({s.end : s \in ToSet(segs)}) - 1
        Quiet(a, b) == \A u \in a .. b : ~Covers(segs, u)
    IN  Cardinality({t \in ticks : \E a, b \in ticks :
          a <= t /\ t <= b /\ b - a + 1 > DeadAirMin /\ Quiet(a, b)})

\* On one channel the two speakers' regions cannot overlap, which is why the
\* interruptions of a mono call are not reported: true of words apart in time.
MonoNeverOverlaps ==
    pc = "done" /\ call.mono =>
      LET words == FlattenSeq([i \in DOMAIN call.segments |->
                                 IF Usable(call.segments[i]) = <<>>
                                 THEN <<call.segments[i]>>
                                 ELSE Usable(call.segments[i])])
          WordsApart == \A i, j \in DOMAIN words :
             i # j => Overlap(words[i], words[j]) = 0
      IN  WordsApart => features.interruptions = <<0, 0>>

\* The monologue and the dead air that were computed in one pass over sorted
\* segments are those of the definitions, with segments inside one another;
\* no wait is longer than the cap, and one channel alone has no interruption.
AsDefined ==
    pc = "done" =>
      LET banker == SpeechSegments("banker")
          customer == SpeechSegments("customer")
      IN  /\ features.monologue = MonologueOf(banker, customer)
          /\ features.deadAir = SilenceOf(banker \o customer)
          /\ features.patience \in -1 .. 2 * PatienceCap

\* The features are what features.py says they are, mono or stereo, with
\* segments inside one another.
FeaturesAsDefined == AsDefined /\ MonoNeverOverlaps

=============================================================================
