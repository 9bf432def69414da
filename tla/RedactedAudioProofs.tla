------------------------ MODULE RedactedAudioProofs ------------------------
(***************************************************************************)
(* Proofs about RedactedAudio, for any number of masks and faults: the     *)
(* types; what is served was made for a transcript that was there; and the *)
(* audio is made again whenever it has to be, unless a run stopped behind  *)
(* its own transcript.                                                     *)
(***************************************************************************)
EXTENDS RedactedAudio, TLAPS

LEMMA Values ==
    /\ Mask \subseteq Nat \ {0}
    /\ None \notin Mask /\ Off \notin Mask /\ Legacy \notin Mask
    /\ None # Off /\ None # Legacy
    /\ 1 \in Mask
BY RedactedAudioAssumption DEF Mask, None, Off, Legacy

(* The sidecar is written when there is a mask to name. *)
Writing ==
    /\ pc \in {"mark", "audio"} => transcript # None
    /\ pc \in {"wav", "sidecar"} => transcript \in Mask

Kept == TypeOK /\ Writing

LEMMA Types == Spec => []Kept
<1>1. Init => Kept
  <2> SUFFICES ASSUME Init
               PROVE  Kept
    OBVIOUS
  <2>1. transcript \in Mask \cup {None, Off} /\ wav \in Mask \cup {None}
        /\ sidecar \in Mask \cup {None, Legacy} /\ row \in BOOLEAN
    BY Values DEF Init
  <2>2. wavNewer \in BOOLEAN /\ made \in BOOLEAN /\ failed \in BOOLEAN
        /\ cut \in BOOLEAN
    BY Zenon DEF Init
  <2>3. QED
    BY <2>1, <2>2, Values, RedactedAudioAssumption DEF Init, Kept, TypeOK, Writing
<1>2. Kept /\ [Next]_vars => Kept'
  <2> SUFFICES ASSUME Kept, [Next]_vars
               PROVE  Kept'
    OBVIOUS
  <2> USE Values, RedactedAudioAssumption
      DEF Kept, TypeOK, Writing, Goto, writer, files, reader
  <2>1. CASE Begin
    <3>1. made' \in BOOLEAN /\ row' \in BOOLEAN /\ failed' \in BOOLEAN
      BY <2>1, Zenon DEF Begin
    <3>2. PICK again \in BOOLEAN : Goto(IF again THEN "redact" ELSE "audio")
      BY <2>1 DEF Begin
    <3>3. pc' \in {"redact", "audio"}
      BY <3>2
    <3>4. pc' = "audio" => transcript # None
      BY <2>1, Zenon DEF Begin
    <3>5. QED
      BY <2>1, <3>1, <3>3, <3>4 DEF Begin
  <2>2. CASE WriteTranscript
    <3>1. PICK m \in Masks \cup {Off} :
            /\ transcript' = m
            /\ top' = IF m > top THEN m ELSE top
            /\ during' = IF req = "none" THEN during ELSE during \cup {m}
      BY <2>2 DEF WriteTranscript
    <3>2. m \in Mask \cup {Off}
      BY <3>1 DEF Masks
    <3>3. top' \in Mask /\ during' \subseteq Mask \cup {None, Off}
      BY <3>1, <3>2 DEF Off
    <3>4. transcript' \in Mask \cup {Off} /\ pc' = "mark" /\ UNCHANGED <<wav, sidecar>>
      BY <2>2, <3>1, <3>2 DEF WriteTranscript
    <3>5. UNCHANGED <<row, made, failed, cut, faults, reader>> /\ wavNewer' \in BOOLEAN
      BY <2>2, Zenon DEF WriteTranscript
    <3>6. QED
      BY <3>3, <3>4, <3>5
  <2>3. CASE MarkRedaction
    BY <2>3 DEF MarkRedaction
  <2>4. CASE LookAtAudio
    <3>1. Remake => transcript # Off
      BY DEF Remake
    <3>2. CASE Remake
      BY <2>4, <3>1, <3>2 DEF LookAtAudio
    <3>3. CASE ~Remake
      BY <2>4, <3>3 DEF LookAtAudio
    <3>4. QED
      BY <3>2, <3>3
  <2>5. CASE WriteWav
    BY <2>5 DEF WriteWav
  <2>6. CASE WriteSidecar
    <3>1. cut' \in BOOLEAN
      BY <2>6, Zenon DEF WriteSidecar
    <3>2. QED
      BY <2>6, <3>1 DEF WriteSidecar
  <2>7. CASE AudioFails
    BY <2>7 DEF AudioFails
  <2>8. CASE DropWav
    <3>1. cut' \in BOOLEAN
      BY <2>8, Zenon DEF DropWav
    <3>2. QED
      BY <2>8, <3>1 DEF DropWav, Fault
  <2>9. CASE DropSidecar
    BY <2>9 DEF DropSidecar, Fault
  <2>10. CASE Finish
    BY <2>10 DEF Finish
  <2>11. CASE Crash
    <3>1. cut' \in BOOLEAN
      <4>1. cut' = (cut \/ Behind)
        BY <2>11 DEF Crash
      <4>2. QED
        BY <4>1
    <3>2. QED
      BY <2>11, <3>1 DEF Crash, Fault
  <2>15. CASE StopEarly
    <3>1. cut' \in BOOLEAN
      <4>1. cut' = (cut \/ (made /\ pc = "audio"))
        BY <2>15 DEF StopEarly
      <4>2. QED
        BY <4>1
    <3>2. QED
      BY <2>15, <3>1 DEF StopEarly
  <2>12. CASE Serve
    <3>1. CASE Ask
      BY <3>1 DEF Ask
    <3>2. CASE ReadSidecar
      BY <3>2 DEF ReadSidecar
    <3>3. CASE Compare
      <4>1. \/ req' = "enabled" /\ UNCHANGED <<car, during>>
            \/ req' = "none" /\ car' = None /\ during' = {}
        BY <3>3, Zenon DEF Compare, Answer
      <4>2. UNCHANGED <<writer, files, top, faults, got>>
        BY <3>3, Zenon DEF Compare
      <4>3. car' \in Mask \cup {None, Legacy}
        BY <4>1
      <4>4. during' \subseteq Mask \cup {None, Off}
        BY <4>1
      <4>5. QED
        BY <4>1, <4>2, <4>3, <4>4
    <3>4. CASE CheckEnabled
      <4>1. \/ req' = "send" /\ UNCHANGED <<car, during>>
            \/ req' = "none" /\ car' = None /\ during' = {}
        BY <3>4, Zenon DEF CheckEnabled, Answer
      <4>2. UNCHANGED <<writer, files, top, faults, got>>
        BY <3>4, Zenon DEF CheckEnabled
      <4>3. car' \in Mask \cup {None, Legacy}
        BY <4>1
      <4>4. during' \subseteq Mask \cup {None, Off}
        BY <4>1
      <4>5. QED
        BY <4>1, <4>2, <4>3, <4>4
    <3>5. CASE Send
      BY <3>5 DEF Send
    <3>6. QED
      BY <2>12, <3>1, <3>2, <3>3, <3>4, <3>5 DEF Serve
  <2>13. CASE UNCHANGED vars
    BY <2>13 DEF vars
  <2>14. QED
    BY <2>1, <2>2, <2>3, <2>4, <2>5, <2>6, <2>7, <2>8, <2>9, <2>10, <2>11,
       <2>12, <2>13, <2>15 DEF Next, Process
<1>3. QED
  BY <1>1, <1>2, PTL DEF Spec

(* The state keeps its types, for any number of masks and faults. *)
THEOREM Typing == Spec => []TypeOK
BY Types, PTL DEF Kept

-----------------------------------------------------------------------------
(* What is served.                                                         *)
(*                                                                         *)
(* While masks do not come back, the transcript has the newest mask (or    *)
(* none), so a sidecar that matches it names the newest; and a sidecar     *)
(* names the newest only when the WAV was put in place for it before.      *)
(* From the moment a request has compared them until it reads the WAV,     *)
(* a WAV that replaces the one it saw was made for a transcript of that    *)
(* time.                                                                   *)

Paired ==
    /\ transcript \in {top, Off, None}
    /\ sidecar \in Mask => sidecar <= top
    /\ sidecar = top => wav \in {top, None}
    /\ wavNewer /\ wav # None => wav = transcript
    /\ pc = "sidecar" => wav = top

Asked ==
    /\ req # "none" => transcript \in during /\ got = None
    /\ car \in Mask => car <= top
    /\ req = "compare" /\ car = top => wav \in {top, None}
    /\ req \in {"enabled", "send"} => wav \in during \cup {None}

Fresh == Paired /\ Asked /\ ServedWasCurrent

LEMMA Order ==
    /\ \A m \in Mask : m \in Int /\ m > 0
    /\ None = 0 /\ Off = -1 /\ Legacy = -2
BY RedactedAudioAssumption DEF Mask, None, Off, Legacy

LEMMA ProcessPaired ==
    ASSUME Kept, Paired, Process \/ Crash, ~Revert
    PROVE  Paired'
<1> USE Order, Values DEF Kept, TypeOK, Writing, Paired, Goto
<1>1. CASE WriteTranscript
  <2>1. PICK m \in Masks \cup {Off} :
          transcript' = m /\ top' = IF m > top THEN m ELSE top
    BY <1>1 DEF WriteTranscript
  <2>2. m = top \/ (m = top + 1 /\ m \in Mask) \/ m = Off
    BY <2>1 DEF Masks
  <2>3. transcript' \in {top', Off} /\ top' \in {top, top + 1}
    BY <2>1, <2>2
  <2>4. ~wavNewer' /\ pc' = "mark" /\ UNCHANGED <<wav, sidecar>>
    BY <1>1 DEF WriteTranscript
  <2>5. sidecar \in Mask => sidecar <= top'
    BY <2>3
  <2>6. sidecar = top' => wav \in {top', None}
    BY <2>3
  <2>7. QED
    BY <2>3, <2>4, <2>5, <2>6
<1>2. CASE WriteWav
  BY <1>2 DEF WriteWav
<1>3. CASE WriteSidecar
  BY <1>3 DEF WriteSidecar
<1>4. CASE DropWav \/ DropSidecar
  BY <1>4 DEF DropWav, DropSidecar
<1>5. CASE Begin \/ MarkRedaction \/ LookAtAudio \/ AudioFails \/ Finish
           \/ StopEarly \/ Crash
  <2>1. UNCHANGED <<transcript, wav, sidecar, wavNewer, top>>
    BY <1>5 DEF Begin, MarkRedaction, LookAtAudio, AudioFails, Finish, StopEarly,
                Crash, files
  <2>2. pc' # "sidecar"
    BY <1>5 DEF Begin, MarkRedaction, LookAtAudio, AudioFails, Finish, StopEarly, Crash
  <2>3. QED
    BY <2>1, <2>2
<1>6. QED
  BY <1>1, <1>2, <1>3, <1>4, <1>5 DEF Process

LEMMA ProcessAsked ==
    ASSUME Kept, Paired, Asked, ServedWasCurrent, Process \/ Crash, ~Revert
    PROVE  Asked' /\ ServedWasCurrent'
<1> USE Order, Values DEF Kept, TypeOK, Writing, Paired, Asked, ServedWasCurrent
<1>1. CASE WriteTranscript
  <2>1. PICK m \in Masks \cup {Off} :
          /\ transcript' = m /\ top' = IF m > top THEN m ELSE top
          /\ during' = IF req = "none" THEN during ELSE during \cup {m}
    BY <1>1 DEF WriteTranscript
  <2>2. m = top \/ (m = top + 1 /\ m \in Mask) \/ m = Off
    BY <2>1 DEF Masks
  <2>3. top' \in {top, top + 1}
    BY <2>1, <2>2
  <2>4. UNCHANGED <<wav, req, car, got>>
    BY <1>1 DEF WriteTranscript, reader
  <2>5. during \subseteq during'
    BY <2>1
  <2>6. car \in Mask => car <= top'
    BY <2>3
  <2>7. car = top' => car = top /\ top' = top
    BY <2>3
  <2>8. req # "none" => transcript' \in during'
    BY <2>1
  <2>9. QED
    BY <2>4, <2>5, <2>6, <2>7, <2>8
<1>2. CASE WriteWav
  <2>1. wav' = transcript /\ transcript = top
        /\ UNCHANGED <<transcript, top, req, car, got, during>>
    BY <1>2 DEF WriteWav, reader
  <2>2. QED
    BY <2>1
<1>3. CASE DropWav
  <2>1. wav' \in {wav, None} /\ UNCHANGED <<transcript, top, req, car, got, during>>
    BY <1>3 DEF DropWav, reader
  <2>2. QED
    BY <2>1
<1>4. CASE Begin \/ MarkRedaction \/ LookAtAudio \/ WriteSidecar \/ AudioFails
           \/ DropSidecar \/ Finish \/ StopEarly \/ Crash
  <2>1. UNCHANGED <<transcript, wav, top, req, car, got, during>>
    BY <1>4 DEF Begin, MarkRedaction, LookAtAudio, WriteSidecar, AudioFails,
                DropSidecar, Finish, StopEarly, Crash, files, reader
  <2>2. QED
    BY <2>1
<1>5. QED
  BY <1>1, <1>2, <1>3, <1>4 DEF Process

LEMMA ServeFresh ==
    ASSUME Kept, Fresh, Serve
    PROVE  Fresh'
<1> USE Order, Values DEF Kept, TypeOK, Fresh, Paired, Asked, ServedWasCurrent,
                          writer, files
<1>1. CASE Ask
  BY <1>1 DEF Ask
<1>2. CASE ReadSidecar
  BY <1>2 DEF ReadSidecar
<1>3. CASE Compare
  <2>1. req = "compare" /\ UNCHANGED <<writer, files, top, got>>
    BY <1>3, Zenon DEF Compare
  <2>2. CASE Current
    <3>1. req' = "enabled" /\ UNCHANGED <<car, during>>
      BY <1>3, <2>2, Zenon DEF Compare
    <3>2. wav # None /\ (car \in Mask => car = transcript)
          /\ (car \notin Mask => wavNewer)
      BY <2>2 DEF Current
    <3>3. wav = transcript
      <4>1. CASE car \in Mask
        <5>1. car = transcript /\ transcript = top
          BY <3>2, <4>1
        <5>2. QED
          BY <2>1, <3>2, <5>1
      <4>2. CASE car \notin Mask
        BY <3>2, <4>2
      <4>3. QED
        BY <4>1, <4>2
    <3>4. QED
      BY <2>1, <3>1, <3>3
  <2>3. CASE ~Current
    <3>1. req' = "none" /\ car' = None
      BY <1>3, <2>3, Zenon DEF Compare, Answer
    <3>2. QED
      BY <2>1, <3>1
  <2>4. QED
    BY <2>2, <2>3
<1>4. CASE CheckEnabled
  <2>1. req = "enabled" /\ UNCHANGED <<writer, files, top, got>>
    BY <1>4, Zenon DEF CheckEnabled
  <2>2. \/ req' = "send" /\ UNCHANGED <<car, during>>
        \/ req' = "none" /\ car' = None
    BY <1>4, Zenon DEF CheckEnabled, Answer
  <2>3. QED
    BY <2>1, <2>2
<1>5. CASE Send
  BY <1>5 DEF Send
<1>6. QED
  BY <1>1, <1>2, <1>3, <1>4, <1>5 DEF Serve

(* Masks that are not used again: however the run, its crashes, the files   *)
(* that do not go away and the request interleave, audio is only served     *)
(* that is silenced for a transcript there was meanwhile.                   *)
THEOREM ServingIsFresh == ~Revert => (Spec => []ServedWasCurrent)
<1> SUFFICES ASSUME ~Revert
             PROVE  Spec => []ServedWasCurrent
  OBVIOUS
<1>1. Init => Fresh
  BY Order, Values DEF Init, Fresh, Paired, Asked, ServedWasCurrent
<1>2. Kept /\ Fresh /\ [Next]_vars => Fresh'
  <2> SUFFICES ASSUME Kept, Fresh, [Next]_vars
               PROVE  Fresh'
    OBVIOUS
  <2>1. CASE Process \/ Crash
    BY <2>1, ProcessPaired, ProcessAsked DEF Fresh
  <2>2. CASE Serve
    BY <2>2, ServeFresh
  <2>3. CASE UNCHANGED vars
    BY <2>3 DEF vars, writer, files, reader, Fresh, Paired, Asked, ServedWasCurrent
  <2>4. QED
    BY <2>1, <2>2, <2>3 DEF Next
<1>3. Fresh => ServedWasCurrent
  BY DEF Fresh
<1>4. QED
  BY <1>1, <1>2, <1>3, Types, PTL DEF Spec

-----------------------------------------------------------------------------
(* Making it again.                                                        *)
(*                                                                         *)
(* As long as no run stopped behind its transcript: between runs, and while *)
(* one has changed nothing yet, the audio of an enabled transcript is       *)
(* complete and its own, or visibly not there.  What the next run looks at  *)
(* is then enough to tell whether there is something left to make.          *)

OfTranscript == wav = transcript /\ sidecar \in {transcript, Legacy}

Visible == transcript \notin {Off, None}
             => wav = None \/ sidecar = None \/ OfTranscript

(* What a run knows of itself, whatever happened before it. *)
Course ==
    /\ pc \in {"redact", "mark"} => made
    /\ pc = "sidecar" => wav = transcript
    /\ pc \in {"dropwav", "dropcar"} => failed
    /\ pc \in {"redact", "mark", "audio", "wav", "sidecar"} => ~failed

Remade ==
    /\ pc \in {"idle", "redact"} \/ (pc \in {"audio", "wav"} /\ ~made) => Visible
    /\ pc = "wav" /\ ~made => wav = None \/ sidecar = None
    /\ pc = "dropcar" => wav = None
    /\ pc = "past" /\ failed => wav = None
    /\ pc = "past" /\ ~failed => transcript = Off \/ OfTranscript

RemadeUnlessCut == Course /\ (~cut => Remade)

LEMMA ProcessCourse ==
    ASSUME Kept, Course, Process \/ Crash
    PROVE  Course'
<1> USE DEF Kept, TypeOK, Course, Goto
<1>1. CASE Begin
  <2>1. PICK again \in BOOLEAN :
          made' = again /\ pc' = IF again THEN "redact" ELSE "audio"
    BY <1>1 DEF Begin
  <2>2. ~failed'
    BY <1>1 DEF Begin
  <2>3. QED
    BY <2>1, <2>2
<1>2. CASE WriteTranscript \/ MarkRedaction
  BY <1>2 DEF WriteTranscript, MarkRedaction
<1>3. CASE LookAtAudio
  <2>1. pc' \in {"wav", "past"} /\ UNCHANGED failed /\ pc = "audio"
    BY <1>3 DEF LookAtAudio
  <2>2. QED
    BY <2>1
<1>4. CASE WriteWav \/ WriteSidecar
  BY <1>4 DEF WriteWav, WriteSidecar
<1>5. CASE AudioFails \/ DropWav \/ DropSidecar
  BY <1>5 DEF AudioFails, DropWav, DropSidecar
<1>6. CASE Finish \/ StopEarly \/ Crash
  BY <1>6 DEF Finish, StopEarly, Crash
<1>7. QED
  BY <1>1, <1>2, <1>3, <1>4, <1>5, <1>6 DEF Process

LEMMA ProcessRemade ==
    ASSUME Kept, Course, ~cut => Remade, Process \/ Crash, ~cut'
    PROVE  Remade'
<1> USE Order, Values
    DEF Kept, TypeOK, Writing, Course, Remade, Visible, OfTranscript, Goto
<1>1. CASE Begin
  <2>1. PICK again \in BOOLEAN :
          made' = again /\ pc' = IF again THEN "redact" ELSE "audio"
    BY <1>1 DEF Begin
  <2>2. UNCHANGED <<cut, transcript, wav, sidecar>> /\ pc = "idle"
    BY <1>1 DEF Begin
  <2>3. Visible'
    BY <2>2
  <2>4. pc' \in {"redact", "audio"}
    BY <2>1
  <2>5. QED
    BY <2>3, <2>4
<1>2. CASE WriteTranscript
  BY <1>2 DEF WriteTranscript
<1>3. CASE MarkRedaction
  BY <1>3 DEF MarkRedaction
<1>4. CASE LookAtAudio
  <2>1. pc = "audio" /\ UNCHANGED <<cut, transcript, wav, sidecar, made, failed>>
    BY <1>4 DEF LookAtAudio, files
  <2>2. CASE Remake
    <3>1. pc' = "wav"
      BY <1>4, <2>2 DEF LookAtAudio
    <3>2. ~made => wav = None \/ sidecar = None
      BY <2>2 DEF Remake
    <3>3. QED
      BY <2>1, <3>1, <3>2
  <2>3. CASE ~Remake
    <3>1. pc' = "past"
      BY <1>4, <2>3 DEF LookAtAudio
    <3>2. transcript = Off \/ (~made /\ wav # None /\ sidecar # None)
      BY <2>3 DEF Remake
    <3>3. QED
      BY <2>1, <3>1, <3>2
  <2>4. QED
    BY <2>2, <2>3
<1>5. CASE WriteWav
  BY <1>5 DEF WriteWav
<1>6. CASE WriteSidecar
  BY <1>6 DEF WriteSidecar
<1>7. CASE AudioFails
  BY <1>7 DEF AudioFails, files
<1>8. CASE DropWav
  BY <1>8 DEF DropWav
<1>9. CASE DropSidecar
  BY <1>9 DEF DropSidecar
<1>10. CASE Finish
  BY <1>10 DEF Finish, files
<1>11. CASE StopEarly
  <2>1. ~cut /\ (pc = "redact" \/ (pc = "audio" /\ ~made))
    BY <1>11 DEF StopEarly
  <2>2. UNCHANGED <<transcript, wav, sidecar>> /\ pc' = "idle"
    BY <1>11 DEF StopEarly, files
  <2>3. QED
    BY <2>1, <2>2
<1>12. CASE Crash
  <2>1. ~cut /\ ~Behind
    BY <1>12 DEF Crash
  <2>2. UNCHANGED <<transcript, wav, sidecar>> /\ pc' = "idle" /\ pc # "idle"
    BY <1>12 DEF Crash, files
  <2>3. \/ pc = "redact"
        \/ pc \in {"audio", "wav"} /\ ~made
        \/ pc \in {"dropcar", "past"}
    BY <2>1, <2>2 DEF Behind
  <2>4. Visible
    BY <2>1, <2>3
  <2>5. QED
    BY <2>2, <2>4
<1>13. QED
  BY <1>1, <1>2, <1>3, <1>4, <1>5, <1>6, <1>7, <1>8, <1>9, <1>10, <1>11, <1>12
     DEF Process

(* Unless an earlier run stopped behind its own transcript, a run that is   *)
(* past the audio leaves the audio of its transcript, or making it failed;  *)
(* crashes and early stops elsewhere, and audio that could not be made, are *)
(* made good by the next run.                                               *)
THEOREM AudioFollowsTranscript == Spec => []AudioIsRemade
<1>1. Init => RemadeUnlessCut
  BY DEF Init, RemadeUnlessCut, Course, Remade, Visible, OfTranscript
<1>2. Kept /\ RemadeUnlessCut /\ [Next]_vars => RemadeUnlessCut'
  <2> SUFFICES ASSUME Kept, RemadeUnlessCut, [Next]_vars
               PROVE  RemadeUnlessCut'
    OBVIOUS
  <2>1. CASE Process \/ Crash
    <3>1. Course'
      BY <2>1, ProcessCourse DEF RemadeUnlessCut
    <3>2. ~cut' => Remade'
      BY <2>1, ProcessRemade DEF RemadeUnlessCut
    <3>3. QED
      BY <3>1, <3>2 DEF RemadeUnlessCut
  <2>2. CASE Serve \/ UNCHANGED vars
    <3>1. UNCHANGED <<writer, files>>
      BY <2>2 DEF Serve, Ask, ReadSidecar, Compare, CheckEnabled, Send, vars
    <3>2. QED
      BY <3>1 DEF RemadeUnlessCut, Course, Remade, Visible, OfTranscript, writer, files
  <2>3. QED
    BY <2>1, <2>2 DEF Next
<1>3. RemadeUnlessCut => AudioIsRemade
  BY DEF RemadeUnlessCut, Remade, AudioIsRemade, AudioIsOfTranscript, OfTranscript
<1>4. QED
  BY <1>1, <1>2, <1>3, Types, PTL DEF Spec
=============================================================================
