--------------------------- MODULE RedactedAudio ---------------------------
(***************************************************************************)
(* The silenced copy of a recording.  process_call writes the redacted     *)
(* transcript, then a WAV silenced where that transcript is masked, then a *)
(* sidecar that names the mask the WAV was made for (pipeline.py,          *)
(* audio_redaction.py); the dashboard plays the WAV while the sidecar      *)
(* matches the transcript (dashboard/server.py).  Writer and reader share  *)
(* three files and nothing else, so every file operation is a step.        *)
(*                                                                         *)
(* A mask is a number: transcripts with the same masks have the same       *)
(* fingerprint, and nothing else of their contents matters here.  One      *)
(* process at a time works on the call (CallLock).                         *)
(*                                                                         *)
(* A run may stop anywhere: a crash, and also a caller that wants only the *)
(* first stages (stop_after), whose last stop is after the redaction and   *)
(* before the audio.  cut remembers that one ended so, and decides nothing. *)
(*                                                                         *)
(* OnlyIfMissing and AnyPair are no part of the specification: each is the *)
(* definition after it with a fault in it, and the properties are checked  *)
(* to notice the difference.                                               *)
(***************************************************************************)
EXTENDS Integers

CONSTANTS
    MaxMask,     \* masks 1..MaxMask may occur
    Revert,      \* TRUE: rules may go back to masks used before
    MaxFault     \* crashes, and files that cannot be deleted

ASSUME RedactedAudioAssumption ==
    /\ MaxMask \in Nat \ {0}
    /\ Revert \in BOOLEAN
    /\ MaxFault \in Nat

Mask == 1..MaxMask
None == 0               \* no such file
Off == -1               \* a transcript written with redaction disabled
Legacy == -2            \* a sidecar of an older version: no mask_sha256

VARIABLES
    transcript,  \* the mask of redacted/<id>.json
    wav,         \* the mask silenced in redacted_audio/<id>.wav
    sidecar,     \* the mask named by redacted_audio/<id>.json
    wavNewer,    \* the WAV's mtime is not before the transcript's
    row,         \* 'redaction' recorded done
    pc, made,    \* where the run is; redaction_recomputed
    failed,      \* this run could not produce the audio
    cut,         \* a run stopped short with the audio left behind its transcript
    top,         \* the newest mask so far
    faults,
    req, car,    \* where a request for the audio is; the sidecar it read
    during,      \* the transcripts there were since it came in
    got          \* the WAV it was answered with

writer == <<pc, made, failed, cut>>
files == <<transcript, wav, sidecar, wavNewer, row>>
reader == <<req, car, got>>
vars == <<writer, files, top, faults, reader, during>>

TypeOK ==
    /\ transcript \in Mask \cup {None, Off}
    /\ wav \in Mask \cup {None}
    /\ sidecar \in Mask \cup {None, Legacy}
    /\ wavNewer \in BOOLEAN
    /\ row \in BOOLEAN
    /\ pc \in {"idle", "redact", "mark", "audio", "wav", "sidecar",
               "dropwav", "dropcar", "past"}
    /\ made \in BOOLEAN
    /\ failed \in BOOLEAN
    /\ cut \in BOOLEAN
    /\ top \in Mask
    /\ faults \in 0..MaxFault
    /\ req \in {"none", "meta", "compare", "enabled", "send"}
    /\ car \in Mask \cup {None, Legacy}
    /\ during \subseteq Mask \cup {None, Off}
    /\ got \in Mask \cup {None}

(* A call never processed, or one processed by a version that did not name  *)
(* the mask.                                                                *)
Init ==
    /\ \/ transcript = None /\ wav = None /\ sidecar = None /\ row = FALSE
       \/ transcript = 1 /\ wav = 1 /\ sidecar = Legacy /\ row = TRUE
    /\ wavNewer = TRUE
    /\ pc = "idle" /\ made = FALSE /\ failed = FALSE /\ cut = FALSE
    /\ top = 1 /\ faults = 0
    /\ req = "none" /\ car = None /\ during = {} /\ got = None

Goto(label) == pc' = label
Fault == faults < MaxFault /\ faults' = faults + 1

-----------------------------------------------------------------------------
(* process_call, from redaction to the audio. *)

(* The redaction is made again when it is not recorded, after an earlier    *)
(* stage was recomputed (the row stays) or with force (it is cleared).      *)
Begin ==
    /\ pc = "idle"
    /\ \E again \in BOOLEAN :
         /\ ~row \/ transcript = None => again
         /\ made' = again
         /\ \/ UNCHANGED row
            \/ again /\ row' = FALSE
         /\ Goto(IF again THEN "redact" ELSE "audio")
    /\ failed' = FALSE
    /\ UNCHANGED <<cut, transcript, wav, sidecar, wavNewer, top, faults, reader, during>>

(* The masks the present rules, models and transcription may give.          *)
Masks == IF Revert THEN Mask ELSE {top, top + 1} \cap Mask

WriteTranscript ==
    /\ pc = "redact"
    /\ \E m \in Masks \cup {Off} :
         /\ transcript' = m
         /\ top' = IF m > top THEN m ELSE top
         /\ during' = IF req = "none" THEN during ELSE during \cup {m}
    /\ wavNewer' = FALSE
    /\ Goto("mark")
    /\ UNCHANGED <<wav, sidecar, row, made, failed, cut, faults, reader>>

MarkRedaction ==
    /\ pc = "mark"
    /\ row' = TRUE
    /\ Goto("audio")
    /\ UNCHANGED <<transcript, wav, sidecar, wavNewer, made, failed, cut, top,
                   faults, reader, during>>

(* "Regenerate when the mask was recomputed, or when either artifact is     *)
(* missing"; no audio when redaction is disabled.                           *)
OnlyIfMissing == transcript # Off /\ (wav = None \/ sidecar = None)
Remake == transcript # Off /\ (made \/ wav = None \/ sidecar = None)

LookAtAudio ==
    /\ pc = "audio"
    /\ Goto(IF Remake THEN "wav" ELSE "past")
    /\ UNCHANGED <<files, made, failed, cut, top, faults, reader, during>>

(* produce_redacted_audio: the WAV first, the sidecar after it, each put in *)
(* place by a rename.  The fingerprint was taken of the transcript on disk. *)
WriteWav ==
    /\ pc = "wav"
    /\ wav' = transcript
    /\ wavNewer' = TRUE
    /\ Goto("sidecar")
    /\ UNCHANGED <<transcript, sidecar, row, made, failed, cut, top, faults,
                   reader, during>>

WriteSidecar ==
    /\ pc = "sidecar"
    /\ sidecar' = transcript
    /\ cut' = FALSE
    /\ Goto("past")
    /\ UNCHANGED <<transcript, wav, wavNewer, row, made, failed, top, faults,
                   reader, during>>

(* Either of them raises: both files go, the WAV first. *)
AudioFails ==
    /\ pc \in {"wav", "sidecar"}
    /\ failed' = TRUE
    /\ Goto("dropwav")
    /\ UNCHANGED <<files, made, cut, top, faults, reader, during>>

DropWav ==
    /\ pc = "dropwav"
    /\ \/ wav' = None /\ cut' = FALSE /\ UNCHANGED faults
       \/ Fault /\ cut' = TRUE /\ UNCHANGED wav    \* held open by another program
    /\ Goto("dropcar")
    /\ UNCHANGED <<transcript, sidecar, wavNewer, row, made, failed, top,
                   reader, during>>

DropSidecar ==
    /\ pc = "dropcar"
    /\ \/ sidecar' = None /\ UNCHANGED faults
       \/ Fault /\ UNCHANGED sidecar
    /\ Goto("past")
    /\ UNCHANGED <<transcript, wav, wavNewer, row, made, failed, cut, top,
                   reader, during>>

(* The later stages, which leave these files alone. *)
Finish ==
    /\ pc = "past"
    /\ Goto("idle")
    /\ UNCHANGED <<files, made, failed, cut, top, faults, reader, during>>

(* stop_after: a run that was to end before the redaction, or with it (the  *)
(* return between the redaction and the audio; journey process ends there). *)
StopEarly ==
    /\ pc \in {"redact", "audio"}
    /\ cut' = (cut \/ (made /\ pc = "audio"))
    /\ Goto("idle")
    /\ UNCHANGED <<files, made, failed, top, faults, reader, during>>

(* What a run leaves undone for good when it dies: the transcript is new and *)
(* the audio is not, or the WAV is and its sidecar is not, or a WAV that was *)
(* to be deleted is there.  A run that had only found a file missing leaves  *)
(* the next one the same to find.                                           *)
Behind == \/ made /\ pc \in {"mark", "audio", "wav"}
          \/ pc \in {"sidecar", "dropwav"}

Crash ==
    /\ pc # "idle"
    /\ Fault
    /\ cut' = (cut \/ Behind)
    /\ Goto("idle")
    /\ UNCHANGED <<files, made, failed, top, reader, during>>

-----------------------------------------------------------------------------
(* GET /api/audio/<id>. *)

Answer == req' = "none" /\ car' = None /\ during' = {}

(* A request for a WAV that is there. *)
Ask ==
    /\ req = "none"
    /\ wav # None
    /\ req' = "meta"
    /\ during' = {transcript}
    /\ got' = None
    /\ UNCHANGED <<writer, files, top, faults, car>>

(* _audio_is_current: the sidecar, then the WAV and the transcript. *)
ReadSidecar ==
    /\ req = "meta"
    /\ car' = sidecar
    /\ req' = "compare"
    /\ UNCHANGED <<writer, files, top, faults, during, got>>

(* By content; by time for a sidecar that names no mask, or none.           *)
AnyPair == wav # None
Current == /\ wav # None
           /\ IF car \in Mask THEN car = transcript
                              ELSE wavNewer /\ transcript # None

Compare ==
    /\ req = "compare"
    /\ IF Current THEN req' = "enabled" /\ UNCHANGED <<car, during>> ELSE Answer
    /\ UNCHANGED <<writer, files, top, faults, got>>

CheckEnabled ==
    /\ req = "enabled"
    /\ IF transcript = Off THEN Answer ELSE req' = "send" /\ UNCHANGED <<car, during>>
    /\ UNCHANGED <<writer, files, top, faults, got>>

Send ==
    /\ req = "send"
    /\ got' = wav
    /\ req' = "none" /\ car' = None
    /\ UNCHANGED <<writer, files, top, faults, during>>

Process ==
    \/ Begin \/ WriteTranscript \/ MarkRedaction \/ LookAtAudio
    \/ WriteWav \/ WriteSidecar \/ AudioFails \/ DropWav \/ DropSidecar
    \/ Finish \/ StopEarly

Serve == Ask \/ ReadSidecar \/ Compare \/ CheckEnabled \/ Send

Next == Process \/ Crash \/ Serve

Spec == Init /\ [][Next]_vars

-----------------------------------------------------------------------------
(* Properties. *)

(* The audio a request is answered with is silenced for a transcript that   *)
(* was there while the request was being answered: "An older WAV may leave  *)
(* audible an identifier the new mask covers, so it is never served"        *)
(* (dashboard/server.py:271-272).  A crash may come between any two of the  *)
(* three files and a file may refuse to go away.                            *)
ServedWasCurrent == got # None => got \in during

(* A run that is past the audio leaves the audio of its transcript, unless  *)
(* making it failed: "Regenerate when the mask was recomputed (else a       *)
(* --force / cascade rewrite of the transcript would leave stale audio that *)
(* silences the OLD mask - a leak), or when either artifact is missing (a   *)
(* first run on this feature, or a crash between the WAV and its sidecar)"  *)
(* (pipeline.py:471-474).                                                   *)
AudioIsOfTranscript ==
    pc = "past" /\ ~failed /\ transcript # Off
        => wav = transcript /\ sidecar \in {transcript, Legacy}

(* That is so unless an earlier run stopped behind its own transcript, by   *)
(* a crash or because it was told to stop with the redaction: then the next *)
(* one finds the transcript done and both files there, and only a run that  *)
(* makes the transcript or the audio again mends it.  Crashes and stops     *)
(* anywhere else, and audio that failed and was deleted, are made good.     *)
AudioIsRemade == ~cut => AudioIsOfTranscript
=============================================================================
