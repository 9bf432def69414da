------------------------------- MODULE Watch -------------------------------
(***************************************************************************)
(* watch_loop of src/callqa/cli.py: the driver that finds recordings in    *)
(* input/calls/, waits until nobody writes them any more, has each         *)
(* processed, and moves it to input/processed/ or input/failed/.           *)
(*                                                                         *)
(* Around it: a recorder that writes files piece by piece and may use a    *)
(* name again, and other processes that work on the same calls and, when   *)
(* they are watch loops too, move files.  A call is named after its file;  *)
(* process_call is seen from outside: it takes the call's lock, or is      *)
(* refused, and, run without --force, works on what the call's stages were *)
(* made from first (CallLock, Pipeline).                                   *)
(*                                                                         *)
(* Time is kept as ages: how long ago something was.  unchanged_since and  *)
(* `now` are instants of the same clock, read at different moments.        *)
(*                                                                         *)
(* SinceLooked, AnySize, Quarantine, AlwaysProcessed and OverEarlier are   *)
(* no part of the specification: each is the definition after it with a    *)
(* fault in it, and the properties are checked to notice the difference.   *)
(***************************************************************************)
EXTENDS Integers, FiniteSetsExt

CONSTANTS
    Recording,   \* what the recorder makes
    Name,        \* file names, in the order the loop takes them: 1..n
    Pieces,      \* a file is written in at most so many pieces more
    Poll,        \* poll_seconds, in ticks
    Stable,      \* stable_seconds
    Settle,      \* the second that _size_settled waits
    MaxCycle,    \* how long one pass may last, the waits of _size_settled apart
    MaxFault,    \* moves that fail, and calls taken by others
    NoFile       \* there is none

ASSUME WatchAssumption ==
    /\ Name \subseteq Nat /\ IsFiniteSet(Name)
    /\ {Pieces, Stable, MaxCycle, MaxFault} \subseteq Nat
    /\ {Poll, Settle} \subseteq Nat \ {0}
    /\ NoFile \notin Recording

Folder == {"processed", "failed"}
NowCap == MaxCycle + Cardinality(Name) * Settle
SinceCap == Stable + NowCap

VARIABLES
    nameOf,    \* the name the recorder will give a recording
    file,      \* input/calls/: the recording under each name
    place,     \* where each recording is
    left,      \* pieces of it still to be written
    old,       \* its mtime is that of the source, not of the last write
    quiet,     \* how long ago the last piece was written
    plain,     \* folder and name: the recording moved there under that name
    stamped,   \* the one moved there as name.<second> within this second
    lock,      \* the call's lock: who has it
    built,     \* the recording the call's first stages were made from
    pc, todo,  \* where the loop is; the names left in this pass
    now,       \* how long ago `now` was read
    slept,     \* how long time.sleep has lasted
    sizes,     \* name: pieces left when last looked at, and unchanged_since
    status,    \* of the call just processed: the folder it goes to
    target,    \* "plain" or "stamped"
    tried,     \* recordings that process_call has been run on
    meddled,   \* another process has moved a file
    faults

recorder == <<nameOf, place, left, old, quiet>>
folders == <<plain, stamped>>
calls == <<lock, built, tried>>
env == <<meddled, faults>>
loop == <<pc, todo, now, slept, sizes, status, target>>
vars == <<file, recorder, folders, calls, loop, env>>

Place == {"coming", "calls", "lost"} \cup Folder
Entry == [left : 0..Pieces, since : 0..SinceCap]

TypeOK ==
    /\ nameOf \in [Recording -> Name]
    /\ file \in [Name -> Recording \cup {NoFile}]
    /\ place \in [Recording -> Place]
    /\ left \in [Recording -> 0..Pieces]
    /\ old \in [Recording -> BOOLEAN]
    /\ quiet \in [Recording -> 0..Stable]
    /\ plain \in [Folder \X Name -> Recording \cup {NoFile}]
    /\ stamped \in [Folder \X Name -> Recording \cup {NoFile}]
    /\ lock \in [Name -> {"free", "loop", "other"}]
    /\ built \in [Name -> Recording \cup {NoFile}]
    /\ pc \in {"sleep", "scan", "settle", "process", "pick", "move"}
    /\ todo \subseteq Name
    /\ now \in 0..NowCap
    /\ slept \in 0..(Poll + Settle)
    /\ \A n \in Name : sizes[n] = NoFile \/ sizes[n] \in Entry
    /\ status \in Folder
    /\ target \in {"plain", "stamped"}
    /\ tried \subseteq Recording
    /\ meddled \in BOOLEAN
    /\ faults \in 0..MaxFault

Init ==
    /\ nameOf \in [Recording -> Name]
    /\ file = [n \in Name |-> NoFile]
    /\ place = [r \in Recording |-> "coming"]
    /\ left = [r \in Recording |-> 0]
    /\ old = [r \in Recording |-> FALSE]
    /\ quiet = [r \in Recording |-> 0]
    /\ plain = [t \in Folder \X Name |-> NoFile]
    /\ stamped = [t \in Folder \X Name |-> NoFile]
    /\ lock = [n \in Name |-> "free"]
    /\ built = [n \in Name |-> NoFile]
    /\ pc = "sleep" /\ todo = {} /\ now = 0 /\ slept = 0
    /\ sizes = [n \in Name |-> NoFile]
    /\ status = "processed" /\ target = "plain"
    /\ tried = {} /\ meddled = FALSE /\ faults = 0

Fault == faults < MaxFault /\ faults' = faults + 1
AtMost(a, cap) == IF a < cap THEN a ELSE cap

-----------------------------------------------------------------------------
(* The recorder. *)

(* A file appears, under a name that is free, with any part of it written;  *)
(* copied with or without the mtime of its source.                          *)
Arrive(r) ==
    /\ place[r] = "coming"
    /\ file[nameOf[r]] = NoFile
    /\ file' = [file EXCEPT ![nameOf[r]] = r]
    /\ place' = [place EXCEPT ![r] = "calls"]
    /\ \E k \in 0..Pieces : left' = [left EXCEPT ![r] = k]
    /\ \E o \in BOOLEAN : old' = [old EXCEPT ![r] = o]
    /\ quiet' = [quiet EXCEPT ![r] = 0]
    /\ UNCHANGED <<nameOf, folders, calls, loop, env>>

Append(r) ==
    /\ place[r] = "calls" /\ left[r] > 0
    /\ left' = [left EXCEPT ![r] = @ - 1]
    /\ quiet' = [quiet EXCEPT ![r] = 0]
    /\ UNCHANGED <<file, nameOf, place, old, folders, calls, loop, env>>

-----------------------------------------------------------------------------
(* The loop. *)

here == Min(todo)           \* the name the loop is at, in order
rec == file[here]
Goto(label) == pc' = label

(* time.time() - st_mtime. *)
MtimeAge == IF old[rec] THEN Stable ELSE quiet[rec]

(* now - age: unchanged_since at the first sighting.                        *)
(* How long ago unchanged_since was when `now` was read, which may be some  *)
(* files and their processing ago.                                          *)
SinceLooked == now - sizes[here].since
Unchanged == sizes[here].since - now

NewPass ==
    /\ pc = "sleep" /\ slept >= Poll
    /\ now' = 0 /\ slept' = 0
    /\ todo' = {n \in Name : file[n] # NoFile}
    /\ Goto(IF todo' = {} THEN "sleep" ELSE "scan")
    /\ UNCHANGED <<file, recorder, folders, calls, sizes, status, target, env>>

(* `continue`: the next file, or the end of the pass. *)
Continue ==
    /\ todo' = todo \ {here}
    /\ Goto(IF todo' = {} THEN "sleep" ELSE "scan")
    /\ slept' = 0
    /\ now' = IF todo' = {} THEN 0 ELSE now

Note(age) == sizes' = [sizes EXCEPT ![here] = [left |-> left[rec], since |-> age]]

(* The file is gone.                                                        *)
Gone ==
    /\ pc = "scan" /\ rec = NoFile
    /\ Continue
    /\ UNCHANGED <<file, recorder, folders, calls, sizes, status, target, env>>

(* First sighting: dated from the mtime; not young, it must hold still for  *)
(* a moment.                                                                *)
FirstSight ==
    /\ pc = "scan" /\ rec # NoFile
    /\ sizes[here] = NoFile
    /\ Note(now + MtimeAge)
    /\ IF MtimeAge >= Stable THEN Goto("settle") /\ slept' = 0 /\ UNCHANGED <<todo, now>>
                             ELSE Continue
    /\ UNCHANGED <<file, recorder, folders, calls, status, target, env>>

(* _size_settled, a second later.                                           *)
Settled ==
    /\ pc = "settle" /\ slept >= Settle
    /\ IF rec # NoFile /\ left[rec] = sizes[here].left
         THEN Goto("process") /\ UNCHANGED <<todo, slept, now, sizes>>
         ELSE /\ Continue
              /\ sizes' = [sizes EXCEPT ![here].since = now]
    /\ UNCHANGED <<file, recorder, folders, calls, status, target, env>>

AnySize == Unchanged >= Stable
StillSame == left[rec] = sizes[here].left /\ Unchanged >= Stable

(* Seen before: another size than last time starts the wait anew, the same  *)
(* for long enough is stable.                                               *)
SeenBefore ==
    /\ pc = "scan" /\ rec # NoFile
    /\ sizes[here] # NoFile
    /\ IF StillSame
         THEN Goto("process") /\ UNCHANGED <<todo, slept, now, sizes>>
         ELSE /\ Continue
              /\ IF left[rec] # sizes[here].left THEN Note(now) ELSE UNCHANGED sizes
    /\ UNCHANGED <<file, recorder, folders, calls, status, target, env>>

(* process_call begins: it takes the call's lock. *)
Process ==
    /\ pc = "process"
    /\ lock[here] = "free"
    /\ lock' = [lock EXCEPT ![here] = "loop"]
    /\ tried' = IF rec = NoFile THEN tried ELSE tried \cup {rec}
    /\ UNCHANGED <<file, recorder, folders, built, loop, env>>

(* "locked:": leave the recording where it is. *)
Quarantine == Goto("pick") /\ status' = "failed" /\ UNCHANGED <<todo, slept, now>>
LeaveIt == Continue /\ UNCHANGED status

Locked ==
    /\ pc = "process" /\ lock[here] = "other"
    /\ LeaveIt
    /\ sizes' = [sizes EXCEPT ![here] = NoFile]
    /\ UNCHANGED <<file, recorder, folders, calls, target, env>>

(* process_call ends.  What the call's stages were made from before is used *)
(* again; a call that has nothing yet is made from the file, or fails,      *)
(* early or late.                                                           *)
MadeFrom(n) == IF built[n] = NoFile THEN [built EXCEPT ![n] = file[n]] ELSE built

AlwaysProcessed(ok) == "processed"
FolderOf(ok) == IF ok THEN "processed" ELSE "failed"

Ended ==
    /\ pc = "process" /\ lock[here] = "loop"
    /\ lock' = [lock EXCEPT ![here] = "free"]
    /\ \E ok \in BOOLEAN :
         /\ ok => MadeFrom(here)[here] # NoFile
         /\ built' \in (IF ok THEN {} ELSE {built}) \cup {MadeFrom(here)}
         /\ status' = FolderOf(ok)
    /\ sizes' = [sizes EXCEPT ![here] = NoFile]
    /\ Goto("pick")
    /\ UNCHANGED <<file, recorder, folders, tried, todo, now, slept, target, env>>

(* "Never over an earlier recording of the same name". *)
OverEarlier == "plain"
FreeTarget == IF plain[<<status, here>>] = NoFile THEN "plain" ELSE "stamped"

PickTarget ==
    /\ pc = "pick"
    /\ target' = FreeTarget
    /\ Goto("move")
    /\ UNCHANGED <<file, recorder, folders, calls, todo, now, slept, sizes,
                   status, env>>

(* A rename replaces what is there. *)
Put(r, dest, kind) ==
    LET was == IF kind = "plain" THEN plain[dest] ELSE stamped[dest]
    IN  /\ place' = [x \in Recording |-> IF x = r THEN dest[1]
                                         ELSE IF x = was THEN "lost" ELSE place[x]]
        /\ plain' = IF kind = "plain" THEN [plain EXCEPT ![dest] = r] ELSE plain
        /\ stamped' = IF kind = "stamped" THEN [stamped EXCEPT ![dest] = r] ELSE stamped
        /\ file' = [file EXCEPT ![dest[2]] = NoFile]

Move ==
    /\ pc = "move"
    /\ \/ rec # NoFile /\ Put(rec, <<status, here>>, target) /\ UNCHANGED faults
       \/ rec = NoFile /\ UNCHANGED <<file, place, folders, faults>>
       \/ rec # NoFile /\ Fault /\ UNCHANGED <<file, place, folders>>
    /\ Continue
    /\ status' = "processed" /\ target' = "plain"    \* not looked at again
    /\ UNCHANGED <<nameOf, left, old, quiet, calls, sizes, meddled>>

-----------------------------------------------------------------------------
(* Other processes. *)

OtherTakes(n) ==
    /\ lock[n] = "free" /\ file[n] # NoFile
    /\ Fault
    /\ lock' = [lock EXCEPT ![n] = "other"]
    /\ tried' = tried \cup {file[n]}
    /\ UNCHANGED <<file, recorder, folders, built, loop, meddled>>

OtherEnds(n) ==
    /\ lock[n] = "other"
    /\ lock' = [lock EXCEPT ![n] = "free"]
    /\ built' \in {built, MadeFrom(n)}
    /\ UNCHANGED <<file, recorder, folders, tried, loop, env>>

(* Another watch loop moves a file it has had processed, once.              *)
OtherMoves(n) ==
    /\ ~meddled
    /\ file[n] \in tried /\ built[n] # NoFile
    /\ plain[<<"processed", n>>] = NoFile
    /\ meddled' = TRUE
    /\ Put(file[n], <<"processed", n>>, "plain")
    /\ UNCHANGED <<nameOf, left, old, quiet, calls, loop, faults>>

(* A second passes. *)
Tick ==
    /\ pc = "sleep" \/ (pc = "settle" /\ slept < Settle) \/ now < MaxCycle
    /\ quiet' = [r \in Recording |->
                   IF place[r] = "calls" THEN AtMost(quiet[r] + 1, Stable) ELSE 0]
    /\ now' = IF pc = "sleep" THEN now ELSE now + 1
    /\ slept' = IF pc \in {"sleep", "settle"} THEN AtMost(slept + 1, Poll + Settle) ELSE slept
    /\ sizes' = [n \in Name |->
                   IF sizes[n] = NoFile THEN NoFile
                   ELSE [sizes[n] EXCEPT !.since = AtMost(@ + 1, SinceCap)]]
    /\ stamped' = [t \in Folder \X Name |-> NoFile]
    /\ UNCHANGED <<file, nameOf, place, left, old, plain, calls, pc, todo, status, target, env>>

Scan == NewPass \/ Gone \/ FirstSight \/ Settled \/ SeenBefore
Handle == Process \/ Locked \/ Ended \/ PickTarget \/ Move

Next ==
    \/ \E r \in Recording : Arrive(r) \/ Append(r)
    \/ Scan \/ Handle
    \/ \E n \in Name : OtherTakes(n) \/ OtherEnds(n) \/ OtherMoves(n)
    \/ Tick

Spec == Init /\ [][Next]_vars

(* The loop and time go on, and others finish what they process. *)
FairSpec ==
    /\ Spec
    /\ WF_vars(Scan) /\ WF_vars(Handle) /\ WF_vars(Tick)
    /\ \A n \in Name : WF_vars(OtherEnds(n))

-----------------------------------------------------------------------------
(* Properties. *)

(* No recording is overwritten, by another of the same name or at all       *)
(* (cli.py:481-484), while this loop is the only one to move files.         *)
NoneOverwritten == ~meddled => \A r \in Recording : place[r] # "lost"

(* A recording is processed only when it has not been written for           *)
(* stable_seconds; if it came with the mtime of its source, for the moment  *)
(* of _size_settled (cli.py:433-440).  Here poll_seconds is not less than   *)
(* stable_seconds, as in the configuration shipped.                         *)
StableFirst ==
    [][pc # "process" /\ pc' = "process" /\ ~meddled
         => quiet[rec] >= IF old[rec] THEN AtMost(Settle, Stable) ELSE Stable]_vars

(* A recording leaves input/calls/ only when process_call was run on it: a  *)
(* call another process is handling is not put aside (cli.py:466-471).      *)
Handled ==
    ~meddled => \A r \in Recording : place[r] \in Folder => r \in tried

(* A recording in processed/ is what its call's results were made from, if  *)
(* no other ever had its name.                                              *)
Unrivalled(r) == \A x \in Recording : nameOf[x] = nameOf[r] => x = r

ProcessedWasMade ==
    \A r \in Recording :
        place[r] = "processed" /\ Unrivalled(r) => built[nameOf[r]] = r

(* Every recording that nobody writes any more is processed and moved in    *)
(* the end, whoever else works on it meanwhile.                             *)
EveryFileLeaves ==
    \A r \in Recording :
        (place[r] = "calls" /\ left[r] = 0) ~> place[r] # "calls"
=============================================================================
