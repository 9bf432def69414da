------------------------------ MODULE Journey ------------------------------
(***************************************************************************)
(* `journey process`, `content` and `estimate` (journey/engine.py,         *)
(* journey/cli.py): a night's work on a data set.  Process transcribes the *)
(* calls that have no redacted text yet, one by one, then reads the        *)
(* stories (Content), then writes the report; a deadline ends it between   *)
(* two calls or two stories, and the next night goes on where it stopped.  *)
(* One command at a time works on a data set (DatasetLock).                *)
(*                                                                         *)
(* AllCalls is no part of the specification: it is the definition after it *)
(* with a fault in it.                                                     *)
(***************************************************************************)
EXTENDS Content

CONSTANTS
    Main,     \* the reader of the nightly runs
    Sample,   \* how many calls `estimate` transcribes
    MaxMishap, \* mishaps and, within MaxFault, faults of the reading
    Process   \* the commands that transcribe first and, if they save, report last

ASSUME JourneyAssumption == Main \in Reader /\ {Sample, MaxMishap} \subseteq Nat /\ Process \subseteq Commands

VARIABLES
    stage,    \* "off", "calls", "content" or "report"
    plan,     \* the command under way
    todo,     \* calls still to be transcribed in this run
    worked,   \* one of them has taken its time
    report,   \* the reading that the report was made from
    mishaps   \* calls that failed, and deaths outside the content stage

own == <<stage, plan, todo, worked>>
jvars == <<vars, own, report, mishaps>>

JTypeOK ==
    /\ TypeOK
    /\ stage \in {"off", "calls", "content", "report"}
    /\ plan \in Commands \cup {None}
    /\ todo \subseteq Spoken
    /\ worked \in BOOLEAN
    /\ report \in Layer \cup {None}
    /\ mishaps \in 0..MaxMishap

JInit ==
    /\ Init
    /\ stage = "off"
    /\ plan = None
    /\ todo = {}
    /\ worked = FALSE
    /\ report = None
    /\ mishaps = 0

\* Stories in their order, the calls of a story in theirs.
Before(p, q) == p[1] < q[1] \/ (p[1] = q[1] /\ p[2] < q[2])

NoText == {p \in Spoken : p[2] \notin text[p[1]]}

AllCalls(kind) == {p \in Spoken : p[1] \in kind.scope}

\* The calls without a text of the stories in scope; estimate takes a sample.
ToTranscribe(kind) ==
    IF kind.saves THEN {p \in NoText : p[1] \in kind.scope}
    ELSE {p \in NoText : Cardinality({q \in NoText : Before(q, p)}) < Sample}

Start(kind) ==
    /\ stage = "off"
    /\ plan' = kind
    /\ worked' = FALSE
    /\ \/ /\ kind \in Process
          /\ stage' = "calls"
          /\ todo' = ToTranscribe(kind)
          /\ UNCHANGED vars
       \/ /\ kind \notin Process
          /\ stage' = "content"
          /\ todo' = {}
          /\ Begin(kind, FALSE)
    /\ UNCHANGED <<report, mishaps>>

Quit == stage' = "off" /\ plan' = None /\ todo' = {} /\ worked' = FALSE

Upcoming(p) == p \in todo /\ \A q \in todo : ~Before(q, p)

\* process_call ends; a call that another command has transcribed meanwhile
\* is answered from its rows.
CallDone(p) ==
    /\ stage = "calls" /\ Upcoming(p)
    /\ \/ Transcribed(p[1], p[2])
       \/ p[2] \in text[p[1]] /\ UNCHANGED vars
    /\ todo' = todo \ {p}
    /\ worked' = TRUE
    /\ UNCHANGED <<stage, plan, report, mishaps>>

\* Not everything has gone wrong yet that may.
Spare == faults + mishaps < MaxMishap

\* It cannot be assembled, it fails, or it is locked.
CallFails(p) ==
    /\ stage = "calls" /\ Upcoming(p)
    /\ Spare
    /\ mishaps' = mishaps + 1
    /\ todo' = todo \ {p}
    /\ worked' = TRUE
    /\ UNCHANGED <<vars, stage, plan, report>>

\* The deadline has passed before the next call, or before the first story.
NoTime ==
    /\ stage = "calls"
    /\ plan.timed /\ worked
    /\ Quit
    /\ UNCHANGED <<vars, report, mishaps>>

ToContent ==
    /\ stage = "calls" /\ todo = {}
    /\ Begin(plan, worked)
    /\ stage' = "content"
    /\ UNCHANGED <<plan, todo, worked, report, mishaps>>

Read(s) == Work(s) /\ (faults' = faults \/ Spare) /\ UNCHANGED <<own, report, mishaps>>

TimePasses == Deadline /\ UNCHANGED <<own, report, mishaps>>

\* Only process has a report to make; estimate is done.
ContentEnds ==
    /\ Finish
    /\ IF plan \in Process /\ plan.saves
       THEN stage' = "report" /\ UNCHANGED <<plan, todo, worked>>
       ELSE Quit
    /\ UNCHANGED <<report, mishaps>>

MakeReport ==
    /\ stage = "report"
    /\ report' = saved
    /\ Quit
    /\ UNCHANGED <<vars, mishaps>>

\* The command dies, reading or not.
Dies ==
    /\ stage # "off"
    /\ \/ Crash /\ UNCHANGED mishaps
       \/ run = None /\ mishaps' = mishaps + 1 /\ UNCHANGED vars
    /\ Spare
    /\ Quit
    /\ UNCHANGED report

\* Another command (run, watch, process) transcribes a call of the data set.
Elsewhere(p) ==
    /\ Transcribed(p[1], p[2])
    /\ UNCHANGED <<own, report, mishaps>>

JNext ==
    \/ \E kind \in Commands : Start(kind)
    \/ \E p \in Spoken : CallDone(p) \/ CallFails(p) \/ Elsewhere(p)
    \/ \E s \in Story : Read(s)
    \/ NoTime \/ ToContent \/ TimePasses \/ ContentEnds \/ MakeReport \/ Dies

JSpec == JInit /\ [][JNext]_jvars

-----------------------------------------------------------------------------
(* Night after night the whole set is processed, with a deadline.          *)

Nightly == [by |-> Main, scope |-> Story, timed |-> TRUE, saves |-> TRUE]

JFairSpec ==
    /\ JSpec
    /\ \A p \in Story \X Contact : WF_jvars(CallDone(p))
    /\ \A s \in Story : WF_jvars(Read(s))
    /\ WF_jvars(ToContent) /\ WF_jvars(ContentEnds) /\ WF_jvars(MakeReport)
    /\ SF_jvars(Start(Nightly))

\* However early each night ends, in the end the report is made from a saved
\* reading of every story ("the next run continues where this one stopped",
\* engine.py:8-14), provided the answers with something wrong in them are no
\* more than the retries: such an answer is in the cache too and found again.
ReportedInTheEnd ==
    []<>(report # None /\ report.by = Main
         /\ \A s \in Story : /\ report.read[s].verdict # None
                             /\ \A c \in Contact :
                                   <<s, c>> \in Spoken => report.read[s].cards[c] # "none")
=============================================================================
