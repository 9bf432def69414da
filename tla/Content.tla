------------------------------ MODULE Content ------------------------------
(***************************************************************************)
(* The content stage (journey/content.py, journey/llm/cache.py): a         *)
(* language model reads the stories of a data set.  A story is a sequence  *)
(* of contacts; each contact that has a redacted text gets a card, then    *)
(* the returns among them their reasons, then the story its verdict.       *)
(* Every answer is put into a cache before it is parsed; a failed one is   *)
(* asked again with what was wrong with it.  One run reads some or all     *)
(* stories, several at a time, and saves the layer at its end.             *)
(*                                                                         *)
(* What a text says does not matter here.  A card is "full", or "cut" when *)
(* quotes in it could not be verified and were dropped; the text of a card *)
(* is the model's own, so a full and a cut card of one contact differ.     *)
(* Reasons and verdict are represented by what the model was told when it  *)
(* gave them.                                                              *)
(*                                                                         *)
(* StartAfresh, CacheIfParsed, FailQuietly and KeepOld are no part of the  *)
(* specification: each is the definition after it with a fault in it, and  *)
(* the properties are checked to notice the difference.                    *)
(***************************************************************************)
EXTENDS Naturals, FiniteSets

CONSTANTS
    Stories,     \* how many
    Contacts,    \* of every story
    Spoken,      \* <<s, c>>: the contacts that are recorded calls or messages
    Pending,     \* those not transcribed at the beginning
    Objective,   \* <<s, c>>: returns that the rules explain without the contents
    Reader,      \* an engine, its model and the versions of the tasks
    Commands,    \* the runs there are: see Kind
    Concurrency, \* stories read at a time
    MaxRetries,
    MaxBad,      \* answers with something wrong in them
    MaxFault,    \* failures of the engine, unreadable files, crashes
    None

Story == 1..Stories      \* in the order in which a run takes them
Contact == 1..Contacts

\* Who reads, how many of the stories (limit_stories), with a deadline or
\* not; `estimate` reads one story and saves nothing.
Kind == [by : Reader, scope : {1..n : n \in Story}, timed : BOOLEAN, saves : BOOLEAN]

ASSUME ContentAssumption ==
    /\ {Stories, Contacts, Concurrency} \subseteq Nat \ {0}
    /\ {MaxRetries, MaxBad, MaxFault} \subseteq Nat
    /\ Spoken \subseteq Story \X Contact
    /\ Commands \subseteq Kind
    /\ \A kind \in Commands : kind.saves \/ (kind.scope = {1} /\ ~kind.timed)
    /\ None \notin Reader

Card == {"none", "full", "cut"}
NoCards == [c \in Contact |-> "none"]

\* The questions of a story: one for each contact, then these two.
Returns == Contacts + 1
Verdict == Contacts + 2
Over == Contacts + 3

\* What is told to the model, and what a story's reading consists of.
Cards == [Contact -> Card]
Told == [cards : Cards, reasons : Cards \cup {None}]
Reading == [cards : Cards, reasons : Cards \cup {None}, verdict : Told \cup {None}]
Unread == [cards |-> NoCards, reasons |-> None, verdict |-> None]

Answer == {"full", "cut", "bad"}
Feedback == {"", "cut", "bad", "error"}
Question == [by : Reader, story : Story, task : 1..Verdict, told : Told, after : Feedback]

\* What a run is, and what it makes.
Run == [kind : Commands, spent : BOOLEAN]
Layer == [by : Reader, read : [Story -> Reading]]

ASSUME NoneAssumption == None \notin Cards \cup Told \cup Commands \cup Run \cup Layer

VARIABLES
    text,      \* story: its contacts whose redacted text is there
    cache,     \* <<question, answer>>
    saved,     \* content.json: who read it, and the reading of each story
    run,       \* the run under way: who reads which stories, with a deadline or not
    late,      \* the deadline has passed
    layer,     \* what the run has so far, for each story
    phase,     \* story: "out" of scope, "waiting", "reading", "read", "done", "skipped"
    task,      \* of a story that is read: the question it is at
    tries,     \* attempts that failed at that question
    feedback,  \* what was wrong with the last answer
    last,      \* a card with dropped quotes, accepted if nothing better comes
    got,       \* what the answers so far gave
    viewed,    \* the contacts that had a text when their turn came
    clean,     \* the engine has not failed since the story was begun
    failed,    \* the run has counted a failure
    settled,   \* the readings that ended so: who, which story, which contacts
    bads, faults

thread == <<task, tries, feedback, last, got, viewed, clean>>
vars == <<text, cache, saved, run, late, layer, phase, thread, failed, settled, bads, faults>>

Phase == {"out", "waiting", "reading", "read", "done", "skipped"}

TypeOK ==
    /\ text \in [Story -> SUBSET Contact]
    /\ cache \subseteq Question \X Answer
    /\ saved \in Layer \cup {None}
    /\ run \in Run \cup {None}
    /\ late \in BOOLEAN
    /\ layer \in [Story -> Reading]
    /\ phase \in [Story -> Phase]
    /\ task \in [Story -> 0..Over]
    /\ tries \in [Story -> 0..MaxRetries]
    /\ feedback \in [Story -> Feedback]
    /\ last \in [Story -> {"none", "cut"}]
    /\ got \in [Story -> Reading]
    /\ viewed \in [Story -> SUBSET Contact]
    /\ clean \in [Story -> BOOLEAN]
    /\ failed \in BOOLEAN
    /\ settled \subseteq [by : Reader, story : Story, viewed : SUBSET Contact]
    /\ bads \in 0..MaxBad
    /\ faults \in 0..MaxFault

Init ==
    /\ text = [s \in Story |-> {c \in Contact : <<s, c>> \in Spoken \ Pending}]
    /\ cache = {}
    /\ saved = None
    /\ run = None
    /\ late = FALSE
    /\ layer = [s \in Story |-> Unread]
    /\ phase = [s \in Story |-> "out"]
    /\ task = [s \in Story |-> 0]
    /\ tries = [s \in Story |-> 0]
    /\ feedback = [s \in Story |-> ""]
    /\ last = [s \in Story |-> "none"]
    /\ got = [s \in Story |-> Unread]
    /\ viewed = [s \in Story |-> {}]
    /\ clean = [s \in Story |-> TRUE]
    /\ failed = FALSE
    /\ settled = {}
    /\ bads = 0
    /\ faults = 0

-----------------------------------------------------------------------------
(* A run begins.  What an earlier run of the same reader saved is carried  *)
(* over.                                                                   *)

StartAfresh(kind) == [s \in Story |-> Unread]

CarryOver(kind) ==
    IF saved # None /\ saved.by = kind.by THEN saved.read ELSE [s \in Story |-> Unread]

ResetThreads ==
    /\ task' = [s \in Story |-> 0]
    /\ tries' = [s \in Story |-> 0]
    /\ feedback' = [s \in Story |-> ""]
    /\ last' = [s \in Story |-> "none"]
    /\ got' = [s \in Story |-> Unread]
    /\ viewed' = [s \in Story |-> {}]
    /\ clean' = [s \in Story |-> TRUE]

\* spent: the run has already spent time on transcribing calls.
Begin(kind, spent) ==
    /\ run = None
    /\ run' = [kind |-> kind, spent |-> spent]
    /\ failed' = FALSE
    /\ late' = FALSE
    /\ layer' = CarryOver(kind)
    /\ phase' = [s \in Story |-> IF s \in kind.scope THEN "waiting" ELSE "out"]
    /\ ResetThreads
    /\ UNCHANGED <<text, cache, saved, settled, bads, faults>>

-----------------------------------------------------------------------------
(* One story.  The text of a contact is looked for when its turn comes.    *)

ToClassify(s, cards) == {c \in Contact \ {1} : cards[c] # "none" /\ <<s, c>> \notin Objective}

\* The question of story s after question t (0: the first), when the contacts
\* in `there` have a text and the answers gave g.
Following(s, there, t, g) ==
    LET later == {c \in there : c > t} IN
    CASE t < Returns /\ later # {} -> CHOOSE c \in later : \A d \in later : c <= d
      [] t < Returns /\ later = {} /\ g.cards = NoCards -> Over
      [] t < Returns /\ later = {} /\ g.cards # NoCards ->
            IF ToClassify(s, g.cards) # {} THEN Returns ELSE Verdict
      [] t = Returns -> Verdict
      [] t = Verdict -> Over

MoveOn(s, t, g) ==
    LET next == Following(s, text[s], t, g) IN
    /\ got' = [got EXCEPT ![s] = g]
    /\ task' = [task EXCEPT ![s] = next]
    /\ phase' = [phase EXCEPT ![s] = IF next = Over THEN "read" ELSE "reading"]
    /\ viewed' = [viewed EXCEPT ![s] = @ \cup ({next} \cap Contact)]
    /\ tries' = [tries EXCEPT ![s] = 0]
    /\ feedback' = [feedback EXCEPT ![s] = ""]
    /\ last' = [last EXCEPT ![s] = "none"]

\* Stories are taken in order as threads become free.
InTurn(s) ==
    /\ run # None
    /\ phase[s] = "waiting"
    /\ \A t \in Story : t < s => phase[t] # "waiting"
    /\ Cardinality({t \in Story : phase[t] \in {"reading", "read"}}) < Concurrency

Open(s) ==
    /\ InTurn(s)
    /\ ~late
    /\ MoveOn(s, 0, Unread)
    /\ UNCHANGED <<text, cache, saved, run, late, layer, clean, failed, settled, bads, faults>>

\* stop() is asked before each story.
Skip(s) ==
    /\ InTurn(s)
    /\ late
    /\ phase' = [phase EXCEPT ![s] = "skipped"]
    /\ UNCHANGED <<text, cache, saved, run, late, layer, thread, failed, settled, bads, faults>>

-----------------------------------------------------------------------------
(* ask(): one attempt at one question.                                     *)

Asking(s) == run # None /\ phase[s] = "reading"

Asked(s) ==
    [by |-> run.kind.by, story |-> s, task |-> task[s],
     told |-> [cards |-> got[s].cards, reasons |-> got[s].reasons], after |-> feedback[s]]

Known(q) == {a \in Answer : <<q, a>> \in cache}

\* Only cards have quotes of their own.
Possible(s) == IF task[s] \in Contact THEN Answer ELSE Answer \ {"cut"}

CacheIfParsed(q, a) == IF a = "bad" THEN cache ELSE cache \cup {<<q, a>>}

Put(q, a) == cache \cup {<<q, a>>}

\* What answer a makes of the reading: the card, the reasons or the verdict.
With(s, a) ==
    LET g == got[s] IN
    CASE task[s] \in Contact -> [g EXCEPT !.cards[task[s]] = a]
      [] task[s] = Returns   -> [g EXCEPT !.reasons = g.cards]
      [] task[s] = Verdict   -> [g EXCEPT !.verdict = [cards |-> g.cards, reasons |-> g.reasons]]

Retry(s, a) ==
    /\ tries[s] < MaxRetries
    /\ tries' = [tries EXCEPT ![s] = @ + 1]
    /\ feedback' = [feedback EXCEPT ![s] = a]
    /\ UNCHANGED <<task, phase, got, viewed, failed>>

Accept(s, a) == MoveOn(s, task[s], With(s, a)) /\ UNCHANGED failed

FailQuietly(s, a) ==
    \/ Retry(s, a) /\ UNCHANGED last
    \/ tries[s] = MaxRetries /\ MoveOn(s, task[s], got[s]) /\ UNCHANGED failed

\* A failed answer, or none: again, or the card kept from before, or nothing.
Fail(s, a) ==
    \/ Retry(s, a) /\ UNCHANGED last
    \/ tries[s] = MaxRetries /\ last[s] # "none" /\ Accept(s, last[s])
    \/ tries[s] = MaxRetries /\ last[s] = "none" /\ MoveOn(s, task[s], got[s]) /\ failed' = TRUE

Parse(s, a) ==
    \/ a = "full" /\ Accept(s, a)
    \/ a = "cut" /\ Retry(s, a) /\ last' = [last EXCEPT ![s] = a]
    \/ a = "cut" /\ tries[s] = MaxRetries /\ Accept(s, a)
    \/ a = "bad" /\ Fail(s, a)

FromCache(s) ==
    /\ Asking(s)
    /\ \E a \in Known(Asked(s)) : Parse(s, a)
    /\ UNCHANGED <<text, cache, saved, run, late, layer, clean, settled, bads, faults>>

FromEngine(s) ==
    /\ Asking(s)
    /\ Known(Asked(s)) = {}
    /\ \E a \in Possible(s) :
          /\ a # "full" => bads < MaxBad
          /\ bads' = IF a # "full" THEN bads + 1 ELSE bads
          /\ cache' = Put(Asked(s), a)
          /\ Parse(s, a)
    /\ run' = [run EXCEPT !.spent = TRUE]
    /\ UNCHANGED <<text, saved, late, layer, clean, settled, faults>>

EngineFails(s) ==
    /\ Asking(s)
    /\ Known(Asked(s)) = {}
    /\ faults < MaxFault
    /\ faults' = faults + 1
    /\ Fail(s, "error")
    /\ clean' = [clean EXCEPT ![s] = FALSE]
    /\ run' = [run EXCEPT !.spent = TRUE]
    /\ UNCHANGED <<text, cache, saved, late, layer, settled, bads>>

-----------------------------------------------------------------------------
(* The end of a story and of the run.                                      *)

KeepOld(old, new) ==
    [new EXCEPT !.cards = [c \in Contact |-> IF new.cards[c] = "none" THEN old.cards[c]
                                                                      ELSE new.cards[c]],
                !.verdict = IF new.verdict = None THEN old.verdict ELSE new.verdict]

\* Everything there was of the story is popped before the new entries are put.
Merge(old, new) == new

Forget(s) ==
    /\ task' = [task EXCEPT ![s] = 0]
    /\ tries' = [tries EXCEPT ![s] = 0]
    /\ feedback' = [feedback EXCEPT ![s] = ""]
    /\ last' = [last EXCEPT ![s] = "none"]
    /\ got' = [got EXCEPT ![s] = Unread]
    /\ viewed' = [viewed EXCEPT ![s] = {}]
    /\ clean' = [clean EXCEPT ![s] = TRUE]

Record(s) ==
    /\ run # None
    /\ phase[s] = "read"
    /\ phase' = [phase EXCEPT ![s] = "done"]
    /\ layer' = [layer EXCEPT ![s] = Merge(@, got[s])]
    /\ Forget(s)
    /\ settled' = IF clean[s]
                  THEN settled \cup {[by |-> run.kind.by, story |-> s, viewed |-> viewed[s]]}
                  ELSE settled
    /\ UNCHANGED <<text, cache, saved, run, late, failed, bads, faults>>

\* A file that cannot be read ends the story; what was carried over stays.
Unreadable(s) ==
    /\ Asking(s)
    /\ task[s] \in Contact
    /\ tries[s] = 0
    /\ faults < MaxFault
    /\ faults' = faults + 1
    /\ phase' = [phase EXCEPT ![s] = "done"]
    /\ Forget(s)
    /\ failed' = TRUE
    /\ UNCHANGED <<text, cache, saved, run, late, layer, settled, bads>>

Partial == run.kind.scope # Story \/ \E s \in Story : phase[s] = "skipped"

MaySave == run.kind.saves /\ (saved = None \/ saved.by = run.kind.by \/ ~Partial)

\* The memory of a run is gone when it ends, one way or the other.
End ==
    /\ run' = None
    /\ late' = FALSE
    /\ failed' = FALSE
    /\ layer' = [s \in Story |-> Unread]
    /\ phase' = [s \in Story |-> "out"]
    /\ ResetThreads

Finished == run # None /\ \A s \in Story : phase[s] \in {"out", "done", "skipped"}

Finish ==
    /\ Finished
    /\ saved' = IF MaySave THEN [by |-> run.kind.by, read |-> layer] ELSE saved
    /\ End
    /\ UNCHANGED <<text, cache, settled, bads, faults>>

-----------------------------------------------------------------------------
(* Around the run.                                                         *)

\* A call of the story is transcribed and its text redacted.
Transcribed(s, c) ==
    /\ <<s, c>> \in Spoken /\ c \notin text[s]
    /\ text' = [text EXCEPT ![s] = @ \cup {c}]
    /\ UNCHANGED <<cache, saved, run, late, layer, phase, thread, failed, settled, bads, faults>>

\* Asking is what takes time: a deadline is late enough for one question.
Deadline ==
    /\ run # None
    /\ run.kind.timed /\ run.spent /\ ~late
    /\ late' = TRUE
    /\ UNCHANGED <<text, cache, saved, run, layer, phase, thread, failed, settled, bads, faults>>

Crash ==
    /\ run # None
    /\ faults < MaxFault
    /\ faults' = faults + 1
    /\ End
    /\ UNCHANGED <<text, cache, saved, settled, bads>>

Attempt(s) == FromCache(s) \/ FromEngine(s) \/ EngineFails(s)

Work(s) == Open(s) \/ Skip(s) \/ Attempt(s) \/ Record(s) \/ Unreadable(s)

Next ==
    \/ \E kind \in Commands, spent \in BOOLEAN : Begin(kind, spent)
    \/ \E s \in Story : Work(s)
    \/ \E s \in Story, c \in Contact : Transcribed(s, c)
    \/ Finish \/ Deadline \/ Crash

Spec == Init /\ [][Next]_vars

-----------------------------------------------------------------------------
(* What should hold.                                                       *)

\* Reasons and verdict were given for just the cards they are stored with
\* (content.py:416-427: the entries of a story are replaced together).
Consistent ==
    \A r \in {layer[s] : s \in Story}
           \cup (IF saved = None THEN {} ELSE {saved.read[s] : s \in Story}) :
        /\ r.reasons # None => r.reasons = r.cards
        /\ r.verdict # None => r.verdict = [cards |-> r.cards, reasons |-> r.reasons]

\* Reading a story again costs nothing: once a reader has gone through it
\* without a failure of the engine, every question of a later run is answered
\* from the cache, up to the first contact whose text is new (cache.py:3-5).
FreeRerun ==
    \A s \in Story, d \in settled :
        (/\ Asking(s)
         /\ d.by = run.kind.by /\ d.story = s
         /\ viewed[s] = {c \in d.viewed : c <= task[s]}) => Known(Asked(s)) # {}

\* A story that a run did not get to keeps what an earlier run read, and a
\* run of another reader that did not get to it saves nothing (content.py:355-358).
UnreadKept ==
    [][(saved # None /\ saved' # saved) =>
          \A s \in Story : phase[s] # "done" =>
              saved'.by = saved.by /\ saved'.read[s] = saved.read[s]]_vars

\* A run that counts no failure has left nothing out: each contact that had a
\* text has its card, the returns their reasons, the story its verdict
\* (content.py:15-17: what the model could not answer "is counted, never guessed").
Counted ==
    \A s \in Story : (phase[s] = "read" /\ ~failed /\ viewed[s] # {}) =>
        /\ \A c \in viewed[s] : got[s].cards[c] # "none"
        /\ ToClassify(s, got[s].cards) # {} => got[s].reasons # None
        /\ got[s].verdict # None

\* A reading, of one run or of several, is in one piece and lacks nothing that
\* was not counted.
ReadingIsWhole == Consistent /\ Counted
=============================================================================
