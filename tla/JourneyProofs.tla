---------------------------- MODULE JourneyProofs ----------------------------
(***************************************************************************)
(* Proofs about Content and Journey, for any number of stories, contacts,  *)
(* readers, runs, retries and failures.  The nightly process is a user of  *)
(* the content stage: whatever it does, the stage does as one of its own   *)
(* steps or does not notice.  So what is proved of the stage holds night   *)
(* after night: the state keeps its types, every reading is in one piece   *)
(* and lacks nothing that was not counted, what an earlier run read is     *)
(* kept, and reading a story again asks nothing that was asked before.     *)
(***************************************************************************)
EXTENDS Journey, WellFoundedInduction, TLAPS

(* A set of natural numbers has a least one. *)
LEMMA SmallestIn ==
    ASSUME NEW S \in SUBSET Nat, S # {}
    PROVE  \E x \in S : \A y \in S : x <= y
<1> DEFINE R == OpToRel(<, Nat)
<1>1. IsWellFoundedOn(R, Nat)
  BY NatLessThanWellFounded
<1>2. PICK x \in S : \A y \in S : ~ (<<y, x>> \in R)
  <2> HIDE DEF R
  <2>1. QED
    BY <1>1, WFMin
<1>3. \A y \in S : y < x => <<y, x>> \in R
  BY DEF OpToRel
<1>4. \A y \in S : x <= y
  <2> HIDE DEF R
  <2>1. \A y \in S : ~ (y < x)
    BY <1>2, <1>3
  <2>2. QED
    BY <2>1
<1>5. QED
  BY <1>4

(* The questions of a story are numbered: its contacts, then the returns,   *)
(* then the verdict.                                                        *)
LEMMA Numbers ==
    /\ Contacts \in Nat /\ Contact = 1..Contacts
    /\ Returns = Contacts + 1 /\ Verdict = Contacts + 2 /\ Over = Contacts + 3
    /\ MaxRetries \in Nat /\ MaxBad \in Nat /\ MaxFault \in Nat
BY ContentAssumption DEF Contact, Returns, Verdict, Over

LEMMA ReadingTypes ==
    /\ NoCards \in Cards /\ Unread \in Reading
    /\ \A c \in Contact : NoCards[c] = "none"
    /\ Unread.cards = NoCards /\ Unread.reasons = None /\ Unread.verdict = None
BY DEF Unread, Reading, NoCards, Cards, Card

(* What is so of the question after question t, when the contacts in        *)
(* `there` have a text and the answers gave g.                              *)
IsNext(s, there, t, g, next) ==
    /\ next \in 1..Over /\ t < next
    /\ next \in Contact => /\ t < Returns /\ next \in there
                           /\ \A c \in there : c > t => next <= c
    /\ t < Returns /\ next \notin Contact => \A c \in there : ~(c > t)
    /\ t < Returns /\ next = Returns => ToClassify(s, g.cards) # {}
    /\ t < Returns /\ next = Verdict => ToClassify(s, g.cards) = {}
    /\ t < Returns /\ next = Over => g.cards = NoCards
    /\ t = Returns => next = Verdict
    /\ t = Verdict => next = Over

LEMMA FollowingFacts ==
    ASSUME NEW s \in Story, NEW there, there \subseteq Contact, NEW t \in 0..Verdict, NEW g
    PROVE  IsNext(s, there, t, g, Following(s, there, t, g))
<1> SUFFICES ASSUME NEW next, next = Following(s, there, t, g)
             PROVE  IsNext(s, there, t, g, next)
  OBVIOUS
<1> DEFINE later == {c \in there : c > t}
<1> USE Numbers
<1>1. CASE t < Returns /\ later # {}
  <2>1. next = CHOOSE c \in later : \A d \in later : c <= d
    <3>1. t # Returns /\ t # Verdict
      BY <1>1
    <3>2. Following(s, there, t, g) = CHOOSE c \in later : \A d \in later : c <= d
      <4> DEFINE first == CHOOSE c \in later : \A d \in later : c <= d
      <4>1. Following(s, there, t, g) =
              CASE t < Returns /\ later # {} -> first
                [] t < Returns /\ later = {} /\ g.cards = NoCards -> Over
                [] t < Returns /\ later = {} /\ g.cards # NoCards ->
                     IF ToClassify(s, g.cards) # {} THEN Returns ELSE Verdict
                [] t = Returns -> Verdict
                [] t = Verdict -> Over
        BY DEF Following
      <4> HIDE DEF first, later
      <4>2. Following(s, there, t, g) = first
        BY <1>1, <3>1, <4>1
      <4> USE DEF first
      <4>3. QED
        BY <4>2
    <3>3. QED
      BY <3>2
  <2>2. later \in SUBSET Nat
    <3>1. \A c \in there : c \in Nat
      OBVIOUS
    <3>2. QED
      BY <3>1
  <2>3. \E c \in later : \A d \in later : c <= d
    <3> HIDE DEF later
    <3>1. QED
      BY <1>1, <2>2, SmallestIn
  <2>4. next \in later /\ \A d \in later : next <= d
    <3> HIDE DEF later
    <3>1. QED
      BY <2>1, <2>3
  <2>5. next \in Contact /\ next > t
    BY <2>4
  <2>6. QED
    BY <1>1, <2>4, <2>5 DEF IsNext
<1>2. CASE t < Returns /\ later = {} /\ g.cards = NoCards
  <2>1. next = Over
    BY <1>2 DEF Following
  <2>2. QED
    BY <1>2, <2>1 DEF IsNext
<1>3. CASE t < Returns /\ later = {} /\ g.cards # NoCards
  <2>1. next = IF ToClassify(s, g.cards) # {} THEN Returns ELSE Verdict
    BY <1>3 DEF Following
  <2>2. QED
    BY <1>3, <2>1 DEF IsNext
<1>4. CASE t = Returns
  <2>1. next = Verdict
    BY <1>4 DEF Following
  <2>2. QED
    BY <1>4, <2>1 DEF IsNext
<1>5. CASE t = Verdict
  <2>1. next = Over
    BY <1>5 DEF Following
  <2>2. QED
    BY <1>5, <2>1 DEF IsNext
<1>6. QED
  BY <1>1, <1>2, <1>3, <1>4, <1>5

(* Two sets of contacts that agree on what comes first after question t    *)
(* lead to the same next question.                                         *)
LEMMA SameFollowing ==
    ASSUME NEW s \in Story, NEW one, one \subseteq Contact, NEW other, other \subseteq Contact,
           NEW t \in 0..Verdict, NEW g, NEW next, next = Following(s, one, t, g),
           next \in Contact => next \in other /\ \A c \in other : c > t => next <= c,
           next \notin Contact => \A c \in other : ~(c > t)
    PROVE  Following(s, other, t, g) = next
<1> DEFINE m == Following(s, other, t, g)
<1>1. IsNext(s, other, t, g, m)
  BY FollowingFacts
<1>2. IsNext(s, one, t, g, next)
  BY FollowingFacts
<1>3. CASE next \in Contact
  <2>1. t < Returns /\ next > t
    BY <1>2, <1>3, Numbers DEF IsNext
  <2>2. m \in Contact /\ m \in other /\ m > t
    BY <1>1, <2>1, <1>3, Numbers DEF IsNext
  <2>3. m <= next /\ next <= m
    BY <1>1, <2>1, <2>2, <1>3 DEF IsNext
  <2>4. QED
    BY <2>2, <2>3, <1>3, Numbers
<1>4. CASE next \notin Contact
  <2>1. {c \in other : c > t} = {}
    BY <1>4
  <2>2. t < Returns => {c \in one : c > t} = {}
    BY <1>4, <1>2 DEF IsNext
  <2>3. CASE t < Returns
    BY <2>1, <2>2, <2>3, Numbers DEF Following
  <2>4. CASE ~(t < Returns)
    <3>1. t = Returns \/ t = Verdict
      BY <2>4, Numbers
    <3>2. QED
      BY <3>1, <1>1, <1>2 DEF IsNext
  <2>5. QED
    BY <2>3, <2>4
<1>5. QED
  BY <1>3, <1>4

-----------------------------------------------------------------------------
(* One story.  Where it is in its reading, and where an answer takes it.   *)

Point == [task : 0..Over, tries : 0..MaxRetries, feedback : Feedback, last : {"none", "cut"},
          got : Reading]

Here(s) == [task |-> task[s], tries |-> tries[s], feedback |-> feedback[s], last |-> last[s],
            got |-> got[s]]

\* The reading g is gone on with, when the contacts in `there` have a text.
Onward(s, there, t, g) ==
    [task |-> Following(s, there, t, g), tries |-> 0, feedback |-> "", last |-> "none", got |-> g]

Given(p, a) ==
    IF p.task \in Contact THEN [p.got EXCEPT !.cards[p.task] = a]
    ELSE IF p.task = Returns THEN [p.got EXCEPT !.reasons = p.got.cards]
    ELSE [p.got EXCEPT !.verdict = [cards |-> p.got.cards, reasons |-> p.got.reasons]]

\* Whether answer a ends the question, and with which reading.
Ends(p, a) == a = "full" \/ p.tries = MaxRetries

Result(p, a) ==
    IF a \in {"full", "cut"} THEN Given(p, a)
    ELSE IF p.last # "none" THEN Given(p, p.last)
    ELSE p.got

After(s, there, p, a) ==
    IF Ends(p, a) THEN Onward(s, there, p.task, Result(p, a))
    ELSE [task |-> p.task, tries |-> p.tries + 1, feedback |-> a,
          last |-> IF a = "cut" THEN a ELSE p.last, got |-> p.got]

\* What a step leaves of the other stories.
OthersStay(s) ==
    \A x \in Story \ {s} : Here(x)' = Here(x) /\ phase'[x] = phase[x] /\ viewed'[x] = viewed[x]

ThreadTypes ==
    /\ phase \in [Story -> Phase]
    /\ task \in [Story -> 0..Over]
    /\ tries \in [Story -> 0..MaxRetries]
    /\ feedback \in [Story -> Feedback]
    /\ last \in [Story -> {"none", "cut"}]
    /\ got \in [Story -> Reading]
    /\ viewed \in [Story -> SUBSET Contact]

\* A story that is not read keeps nothing; one that is has come as far as its
\* phase says, and has looked no further.
Thread(s) ==
    /\ phase[s] = "reading" => task[s] \in 1..Verdict
    /\ phase[s] = "read" => task[s] = Over
    /\ phase[s] \notin {"reading", "read"} => viewed[s] = {} /\ task[s] = 0
    /\ \A c \in viewed[s] : c <= task[s]
    /\ task[s] \in Contact => task[s] \in viewed[s]
    /\ run = None => phase[s] = "out"
    /\ run # None /\ s \in run.kind.scope => phase[s] # "out"

Typed == TypeOK /\ \A s \in Story : Thread(s)

LEMMA GivenTypes ==
    ASSUME NEW p \in Point, NEW a \in {"full", "cut"}
    PROVE  /\ Given(p, a) \in Reading
           /\ p.task \in Contact => Given(p, a) = [p.got EXCEPT !.cards = [p.got.cards EXCEPT ![p.task] = a]]
<1>1. p.got \in Reading
  BY DEF Point
<1>2. p.got = [cards |-> p.got.cards, reasons |-> p.got.reasons, verdict |-> p.got.verdict]
  BY <1>1 DEF Reading
<1>3. p.got.cards \in Cards /\ p.got.reasons \in Cards \cup {None} /\ p.got.verdict \in Told \cup {None}
  BY <1>1 DEF Reading
<1>4. CASE p.task \in Contact
  <2>1. Given(p, a) = [p.got EXCEPT !.cards = [p.got.cards EXCEPT ![p.task] = a]]
    BY <1>4, <1>1 DEF Given, Reading
  <2>2. [p.got.cards EXCEPT ![p.task] = a] \in Cards
    BY <1>3 DEF Cards, Card
  <2>3. QED
    BY <2>1, <2>2, <1>3, <1>1 DEF Reading
<1>5. CASE p.task \notin Contact /\ p.task = Returns
  BY <1>5, <1>3, <1>1 DEF Given, Reading
<1>6. CASE p.task \notin Contact /\ p.task # Returns
  <2>1. [cards |-> p.got.cards, reasons |-> p.got.reasons] \in Told
    BY <1>3 DEF Told
  <2>2. QED
    BY <1>6, <1>3, <1>1, <2>1 DEF Given, Reading
<1>7. QED
  BY <1>4, <1>5, <1>6

(* Going on to the next question. *)
LEMMA MovedOn ==
    ASSUME Typed, NEW s \in Story, NEW t \in 0..Verdict, NEW g \in Reading,
           \A c \in viewed[s] : c <= t, MoveOn(s, t, g)
    PROVE  /\ ThreadTypes' /\ OthersStay(s)
           /\ Here(s)' = Onward(s, text[s], t, g)
           /\ Here(s)'.task \in 1..Over
           /\ phase'[s] = IF Here(s)'.task = Over THEN "read" ELSE "reading"
           /\ viewed'[s] = viewed[s] \cup ({Here(s)'.task} \cap Contact)
           /\ \A c \in viewed'[s] : c <= task'[s]
<1> DEFINE next == Following(s, text[s], t, g)
<1>1. TypeOK /\ text[s] \subseteq Contact
  BY DEF Typed, TypeOK
<1>2. IsNext(s, text[s], t, g, next)
  BY <1>1, FollowingFacts
<1>3. next \in 1..Over /\ t < next
  BY <1>2 DEF IsNext
<1>4. /\ got' = [got EXCEPT ![s] = g]
      /\ task' = [task EXCEPT ![s] = next]
      /\ phase' = [phase EXCEPT ![s] = IF next = Over THEN "read" ELSE "reading"]
      /\ viewed' = [viewed EXCEPT ![s] = @ \cup ({next} \cap Contact)]
      /\ tries' = [tries EXCEPT ![s] = 0]
      /\ feedback' = [feedback EXCEPT ![s] = ""]
      /\ last' = [last EXCEPT ![s] = "none"]
  BY DEF MoveOn
<1>5. ThreadTypes /\ ThreadTypes'
  <2> HIDE DEF next
  <2>1. ThreadTypes
    BY <1>1 DEF TypeOK, ThreadTypes
  <2>2. phase' \in [Story -> Phase]
    <3>1. phase' = [phase EXCEPT ![s] = IF next = Over THEN "read" ELSE "reading"]
      BY <1>4
    <3>2. (IF next = Over THEN "read" ELSE "reading") \in Phase
      BY DEF Phase
    <3>3. QED
      BY <2>1, <3>1, <3>2 DEF ThreadTypes
  <2>3. task' \in [Story -> 0..Over]
    <3>1. task' = [task EXCEPT ![s] = next]
      BY <1>4
    <3>2. next \in 0..Over
      BY <1>3, Numbers
    <3>3. QED
      BY <2>1, <3>1, <3>2 DEF ThreadTypes
  <2>4. tries' \in [Story -> 0..MaxRetries]
    <3>1. tries' = [tries EXCEPT ![s] = 0]
      BY <1>4
    <3>2. 0 \in 0..MaxRetries
      BY Numbers
    <3>3. QED
      BY <2>1, <3>1, <3>2 DEF ThreadTypes
  <2>5. feedback' \in [Story -> Feedback]
    BY <1>4, <2>1 DEF ThreadTypes, Feedback
  <2>6. last' \in [Story -> {"none", "cut"}] /\ got' \in [Story -> Reading]
    BY <1>4, <2>1 DEF ThreadTypes
  <2>7. viewed' \in [Story -> SUBSET Contact]
    BY <1>4, <2>1 DEF ThreadTypes
  <2>8. QED
    BY <2>1, <2>2, <2>3, <2>4, <2>5, <2>6, <2>7 DEF ThreadTypes
<1>6. Here(s)' = Onward(s, text[s], t, g)
  BY <1>4, <1>5 DEF Here, Onward, ThreadTypes
<1>7. OthersStay(s)
  BY <1>4, <1>5 DEF Here, OthersStay, ThreadTypes
<1>8. Here(s)'.task = next /\ task'[s] = next
  BY <1>4, <1>5 DEF Here, ThreadTypes
<1>9. /\ phase'[s] = IF next = Over THEN "read" ELSE "reading"
      /\ viewed'[s] = viewed[s] \cup ({next} \cap Contact)
  BY <1>4, <1>5 DEF ThreadTypes
<1>10. \A c \in viewed'[s] : c <= task'[s]
  <2>1. viewed[s] \subseteq Contact
    BY <1>5 DEF ThreadTypes
  <2>2. \A c \in viewed[s] : c <= next
    <3> HIDE DEF next
    <3>1. QED
      BY <1>3, <2>1, Numbers
  <2>3. QED
    BY <1>8, <1>9, <2>2, <1>3
<1>11. QED
  BY <1>3, <1>5, <1>6, <1>7, <1>8, <1>9, <1>10

(* What an answer, or its lack, does. *)
Taken(s, a) == IF a = "error" THEN Fail(s, a) ELSE Parse(s, a)

Retried(s, a) ==
    /\ tries[s] < MaxRetries /\ a # "full"
    /\ tries' = [tries EXCEPT ![s] = @ + 1]
    /\ feedback' = [feedback EXCEPT ![s] = a]
    /\ last' = IF a = "cut" THEN [last EXCEPT ![s] = a] ELSE last
    /\ UNCHANGED <<task, phase, got, viewed, failed>>

\* With which reading a story goes on, and whether that counts as a failure.
Advanced(s, a) ==
    /\ Ends(Here(s), a)
    /\ MoveOn(s, task[s], Result(Here(s), a))
    /\ \/ \E b \in {"full", "cut"} : Result(Here(s), a) = Given(Here(s), b) /\ failed' = failed
       \/ Result(Here(s), a) = got[s] /\ failed' = TRUE

LEMMA HereTypes ==
    ASSUME Typed, NEW s \in Story
    PROVE  Here(s) \in Point
BY DEF Typed, TypeOK, Here, Point

LEMMA WithIsGiven ==
    ASSUME Typed, NEW s \in Story, Asking(s), NEW a
    PROVE  With(s, a) = Given(Here(s), a)
<1>1. task[s] \in 1..Verdict
  BY DEF Typed, Thread, Asking
<1>2. task[s] \in Contact \/ task[s] = Returns \/ task[s] = Verdict
  BY <1>1, Numbers
<1>3. Here(s).task = task[s] /\ Here(s).got = got[s]
  BY DEF Here
<1>4. task[s] \in Contact => task[s] # Returns /\ task[s] # Verdict
  BY Numbers
<1>5. Returns # Verdict
  BY Numbers
<1>6. CASE task[s] \in Contact
  BY <1>3, <1>4, <1>6 DEF With, Given
<1>7. CASE task[s] = Returns
  BY <1>3, <1>4, <1>5, <1>7 DEF With, Given
<1>8. CASE task[s] = Verdict
  BY <1>3, <1>4, <1>5, <1>8 DEF With, Given
<1>9. QED
  BY <1>2, <1>6, <1>7, <1>8

LEMMA TakenIs ==
    ASSUME Typed, NEW s \in Story, Asking(s), NEW a \in Answer \cup {"error"}, Taken(s, a)
    PROVE  Retried(s, a) \/ Advanced(s, a)
<1>1. /\ Here(s).tries = tries[s] /\ Here(s).last = last[s] /\ Here(s).got = got[s]
      /\ tries[s] \in 0..MaxRetries /\ last[s] \in {"none", "cut"}
  BY DEF Here, Typed, TypeOK
<1>2. ~(tries[s] < MaxRetries /\ tries[s] = MaxRetries)
  BY <1>1, Numbers
<1>3. a \in {"full", "cut", "bad", "error"}
  BY DEF Answer
<1>4. ASSUME NEW b \in {"full", "cut"}, Accept(s, b), Ends(Here(s), a),
             Result(Here(s), a) = Given(Here(s), b)
      PROVE  Advanced(s, a)
  <2>1. With(s, b) = Given(Here(s), b)
    BY WithIsGiven
  <2>2. QED
    BY <1>4, <2>1 DEF Accept, Advanced
<1>5. CASE a = "full"
  <2>1. Accept(s, a) /\ Ends(Here(s), a) /\ Result(Here(s), a) = Given(Here(s), a)
    BY <1>5 DEF Taken, Parse, Ends, Result
  <2>2. QED
    BY <1>4, <1>5, <2>1
<1>6. CASE a = "cut"
  <2>1. \/ Retry(s, a) /\ last' = [last EXCEPT ![s] = a]
        \/ tries[s] = MaxRetries /\ Accept(s, a)
    BY <1>6 DEF Taken, Parse
  <2>2. CASE Retry(s, a) /\ last' = [last EXCEPT ![s] = a]
    BY <1>6, <2>2 DEF Retry, Retried
  <2>3. CASE tries[s] = MaxRetries /\ Accept(s, a)
    <3>1. Ends(Here(s), a) /\ Result(Here(s), a) = Given(Here(s), a)
      BY <1>1, <1>6, <2>3 DEF Ends, Result
    <3>2. QED
      BY <1>4, <1>6, <2>3, <3>1
  <2>4. QED
    BY <2>1, <2>2, <2>3
<1>7. CASE a \in {"bad", "error"}
  <2>1. \/ Retry(s, a) /\ UNCHANGED last
        \/ tries[s] = MaxRetries /\ last[s] # "none" /\ Accept(s, last[s])
        \/ tries[s] = MaxRetries /\ last[s] = "none" /\ MoveOn(s, task[s], got[s]) /\ failed' = TRUE
    BY <1>7 DEF Taken, Parse, Fail
  <2>2. CASE Retry(s, a) /\ UNCHANGED last
    BY <1>7, <2>2 DEF Retry, Retried
  <2>3. CASE tries[s] = MaxRetries /\ last[s] # "none" /\ Accept(s, last[s])
    <3>1. Ends(Here(s), a) /\ Result(Here(s), a) = Given(Here(s), last[s])
      BY <1>1, <1>7, <2>3 DEF Ends, Result
    <3>2. last[s] \in {"full", "cut"}
      BY <1>1, <2>3
    <3>3. QED
      BY <1>4, <2>3, <3>1, <3>2
  <2>4. CASE tries[s] = MaxRetries /\ last[s] = "none" /\ MoveOn(s, task[s], got[s]) /\ failed' = TRUE
    BY <1>1, <1>7, <2>4 DEF Ends, Result, Advanced
  <2>5. QED
    BY <2>1, <2>2, <2>3, <2>4
<1>8. QED
  BY <1>3, <1>5, <1>6, <1>7

LEMMA ResultTypes ==
    ASSUME NEW p \in Point, NEW a \in Answer \cup {"error"}
    PROVE  Result(p, a) \in Reading
<1>1. p.last \in {"none", "cut"} /\ p.got \in Reading
  BY DEF Point
<1>2. a \in {"full", "cut"} => Given(p, a) \in Reading
  BY GivenTypes
<1>3. p.last # "none" => Given(p, p.last) \in Reading
  BY <1>1, GivenTypes
<1>4. QED
  BY <1>1, <1>2, <1>3 DEF Result

\* What an answer makes of the story that asked.
Answered(s, a) ==
    /\ ThreadTypes' /\ OthersStay(s)
    /\ Here(s)' = After(s, text[s], Here(s), a)
    /\ Here(s)'.task \in 1..Over
    /\ phase'[s] = IF Here(s)'.task = Over THEN "read" ELSE "reading"
    /\ viewed'[s] = viewed[s] \cup ({Here(s)'.task} \cap Contact)
    /\ \A c \in viewed'[s] : c <= task'[s]

LEMMA TakenFacts ==
    ASSUME Typed, NEW s \in Story, Asking(s), NEW a \in Answer \cup {"error"}, Taken(s, a)
    PROVE  Answered(s, a)
<1>1. Retried(s, a) \/ Advanced(s, a)
  BY TakenIs
<1>2. TypeOK /\ Thread(s) /\ phase[s] = "reading" /\ task[s] \in 1..Verdict
  BY DEF Typed, Asking, Thread
<1>3. Here(s) \in Point
  BY HereTypes
<1>4. /\ Here(s).task = task[s] /\ Here(s).tries = tries[s] /\ Here(s).got = got[s]
      /\ Here(s).last = last[s]
  BY DEF Here
<1>5. CASE Retried(s, a)
  <2>1. /\ tries[s] \in 0..MaxRetries /\ tries[s] < MaxRetries /\ a \in Feedback
        /\ tries' = [tries EXCEPT ![s] = @ + 1]
        /\ feedback' = [feedback EXCEPT ![s] = a]
    BY <1>5, <1>2 DEF Retried, TypeOK, Answer, Feedback
  <2>2. ThreadTypes'
    <3>1. tries' \in [Story -> 0..MaxRetries]
      <4>1. tries[s] + 1 \in 0..MaxRetries
        BY <2>1, Numbers
      <4>2. QED
        BY <2>1, <4>1, <1>2 DEF TypeOK
    <3>2. feedback' \in [Story -> Feedback]
      BY <2>1, <1>2 DEF TypeOK
    <3>3. last' \in [Story -> {"none", "cut"}]
      BY <1>5, <1>2 DEF Retried, TypeOK
    <3>4. QED
      BY <3>1, <3>2, <3>3, <1>5, <1>2 DEF Retried, TypeOK, ThreadTypes
  <2>3. Here(s)' = [task |-> task[s], tries |-> tries[s] + 1, feedback |-> a,
                    last |-> IF a = "cut" THEN a ELSE last[s], got |-> got[s]]
    <3>1. last'[s] = IF a = "cut" THEN a ELSE last[s]
      BY <1>5, <1>2 DEF Retried, TypeOK
    <3>2. tries'[s] = tries[s] + 1 /\ feedback'[s] = a
      BY <2>1, <1>2 DEF TypeOK
    <3>3. QED
      BY <3>1, <3>2, <1>5 DEF Retried, Here
  <2>4. ~Ends(Here(s), a)
    <3>1. tries[s] # MaxRetries
      BY <2>1, Numbers
    <3>2. QED
      BY <3>1, <1>4, <1>5 DEF Ends, Retried
  <2>5. Here(s)' = After(s, text[s], Here(s), a)
    BY <2>3, <2>4, <1>4 DEF After
  <2>6. OthersStay(s)
    BY <1>5, <1>2 DEF Retried, OthersStay, Here, TypeOK
  <2>7. Here(s)'.task = task[s] /\ task[s] \in 1..Over /\ task[s] # Over
    BY <2>3, <1>2, Numbers
  <2>8. phase'[s] = phase[s] /\ viewed'[s] = viewed[s] /\ task'[s] = task[s]
    BY <1>5 DEF Retried
  <2>9. \A c \in viewed[s] : c <= task[s]
    BY <1>2 DEF Thread
  <2>10. task[s] \in Contact => task[s] \in viewed[s]
    BY <1>2 DEF Thread
  <2>11. QED
    BY <1>2, <2>2, <2>5, <2>6, <2>7, <2>8, <2>9, <2>10 DEF Answered
<1>6. CASE Advanced(s, a)
  <2>1. Result(Here(s), a) \in Reading
    BY <1>3, ResultTypes
  <2>2. task[s] \in 0..Verdict /\ \A c \in viewed[s] : c <= task[s]
    BY <1>2, Numbers DEF Thread
  <2>3. MoveOn(s, task[s], Result(Here(s), a))
    BY <1>6 DEF Advanced
  <2>4. Here(s)' = Onward(s, text[s], task[s], Result(Here(s), a))
    BY <2>1, <2>2, <2>3, MovedOn
  <2>5. Here(s)' = After(s, text[s], Here(s), a)
    BY <2>4, <1>4, <1>6 DEF After, Advanced
  <2>6. QED
    BY <2>1, <2>2, <2>3, <2>5, MovedOn DEF Answered
<1>7. QED
  BY <1>1, <1>5, <1>6

(* An attempt is an answer from the cache, one from the engine that goes   *)
(* into the cache, or none.                                                *)
Attempted(s, a) ==
    /\ Taken(s, a)
    /\ run # None /\ run'.kind = run.kind /\ run' \in Run
    /\ UNCHANGED <<text, saved, late, layer, settled>>
    /\ bads' \in 0..MaxBad /\ faults' \in 0..MaxFault
    /\ \/ a \in Known(Asked(s)) /\ UNCHANGED <<cache, clean>>
       \/ /\ a \in Answer /\ Known(Asked(s)) = {} /\ cache' = cache \cup {<<Asked(s), a>>}
          /\ UNCHANGED clean
       \/ /\ a = "error" /\ Known(Asked(s)) = {} /\ UNCHANGED cache
          /\ clean' = [clean EXCEPT ![s] = FALSE]

LEMMA AttemptIs ==
    ASSUME Typed, NEW s \in Story, Attempt(s)
    PROVE  Asking(s) /\ \E a \in Answer \cup {"error"} : Attempted(s, a)
<1>1. TypeOK /\ "error" \notin Answer
  BY DEF Typed, Answer
<1>2. Asking(s) /\ run # None
  BY DEF Attempt, FromCache, FromEngine, EngineFails, Asking
<1>3. run \in Run /\ bads \in 0..MaxBad /\ faults \in 0..MaxFault
  BY <1>1, <1>2 DEF TypeOK
<1>4. run'= [run EXCEPT !.spent = TRUE] => run' \in Run /\ run'.kind = run.kind
  BY <1>3 DEF Run
<1>5. CASE FromCache(s)
  <2>1. PICK a \in Known(Asked(s)) : Parse(s, a)
    BY <1>5 DEF FromCache
  <2>2. a \in Answer /\ a # "error"
    BY <2>1, <1>1 DEF Known
  <2>3. Taken(s, a)
    BY <2>1, <2>2 DEF Taken
  <2>4. Attempted(s, a)
    BY <1>2, <1>3, <1>5, <2>1, <2>3 DEF FromCache, Attempted
  <2>5. QED
    BY <1>2, <2>2, <2>4
<1>6. CASE FromEngine(s)
  <2>1. PICK a \in Possible(s) : /\ a # "full" => bads < MaxBad
                                 /\ bads' = IF a # "full" THEN bads + 1 ELSE bads
                                 /\ cache' = Put(Asked(s), a)
                                 /\ Parse(s, a)
    BY <1>6 DEF FromEngine
  <2>2. a \in Answer /\ a # "error"
    BY <2>1, <1>1 DEF Possible
  <2>3. Taken(s, a)
    BY <2>1, <2>2 DEF Taken
  <2>4. bads' \in 0..MaxBad
    <3>1. a # "full" => bads < MaxBad
      BY <2>1
    <3>2. bads' = IF a # "full" THEN bads + 1 ELSE bads
      BY <2>1
    <3>3. QED
      BY <3>1, <3>2, <1>3, Numbers
  <2>5. cache' = cache \cup {<<Asked(s), a>>}
    BY <2>1 DEF Put
  <2>6. Attempted(s, a)
    BY <1>2, <1>3, <1>4, <1>6, <2>2, <2>3, <2>4, <2>5 DEF FromEngine, Attempted
  <2>7. QED
    BY <1>2, <2>2, <2>6
<1>7. CASE EngineFails(s)
  <2>1. Taken(s, "error")
    BY <1>7 DEF EngineFails, Taken
  <2>2. faults' \in 0..MaxFault
    <3>1. faults < MaxFault /\ faults' = faults + 1
      BY <1>7 DEF EngineFails
    <3>2. QED
      BY <3>1, <1>3, Numbers
  <2>3. Attempted(s, "error")
    BY <1>2, <1>3, <1>4, <1>7, <2>1, <2>2 DEF EngineFails, Attempted
  <2>4. QED
    BY <1>2, <2>3
<1>8. QED
  BY <1>5, <1>6, <1>7 DEF Attempt

-----------------------------------------------------------------------------
(* Types.                                                                  *)

LEMMA CarryOverTypes ==
    ASSUME TypeOK, NEW kind
    PROVE  CarryOver(kind) \in [Story -> Reading]
<1>1. saved # None => saved.read \in [Story -> Reading]
  BY DEF TypeOK, Layer
<1>2. [s \in Story |-> Unread] \in [Story -> Reading]
  BY ReadingTypes
<1>3. QED
  BY <1>1, <1>2 DEF CarryOver

LEMMA Resetting ==
    ASSUME ResetThreads, phase' \in [Story -> Phase]
    PROVE  /\ ThreadTypes' /\ clean' \in [Story -> BOOLEAN]
           /\ \A s \in Story : task'[s] = 0 /\ viewed'[s] = {}
<1>1. task' \in [Story -> 0..Over] /\ tries' \in [Story -> 0..MaxRetries]
  <2>1. 0 \in 0..Over /\ 0 \in 0..MaxRetries
    BY Numbers
  <2>2. QED
    BY <2>1 DEF ResetThreads
<1>2. feedback' \in [Story -> Feedback] /\ last' \in [Story -> {"none", "cut"}]
  BY DEF ResetThreads, Feedback
<1>3. got' \in [Story -> Reading]
  BY ReadingTypes DEF ResetThreads
<1>4. viewed' \in [Story -> SUBSET Contact] /\ clean' \in [Story -> BOOLEAN]
  BY DEF ResetThreads
<1>5. \A s \in Story : task'[s] = 0 /\ viewed'[s] = {}
  BY DEF ResetThreads
<1>6. QED
  BY <1>1, <1>2, <1>3, <1>4, <1>5 DEF ThreadTypes

LEMMA Ending ==
    ASSUME Typed, End
    PROVE  /\ ThreadTypes' /\ clean' \in [Story -> BOOLEAN]
           /\ run' = None /\ late' \in BOOLEAN /\ failed' \in BOOLEAN
           /\ layer' \in [Story -> Reading]
           /\ \A s \in Story : task'[s] = 0 /\ viewed'[s] = {} /\ phase'[s] = "out"
<1>1. phase' \in [Story -> Phase] /\ \A s \in Story : phase'[s] = "out"
  BY DEF End, Phase
<1>2. layer' \in [Story -> Reading]
  BY ReadingTypes DEF End
<1>3. ResetThreads
  BY DEF End
<1>4. QED
  BY <1>1, <1>2, <1>3, Resetting DEF End

LEMMA Forgetting ==
    ASSUME Typed, NEW s \in Story, Forget(s), NEW w \in Phase, phase' = [phase EXCEPT ![s] = w]
    PROVE  /\ ThreadTypes' /\ clean' \in [Story -> BOOLEAN] /\ OthersStay(s)
           /\ task'[s] = 0 /\ viewed'[s] = {} /\ phase'[s] = w
           /\ \A x \in Story \ {s} : clean'[x] = clean[x]
<1>1. TypeOK
  BY DEF Typed
<1>2. task' \in [Story -> 0..Over] /\ tries' \in [Story -> 0..MaxRetries]
  <2>1. 0 \in 0..Over /\ 0 \in 0..MaxRetries
    BY Numbers
  <2>2. QED
    BY <1>1, <2>1 DEF Forget, TypeOK
<1>3. feedback' \in [Story -> Feedback] /\ last' \in [Story -> {"none", "cut"}]
  BY <1>1 DEF Forget, TypeOK, Feedback
<1>4. got' \in [Story -> Reading]
  BY <1>1, ReadingTypes DEF Forget, TypeOK
<1>5. viewed' \in [Story -> SUBSET Contact] /\ clean' \in [Story -> BOOLEAN]
  BY <1>1 DEF Forget, TypeOK
<1>6. phase' \in [Story -> Phase]
  BY <1>1 DEF TypeOK
<1>7. OthersStay(s) /\ \A x \in Story \ {s} : clean'[x] = clean[x]
  BY <1>1 DEF Forget, TypeOK, OthersStay, Here
<1>8. task'[s] = 0 /\ viewed'[s] = {} /\ phase'[s] = w
  BY <1>1 DEF Forget, TypeOK
<1>9. QED
  BY <1>2, <1>3, <1>4, <1>5, <1>6, <1>7, <1>8 DEF ThreadTypes

LEMMA AskedTypes ==
    ASSUME TypeOK, NEW s \in Story, Asking(s), Thread(s)
    PROVE  Asked(s) \in Question
<1>1. run \in Run /\ task[s] \in 1..Verdict
  BY DEF TypeOK, Asking, Thread
<1>2. run.kind.by \in Reader
  BY <1>1, ContentAssumption DEF Run, Kind
<1>3. got[s].cards \in Cards /\ got[s].reasons \in Cards \cup {None} /\ feedback[s] \in Feedback
  BY DEF TypeOK, Reading
<1>4. QED
  BY <1>1, <1>2, <1>3 DEF Asked, Question, Told

(* What the other stories keep, if the run stays the same. *)
LEMMA OtherThreads ==
    ASSUME Typed, NEW s \in Story, OthersStay(s), run # None, run' # None, run'.kind = run.kind,
           Thread(s)'
    PROVE  \A x \in Story : Thread(x)'
<1> SUFFICES ASSUME NEW x \in Story, x # s
             PROVE  Thread(x)'
  OBVIOUS
<1>1. Here(x)' = Here(x) /\ phase'[x] = phase[x] /\ viewed'[x] = viewed[x]
  BY DEF OthersStay
<1>2. task'[x] = task[x]
  BY <1>1 DEF Here
<1>3. Thread(x)
  BY DEF Typed
<1>4. QED
  BY <1>1, <1>2, <1>3 DEF Thread

LEMMA TypedInit == Init => Typed
<1> SUFFICES ASSUME Init
             PROVE  Typed
  OBVIOUS
<1>1. text \in [Story -> SUBSET Contact] /\ cache \subseteq Question \X Answer
  BY DEF Init
<1>2. saved \in Layer \cup {None} /\ run \in Run \cup {None} /\ late \in BOOLEAN /\ failed \in BOOLEAN
      /\ settled \subseteq [by : Reader, story : Story, viewed : SUBSET Contact]
  BY DEF Init
<1>3. layer \in [Story -> Reading] /\ got \in [Story -> Reading]
  BY ReadingTypes DEF Init
<1>4. phase \in [Story -> Phase] /\ task \in [Story -> 0..Over] /\ tries \in [Story -> 0..MaxRetries]
      /\ bads \in 0..MaxBad /\ faults \in 0..MaxFault
  <2>1. 0 \in 0..Over /\ 0 \in 0..MaxRetries /\ 0 \in 0..MaxBad /\ 0 \in 0..MaxFault
    BY Numbers
  <2>2. QED
    BY <2>1 DEF Init, Phase
<1>5. feedback \in [Story -> Feedback] /\ last \in [Story -> {"none", "cut"}]
      /\ viewed \in [Story -> SUBSET Contact] /\ clean \in [Story -> BOOLEAN]
  BY DEF Init, Feedback
<1>6. TypeOK
  BY <1>1, <1>2, <1>3, <1>4, <1>5 DEF TypeOK
<1>7. ASSUME NEW s \in Story
      PROVE  Thread(s)
  <2>1. phase[s] = "out" /\ viewed[s] = {} /\ task[s] = 0 /\ run = None
    BY DEF Init
  <2>2. task[s] \notin Contact
    BY <2>1, Numbers
  <2>3. QED
    BY <2>1, <2>2 DEF Thread
<1>8. QED
  BY <1>6, <1>7 DEF Typed

LEMMA TypedNext == Typed /\ [Next]_vars => Typed'
<1> SUFFICES ASSUME Typed, [Next]_vars
             PROVE  Typed'
  OBVIOUS
<1>1. TypeOK /\ \A s \in Story : Thread(s)
  BY DEF Typed
<1>2. ThreadTypes
  BY <1>1 DEF TypeOK, ThreadTypes
<1>3. 0 \notin Contact
  BY Numbers
<1>4. ASSUME NEW s \in Story, Thread(s)', OthersStay(s), ThreadTypes', clean' \in [Story -> BOOLEAN],
             run # None, run' \in Run, run'.kind = run.kind,
             text' = text, saved' = saved, late' = late, cache' \subseteq Question \X Answer,
             layer' \in [Story -> Reading], failed' \in BOOLEAN,
             settled' \subseteq [by : Reader, story : Story, viewed : SUBSET Contact],
             bads' \in 0..MaxBad, faults' \in 0..MaxFault
      PROVE  Typed'
  <2>1. run' # None
    BY <1>4, NoneAssumption
  <2>2. TypeOK'
    BY <1>1, <1>4 DEF TypeOK, ThreadTypes
  <2>3. QED
    BY <2>1, <2>2, <1>4, OtherThreads DEF Typed
<1>5. ASSUME NEW s \in Story, Thread(s)', OthersStay(s), ThreadTypes', UNCHANGED clean,
             run # None, UNCHANGED <<text, cache, saved, run, late, failed, bads, faults>>,
             layer' \in [Story -> Reading],
             settled' \subseteq [by : Reader, story : Story, viewed : SUBSET Contact]
      PROVE  Typed'
  <2>1. run \in Run /\ clean \in [Story -> BOOLEAN] /\ cache \subseteq Question \X Answer
        /\ bads \in 0..MaxBad /\ faults \in 0..MaxFault /\ failed \in BOOLEAN
    BY <1>1, <1>5 DEF TypeOK
  <2>2. QED
    BY <2>1, <1>4, <1>5
<1>6. ASSUME NEW kind \in Commands, NEW spent \in BOOLEAN, Begin(kind, spent)
      PROVE  Typed'
  <2>1. run' \in Run /\ run'.kind = kind /\ run' # None
    BY <1>6, NoneAssumption DEF Begin, Run
  <2>2. \A s \in Story : phase'[s] = IF s \in kind.scope THEN "waiting" ELSE "out"
    BY <1>6 DEF Begin
  <2>3. phase' \in [Story -> Phase]
    BY <1>6 DEF Begin, Phase
  <2>4. /\ ThreadTypes' /\ clean' \in [Story -> BOOLEAN]
        /\ \A s \in Story : task'[s] = 0 /\ viewed'[s] = {}
    BY <1>6, <2>3, Resetting DEF Begin
  <2>5. layer' \in [Story -> Reading]
    BY <1>1, <1>6, CarryOverTypes DEF Begin
  <2>6. TypeOK'
    BY <1>1, <1>6, <2>1, <2>4, <2>5 DEF Begin, TypeOK, ThreadTypes
  <2>7. ASSUME NEW s \in Story
        PROVE  Thread(s)'
    BY <2>1, <2>2, <2>4, <1>3 DEF Thread
  <2>8. QED
    BY <2>6, <2>7 DEF Typed
<1>7. ASSUME NEW s \in Story, Open(s)
      PROVE  Typed'
  <2>1. phase[s] = "waiting" /\ run # None /\ MoveOn(s, 0, Unread)
    BY <1>7 DEF Open, InTurn
  <2>2. 0 \in 0..Verdict /\ Unread \in Reading /\ \A c \in viewed[s] : c <= 0
    <3>1. viewed[s] = {}
      BY <1>1, <2>1 DEF Thread
    <3>2. QED
      BY <3>1, ReadingTypes, Numbers
  <2>3. /\ ThreadTypes' /\ OthersStay(s)
        /\ Here(s)'.task \in 1..Over
        /\ phase'[s] = IF Here(s)'.task = Over THEN "read" ELSE "reading"
        /\ viewed'[s] = viewed[s] \cup ({Here(s)'.task} \cap Contact)
        /\ \A c \in viewed'[s] : c <= task'[s]
    BY <2>1, <2>2, MovedOn
  <2>4. Here(s)'.task = task'[s]
    BY DEF Here
  <2>5. run' = run
    BY <1>7 DEF Open
  <2>6. task'[s] # Over => task'[s] \in 1..Verdict
    BY <2>3, <2>4, Numbers
  <2>7. Thread(s)'
    BY <2>1, <2>3, <2>4, <2>5, <2>6 DEF Thread
  <2>8. QED
    BY <1>1, <1>5, <1>7, <2>1, <2>3, <2>7 DEF Open, TypeOK
<1>8. ASSUME NEW s \in Story, Skip(s)
      PROVE  Typed'
  <2>1. phase[s] = "waiting" /\ phase' = [phase EXCEPT ![s] = "skipped"] /\ run # None
        /\ UNCHANGED <<text, cache, saved, run, late, layer, thread, failed, settled, bads, faults>>
    BY <1>8 DEF Skip, InTurn
  <2>2. UNCHANGED <<task, tries, feedback, last, got, viewed, clean>>
    BY <2>1 DEF thread
  <2>3. ThreadTypes' /\ OthersStay(s)
    BY <1>2, <2>1, <2>2 DEF ThreadTypes, OthersStay, Here, Phase
  <2>4. phase'[s] = "skipped"
    BY <1>2, <2>1 DEF ThreadTypes
  <2>5. Thread(s)'
    BY <1>1, <2>1, <2>2, <2>4 DEF Thread
  <2>6. QED
    BY <1>1, <1>5, <2>1, <2>2, <2>3, <2>5 DEF TypeOK
<1>9. ASSUME NEW s \in Story, Attempt(s)
      PROVE  Typed'
  <2>1. Asking(s)
    BY <1>9, AttemptIs
  <2>2. PICK a \in Answer \cup {"error"} : Attempted(s, a)
    BY <1>9, AttemptIs
  <2>3. Answered(s, a)
    BY <2>1, <2>2, TakenFacts DEF Attempted
  <2>4. Here(s)'.task = task'[s]
    BY DEF Here
  <2>5. task'[s] # Over => task'[s] \in 1..Verdict
    BY <2>3, <2>4, Numbers DEF Answered
  <2>6. run # None /\ run' \in Run /\ run'.kind = run.kind /\ run' # None /\ phase[s] = "reading"
    BY <2>1, <2>2, NoneAssumption DEF Attempted, Asking
  <2>7. Thread(s)'
    <3>1. phase'[s] \in {"read", "reading"}
      BY <2>3 DEF Answered
    <3>2. phase'[s] = "reading" => task'[s] \in 1..Verdict
      BY <2>3, <2>4, <2>5 DEF Answered
    <3>3. phase'[s] = "read" => task'[s] = Over
      BY <2>3, <2>4 DEF Answered
    <3>4. \A c \in viewed'[s] : c <= task'[s]
      BY <2>3 DEF Answered
    <3>5. task'[s] \in Contact => task'[s] \in viewed'[s]
      BY <2>3, <2>4 DEF Answered
    <3>6. QED
      BY <3>1, <3>2, <3>3, <3>4, <3>5, <2>6 DEF Thread
  <2>8. cache' \subseteq Question \X Answer
    <3>1. Asked(s) \in Question
      BY <1>1, <2>1, AskedTypes
    <3>2. cache' = cache \/ (a \in Answer /\ cache' = cache \cup {<<Asked(s), a>>})
      BY <2>2 DEF Attempted
    <3>3. cache \subseteq Question \X Answer
      BY <1>1 DEF TypeOK
    <3>4. a \in Answer => <<Asked(s), a>> \in Question \X Answer
      BY <3>1
    <3>5. QED
      BY <3>2, <3>3, <3>4
  <2>9. clean' \in [Story -> BOOLEAN]
    BY <1>1, <2>2 DEF Attempted, TypeOK
  <2>10. failed' \in BOOLEAN
    BY <1>1, <2>1, <2>2, TakenIs DEF Attempted, Retried, Advanced, TypeOK
  <2>11. QED
    BY <1>1, <1>4, <2>2, <2>3, <2>6, <2>7, <2>8, <2>9, <2>10 DEF Attempted, Answered, TypeOK
<1>10. ASSUME NEW s \in Story, Record(s)
      PROVE  Typed'
  <2>1. /\ run # None /\ Forget(s) /\ phase' = [phase EXCEPT ![s] = "done"]
        /\ layer' = [layer EXCEPT ![s] = Merge(@, got[s])]
        /\ UNCHANGED <<text, cache, saved, run, late, failed, bads, faults>>
    BY <1>10 DEF Record
  <2>2. /\ ThreadTypes' /\ clean' \in [Story -> BOOLEAN] /\ OthersStay(s)
        /\ task'[s] = 0 /\ viewed'[s] = {} /\ phase'[s] = "done"
    BY <2>1, Forgetting DEF Phase
  <2>3. Thread(s)'
    BY <2>1, <2>2, <1>3 DEF Thread
  <2>4. layer' \in [Story -> Reading]
    BY <1>1, <2>1 DEF Merge, TypeOK
  <2>5. run \in Run
    BY <1>1, <2>1 DEF TypeOK
  <2>6. settled' \subseteq [by : Reader, story : Story, viewed : SUBSET Contact]
    <3>1. run.kind.by \in Reader /\ viewed[s] \in SUBSET Contact
      BY <1>1, <2>5, ContentAssumption DEF Run, Kind, TypeOK
    <3>2. QED
      BY <1>1, <1>10, <3>1 DEF Record, TypeOK
  <2>7. QED
    BY <1>1, <1>4, <2>1, <2>2, <2>3, <2>4, <2>5, <2>6 DEF TypeOK
<1>11. ASSUME NEW s \in Story, Unreadable(s)
      PROVE  Typed'
  <2>1. /\ run # None /\ Forget(s) /\ phase' = [phase EXCEPT ![s] = "done"]
        /\ faults < MaxFault /\ faults' = faults + 1 /\ failed' = TRUE
        /\ UNCHANGED <<text, cache, saved, run, late, layer, settled, bads>>
    BY <1>11 DEF Unreadable, Asking
  <2>2. /\ ThreadTypes' /\ clean' \in [Story -> BOOLEAN] /\ OthersStay(s)
        /\ task'[s] = 0 /\ viewed'[s] = {} /\ phase'[s] = "done"
    BY <2>1, Forgetting DEF Phase
  <2>3. Thread(s)'
    BY <2>1, <2>2, <1>3 DEF Thread
  <2>4. faults' \in 0..MaxFault
    BY <1>1, <2>1, Numbers DEF TypeOK
  <2>5. run \in Run
    BY <1>1, <2>1 DEF TypeOK
  <2>6. QED
    BY <1>1, <1>4, <2>1, <2>2, <2>3, <2>4, <2>5 DEF TypeOK
<1>12. ASSUME NEW s \in Story, NEW c \in Contact, Transcribed(s, c)
      PROVE  Typed'
  <2>1. text' \in [Story -> SUBSET Contact]
    BY <1>1, <1>12 DEF Transcribed, TypeOK
  <2>2. UNCHANGED <<cache, saved, run, late, layer, phase, task, tries, feedback, last, got, viewed,
                    clean, failed, settled, bads, faults>>
    BY <1>12 DEF Transcribed, thread
  <2>3. TypeOK'
    BY <1>1, <2>1, <2>2 DEF TypeOK
  <2>4. ASSUME NEW x \in Story
        PROVE  Thread(x)'
    BY <1>1, <2>2 DEF Thread
  <2>5. QED
    BY <2>3, <2>4 DEF Typed
<1>13. ASSUME End, saved' \in Layer \cup {None}, UNCHANGED <<text, cache, settled, bads>>,
              faults' \in 0..MaxFault
       PROVE  Typed'
  <2>1. TypeOK'
    BY <1>1, <1>13, Ending DEF TypeOK, ThreadTypes
  <2>2. ASSUME NEW s \in Story
        PROVE  Thread(s)'
    BY <1>3, <1>13, Ending DEF Thread
  <2>3. QED
    BY <2>1, <2>2 DEF Typed
<1>14. CASE Finish
  <2>1. run # None /\ run \in Run
    BY <1>1, <1>14 DEF Finish, Finished, TypeOK
  <2>2. run.kind.by \in Reader
    BY <2>1, ContentAssumption DEF Run, Kind
  <2>3. saved' \in Layer \cup {None}
    BY <1>1, <1>14, <2>2 DEF Finish, TypeOK, Layer
  <2>4. QED
    BY <1>1, <1>13, <1>14, <2>3 DEF Finish, TypeOK
<1>15. CASE Deadline
  <2>1. UNCHANGED <<text, cache, saved, run, layer, phase, task, tries, feedback, last, got, viewed,
                    clean, failed, settled, bads, faults>> /\ late' \in BOOLEAN
    BY <1>15 DEF Deadline, thread
  <2>2. TypeOK'
    BY <1>1, <2>1 DEF TypeOK
  <2>3. ASSUME NEW x \in Story
        PROVE  Thread(x)'
    BY <1>1, <2>1 DEF Thread
  <2>4. QED
    BY <2>2, <2>3 DEF Typed
<1>16. CASE Crash
  <2>1. faults' \in 0..MaxFault
    BY <1>1, <1>16, Numbers DEF Crash, TypeOK
  <2>2. QED
    BY <1>1, <1>13, <1>16, <2>1 DEF Crash, TypeOK
<1>17. CASE UNCHANGED vars
  <2>1. UNCHANGED <<text, cache, saved, run, late, layer, phase, task, tries, feedback, last, got,
                    viewed, clean, failed, settled, bads, faults>>
    BY <1>17 DEF vars, thread
  <2>2. TypeOK'
    BY <1>1, <2>1 DEF TypeOK
  <2>3. ASSUME NEW x \in Story
        PROVE  Thread(x)'
    BY <1>1, <2>1 DEF Thread
  <2>4. QED
    BY <2>2, <2>3 DEF Typed
<1>18. QED
  BY <1>6, <1>7, <1>8, <1>9, <1>10, <1>11, <1>12, <1>14, <1>15, <1>16, <1>17 DEF Next, Work

(* Every variable of the stage keeps its type. *)
THEOREM Typing == Spec => []TypeOK
<1>1. Typed => TypeOK
  BY DEF Typed
<1>2. QED
  BY <1>1, TypedInit, TypedNext, PTL DEF Spec

-----------------------------------------------------------------------------
(* A reading is in one piece.                                              *)

Whole(r) ==
    /\ r.reasons # None => r.reasons = r.cards
    /\ r.verdict # None => r.verdict = [cards |-> r.cards, reasons |-> r.reasons]

\* Before the question it is at, a story has what was asked for, unless a
\* failure was counted; after it, nothing.
Gathered(s) ==
    /\ Whole(got[s])
    /\ task[s] <= Returns => got[s].reasons = None
    /\ task[s] <= Verdict => got[s].verdict = None
    /\ ~failed =>
          /\ \A c \in viewed[s] : c # task[s] => got[s].cards[c] # "none"
          /\ task[s] > Returns /\ ToClassify(s, got[s].cards) # {} => got[s].reasons # None
          /\ task[s] = Over /\ viewed[s] # {} => got[s].verdict # None

Pieces ==
    \A s \in Story : Gathered(s) /\ Whole(layer[s]) /\ (saved # None => Whole(saved.read[s]))

LEMMA FreshIsGathered ==
    /\ ~(0 > Returns) /\ 0 # Over
    /\ Whole(Unread) /\ Unread.reasons = None /\ Unread.verdict = None
<1>1. ~(0 > Returns) /\ 0 # Over
  BY Numbers
<1>2. QED
  BY <1>1, ReadingTypes DEF Whole

LEMMA GatheredOn ==
    ASSUME Typed, NEW s \in Story, NEW t \in 0..Verdict, NEW g \in Reading, MoveOn(s, t, g),
           \A c \in viewed[s] : c <= t, Whole(g),
           t < Returns => g.reasons = None, t < Verdict => g.verdict = None,
           ~failed' => /\ \A c \in viewed[s] : g.cards[c] # "none"
                       /\ t >= Returns /\ ToClassify(s, g.cards) # {} => g.reasons # None
                       /\ t = Verdict /\ viewed[s] # {} => g.verdict # None
    PROVE  Gathered(s)'
<1>1. Here(s)' = Onward(s, text[s], t, g)
  BY MovedOn
<1>2. viewed'[s] = viewed[s] \cup ({Here(s)'.task} \cap Contact)
  BY MovedOn
<1>3. PICK next : next = Following(s, text[s], t, g)
  OBVIOUS
<1>4. task'[s] = next /\ got'[s] = g /\ viewed'[s] = viewed[s] \cup ({next} \cap Contact)
  <2>1. task'[s] = next /\ got'[s] = g
    BY <1>1, <1>3 DEF Here, Onward
  <2>2. Here(s)'.task = task'[s]
    BY DEF Here
  <2>3. QED
    BY <1>2, <2>1, <2>2
<1>5. text[s] \subseteq Contact /\ viewed[s] \subseteq Contact
  BY DEF Typed, TypeOK
<1>6. IsNext(s, text[s], t, g, next)
  BY <1>3, <1>5, FollowingFacts
<1>7. next \in 1..Over /\ t < next
  BY <1>6 DEF IsNext
<1>8. next <= Returns => g.reasons = None
  BY <1>7, Numbers
<1>9. next <= Verdict => g.verdict = None
  BY <1>7, Numbers
<1>10. ASSUME ~failed'
       PROVE  /\ \A c \in viewed'[s] : c # next => g.cards[c] # "none"
              /\ next > Returns /\ ToClassify(s, g.cards) # {} => g.reasons # None
              /\ next = Over /\ viewed'[s] # {} => g.verdict # None
  <2>1. /\ \A c \in viewed[s] : g.cards[c] # "none"
        /\ t >= Returns /\ ToClassify(s, g.cards) # {} => g.reasons # None
        /\ t = Verdict /\ viewed[s] # {} => g.verdict # None
    BY <1>10
  <2>2. next > Returns => next = Verdict \/ next = Over
    BY <1>7, Numbers
  <2>3. g.cards = NoCards => ToClassify(s, g.cards) = {}
    BY ReadingTypes DEF ToClassify
  <2>4. t < Returns /\ next > Returns => ToClassify(s, g.cards) = {}
    BY <1>6, <2>2, <2>3 DEF IsNext
  <2>5. t >= Returns \/ t < Returns
    BY Numbers
  <2>6. next > Returns /\ ToClassify(s, g.cards) # {} => g.reasons # None
    BY <2>1, <2>4, <2>5
  <2>7. \A c \in viewed'[s] : c # next => g.cards[c] # "none"
    BY <1>4, <2>1
  <2>8. ASSUME next = Over, viewed'[s] # {}
        PROVE  g.verdict # None
    <3>1. viewed[s] # {}
      <4>1. Over \notin Contact
        BY Numbers
      <4>2. QED
        BY <1>4, <2>8, <4>1
    <3>2. PICK c \in viewed[s] : g.cards[c] # "none" /\ c \in Contact
      BY <2>1, <3>1, <1>5
    <3>3. g.cards # NoCards
      BY <3>2, ReadingTypes
    <3>4. ~(t < Returns)
      BY <1>6, <2>8, <3>3 DEF IsNext
    <3>5. t = Returns => next = Verdict
      BY <1>6 DEF IsNext
    <3>6. t = Verdict
      BY <3>4, <3>5, <2>8, Numbers
    <3>7. QED
      BY <2>1, <3>1, <3>6
  <2>9. QED
    BY <2>6, <2>7, <2>8
<1>11. QED
  BY <1>4, <1>8, <1>9, <1>10 DEF Gathered

LEMMA AnswerGathers ==
    ASSUME Typed, NEW s \in Story, Gathered(s), Asking(s), NEW a \in Answer \cup {"error"}, Taken(s, a)
    PROVE  Gathered(s)'
<1>1. TypeOK /\ Thread(s) /\ task[s] \in 1..Verdict /\ Here(s) \in Point
  BY HereTypes DEF Typed, Asking, Thread
<1>2. CASE Retried(s, a)
  BY <1>2 DEF Retried, Gathered
<1>3. CASE Advanced(s, a)
  <2> DEFINE g == Result(Here(s), a)
  <2>1. MoveOn(s, task[s], g) /\ g \in Reading
    BY <1>1, <1>3, ResultTypes DEF Advanced
  <2>2. task[s] \in 0..Verdict /\ \A c \in viewed[s] : c <= task[s]
    BY <1>1, Numbers DEF Thread
  <2>3. got[s] \in Reading /\ viewed[s] \subseteq Contact /\ Here(s).got = got[s] /\ Here(s).task = task[s]
    BY <1>1 DEF TypeOK, Here
  <2>4. /\ task[s] < Returns => got[s].reasons = None
        /\ got[s].verdict = None /\ Whole(got[s])
    BY <1>1, Numbers DEF Gathered
  <2>5. CASE g = got[s] /\ failed' = TRUE
    BY <2>1, <2>2, <2>4, <2>5, GatheredOn
  <2>6. ASSUME NEW b \in {"full", "cut"}, g = Given(Here(s), b), failed' = failed
        PROVE  Gathered(s)'
    <3>1. CASE task[s] \in Contact
      <4>1. g = [got[s] EXCEPT !.cards = [got[s].cards EXCEPT ![task[s]] = b]]
        BY <1>1, <2>3, <2>6, <3>1, GivenTypes
      <4>2. g.reasons = got[s].reasons /\ g.verdict = got[s].verdict
            /\ g.cards = [got[s].cards EXCEPT ![task[s]] = b]
        BY <2>3, <4>1 DEF Reading
      <4>3. task[s] < Returns /\ task[s] # Verdict
        BY <3>1, Numbers
      <4>4. Whole(g) /\ g.reasons = None /\ g.verdict = None
        BY <2>4, <4>2, <4>3 DEF Whole
      <4>5. got[s].cards \in [Contact -> Card]
        BY <2>3 DEF Reading, Cards
      <4>6. ~failed' => \A c \in viewed[s] : g.cards[c] # "none"
        BY <2>3, <2>6, <4>2, <4>5 DEF Gathered
      <4>7. ~(task[s] >= Returns)
        BY <3>1, Numbers
      <4>8. QED
        BY <2>1, <2>2, <4>3, <4>4, <4>6, <4>7, GatheredOn
    <3>2. \A c \in viewed[s] : task[s] \notin Contact => c # task[s]
      BY <2>3
    <3>3. CASE task[s] = Returns
      <4>1. task[s] \notin Contact /\ Returns < Verdict /\ Returns # Verdict /\ ~(Returns < Returns)
        BY <3>3, Numbers
      <4>2. g = [got[s] EXCEPT !.reasons = got[s].cards]
        BY <2>3, <2>6, <3>3, <4>1 DEF Given
      <4>3. g.reasons = got[s].cards /\ g.verdict = got[s].verdict /\ g.cards = got[s].cards
        BY <2>3, <4>2 DEF Reading
      <4>4. g.reasons # None
        BY <2>3, <4>3, NoneAssumption DEF Reading
      <4>5. Whole(g) /\ g.verdict = None
        BY <2>4, <4>3 DEF Whole
      <4>6. ~failed' => \A c \in viewed[s] : g.cards[c] # "none"
        BY <2>6, <3>2, <4>1, <4>3 DEF Gathered
      <4>7. QED
        BY <2>1, <2>2, <3>3, <4>1, <4>4, <4>5, <4>6, GatheredOn
    <3>4. CASE task[s] = Verdict
      <4>1. task[s] \notin Contact /\ Returns # Verdict /\ Verdict > Returns /\ ~(Verdict < Returns)
            /\ ~(Verdict < Verdict)
        BY <3>4, Numbers
      <4>2. g = [got[s] EXCEPT !.verdict = [cards |-> got[s].cards, reasons |-> got[s].reasons]]
        BY <2>3, <2>6, <3>4, <4>1 DEF Given
      <4>3. g.reasons = got[s].reasons /\ g.cards = got[s].cards
            /\ g.verdict = [cards |-> got[s].cards, reasons |-> got[s].reasons]
        BY <2>3, <4>2 DEF Reading
      <4>4. g.verdict # None
        BY <2>3, <4>3, NoneAssumption DEF Reading, Told
      <4>5. Whole(g)
        BY <2>4, <4>3 DEF Whole
      <4>6. ~failed' => /\ \A c \in viewed[s] : g.cards[c] # "none"
                        /\ ToClassify(s, g.cards) # {} => g.reasons # None
        BY <2>6, <3>2, <3>4, <4>1, <4>3 DEF Gathered
      <4>7. QED
        BY <2>1, <2>2, <3>4, <4>1, <4>4, <4>5, <4>6, GatheredOn
    <3>5. QED
      BY <1>1, <3>1, <3>3, <3>4, Numbers
  <2>7. QED
    BY <1>3, <2>5, <2>6, <2>3 DEF Advanced
<1>4. QED
  BY <1>2, <1>3, TakenIs

LEMMA OthersGathered ==
    ASSUME NEW s \in Story, OthersStay(s), failed => failed', \A x \in Story : Gathered(x),
           Gathered(s)'
    PROVE  \A x \in Story : Gathered(x)'
<1> SUFFICES ASSUME NEW x \in Story, x # s
             PROVE  Gathered(x)'
  OBVIOUS
<1>1. Here(x)' = Here(x) /\ viewed'[x] = viewed[x]
  BY DEF OthersStay
<1>2. task'[x] = task[x] /\ got'[x] = got[x]
  BY <1>1 DEF Here
<1>3. Gathered(x) /\ (~failed' => ~failed)
  OBVIOUS
<1>4. QED
  BY <1>1, <1>2, <1>3 DEF Gathered

LEMMA PiecesInit == Init => Pieces
<1> SUFFICES ASSUME Init
             PROVE  Pieces
  OBVIOUS
<1>1. ASSUME NEW s \in Story
      PROVE  Gathered(s) /\ Whole(layer[s]) /\ saved = None
  <2>1. got[s] = Unread /\ task[s] = 0 /\ viewed[s] = {} /\ layer[s] = Unread /\ saved = None
    BY DEF Init
  <2>2. Whole(Unread)
    BY ReadingTypes DEF Whole
  <2>3. QED
    BY <2>1, <2>2, FreshIsGathered DEF Gathered
<1>2. QED
  BY <1>1 DEF Pieces

LEMMA PiecesNext == Typed /\ Pieces /\ [Next]_vars => Pieces'
<1> SUFFICES ASSUME Typed, Pieces, [Next]_vars
             PROVE  Pieces'
  OBVIOUS
<1>1. /\ \A s \in Story : Gathered(s) /\ Whole(layer[s])
      /\ saved # None => \A s \in Story : Whole(saved.read[s])
  BY DEF Pieces
<1>2. TypeOK /\ \A s \in Story : Thread(s)
  BY DEF Typed
<1>3. Whole(Unread)
  BY ReadingTypes DEF Whole
<1>4. ASSUME ResetThreads
      PROVE  \A s \in Story : Gathered(s)'
  <2> SUFFICES ASSUME NEW s \in Story
               PROVE  Gathered(s)'
    OBVIOUS
  <2>1. got'[s] = Unread /\ task'[s] = 0 /\ viewed'[s] = {}
    BY <1>4 DEF ResetThreads
  <2>2. QED
    BY <2>1, FreshIsGathered DEF Gathered
<1>5. ASSUME NEW s \in Story, Gathered(s)', OthersStay(s), failed => failed', UNCHANGED <<layer, saved>>
      PROVE  Pieces'
  BY <1>1, <1>5, OthersGathered DEF Pieces
<1>6. ASSUME NEW kind \in Commands, NEW spent \in BOOLEAN, Begin(kind, spent)
      PROVE  Pieces'
  <2>1. ResetThreads /\ layer' = CarryOver(kind) /\ saved' = saved
    BY <1>6 DEF Begin
  <2>2. \A s \in Story : Whole(CarryOver(kind)[s])
    BY <1>1, <1>3 DEF CarryOver
  <2>3. QED
    BY <1>1, <1>4, <2>1, <2>2 DEF Pieces
<1>7. ASSUME NEW s \in Story, Open(s)
      PROVE  Pieces'
  <2>1. MoveOn(s, 0, Unread) /\ UNCHANGED <<layer, saved, failed>> /\ viewed[s] = {}
    BY <1>2, <1>7 DEF Open, InTurn, Thread
  <2>2. 0 \in 0..Verdict /\ 0 < Returns /\ 0 < Verdict /\ ~(0 >= Returns) /\ 0 # Verdict
    BY Numbers
  <2>3. OthersStay(s)
    BY <2>1, <2>2, MovedOn, ReadingTypes
  <2>4. Gathered(s)'
    BY <1>3, <2>1, <2>2, GatheredOn, ReadingTypes
  <2>5. QED
    BY <1>5, <2>1, <2>3, <2>4
<1>8. ASSUME NEW s \in Story, Attempt(s)
      PROVE  Pieces'
  <2>1. Asking(s)
    BY <1>8, AttemptIs
  <2>2. PICK a \in Answer \cup {"error"} : Attempted(s, a)
    BY <1>8, AttemptIs
  <2>3. Taken(s, a) /\ UNCHANGED <<layer, saved>>
    BY <2>2 DEF Attempted
  <2>4. OthersStay(s)
    BY <2>1, <2>3, TakenFacts DEF Answered
  <2>5. failed => failed'
    BY <2>1, <2>3, TakenIs DEF Retried, Advanced
  <2>6. Gathered(s)'
    BY <1>1, <2>1, <2>3, AnswerGathers
  <2>7. QED
    BY <1>5, <2>3, <2>4, <2>5, <2>6
<1>9. ASSUME NEW s \in Story, NEW w \in Phase, Forget(s), phase' = [phase EXCEPT ![s] = w],
             failed => failed'
      PROVE  \A x \in Story : Gathered(x)'
  <2>1. OthersStay(s) /\ task'[s] = 0 /\ viewed'[s] = {}
    BY <1>9, Forgetting
  <2>2. got'[s] = Unread
    BY <1>2, <1>9 DEF Forget, TypeOK
  <2>3. Gathered(s)'
    BY <2>1, <2>2, FreshIsGathered DEF Gathered
  <2>4. QED
    BY <1>1, <1>9, <2>1, <2>3, OthersGathered
<1>10. ASSUME NEW s \in Story, Record(s)
       PROVE  Pieces'
  <2>1. /\ Forget(s) /\ phase' = [phase EXCEPT ![s] = "done"] /\ UNCHANGED <<failed, saved>>
        /\ layer' = [layer EXCEPT ![s] = got[s]]
    BY <1>10 DEF Record, Merge
  <2>2. \A x \in Story : Gathered(x)'
    BY <1>9, <2>1 DEF Phase
  <2>3. \A x \in Story : Whole(layer'[x])
    <3>1. Whole(got[s])
      BY <1>1 DEF Gathered
    <3>2. \A x \in Story : layer'[x] = IF x = s THEN got[s] ELSE layer[x]
      BY <1>2, <2>1 DEF TypeOK
    <3>3. QED
      BY <1>1, <3>1, <3>2
  <2>4. QED
    BY <1>1, <2>1, <2>2, <2>3 DEF Pieces
<1>11. ASSUME NEW s \in Story, Unreadable(s)
       PROVE  Pieces'
  <2>1. /\ Forget(s) /\ phase' = [phase EXCEPT ![s] = "done"] /\ failed' = TRUE
        /\ UNCHANGED <<layer, saved>>
    BY <1>11 DEF Unreadable
  <2>2. QED
    BY <1>1, <1>9, <2>1 DEF Pieces, Phase
<1>12. ASSUME UNCHANGED <<task, got, viewed, failed, layer, saved>>
       PROVE  Pieces'
  BY <1>1, <1>12 DEF Pieces, Gathered
<1>13. ASSUME NEW s \in Story, Skip(s)
       PROVE  Pieces'
  BY <1>12, <1>13 DEF Skip, thread
<1>14. ASSUME NEW s \in Story, NEW c \in Contact, Transcribed(s, c)
       PROVE  Pieces'
  BY <1>12, <1>14 DEF Transcribed, thread
<1>15. ASSUME End
       PROVE  \A s \in Story : Gathered(s)' /\ Whole(layer'[s])
  BY <1>3, <1>4, <1>15 DEF End
<1>16. CASE Finish
  <2>1. saved' # None => \A s \in Story : Whole(saved'.read[s])
    BY <1>1, <1>16 DEF Finish
  <2>2. QED
    BY <1>15, <1>16, <2>1 DEF Finish, Pieces
<1>17. CASE Deadline
  BY <1>12, <1>17 DEF Deadline, thread
<1>18. CASE Crash
  BY <1>1, <1>15, <1>18 DEF Crash, Pieces
<1>19. CASE UNCHANGED vars
  BY <1>12, <1>19 DEF vars, thread
<1>20. QED
  BY <1>6, <1>7, <1>8, <1>10, <1>11, <1>13, <1>14, <1>16, <1>17, <1>18, <1>19 DEF Next, Work

LEMMA PiecesMakeItWhole == Typed /\ Pieces => ReadingIsWhole
<1> SUFFICES ASSUME Typed, Pieces
             PROVE  ReadingIsWhole
  OBVIOUS
<1>1. Consistent
  BY DEF Pieces, Consistent, Whole
<1>2. ASSUME NEW s \in Story, phase[s] = "read", ~failed, viewed[s] # {}
      PROVE  /\ \A c \in viewed[s] : got[s].cards[c] # "none"
             /\ ToClassify(s, got[s].cards) # {} => got[s].reasons # None
             /\ got[s].verdict # None
  <2>1. task[s] = Over /\ Gathered(s) /\ viewed[s] \subseteq Contact
    BY <1>2 DEF Typed, TypeOK, Thread, Pieces
  <2>2. Over > Returns /\ Over \notin Contact
    BY Numbers
  <2>3. QED
    BY <1>2, <2>1, <2>2 DEF Gathered
<1>3. QED
  BY <1>1, <1>2 DEF ReadingIsWhole, Counted

(* Whatever the engine answers or fails to answer, whichever stories a run  *)
(* gets to and wherever it is killed, reasons and verdict of every reading, *)
(* saved or not, were given for the cards they are with, and a reading that *)
(* lacks something was counted as failed (content.py:15-17, 416-427).       *)
THEOREM ReadingStaysWhole == Spec => []ReadingIsWhole
<1>1. QED
  BY TypedInit, TypedNext, PiecesInit, PiecesNext, PiecesMakeItWhole, PTL DEF Spec

-----------------------------------------------------------------------------
(* What is kept.                                                           *)

\* A run has, of each story it has not got to, what was saved by its reader.
Kept ==
    saved # None /\ run # None /\ saved.by = run.kind.by =>
        \A s \in Story : phase[s] # "done" => layer[s] = saved.read[s]

LEMMA KeptNext == Typed /\ Kept /\ [Next]_vars => Kept'
<1> SUFFICES ASSUME Typed, Kept, [Next]_vars
             PROVE  Kept'
  OBVIOUS
<1>1. TypeOK
  BY DEF Typed
<1>2. ASSUME run # None, run'.kind = run.kind, UNCHANGED <<saved, layer>>,
             \A x \in Story : phase[x] = "done" => phase'[x] = "done"
      PROVE  Kept'
  BY <1>2 DEF Kept
<1>3. ASSUME NEW kind \in Commands, NEW spent \in BOOLEAN, Begin(kind, spent)
      PROVE  Kept'
  <2>1. run'.kind = kind /\ layer' = CarryOver(kind) /\ saved' = saved
    BY <1>3 DEF Begin
  <2>2. QED
    BY <2>1 DEF Kept, CarryOver
<1>4. ASSUME NEW s \in Story, run # None, run'.kind = run.kind, UNCHANGED <<saved, layer>>,
             OthersStay(s), phase[s] # "done"
      PROVE  Kept'
  BY <1>2, <1>4 DEF OthersStay
<1>5. ASSUME NEW s \in Story, Open(s)
      PROVE  Kept'
  <2>1. /\ MoveOn(s, 0, Unread) /\ UNCHANGED <<run, layer, saved>> /\ viewed[s] = {}
        /\ phase[s] = "waiting" /\ run # None
    BY <1>5 DEF Typed, Open, InTurn, Thread
  <2>2. OthersStay(s)
    BY <2>1, MovedOn, ReadingTypes, Numbers
  <2>3. QED
    BY <1>4, <2>1, <2>2
<1>6. ASSUME NEW s \in Story, Skip(s)
      PROVE  Kept'
  BY <1>1, <1>2, <1>6 DEF Skip, InTurn, TypeOK
<1>7. ASSUME NEW s \in Story, Attempt(s)
      PROVE  Kept'
  <2>1. Asking(s)
    BY <1>7, AttemptIs
  <2>2. PICK a \in Answer \cup {"error"} : Attempted(s, a)
    BY <1>7, AttemptIs
  <2>3. OthersStay(s)
    BY <2>1, <2>2, TakenFacts DEF Answered, Attempted
  <2>4. QED
    BY <1>4, <2>1, <2>2, <2>3 DEF Attempted, Asking
<1>8. ASSUME NEW s \in Story, Record(s)
      PROVE  Kept'
  <2>1. /\ phase' = [phase EXCEPT ![s] = "done"] /\ UNCHANGED <<run, saved>>
        /\ layer' = [layer EXCEPT ![s] = Merge(@, got[s])]
    BY <1>8 DEF Record
  <2>2. \A x \in Story : phase'[x] # "done" => phase[x] # "done" /\ layer'[x] = layer[x]
    BY <1>1, <2>1 DEF TypeOK
  <2>3. QED
    BY <2>1, <2>2 DEF Kept
<1>9. ASSUME NEW s \in Story, Unreadable(s)
      PROVE  Kept'
  BY <1>1, <1>2, <1>9 DEF Unreadable, Asking, TypeOK
<1>10. ASSUME UNCHANGED <<saved, run, layer, phase>>
       PROVE  Kept'
  BY <1>10 DEF Kept
<1>11. ASSUME NEW s \in Story, NEW c \in Contact, Transcribed(s, c)
       PROVE  Kept'
  BY <1>10, <1>11 DEF Transcribed
<1>12. ASSUME run' = None
       PROVE  Kept'
  BY <1>12 DEF Kept
<1>13. CASE Finish
  BY <1>12, <1>13 DEF Finish, End
<1>14. CASE Deadline
  BY <1>10, <1>14 DEF Deadline
<1>15. CASE Crash
  BY <1>12, <1>15 DEF Crash, End
<1>16. CASE UNCHANGED vars
  BY <1>10, <1>16 DEF vars
<1>17. QED
  BY <1>3, <1>5, <1>6, <1>7, <1>8, <1>9, <1>11, <1>13, <1>14, <1>15, <1>16 DEF Next, Work

(* Only the end of a run saves anything. *)
LEMMA OnlyFinishSaves ==
    ASSUME Typed, [Next]_vars, saved' # saved
    PROVE  Finish
<1>1. ASSUME NEW s \in Story, Attempt(s)
      PROVE  saved' = saved
  BY <1>1, AttemptIs DEF Attempted
<1>2. QED
  BY <1>1 DEF Next, Work, Begin, Open, Skip, Record, Unreadable, Transcribed, Deadline, Crash, vars

(* A story that a run did not get to keeps what an earlier run of the same  *)
(* reader read, and a run of another reader that did not get to it saves    *)
(* nothing (content.py:355-358).                                            *)
THEOREM UnreadStoriesAreKept == Spec => UnreadKept
<1>1. Init => Kept
  BY DEF Init, Kept
<1>2. ASSUME Typed, Kept, [Next]_vars, saved # None, saved' # saved, NEW s \in Story, phase[s] # "done"
      PROVE  saved'.by = saved.by /\ saved'.read[s] = saved.read[s]
  <2>1. Finish
    BY <1>2, OnlyFinishSaves
  <2>2. /\ run # None /\ phase[s] \in {"out", "skipped"} /\ MaySave
        /\ saved' = [by |-> run.kind.by, read |-> layer]
    BY <1>2, <2>1 DEF Finish, Finished
  <2>3. saved.by = run.kind.by
    <3>1. SUFFICES ASSUME ~Partial
                   PROVE  FALSE
      BY <1>2, <2>2 DEF MaySave
    <3>2. run.kind.scope = Story /\ phase[s] # "skipped"
      BY <3>1 DEF Partial
    <3>3. phase[s] # "out"
      BY <1>2, <2>2, <3>2 DEF Typed, Thread
    <3>4. QED
      BY <2>2, <3>2, <3>3
  <2>4. QED
    BY <1>2, <2>2, <2>3 DEF Kept
<1>3. Typed /\ Kept /\ [Next]_vars =>
          [(saved # None /\ saved' # saved) =>
              \A s \in Story : phase[s] # "done" =>
                  saved'.by = saved.by /\ saved'.read[s] = saved.read[s]]_vars
  BY <1>2
<1>4. QED
  BY <1>1, <1>3, TypedInit, TypedNext, KeptNext, PTL DEF Spec, UnreadKept

-----------------------------------------------------------------------------
(* Reading again costs nothing.  A clean reading leaves a trail: the points *)
(* it went through, each but the last with a cached answer that leads to    *)
(* another of them.  A later run of the same reader that finds the same     *)
(* contacts starts on that trail and, as a question has one answer, never   *)
(* leaves it.                                                               *)

Asks(r, s, p) ==
    [by |-> r, story |-> s, task |-> p.task,
     told |-> [cards |-> p.got.cards, reasons |-> p.got.reasons], after |-> p.feedback]

Beginning(s, there) == Onward(s, there, 0, Unread)

\* From p, a cached answer leads on to a point of P.
LeadsOn(r, s, there, p, P) ==
    \E a \in Answer : <<Asks(r, s, p), a>> \in cache /\ After(s, there, p, a) \in P

\* The trail of a whole reading, and one that has come as far as here.
Trail(r, s, there, P) ==
    /\ Beginning(s, there) \in P
    /\ \A p \in P : p.task # Over => LeadsOn(r, s, there, p, P)

TrailTo(r, s, there, here, P) ==
    /\ Beginning(s, there) \in P
    /\ here \in P
    /\ \A p \in P : p.task <= here.task
    /\ \A p \in P \ {here} : p.task # Over /\ LeadsOn(r, s, there, p, P)

OneAnswer ==
    \A q \in Question, a \in Answer, b \in Answer :
        <<q, a>> \in cache /\ <<q, b>> \in cache => a = b

UnderWay(s) == run # None /\ phase[s] \in {"reading", "read"}

\* As d did, so far.
InItsSteps(s, d) == d.by = run.kind.by /\ viewed[s] = {c \in d.viewed : c <= task[s]}

Settled(s, d) ==
    \E P \in SUBSET Point :
        Trail(d.by, s, d.viewed, P) /\ (UnderWay(s) /\ InItsSteps(s, d) => Here(s) \in P)

OnTrail(s) ==
    UnderWay(s) /\ clean[s] =>
        \E P \in SUBSET Point : TrailTo(run.kind.by, s, viewed[s], Here(s), P)

Trails ==
    /\ OneAnswer
    /\ \A d \in settled : Settled(d.story, d)
    /\ \A s \in Story : OnTrail(s)

LEMMA AskedIs ==
    ASSUME NEW s \in Story
    PROVE  Asked(s) = Asks(run.kind.by, s, Here(s))
BY DEF Asked, Asks, Here

(* The contact that is looked at next is the next one of those looked at,  *)
LEMMA FollowingSeen ==
    ASSUME NEW s \in Story, NEW there, there \subseteq Contact, NEW seen, seen \subseteq Contact,
           NEW t \in 0..Verdict, NEW g, \A c \in seen : c <= t,
           NEW next, next = Following(s, there, t, g)
    PROVE  Following(s, seen \cup ({next} \cap Contact), t, g) = next
<1> DEFINE other == seen \cup ({next} \cap Contact)
<1>1. IsNext(s, there, t, g, next)
  BY FollowingFacts
<1>2. next \in 1..Over /\ t < next
  BY <1>1 DEF IsNext
<1>3. \A c \in seen : ~(c > t)
  BY Numbers
<1>4. other \subseteq Contact
  OBVIOUS
<1>5. next \in Contact => next \in other /\ \A c \in other : c > t => next <= c
  <2>1. \A c \in other : c > t => c = next
    BY <1>3
  <2>2. next <= next
    BY <1>2
  <2>3. QED
    BY <2>1, <2>2
<1>6. next \notin Contact => \A c \in other : ~(c > t)
  BY <1>3
<1>7. QED
  BY <1>4, <1>5, <1>6, SameFollowing

(* and stays that when further ones are looked at;                         *)
LEMMA FollowingStays ==
    ASSUME NEW s \in Story, NEW seen, seen \subseteq Contact, NEW t \in 0..Verdict, NEW g,
           NEW next, next = Following(s, seen, t, g), NEW n \in 1..Over, next <= n
    PROVE  Following(s, seen \cup ({n} \cap Contact), t, g) = next
<1> DEFINE other == seen \cup ({n} \cap Contact)
<1>1. IsNext(s, seen, t, g, next)
  BY FollowingFacts
<1>2. next \in 1..Over /\ t < next
  BY <1>1 DEF IsNext
<1>3. other \subseteq Contact
  OBVIOUS
<1>4. CASE next \in Contact
  <2>1. next \in seen /\ \A c \in seen : c > t => next <= c
    BY <1>1, <1>4 DEF IsNext
  <2>2. next \in other /\ \A c \in other : c > t => next <= c
    BY <2>1
  <2>3. QED
    BY <1>3, <1>4, <2>2, SameFollowing
<1>5. CASE next \notin Contact
  <2>1. n \notin Contact
    BY <1>2, <1>5, Numbers
  <2>2. other = seen
    BY <2>1
  <2>3. QED
    BY <2>2
<1>6. QED
  BY <1>4, <1>5

(* and if what has been looked at is a beginning of all, it is the next of *)
(* all.                                                                    *)
LEMMA FollowingRejoins ==
    ASSUME NEW s \in Story, NEW there, there \subseteq Contact, NEW seen, seen \subseteq Contact,
           NEW all, all \subseteq Contact, NEW t \in 0..Verdict, NEW g, \A c \in seen : c <= t,
           NEW next, next = Following(s, there, t, g),
           seen \cup ({next} \cap Contact) = {c \in all : c <= next}
    PROVE  Following(s, all, t, g) = next
<1>1. IsNext(s, there, t, g, next)
  BY FollowingFacts
<1>2. next \in 1..Over /\ t < next
  BY <1>1 DEF IsNext
<1>3. \A c \in seen : ~(c > t)
  BY Numbers
<1>4. \A c \in all : c > t /\ c <= next => c = next
  BY <1>3
<1>5. \A c \in all : c \in Nat /\ c <= Contacts
  BY Numbers
<1>6. next \in Contact => next \in all /\ \A c \in all : c > t => next <= c
  <2>1. next \in Contact => next \in all
    OBVIOUS
  <2>2. \A c \in all : c > t => next <= c
    BY <1>2, <1>4, <1>5
  <2>3. QED
    BY <2>1, <2>2
<1>7. next \notin Contact => \A c \in all : ~(c > t)
  <2>1. next \notin Contact => next > Contacts
    BY <1>2, Numbers
  <2>2. next \notin Contact => \A c \in all : c <= next /\ c # next
    BY <2>1, <1>2, <1>5, Numbers
  <2>3. QED
    BY <1>4, <2>2
<1>8. QED
  BY <1>6, <1>7, SameFollowing

LEMMA SameAfter ==
    ASSUME NEW s, NEW one, NEW other, NEW p, NEW a,
           Ends(p, a) => Following(s, other, p.task, Result(p, a)) = Following(s, one, p.task, Result(p, a))
    PROVE  After(s, other, p, a) = After(s, one, p, a)
BY DEF After, Onward

LEMMA AfterTask ==
    ASSUME NEW s \in Story, NEW there, there \subseteq Contact, NEW p \in Point, p.task # Over, NEW a
    PROVE  /\ p.task \in 0..Verdict
           /\ After(s, there, p, a).task \in 0..Over
           /\ p.task <= After(s, there, p, a).task
           /\ Ends(p, a) => After(s, there, p, a).task = Following(s, there, p.task, Result(p, a))
           /\ ~Ends(p, a) => After(s, there, p, a).task = p.task
<1>1. p.task \in 0..Over
  BY DEF Point
<1>2. p.task \in 0..Verdict
  BY <1>1, Numbers
<1>3. Ends(p, a) => After(s, there, p, a).task = Following(s, there, p.task, Result(p, a))
  BY DEF After, Onward
<1>4. ~Ends(p, a) => After(s, there, p, a).task = p.task
  BY DEF After
<1>5. IsNext(s, there, p.task, Result(p, a), Following(s, there, p.task, Result(p, a)))
  BY <1>2, FollowingFacts
<1>6. Following(s, there, p.task, Result(p, a)) \in 1..Over /\ p.task < Following(s, there, p.task, Result(p, a))
  BY <1>5 DEF IsNext
<1>7. CASE Ends(p, a)
  <2>1. PICK f : f = Following(s, there, p.task, Result(p, a))
    OBVIOUS
  <2>2. f \in 1..Over /\ p.task < f /\ After(s, there, p, a).task = f
    BY <1>3, <1>6, <1>7, <2>1
  <2>3. f \in 0..Over /\ p.task <= f
    BY <1>2, <2>2, Numbers
  <2>4. QED
    BY <1>2, <1>3, <1>7, <2>2, <2>3
<1>8. CASE ~Ends(p, a)
  <2>1. p.task <= p.task
    BY <1>2, Numbers
  <2>2. QED
    BY <1>1, <1>2, <1>4, <1>8, <2>1
<1>9. QED
  BY <1>7, <1>8

(* What is cached stays cached, so trails stay trails. *)
LEMMA TrailStays ==
    ASSUME cache \subseteq cache', NEW r, NEW s, NEW there, NEW P, Trail(r, s, there, P)
    PROVE  Trail(r, s, there, P)'
BY DEF Trail, LeadsOn

LEMMA TrailToStays ==
    ASSUME cache \subseteq cache', NEW r, NEW s, NEW there, NEW here, NEW P,
           TrailTo(r, s, there, here, P)
    PROVE  TrailTo(r, s, there, here, P)'
BY DEF TrailTo, LeadsOn

(* The trail of a story grows with each answer. *)
LEMMA TrailGrows ==
    ASSUME NEW r, NEW s \in Story, NEW there, there \subseteq Contact, NEW seen, seen \subseteq Contact,
           NEW here \in Point, here.task # Over, \A c \in seen : c <= here.task,
           here.task \in Contact => here.task \in seen,
           NEW a \in Answer, NEW next \in Point, next = After(s, there, here, a), next.task \in 1..Over,
           NEW P \in SUBSET Point, TrailTo(r, s, seen, here, P),
           cache \subseteq cache', <<Asks(r, s, here), a>> \in cache',
           NEW now, now = seen \cup ({next.task} \cap Contact)
    PROVE  TrailTo(r, s, now, next, P \cup {next})'
<1>1. /\ here.task \in 0..Verdict /\ here.task <= next.task /\ next.task \in 0..Over
      /\ Ends(here, a) => next.task = Following(s, there, here.task, Result(here, a))
      /\ ~Ends(here, a) => next.task = here.task
  BY AfterTask
<1>2. now \subseteq Contact
  OBVIOUS
<1>3. /\ Beginning(s, seen) \in P /\ here \in P
      /\ \A p \in P : p.task <= here.task
      /\ \A p \in P \ {here} : p.task # Over /\ LeadsOn(r, s, seen, p, P)
  BY DEF TrailTo
<1>4. After(s, now, here, a) = next
  <2>1. CASE Ends(here, a)
    <3>1. Following(s, now, here.task, Result(here, a)) = next.task
      <4> DEFINE t == here.task
                 n == next.task
                 g == Result(here, a)
      <4>1. t \in 0..Verdict /\ n = Following(s, there, t, g)
        BY <1>1, <2>1
      <4>2. \A c \in seen : c <= t
        OBVIOUS
      <4>3. now = seen \cup ({n} \cap Contact)
        OBVIOUS
      <4> HIDE DEF t, n, g
      <4>4. Following(s, seen \cup ({n} \cap Contact), t, g) = n
        BY ONLY s \in Story, there \subseteq Contact, seen \subseteq Contact, <4>1, <4>2, FollowingSeen
      <4>5. Following(s, now, t, g) = n
        BY <4>3, <4>4
      <4> USE DEF t, n, g
      <4>6. QED
        BY <4>5
    <3>2. Following(s, there, here.task, Result(here, a)) = next.task
      BY <1>1, <2>1
    <3>3. QED
      BY <3>1, <3>2, SameAfter
  <2>2. CASE ~Ends(here, a)
    BY <2>2, SameAfter
  <2>3. QED
    BY <2>1, <2>2
<1>5. ASSUME NEW o \in P, o # here
      PROVE  o.task # Over /\ LeadsOn(r, s, now, o, P)'
  <2>1. o.task # Over /\ o \in Point
    BY <1>3, <1>5
  <2>2. PICK b \in Answer : <<Asks(r, s, o), b>> \in cache /\ After(s, seen, o, b) \in P
    BY <1>3, <1>5 DEF LeadsOn
  <2>3. PICK w \in P : w = After(s, seen, o, b)
    BY <2>2
  <2>4. /\ o.task \in 0..Verdict
        /\ Ends(o, b) => w.task = Following(s, seen, o.task, Result(o, b))
    BY <2>1, <2>3, AfterTask
  <2>5. w.task <= next.task
    <3>1. w.task \in 0..Over /\ w.task <= here.task
      BY <1>3 DEF Point
    <3>2. QED
      BY <1>1, <3>1, Numbers
  <2>6. After(s, now, o, b) = After(s, seen, o, b)
    <3>1. CASE Ends(o, b)
      <4>1. Following(s, now, o.task, Result(o, b)) = Following(s, seen, o.task, Result(o, b))
        BY <2>4, <2>5, <3>1, FollowingStays
      <4>2. QED
        BY <4>1, SameAfter
    <3>2. CASE ~Ends(o, b)
      BY <3>2, SameAfter
    <3>3. QED
      BY <3>1, <3>2
  <2>7. QED
    BY <2>1, <2>2, <2>6 DEF LeadsOn
<1>6. LeadsOn(r, s, now, here, P \cup {next})'
  BY <1>4 DEF LeadsOn
<1>7. Beginning(s, now) = Beginning(s, seen)
  <2>1. PICK n : n = Following(s, seen, 0, Unread)
    OBVIOUS
  <2>2. Beginning(s, seen).task = n
    BY <2>1 DEF Beginning, Onward
  <2>3. n <= next.task
    <3>1. n \in 0..Over /\ n <= here.task
      BY <1>3, <2>2 DEF Point
    <3>2. QED
      BY <1>1, <3>1, Numbers
  <2>4. Following(s, now, 0, Unread) = n
    <3>1. 0 \in 0..Verdict
      BY Numbers
    <3>2. QED
      BY <2>1, <2>3, <3>1, FollowingStays
  <2>5. QED
    BY <2>1, <2>4 DEF Beginning, Onward
<1>8. \A p \in P \cup {next} : p.task <= next.task
  <2>1. \A p \in P : p.task \in 0..Over
    BY DEF Point
  <2>2. QED
    BY <1>1, <1>3, <2>1, Numbers
<1>9. \A p \in (P \cup {next}) \ {next} : p.task # Over /\ LeadsOn(r, s, now, p, P \cup {next})'
  BY <1>5, <1>6 DEF LeadsOn
<1>10. QED
  BY <1>3, <1>7, <1>8, <1>9 DEF TrailTo

(* What a step keeps of the trails of the stories it does not touch. *)
LEMMA OnTrailStays ==
    ASSUME NEW x \in Story, Here(x)' = Here(x) /\ phase'[x] = phase[x] /\ viewed'[x] = viewed[x],
           run' # None => run # None /\ run'.kind = run.kind, cache \subseteq cache',
           clean'[x] = clean[x], OnTrail(x)
    PROVE  OnTrail(x)'
<1> SUFFICES ASSUME UnderWay(x)', clean'[x]
             PROVE  \E P \in SUBSET Point : TrailTo(run.kind.by, x, viewed[x], Here(x), P)'
  BY DEF OnTrail
<1>1. Here(x)' = Here(x) /\ phase'[x] = phase[x] /\ viewed'[x] = viewed[x]
  OBVIOUS
<1>2. UnderWay(x) /\ clean[x] /\ run'.kind = run.kind
  BY <1>1 DEF UnderWay
<1>3. PICK r, there, here : r = run.kind.by /\ there = viewed[x] /\ here = Here(x)
  OBVIOUS
<1>4. PICK P \in SUBSET Point : TrailTo(r, x, there, here, P)
  BY <1>2, <1>3 DEF OnTrail
<1>5. TrailTo(r, x, there, here, P)'
  BY <1>4, TrailToStays
<1>6. r = run'.kind.by /\ there = viewed'[x] /\ here = Here(x)'
  BY <1>1, <1>2, <1>3
<1>7. TrailTo(run.kind.by, x, viewed[x], Here(x), P)'
  BY <1>5, <1>6
<1>8. QED
  BY <1>7

LEMMA SettledStays ==
    ASSUME NEW x \in Story, Here(x)' = Here(x) /\ phase'[x] = phase[x] /\ viewed'[x] = viewed[x],
           run' # None => run # None /\ run'.kind = run.kind, cache \subseteq cache',
           NEW d, Settled(x, d)
    PROVE  Settled(x, d)'
<1>1. Here(x)' = Here(x) /\ phase'[x] = phase[x] /\ viewed'[x] = viewed[x]
  OBVIOUS
<1>2. task'[x] = task[x]
  BY <1>1 DEF Here
<1>3. PICK P \in SUBSET Point :
          Trail(d.by, x, d.viewed, P) /\ (UnderWay(x) /\ InItsSteps(x, d) => Here(x) \in P)
  BY DEF Settled
<1>4. Trail(d.by, x, d.viewed, P)'
  BY <1>3, TrailStays
<1>5. UnderWay(x)' /\ InItsSteps(x, d)' => UnderWay(x) /\ InItsSteps(x, d)
  BY <1>1, <1>2 DEF UnderWay, InItsSteps
<1>6. UnderWay(x)' /\ InItsSteps(x, d)' => Here(x)' \in P
  BY <1>1, <1>3, <1>5
<1>7. QED
  BY <1>4, <1>6 DEF Settled

(* A reading that is not under way is on no trail, but the trails stay. *)
LEMMA TrailsRest ==
    ASSUME cache \subseteq cache', NEW x \in Story, NEW d, Settled(x, d), ~UnderWay(x)'
    PROVE  Settled(x, d)' /\ OnTrail(x)'
<1>1. PICK P \in SUBSET Point : Trail(d.by, x, d.viewed, P)
  BY DEF Settled
<1>2. Trail(d.by, x, d.viewed, P)'
  BY <1>1, TrailStays
<1>3. QED
  BY <1>2 DEF Settled, OnTrail

LEMMA PointAfter ==
    ASSUME ThreadTypes', NEW s \in Story
    PROVE  Here(s)' \in Point
BY DEF ThreadTypes, Here, Point

(* The story that asked: the trail it is leaving, and those it follows. *)
LEMMA AnswerOnTrail ==
    ASSUME Typed, OneAnswer, NEW s \in Story, Asking(s), OnTrail(s),
           NEW a \in Answer \cup {"error"}, Attempted(s, a)
    PROVE  OnTrail(s)'
<1>1. Answered(s, a)
  BY TakenFacts DEF Attempted
<1>2. TypeOK /\ Thread(s) /\ Here(s) \in Point /\ Here(s)' \in Point
  BY <1>1, HereTypes, PointAfter DEF Typed, Answered
<1>3. task[s] \in 1..Verdict /\ Here(s).task = task[s] /\ task[s] # Over /\ UnderWay(s)
  <2>1. task[s] \in 1..Verdict
    BY <1>2 DEF Thread, Asking
  <2>2. QED
    BY <2>1, Numbers DEF Here, UnderWay, Asking
<1>4. CASE clean'[s] # TRUE
  <2>1. ~clean'[s]
    BY <1>2, <1>4 DEF Attempted, TypeOK
  <2>2. QED
    BY <2>1 DEF OnTrail
<1>5. CASE clean'[s] = TRUE
  <2>1. clean[s] /\ cache \subseteq cache' /\ a \in Answer /\ <<Asked(s), a>> \in cache'
    BY <1>2, <1>5 DEF Attempted, TypeOK, Known, Answer
  <2>2. PICK r, seen, here, next, now :
            /\ r = run.kind.by /\ seen = viewed[s] /\ here = Here(s)
            /\ next = Here(s)' /\ now = viewed'[s]
    OBVIOUS
  <2>3. PICK P \in SUBSET Point : TrailTo(r, s, seen, here, P)
    BY <1>3, <2>1, <2>2 DEF OnTrail
  <2>4. PICK there : there = text[s] /\ there \subseteq Contact
    BY <1>2 DEF TypeOK
  <2>5. seen \subseteq Contact /\ (\A c \in seen : c <= here.task)
        /\ (here.task \in Contact => here.task \in seen)
    BY <1>2, <1>3, <2>2 DEF TypeOK, Thread
  <2>6. here \in Point /\ here.task # Over /\ next \in Point
    BY <1>2, <1>3, <2>2
  <2>7. next = After(s, there, here, a) /\ next.task \in 1..Over
        /\ now = seen \cup ({next.task} \cap Contact)
    BY <1>1, <2>2, <2>4 DEF Answered
  <2>8. <<Asks(r, s, here), a>> \in cache'
    BY <2>1, <2>2, AskedIs
  <2>9. TrailTo(r, s, now, next, P \cup {next})'
    BY <2>1, <2>3, <2>4, <2>5, <2>6, <2>7, <2>8, TrailGrows
  <2>10. r = run'.kind.by
    BY <2>2 DEF Attempted
  <2>11. TrailTo(run.kind.by, s, viewed[s], Here(s), P \cup {next})'
    BY <2>2, <2>9, <2>10
  <2>12. P \cup {next} \in SUBSET Point
    BY <2>6
  <2>13. QED
    BY <2>11, <2>12 DEF OnTrail
<1>6. QED
  BY <1>4, <1>5

LEMMA AnswerSettled ==
    ASSUME Typed, OneAnswer, NEW s \in Story, Asking(s), NEW d, d.viewed \subseteq Contact, Settled(s, d),
           NEW a \in Answer \cup {"error"}, Attempted(s, a)
    PROVE  Settled(s, d)'
<1>1. Answered(s, a)
  BY TakenFacts DEF Attempted
<1>2. TypeOK /\ Thread(s) /\ Here(s) \in Point /\ Here(s)' \in Point
  BY <1>1, HereTypes, PointAfter DEF Typed, Answered
<1>3. task[s] \in 1..Verdict /\ Here(s).task = task[s] /\ task[s] # Over /\ UnderWay(s)
  <2>1. task[s] \in 1..Verdict
    BY <1>2 DEF Thread, Asking
  <2>2. QED
    BY <2>1, Numbers DEF Here, UnderWay, Asking
<1>4. cache \subseteq cache' /\ run'.kind = run.kind
  BY DEF Attempted
<1>5. PICK P \in SUBSET Point :
          Trail(d.by, s, d.viewed, P) /\ (UnderWay(s) /\ InItsSteps(s, d) => Here(s) \in P)
  BY DEF Settled
<1>6. Trail(d.by, s, d.viewed, P)'
  BY <1>4, <1>5, TrailStays
<1>7. ASSUME InItsSteps(s, d)'
      PROVE  Here(s)' \in P
  <2>1. PICK seen, here, next, there :
            seen = viewed[s] /\ here = Here(s) /\ next = Here(s)' /\ there = text[s]
    OBVIOUS
  <2>2. /\ next = After(s, there, here, a) /\ next.task \in 1..Over
        /\ viewed'[s] = seen \cup ({next.task} \cap Contact)
        /\ task'[s] = next.task
    BY <1>1, <2>1 DEF Answered, Here
  <2>3. /\ seen \subseteq Contact /\ there \subseteq Contact
        /\ \A c \in seen : c <= here.task
        /\ here.task \in Contact => here.task \in seen
        /\ here \in Point /\ here.task # Over /\ here.task = task[s]
    BY <1>2, <1>3, <2>1 DEF TypeOK, Thread
  <2>4. seen \cup ({next.task} \cap Contact) = {c \in d.viewed : c <= next.task}
    BY <1>7, <2>2 DEF InItsSteps
  <2>5. /\ here.task \in 0..Verdict /\ next.task \in 0..Over /\ here.task <= next.task
        /\ Ends(here, a) => next.task = Following(s, there, here.task, Result(here, a))
        /\ ~Ends(here, a) => next.task = here.task
    BY <2>2, <2>3, AfterTask
  <2>6. seen = {c \in d.viewed : c <= here.task}
    <3>1. \A c \in seen : c \in d.viewed
      BY <2>4
    <3>2. ASSUME NEW c \in d.viewed, c <= here.task
          PROVE  c \in seen
      <4>1. c \in Nat /\ c \in Contact
        BY Numbers
      <4>2. c <= next.task
        BY <2>5, <3>2, <4>1, Numbers
      <4>3. c \in seen \/ c = next.task
        BY <2>4, <4>2
      <4>4. c = next.task => c = here.task
        BY <2>5, <3>2, <4>1, Numbers
      <4>5. QED
        BY <2>3, <4>1, <4>3, <4>4
    <3>3. QED
      BY <2>3, <3>1, <3>2
  <2>7. here \in P
    <3>1. InItsSteps(s, d)
      BY <1>4, <1>7, <2>1, <2>3, <2>6 DEF InItsSteps
    <3>2. QED
      BY <1>3, <1>5, <2>1, <3>1
  <2>8. PICK b \in Answer : <<Asks(d.by, s, here), b>> \in cache /\ After(s, d.viewed, here, b) \in P
    BY <1>5, <2>3, <2>7 DEF Trail, LeadsOn
  <2>9. Asks(d.by, s, here) = Asked(s)
    BY <1>4, <1>7, <2>1, AskedIs DEF InItsSteps
  <2>10. b \in Known(Asked(s))
    BY <2>8, <2>9 DEF Known
  <2>11. a \in Known(Asked(s))
    BY <2>10 DEF Attempted
  <2>12. a = b
    <3>1. Asked(s) \in Question
      BY <1>2, AskedTypes
    <3>2. QED
      BY <2>10, <2>11, <3>1 DEF Known, OneAnswer
  <2>13. After(s, d.viewed, here, a) = After(s, there, here, a)
    <3>1. CASE Ends(here, a)
      <4>1. Following(s, d.viewed, here.task, Result(here, a)) = Following(s, there, here.task, Result(here, a))
        BY <2>3, <2>4, <2>5, <3>1, FollowingRejoins
      <4>2. QED
        BY <4>1, SameAfter
    <3>2. CASE ~Ends(here, a)
      BY <3>2, SameAfter
    <3>3. QED
      BY <3>1, <3>2
  <2>14. QED
    BY <2>1, <2>2, <2>8, <2>12, <2>13
<1>8. QED
  BY <1>6, <1>7 DEF Settled

(* The first question of a story. *)
LEMMA OpeningOnTrail ==
    ASSUME Typed, NEW s \in Story, Open(s)
    PROVE  OnTrail(s)' /\ \A d : d.viewed \subseteq Contact /\ Settled(s, d) => Settled(s, d)'
<1>1. /\ phase[s] = "waiting" /\ viewed[s] = {} /\ run # None
      /\ MoveOn(s, 0, Unread) /\ UNCHANGED <<cache, run>>
  BY DEF Typed, Thread, Open, InTurn
<1>2. 0 \in 0..Verdict
  BY Numbers
<1>3. /\ ThreadTypes' /\ Here(s)' = Onward(s, text[s], 0, Unread)
      /\ viewed'[s] = viewed[s] \cup ({Here(s)'.task} \cap Contact)
  BY <1>1, <1>2, MovedOn, ReadingTypes
<1>4. PICK there, next, now : there = text[s] /\ next = Here(s)' /\ now = viewed'[s]
  OBVIOUS
<1>5. PICK n : n = Following(s, there, 0, Unread)
  OBVIOUS
<1>6. there \subseteq Contact
  BY <1>4 DEF Typed, TypeOK
<1>7. next \in Point
  BY <1>3, <1>4, PointAfter
<1>8. next = Onward(s, there, 0, Unread)
  BY <1>3, <1>4
<1>9. next.task = n /\ now = {} \cup ({n} \cap Contact)
  <2>1. next.task = n
    BY <1>5, <1>8 DEF Onward
  <2>2. QED
    BY <1>1, <1>3, <1>4, <2>1
<1>10. OnTrail(s)'
  <2>1. Following(s, now, 0, Unread) = n
    <3>1. PICK seen : seen = {}
      OBVIOUS
    <3>2. seen \subseteq Contact /\ \A c \in seen : c <= 0
      BY <3>1
    <3>3. Following(s, seen \cup ({n} \cap Contact), 0, Unread) = n
      BY <1>2, <1>5, <1>6, <3>2, FollowingSeen
    <3>4. QED
      BY <1>9, <3>1, <3>3
  <2>2. Beginning(s, now) = next
    BY <1>5, <1>8, <2>1 DEF Beginning, Onward
  <2>3. next.task <= next.task
    BY <1>7, Numbers DEF Point
  <2>4. ASSUME NEW r
        PROVE  TrailTo(r, s, now, next, {next})'
    BY <2>2, <2>3 DEF TrailTo
  <2>5. PICK r : r = run'.kind.by
    OBVIOUS
  <2>6. TrailTo(r, s, now, next, {next})'
    BY <2>4
  <2>7. TrailTo(run.kind.by, s, viewed[s], Here(s), {next})'
    BY <1>4, <2>5, <2>6
  <2>8. {next} \in SUBSET Point
    BY <1>7
  <2>9. QED
    BY <2>7, <2>8 DEF OnTrail
<1>11. ASSUME NEW d, d.viewed \subseteq Contact, Settled(s, d)
       PROVE  Settled(s, d)'
  <2>1. PICK P \in SUBSET Point : Trail(d.by, s, d.viewed, P)
    BY <1>11 DEF Settled
  <2>2. Trail(d.by, s, d.viewed, P)'
    BY <1>1, <2>1, TrailStays
  <2>3. ASSUME InItsSteps(s, d)'
        PROVE  Here(s)' \in P
    <3>1. task'[s] = n
      BY <1>4, <1>9 DEF Here
    <3>2. {} \cup ({n} \cap Contact) = {c \in d.viewed : c <= n}
      BY <1>4, <1>9, <2>3, <3>1 DEF InItsSteps
    <3>3. Following(s, d.viewed, 0, Unread) = n
      <4>1. PICK seen : seen = {}
        OBVIOUS
      <4>2. /\ seen \subseteq Contact /\ \A c \in seen : c <= 0
            /\ seen \cup ({n} \cap Contact) = {c \in d.viewed : c <= n}
        BY <3>2, <4>1
      <4>3. QED
        BY <1>2, <1>5, <1>6, <1>11, <4>2, FollowingRejoins
    <3>4. Beginning(s, d.viewed) = next
      BY <1>5, <1>8, <3>3 DEF Beginning, Onward
    <3>5. QED
      BY <1>4, <2>1, <3>4 DEF Trail
  <2>4. QED
    BY <2>2, <2>3 DEF Settled
<1>12. QED
  BY <1>10, <1>11

LEMMA TrailsInit == Init => Trails
BY DEF Init, Trails, OneAnswer, OnTrail, UnderWay

LEMMA TrailsNext == Typed /\ Trails /\ [Next]_vars => Trails'
<1> SUFFICES ASSUME Typed, Trails, [Next]_vars
             PROVE  Trails'
  OBVIOUS
<1>1. TypeOK /\ \A s \in Story : Thread(s)
  BY DEF Typed
<1>2. OneAnswer /\ (\A d \in settled : Settled(d.story, d)) /\ \A s \in Story : OnTrail(s)
  BY DEF Trails
<1>3. \A d \in settled : d.story \in Story /\ d.viewed \subseteq Contact
  BY <1>1 DEF TypeOK
<1>4. cache' = cache => OneAnswer'
  BY <1>2 DEF OneAnswer
<1>5. ASSUME cache' = cache, settled' = settled, \A s \in Story : ~UnderWay(s)'
      PROVE  Trails'
  <2>1. \A d \in settled : Settled(d.story, d)'
    BY <1>2, <1>3, <1>5, TrailsRest
  <2>2. \A s \in Story : OnTrail(s)'
    BY <1>5 DEF OnTrail
  <2>3. QED
    BY <1>4, <1>5, <2>1, <2>2 DEF Trails
<1>6. ASSUME NEW s \in Story, OthersStay(s), run # None, run'.kind = run.kind, cache \subseteq cache',
             OneAnswer', \A x \in Story \ {s} : clean'[x] = clean[x], OnTrail(s)',
             settled' = settled, \A d \in settled : d.story = s => Settled(s, d)'
      PROVE  Trails'
  <2>1. \A x \in Story \ {s} : OnTrail(x)'
    BY <1>2, <1>6, OnTrailStays DEF OthersStay
  <2>2. ASSUME NEW d \in settled, d.story # s
        PROVE  Settled(d.story, d)'
    <3>1. PICK x \in Story : x = d.story
      BY <1>3
    <3>2. Settled(x, d)'
      BY <1>2, <1>6, <2>2, <3>1, SettledStays DEF OthersStay
    <3>3. QED
      BY <3>1, <3>2
  <2>3. \A d \in settled : Settled(d.story, d)'
    BY <1>6, <2>2
  <2>4. QED
    BY <1>6, <2>1, <2>3 DEF Trails
<1>7. ASSUME NEW kind \in Commands, NEW spent \in BOOLEAN, Begin(kind, spent)
      PROVE  Trails'
  BY <1>5, <1>7 DEF Begin, UnderWay
<1>8. ASSUME NEW s \in Story, Open(s)
      PROVE  Trails'
  <2>1. /\ run # None /\ UNCHANGED <<cache, run, clean, settled>> /\ MoveOn(s, 0, Unread)
        /\ viewed[s] = {}
    BY <1>1, <1>8 DEF Open, InTurn, Thread
  <2>2. OthersStay(s)
    BY <2>1, MovedOn, ReadingTypes, Numbers
  <2>3. OnTrail(s)' /\ \A d \in settled : d.story = s => Settled(s, d)'
    BY <1>2, <1>3, <1>8, OpeningOnTrail
  <2>4. QED
    BY <1>4, <1>6, <2>1, <2>2, <2>3
<1>9. ASSUME NEW s \in Story, Attempt(s)
      PROVE  Trails'
  <2>1. Asking(s)
    BY <1>9, AttemptIs
  <2>2. PICK a \in Answer \cup {"error"} : Attempted(s, a)
    BY <1>9, AttemptIs
  <2>3. OthersStay(s)
    BY <2>1, <2>2, TakenFacts DEF Answered, Attempted
  <2>4. OnTrail(s)'
    BY <1>2, <2>1, <2>2, AnswerOnTrail
  <2>5. \A d \in settled : d.story = s => Settled(s, d)'
    BY <1>2, <1>3, <2>1, <2>2, AnswerSettled
  <2>6. OneAnswer'
    <3>1. CASE cache' = cache
      BY <1>4, <3>1
    <3>2. CASE a \in Answer /\ Known(Asked(s)) = {} /\ cache' = cache \cup {<<Asked(s), a>>}
      BY <1>2, <3>2 DEF OneAnswer, Known
    <3>3. QED
      BY <2>2, <3>1, <3>2 DEF Attempted
  <2>7. /\ run # None /\ run'.kind = run.kind /\ cache \subseteq cache' /\ settled' = settled
        /\ \A x \in Story \ {s} : clean'[x] = clean[x]
    BY <1>1, <2>2 DEF Attempted, TypeOK
  <2>8. QED
    BY <1>6, <2>3, <2>4, <2>5, <2>6, <2>7
<1>10. ASSUME NEW s \in Story, Record(s)
       PROVE  Trails'
  <2>1. /\ run # None /\ phase[s] = "read" /\ UNCHANGED <<cache, run>> /\ Forget(s)
        /\ phase' = [phase EXCEPT ![s] = "done"]
    BY <1>10 DEF Record
  <2>2. OthersStay(s) /\ phase'[s] = "done" /\ \A x \in Story \ {s} : clean'[x] = clean[x]
    BY <2>1, Forgetting DEF Phase
  <2>3. ~UnderWay(s)'
    BY <2>2 DEF UnderWay
  <2>4. ASSUME NEW d \in settled
        PROVE  Settled(d.story, d)'
    <3>1. PICK x \in Story : x = d.story
      BY <1>3
    <3>2. Settled(x, d)
      BY <1>2, <3>1
    <3>3. Settled(x, d)'
      BY <2>1, <2>2, <2>3, <3>2, SettledStays, TrailsRest DEF OthersStay
    <3>4. QED
      BY <3>1, <3>3
  <2>5. ASSUME NEW d, clean[s], d = [by |-> run.kind.by, story |-> s, viewed |-> viewed[s]]
        PROVE  Settled(d.story, d)'
    <3>1. UnderWay(s) /\ Here(s).task = Over
      BY <1>1, <2>1 DEF UnderWay, Thread, Here
    <3>2. PICK P \in SUBSET Point : TrailTo(run.kind.by, s, viewed[s], Here(s), P)
      BY <1>2, <2>5, <3>1 DEF OnTrail
    <3>3. d.by = run.kind.by /\ d.story = s /\ d.viewed = viewed[s]
      BY <2>5
    <3>4. Trail(d.by, s, d.viewed, P)
      BY <3>1, <3>2, <3>3 DEF Trail, TrailTo
    <3>5. Settled(s, d)'
      BY <2>1, <2>3, <3>4, TrailStays DEF Settled
    <3>6. QED
      BY <3>3, <3>5
  <2>6. \A d \in settled' : Settled(d.story, d)'
    BY <1>10, <2>4, <2>5 DEF Record
  <2>7. \A x \in Story : OnTrail(x)'
    BY <1>2, <2>1, <2>2, <2>3, OnTrailStays DEF OnTrail, OthersStay
  <2>8. QED
    BY <1>4, <2>1, <2>6, <2>7 DEF Trails
<1>11. ASSUME NEW s \in Story, Unreadable(s)
       PROVE  Trails'
  <2>1. /\ run # None /\ UNCHANGED <<cache, run, settled>> /\ Forget(s)
        /\ phase' = [phase EXCEPT ![s] = "done"]
    BY <1>11 DEF Unreadable, Asking
  <2>2. OthersStay(s) /\ phase'[s] = "done" /\ \A x \in Story \ {s} : clean'[x] = clean[x]
    BY <2>1, Forgetting DEF Phase
  <2>3. ~UnderWay(s)'
    BY <2>2 DEF UnderWay
  <2>4. OnTrail(s)' /\ \A d \in settled : d.story = s => Settled(s, d)'
    BY <1>2, <2>1, <2>3, TrailsRest DEF OnTrail
  <2>5. QED
    BY <1>4, <1>6, <2>1, <2>2, <2>4
<1>12. ASSUME NEW s \in Story, Skip(s)
       PROVE  Trails'
  <2>1. /\ run # None /\ UNCHANGED <<cache, run, settled, task, tries, feedback, last, got, viewed, clean>>
        /\ phase' = [phase EXCEPT ![s] = "skipped"]
    BY <1>12 DEF Skip, InTurn, thread
  <2>2. OthersStay(s) /\ phase'[s] = "skipped"
    BY <1>1, <2>1 DEF OthersStay, Here, TypeOK
  <2>3. ~UnderWay(s)'
    BY <2>2 DEF UnderWay
  <2>4. OnTrail(s)' /\ \A d \in settled : d.story = s => Settled(s, d)'
    BY <1>2, <2>1, <2>3, TrailsRest DEF OnTrail
  <2>5. QED
    BY <1>4, <1>6, <2>1, <2>2, <2>4
<1>13. ASSUME UNCHANGED <<cache, settled, run, phase, task, tries, feedback, last, got, viewed, clean>>
       PROVE  Trails'
  <2>1. \A x \in Story : Here(x)' = Here(x) /\ phase'[x] = phase[x] /\ viewed'[x] = viewed[x]
                          /\ clean'[x] = clean[x]
    BY <1>13 DEF Here
  <2>2. cache \subseteq cache' /\ run' = run
    BY <1>13
  <2>3. \A x \in Story : OnTrail(x)'
    BY <1>2, <2>1, <2>2, OnTrailStays
  <2>4. ASSUME NEW d \in settled
        PROVE  Settled(d.story, d)'
    <3>1. PICK x \in Story : x = d.story
      BY <1>3
    <3>2. Settled(x, d)'
      BY <1>2, <2>1, <2>2, <3>1, SettledStays
    <3>3. QED
      BY <3>1, <3>2
  <2>5. QED
    BY <1>4, <1>13, <2>3, <2>4 DEF Trails
<1>14. ASSUME NEW s \in Story, NEW c \in Contact, Transcribed(s, c)
       PROVE  Trails'
  BY <1>13, <1>14 DEF Transcribed, thread
<1>15. ASSUME End
       PROVE  \A s \in Story : ~UnderWay(s)'
  BY <1>15 DEF End, UnderWay
<1>16. CASE Finish
  BY <1>5, <1>15, <1>16 DEF Finish
<1>17. CASE Deadline
  BY <1>13, <1>17 DEF Deadline, thread
<1>18. CASE Crash
  BY <1>5, <1>15, <1>18 DEF Crash
<1>19. CASE UNCHANGED vars
  BY <1>13, <1>19 DEF vars, thread
<1>20. QED
  BY <1>7, <1>8, <1>9, <1>10, <1>11, <1>12, <1>14, <1>16, <1>17, <1>18, <1>19 DEF Next, Work

(* Once a reader has gone through a story without a failure of the engine,  *)
(* a later run of that reader finds every answer in the cache, up to the    *)
(* first contact whose text is new: however many answers were unparsable or *)
(* cut and asked again, and whatever was read, saved or lost in between     *)
(* (cache.py:3-5).                                                          *)
THEOREM RereadingIsFree == Spec => []FreeRerun
<1>1. Typed /\ Trails => FreeRerun
  <2> SUFFICES ASSUME Typed, Trails, NEW s \in Story, NEW d \in settled, Asking(s),
                      d.by = run.kind.by, d.story = s, viewed[s] = {c \in d.viewed : c <= task[s]}
               PROVE  Known(Asked(s)) # {}
    BY DEF FreeRerun
  <2>1. UnderWay(s) /\ InItsSteps(s, d)
    BY DEF UnderWay, InItsSteps, Asking
  <2>2. PICK P \in SUBSET Point : Trail(d.by, s, d.viewed, P) /\ Here(s) \in P
    BY <2>1 DEF Trails, Settled
  <2>3. Here(s).task # Over
    <3>1. task[s] \in 1..Verdict
      BY DEF Typed, Thread, Asking
    <3>2. QED
      BY <3>1, Numbers DEF Here
  <2>4. PICK a \in Answer : <<Asks(d.by, s, Here(s)), a>> \in cache
    BY <2>2, <2>3 DEF Trail, LeadsOn
  <2>5. QED
    BY <2>4, AskedIs DEF Known
<1>2. QED
  BY <1>1, TypedInit, TypedNext, TrailsInit, TrailsNext, PTL DEF Spec

-----------------------------------------------------------------------------
(* Night after night.                                                      *)

LEMMA SpokenAre ==
    ASSUME NEW p \in Spoken
    PROVE  p[1] \in Story /\ p[2] \in Contact
BY ContentAssumption

\* Whoever transcribes has a command to go on with.
JTyped ==
    /\ Typed /\ JTypeOK
    /\ stage = "calls" => plan # None

\* Every step of the journey is one of the content stage, or none.
LEMMA JourneyStep == JTyped /\ [JNext]_jvars => [Next]_vars
<1> SUFFICES ASSUME JTyped, [JNext]_jvars
             PROVE  Next \/ UNCHANGED vars
  OBVIOUS
<1>1. ASSUME NEW kind \in Commands, Start(kind)
      PROVE  Next \/ UNCHANGED vars
  BY <1>1 DEF Start, Next
<1>2. ASSUME NEW p \in Spoken, CallDone(p) \/ CallFails(p) \/ Elsewhere(p)
      PROVE  Next \/ UNCHANGED vars
  BY <1>2, SpokenAre DEF CallDone, CallFails, Elsewhere, Next
<1>3. ASSUME NEW s \in Story, Read(s)
      PROVE  Next \/ UNCHANGED vars
  BY <1>3 DEF Read, Next
<1>4. CASE NoTime
  BY <1>4 DEF NoTime
<1>5. CASE ToContent
  <2>1. plan \in Commands /\ worked \in BOOLEAN
    BY <1>5 DEF JTyped, JTypeOK, ToContent
  <2>2. QED
    BY <1>5, <2>1 DEF ToContent, Next
<1>6. CASE TimePasses
  BY <1>6 DEF TimePasses, Next
<1>7. CASE ContentEnds
  BY <1>7 DEF ContentEnds, Next
<1>8. CASE MakeReport
  BY <1>8 DEF MakeReport
<1>9. CASE Dies
  BY <1>9 DEF Dies, Next
<1>10. CASE UNCHANGED jvars
  BY <1>10 DEF jvars
<1>11. QED
  BY <1>1, <1>2, <1>3, <1>4, <1>5, <1>6, <1>7, <1>8, <1>9, <1>10 DEF JNext

LEMMA JTypedInit == JInit => JTyped
<1> SUFFICES ASSUME JInit
             PROVE  JTyped
  OBVIOUS
<1>1. Typed
  BY TypedInit DEF JInit
<1>2. mishaps \in 0..MaxMishap
  BY JourneyAssumption DEF JInit
<1>3. QED
  BY <1>1, <1>2 DEF JInit, JTyped, JTypeOK, Typed

LEMMA JTypedNext == JTyped /\ [JNext]_jvars => JTyped'
<1> SUFFICES ASSUME JTyped, [JNext]_jvars
             PROVE  JTyped'
  OBVIOUS
<1>1. Typed'
  BY JourneyStep, TypedNext DEF JTyped
<1>2. TypeOK' /\ saved \in Layer \cup {None} /\ faults \in 0..MaxFault
  BY <1>1 DEF Typed, JTyped, TypeOK
<1> DEFINE Bound == 0..MaxMishap
           Own == /\ stage \in {"off", "calls", "content", "report"} /\ plan \in Commands \cup {None}
                  /\ todo \subseteq Spoken /\ worked \in BOOLEAN
                  /\ report \in Layer \cup {None}
                  /\ mishaps \in Bound
                  /\ stage = "calls" => plan # None
<1>3. Own
  BY DEF JTyped, JTypeOK
<1>4. Spare => mishaps + 1 \in Bound
  <2>1. mishaps \in 0..MaxMishap /\ MaxMishap \in Nat
    BY <1>3, JourneyAssumption
  <2>2. QED
    BY <1>2, <2>1, Numbers DEF Spare
<1> SUFFICES Own'
  BY <1>1, <1>2 DEF JTyped, JTypeOK
<1> HIDE DEF Bound
<1>5. ASSUME NEW kind \in Commands, Start(kind)
      PROVE  Own'
  <2>1. kind # None
    BY NoneAssumption
  <2>2. ToTranscribe(kind) \subseteq Spoken
    BY DEF ToTranscribe, NoText
  <2>3. QED
    BY <1>3, <1>5, <2>1, <2>2 DEF Start
<1>6. ASSUME NEW p \in Spoken, CallDone(p) \/ Elsewhere(p)
      PROVE  Own'
  BY <1>3, <1>6 DEF CallDone, Elsewhere, own
<1>7. ASSUME NEW p \in Spoken, CallFails(p)
      PROVE  Own'
  BY <1>3, <1>4, <1>7 DEF CallFails
<1>8. ASSUME NEW s \in Story, Read(s)
      PROVE  Own'
  BY <1>3, <1>8 DEF Read, own
<1>9. CASE NoTime
  BY <1>3, <1>9 DEF NoTime, Quit
<1>10. CASE ToContent
  BY <1>3, <1>10 DEF ToContent
<1>11. CASE TimePasses
  BY <1>3, <1>11 DEF TimePasses, own
<1>12. CASE ContentEnds
  BY <1>3, <1>12 DEF ContentEnds, Quit
<1>13. CASE MakeReport
  BY <1>2, <1>3, <1>13 DEF MakeReport, Quit
<1>14. CASE Dies
  <2>1. mishaps' \in Bound
    BY <1>3, <1>4, <1>14 DEF Dies
  <2>2. QED
    BY <1>3, <1>14, <2>1 DEF Dies, Quit
<1>15. CASE UNCHANGED jvars
  BY <1>3, <1>15 DEF jvars, own
<1>16. QED
  <2> HIDE DEF Own
  <2>1. QED
    BY <1>5, <1>6, <1>7, <1>8, <1>9, <1>10, <1>11, <1>12, <1>13, <1>14, <1>15 DEF JNext

(* The commands of the journey are users of the content stage: whatever a   *)
(* night does, the stage does as one of its steps or does not notice.       *)
THEOREM JourneyRunsContent == JSpec => Spec
<1>1. JInit => Init
  BY DEF JInit
<1>2. QED
  BY <1>1, JTypedInit, JTypedNext, JourneyStep, PTL DEF JSpec, Spec

(* So, night after night, whatever is transcribed elsewhere, fails, runs    *)
(* out of time or dies: every variable keeps its type, readings are whole,  *)
(* what was read is kept, and nothing is asked twice.                       *)
THEOREM NightAfterNight ==
    JSpec => []JTypeOK /\ []ReadingIsWhole /\ UnreadKept /\ []FreeRerun
<1>1. JTyped => JTypeOK
  BY DEF JTyped
<1>2. JSpec => []JTypeOK
  BY <1>1, JTypedInit, JTypedNext, PTL DEF JSpec
<1>3. QED
  BY <1>2, JourneyRunsContent, ReadingStaysWhole, UnreadStoriesAreKept, RereadingIsFree, PTL
=============================================================================
