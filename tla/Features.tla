------------------------------ MODULE Features ------------------------------
(* The conversational features of features.py, over the stretches of       *)
(* speech [start, end] of the two speakers, in ticks of an integer clock.  *)
EXTENDS Integers, Sequences, SequencesExt, FiniteSetsExt, Ranking

CONSTANTS
    MonologueBreak,   \* MONOLOGUE_BREAK_SEC
    MinSpeaking,      \* INTERRUPTION_MIN_SPEAKING_SEC
    MinOverlap,       \* INTERRUPTION_MIN_OVERLAP_SEC
    PatienceCap,      \* PATIENCE_CAP_SEC
    DeadAirMin        \* DEAD_AIR_MIN_GAP_SEC

LOCAL AtLeast(a, b) == IF a >= b THEN a ELSE b
LOCAL AtMost(a, b) == IF a <= b THEN a ELSE b

Total(segments) ==
    MapThenSumSet(LAMBDA i : AtLeast(0, segments[i].end - segments[i].start),
                  DOMAIN segments)

Overlap(a, b) ==
    AtLeast(0, AtMost(a.end, b.end) - AtLeast(a.start, b.start))

SpeechInWindow(segments, start, end) ==
    IF end <= start THEN 0
    ELSE MapThenSumSet(
           LAMBDA i : Overlap(segments[i], [start |-> start, end |-> end]),
           DOMAIN segments)

\* sorted(..., key=lambda s: s.start), which keeps the order of ties.
ByStart(s) ==
    LET order == Ranked(DOMAIN s, LAMBDA i, j :
                   s[i].start < s[j].start \/ (s[i].start = s[j].start /\ i < j))
    IN  [k \in DOMAIN s |-> s[order[k]]]

\* Seeded defect: the run ends where its last segment ends.
LastEndMonologue(own, other) ==
    LET segs == ByStart(own)
        Broken(k) == SpeechInWindow(other, segs[k - 1].end, segs[k].start)
                       >= MonologueBreak
        Step(run, k) ==
          IF Broken(k)
          THEN [longest |-> AtLeast(run.longest, run.to - run.from),
                from |-> segs[k].start, to |-> segs[k].end]
          ELSE [run EXCEPT !.to = segs[k].end]
        first == [longest |-> 0, from |-> segs[1].start, to |-> segs[1].end]
        final == FoldLeft(Step, first,
                          [k \in 1 .. Len(segs) - 1 |-> k + 1])
    IN  IF segs = <<>> THEN 0
        ELSE AtLeast(final.longest, final.to - final.from)

\* A run goes on until the other party has spoken long enough in the gap
\* after the segment before; a segment inside the run never shortens it.
LongestMonologue(own, other) ==
    LET segs == ByStart(own)
        Broken(k) == SpeechInWindow(other, segs[k - 1].end, segs[k].start)
                       >= MonologueBreak
        Step(run, k) ==
          IF Broken(k)
          THEN [longest |-> AtLeast(run.longest, run.to - run.from),
                from |-> segs[k].start, to |-> segs[k].end]
          ELSE [run EXCEPT !.to = AtLeast(@, segs[k].end)]
        first == [longest |-> 0, from |-> segs[1].start, to |-> segs[1].end]
        final == FoldLeft(Step, first,
                          [k \in 1 .. Len(segs) - 1 |-> k + 1])
    IN  IF segs = <<>> THEN 0
        ELSE AtLeast(final.longest, final.to - final.from)

\* Onsets of one speaker inside the first segment of the other that holds
\* them, once that one has spoken for a while and goes on for a while.
Interruptions(interrupter, interrupted) ==
    LET Holding(s) == {j \in DOMAIN interrupted :
                         /\ interrupted[j].start <= s.start
                         /\ s.start < interrupted[j].end}
        Interrupts(s) ==
          /\ Holding(s) # {}
          /\ LET o == interrupted[Min(Holding(s))]
             IN  /\ s.start - o.start >= MinSpeaking
                 /\ Overlap(s, o) >= MinOverlap
    IN  Cardinality({i \in DOMAIN interrupter : Interrupts(interrupter[i])})

\* The gaps between a customer's segment and the banker's right after it.
PatienceGaps(banker, customer) ==
    LET events == [i \in DOMAIN banker |-> [seg |-> banker[i], banker |-> TRUE]]
                    \o [i \in DOMAIN customer |->
                          [seg |-> customer[i], banker |-> FALSE]]
        order == Ranked(DOMAIN events, LAMBDA i, j :
                   LET a == events[i].seg
                       b == events[j].seg
                   IN  \/ a.start < b.start
                       \/ a.start = b.start /\ a.end < b.end
                       \/ a.start = b.start /\ a.end = b.end /\ i < j)
        Pairs == {k \in 1 .. Len(events) - 1 :
                    /\ ~events[order[k]].banker /\ events[order[k + 1]].banker
                    /\ events[order[k + 1]].seg.start
                         >= events[order[k]].seg.end}
    IN  [k \in Pairs |-> AtMost(PatienceCap,
           events[order[k + 1]].seg.start - events[order[k]].seg.end)]

\* Twice the median of the gaps, -1 when there is none.
PatienceMedian(banker, customer) ==
    LET gaps == PatienceGaps(banker, customer)
        n == Cardinality(DOMAIN gaps)
        sorted == Ranked(DOMAIN gaps, LAMBDA i, j :
                    gaps[i] < gaps[j] \/ (gaps[i] = gaps[j] /\ i < j))
    IN  IF n = 0 THEN -1
        ELSE gaps[sorted[(n + 1) \div 2]] + gaps[sorted[(n + 2) \div 2]]

\* The long gaps in the union of both speakers' speech.
DeadAirTotal(banker, customer) ==
    LET segs == ByStart(banker \o customer)
        Step(seen, k) ==
          LET gap == segs[k].start - seen.to
          IN  [to |-> AtLeast(seen.to, segs[k].end),
               total |-> seen.total + IF gap > DeadAirMin THEN gap ELSE 0]
    IN  IF segs = <<>> THEN 0
        ELSE FoldLeft(Step, [to |-> segs[1].end, total |-> 0],
                      [k \in 1 .. Len(segs) - 1 |-> k + 1]).total

=============================================================================
