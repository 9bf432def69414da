------------------------------ MODULE Speakers ------------------------------
(* Who said what, and which of the two is the banker: speakers/            *)
(* diarization.py, roles.py and stereo.py, as operators on a recording.    *)
(* Times are ticks of an integer clock.  A region of the diarizer is       *)
(* [label, start, end]; a segment of the transcript is                     *)
(* [start, end, said, timed], where `said` is its words [start, end, cue]  *)
(* and `timed` the positions of those the recogniser listed with a time.   *)
(* Of a word's text only the cue is kept that roles.py looks for in it.    *)
EXTENDS Integers, Sequences, SequencesExt, FiniteSetsExt, Ranking

CONSTANTS
    IslandMax,        \* ISLAND_MAX_SEC
    OpeningWindow,    \* OPENING_WINDOW_SEC
    ClosingWindow,    \* CLOSING_WINDOW_SEC
    Numbers,          \* the cues that are long numbers read out
    None              \* Python's None

ASSUME SpeakersAssumption ==
    /\ IslandMax \in Nat /\ OpeningWindow \in Nat /\ ClosingWindow \in Nat

Larger(a, b) == IF a >= b THEN a ELSE b

\* sorted(..., key=lambda s: (s.start, s.end)), which keeps the order of ties.
ByTime(s) ==
    LET Earlier(i, j) ==
          \/ s[i].start < s[j].start
          \/ s[i].start = s[j].start /\ s[i].end < s[j].end
          \/ s[i].start = s[j].start /\ s[i].end = s[j].end /\ i < j
        order == Ranked(DOMAIN s, Earlier)
    IN  [k \in DOMAIN s |-> s[order[k]]]

-----------------------------------------------------------------------------
(* Two labels.                                                             *)

LabelsIn(regions) == {regions[i].label : i \in DOMAIN regions}
Positions(regions, l) == {i \in DOMAIN regions : regions[i].label = l}
SpeechOf(regions, l) ==
    MapThenSumSet(LAMBDA i : regions[i].end - regions[i].start,
                  Positions(regions, l))

\* Seeded defect: the two labels that come first in the diarizer's naming.
KeptByName(regions) ==
    LET names == LabelsIn(regions)
    IN  {l \in names : Cardinality({k \in names : k < l}) < 2}

\* The two labels with the most speech; of equals, the one heard first.
Kept(regions) ==
    LET Ahead(k, l) ==
          \/ SpeechOf(regions, k) > SpeechOf(regions, l)
          \/ /\ SpeechOf(regions, k) = SpeechOf(regions, l)
             /\ Min(Positions(regions, k)) < Min(Positions(regions, l))
    IN  {l \in LabelsIn(regions) :
           Cardinality({k \in LabelsIn(regions) : Ahead(k, l)}) < 2}

Gap(a, b) == Larger(0, Larger(a.start - b.end, b.start - a.end))

\* The kept region that is nearest, the earlier one of two as near.
NearestKept(regions, keep, r) ==
    LET kept == {i \in DOMAIN regions : regions[i].label \in keep}
    IN  CHOOSE i \in kept : \A j \in kept :
          \/ Gap(regions[i], r) < Gap(regions[j], r)
          \/ (Gap(regions[i], r) = Gap(regions[j], r) /\ i <= j)

\* Seeded defect: a region inside the one before it cuts that one short.
MergeShrinks(regions) ==
    LET Fuse(done, r) ==
          IF /\ done # <<>>
             /\ Last(done).label = r.label
             /\ r.start <= Last(done).end
          THEN [done EXCEPT ![Len(done)].end = r.end]
          ELSE Append(done, r)
    IN  FoldLeft(Fuse, <<>>, regions)

\* Neighbours in time order that touch and carry one label become one.
MergeAdjacent(regions) ==
    LET Fuse(done, r) ==
          IF /\ done # <<>>
             /\ Last(done).label = r.label
             /\ r.start <= Last(done).end
          THEN [done EXCEPT ![Len(done)].end = Larger(@, r.end)]
          ELSE Append(done, r)
    IN  FoldLeft(Fuse, <<>>, regions)

\* Folding changes labels only, so the result is in time order already.
ReduceToTwo(diarized) ==
    LET regions == ByTime(diarized)
        keep == Kept(regions)
        Fold(r) == IF r.label \in keep THEN r
                   ELSE [r EXCEPT !.label =
                           regions[NearestKept(regions, keep, r)].label]
    IN  IF Cardinality(LabelsIn(regions)) <= 2 THEN regions
        ELSE MergeAdjacent([i \in DOMAIN regions |-> Fold(regions[i])])

\* index_labels: 0 and 1 in the order of appearance, 0 for a missing label.
IndexOf(regions, l) ==
    IF l = None \/ regions = <<>> \/ l = regions[1].label THEN 0 ELSE 1

-----------------------------------------------------------------------------
(* The label of a stretch of time.                                         *)

Shared(r, start, end) ==
    Larger(0, (IF r.end <= end THEN r.end ELSE end) - Larger(r.start, start))
Overlapped(regions, l, start, end) ==
    MapThenSumSet(LAMBDA i : Shared(regions[i], start, end),
                  Positions(regions, l))

\* Twice the distance from a region to the middle of the stretch.
DistanceToMid(r, start, end) ==
    Larger(0, Larger(2 * r.start - (start + end), (start + end) - 2 * r.end))

\* The label with the largest overlap, of equals the one whose overlapping
\* region comes last (the scan runs backwards and the first found stays);
\* with no overlap at all, the label of the nearest region.
LabelFor(regions, start, end) ==
    LET over == {i \in DOMAIN regions : Shared(regions[i], start, end) > 0}
        Total(i) == Overlapped(regions, regions[i].label, start, end)
        Dist(i) == DistanceToMid(regions[i], start, end)
        best == CHOOSE i \in over : \A j \in over :
                  Total(i) > Total(j) \/ (Total(i) = Total(j) /\ i >= j)
        near == CHOOSE i \in DOMAIN regions : \A j \in DOMAIN regions :
                  Dist(i) < Dist(j) \/ (Dist(i) = Dist(j) /\ i <= j)
    IN  IF regions = <<>> THEN None
        ELSE regions[IF over # {} THEN best ELSE near].label

\* A short word between two words of the other speaker goes to that speaker.
IsIsland(labels, words, i) ==
    /\ 1 < i /\ i < Len(labels)
    /\ labels[i] # None /\ labels[i - 1] # None
    /\ labels[i - 1] = labels[i + 1] /\ labels[i] # labels[i - 1]
    /\ words[i].end - words[i].start <= IslandMax

\* Seeded defect: one flip is read as the next one's context.
SmoothInPlace(labels, words) ==
    FoldLeft(LAMBDA out, i : IF IsIsland(out, words, i)
                             THEN [out EXCEPT ![i] = out[i - 1]] ELSE out,
             labels, [i \in DOMAIN labels |-> i])

SmoothIslands(labels, words) ==
    [i \in DOMAIN labels |->
       IF IsIsland(labels, words, i) THEN labels[i - 1] ELSE labels[i]]

-----------------------------------------------------------------------------
(* Turns.                                                                  *)

Listed(seg) == [k \in 1 .. Cardinality(seg.timed) |->
                  seg.said[Ranked(seg.timed, LAMBDA a, b : a < b)[k]]]
Usable(seg) == ByTime(SelectSeq(Listed(seg), LAMBDA w : w.end > w.start))

\* Seeded defect: the last word of a segment belongs to no run.
RunsOfAllButLast(labels) ==
    LET n == Len(labels) - 1
    IN  {run \in (1 .. n) \X (1 .. n) :
           /\ run[1] <= run[2]
           /\ \A i \in run[1] .. run[2] : labels[i] = labels[run[1]]
           /\ run[1] = 1 \/ labels[run[1] - 1] # labels[run[1]]
           /\ run[2] = n \/ labels[run[2] + 1] # labels[run[1]]}

\* The runs of one label, as the positions where they begin and end.
RunsOf(labels) ==
    LET n == Len(labels)
    IN  {run \in (1 .. n) \X (1 .. n) :
           /\ run[1] <= run[2]
           /\ \A i \in run[1] .. run[2] : labels[i] = labels[run[1]]
           /\ run[1] = 1 \/ labels[run[1] - 1] # labels[run[1]]
           /\ run[2] = n \/ labels[run[2] + 1] # labels[run[1]]}

InRunOrder(runs) == Ranked(runs, LAMBDA a, b : a[1] < b[1])

\* Seeded defect: a piece is widened by the pause around its words.
PieceWithPause(who, words) ==
    [who |-> who, start |-> Min({words[i].start : i \in DOMAIN words}),
     end |-> Max({words[i].end : i \in DOMAIN words}) + 2,
     said |-> words, timed |-> DOMAIN words]

Piece(who, words) ==
    [who |-> who, start |-> Min({words[i].start : i \in DOMAIN words}),
     end |-> Max({words[i].end : i \in DOMAIN words}),
     said |-> words, timed |-> DOMAIN words]

\* The pieces of one segment: one per run of a speaker, the whole segment
\* when no word of it has a usable time.
PiecesOf(seg, regions) ==
    LET words == Usable(seg)
        labels == SmoothIslands([i \in DOMAIN words |->
                    LabelFor(regions, words[i].start, words[i].end)], words)
        runs == InRunOrder(RunsOf(labels))
        Who(l) == IndexOf(regions, l)
    IN  IF words = <<>>
        THEN <<[who |-> Who(LabelFor(regions, seg.start, seg.end)),
                start |-> seg.start, end |-> seg.end,
                said |-> seg.said, timed |-> seg.timed]>>
        ELSE [k \in DOMAIN runs |->
                Piece(Who(labels[runs[k][1]]),
                      SubSeq(words, runs[k][1], runs[k][2]))]

AttributeSegments(segments, diarized) ==
    LET regions == ReduceToTwo(diarized)
    IN  ByTime(FlattenSeq([i \in DOMAIN segments |->
                             PiecesOf(segments[i], regions)]))

-----------------------------------------------------------------------------
(* Roles.                                                                  *)

Heard(pieces, w, cues) ==
    MapThenSumSet(
      LAMBDA i : Cardinality({k \in DOMAIN pieces[i].said :
                                pieces[i].said[k].cue \in cues}),
      {i \in DOMAIN pieces : pieces[i].who = w})
WordsOf(pieces, w) ==
    MapThenSumSet(LAMBDA i : Len(pieces[i].said),
                  {i \in DOMAIN pieces : pieces[i].who = w})
Says(piece, cue) == \E k \in DOMAIN piece.said : piece.said[k].cue = cue

\* A number counts for the one who said it first, not for who read it back.
FirstSayers(pieces, w) ==
    {n \in Numbers : \E i \in DOMAIN pieces :
       /\ pieces[i].who = w /\ Says(pieces[i], n)
       /\ \A j \in 1 .. i - 1 : ~Says(pieces[j], n)}

\* SIGNAL_WEIGHTS, doubled.
Weight == [opening |-> 6, identity_request |-> 5, identity_supply |-> 4,
           question_rate |-> 3, service_language |-> 2, closing |-> 2]
FirstSpeakerWeight == 1
TotalWeight == 23

\* What each speaker scores on each signal.  The two rates of questions per
\* word are compared over one denominator.
Scores(pieces, w) ==
    LET last == Max({pieces[i].end : i \in DOMAIN pieces})
        Early(p) == p.start <= OpeningWindow
        Late(p) == p.end >= last - ClosingWindow
    IN  [opening |-> Heard(SelectSeq(pieces, Early), w, {"opening"}),
         identity_request |->
           Cardinality({i \in DOMAIN pieces :
                          pieces[i].who = w /\ Says(pieces[i], "request")}),
         identity_supply |-> Cardinality(FirstSayers(pieces, w)),
         question_rate |-> Heard(pieces, w, {"question"})
                             * Larger(1, WordsOf(pieces, 1 - w)),
         service_language |-> Heard(pieces, w, {"service"}),
         closing |-> Heard(SelectSeq(pieces, Late), w, {"closing"})]

\* The speaker a signal votes for, if any: nobody when both score alike.
Votes(pieces, name) ==
    LET ahead == {w \in {0, 1} : Scores(pieces, w)[name] > Scores(pieces, 1 - w)[name]}
    IN  {IF name = "identity_supply" THEN 1 - w ELSE w : w \in ahead}

Tally(pieces, w) ==
    MapThenSumSet(LAMBDA name : Weight[name],
                  {name \in DOMAIN Weight : w \in Votes(pieces, name)})
      + (IF pieces[1].who = w THEN FirstSpeakerWeight ELSE 0)

\* Seeded defect: an even vote names the second speaker.
InferLater(pieces) ==
    LET speakers == {pieces[i].who : i \in DOMAIN pieces}
        lead == Tally(pieces, 0) - Tally(pieces, 1)
    IN  IF pieces = <<>> THEN [banker |-> 0, confidence |-> 0]
        ELSE IF Cardinality(speakers) < 2
        THEN [banker |-> CHOOSE w \in speakers : TRUE, confidence |-> 0]
        ELSE [banker |-> IF lead > 0 THEN 0 ELSE 1,
              confidence |-> IF lead >= 0 THEN lead ELSE -lead]

\* infer_roles: [banker, confidence], the confidence in parts of TotalWeight.
InferRoles(pieces) ==
    LET speakers == {pieces[i].who : i \in DOMAIN pieces}
        lead == Tally(pieces, 0) - Tally(pieces, 1)
    IN  IF pieces = <<>> THEN [banker |-> 0, confidence |-> 0]
        ELSE IF Cardinality(speakers) < 2
        THEN [banker |-> CHOOSE w \in speakers : TRUE, confidence |-> 0]
        ELSE [banker |-> IF lead >= 0 THEN 0 ELSE 1,
              confidence |-> IF lead >= 0 THEN lead ELSE -lead]

-----------------------------------------------------------------------------
(* The dialog.                                                             *)

Turn(role, piece) ==
    [speaker |-> role, start |-> piece.start, end |-> piece.end,
     said |-> piece.said, timed |-> piece.timed]

\* assign_mono_roles, of the pieces that AttributeSegments returns.
AssignMonoRoles(pieces) ==
    LET decision == InferRoles(pieces)
        Role(w) == IF w = decision.banker THEN "banker" ELSE "customer"
    IN  [confidence |-> decision.confidence,
         turns |-> [i \in DOMAIN pieces |->
                      Turn(Role(pieces[i].who), pieces[i])]]

\* One transcript per channel, each with a role of its own.
MergeStereo(banker, customer) ==
    [confidence |-> TotalWeight,
     turns |-> ByTime([i \in DOMAIN banker |-> Turn("banker", banker[i])]
                      \o [i \in DOMAIN customer |->
                            Turn("customer", customer[i])])]

Other(role) == IF role = "banker" THEN "customer" ELSE "banker"
SwapRoles(turns) ==
    [i \in DOMAIN turns |-> [turns[i] EXCEPT !.speaker = Other(@)]]

\* Which channel is the banker's is not stated: ask what each of them says.
VerifyStereoRoles(dialog) ==
    LET pieces == [i \in DOMAIN dialog.turns |->
                     [who |-> IF dialog.turns[i].speaker = "banker" THEN 0
                              ELSE 1,
                      start |-> dialog.turns[i].start,
                      end |-> dialog.turns[i].end,
                      said |-> dialog.turns[i].said]]
        decision == InferRoles(pieces)
    IN  [confidence |-> decision.confidence,
         turns |-> IF decision.banker = 1 THEN SwapRoles(dialog.turns)
                   ELSE dialog.turns]

SegmentsOf(turns, role) ==
    SelectSeq(turns, LAMBDA t : t.speaker = role)

=============================================================================
