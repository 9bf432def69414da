------------------------------- MODULE Scores -------------------------------
(* What is computed from the judge's scores: the total of a call           *)
(* (rubric.py), the merge of several samples (judge/runner.py), the        *)
(* aggregates of the bankers (aggregation.py) and the calibration against  *)
(* human raters (calibration.py).                                          *)
(*                                                                         *)
(* A sample maps each dimension to [score, evidence].  A scorecard is      *)
(* [banker, scores, total, rubric, at], `rubric` standing for the rubric   *)
(* and the prompt version together and `at` for its timestamp.             *)
EXTENDS Integers, Sequences, FiniteSets, SequencesExt, FiniteSetsExt, Ranking

CONSTANTS
    Dims,         \* the dimensions of the rubric, in its order
    Weight,       \* their weights, in parts of WeightSum
    Gates,        \* the dimensions marked gate: true
    MinCalls,     \* MIN_CALLS_FOR_PASS
    NoValue       \* Python's None

\* Of everything a function gives.
Sum(f) == FoldFunction(+, 0, f)

Dim == ToSet(Dims)
WeightSum == Sum([d \in Dim |-> Weight[d]])
GateCap == 59
QwkPass == 70
QwkFlag == 60

ASSUME ScoresAssumption ==
    /\ Dims \in Seq(Dim) /\ IsFiniteSet(Dim) /\ Gates \subseteq Dim /\ Gates # {}
    /\ \A d \in Dim : Weight[d] \in Nat
    /\ WeightSum > 0

-----------------------------------------------------------------------------
(* One call.                                                               *)

FailedGates(scores) == {d \in Gates : scores[d].score <= 2}

\* Seeded defect: the cap is given to every call whose gate failed.
TotalAtCap(scores) ==
    LET sum == Sum([d \in Dim |-> Weight[d] * (scores[d].score - 1) * 25])
    IN  IF FailedGates(scores) # {} THEN GateCap * WeightSum ELSE sum

\* In parts of WeightSum.
WeightedTotal(scores) ==
    LET sum == Sum([d \in Dim |-> Weight[d] * (scores[d].score - 1) * 25])
        cap == GateCap * WeightSum
    IN  IF FailedGates(scores) # {} /\ sum > cap THEN cap ELSE sum

\* Seeded defect: of an even number of samples, the upper one of the middle.
MedianHigh(values) ==
    Max({v \in ToSet(values) :
           2 * Cardinality({i \in DOMAIN values : values[i] >= v}) >= Len(values)})

\* statistics.median_low: the smallest value that half of the values, or more,
\* do not exceed.
MedianLow(values) ==
    Min({v \in ToSet(values) :
           2 * Cardinality({i \in DOMAIN values : values[i] <= v}) >= Len(values)})

Distance(a, b) == IF a >= b THEN a - b ELSE b - a

\* Seeded defect: the words of the first sample beside the median's number.
MergeWithFirst(samples) ==
    [d \in DOMAIN samples[1] |->
       [samples[1][d] EXCEPT
          !.score = MedianLow([i \in DOMAIN samples |-> samples[i][d].score])]]

\* The low median of each dimension, with the words of the sample nearest it.
MergeSamples(samples) ==
    LET Median(d) == MedianLow([i \in DOMAIN samples |-> samples[i][d].score])
        Closest(d) == CHOOSE i \in DOMAIN samples : \A j \in DOMAIN samples :
          LET a == Distance(samples[i][d].score, Median(d))
              b == Distance(samples[j][d].score, Median(d))
          IN  a < b \/ (a = b /\ i <= j)
    IN  [d \in DOMAIN samples[1] |->
           [samples[Closest(d)][d] EXCEPT !.score = Median(d)]]

-----------------------------------------------------------------------------
(* Many calls.  `cards` maps every call with a readable card of its own to *)
(* that card; the calls are numbered in the order of the files' names.     *)

\* Seeded defect: every card that is not older than the newest one's rubric.
EveryCohort(cards) ==
    LET newest == CHOOSE c \in DOMAIN cards : \A x \in DOMAIN cards :
          cards[c].at >= cards[x].at
    IN  Restrict(cards, {c \in DOMAIN cards : cards[c].rubric >= cards[newest].rubric})

\* The cards of the rubric and prompt version of the newest one.
SingleRubricCohort(cards) ==
    LET newest == CHOOSE c \in DOMAIN cards : \A x \in DOMAIN cards :
          \/ cards[c].at > cards[x].at
          \/ cards[c].at = cards[x].at /\ c <= x
    IN  Restrict(cards, {c \in DOMAIN cards : cards[c].rubric = cards[newest].rubric})

\* Seeded defect: a scorecard on disk counts, whatever its call's envelope says.
AllCards(cards, status) == SingleRubricCohort(cards)

\* status[c] is what the envelope of call c in results/ says, NoValue without
\* a readable one: such a card counts.
LoadScorecards(cards, status) ==
    SingleRubricCohort(Restrict(cards,
      {c \in DOMAIN cards : status[c] \in {NoValue, "success"}}))

CardsOf(cards, banker) == Restrict(cards, {c \in DOMAIN cards : cards[c].banker = banker})
SumOver(cards, d) == Sum([c \in DOMAIN cards |-> cards[c].scores[d].score])

\* All bankers' cards have the same dimensions: sums compare like means.
Strongest(cards) ==
    CHOOSE d \in Dim : \A e \in Dim :
      \/ SumOver(cards, d) > SumOver(cards, e)
      \/ /\ SumOver(cards, d) = SumOver(cards, e)
         /\ SelectInSeq(Dims, LAMBDA x : x = d) <= SelectInSeq(Dims, LAMBDA x : x = e)
Weakest(cards) ==
    CHOOSE d \in Dim : \A e \in Dim :
      \/ SumOver(cards, d) < SumOver(cards, e)
      \/ /\ SumOver(cards, d) = SumOver(cards, e)
         /\ SelectInSeq(Dims, LAMBDA x : x = d) <= SelectInSeq(Dims, LAMBDA x : x = e)

\* The call whose quote stands for a dimension: its best one, or its worst;
\* of equals the last, or the first, by call_id.
PickEvidence(cards, d, best) ==
    LET with == {c \in DOMAIN cards : cards[c].scores[d].evidence # <<>>}
        Score(c) == cards[c].scores[d].score
        Ahead(a, b) ==
          IF best
          THEN Score(a) > Score(b) \/ (Score(a) = Score(b) /\ a >= b)
          ELSE Score(a) < Score(b) \/ (Score(a) = Score(b) /\ a <= b)
    IN  IF with = {} THEN NoValue
        ELSE CHOOSE a \in with : \A b \in with : Ahead(a, b)

AggregateBankers(cards) ==
    LET cohort == SingleRubricCohort(cards)
        Aggregate(b) ==
          LET own == CardsOf(cohort, b)
          IN  [n |-> Cardinality(DOMAIN own),
               total |-> Sum([c \in DOMAIN own |-> own[c].total]),
               strongest |-> Strongest(own), weakest |-> Weakest(own),
               strength |-> PickEvidence(own, Strongest(own), TRUE),
               development |-> PickEvidence(own, Weakest(own), FALSE)]
    IN  [b \in {cohort[c].banker : c \in DOMAIN cohort} |-> Aggregate(b)]

-----------------------------------------------------------------------------
(* Calibration.  raters[d] are the ratings of each call by its raters,      *)
(* system[d] the scores of the same calls, in one order.                   *)

\* Half up.
MeanRounded(values) ==
    (2 * FoldSeq(+, 0, values) + Len(values)) \div (2 * Len(values))

HumanScores(raters) ==
    [d \in Dim |-> [i \in DOMAIN raters[d] |-> MeanRounded(raters[d][i])]]

\* Quadratic-weighted kappa in percent, rounded down; NoValue without spread.
SafeQwk(a, b) ==
    LET n == Len(a)
        Square(x) == x * x
        observed == Sum([i \in DOMAIN a |-> Square(a[i] - b[i])])
        expected == Sum([ij \in (DOMAIN a) \X (DOMAIN b) |-> Square(a[ij[1]] - b[ij[2]])])
    IN  IF n < 2 \/ Cardinality(ToSet(a)) = 1 \/ Cardinality(ToSet(b)) = 1
        THEN NoValue
        ELSE (100 * (expected - n * observed)) \div expected

Disagree(a, b) == \E i \in DOMAIN a : a[i] # b[i]

\* Seeded defect: a kappa that is not defined is no reason for a flag.
FlaggedIfDefined(a, b) ==
    SafeQwk(a, b) # NoValue /\ SafeQwk(a, b) < QwkFlag

Flagged(a, b) ==
    LET qwk == SafeQwk(a, b)
    IN  IF qwk = NoValue THEN Len(a) >= MinCalls /\ Disagree(a, b)
        ELSE qwk < QwkFlag

\* Enough calls, pooled agreement, agreement on average, and no flag.
Passes(human, system) ==
    LET calls == Max({Len(human[d]) : d \in Dim})
        pooled == SafeQwk(FlattenSeq([k \in DOMAIN Dims |-> human[Dims[k]]]),
                          FlattenSeq([k \in DOMAIN Dims |-> system[Dims[k]]]))
        defined == {d \in Dim : SafeQwk(human[d], system[d]) # NoValue}
    IN  /\ calls >= MinCalls
        /\ pooled # NoValue /\ pooled >= QwkPass
        /\ defined # {}
        /\ Sum([d \in defined |-> SafeQwk(human[d], system[d])])
             >= QwkPass * Cardinality(defined)
        /\ \A d \in Dim : ~Flagged(human[d], system[d])

=============================================================================
