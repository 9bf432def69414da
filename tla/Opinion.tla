------------------------------ MODULE Opinion ------------------------------
(* The management report's opinion (reporting/executive/findings.py): what *)
(* is found in the numbers of Batch, which five findings come first, and   *)
(* what is proposed.  Of a finding the words are left out but for the      *)
(* bankers they name; weights are in parts of Unit, rounded.  `passed` is  *)
(* whether the calibration did.                                            *)
EXTENDS Batch

CONSTANTS
    SpreadBankers,     \* of bankers before their quarters are compared
    MinLows            \* of low scores before bankers are named for them

\* The set of one finding.
Found(kind, of, severity, weight) ==
    {[kind |-> kind, of |-> of, severity |-> severity, weight |-> weight, names |-> {}]}
FoundIf(condition, finding) == IF condition THEN finding ELSE {}
Naming(finding, bankers) == {[f EXCEPT !.names = bankers] : f \in finding}

\* A gap in points, and k of n in percent.
Points(gap) == Magnitude(gap) \div WeightSum
Percent(k, n) == 100 * ((k * Unit) \div n)

\* k of n is a share of p percent, or more.
AtLeast(k, n, p) == 100 * k >= p * n

-----------------------------------------------------------------------------
(* Rules, over the analysis `a` of the batch.                              *)

GateFindings(a) ==
    IF a.failing = 0 THEN Found("gates-clean", 0, "positive", Unit)
    ELSE Found("gates", 0,
               IF AtLeast(a.failing, a.n, 5) THEN "critical"
               ELSE IF AtLeast(a.failing, a.n, 2) THEN "high" ELSE "medium",
               Percent(a.failing, a.n))

\* The points lost on a dimension with those its gate costs, times Shares.
LostWithGate(a, d) == Shares * a.dims[d].lost + a.dims[d].caused
AllLost(a) == Sum([d \in Dim |-> LostWithGate(a, d)])

\* The first of the dimensions with the most of something.
FirstBy(Amount(_)) ==
    CHOOSE d \in Dim : \A e \in Dim :
      \/ Amount(d) > Amount(e)
      \/ /\ Amount(d) = Amount(e)
         /\ SelectInSeq(Dims, LAMBDA x : x = d) <= SelectInSeq(Dims, LAMBDA x : x = e)
ParetoTop(a) == FirstBy(LAMBDA d : LostWithGate(a, d))
WeakestDimension(a) == FirstBy(LAMBDA d : -a.dims[d].sum)
StrongestDimension(a) == FirstBy(LAMBDA d : a.dims[d].sum)

PointsFindings(a) ==
    UNION {FoundIf(LostWithGate(a, top) > 0,
             Found("pareto", top,
                   IF AtLeast(LostWithGate(a, top), AllLost(a), 25) THEN "high" ELSE "medium",
                   Percent(LostWithGate(a, top), AllLost(a)))) : top \in {ParetoTop(a)}}

DimensionFindings(a) ==
    LET Weak(d) == FoundIf(d # ParetoTop(a) /\ AtLeast(a.dims[d].low, a.n, 15),
                           Found("weak", d, "medium", Percent(a.dims[d].low, a.n) \div 2))
        Strong(d) == FoundIf(AtLeast(a.dims[d].high, a.n, 60),
                             Found("strong", d, "positive", Percent(a.dims[d].high, a.n) \div 10))
    IN  IF Cardinality(Dim) < 2 THEN {}
        ELSE (UNION {Weak(d) : d \in {WeakestDimension(a)}})
             \cup (UNION {Strong(d) : d \in {StrongestDimension(a)}})

TrendFindings(a) ==
    LET Change(kind, diff, fall) ==
          FoundIf(diff # NoValue /\ diff.clear /\ Practical(diff.gap),
                  Found(kind, 0, IF diff.gap > 0 THEN "positive" ELSE fall, Points(diff.gap)))
    IN  Change("trend", a.trend, "high") \cup Change("last-period", a.last, "medium")

\* Of two groups that are compared, what is said of one is not said again of
\* the other.
SaidAgain(a, g) ==
    LET ranks == {x \in a.segments : x.kind = g.kind /\ x.flag # "few"}
    IN  Cardinality(ranks) = 2 /\ g.flag = "ok" /\ \E x \in ranks : x.flag = "bad"
SegmentSeverity(g) ==
    CASE g.kind = "layout" -> "info"
      [] g.flag = "ok" -> "positive"
      [] g.kind = "duration" -> "medium"
      [] OTHER -> "high"
SegmentFindings(a) ==
    UNION {Found(g.kind, g.key, SegmentSeverity(g), Points(g.diff.gap)) :
             g \in {g \in a.segments : g.flag \in {"bad", "ok"} /\ ~SaidAgain(a, g)}}

BankersFlagged(a, flag) == {b \in DOMAIN a.bankers : a.bankers[b].flag = flag}
Rated(a) == DOMAIN a.bankers \ BankersFlagged(a, "few")

\* How far the best quarter of the bankers is above the weakest.
Spread(a) ==
    LET MeanOf(b) == a.bankers[b].mean
        Above(b) == Cardinality({x \in Rated(a) : MeanOf(x) > MeanOf(b) \/ (MeanOf(x) = MeanOf(b) /\ x > b)})
        k == Max({1, Cardinality(Rated(a)) \div 4})
        best == {b \in Rated(a) : Above(b) < k}
        weakest == {b \in Rated(a) : Above(b) >= Cardinality(Rated(a)) - k}
    IN  (Sum([b \in best |-> MeanOf(b)]) - Sum([b \in weakest |-> MeanOf(b)])) \div k

BankerFindings(a) ==
    LET bad == BankersFlagged(a, "bad")
        ok == BankersFlagged(a, "ok")
    IN  FoundIf(bad # {}, Naming(Found("bankers-bad", 0, "high", 5 * Cardinality(bad) * Unit), bad))
        \cup FoundIf(ok # {} /\ ~(Cardinality(Rated(a)) = 2 /\ bad # {}),
                     Naming(Found("bankers-ok", 0, "positive", 2 * Cardinality(ok) * Unit), ok))
        \cup IF Cardinality(Rated(a)) < SpreadBankers THEN {}
             ELSE UNION {FoundIf(spread >= 10 * WeightSum * Unit,
                                 Found("bankers-spread", 0, "medium", Points(spread) \div 2)) :
                           spread \in {Spread(a)}}

\* Two at most.
ReportedDrivers(a) == SelectSeq(a.drivers, LAMBDA d : d.reportable)
DriverFindings(a) ==
    LET told == ReportedDrivers(a)
    IN  UNION {Found("driver", told[k].key, "medium", Points(told[k].diff.gap)) :
                 k \in DOMAIN told \cap 1 .. 2}

CoverageFindings(a, passed) ==
    LET With(status) == IF status \in DOMAIN a.scope THEN a.scope[status] ELSE 0
        n == Sum(a.scope)
        Waiting(held) ==
          FoundIf(n > 0 /\ AtLeast(held, n, 5),
                  Found("review-rate", 0, IF AtLeast(held, n, 15) THEN "high" ELSE "medium",
                        (Percent(held, n) * 2) \div 5))
        Failed(failed) ==
          FoundIf(n > 0 /\ AtLeast(failed, n, 2),
                  Found("failed", 0, "medium", (Percent(failed, n) * 3) \div 10))
    IN  FoundIf(a.off, Found("redaction-off", 0, "critical", 100 * Unit))
        \cup Waiting(With("needs_human_review")) \cup Failed(With("failed"))
        \cup FoundIf(a.n > 0 /\ ~passed, Found("calibration", 0, "info", Unit))

Findings(a, passed) ==
    CoverageFindings(a, passed)
      \cup IF a.n = 0 THEN {}
           ELSE GateFindings(a) \cup PointsFindings(a) \cup DimensionFindings(a)
                \cup TrendFindings(a) \cup SegmentFindings(a)
                \cup BankerFindings(a) \cup DriverFindings(a)

-----------------------------------------------------------------------------
(* The executive five.                                                     *)

Severities == <<"critical", "high", "medium", "positive", "info">>
SeverityOf(f) == SelectInSeq(Severities, LAMBDA s : s = f.severity)
Problem(f) == SeverityOf(f) <= 3

\* The order of findings of one severity and one weight is left out: any.
InOrder(findings) ==
    LET any == FoldSet(LAMBDA f, seq : Append(seq, f), <<>>, findings)
        sorted == Ranked(DOMAIN any, LAMBDA i, j :
          \/ SeverityOf(any[i]) < SeverityOf(any[j])
          \/ /\ SeverityOf(any[i]) = SeverityOf(any[j])
             /\ \/ any[i].weight > any[j].weight
                \/ any[i].weight = any[j].weight /\ i < j)
    IN  [k \in DOMAIN sorted |-> any[sorted[k]]]

\* Seeded defect: the good news first, and the problems after.
GoodNewsFirst(findings) ==
    LET good == SelectSeq(findings, LAMBDA f : f.severity = "positive")
        other == SelectSeq(findings, LAMBDA f : Problem(f))
        all == good \o other
    IN  {all[k] : k \in DOMAIN all \cap 1 .. 5}

\* Four problems and the best news, and more of either while there is room.
ExecutiveFive(findings) ==
    LET problems == SelectSeq(findings, Problem)
        good == SelectSeq(findings, LAMBDA f : f.severity = "positive")
        picked == {problems[k] : k \in DOMAIN problems \cap 1 .. 4}
                    \cup {good[k] : k \in DOMAIN good \cap {1}}
        rest == SelectSeq(findings, LAMBDA f : f \notin picked /\ f.severity # "info")
    IN  picked \cup {rest[k] : k \in DOMAIN rest \cap 1 .. 5 - Cardinality(picked)}

-----------------------------------------------------------------------------
(* Actions.                                                                *)

\* Who is named for the low scores of a dimension: a minority with clearly
\* more of them than of the calls.
NamedFor(focus, n) ==
    IF /\ focus.allLow >= MinLows
       /\ 100 * (focus.low * n - focus.calls * focus.allLow) >= 15 * n * focus.allLow
    THEN focus.bankers ELSE {}

\* What all calls gain together if the bankers below reach the median.
BankerGain(a) ==
    Sum([b \in BankersFlagged(a, "bad") |->
           a.bankers[b].n * Max({0, a.median - a.bankers[b].mean})])

\* In the order of the dimensions, each with its gain per call and its rank.
Candidates(a) ==
    LET PerCall(gain) == gain \div (WeightSum * a.n)
        worth == Ranked({i \in DOMAIN Dims :
                           \/ 20 * a.dims[Dims[i]].floor.gain > WeightSum * a.n
                           \/ a.dims[Dims[i]].floor.removed > 0}, <)
        ForDimension(d) ==
          [of |-> d, section |-> IF d \in Gates THEN "risk" ELSE "dims",
           names |-> NamedFor(a.dims[d].focus, a.n), gain |-> PerCall(a.dims[d].floor.gain * Unit),
           score |-> PerCall(a.dims[d].floor.gain * Unit)
                       + IF d \in Gates THEN 2 * Percent(a.dims[d].floor.removed, a.n) ELSE 0]
        ForBankers(gain) ==
          [of |-> "bankers", section |-> "bankers", names |-> BankersFlagged(a, "bad"),
           gain |-> gain, score |-> gain]
    IN  IF a.n = 0 THEN <<>>
        ELSE [k \in DOMAIN worth |-> ForDimension(Dims[worth[k]])]
               \o IF BankersFlagged(a, "bad") = {} THEN <<>>
                  ELSE <<ForBankers(PerCall(BankerGain(a)))>>

\* The three best, two at most of one section.
Actions(candidates) ==
    LET Ahead(i, j) == \/ candidates[i].score > candidates[j].score
                       \/ candidates[i].score = candidates[j].score /\ i < j
        kept == {j \in DOMAIN candidates :
                   Cardinality({i \in DOMAIN candidates :
                     Ahead(i, j) /\ candidates[i].section = candidates[j].section}) < 2}
    IN  {candidates[j] : j \in {j \in kept : Cardinality({i \in kept : Ahead(i, j)}) < 3}}

=============================================================================
