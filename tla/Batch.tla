-------------------------------- MODULE Batch -------------------------------
(* The numbers of the management report over a batch of calls: which calls *)
(* are in it and what may be said of each (reporting/executive/dataset.py), *)
(* and what is counted and compared (analysis.py).                         *)
(*                                                                         *)
(* A folder is what the output directory holds, file by file, NoValue for  *)
(* a file that is missing or cannot be read: meta[c], features[c] and      *)
(* redacted[c] of each call, the pages of calls and bankers, the reason in *)
(* an envelope and the record of each run.  A card is one of Scores.       *)
(* Totals are in parts of WeightSum, means in parts of Unit besides, dates *)
(* are days.  Whether an interval leaves out a value (stats.py) is a     *)
(* parameter: what is compared with what, and what follows, is here.       *)
EXTENDS Scores

CONSTANTS
    Significant(_, _, _), \* of a test, by name, of two sets of <<call, total>>,
                       \* or of one and a value
    Unit,              \* parts of a point that any group divides
    Shares,            \* parts of a penalty that any number of gates divides
    Identifying,       \* bankers whose id looks like that of a person
    Drivers,           \* DRIVERS, by their names in order
    MinGroup,          \* MIN_GROUP_N
    MinPractical,      \* MIN_PRACTICAL_DIFF
    MinDriver,         \* MIN_DRIVER_N
    MinTrend,          \* MIN_TREND_N, and days of MIN_TREND_SPAN_DAYS
    MinSpan,
    RareCalls,         \* calls of a type that is told apart, RARE_SHARE aside
    OtherType,         \* OTHER_TYPE
    Unspecified,       \* UNSPECIFIED_TYPE
    DurationBuckets,   \* DURATION_BUCKETS: their lower ends
    DayUpTo, WeekUpTo  \* choose_granularity: spans in days

\* A pseudonym is not one of those ids, a figure is not the lack of one, and
\* as many gates as there are can share a penalty.
ASSUME BatchAssumption ==
    /\ Identifying \subseteq Nat \ {0} /\ Unit \in Nat /\ MinGroup \in Nat /\ NoValue \notin Int
    /\ \A k \in 1 .. Cardinality(Gates) : \E m \in 1 .. Shares : Shares = k * m

Mean(group) == (Sum([p \in group |-> p[2]]) * Unit) \div Cardinality(group)
Magnitude(x) == IF x < 0 THEN -x ELSE x

\* stats.quantile at k quarters of the values of a set of <<value, key>>:
\* between the two values nearest to it.
Quantile(values, k) ==
    LET Rank(p) == Cardinality({q \in values : q[1] < p[1] \/ (q[1] = p[1] /\ q[2] < p[2])})
        at == (Cardinality(values) - 1) * k
        Nth(n) == (CHOOSE p \in values : Rank(p) = n)[1]
    IN  (Nth(at \div 4) * (4 - (at % 4)) + Nth((at + 3) \div 4) * (at % 4)) \div 4

-----------------------------------------------------------------------------
(* dataset.py.                                                             *)

\* The id of a banker as it is shown.
Shown(b) == IF b \in Identifying THEN -b ELSE b

\* Seeded defect: a transcript that does not say is taken for a redacted one.
TextGateByDefault(folder, c) ==
    LET file == folder.redacted[c]
        own == file # NoValue /\ file.call = c
    IN  [allowed |-> own /\ file.enabled # "off", off |-> own /\ file.enabled = "off"]

\* Only what the file itself says of redaction counts, and only of this call.
TextGate(folder, c) ==
    LET file == folder.redacted[c]
        own == file # NoValue /\ file.call = c
    IN  [allowed |-> own /\ file.enabled = "on", off |-> own /\ file.enabled = "off"]

\* Seeded defect: the card of an earlier run stands for a held call.
CardOnDisk(cards, status, c) == IF c \in DOMAIN cards THEN cards[c] ELSE NoValue

CardOf(cards, status, c) ==
    LET counted == LoadScorecards(cards, status)
    IN  IF status[c] \notin {NoValue, "success"} \/ c \notin DOMAIN counted THEN NoValue
        ELSE counted[c]

Record(folder, cards, status, c) ==
    LET card == CardOf(cards, status, c)
        meta == folder.meta[c]
        features == IF folder.features[c] # NoValue /\ folder.features[c].call = c
                    THEN folder.features[c] ELSE NoValue
        gate == TextGate(folder, c)
        raw == IF card # NoValue THEN card.banker
               ELSE IF meta # NoValue THEN meta.banker ELSE 0
        dated == meta # NoValue /\ meta.date # NoValue
    IN  [status |-> IF status[c] = NoValue THEN "success" ELSE status[c],
         raw |-> raw, banker |-> Shown(raw), card |-> card, features |-> features,
         date |-> IF dated THEN meta.date ELSE IF card # NoValue THEN card.at ELSE NoValue,
         source |-> IF dated THEN "call" ELSE IF card # NoValue THEN "processed" ELSE "none",
         type |-> IF meta # NoValue THEN meta.type ELSE Unspecified,
         duration |-> IF meta # NoValue /\ meta.duration # NoValue THEN meta.duration
                      ELSE IF features # NoValue THEN features.duration ELSE NoValue,
         layout |-> IF features # NoValue THEN features.layout
                    ELSE IF meta # NoValue THEN meta.layout ELSE NoValue,
         text |-> gate.allowed, off |-> gate.off,
         reasons |-> IF folder.reasons[c] = {} THEN {"other"} ELSE folder.reasons[c],
         page |-> /\ card # NoValue /\ gate.allowed /\ status[c] # NoValue
                  /\ c \in folder.pages,
         bankerPage |-> /\ raw \in folder.bankerPages /\ Shown(raw) = raw
                        /\ \E x \in Range(LoadScorecards(cards, status)) : x.banker = raw]

\* A filter has NoValue where it lets everything pass.
NoFilter == [from |-> NoValue, to |-> NoValue, type |-> NoValue, banker |-> NoValue,
             run |-> NoValue]
Matches(r, filter) ==
    /\ filter.from # NoValue => r.date # NoValue /\ r.date >= filter.from
    /\ filter.to # NoValue => r.date # NoValue /\ r.date <= filter.to
    /\ filter.type # NoValue => r.type = filter.type
    /\ filter.banker # NoValue => filter.banker \in {r.raw, r.banker}

\* Calls with an envelope or a card that counts; of one run, if one is asked for.
InBatch(folder, cards, status, filter) ==
    {c \in DOMAIN status :
       /\ status[c] # NoValue \/ c \in DOMAIN LoadScorecards(cards, status)
       /\ filter.run # NoValue => c \in folder.runs
       /\ Matches(Record(folder, cards, status, c), filter)}

LoadBatch(folder, cards, status, filter) ==
    [c \in InBatch(folder, cards, status, filter) |-> Record(folder, cards, status, c)]

-----------------------------------------------------------------------------
(* analysis.py, over the records `batch` of LoadBatch.                     *)

Scored(batch) == {c \in DOMAIN batch : batch[c].card # NoValue}
Totals(batch, calls) == {<<c, batch[c].card.total>> : c \in calls}
ScoreIn(batch, c, d) == batch[c].card.scores[d].score

LostOn(card, d) == Weight[d] * (5 - card.scores[d].score) * 25

\* Seeded defect: what a gate costs is counted from the cap downwards too.
PenaltyEitherWay(card) ==
    LET raw == Sum([d \in Dim |-> Weight[d] * (card.scores[d].score - 1) * 25])
    IN  IF FailedGates(card.scores) # {} THEN raw - GateCap * WeightSum ELSE 0

Penalty(card) ==
    LET raw == Sum([d \in Dim |-> Weight[d] * (card.scores[d].score - 1) * 25])
    IN  IF FailedGates(card.scores) # {} /\ raw > GateCap * WeightSum
        THEN raw - GateCap * WeightSum ELSE 0

FailedOn(batch, d) == {c \in Scored(batch) : d \in FailedGates(batch[c].card.scores)}

\* Seeded defect: every gate that failed is given all of the penalty.
CausedInFull(batch, d) ==
    Sum([c \in FailedOn(batch, d) |-> Penalty(batch[c].card) * Shares])

\* A penalty is split among the gates that failed.
Caused(batch, d) ==
    Sum([c \in FailedOn(batch, d) |->
           (Penalty(batch[c].card) * Shares) \div Cardinality(FailedGates(batch[c].card.scores))])

Lifted(card, d) == [card.scores EXCEPT ![d] = [score |-> 3, evidence |-> <<>>]]

\* If every score below 3 on one dimension were a 3.
FloorGain(batch, d) ==
    LET low == {c \in Scored(batch) : ScoreIn(batch, c, d) < 3}
    IN  [gain |-> Sum([c \in low |->
                    WeightedTotal(Lifted(batch[c].card, d)) - batch[c].card.total]),
         removed |-> Cardinality({c \in low :
                       /\ FailedGates(batch[c].card.scores) # {}
                       /\ FailedGates(Lifted(batch[c].card, d)) = {}})]

\* A fifth, rounded, of so many bankers, and one at least.
Fifth(n) == Max({1, (2 * n + 5) \div 10})
BankersOf(batch, calls) == {batch[c].banker : c \in calls}
CallsOf(batch, b) == {c \in Scored(batch) : batch[c].banker = b}

\* The fifth of the bankers with the most low calls, with their calls.
FocusBankers(batch, d) ==
    LET Low(b) == Cardinality({c \in CallsOf(batch, b) : ScoreIn(batch, c, d) <= 2})
        All(b) == Cardinality(CallsOf(batch, b))
        Ahead(a, b) == \/ Low(a) > Low(b)
                       \/ Low(a) = Low(b) /\ All(a) < All(b)
                       \/ Low(a) = Low(b) /\ All(a) = All(b) /\ a < b
        bankers == BankersOf(batch, Scored(batch))
        some == {b \in bankers : Low(b) > 0}
        few == {b \in some : Cardinality({a \in some : Ahead(a, b)}) < Fifth(Cardinality(bankers))}
    IN  [bankers |-> few,
         low |-> Sum([b \in few |-> Low(b)]), allLow |-> Sum([b \in some |-> Low(b)]),
         calls |-> Sum([b \in few |-> All(b)])]

\* The days of the calls, or of their processing when no call has a day.
Dated(batch) ==
    LET byCall == {c \in Scored(batch) : batch[c].source = "call"}
    IN  IF byCall # {} THEN byCall ELSE {c \in Scored(batch) : batch[c].date # NoValue}
Basis(batch) == {batch[c].source : c \in Dated(batch)}
InScope(batch) ==
    {c \in DOMAIN batch : batch[c].source = "call"
                            \/ (batch[c].source = "processed" /\ Basis(batch) = {"processed"})}
Granularity(batch) ==
    LET days == {batch[c].date : c \in InScope(batch)}
    IN  IF Max(days) - Min(days) <= DayUpTo THEN "day"
        ELSE IF Max(days) - Min(days) <= WeekUpTo THEN "week" ELSE "month"
\* Day 0 is a Monday, a week begins on Sunday, and a month has 30 days.
PeriodStart(day, granularity) ==
    CASE granularity = "week" -> day - ((day + 1) % 7)
      [] granularity = "month" -> day - (day % 30)
      [] OTHER -> day
Periods(batch) ==
    LET Start(c) == PeriodStart(batch[c].date, Granularity(batch))
    IN  IF Dated(batch) = {} THEN {}
        ELSE {{c \in Dated(batch) : Start(c) = s} : s \in {Start(c) : c \in Dated(batch)}}

-----------------------------------------------------------------------------
(* Comparisons.                                                            *)

TypeBucket(batch, c) ==
    LET same == {x \in Scored(batch) : batch[x].type = batch[c].type}
    IN  IF Cardinality(same) >= RareCalls /\ 100 * Cardinality(same) >= Cardinality(Scored(batch))
        THEN batch[c].type ELSE OtherType
DurationBucket(batch, c) ==
    IF batch[c].duration = NoValue THEN NoValue
    ELSE Max({b \in DurationBuckets : b <= batch[c].duration})

SegmentKinds == {"type", "duration", "layout"}
SegmentKey(batch, kind, c) ==
    CASE kind = "type" -> TypeBucket(batch, c)
      [] kind = "duration" -> DurationBucket(batch, c)
      [] kind = "layout" -> batch[c].layout

\* A call without a length is in no segment but among "the rest"; one whose
\* layout is not known is in neither.
Segments(batch, kind) ==
    LET keys == {SegmentKey(batch, kind, c) : c \in Scored(batch)} \ {NoValue}
        In(k) == {c \in Scored(batch) : SegmentKey(batch, kind, c) = k}
        Rest(k) == {c \in Scored(batch) \ In(k) :
                      kind = "layout" => batch[c].layout # NoValue}
    IN  IF Cardinality(keys) < 2 THEN {}
        ELSE {[kind |-> kind, key |-> k, members |-> In(k), rest |-> Rest(k),
                diff |-> NoValue, flag |-> "none"] : k \in keys}

\* Large enough to be worth a manager's time.
Practical(gap) == Magnitude(gap) >= MinPractical * WeightSum * Unit

\* Seeded defect: a group is compared whatever its size.
FlagOfAny(diff, n) ==
    IF diff = NoValue \/ ~diff.clear \/ ~Practical(diff.gap) THEN "none"
    ELSE IF diff.gap > 0 THEN "ok" ELSE "bad"

\* What is said of a gap, which is [clear, gap], or NoValue.
Flag(diff, n) ==
    IF n < MinGroup THEN "few"
    ELSE IF diff = NoValue \/ ~diff.clear \/ ~Practical(diff.gap) THEN "none"
    ELSE IF diff.gap > 0 THEN "ok" ELSE "bad"

\* welch_diff of two groups of calls.
WelchDiff(batch, group, rest) ==
    LET own == Totals(batch, group)
        others == Totals(batch, rest)
    IN  IF Cardinality(group) < 2 \/ Cardinality(rest) < 2 THEN NoValue
        ELSE [clear |-> Significant("difference", own, others),
              gap |-> Mean(own) - Mean(others)]

Compared(batch, g) ==
    LET diff == WelchDiff(batch, g.members, g.rest)
    IN  [g EXCEPT !.diff = diff, !.flag = Flag(diff, Cardinality(g.members))]

Groups(batch) ==
    [b \in BankersOf(batch, Scored(batch)) |->
       [n |-> Cardinality(CallsOf(batch, b)), mean |-> Mean(Totals(batch, CallsOf(batch, b))),
        flag |-> "none"]]

\* The bankers with enough calls, without one of them, and the median of
\* their means.
Typical(groups, without) ==
    LET eligible == {b \in DOMAIN groups \ {without} : groups[b].n >= MinGroup}
        means == {<<groups[b].mean, b>> : b \in eligible}
    IN  [n |-> Cardinality(eligible),
         value |-> IF eligible = {} THEN NoValue ELSE Quantile(means, 2)]

\* Seeded defect: a banker is compared with the mean of everyone else's calls.
AgainstTheRest(batch, groups, b) ==
    LET diff == WelchDiff(batch, CallsOf(batch, b), Scored(batch) \ CallsOf(batch, b))
    IN  [groups[b] EXCEPT !.flag = Flag(diff, groups[b].n)]

\* A banker is compared with the median of the others.
AgainstTypical(batch, groups, b) ==
    LET others == Typical(groups, b)
        own == Totals(batch, CallsOf(batch, b))
        diff == IF others.n < 2 \/ groups[b].n < 2 THEN NoValue
                ELSE [clear |-> Significant("mean", own, others.value),
                      gap |-> groups[b].mean - others.value]
    IN  [groups[b] EXCEPT !.flag = Flag(diff, groups[b].n)]

\* Interruptions exist on two channels only.
DriverValue(features, key) ==
    IF key = "interruptions" /\ features.layout = "mono" THEN NoValue ELSE features.value[key]
DriverCalls(batch, key) ==
    {c \in Scored(batch) : batch[c].features # NoValue
                             /\ DriverValue(batch[c].features, key) # NoValue}

\* Seeded defect: the quarters are compared also when they meet.
QuartersThatMeet(values) ==
    IF values = {} THEN [low |-> {}, high |-> {}]
    ELSE [low |-> {p[2] : p \in {p \in values : p[1] <= Quantile(values, 1)}},
          high |-> {p[2] : p \in {p \in values : p[1] >= Quantile(values, 3)}}]

\* The quarter of the calls with the least of a feature and that with the
\* most, when they are two; `values` pairs the feature with the call.
Quarters(values) ==
    IF values = {} \/ Quantile(values, 1) = Quantile(values, 3) THEN [low |-> {}, high |-> {}]
    ELSE [low |-> {p[2] : p \in {p \in values : p[1] <= Quantile(values, 1)}},
          high |-> {p[2] : p \in {p \in values : p[1] >= Quantile(values, 3)}}]

DriverValues(batch, key) ==
    {<<DriverValue(batch[c].features, key) * Unit, c>> : c \in DriverCalls(batch, key)}

\* A driver, by its quarters, and whether it is reported.  Of the rank
\* correlation only the number of calls it needs is kept.
Driver(batch, key, quarters) ==
    LET diff == WelchDiff(batch, quarters.high, quarters.low)
    IN  [key |-> key, quarters |-> quarters, diff |-> diff,
         reportable |-> /\ Cardinality(DriverCalls(batch, key)) >= MinDriver
                        /\ diff # NoValue /\ diff.clear /\ Practical(diff.gap)]

\* The slope of the index over the days, times their span, rounded down.
Trend(batch) ==
    LET dated == Dated(batch)
        n == Cardinality(dated)
        Day(c) == batch[c].date
        days == {Day(c) : c \in dated}
        allDays == Sum([c \in dated |-> Day(c)])
        spread == n * Sum([c \in dated |-> Day(c) * Day(c)]) - allDays * allDays
        drift == n * Sum([c \in dated |-> Day(c) * batch[c].card.total])
                   - allDays * Sum([c \in dated |-> batch[c].card.total])
        change == (Magnitude(drift) * (Max(days) - Min(days))) \div spread
    IN  IF n < MinTrend \/ Max(days) - Min(days) < MinSpan THEN NoValue
        ELSE [clear |-> Significant("trend", {<<Day(c), batch[c].card.total>> : c \in dated}, 0),
              gap |-> (IF drift < 0 THEN -change ELSE change) * Unit]

\* The last period against the one before.
LastPeriod(batch) ==
    LET inOrder == Ranked(Periods(batch), LAMBDA p, q :
                     Min({batch[c].date : c \in p}) < Min({batch[c].date : c \in q}))
        n == Len(inOrder)
    IN  IF \/ n < 2
           \/ Cardinality(inOrder[n]) < MinGroup \/ Cardinality(inOrder[n - 1]) < MinGroup
        THEN NoValue ELSE WelchDiff(batch, inOrder[n], inOrder[n - 1])

-----------------------------------------------------------------------------
(* Examples.                                                               *)

\* Seeded defect: the quote of any call.
PoolOfAll(batch, d) ==
    {c \in Scored(batch) : batch[c].card.scores[d].evidence # <<>>}

\* Only quotes of calls whose text may be shown.
Pool(batch, d) ==
    {c \in Scored(batch) : batch[c].text /\ batch[c].card.scores[d].evidence # <<>>}

\* Of different bankers first, then in order; k at most.
DistinctBankers(batch, order, k) ==
    LET calls == DOMAIN order
        New(i) == \A j \in 1 .. i - 1 : batch[order[j]].banker # batch[order[i]].banker
        Before(i, j) == (New(i) /\ ~New(j)) \/ ((New(i) <=> New(j)) /\ i < j)
    IN  {order[i] : i \in {i \in calls : Cardinality({j \in calls : Before(j, i)}) < k}}

Best(batch, d) ==
    DistinctBankers(batch, Ranked({c \in Pool(batch, d) : ScoreIn(batch, c, d) = 5},
      LAMBDA a, b : \/ batch[a].card.total > batch[b].card.total
                    \/ batch[a].card.total = batch[b].card.total /\ a < b), 3)
Worst(batch, d) ==
    DistinctBankers(batch, Ranked({c \in Pool(batch, d) : ScoreIn(batch, c, d) <= 2},
      LAMBDA a, b : \/ ScoreIn(batch, a, d) < ScoreIn(batch, b, d)
                    \/ /\ ScoreIn(batch, a, d) = ScoreIn(batch, b, d)
                       /\ \/ batch[a].card.total < batch[b].card.total
                          \/ batch[a].card.total = batch[b].card.total /\ a < b), 3)

\* Calls to look at: 25 of those with a failed gate, then of the weakest.
Attention(batch) ==
    LET Failed(c) == FailedGates(batch[c].card.scores) # {}
        Ahead(a, b) ==
          \/ Failed(a) /\ ~Failed(b)
          \/ /\ Failed(a) <=> Failed(b)
             /\ \/ batch[a].card.total < batch[b].card.total
                \/ batch[a].card.total = batch[b].card.total /\ a < b
        order == Ranked({c \in Scored(batch) :
                           Failed(c) \/ batch[c].card.total < 40 * WeightSum}, Ahead)
    IN  {order[i] : i \in {i \in DOMAIN order : i <= 25}}

-----------------------------------------------------------------------------
(* The analysis of a batch whose bankers are `groups`.                     *)

DimStat(batch, d) ==
    [sum |-> Sum([c \in Scored(batch) |-> ScoreIn(batch, c, d)]),
     low |-> Cardinality({c \in Scored(batch) : ScoreIn(batch, c, d) <= 2}),
     high |-> Cardinality({c \in Scored(batch) : ScoreIn(batch, c, d) >= 4}),
     lost |-> Sum([c \in Scored(batch) |-> LostOn(batch[c].card, d)]),
     caused |-> Caused(batch, d),
     floor |-> FloorGain(batch, d),
     focus |-> FocusBankers(batch, d),
     best |-> Best(batch, d), worst |-> Worst(batch, d)]

Analyse(batch, groups) ==
    [n |-> Cardinality(Scored(batch)),
     scope |-> [s \in {batch[c].status : c \in DOMAIN batch} |->
                  Cardinality({c \in DOMAIN batch : batch[c].status = s})],
     failing |-> Cardinality({c \in Scored(batch) : FailedGates(batch[c].card.scores) # {}}),
     dims |-> [d \in Dim |-> DimStat(batch, d)],
     trend |-> IF Dated(batch) = {} THEN NoValue ELSE Trend(batch),
     last |-> LastPeriod(batch),
     segments |-> {Compared(batch, g) : g \in UNION {Segments(batch, k) : k \in SegmentKinds}},
     bankers |-> [b \in DOMAIN groups |-> AgainstTypical(batch, groups, b)],
     median |-> Typical(groups, NoValue).value,
     drivers |-> [k \in DOMAIN Drivers |->
                    CHOOSE d \in {Driver(batch, Drivers[k], q) :
                                    q \in {Quarters(v) : v \in {DriverValues(batch, Drivers[k])}}} :
                      TRUE],
     attention |-> Attention(batch),
     off |-> \E c \in DOMAIN batch : batch[c].off]

=============================================================================
