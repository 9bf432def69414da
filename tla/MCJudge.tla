------------------------------ MODULE MCJudge ------------------------------
(* Model-checking instance of Judge: families of calls, each one varied    *)
(* where one step of the judging is at stake.                              *)
EXTENDS Judge

MCDims == <<"identification", "disclosure", "empathy", "closure">>
MCWeight == [d \in ToSet(MCDims) |-> IF d \in {"closure", "disclosure"} THEN 1 ELSE 3]
MCGates == {"identification", "disclosure"}

\* Numbers come to their digits: "3.5" and "35" are one text once the
\* punctuation is gone, and "190" ends in "90".
Heavy == {"card", "cancel", "please", "<id>"}
Light == {"is", "not", "90", "10", "35", "banker:"}
Digits == {"0", "1", "3", "5", "9"}
MCSize == [w \in Heavy \cup Light \cup Digits \cup {"id", "3.5", "190", "banker"} |->
             CASE w \in Heavy -> 10 [] w \in Light -> 2 [] w \in Digits -> 1
               [] w \in {"3.5", "190"} -> 3 [] OTHER -> 8]
MCPlain == [w \in DOMAIN MCSize |->
              CASE w \in {"3.5", "35"} -> <<"3", "5">>
                [] w = "190" -> <<"1", "9", "0">>
                [] w = "90" -> <<"9", "0">>
                [] w = "10" -> <<"1", "0">>
                [] w = "<id>" -> <<"id">>
                [] OTHER -> <<w>>]
MCNumbers == {"190", "90", "10", "3.5", "35"}
MCDrivers == <<"interruptions", "questions">>

Turn(speaker, start, said) == [speaker |-> speaker, start |-> start, said |-> said]
Quote(speaker, said) == [speaker |-> speaker, said |-> said, timely |-> TRUE]
Answer(scores, quotes) ==
    [readable |-> TRUE, keys |-> "asked",
     scores |-> [d \in Dim |-> [score |-> scores[d], evidence |-> quotes]]]
All(n) == [d \in Dim |-> n]

\* Short, said in two turns of the banker and one of the customer.
Short == <<Turn("banker", 0, <<"card", "is", "not", "190">>),
           Turn("banker", 1, <<"please", "cancel", "<id>">>),
           Turn("customer", 2, <<"cancel", "3.5", "please", "90">>)>>
Good == Quote("banker", <<"please", "cancel">>)
Ready == [speaks |-> {"schema", "system"}, names |-> "schema", room |-> "ample",
          flaky |-> FALSE]

Ids == 1 .. 11
Steady == [d \in Dim |-> <<1, 3, 5>>]
Single(scores) == [d \in Dim |-> [i \in DOMAIN scores[d] |-> <<scores[d][i]>>]]
Base == [id |-> 1, banker |-> 1, turns |-> Short, samples |-> 1,
         answers |-> {Answer(All(3), <<Good>>)}, server |-> Ready,
         rubric |-> 2, at |-> 9, outcome |-> "success",
         cards |-> None, status |-> [c \in Ids |-> NoValue],
         raters |-> Single(Steady), machine |-> Steady,
         folder |-> NoValue, filter |-> NoFilter]

-----------------------------------------------------------------------------
(* Quotes: every passage of up to five words, as it is or with one word    *)
(* exchanged, dropped or added.                                            *)

Text == FlattenSeq([i \in DOMAIN Short |-> Short[i].said])
Passages == UNION {Windows(Text, n) : n \in 2 .. 5}
Changed(s) ==
    {[s EXCEPT ![i] = w] : i \in DOMAIN s, w \in {"is", "10", "90", "35", "id", "please"}}
    \cup {RemoveAt(s, i) : i \in DOMAIN s}
    \cup {InsertAt(s, i, w) : i \in DOMAIN s, w \in {"not", "banker:", "is"}}
Quotes == UNION {Changed(s) : s \in Passages} \cup Passages
EvidenceCalls ==
    {[Base EXCEPT !.answers = {Answer(All(3), <<Quote(who, said)>>)}] :
       who \in {"banker", "customer"}, said \in Quotes}
    \cup {[Base EXCEPT !.answers = a, !.server.flaky = TRUE] : a \in
            {{[Answer(All(3), <<Good>>) EXCEPT !.keys = "others"], Answer(All(3), <<Good>>)},
             {[Answer(All(3), <<Good>>) EXCEPT !.readable = FALSE], Answer(All(3), <<Good>>)},
             {Answer(All(3), <<[Good EXCEPT !.timely = FALSE]>>)},
             {Answer(All(3), <<>>)},
             {Answer(All(3), <<Good, Quote("customer", <<"please", "90">>)>>)}}}

-----------------------------------------------------------------------------
(* Samples: up to four, drawn from three answers that disagree.            *)

Words == <<<<"please", "cancel">>, <<"card", "is">>, <<"cancel", "<id>">>>>
Scores(a, b) == [d \in Dim |-> IF d \in Gates THEN a ELSE b]
SampleCalls ==
    {[Base EXCEPT
        !.samples = n,
        !.server.flaky = (n = 2),
        !.answers = {Answer([Scores(g[i], o[i]) EXCEPT !["disclosure"] = 4],
                               <<Quote("banker", Words[i])>>) : i \in 1 .. 3}] :
       n \in 1 .. 4, g \in {<<2, 3, 5>>, <<1, 3, 4>>, <<5, 2, 2>>},
       o \in {<<5, 1, 3>>, <<4, 5, 5>>, <<1, 2, 4>>}}

-----------------------------------------------------------------------------
(* Long calls: five turns of every length, the first of them also longer   *)
(* than the share of the opening, as the last may be than its own.         *)

Speak(n) == [i \in 1 .. n |-> "please"]
LongCalls ==
    {[Base EXCEPT
        !.turns = [i \in 1 .. 5 |->
                     Turn(IF i % 2 = 1 THEN "banker" ELSE "customer", 100 * i, Speak(l[i]))],
        !.answers = {Answer(All(4), <<Quote("banker", Speak(1))>>)}] :
       l \in {l \in [1 .. 5 -> {1, 2, 3, 5, 8}] : \A i \in 2 .. 5 : l[i] # 8}}

-----------------------------------------------------------------------------
(* Servers.                                                                *)

ServerCalls ==
    {[Base EXCEPT !.server = [speaks |-> s, names |-> n, room |-> r, flaky |-> f]] :
       s \in SUBSET {"schema", "system"}, n \in {"schema", "system"},
       r \in {"ample", "tight", "none"}, f \in BOOLEAN}

-----------------------------------------------------------------------------
(* Earlier cards, and ratings by people.                                   *)

Card(b, r, t, s) ==
    [banker |-> b, rubric |-> r, at |-> t,
     scores |-> [d \in Dim |-> [score |-> s[d], evidence |-> <<Good>>]],
     total |-> WeightedTotal([d \in Dim |-> [score |-> s[d]]])]
CardSets ==
    {<<Card(1, r1, 1, All(2)), Card(b, r2, t, Scores(2, 4)), Card(2, r3, 3, Scores(5, 3))>> :
       r1 \in 1 .. 2, r2 \in 1 .. 2, r3 \in 1 .. 2, t \in {2, 4}, b \in {1, 2}}
ReportCalls ==
    {[Base EXCEPT !.cards = c, !.rubric = r, !.outcome = o,
                  !.answers = {Answer(All(3), <<Quote(who, <<"please", "cancel">>)>>)},
                  !.status = [x \in Ids |-> IF x = 2 THEN v ELSE NoValue]] :
       c \in CardSets, r \in 1 .. 2, o \in {"success", "needs_human_review"},
       who \in {"banker", "customer"},
       v \in {"success", "needs_human_review", NoValue}}

Series == [1 .. 3 -> {1, 3, 5}]
CalibrationCalls ==
    {[Base EXCEPT !.raters = Single([Steady EXCEPT !["empathy"] = h]),
                  !.machine = [Steady EXCEPT !["empathy"] = m]] :
       h \in Series, m \in Series}
    \cup {[Base EXCEPT !.raters = [Single(Steady) EXCEPT !["empathy"] = h],
                       !.machine = [Steady EXCEPT !["empathy"] = <<3, 3, 3>>]] :
            h \in [1 .. 3 -> {<<3>>, <<3, 3>>, <<2, 3>>, <<2, 4>>}]}

-----------------------------------------------------------------------------
(* Management reports: eleven calls of four bankers, the fourth one with   *)
(* two of them and the first call judged last; the bankers' scores are     *)
(* varied, or the files beside the calls.                                  *)

MCSignificant(test, a, b) ==
    LET Values(group) == {p[2] : p \in group}
    IN  CASE test = "difference" ->
               Max(Values(a)) # Max(Values(b)) /\ Min(Values(a)) # Min(Values(b))
          [] test = "mean" ->
               \/ \A v \in Values(a) : v * Unit > b
               \/ \A v \in Values(a) : v * Unit < b
          [] OTHER -> TRUE

BankerOf(c) == (c + 2) \div 3
Folder ==
    [meta |-> [c \in Ids |-> [banker |-> BankerOf(c), date |-> c, type |-> c % 2,
                              duration |-> 100 * c, layout |-> "stereo"]],
     features |-> [c \in Ids |-> [call |-> c, layout |-> "stereo", duration |-> 100 * c,
                                  value |-> [k \in ToSet(MCDrivers) |-> c]]],
     redacted |-> [c \in Ids |-> [call |-> c, enabled |-> "on"]],
     reasons |-> [c \in Ids |-> {}], pages |-> Ids, bankerPages |-> 1 .. 4, runs |-> Ids]
\* The cards of the other calls, by what they score in call c.
Others(ScoresOf(_), RubricOf(_)) ==
    [c \in Ids \ {1} |-> Card(BankerOf(c), RubricOf(c), 1, ScoresOf(c))]
One(c) == 1
Batches == [Base EXCEPT
    !.folder = Folder, !.rubric = 1, !.cards = Others(LAMBDA c : Scores(3, 4), One),
    !.status = [c \in Ids |-> "success"]]

\* A banker's calls score alike, or the second one better.
Level(id, disclosure, other) ==
    [d \in Dim |-> CASE d = "identification" -> id
                     [] d = "disclosure" -> disclosure [] OTHER -> other]
Levels == {Level(5, 5, 5), Level(2, 4, 4), Level(3, 4, 2), Level(2, 2, 5)}
BankerCalls ==
    {[Batches EXCEPT
        !.answers = {Answer(l[1], <<Good>>)},
        !.cards = Others(LAMBDA c :
                     IF c % 3 = 2 THEN [l[BankerOf(c)] EXCEPT !["empathy"] = Min({5, @ + 1})]
                     ELSE l[BankerOf(c)], One)] :
       l \in [1 .. 4 -> Levels]}

Files(c) == {NoValue} \cup {[call |-> x, enabled |-> e] : x \in {c, 1}, e \in {"on", "off", "absent"}}
FileCalls ==
    {[Batches EXCEPT
        !.cards[2].scores = [d \in Dim |-> [score |-> 5, evidence |-> <<Good>>]],
        !.cards[2].total = 100 * WeightSum,
        !.folder.redacted[2] = x, !.folder.redacted[4] = y, !.status[2] = s, !.status[3] = t] :
       x \in Files(2), y \in {NoValue, [call |-> 4, enabled |-> "absent"]},
       s \in {"success", "needs_human_review", "failed", NoValue}, t \in {"success", "failed"}}

MetaOf(DateOf(_), TypeOf(_)) ==
    [c \in Ids |-> [Folder.meta[c] EXCEPT !.date = DateOf(c), !.type = TypeOf(c)]]
Dates == {<<1, 2, 3, 4>>, <<1, 20, 40, 41>>, <<5, NoValue, 300, 5>>,
          [k \in 1 .. 4 |-> NoValue]}
Types == {<<1, 1, 2, 2>>, <<1, 2, 2, 3>>, <<0, 9, 9, 0>>}
MetaCalls ==
    {[Batches EXCEPT
        !.cards = Others(LAMBDA c : [Scores(3, (c % 4) + 1) EXCEPT !["closure"] = 1],
                         LAMBDA c : r[(c % 2) + 1]),
        !.folder.meta = MetaOf(LAMBDA c : dates[BankerOf(c)], LAMBDA c : types[(c % 4) + 1])] :
       dates \in Dates, types \in Types, r \in {<<1, 1>>, <<1, 2>>}}

Missing == [Folder EXCEPT !.meta[3] = NoValue, !.features[4] = NoValue,
                          !.meta[5].duration = NoValue, !.features[5].call = 1,
                          !.features[2].layout = "mono", !.meta[4].layout = "mono"]
Measured(ValueOf(_)) ==
    [Missing EXCEPT !.features = [c \in Ids |->
       IF @[c] = NoValue THEN NoValue
       ELSE [@[c] EXCEPT !.value = [k \in DOMAIN @ |-> ValueOf(c)]]]]
FeatureCalls ==
    {[Batches EXCEPT
        !.cards = Others(LAMBDA c : Scores(3, s[((c * 5) \div 12) + 1]), One), !.folder = f] :
       s \in {<<1, 2, 4, 5, 5>>, <<5, 4, 4, 2, 1>>},
       f \in {Measured(LAMBDA c : c), Measured(LAMBDA c : c \div 10), Measured(LAMBDA c : 3),
              Measured(LAMBDA c : c % 2)}}

FilterCalls ==
    {[Batches EXCEPT !.filter = f, !.folder.runs = {1, 4, 5, 6},
                     !.machine["empathy"] = <<3, 3, 3>>] :
       f \in {[NoFilter EXCEPT !.from = 3], [NoFilter EXCEPT !.to = 4],
              [NoFilter EXCEPT !.from = 12], [NoFilter EXCEPT !.type = 1],
              [NoFilter EXCEPT !.banker = 2], [NoFilter EXCEPT !.banker = -2],
              [NoFilter EXCEPT !.run = 1]}}

MCCalls == UNION {EvidenceCalls, SampleCalls, LongCalls, ServerCalls,
                  ReportCalls, CalibrationCalls, BankerCalls, FileCalls, MetaCalls,
                  FeatureCalls, FilterCalls}

=============================================================================
