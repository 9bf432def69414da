--------------------------- MODULE MCCallAnalysis ---------------------------
(* Model-checking instance of CallAnalysis: families of calls, each one    *)
(* varied where one of its stages is at stake.                             *)
EXTENDS CallAnalysis, TLC

Word(a, b, cue) == [start |-> a, end |-> b, cue |-> cue]
Segment(words, timed) ==
    [start |-> words[1].start, end |-> words[Len(words)].end,
     said |-> words, timed |-> timed]
Whole(words) == Segment(words, DOMAIN words)
Blank == [mono |-> TRUE, auto |-> FALSE, parallel |-> FALSE,
          segments |-> <<>>, other |-> <<>>, regions |-> <<>>,
          text |-> <<>>, finds |-> <<>>, names |-> <<>>, persons |-> {},
          secret |-> {}, plain |-> {}]

-----------------------------------------------------------------------------
(* Mono calls: every diarization of up to three regions on a short clock,  *)
(* its labels named in the order in which they appear.                     *)

Region(l, iv) == [label |-> l, start |-> iv[1], end |-> iv[2]]
Interval == {iv \in (0 .. 4) \X (0 .. 4) : iv[1] < iv[2]}
Key(iv) == 10 * iv[1] + iv[2]
Naming == {<<1, 1, 1>>, <<1, 1, 2>>, <<1, 2, 1>>, <<1, 2, 2>>, <<1, 2, 3>>}
Triples == {ivs \in Interval \X Interval \X Interval :
              Key(ivs[1]) <= Key(ivs[2]) /\ Key(ivs[2]) <= Key(ivs[3])}
Diarizations ==
    {<<>>} \cup {<<Region(1, iv)>> : iv \in Interval}
    \cup {<<Region(n[1], ivs[1]), Region(n[2], ivs[2]), Region(n[3], ivs[3])>> :
            n \in Naming, ivs \in Triples}
    \cup {[i \in 1 .. 5 |-> Region(n[i], <<i - 1, i>>)] : n \in [1 .. 5 -> 1 .. 3]}

Exchange == <<Whole(<<Word(0, 1, "opening"), Word(1, 2, "n1"),
                      Word(2, 3, "n1"), Word(3, 4, "question"),
                      Word(4, 5, "plain")>>)>>
Ragged == <<Whole(<<Word(0, 2, "request"), Word(1, 1, "plain"),
                    Word(1, 3, "plain")>>),
            Segment(<<Word(3, 4, "n1")>>, {})>>

MonoCalls == {[Blank EXCEPT !.segments = s, !.regions = d] :
                s \in {Exchange, Ragged}, d \in Diarizations}

-----------------------------------------------------------------------------
(* Stereo calls: who speaks when, and what gives the roles away.           *)

Stretches == {<<0, 4>>, <<1, 2>>, <<3, 5>>, <<6, 7>>, <<9, 10>>}
Cues == {"plain", "opening", "n1"}
Channel(ivs, cue, second) ==
    LET order == Ranked(ivs, LAMBDA a, b : a[1] < b[1])
    IN  [i \in DOMAIN order |->
           Whole(<<Word(order[i][1], order[i][2],
                        IF i = 1 THEN cue ELSE IF i = 2 THEN second ELSE "plain")>>)]
StereoCalls ==
    {[Blank EXCEPT !.mono = FALSE, !.auto = TRUE,
            !.segments = Channel(b, bc, "request"), !.other = Channel(c, cc, "plain")] :
       b \in SUBSET Stretches \ {{}}, c \in SUBSET Stretches,
       bc \in Cues, cc \in {"plain", "n1"}}

-----------------------------------------------------------------------------
(* A stereo call of five words in three overlapping turns, with every pair *)
(* of finds, a name of the list, a person, and words without a time.       *)

Found == {f \in (1 .. 5) \X (1 .. 5) : f[1] <= f[2] /\ f[2] < f[1] + 3}
MaskCall(t1, t2, fs, ns, ps) ==
    [Blank EXCEPT !.mono = FALSE,
       !.segments = <<Segment(<<Word(0, 1, "plain"), Word(1, 4, "plain")>>, t1),
                      Whole(<<Word(7, 8, "plain")>>)>>,
       !.other = <<Segment(<<Word(2, 3, "plain"), Word(4, 6, "plain")>>, t2)>>,
       !.finds = fs, !.names = ns, !.persons = ps]
MaskCalls ==
    {MaskCall(t1, t2, fs, ns, ps) :
       t1 \in {{}, {1, 2}}, t2 \in {{1}, {1, 2}},
       fs \in {fs \in Found \X Found : fs[1][1] <= fs[2][1]} \cup {<<f>> : f \in Found},
       ns \in {<<>>, <<2>>}, ps \in {{}, {4}}}

-----------------------------------------------------------------------------
(* Stereo calls with a text to be searched: turns [who, words], each a     *)
(* word of tokens, one second long.                                        *)

Tok(is, digits, says) == [is |-> is, digits |-> digits, says |-> says]
Num(d) == Tok("number", d, {})
Say(says) == <<Tok("word", <<>>, says)>>
Dig(d) == <<Tok("word", <<d>>, {"digit", "day", "count"})>>
Mark(is) == Tok(is, <<>>, {})

\* listed: the turns whose words the recogniser listed with a time.
TextCall(turns, secret, plain, listed) ==
    LET Before(i) == MapThenSumSet(LAMBDA j : Len(turns[j].words), 1 .. i - 1)
        SegmentOf(i) ==
          LET words == [k \in DOMAIN turns[i].words |->
                          Word(Before(i) + k - 1, Before(i) + k, "plain")]
          IN  Segment(words, IF i \in listed THEN DOMAIN words ELSE {})
        Of(who) == LET is == SelectSeq([i \in DOMAIN turns |-> i],
                                       LAMBDA i : turns[i].who = who)
                   IN  [k \in DOMAIN is |-> SegmentOf(is[k])]
    IN  [Blank EXCEPT !.mono = FALSE, !.segments = Of("banker"), !.other = Of("customer"),
           !.text = FlattenSeq([i \in DOMAIN turns |-> turns[i].words]),
           !.secret = secret, !.plain = plain]

By(who, words) == [who |-> who, words |-> words]
Customer(words) == <<By("customer", words)>>
All(turns) == DOMAIN turns
NumberWords(turns) ==
    LET words == FlattenSeq([i \in DOMAIN turns |-> turns[i].words])
    IN  {w \in DOMAIN words : \E k \in DOMAIN words[w] : words[w][k].is = "number"}
WordsSaid(turns) == 1 .. MapThenSumSet(LAMBDA i : Len(turns[i].words), DOMAIN turns)

\* An identity number and a phone number in up to three groups, with what may
\* stand between them, and a word before and after.
Identity == <<1, 2, 3, 4, 5, 6, 7, 8, 2>>
Phone == <<0, 5, 2, 1, 2, 3, 4, 5, 6, 7>>
Cuts(d) == {c \in SUBSET (1 .. Len(d) - 1) : Cardinality(c) <= 2}
GroupsOf(d, cuts) ==
    LET ends == InOrder(cuts \cup {Len(d)})
    IN  [k \in DOMAIN ends |->
           Num(SubSeq(d, (IF k = 1 THEN 0 ELSE ends[k - 1]) + 1, ends[k]))]
Written(groups, sep) ==
    LET Then(k, x) == IF k = Len(groups) THEN <<groups[k]>> ELSE <<groups[k]>> \o x
    IN  CASE sep = "one word" ->
               <<FlattenSeq([k \in DOMAIN groups |-> Then(k, <<Mark("dash")>>)])>>
          [] sep = "commas" -> [k \in DOMAIN groups |-> Then(k, <<Mark("comma")>>)]
          [] sep = "spaces" -> [k \in DOMAIN groups |-> Then(k, <<>>)]
          [] sep = "dashes" ->
               FlattenSeq([k \in DOMAIN groups |->
                             IF k = 1 THEN <<<<groups[k]>>>>
                             ELSE <<<<Mark("dash")>>, <<groups[k]>>>>])
Grouped(d, cuts, sep, before, after) ==
    LET first == IF before = {} THEN <<>> ELSE <<Say(before)>>
        last == IF after = {} THEN <<>> ELSE <<Say(after)>>
        groups == GroupsOf(d, cuts)
    IN  IF sep = "turns"
        THEN [k \in DOMAIN groups |->
                By("customer", (IF k = 1 THEN first ELSE <<>>) \o <<<<groups[k]>>>>
                               \o (IF k = Len(groups) THEN last ELSE <<>>))]
        ELSE Customer(first \o Written(groups, sep) \o last)
Secretly(turns, listed) == TextCall(turns, NumberWords(turns), {}, listed)
GroupedCalls ==
    {Secretly(Grouped(d, cuts, sep, before, after), listed) :
       <<d, cuts>> \in UNION {{d} \X Cuts(d) : d \in {Identity, Phone}},
       sep \in {"one word", "commas", "spaces", "dashes", "turns"},
       before \in {{}, {"account"}}, after \in {{}, {"amount"}}, listed \in {{1, 2, 3}, {1}}}

\* An account number beside a price: which of the two it is.
Account == <<Num(<<4, 8, 1, 9, 0, 2>>)>>
Filler == Say({"filler"})
AccountTurns(before, fillers) ==
    Customer(<<Say(before)>> \o [k \in 1 .. fillers |-> Filler] \o <<Account, Say({"amount"})>>)
AccountCalls ==
    {TextCall(AccountTurns(before, n), IF before = {"account"} THEN {} ELSE {n + 2},
              {1, n + 3} \cup IF before = {"account"} THEN {n + 2} ELSE {}, {1}) :
       before \in {{"account"}, {"account", "named"}, {"account", "strong"}}, n \in 0 .. 2}

\* Digits in words: three are ordinary speech, four or more are dictated.
DictatedCalls ==
    {TextCall(turns, IF n > 3 THEN 2 .. n + 1 ELSE {}, IF n > 3 THEN {1} ELSE 1 .. n + 2, {1, 2}) :
       <<n, turns>> \in
         {<<n, IF pause \in {"none", "comma"}
               THEN Customer(<<Say({"account"})>>
                      \o [k \in 1 .. n |-> IF pause = "comma" /\ k < n
                                           THEN Dig(Identity[k]) \o <<Mark("comma")>>
                                           ELSE Dig(Identity[k])] \o <<Say({})>>)
               ELSE <<By("customer", <<Say({"account"})>> \o [k \in 1 .. 2 |-> Dig(Identity[k])]),
                      By("customer", [k \in 1 .. n - 2 |-> Dig(Identity[k + 2])] \o <<Say({})>>)>>>> :
            n \in 3 .. 9, pause \in {"none", "comma", "turn"}}}

\* A number said and its tail, or another number, said again.
ReadBackCalls ==
    {TextCall(Customer(<<<<Num(Identity)>>>>)
              \o <<By("banker", <<Say({}), <<Num(tail)>>, Say(after)>>)>>,
              {1} \cup s, {2, 4} \cup ({3} \ s), {1, 2}) :
       <<tail, after, s>> \in
         {<<<<6, 7, 8, 2>>, {}, {3}>>, <<<<5, 6, 7, 8, 2>>, {}, {3}>>,
          <<<<6, 7, 8, 2>>, {"amount"}, {}>>, <<<<2, 0, 2, 4>>, {}, {}>>}}

\* What is answered to a question; an answer is [words, secret].
Name == Say({})
Plain(n) == [k \in 1 .. n |-> Say({})]
LeadIn == Say({"lead-in"})
Refusal == Say({"refusal"})
WithComma(w) == w \o <<Mark("comma")>>
WithDot(w) == w \o <<Mark("dot")>>
Numeric == <<Num(<<5>>), Mark("dash"), Num(<<3>>), Mark("dash"), Num(<<8, 2>>)>>
Answer(words, secret) == [words |-> words, secret |-> secret]
DayMonthYear(days) ==
    [k \in 1 .. days |-> Say({"day"})] \o <<Say({"month"}), Say({"count"}), Say({"count"})>>
Answers(kind) ==
    CASE kind = "person" ->
           {Answer(<<Name, WithComma(Name)>> \o Plain(1), {1, 2}),
            Answer(<<Name, LeadIn>> \o Plain(1), {1}),
            Answer(<<WithDot(Name)>> \o Plain(2), {1})}
      [] kind = "birth date" ->
           {Answer(DayMonthYear(n) \o Plain(1), 1 .. n + 3) : n \in 0 .. 2}
           \cup {Answer(Plain(1) \o DayMonthYear(1) \o Plain(1), 2 .. 5),
                 Answer(<<Numeric>> \o Plain(1), {1}),
                 Answer(<<<<Num(<<5>>)>>, Say({"month"}), <<Num(<<8, 2>>)>>>>, 1 .. 3),
                 Answer(<<Say({"count"}), Say({"count"})>> \o Plain(1), {1, 2})}
      [] kind = "address" ->
           {Answer(Plain(1) \o <<Say({"street"}), Name, <<Num(<<1, 5>>)>>, WithDot(Name)>>
                   \o Plain(1), 2 .. 5),
            Answer(<<Name, WithDot(Name)>> \o Plain(1), {1, 2})}
Declining == <<LeadIn, WithComma(Refusal), LeadIn>>
Openings == {<<>>, <<LeadIn>>, Declining, <<WithDot(LeadIn)>>}
Shifted(S, n) == {k + n : k \in S}

\* The one who asks may go on, in the same turn or in the next.
Question(kind, more) ==
    LET ask == Say({kind})
    IN  CASE more = "nothing" -> <<By("banker", <<ask>>)>>
          [] more = "a sentence" -> <<By("banker", <<ask \o <<Mark("mark")>>>> \o Plain(2))>>
          [] more = "a turn" -> <<By("banker", <<ask>>), By("banker", Plain(2))>>
AskedCall(asking, opening, reply) ==
    LET before == Cardinality(WordsSaid(asking))
        turns == asking \o Customer(opening \o reply.words)
        secret == Shifted(reply.secret, before + Len(opening))
    IN  TextCall(turns, secret, WordsSaid(turns) \ secret, All(turns))
AskedCalls ==
    UNION {{AskedCall(Question(kind, more), opening, reply) :
              more \in {"nothing", "a sentence", "a turn"}, reply \in Answers(kind),
              opening \in Openings \ IF kind = "birth date" THEN {Declining} ELSE {}} :
           kind \in ToSet(Kinds)}

\* Answered by the one who asks, not answered, and said without being asked.
Unasked(words, secret) ==
    TextCall(Customer(words), secret, DOMAIN words \ secret, {1})
OtherCalls ==
    {TextCall(<<By("banker", <<Say({"person"}), Say({"connector", "lead-in"}), Name, Name>>),
                By("customer", <<LeadIn>> \o Plain(2))>>, {3, 4}, {1, 2, 5, 6, 7}, {1, 2}),
     TextCall(<<By("banker", <<Say({"person", "mother"}), Say({"connector", "lead-in"}), Name>>),
                By("customer", Plain(2))>>, {3}, {1, 2, 4, 5}, {1, 2}),
     TextCall(<<By("banker", <<Say({"person"})>>),
                By("customer", <<LeadIn, LeadIn, Refusal>>)>>, {}, 1 .. 4, {1, 2}),
     Unasked(<<Say({"names oneself"}), Name, WithDot(Name)>> \o Plain(2), {2, 3}),
     Unasked(<<Say({"birth", "lead-in"})>> \o DayMonthYear(1) \o Plain(2), 2 .. 5),
     Unasked(<<Say({"street"}), Name, <<Num(<<1, 5>>)>>, WithDot(Name)>> \o Plain(2), 1 .. 4),
     Unasked(<<Say({"street"}), Name>> \o Plain(2), {}),
     Unasked(<<Say({"birth"}), Numeric>> \o Plain(1), {2}),
     Unasked(<<Say({}), Say({"shape"})>> \o Plain(1), {2})}

TextCalls == GroupedCalls \cup AccountCalls \cup DictatedCalls \cup ReadBackCalls
             \cup AskedCalls \cup OtherCalls

-----------------------------------------------------------------------------
WorkerCalls ==
    {[Blank EXCEPT !.parallel = TRUE, !.segments = Ragged, !.regions = d] :
       d \in {<<>>, <<Region(1, <<0, 2>>), Region(2, <<2, 4>>)>>}}

AllCalls == MonoCalls \cup StereoCalls \cup MaskCalls \cup TextCalls \cup WorkerCalls

=============================================================================
