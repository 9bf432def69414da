------------------------------ MODULE Detection -----------------------------
(* What the redactor finds in the text of a dialog (redaction.py): numbers *)
(* by their digits and what stands around them, numbers dictated in words, *)
(* the tail of a number read back, and what answers a question for a name, *)
(* a date of birth or an address.                                          *)
(*                                                                         *)
(* A document is a sequence of tokens [is, digits, says].  A "number" is a *)
(* group of digits; a "word", or a fixed phrase, has the vocabularies it   *)
(* is in as `says`, and its value when it is the word of a digit; the rest *)
(* are single characters: "space", "comma", "dash" (which any of -/ is),   *)
(* "dot", "mark" (? or !) and the "newline" between two turns.             *)
(* Vocabularies are told apart as far as the detectors do.  An address of  *)
(* mail, an IBAN or a star code is a word that says "shape".  Invisible    *)
(* characters are not part of a token: normalize_for_detection drops them. *)
(* A word or number of which a window of characters ends in the middle is  *)
(* not in the window.                                                      *)
EXTENDS Integers, Sequences, SequencesExt, FiniteSetsExt, Ranking

CONSTANTS
    WordSize,         \* characters of a word
    ContextBefore,    \* CONTEXT_BEFORE, in characters
    AmountWindow,     \* AMOUNT_WINDOW
    BirthLookahead    \* _BIRTH_LOOKAHEAD

Spaces == {"space", "newline"}
Separators == Spaces \cup {"comma", "dash", "dot"}
Structural == {"dash", "dot"}
ClauseEnds == {"dot", "mark", "newline"}

Size(t) == IF t.is = "number" THEN Len(t.digits)
           ELSE IF t.is = "word" THEN WordSize ELSE 1
Chars(doc, a, b) == MapThenSumSet(LAMBDA i : Size(doc[i]), a .. b)
IsWord(t) == t.is = "word"
Among(doc, S, what) == \E i \in S : what \in doc[i].says

InOrder(S) == Ranked(S, LAMBDA a, b : a < b)

-----------------------------------------------------------------------------
(* Checks of the digits.                                                   *)

DigitSum(n) == IF n > 9 THEN n - 9 ELSE n

IsIsraeliId(d) ==
    LET padded == IF Len(d) = 8 THEN <<0>> \o d ELSE d
    IN  /\ Len(d) \in 8 .. 9
        /\ MapThenSumSet(LAMBDA i : DigitSum(padded[i] * (IF i % 2 = 1 THEN 1 ELSE 2)),
                         1 .. 9) % 10 = 0

IsLuhn(d) ==
    /\ Len(d) \in 13 .. 19
    /\ MapThenSumSet(LAMBDA i : DigitSum(d[i] * (IF (Len(d) - i) % 2 = 1 THEN 2 ELSE 1)),
                     DOMAIN d) % 10 = 0

\* A number with the country's code is taken for the one without.
National(d) ==
    IF Len(d) >= 3 /\ SubSeq(d, 1, 3) = <<9, 7, 2>>
    THEN LET rest == {i \in 4 .. Len(d) : d[i] # 0}
         IN  <<0>> \o (IF rest = {} THEN <<>> ELSE SubSeq(d, Min(rest), Len(d)))
    ELSE d
IsIsraeliPhone(d) ==
    \E n \in {National(d)} :
       /\ n # <<>> /\ n[1] = 0
       /\ \/ Len(n) = 10 /\ n[2] \in {5, 7}
          \/ Len(n) = 9 /\ n[2] \in {2, 3, 4, 6, 8, 9}

-----------------------------------------------------------------------------
(* fold_number_words: four words of digits or more, one after the other    *)
(* with a comma at most in between, become a number.  An item of what is   *)
(* searched stands for the tokens from..to.                                *)

IsDigitWord(t) == IsWord(t) /\ "digit" \in t.says

\* Seeded defect: a turn that ends ends the dictation.
DictatedInOneTurn(doc, a, b) ==
    /\ IsDigitWord(doc[a]) /\ IsDigitWord(doc[b])
    /\ \A i \in a .. b : IsDigitWord(doc[i]) \/ doc[i].is \in {"space", "comma"}

\* Dictated from a to b without an end of the sentence.
Dictated(doc, a, b) ==
    /\ IsDigitWord(doc[a]) /\ IsDigitWord(doc[b])
    /\ \A i \in a .. b : IsDigitWord(doc[i]) \/ doc[i].is \in Spaces \cup {"comma"}
    /\ \A i, j \in a .. b : (i < j /\ doc[i].is = "comma" /\ doc[j].is = "comma")
                              => \E k \in i .. j : IsDigitWord(doc[k])

Longest(pairs) ==
    {p \in pairs : ~\E q \in pairs : q # p /\ q[1] <= p[1] /\ p[2] <= q[2]}

\* Seeded defect: as many as in no ordinary phrase plus one.
FiveWords(doc) ==
    {r \in Longest({p \in (DOMAIN doc) \X (DOMAIN doc) :
                      p[1] <= p[2] /\ Dictated(doc, p[1], p[2])}) :
       Cardinality({i \in r[1] .. r[2] : IsDigitWord(doc[i])}) >= 5}

Dictations(doc) ==
    {r \in Longest({p \in (DOMAIN doc) \X (DOMAIN doc) :
                      p[1] <= p[2] /\ Dictated(doc, p[1], p[2])}) :
       Cardinality({i \in r[1] .. r[2] : IsDigitWord(doc[i])}) >= 4}

Folded(doc) ==
    LET runs == Dictations(doc)
        Digits(r) == FlattenSeq([k \in 1 .. r[2] - r[1] + 1 |-> doc[r[1] + k - 1].digits])
        Item(i) == [is |-> doc[i].is, says |-> doc[i].says, from |-> i, to |-> i,
                    digits |-> IF IsWord(doc[i]) THEN <<>> ELSE doc[i].digits]
        Number(r) == [is |-> "number", says |-> {}, from |-> r[1], to |-> r[2],
                      digits |-> Digits(r)]
        Inside(i) == \E r \in runs : r[1] < i /\ i <= r[2]
    IN  SelectSeq([i \in DOMAIN doc |->
                     IF \E r \in runs : r[1] = i
                     THEN Number(CHOOSE r \in runs : r[1] = i) ELSE Item(i)],
                  LAMBDA x : ~Inside(x.from))

-----------------------------------------------------------------------------
(* _spans_in_normalized, _repeated_fragments: runs of digits, with at most *)
(* three separators between two groups.                                    *)

\* Seeded defect: one separator between two groups.
JoinedByOne(items, a, b) ==
    /\ items[a].is = "number" /\ items[b].is = "number"
    /\ \A i \in a .. b : items[i].is = "number" \/ items[i].is \in Separators
    /\ \A i \in a .. b - 1 : \E j \in i .. i + 1 : items[j].is = "number"

Joined(items, a, b) ==
    /\ items[a].is = "number" /\ items[b].is = "number"
    /\ \A i \in a .. b : items[i].is = "number" \/ items[i].is \in Separators
    /\ \A i \in a .. b - 3 : \E j \in i .. i + 3 : items[j].is = "number"

DigitRuns(items) ==
    Longest({p \in (DOMAIN items) \X (DOMAIN items) :
               p[1] <= p[2] /\ Joined(items, p[1], p[2])})
DigitsOf(items, r) ==
    FlattenSeq([k \in 1 .. r[2] - r[1] + 1 |-> items[r[1] + k - 1].digits])

Preceding(items, a) == {i \in 1 .. a - 1 : Chars(items, i, a - 1) <= ContextBefore}
LooksLikeAmount(items, b) ==
    Among(items, {i \in b + 1 .. Len(items) : Chars(items, b + 1, i) <= AmountWindow}, "amount")

\* "The account", said last, with two words at most up to the number.
AccountNamedJustBefore(items, a) ==
    LET named == {i \in Preceding(items, a) : "named" \in items[i].says}
        between == Max(named) + 1 .. a - 1
        words == {i \in between : IsWord(items[i])}
    IN  /\ named # {}
        /\ Cardinality(words) <= 2 /\ \A i \in words : "filler" \in items[i].says
        /\ \A i \in between : items[i].is \notin {"dot", "mark"}

\* Every gap between two groups has a dash or a dot in it.
StructuralOnly(items, r) ==
    \A i, j \in r[1] .. r[2] :
       (/\ i + 1 < j /\ items[i].is = "number" /\ items[j].is = "number"
        /\ \A k \in i + 1 .. j - 1 : items[k].is # "number")
         => \E k \in i + 1 .. j - 1 : items[k].is \in Structural

\* Seeded defect: whatever is followed by the word of a currency is a price.
AnyAmount(items, r) == LooksLikeAmount(items, r[2])

IsAmount(items, r) ==
    /\ LooksLikeAmount(items, r[2])
    /\ Len(DigitsOf(items, r)) < 9
    /\ ~Among(items, Preceding(items, r[1]), "strong")
    /\ ~(Len(DigitsOf(items, r)) >= 6 /\ AccountNamedJustBefore(items, r[1]))

\* _classify_run gives the run a type, which one does not matter here.
Classified(items, r) ==
    \E d \in {DigitsOf(items, r)} :
    \E hints \in {UNION {items[i].says : i \in Preceding(items, r[1])}} :
       /\ Len(d) >= 4
       /\ \/ IsIsraeliPhone(d) /\ "id" \notin hints
          \/ IsIsraeliId(d) \/ IsLuhn(d)
          \/ "phone" \in hints /\ Len(d) \in 7 .. 12
          \/ /\ ~IsAmount(items, r)
             /\ \/ Len(d) >= 6 /\ StructuralOnly(items, r)
                \/ Len(d) \in 4 .. 5 /\ "account" \in hints
                \/ Len(d) \in 6 .. 20 /\ {"id", "account"} \cap hints # {}

Overlapping(p, q) == p[1] <= q[2] /\ q[1] <= p[2]
Free(p, found) == ~\E f \in found : Overlapping(p, f)

\* "The mother's name is" and the name.
MotherNames(items) ==
    {<<i, i>> : i \in {i \in DOMAIN items : IsWord(items[i]) /\
        \E q \in 1 .. i - 1, c \in 1 .. i - 1 :
           /\ "mother" \in items[q].says /\ "connector" \in items[c].says
           /\ q < c /\ c + 1 < i
           /\ \A k \in (q + 1 .. i - 1) \ {c} : items[k].is \in Spaces}}

\* Day, month and year with a dash or a dot between them, from position i.
IsDate(doc, i) ==
    /\ i + 4 <= Len(doc)
    /\ \A k \in {i, i + 2, i + 4} : doc[k].is = "number"
    /\ \A k \in {i + 1, i + 3} : doc[k].is \in Structural
    /\ Len(doc[i].digits) <= 2 /\ Len(doc[i + 2].digits) <= 2
    /\ Len(doc[i + 4].digits) \in 2 .. 4
BirthDates(items) ==
    {<<i, i + 4>> : i \in {i \in DOMAIN items : IsDate(items, i) /\
        Among(items, Preceding(items, i) \cup
                {k \in i + 5 .. Len(items) : Chars(items, i + 5, k) <= ContextBefore}, "birth")}}

\* What was found first stays.
Shapes(items) ==
    FoldLeft(LAMBDA found, more : found \cup {p \in more : Free(p, found)}, {},
             <<{<<i, i>> : i \in {i \in DOMAIN items : "shape" \in items[i].says}},
               MotherNames(items), BirthDates(items),
               {r \in DigitRuns(items) : Classified(items, r)}>>)

\* Seeded defect: nobody listens to a number being read back.
NoReadBack(items, found) == {}

\* Four or five digits that end a longer number already found.
RepeatedFragments(items, found) ==
    LET long == {DigitsOf(items, p) : p \in {q \in found : Len(DigitsOf(items, q)) >= 6}}
        Ends(d, l) == SubSeq(l, Len(l) - Len(d) + 1, Len(l)) = d
    IN  {r \in DigitRuns(items) :
           /\ Free(r, found) /\ ~LooksLikeAmount(items, r[2])
           /\ Len(DigitsOf(items, r)) \in 4 .. 5
           /\ \E l \in long : Ends(DigitsOf(items, r), l)}

\* In the tokens of the document; a number in words is found as a whole.
ShapedFinds(doc) ==
    UNION {UNION {{<<items[p[1]].from, items[p[2]].to>> :
                     p \in found \cup RepeatedFragments(items, found)} :
                    found \in {Shapes(items)}} : items \in {Folded(doc)}}

-----------------------------------------------------------------------------
(* find_identity_answers: what answers a question, which has no shape.     *)
(* A turn is [first, last, speaker], its tokens and who says them.  What   *)
(* is extracted from a window is a set: of one span, or of none.           *)

\* The end of the clause that goes on at position i.
ClauseEnd(doc, i, limit) ==
    Min({limit} \cup {j - 1 : j \in {j \in i .. limit : doc[j].is \in ClauseEnds}})
Clauses(doc, w) ==
    {<<i, ClauseEnd(doc, i, w[2])>> :
       i \in {i \in w[1] .. w[2] : /\ doc[i].is \notin ClauseEnds
                                   /\ i = w[1] \/ doc[i - 1].is \in ClauseEnds}}
ContentTokens(doc, w) == {i \in w[1] .. w[2] : doc[i].is = "number" \/ IsWord(doc[i])}

\* How many of a set of positions come before i.
Ahead(toks, i) == Cardinality({j \in toks : j < i})

\* Seeded defect: nobody declines to answer.
NoRefusal(doc, toks) == toks

PastRefusal(doc, toks) ==
    {i \in toks : \A j \in toks : "refusal" \in doc[j].says /\ Ahead(toks, j) < 4 => j < i}

LeadInSkipped(doc, toks) ==
    {i \in toks : \E j \in toks : j <= i /\ "lead-in" \notin doc[j].says}

\* A refusal may come first: the first two clauses are looked at.
FirstTwo(clauses) == {c \in clauses : Cardinality({d \in clauses : d[1] < c[1]}) < 2}
\* The first of some sets of positions in which there is anything.
Earliest(answers) ==
    {r \in answers : r # {} /\ \A s \in answers \ {{}} : Min(r) <= Min(s)}

Span(toks) == <<Min(toks), Max(toks)>>

\* Seeded defect: a name has one word.
OneWord(doc, rest) == {Min(rest)}

\* Three words at most, up to a comma or a word that leads in to another.
NameIn(doc, rest) ==
    LET Continues(i) == /\ "lead-in" \notin doc[i].says
                        /\ \A k \in Max({j \in rest : j < i}) .. i : doc[k].is # "comma"
    IN  {i \in rest : /\ Ahead(rest, i) < 3
                      /\ \A j \in rest \ {Min(rest)} : j <= i => Continues(j)}

ExtractPerson(doc, w) ==
    {Span(NameIn(doc, rest)) : rest \in
       Earliest({LeadInSkipped(doc, PastRefusal(doc, ContentTokens(doc, c))) :
                   c \in FirstTwo(Clauses(doc, w))})}

\* From the word of a street if there is one, eight words at most.
AddressWords(doc, toks) ==
    IF Among(doc, toks, "street")
    THEN {i \in toks : \E j \in toks : j <= i /\ "street" \in doc[j].says}
    ELSE LeadInSkipped(doc, toks)
ExtractAddress(doc, w) ==
    {Span({i \in rest : Ahead(rest, i) < 8}) : rest \in
       Earliest({AddressWords(doc, PastRefusal(doc, ContentTokens(doc, c))) :
                   c \in FirstTwo(Clauses(doc, w))})}

\* Those right before, or right after, position i that are numbers or said to
\* be `what`, n at most.
Counting(doc, k, what) == doc[k].is = "number" \/ what \in doc[k].says
RunBefore(doc, toks, i, n, what) ==
    {j \in toks : /\ j < i /\ Cardinality({k \in toks : j <= k /\ k < i}) <= n
                  /\ \A k \in toks : j <= k /\ k < i => Counting(doc, k, what)}
RunAfter(doc, toks, i, n, what) ==
    {j \in toks : /\ i < j /\ Cardinality({k \in toks : i < k /\ k <= j}) <= n
                  /\ \A k \in toks : i < k /\ k <= j => Counting(doc, k, what)}

\* Seeded defect: the words of the day are part of the sentence.
NoDay(doc, toks, month) == {month} \cup RunAfter(doc, toks, month, 4, "count")

DateAround(doc, toks, month) ==
    RunBefore(doc, toks, month, 2, "day") \cup {month} \cup RunAfter(doc, toks, month, 4, "count")

\* A year that comes first, of four words at most.
YearFirst(doc, rest) == RunAfter(doc, rest, Min(rest) - 1, 4, "count")

\* A date in digits, or around the first month, or a year that comes first.
ExtractDob(doc, w) ==
    LET numeric == {i \in w[1] .. w[2] - 4 : IsDate(doc, i)}
        Months(toks) == {i \in toks : "month" \in doc[i].says}
        Dates(toks) ==
          IF Months(toks) # {}
          THEN {d \in {DateAround(doc, toks, Min(Months(toks)))} : Cardinality(d) > 1}
          ELSE {d \in {YearFirst(doc, r) : r \in {LeadInSkipped(doc, toks)} \ {{}}} : d # {}}
    IN  IF numeric # {} THEN {<<Min(numeric), Min(numeric) + 4>>}
        ELSE {Span(d) : d \in UNION {Dates(toks) : toks \in {ContentTokens(doc, w)}}}

Kinds == <<"person", "birth date", "address">>
Extract(kind, doc, w) ==
    CASE kind = "person" -> ExtractPerson(doc, w)
      [] kind = "birth date" -> ExtractDob(doc, w)
      [] kind = "address" -> ExtractAddress(doc, w)

\* After "it is", to the end of the sentence.
Inline(doc, q) ==
    LET connectors == {c \in q + 1 .. Len(doc) - 1 :
                         /\ "connector" \in doc[c].says /\ doc[c + 1].is \in Spaces
                         /\ \A k \in q + 1 .. c - 1 : doc[k].is \in Spaces}
    IN  {<<i, ClauseEnd(doc, i, Len(doc))>> :
           i \in {i \in q + 2 .. Len(doc) :
                    /\ doc[i].is \notin Spaces
                    /\ \E c \in connectors : \A k \in c + 1 .. i - 1 : doc[k].is \in Spaces}}

\* Seeded defect: the next turn answers, whoever speaks in it.
NextTurn(turns, q) ==
    {<<turns[i].first, turns[i].last>> :
       i \in {i \in DOMAIN turns : /\ turns[i].first > q
                                   /\ \A j \in 1 .. i - 1 : turns[j].first <= q}}

\* The next turn of somebody else.
Reply(turns, q) ==
    {<<turns[i].first, turns[i].last>> :
       i \in {i \in DOMAIN turns :
                \E asking \in 1 .. i - 1 :
                   /\ turns[asking].first <= q /\ q <= turns[asking].last
                   /\ turns[i].speaker # turns[asking].speaker
                   /\ \A j \in asking + 1 .. i - 1 : turns[j].speaker = turns[asking].speaker}}

\* An answer in the sentence of the question leaves nothing to the reply.
AnswerTo(doc, turns, kind, q) ==
    LET own == UNION {Extract(kind, doc, w) : w \in Inline(doc, q)}
    IN  IF own # {} THEN own ELSE UNION {Extract(kind, doc, w) : w \in Reply(turns, q)}

\* Said without being asked: "my name is", a birth and a date, a street with
\* a number.
AfterNaming(doc, i) == ExtractPerson(doc, <<i + 1, ClauseEnd(doc, i + 1, Len(doc))>>)
AfterBirth(doc, i) ==
    LET near == Max({i} \cup {j \in i + 1 .. Len(doc) : Chars(doc, i + 1, j) <= BirthLookahead})
    IN  ExtractDob(doc, <<i + 1, ClauseEnd(doc, i + 1, near)>>)
AtStreet(doc, i) ==
    LET toks == ContentTokens(doc, <<i, ClauseEnd(doc, i, Len(doc))>>)
    IN  {Span(first) : first \in {first \in {{j \in toks : Ahead(toks, j) < 8}} :
                                    \E j \in first : doc[j].is = "number"}}

\* <<first, last, the rule, where it applied>>
Saying(doc, what) == {i \in DOMAIN doc : what \in doc[i].says}
FindIdentityAnswers(doc, turns) ==
    UNION {{<<s[1], s[2], r[1], r[2]>> : s \in AnswerTo(doc, turns, Kinds[r[1]], r[2])} :
             r \in {r \in (1 .. 3) \X DOMAIN doc : Kinds[r[1]] \in doc[r[2]].says}}
    \cup UNION {{<<s[1], s[2], 4, i>> : s \in AfterNaming(doc, i)} :
                  i \in Saying(doc, "names oneself")}
    \cup UNION {{<<s[1], s[2], 5, i>> : s \in AfterBirth(doc, i)} : i \in Saying(doc, "birth")}
    \cup UNION {{<<s[1], s[2], 6, i>> : s \in AtStreet(doc, i)} : i \in Saying(doc, "street")}

\* In the order in which they begin; of finds that begin together a shaped
\* one is first, then by the rule.
FindPii(doc, turns) ==
    LET all == {<<f[1], f[2], 0, f[1]>> : f \in ShapedFinds(doc)}
               \cup FindIdentityAnswers(doc, turns)
        Earlier(f, g) == \/ f[1] < g[1]
                         \/ f[1] = g[1] /\ f[3] < g[3]
                         \/ f[1] = g[1] /\ f[3] = g[3] /\ f[4] < g[4]
    IN  Ranked(all, Earlier)

=============================================================================
