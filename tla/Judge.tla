------------------------------- MODULE Judge -------------------------------
(* The judging of one call (judge/runner.py): the prompts it sends         *)
(* (judge/prompts.py), the ways a server can refuse one                    *)
(* (judge/vllm_judge.py), the verification of the answer                   *)
(* (judge/validation.py), the retries, the samples and the scorecard; then *)
(* what the reports make of it (Scores, Opinion).                          *)
(*                                                                         *)
(* A text is a sequence of words; a word comes to pieces, letters and      *)
(* digits, when it is compared.  A turn is [speaker, start, said], and an  *)
(* answer gives every dimension a score and quotes.                        *)
EXTENDS Opinion

CONSTANTS
    Size,           \* [word or piece of one -> its number of characters]
    Plain,          \* [word -> the pieces normalize_for_match leaves of it]
    Numbers,        \* the words that have digits
    Negations,      \* _POLARITY_WORDS
    Labels,         \* the labels of the speakers in the prompt
    Tags,           \* the masks: words between < and >
    MinQuote,       \* MIN_QUOTE_CHARS
    MaxRetries,     \* judge.max_retries
    MaxChars,       \* judge.max_transcript_chars
    MarkerSize,     \* len(ELISION_MARKER)
    GateSeconds,    \* GATE_CHUNK_SECONDS
    Held,           \* NeedsHumanReviewError
    Rubrics,        \* the rubrics, each with its prompt version
    Calls           \* the calls of the instance, each with its sampling,
                    \* its server, its judge's answers, the earlier cards
                    \* and the output directory of the management report

Turns == [speaker : STRING, start : Nat, said : Seq(DOMAIN Size)]

\* What config.py and models.py have checked before the call is judged.
ASSUME JudgeAssumption ==
    /\ MaxRetries \in Nat /\ MaxChars \in Nat /\ MarkerSize \in Nat
    /\ NoValue \notin {Held, "needs_human_review"}
    /\ \A w \in DOMAIN Size : Size[w] \in Nat
    /\ \A c \in Calls :
         /\ c.turns \in Seq(Turns) /\ c.samples \in Nat \ {0}
         /\ c.server.names \in {"schema", "system"}
         /\ \A a \in c.answers : a.readable =>
              \A d \in Dim : a.scores[d].score \in 1 .. 5

\* A card that an earlier run of the program wrote.
IsCard(card) ==
    /\ card # NoValue /\ card.banker \in Int /\ card.rubric \in Rubrics /\ card.at \in Int
    /\ \A d \in Dim : card.scores[d].score \in 1 .. 5
    /\ card.total \in Int

\* What is on disk when the call is judged, and the ratings of the same calls by
\* people and by the judge.
ASSUME RecordsAssumption ==
    \A c \in Calls :
      /\ c.id \in DOMAIN c.status /\ DOMAIN c.status \subseteq Int
      /\ IsFiniteSet(DOMAIN c.status)
      /\ c.banker \in Int /\ c.rubric \in Rubrics /\ c.at \in Int
      /\ DOMAIN c.cards \subseteq DOMAIN c.status
      /\ \A x \in DOMAIN c.cards : IsCard(c.cards[x])
      /\ \A d \in Dim : /\ c.machine[d] \in Seq(1 .. 5) /\ c.raters[d] \in Seq(Seq(1 .. 5))
                        /\ Len(c.machine[d]) = Len(c.raters[d])
      /\ c.folder # NoValue =>
           \A x \in DOMAIN c.status : c.folder.features[x] # NoValue =>
             \A k \in ToSet(Drivers) : c.folder.features[x].value[k] \in Int \cup {NoValue}

\* The cards on disk were written with the dimensions and the weights of now: the
\* rubrics in use differ in their wording.  That the figures of the management
\* report add up rests on it, and nothing else does.
WeighedNow(card) == DOMAIN card.scores = Dim /\ card.total = WeightedTotal(card.scores)
ASSUME RubricAssumption ==
    \A c \in Calls : \A x \in DOMAIN c.cards : WeighedNow(c.cards[x])

Weigh(words) == Sum([i \in DOMAIN words |-> Size[words[i]]])
Normal(words) == FlattenSeq([i \in DOMAIN words |-> Plain[words[i]]])
Windows(s, n) == {SubSeq(s, i, i + n - 1) : i \in 1 .. Len(s) - n + 1}

\* Containment is of letters and digits: it may begin and end inside a word.
Holds(words, needle) == Normal(needle) \in Windows(Normal(words), Len(Normal(needle)))

-----------------------------------------------------------------------------
(* The prompt.                                                             *)

LineSize(turn) == Weigh(turn.said) + Len(turn.said)

\* Seeded defect: the budget forgets the marker.
ElideUnmarked(sizes, limit) ==
    LET n == Len(sizes)
        Cost(I) == Sum([i \in I |-> sizes[i] + 1])
        tailBudget == limit - (limit * 2) \div 3
        head == Max({k \in 0 .. n : Cost(1 .. k) <= (limit * 2) \div 3})
        tail == Max({k \in 0 .. n - head : Cost(n - k + 1 .. n) <= tailBudget})
    IN  [head |-> head, tail |-> tail]

\* How many lines of the opening and of the closing are kept.
ElideMiddle(sizes, limit) ==
    LET n == Len(sizes)
        Cost(I) == Sum([i \in I |-> sizes[i] + 1])
        budget == Max({0, limit - MarkerSize - 2})
        headBudget == (budget * 2) \div 3
        head == Max({k \in 0 .. n : Cost(1 .. k) <= headBudget})
        tail == Max({k \in 0 .. n - head : Cost(n - k + 1 .. n) <= budget - headBudget})
    IN  [head |-> head, tail |-> tail]

LineSizes(turns) == [i \in DOMAIN turns |-> LineSize(turns[i])]
Joined(sizes) == Sum(sizes) + Max({0, Len(sizes) - 1})
Truncated(turns) == Joined(LineSizes(turns)) > MaxChars

\* The lines of the transcript in a prompt and whether the middle is marked
\* as removed; `part` is "whole", "gates" or "others".
FormatTranscript(turns, part) ==
    LET n == Len(turns)
        late == {i \in DOMAIN turns : turns[i].start > GateSeconds}
        cut == ElideMiddle(LineSizes(turns), MaxChars)
    IN  CASE part = "gates" ->
               [shown |-> {i \in DOMAIN turns : \A j \in late : i < j}, marked |-> FALSE]
          [] part = "others" /\ Truncated(turns) ->
               [shown |-> 1 .. cut.head \cup n - cut.tail + 1 .. n,
                marked |-> cut.tail > 0]
          [] OTHER -> [shown |-> DOMAIN turns, marked |-> FALSE]

-----------------------------------------------------------------------------
(* The server.  `speaks` is what its interface takes, `names` the one      *)
(* complaint it answers with when both are missing, `room` whether the     *)
(* answer's tokens fit, or fit once they are reduced to what is left.      *)

Chat(server, schema, merged) ==
    LET complaints == (IF schema THEN {"schema"} \ server.speaks ELSE {})
                      \cup (IF merged THEN {} ELSE {"system"} \ server.speaks)
    IN  IF server.names \in complaints THEN server.names
        ELSE IF complaints # {} THEN CHOOSE c \in complaints : TRUE
        ELSE IF server.room = "none" THEN "context" ELSE "answer"

\* Seeded defect: once the schema is given up, the roles stay as they were.
ChatNoFallback(server) ==
    CASE Chat(server, TRUE, FALSE) = "schema" -> Chat(server, FALSE, FALSE)
      [] Chat(server, TRUE, FALSE) = "system" -> Chat(server, TRUE, TRUE)
      [] OTHER -> Chat(server, TRUE, FALSE)

ChatWithRoleFallback(server) ==
    IF Chat(server, FALSE, FALSE) = "system"
    THEN Chat(server, FALSE, TRUE)
    ELSE Chat(server, FALSE, FALSE)

ChatJson(server) ==
    CASE Chat(server, TRUE, FALSE) = "schema" -> ChatWithRoleFallback(server)
      [] Chat(server, TRUE, FALSE) = "system" -> Chat(server, TRUE, TRUE)
      [] OTHER -> Chat(server, TRUE, FALSE)

-----------------------------------------------------------------------------
(* The verification of a quote.                                            *)

\* Seeded defect: what is said is one text, whoever says it.
OneBlock(turns) ==
    <<[speaker |-> turns[1].speaker,
       said |-> FlattenSeq([i \in DOMAIN turns |-> turns[i].said])]>>

\* What each speaker said without the other speaking in between.
SameSpeakerBlocks(turns) ==
    FoldLeft(LAMBDA blocks, t :
               IF blocks # <<>> /\ Last(blocks).speaker = t.speaker
               THEN [blocks EXCEPT ![Len(blocks)].said = @ \o t.said]
               ELSE Append(blocks, [speaker |-> t.speaker, said |-> t.said]),
             <<>>, turns)

MeaningTokens(words) ==
    [digits |-> SelectSeq(words, LAMBDA w : w \in Numbers),
     polarity |-> {<<w, Cardinality({i \in DOMAIN words : words[i] = w})>> :
                     w \in ToSet(words) \cap Negations}]

\* The characters two texts have in common, in order: difflib's matching
\* blocks, piece by piece.
Common(a, b) ==
    LET NextRow(above, x) ==
          FoldLeft(LAMBDA row, j :
                     Append(row, IF x = b[j] THEN Size[x] + above[j]
                                 ELSE Max({row[j], above[j + 1]})),
                   <<0>>, [j \in DOMAIN b |-> j])
    IN  Last(FoldLeft(NextRow, [j \in 1 .. Len(b) + 1 |-> 0], a))

\* SequenceMatcher.ratio(), in percent.
Similarity(a, b) ==
    (200 * Common(Normal(a), Normal(b))) \div (Weigh(Normal(a)) + Weigh(Normal(b)))
SnapMinSimilarity == 90

\* The window of a block most like the quote, the first of equals, shorter
\* windows first.
BestWindow(quote, words) ==
    LET size == Max({1, Len(quote) - 2}) .. Min({Len(words), Len(quote) + 2})
        at == {p \in size \X (1 .. Len(words)) : p[2] + p[1] - 1 <= Len(words)}
        Span(p) == SubSeq(words, p[2], p[2] + p[1] - 1)
        rated == {<<Similarity(quote, Span(p)), p>> : p \in at}
        top == Max({r[1] : r \in rated})
        best == {r[2] : r \in {x \in rated : x[1] = top}}
    IN  IF at = {} THEN <<>>
        ELSE Span(CHOOSE p \in best : \A q \in best :
                    p[1] < q[1] \/ (p[1] = q[1] /\ p[2] <= q[2]))

\* Seeded defect: a span that is similar enough will do.
SnapAnyway(quote, words) ==
    LET best == BestWindow(quote, words)
    IN  IF best # <<>> /\ Similarity(quote, best) >= SnapMinSimilarity
        THEN best ELSE <<>>

\* What was really said for a quote that is almost it, or nothing.
SnapQuote(quote, words) ==
    LET best == BestWindow(quote, words)
    IN  IF /\ best # <<>>
           /\ Similarity(quote, best) >= SnapMinSimilarity
           /\ MeaningTokens(quote) = MeaningTokens(best)
        THEN best ELSE <<>>

HoldersOf(words, blocks) ==
    {blocks[b].speaker : b \in {b \in DOMAIN blocks : Holds(blocks[b].said, words)}}

\* A quote without the labels, snapped to the first block that has a span for
\* it when no block holds it.
Settled(quote, blocks) ==
    LET words == SelectSeq(quote.said, LAMBDA w : w \notin Labels)
        near == {b \in DOMAIN blocks : SnapQuote(words, blocks[b].said) # <<>>}
    IN  IF HoldersOf(words, blocks) # {} \/ near = {} THEN words
        ELSE SnapQuote(words, blocks[Min(near)].said)

LongEnough(quote) ==
    Weigh(Normal(SelectSeq(quote.said, LAMBDA w : w \notin Labels))) >= MinQuote

\* verify_evidence for one quote; `timely` stands for a timestamp of the right
\* form, at most a minute after the end of the call.
Verified(quote, turns) ==
    LET blocks == SameSpeakerBlocks(turns)
    IN  /\ LongEnough(quote)
        /\ quote.speaker \in HoldersOf(Settled(quote, blocks), blocks)
        /\ quote.timely

\* validate_judge_output; `keys` is "asked" when exactly the dimensions of the
\* prompt are there, `readable` when the answer has the required form.
Valid(answer, dims, turns) ==
    /\ answer.readable
    /\ answer.keys = "asked"
    /\ \A d \in dims : answer.scores[d].evidence # <<>>
    /\ \A q \in UNION {ToSet(answer.scores[d].evidence) : d \in dims} : Verified(q, turns)

\* What is kept of a quote: its settled words without the masks.  `quoted` is
\* what the judge had written, for the properties.
Scrubbed(quote, turns) ==
    [speaker |-> quote.speaker,
     quoted |-> quote.said,
     said |-> SelectSeq(Settled(quote, SameSpeakerBlocks(turns)),
                        LAMBDA w : w \notin Tags)]

Read(answer, dims, turns) ==
    [d \in dims |->
       [score |-> answer.scores[d].score,
        evidence |-> [i \in DOMAIN answer.scores[d].evidence |->
                        Scrubbed(answer.scores[d].evidence[i], turns)]]]
-----------------------------------------------------------------------------
(* The judging.                                                            *)

VARIABLES
    call,       \* the call that is judged
    samples,    \* the answers merged so far, one per sample
    got,        \* the dimensions this sample has, with their readings
    part,       \* which part of the sample is asked for, by its number
    attempt,    \* the attempts at it that failed
    feedback,   \* the prompt carries what was wrong with the last answer
    retries,    \* of the whole call
    result,     \* the scorecard, Held or NoValue
    report      \* what the reports say afterwards

vars == <<call, samples, got, part, attempt, feedback, retries, result, report>>

Parts == IF Truncated(call.turns) THEN <<"gates", "others">> ELSE <<"whole">>
Asked == CASE Parts[part] = "gates" -> Gates
           [] Parts[part] = "others" -> Dim \ Gates
           [] OTHER -> Dim
Prompt == FormatTranscript(call.turns, Parts[part])

None == [d \in {} |-> 0]

TypeOK ==
    /\ Len(samples) <= call.samples
    /\ DOMAIN got \subseteq Dim
    /\ part \in 1 .. 2
    /\ attempt \in 0 .. MaxRetries
    /\ feedback \in BOOLEAN
    /\ retries <= MaxRetries * 2 * call.samples
    /\ (result # NoValue) => got = None

Init ==
    /\ call \in Calls
    /\ samples = <<>> /\ got = None /\ part = 1
    /\ attempt = 0 /\ feedback = FALSE /\ retries = 0
    /\ result = NoValue /\ report = NoValue

Judging == result = NoValue /\ Len(samples) < call.samples

\* An answer that passes verification: on to the next part, or to the next
\* sample.
Accept(answer) ==
    LET read == Read(answer, Asked, call.turns)
        all == [d \in DOMAIN got \cup Asked |-> IF d \in DOMAIN got THEN got[d] ELSE read[d]]
    IN  /\ Judging
        /\ ChatJson(call.server) = "answer"
        /\ Valid(answer, Asked, call.turns)
        /\ attempt' = 0 /\ feedback' = FALSE
        /\ retries' = retries + attempt
        /\ IF part < Len(Parts)
           THEN part' = part + 1 /\ got' = all /\ samples' = samples
           ELSE part' = 1 /\ got' = None /\ samples' = Append(samples, all)
        /\ UNCHANGED <<call, result, report>>

\* Seeded defect: an attempt that got no answer is not counted.
AskAgain(whatWentWrong) ==
    IF attempt < MaxRetries
    THEN /\ attempt' = IF whatWentWrong THEN attempt + 1 ELSE attempt
         /\ feedback' = whatWentWrong
         /\ UNCHANGED <<got, result>>
    ELSE /\ result' = Held /\ got' = None
         /\ UNCHANGED <<attempt, feedback>>

\* One failed attempt, the last one holding the call for a person.
FailAttempt(whatWentWrong) ==
    IF attempt < MaxRetries
    THEN /\ attempt' = attempt + 1 /\ feedback' = whatWentWrong
         /\ UNCHANGED <<got, result>>
    ELSE /\ result' = Held /\ got' = None
         /\ UNCHANGED <<attempt, feedback>>

Reject(answer) ==
    /\ Judging
    /\ ChatJson(call.server) = "answer"
    /\ ~Valid(answer, Asked, call.turns)
    /\ FailAttempt(TRUE)
    /\ UNCHANGED <<call, samples, part, retries, report>>

\* No answer: the server is not there or does not take the request.
TransportFails ==
    /\ Judging
    /\ ChatJson(call.server) # "answer" \/ call.server.flaky
    /\ FailAttempt(FALSE)
    /\ UNCHANGED <<call, samples, part, retries, report>>

\* The scorecard of the call.
Assemble ==
    /\ result = NoValue /\ Len(samples) = call.samples
    /\ LET scores == MergeSamples(samples)
       IN  result' = [banker |-> call.banker, scores |-> scores,
                      total |-> WeightedTotal(scores), rubric |-> call.rubric,
                      at |-> call.at]
    /\ UNCHANGED <<call, samples, got, part, attempt, feedback, retries, report>>

\* The cards on disk and what the envelopes say, once the call's result is
\* written: a held call keeps the card of an earlier run.
CardsAfter ==
    IF result = Held THEN call.cards
    ELSE [c \in DOMAIN call.cards \cup {call.id} |->
            IF c = call.id THEN result ELSE call.cards[c]]
StatusAfter ==
    [call.status EXCEPT ![call.id] =
       IF result = Held THEN "needs_human_review" ELSE call.outcome]

\* The reports of the batch and the calibration; the management report when
\* it is asked for.
Report ==
    /\ result # NoValue /\ report = NoValue
    /\ \E passed \in {Passes(HumanScores(call.raters), call.machine)} :
         LET With(executive) ==
               [bankers |-> AggregateBankers(LoadScorecards(CardsAfter, StatusAfter)),
                passes |-> passed, executive |-> executive]
         IN  IF call.folder = NoValue THEN report' = With(NoValue)
             ELSE \E batch \in {LoadBatch(call.folder, CardsAfter, StatusAfter, call.filter)} :
                  \E groups \in {Groups(batch)} :
                  \E a \in {Analyse(batch, groups)} :
                  \E findings \in {Findings(a, passed)} :
                  \E candidates \in {Candidates(a)} :
                    report' = With([batch |-> batch, analysis |-> a, findings |-> findings,
                                    top |-> ExecutiveFive(InOrder(findings)),
                                    actions |-> Actions(candidates)])
    /\ UNCHANGED <<call, samples, got, part, attempt, feedback, retries, result>>

Finished == report # NoValue /\ UNCHANGED vars

Next ==
    \/ \E answer \in call.answers : Accept(answer)
    \/ \E answer \in call.answers : Reject(answer)
    \/ TransportFails
    \/ Assemble
    \/ Report
    \/ Finished

Spec == Init /\ [][Next]_vars

-----------------------------------------------------------------------------
(* Properties.                                                             *)

HasCard == result \notin {NoValue, Held}

\* A text without some of its masks.
MasksAside(words) ==
    LET masks == {i \in DOMAIN words : words[i] \in Tags}
    IN  {FlattenSeq([i \in DOMAIN words |-> IF i \in K THEN <<>> ELSE <<words[i]>>]) :
           K \in SUBSET masks}

\* The letters and digits of every quote on a scorecard are, but for masks,
\* ones the speaker it is attributed to said on end: never a splice, never the
\* other speaker's.  A quote that the judge did not write so is whole words;
\* its own may begin or end inside one, also inside a number
\* (validation.py:98-133,142-155,184-197).
EvidenceWasSaid ==
    HasCard => \A d \in Dim : \A q \in ToSet(result.scores[d].evidence) :
      \E i, j \in DOMAIN call.turns :
        /\ i <= j
        /\ \A k \in i .. j : call.turns[k].speaker = q.speaker
        /\ \E said \in MasksAside(FlattenSeq([k \in 1 .. j - i + 1 |->
                                               call.turns[i + k - 1].said])) :
             /\ Holds(said, q.said)
             /\ q.said = SelectSeq(q.quoted, LAMBDA w : w \notin Labels \cup Tags)
                  \/ q.said \in Windows(said, Len(q.said))

\* Snapping a quote to the transcript changes neither a number nor a negation
\* of what the judge had quoted (validation.py:88-95).
MeaningKept ==
    HasCard => \A d \in Dim : \A q \in ToSet(result.scores[d].evidence) :
      MeaningTokens(q.said) = MeaningTokens(q.quoted)

\* Whatever a judge quotes, a scorecard shows only what was said, meaning what
\* the judge quoted it for: a quote a word off is replaced by the words spoken,
\* one that is spliced, misattributed or turned round holds the call.
EvidenceIsReal == EvidenceWasSaid /\ MeaningKept

\* A gate that half of the samples, or more, call failed caps the call
\* (runner.py:139-142, rubric.py:84-101).
GateSafe ==
    HasCard => \A g \in Gates :
      2 * Cardinality({i \in DOMAIN samples : samples[i][g].score <= 2}) >= Len(samples)
        => result.total <= GateCap * WeightSum

\* The quotes beside a score are those a sample gave with that very score:
\* never words that argue for another number (runner.py:143-152).
WordsFitTheScore ==
    HasCard => \A d \in Dim : \E i \in DOMAIN samples : samples[i][d] = result.scores[d]

\* A better score in any dimension, a gate's included, never lowers the total
\* of the call (rubric.py:84-101).
BetterIsNotWorse ==
    HasCard => \A d \in Dim :
      WeightedTotal([result.scores EXCEPT ![d].score = @ + 1]) >= result.total

\* Samples that disagree, in any number, end in a score that is on the safe side
\* of the gate, is argued for by its own words, and rises with each dimension.
ScoreIsSafe == GateSafe /\ WordsFitTheScore /\ BetterIsNotWorse

\* A shortened transcript, its marker included, fits the budget
\* (prompts.py:71-103).
PromptFits ==
    LET text == Prompt
        sizes == Sum([i \in text.shown |-> LineSize(call.turns[i]) + 1])
    IN  Parts[part] = "others" =>
          sizes + (IF text.marked THEN MarkerSize ELSE -1) <= MaxChars

\* A line is left out of a shortened transcript only if what comes before it
\* has used up two thirds of the budget and what comes after it the last third:
\* the opening and the closing go only when their own first line is too long.
\* That something is missing is marked when the last line is there, and not
\* otherwise (prompts.py:81-103).
EndsSurvive ==
    LET n == Len(call.turns)
        Cost(I) == Sum([i \in I |-> LineSize(call.turns[i]) + 1])
        budget == Max({0, MaxChars - MarkerSize - 2})
        headBudget == (budget * 2) \div 3
        text == Prompt
    IN  Parts[part] = "others" =>
          /\ \A i \in (1 .. n) \ text.shown :
               Cost(1 .. i) > headBudget /\ Cost(i .. n) > budget - headBudget
          /\ text.marked <=> n \in text.shown

\* A server answers exactly if the answer fits and it does not lack both
\* structured output and a system role and complain of the role first: that
\* one is asked again with the structured output it does not know
\* (vllm_judge.py:201-278).
ServerDegrades ==
    ChatJson(call.server) = "answer" <=>
      /\ call.server.room # "none"
      /\ {"schema", "system"} \cap call.server.speaks = {} => call.server.names = "schema"

\* A long call is judged on all that fits of its two ends, and a server
\* without the newer parts of the protocol by plain chat where the order of its
\* complaints allows.
DegradesAsPromised == PromptFits /\ EndsSurvive /\ ServerDegrades

\* Every banker's calls in a report were scored with one and the same rubric
\* and prompt, and all of those count (aggregation.py:54-75).
OneRubric ==
    report # NoValue => \E r \in Rubrics : \A b \in DOMAIN report.bankers :
      report.bankers[b].n =
        Cardinality({c \in DOMAIN CardsAfter :
                       /\ CardsAfter[c].banker = b /\ CardsAfter[c].rubric = r
                       /\ StatusAfter[c] \in {NoValue, "success"}})

\* A call that is held for a person is in no report, also when an earlier run
\* left its scorecard on disk (aggregation.py:20-51).
HeldIsNotCounted ==
    report # NoValue /\ StatusAfter[call.id] = "needs_human_review" =>
      \A b \in DOMAIN report.bankers :
        report.bankers[b].n <=
          Cardinality({c \in DOMAIN CardsAfter \ {call.id} : CardsAfter[c].banker = b})

\* Calibration does not pass a judge that gives every call the same score in a
\* dimension where the human raters differ from it (calibration.py:216-266).
CalibrationNeedsSpread ==
    report # NoValue /\ report.passes => \A d \in Dim :
      /\ Len(call.machine[d]) >= MinCalls
      /\ Cardinality(ToSet(call.machine[d])) = 1
      => HumanScores(call.raters)[d] = call.machine[d]

\* What a banker's report and the calibration rest on: one rubric, published
\* calls, and scores that can tell a good call from a bad one.
CountsWhatStands == OneRubric /\ HeldIsNotCounted /\ CalibrationNeedsSpread

Executive == report # NoValue /\ report.executive # NoValue
Batch == report.executive.batch
Analysis == report.executive.analysis

\* The calls of which the management report shows a quote, or links the page.
Opened ==
    (UNION {Analysis.dims[d].best \cup Analysis.dims[d].worst : d \in Dim})
      \cup {c \in DOMAIN Batch : Batch[c].page}

\* The text of a call, or a link to its page, is in the management report only
\* if the transcript of that very call says that it was redacted and the
\* call's last result counts; a banker whose id looks like a person's is named
\* nowhere, in a table, a finding or an action
\* (dataset.py:248-258,317-335,400-436).
NothingUnproven ==
    Executive =>
      /\ \A c \in Opened :
           /\ call.folder.redacted[c] # NoValue
           /\ call.folder.redacted[c].call = c /\ call.folder.redacted[c].enabled = "on"
           /\ StatusAfter[c] \in {NoValue, "success"}
      /\ DOMAIN Analysis.bankers \cap Identifying = {}
      /\ \A x \in report.executive.findings \cup report.executive.actions :
           x.names \cap Identifying = {}

\* The points missing from the index are those lost on the dimensions and the
\* gates' penalties, and also what the dimensions lose with the penalties they
\* caused; no dimension's floor takes a point away (analysis.py:11-13,253-291).
IndexAddsUp ==
    Executive =>
      LET missing == Sum([c \in Scored(Batch) |-> 100 * WeightSum - Batch[c].card.total])
          penalties == Sum([c \in Scored(Batch) |-> Penalty(Batch[c].card)])
      IN  /\ missing = penalties + Sum([d \in Dim |-> Analysis.dims[d].lost])
          /\ Shares * missing = AllLost(Analysis)
          /\ \A d \in Dim : Analysis.dims[d].floor.gain >= 0

\* Groups that are compared have no call in common, and without a filter the
\* management report has the calls of the bankers' reports, each once
\* (dataset.py:390-397, analysis.py:447-506,581-587).
EachCallOnce ==
    Executive =>
      /\ \A g, h \in Analysis.segments :
           /\ g.members \cap g.rest = {}
           /\ g.kind = h.kind /\ g.key # h.key => g.members \cap h.members = {}
      /\ \A d \in ToSet(Analysis.drivers) : d.quarters.low \cap d.quarters.high = {}
      /\ call.filter = NoFilter =>
           \A b \in DOMAIN report.bankers :
             LET own == {c \in Scored(Batch) : Batch[c].raw = b}
             IN  /\ Cardinality(own) = report.bankers[b].n
                 /\ Sum([c \in own |-> Batch[c].card.total]) = report.bankers[b].total

\* Where the points go adds up to what the headline says, over calls that each
\* count once.
ReportAddsUp == IndexAddsUp /\ EachCallOnce

\* A banker who is said to be below the bankers' median, or above it, is not on
\* the other side of the median that the report shows, and is not told so on a
\* few calls (analysis.py:509-541, findings.py:449-480).
FlagsFit ==
    Executive => \A f \in report.executive.findings : \A b \in f.names :
      /\ Analysis.bankers[b].n >= MinGroup
      /\ f.kind = "bankers-ok" => Analysis.bankers[b].mean >= Analysis.median
      /\ f.kind = "bankers-bad" => Analysis.bankers[b].mean <= Analysis.median

\* The executive five leave out no critical finding, and no problem for a
\* lesser one but for the best news (findings.py:261-274).
RedIsNotHidden ==
    Executive => LET top == report.executive.top IN
      /\ Cardinality(top) <= 5
      /\ \A f \in report.executive.findings \ top : Problem(f) =>
           /\ f.severity # "critical"
           /\ Cardinality({x \in top : Problem(x) /\ SeverityOf(x) <= SeverityOf(f)}) >= 4

\* What the management is told of people and of risk.
OpinionIsFair == FlagsFit /\ RedIsNotHidden

\* The steps the judging of a call can still take.
StepsLeft ==
    LET done == Len(samples) * Len(Parts) + part - 1
    IN  IF report # NoValue THEN 0
        ELSE IF result # NoValue THEN 1
        ELSE 2 + (call.samples * Len(Parts) - done) * (MaxRetries + 2) - attempt

\* Judging a call comes to an end, with a card or held, whatever the judge
\* answers and however often it does not: every step uses up one of the
\* steps left, and (no deadlock) there is a step until the reports are
\* written (runner.py:54-96).
JudgingEnds == [][StepsLeft' < StepsLeft /\ StepsLeft' >= 0]_vars

=============================================================================
