-------------------------------- MODULE Masks -------------------------------
(* What the redactor takes out of the text of a dialog and what is         *)
(* silenced in its audio: redaction.py from the finds of Detection on, and *)
(* audio_redaction.masked_time_ranges.  A find is a stretch <<first, last>> *)
(* of what the dialog is numbered by, its words or the tokens of its text, *)
(* in the order in which find_pii returns them; names are words a name     *)
(* list masks turn by turn, and persons are words the optional model of    *)
(* names masks after both.  A turn is [start, end, first, last, timed]:    *)
(* its words first..last, and those the recogniser listed with a time.     *)
EXTENDS Integers, Sequences, SequencesExt, FiniteSetsExt, Ranking

CONSTANT Pad          \* AUDIO_PAD_SEC

Touches(find, turn) == find[1] <= turn.last /\ turn.first <= find[2]

\* _apply_with_continuations: a find that begins inside what is already taken
\* out is passed over, and one that began in an earlier turn leaves no mask.
Apply(finds, turn) ==
    LET Begin(f) == IF f[1] < turn.first THEN turn.first ELSE f[1]
        End(f) == IF f[2] > turn.last THEN turn.last ELSE f[2]
        Step(out, f) ==
          IF ~Touches(f, turn) \/ Begin(f) <= out.upto THEN out
          ELSE [upto |-> End(f), gone |-> out.gone \cup (Begin(f) .. End(f)),
                masks |-> out.masks + IF f[1] < turn.first THEN 0 ELSE 1]
    IN  FoldLeft(Step, [upto |-> turn.first - 1, gone |-> {}, masks |-> 0], finds)

\* The names of the list, and the persons that overlap no mask, in what is left.
RedactTurn(finds, names, persons, turn) ==
    LET out == Apply(finds, turn)
        more == ((names \cup persons) \cap (turn.first .. turn.last)) \ out.gone
    IN  [gone |-> out.gone \cup more, masks |-> out.masks + Cardinality(more)]

Timed(turns) == UNION {turns[i].timed : i \in DOMAIN turns}
NameFinds(names) == [k \in DOMAIN names |-> <<names[k], names[k]>>]

\* The finds all of whose words are among some.
Located(words, finds) == SelectSeq(finds, LAMBDA f : f[1] .. f[2] \subseteq words)

TouchCount(finds, turn) == Len(SelectSeq(finds, LAMBDA f : Touches(f, turn)))

\* Pass 2: how many finds a turn must have silent: those that touch it, or
\* the masks the redactor wrote into it, whichever are more.
Required(finds, masks, turn) ==
    LET touching == TouchCount(finds, turn)
    IN  IF touching >= masks THEN touching ELSE masks

\* A find is silent from its first word with a time to its last.  time[w] is
\* when word w is spoken.
Silence(turns, time, f) ==
    LET words == (f[1] .. f[2]) \cap Timed(turns)
    IN  <<Min({time[w].start : w \in words}) - Pad,
          Max({time[w].end : w \in words}) + Pad>>

\* Seeded defect: a turn is covered once anything silent overlaps its time.
SilentByTime(turns, time, located, required) ==
    LET precise == {Silence(turns, time, located[k]) : k \in DOMAIN located}
        Covered(i) == \E r \in precise : r[1] < turns[i].end /\ turns[i].start < r[2]
    IN  precise \cup
        {<<turns[i].start - Pad, turns[i].end + Pad>> :
           i \in {i \in DOMAIN turns : required[i] > 0 /\ ~Covered(i)}}

\* The ranges to silence, before merging: where finds were located, and the
\* turns in which fewer were located than there must be.
SilentRanges(turns, time, located, required) ==
    {Silence(turns, time, located[k]) : k \in DOMAIN located}
    \cup
    {<<turns[i].start - Pad, turns[i].end + Pad>> :
       i \in {i \in DOMAIN turns : required[i] > TouchCount(located, turns[i])}}

\* Ranges that touch become one; nothing before the recording begins.
MergeRanges(ranges) ==
    LET clean == Ranked({<<IF r[1] < 0 THEN 0 ELSE r[1], r[2]>> :
                                 r \in {r \in ranges : r[2] > r[1]}},
                   LAMBDA a, b : a[1] < b[1] \/ (a[1] = b[1] /\ a[2] < b[2]))
        Step(done, r) ==
          IF done # <<>> /\ r[1] <= Last(done)[2]
          THEN [done EXCEPT ![Len(done)] =
                  <<@[1], IF r[2] > @[2] THEN r[2] ELSE @[2]>>]
          ELSE Append(done, r)
    IN  FoldLeft(Step, <<>>, clean)

MaskedTimeRanges(turns, time, located, required) ==
    MergeRanges(SilentRanges(turns, time, located, required))

=============================================================================
