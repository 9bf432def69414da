----------------------------- MODULE MCJourney -----------------------------
(* Model-checking instances of Journey: a reader that is run night after    *)
(* night, and another one that is tried now and then.                       *)
EXTENDS Journey, TLC

CONSTANTS main, trial

\* A story of two calls, and one whose first contact is a visit.
ThreeSpoken == {<<1, 1>>, <<1, 2>>, <<2, 2>>}
FirstPending == {<<1, 1>>}
NoneObjective == {}

Limited(r) == [by |-> r, scope |-> {1}, timed |-> FALSE, saves |-> TRUE]
Estimate(r) == [by |-> r, scope |-> {1}, timed |-> FALSE, saves |-> FALSE]

\* Those that transcribe before they read, and all of them.
Estimates == {Nightly, Estimate(main)}
Nights == Estimates \cup {Limited(trial)}

=============================================================================
