------------------------------- MODULE Ranking ------------------------------
(* Sorting by rank: what sorted() returns for a strict order on a finite   *)
(* set.  (SetToSortSeq chooses among all arrangements of the set.)         *)
EXTENDS Integers, FiniteSets

\* The elements of S so that each stands after those Before it.
Ranked(S, Before(_, _)) ==
    [k \in 1 .. Cardinality(S) |->
       CHOOSE x \in S : Cardinality({y \in S : Before(y, x)}) = k - 1]

=============================================================================
