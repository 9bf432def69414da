----------------------------- MODULE MCTimeline -----------------------------
(* Model-checking instance of Timeline: an hour is a tick, a day has eight  *)
(* of them, and the story begins on a Thursday.                             *)
EXTENDS Timeline

MCBankers == [b \in {1, 2} |-> IF b = 1 THEN "109" ELSE "7"]
Row(b, op) == [banker |-> b, op |-> op]
MCBursts ==
    {<<Row(1, "open")>>, <<Row(1, "execute")>>, <<Row(2, "execute")>>,
     <<Row(1, "execute"), Row(1, "open")>>, <<Row(2, "execute"), Row(1, "open")>>}

=============================================================================
