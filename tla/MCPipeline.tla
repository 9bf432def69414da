----------------------------- MODULE MCPipeline -----------------------------
(* Model-checking instances of Pipeline: runs that stop where               *)
(* `journey process` stops them, and runs to the end.                       *)
EXTENDS Pipeline

JourneyStops == {Redaction, NoStop}

SomeDoubts == {Speakers}
NoDoubts == {}
=============================================================================
