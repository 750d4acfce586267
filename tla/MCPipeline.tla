----------------------------- MODULE MCPipeline -----------------------------
(* Instances of Pipeline for TLC. *)
EXTENDS Pipeline

\* One message and out, or a stream of some time.
Started(v, p, g) == [vehicle |-> v, proxy |-> p, gcs |-> g]

MCDurations == {Started(0, 0, 0), Started(1, 1, 1), Started(1, 0, 1)}

MCStream == {Started(1, 1, 1)}
=============================================================================
