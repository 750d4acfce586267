---------------------------- MODULE MCTelemetry ----------------------------
(* An instance of Telemetry for TLC, with one resource, and a caller that     *)
(* never reports a value a second time after another one: every generation of *)
(* every run has a value of its own.                                          *)
EXTENDS Telemetry

Value(body) ==
  [resource_id |-> 42, source_id |-> source_id, body |-> body, in_range |-> TRUE]

MCValues ==
  [s \in Streams |->
     {Value(<<run, g>>) : run \in 0 .. MaxRestarts, g \in 0 .. GenerationMax - 1}]

InTurn ==
  \A s \in Reported :
    reported'[s] # reported[s] /\ restarts' = restarts =>
      reported'[s].body = <<restarts, generation[s]>>

MCSpec == TelemetryInit /\ [][TelemetryNext /\ InTurn]_all_vars /\ Fairness
=============================================================================
