----------------------------- MODULE MCPx4Probe -----------------------------
(* An instance of Px4Probe for TLC: an allowed command, one that is not, and *)
(* an operator who has sent another.                                         *)
EXTENDS Px4Probe

MCDatagrams ==
  {[frames |-> f, cut |-> c] :
     f \in {<<>>, <<0>>, <<22>>, <<400>>, <<22, 400>>, <<0, 400>>, <<999>>}, c \in BOOLEAN}
=============================================================================
