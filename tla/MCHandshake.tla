---------------------------- MODULE MCHandshake ----------------------------
(* Instances of Handshake for TLC. *)
EXTENDS Handshake, Bitwise

MCXor(a, b) == a ^^ b
=============================================================================
