-------------------------- MODULE MCRecordSession --------------------------
(* An instance of RecordSession for TLC. *)
EXTENDS RecordSession, Bitwise, TLC

MCXor(a, b) == a ^^ b

\* One end sends three records; after a rekey each end sends one.
MCUse == {<<1, 1, s>> : s \in 0 .. 2} \cup {<<e, 2, 0>> : e \in Ends}

Symmetry == Permutations(Payloads) \cup Permutations(Slots)
=============================================================================
