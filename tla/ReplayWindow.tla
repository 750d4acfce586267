---------------------------- MODULE ReplayWindow ----------------------------
(***************************************************************************)
(* The sliding replay window of a session: class ReplayWindow of           *)
(* include/new_mavlink/record.hpp, src/record.cpp.                         *)
(*                                                                         *)
(* A window is a value.  The 64-bit word bitmap_ is the set of the         *)
(* positions of its 1 bits; bit d stands for sequence high_water_ - d.     *)
(***************************************************************************)
EXTENDS Integers

CONSTANT Window   \* the width of bitmap_ in bits: 64 in the code

ASSUME WindowAssumption == Window \in Nat \ {0}

Bits == 0 .. Window - 1

\* The windows over a set S of sequence numbers.
Windows(S) == [initialized : BOOLEAN, high_water : S, bitmap : SUBSET Bits]

\* A new window, and what ReplayWindow::reset leaves.
EmptyWindow == [initialized |-> FALSE, high_water |-> 0, bitmap |-> {}]

\* Mutant: the newest Window - 1 sequences only.
accepted_narrow(w, sequence) ==
  \/ ~w.initialized
  \/ sequence > w.high_water
  \/ /\ w.high_water - sequence < Window - 1
     /\ w.high_water - sequence \notin w.bitmap

accepted(w, sequence) ==
  \/ ~w.initialized
  \/ sequence > w.high_water
  \/ /\ w.high_water - sequence < Window
     /\ w.high_water - sequence \notin w.bitmap

\* Mutant: the bits pushed past the width of the word stay.
ShiftLeft_wide(bitmap, n) == {d + n : d \in bitmap}

\* bitmap_ << n: the bits pushed past the word's width are lost.
ShiftLeft(bitmap, n) == {d \in Bits : d - n \in bitmap}

\* Mutant: the bits do not move with the high-water mark.
Advance_unshifted(w, sequence) ==
  [initialized |-> TRUE, high_water |-> sequence, bitmap |-> w.bitmap \cup {0}]

\* commit of a sequence above the high-water mark
Advance(w, sequence) ==
  LET shift == sequence - w.high_water
  IN  [initialized |-> TRUE,
       high_water  |-> sequence,
       bitmap      |-> IF shift >= Window THEN {0}
                       ELSE ShiftLeft(w.bitmap, shift) \cup {0}]

\* The window ReplayWindow::commit leaves for a sequence it accepts; a
\* sequence it does not accept leaves the window as it is.
commit(w, sequence) ==
  IF ~w.initialized
  THEN [initialized |-> TRUE, high_water |-> sequence, bitmap |-> {0}]
  ELSE IF sequence > w.high_water
       THEN Advance(w, sequence)
       ELSE [initialized |-> TRUE, high_water |-> w.high_water,
             bitmap |-> w.bitmap \cup {w.high_water - sequence}]
=============================================================================
