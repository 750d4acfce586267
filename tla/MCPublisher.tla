---------------------------- MODULE MCPublisher ----------------------------
(* An instance of Publisher for TLC. *)
EXTENDS Publisher

Value(resource, source, body) ==
  [resource_id |-> resource, source_id |-> source, body |-> body, in_range |-> TRUE]

\* A position that changes, goes out of range, and comes with its source left
\* to the publisher; an attitude whose resource changes; and a battery.
MCValues ==
  [Position |-> {Value(42, 1, 1), Value(42, 0, 1), Value(42, 0, 2),
                 [Value(42, 1, 3) EXCEPT !.in_range = FALSE]},
   Attitude |-> {Value(43, 1, 1), Value(44, 1, 1)},
   Battery  |-> {Value(45, 1, 1)}]
=============================================================================
