---------------------------- MODULE ReplayFilter ----------------------------
(***************************************************************************)
(* What the replay window of a session promises, without its bitmap: each  *)
(* end remembers every sequence it has accepted under the current keys,    *)
(* and accepts a sequence once, unless it is Window or more below another  *)
(* one it has accepted.  New keys start a new memory.                      *)
(***************************************************************************)
EXTENDS Integers

CONSTANTS Ends, Numbers, Window

VARIABLES
  seen,      \* seen[e]: the sequences end e has accepted
  repeated   \* repeated[e]: what end e has accepted a second time

Fresh(e, s) ==
  /\ s \notin seen[e]
  /\ \A t \in seen[e] : t - s < Window

Init ==
  /\ seen = [e \in Ends |-> {}]
  /\ repeated = [e \in Ends |-> {}]

Accept(e, s) ==
  /\ Fresh(e, s)
  /\ seen' = [seen EXCEPT ![e] = @ \cup {s}]
  /\ UNCHANGED repeated

Reset(e) ==
  /\ seen' = [seen EXCEPT ![e] = {}]
  /\ UNCHANGED repeated

Next == \E e \in Ends : Reset(e) \/ \E s \in Numbers : Accept(e, s)

Spec == Init /\ [][Next]_<<seen, repeated>>
=============================================================================
