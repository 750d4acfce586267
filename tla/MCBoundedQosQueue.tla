------------------------- MODULE MCBoundedQosQueue -------------------------
(* Instances of BoundedQosQueue for TLC. *)
EXTENDS BoundedQosQueue

Meta(resource) == StateMeta(resource, 1, 0, 1, 1)

\* Two reliable messages, one of a state type; an event, twice; two values of
\* one stream of state; a state that carries no StateMeta; and a message that
\* is too long.  Of each class one is dated.
MCOffers ==
  {Message("CommandAck", "CriticalReliable", 1, 0, 16, NoMeta, 1),
   Message("Attitude", "CommandReliable", 1, 1, 28, Meta(5), 2),
   Message("Heartbeat", "Liveness", 1, 0, 16, NoMeta, 3),
   Message("Heartbeat", "Liveness", 1, 1, 16, NoMeta, 4),
   Message("Position", "StateLatest", 1, 0, 28, Meta(5), 5),
   Message("Position", "StateLatest", 1, 0, 28, Meta(5), 6),
   Message("Position", "StateLatest", 1, 1, 1, NoMeta, 7),
   Message("Position", "StateLatest", 1, 0, 769, Meta(5), 8)}
=============================================================================
