--------------------------- MODULE MCNativeProxy ---------------------------
(* An instance of NativeProxy for TLC: link 1 is the vehicle's. *)
EXTENDS NativeProxy

Record(type, qos, length, meta) ==
  [type |-> type, qos |-> qos, source_id |-> 1, destination_id |-> 9,
   deadline_ms |-> 0, length |-> length, meta |-> meta, in_range |-> TRUE]

\* A position of resource r: generation and base, base 0 for a snapshot.
At(r, generation, base) ==
  Record("Position", "StateLatest", 28,
         StateMeta(r, generation, base, 1, IF base = 0 THEN 1 ELSE 0))

SafetyEvent == Record("SafetyEvent", "CriticalReliable", 8, NoMeta)

MCPeer == [l \in LinkIds |-> l]

MCRecords == {At(5, 1, 0), At(5, 2, 1), At(5, 3, 2), At(6, 1, 0), SafetyEvent}

Request(type) == [type |-> type, qos |-> "StateLatest", source_id |-> 1]

MCRequests == {Request("Position"), Request("SafetyEvent")}
=============================================================================
