SPECIFICATION CodecSpec
CONSTANTS
  Edges <- MCEdges
  Changes = {1, 128, 255}
  MaxChanges = 2
INVARIANTS
  RoundTrip
  Canonical
  HeaderDamageNoticed
  AdaptedEncodes
CHECK_DEADLOCK FALSE
