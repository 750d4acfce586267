SPECIFICATION Spec
CONSTANTS
  First = 1
  Second = 2
  Use <- MCUse
  SessionValue = 7
  MaxEpoch = 2
  SequenceMax = 3
  Window = 2
  Payloads = {p, q}
  Deadlines = {1}
  Times = {0, 2}
  Slots = {a, b}
  NoRecord = NoRecord
  XorOp <- MCXor
INVARIANTS TypeOK NonceFresh Authentic AtMostOnce OncePerEpoch OnlyLateRefused
PROPERTIES ImplementsFilter
CHECK_DEADLOCK FALSE
SYMMETRY Symmetry
