SPECIFICATION Spec
CONSTANTS
  Capacity = 3
  Offers <- MCOffers
  Times = {0, 2}
  CounterSpan = 2
  None = None
INVARIANTS TypeOK Bounded Accounted
PROPERTIES ReliableKept StreamsApart CriticalFirst CriticalServed
