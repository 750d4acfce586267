SPECIFICATION Spec
CONSTANTS
  Commands = {400, 999}
  Earlier = {22, 400}
  Datagrams <- MCDatagrams
  Deadline = 3
  MaxInbox = 3
INVARIANTS
  NoFalsePass
PROPERTY ProbeEnds
CHECK_DEADLOCK FALSE
