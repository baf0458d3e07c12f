CONSTANTS
  a = a
  b = b
  w = w
  Conns = {a, b, w}
  NoOne = NoOne
  Pieces = 2
  Capacity = 1
  MaxIn <- TwoAndOne
  MaxStalled = 1
SPECIFICATION Spec
CHECK_DEADLOCK FALSE
INVARIANTS
  TypeOK
  MessagesWhole
PROPERTIES
  BroadcastsEnd
