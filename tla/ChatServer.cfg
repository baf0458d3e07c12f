CONSTANTS
  a = a
  b = b
  w = w
  Conns = {a, b, w}
  Browsers = {w}
  NoOne = NoOne
  Modes = {TRUE, FALSE}
  Scenarios <- Relayed
SPECIFICATION Spec
CHECK_DEADLOCK FALSE
INVARIANTS
  TypeOK
  SealedInOrder
  OnlyAuthorized
  ListenersKeepUp
PROPERTIES
  ImplementsRelay
