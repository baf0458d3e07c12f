CONSTANTS
  a = a
  b = b
  w = w
  Conns = {a, b, w}
  Browsers = {w}
  NoOne = NoOne
  Modes = {TRUE, FALSE}
  Scenarios <- JustAPair
SPECIFICATION Spec
CHECK_DEADLOCK FALSE
PROPERTIES
  RosterComplete
