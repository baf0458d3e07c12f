CONSTANTS
  a = a
  b = b
  w = w
  Conns = {a, b, w}
  Browsers = {w}
  NoOne = NoOne
  Modes = {TRUE}
  Scenarios <- Lived
SPECIFICATION Spec
CHECK_DEADLOCK FALSE
PROPERTIES
  DepartedForgotten
  Delivery
