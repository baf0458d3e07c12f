CONSTANTS
  Inits = {1}
  Modes = {TRUE}
  MaxSockets = 1
  MaxRelayed = 1
  MaxSent = 1
SPECIFICATION Spec
CHECK_DEADLOCK FALSE
PROPERTIES
  PasswordLetsIn
