CONSTANTS
  Inits = {1, 2}
  Modes = {TRUE, FALSE}
  MaxSockets = 3
  MaxRelayed = 2
  MaxSent = 1
SPECIFICATION Spec
CHECK_DEADLOCK FALSE
INVARIANTS
  TypeOK
  ReconnectsConserved
  HelloFirst
  ShownOnceInOrder
  FirstConnectionShows
