CONSTANTS
  small = small
  large = large
  byte = byte
  Keys = {key}
  NoKey = NoKey
  Texts = {small, large, byte}
  Undecodable = Undecodable
  Size <- Sizes
  Messages <- Edges
  Announcement <- Short
  ForeignKinds = {TRUE, FALSE}
  MaxSent <- TwoAndOne
  MaxControls = 1
SPECIFICATION Spec
CHECK_DEADLOCK FALSE
INVARIANTS
  TypeOK
  WholeMessages
  CleanClose
PROPERTIES
  Delivery
  Released
