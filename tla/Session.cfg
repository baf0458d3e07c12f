\* Two plaintexts, of which one compresses; two sessions in a row, with the
\* frames of the first still around in the second; sequence numbers that run
\* out after 2.
CONSTANTS
  Payloads = {p, q}
  Shrinkable = {p}
  NotBase64 = NotBase64
  NotAscii = NotAscii
  MaxSeq = 2
  MaxSessions = 2
  MaxFrames = 4
SPECIFICATION Spec
CHECK_DEADLOCK FALSE
INVARIANTS
  TypeOK
  OpenedWasSealed
  OpenedInOrder
  RxNotAhead
  SeqNeverReused
  FreshFramesOpen
PROPERTIES
  RefusalLeavesNoTrace
  ImplementsChannel
