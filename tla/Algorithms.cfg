CONSTANTS
  Numbers <- SomeNumbers
  Moduli <- SomeModuli
  Symbols = {0, 1, 2, 3}
  Payloads <- SomePayloads
  ByteBits = 4
  Quote = "quote"
  Backslash = "backslash"
  Hash = "hash"
  Slash = "slash"
  Star = "star"
  Newline = "newline"
  Comma = "comma"
  Blanks = {"newline", "blank"}
  Closers = {"closer"}
  Characters <- AllCharacters
  Texts <- SomeTexts
  None = None
  Empty = Empty
  NotARecord = NotARecord
  Good = {"x", "y"}
  Bad = Bad
  Files <- SomeFiles
  Environments <- SomeEnvironments
  ServerOptions <- SomeServerOptions
  ClientOptions <- SomeClientOptions
SPECIFICATION Spec
CHECK_DEADLOCK FALSE
INVARIANTS
  InverseCorrect
  PrefixFree
  DecodesBack
  Optimal
  StrippedAsMeant
  NodeAndClientFit
