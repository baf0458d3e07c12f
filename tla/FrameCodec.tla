----------------------------- MODULE FrameCodec -----------------------------
(***************************************************************************)
(* encode_frame and read_frame of transport/ws.py. The two header bytes are*)
(* numbers, and computed with as such; an extended length is its width and *)
(* its value, and a payload is an opaque text with its length and the key  *)
(* it is masked with.                                                      *)
(*                                                                         *)
(* Definitions introduced by "Slip" are wrong variants of the definition   *)
(* that follows. Nothing uses them; put in its place, each makes a         *)
(* property fail, which shows that the property can.                       *)
(***************************************************************************)
EXTENDS Integers, Sequences

CONSTANTS
  Keys,    \* masking keys
  NoKey    \* the lack of one

ASSUME FrameCodecAssumption == NoKey \notin Keys

OP_CONT == 0
OP_TEXT == 1
OP_BINARY == 2
OP_CLOSE == 8
OP_PING == 9
OP_PONG == 10

ValidOpcodes == {OP_CONT, OP_TEXT, OP_BINARY, OP_CLOSE, OP_PING, OP_PONG}
ControlOpcodes == {OP_CLOSE, OP_PING, OP_PONG}

\* A payload in the clear.
Plain(text, length) == [text |-> text, length |-> length, under |-> NoKey]

\* Every byte xor the key's: puts a payload under the key or takes it off.
Xor(payload, key) ==
  [text |-> payload.text,
   length |-> payload.length,
   under |-> IF payload.under = key THEN NoKey ELSE key]

-----------------------------------------------------------------------------
\* Slip: lengths that do not fit into seven bits are all sent in two bytes.
ShortExtendedWidth(length) == IF length < 126 THEN 0 ELSE 2

\* How many bytes encode_frame spends on the length beyond the second byte.
ExtendedWidth(length) ==
  IF length < 126 THEN 0 ELSE IF length < 65536 THEN 2 ELSE 8

\* struct.pack "!H" or "!Q": a number that does not fit loses its high bytes
\* (pack would raise).
Packed(n, width) == IF width = 2 THEN n % 65536 ELSE n

\* encode_frame: one final frame. A frame's bytes is how many there are of it.
EncodeFrame(opcode, payload, key) ==
  LET n == payload.length
      w == ExtendedWidth(n)
  IN  [b0 |-> 128 + opcode,
       b1 |-> (IF key = NoKey THEN 0 ELSE 128)
              + (IF w = 0 THEN n ELSE IF w = 2 THEN 126 ELSE 127),
       extended |-> IF w = 0 THEN 0 ELSE Packed(n, w),
       key |-> key,
       body |-> IF key = NoKey THEN payload ELSE Xor(payload, key),
       bytes |-> 2 + w + (IF key = NoKey THEN 0 ELSE 4) + n]

-----------------------------------------------------------------------------
\* What read_frame takes from the header.
Fin(f) == f.b0 \div 128 = 1
ReservedBits(f) == (f.b0 \div 16) % 8
Opcode(f) == f.b0 % 16
Masked(f) == f.b1 \div 128 = 1
ShortLength(f) == f.b1 % 128

\* read_frame raises ProtocolError on the header.
Refused(f) ==
  \/ ReservedBits(f) # 0
  \/ Opcode(f) \notin ValidOpcodes
  \/ Opcode(f) \in ControlOpcodes /\ (~Fin(f) \/ ShortLength(f) > 125)

\* The length read_frame goes by, and how many bytes it takes in all.
Length(f) == IF ShortLength(f) < 126 THEN ShortLength(f) ELSE f.extended

Wanted(f) ==
  2 + (IF ShortLength(f) = 126 THEN 2 ELSE IF ShortLength(f) = 127 THEN 8 ELSE 0)
    + (IF Masked(f) THEN 4 ELSE 0) + Length(f)

\* The payload read_frame returns.
Payload(f) == IF Masked(f) THEN Xor(f.body, f.key) ELSE f.body
=============================================================================
