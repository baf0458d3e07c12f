--------------------------- MODULE WebSocketProofs ---------------------------
(***************************************************************************)
(* Proofs about FrameCodec and WebSocket, for messages of any number and   *)
(* length: what encode_frame writes, read_frame reads; what recv returns   *)
(* is what the other end has sent, whole and in order; and close loses     *)
(* nothing.                                                                *)
(*                                                                         *)
(* The argument follows a stream as its reader will: what the reader has   *)
(* now, what each item on the stream makes of it, and where that ends.     *)
(***************************************************************************)
EXTENDS WebSocket, SequenceTheorems, WellFoundedInduction, TLAPS

-----------------------------------------------------------------------------
(***************************************************************************)
(* Frames                                                                  *)
(***************************************************************************)

\* The second byte tells the three widths of the length apart, and the number
\* that follows is the length: at 125, 126, 65535 and 65536 too.
LEMMA LengthSurvives ==
  ASSUME NEW opcode \in ValidOpcodes, NEW key \in Keys \cup {NoKey},
         NEW payload, payload.length \in Nat
  PROVE  LET f == EncodeFrame(opcode, payload, key)
         IN  /\ Length(f) = payload.length
             /\ ShortLength(f) \in 0 .. 127
             /\ ShortLength(f) <= 125 <=> payload.length <= 125
             /\ Masked(f) <=> key # NoKey
             /\ Wanted(f) = f.bytes
<1> DEFINE n == payload.length
           m == IF key = NoKey THEN 0 ELSE 128
           w == ExtendedWidth(n)
           f == EncodeFrame(opcode, payload, key)
           s == IF w = 0 THEN n ELSE IF w = 2 THEN 126 ELSE 127
<1>1. n \in Nat
  OBVIOUS
<1>2. /\ f.b1 = m + s
      /\ f.extended = IF w = 0 THEN 0 ELSE Packed(n, w)
      /\ f.bytes = 2 + w + (IF key = NoKey THEN 0 ELSE 4) + n
  BY DEF EncodeFrame
<1>3. /\ s \in 0 .. 127
      /\ m \in {0, 128}
      /\ m = 128 <=> key # NoKey
      /\ s <= 125 <=> n <= 125
      /\ s < 126 => w = 0 /\ s = n
      /\ s = 126 => w = 2
      /\ s = 127 => w = 8
      /\ w = 2 => n < 65536
  BY <1>1 DEF ExtendedWidth
<1> HIDE DEF f, w, s, m, n
<1>4. ShortLength(f) = s /\ (Masked(f) <=> key # NoKey)
  BY <1>2, <1>3 DEF ShortLength, Masked
<1>5. Length(f) = n
  <2>1. CASE s < 126
    BY <2>1, <1>3, <1>4 DEF Length
  <2>2. CASE s = 126
    <3>1. f.extended = n % 65536
      BY <2>2, <1>2, <1>3 DEF Packed
    <3>2. n % 65536 = n
      BY <2>2, <1>1, <1>3
    <3> QED
      BY <3>1, <3>2, <2>2, <1>4 DEF Length
  <2>3. CASE s = 127
    BY <2>3, <1>2, <1>3, <1>4 DEF Length, Packed
  <2> QED
    BY <2>1, <2>2, <2>3, <1>3
<1>6. Wanted(f) = f.bytes
  BY <1>1, <1>2, <1>3, <1>4, <1>5 DEF Wanted
<1>7. ShortLength(f) <= 125 <=> n <= 125
  BY <1>3, <1>4
<1> QED
  BY <1>3, <1>4, <1>5, <1>6, <1>7 DEF f, n

\* A frame that encode_frame writes is taken by the peer's read_frame as it
\* was meant: not refused (unless it is a control frame of more than 125
\* bytes), to its last byte and no further, with its opcode and its payload in
\* the clear. This is what keeps the two ends in step on the byte stream.
THEOREM RoundTrip ==
  ASSUME NEW opcode \in ValidOpcodes, NEW key \in Keys \cup {NoKey},
         NEW text, NEW length \in Nat,
         opcode \in ControlOpcodes => length <= 125
  PROVE  LET f == EncodeFrame(opcode, Plain(text, length), key)
         IN  /\ ~Refused(f)
             /\ Wanted(f) = f.bytes
             /\ Fin(f)
             /\ Opcode(f) = opcode
             /\ Payload(f) = Plain(text, length)
             /\ Length(f) = length
<1> DEFINE payload == Plain(text, length)
           f == EncodeFrame(opcode, payload, key)
<1>1. payload.length = length /\ payload.under = NoKey
  BY DEF Plain
<1>2. /\ Length(f) = length
      /\ ShortLength(f) \in 0 .. 127
      /\ ShortLength(f) <= 125 <=> length <= 125
      /\ Masked(f) <=> key # NoKey
      /\ Wanted(f) = f.bytes
  <2>1. payload.length \in Nat
    BY <1>1
  <2> HIDE DEF payload
  <2> QED
    BY <2>1, <1>1, LengthSurvives
<1>3. f.b0 = 128 + opcode /\ f.key = key
  BY DEF EncodeFrame
<1>4. f.body = IF key = NoKey THEN payload ELSE Xor(payload, key)
  BY DEF EncodeFrame
<1>5. opcode \in {0, 1, 2, 8, 9, 10}
  BY DEF ValidOpcodes, OP_CONT, OP_TEXT, OP_BINARY, OP_CLOSE, OP_PING, OP_PONG
<1>6. Payload(f) = payload
  <2>1. CASE key = NoKey
    BY <2>1, <1>2, <1>4 DEF Payload
  <2>2. CASE key # NoKey
    <3>1. Payload(f) = Xor(Xor(payload, key), key)
      BY <2>2, <1>2, <1>3, <1>4 DEF Payload
    <3>2. Xor(payload, key) = [text |-> text, length |-> length, under |-> key]
      BY <2>2 DEF Xor, Plain
    <3>3. Xor(Xor(payload, key), key) = payload
      BY <3>2 DEF Xor, Plain
    <3> QED
      BY <3>1, <3>3
  <2> QED
    BY <2>1, <2>2
<1> HIDE DEF f, payload
<1>7. ReservedBits(f) = 0 /\ Fin(f) /\ Opcode(f) = opcode
  BY <1>3, <1>5 DEF ReservedBits, Fin, Opcode
<1>8. ~Refused(f)
  <2>1. opcode \in ControlOpcodes => ShortLength(f) <= 125
    BY <1>2
  <2> QED
    BY <2>1, <1>2, <1>7 DEF Refused
<1> QED
  BY <1>2, <1>6, <1>7, <1>8 DEF f, payload
-----------------------------------------------------------------------------
(***************************************************************************)
(* The bytes of a sequence of texts                                        *)
(***************************************************************************)

\* A set of numbers has a least one: this stands in for induction.
LEMMA LeastNatural ==
  ASSUME NEW T \in SUBSET Nat, T # {}
  PROVE  \E x \in T : \A y \in T : x <= y
<1>1. PICK x \in T : \A y \in T : ~ (<<y, x>> \in OpToRel(<, Nat))
  BY NatLessThanWellFounded, WFMin
<1>2. \A y \in T : ~ (y < x)
  BY <1>1 DEF OpToRel
<1> QED
  BY <1>2

\* A sequence of texts has a number of bytes.
LEMMA TotalSizeType ==
  ASSUME NEW m \in Seq(Texts)
  PROVE  TotalSize(m) \in Nat /\ (m = <<>> => TotalSize(m) = 0)
<1> DEFINE IsSum(g, n) ==
             /\ g \in [0 .. n -> Nat] /\ g[0] = 0
             /\ \A k \in 1 .. n : g[k] = g[k - 1] + Size[m[k]]
           Short == {n \in 0 .. Len(m) : ~ \E g \in [0 .. n -> Nat] : IsSum(g, n)}
<1>0. Len(m) \in Nat /\ \A k \in 1 .. Len(m) : Size[m[k]] \in Nat
  <2>1. \A k \in 1 .. Len(m) : m[k] \in Texts
    BY ElementOfSeq
  <2> QED
    BY <2>1, WebSocketAssumption
<1>1. Short = {}
  <2> SUFFICES ASSUME Short # {}
               PROVE  FALSE
    OBVIOUS
  <2>1. Short \in SUBSET Nat
    BY <1>0
  <2>2. PICK n \in Short : \A y \in Short : n <= y
    BY <2>1, LeastNatural
  <2>3. CASE n = 0
    <3>1. IsSum([k \in 0 .. 0 |-> 0], 0)
      OBVIOUS
    <3> QED
      BY <3>1, <2>3
  <2>4. CASE n # 0
    <3>0. n \in Nat /\ n <= Len(m)
      BY <1>0, <2>2
    <3>1. n - 1 \in 0 .. Len(m) /\ n - 1 \notin Short
      <4>1. n - 1 \in 0 .. Len(m) /\ ~ (n <= n - 1)
        BY <3>0, <2>4, <1>0
      <4> HIDE DEF Short
      <4> QED
        BY <4>1, <2>2
    <3>2. PICK g \in [0 .. n - 1 -> Nat] : IsSum(g, n - 1)
      BY <3>1
    <3> DEFINE h == [k \in 0 .. n |-> IF k = n THEN g[n - 1] + Size[m[n]] ELSE g[k]]
    <3>3. g[n - 1] \in Nat /\ Size[m[n]] \in Nat
      BY <3>0, <1>0, <2>4
    <3>4. h \in [0 .. n -> Nat] /\ h[0] = 0
      BY <3>0, <3>2, <3>3, <2>4
    <3>5. \A k \in 1 .. n : h[k] = h[k - 1] + Size[m[k]]
      BY <3>0, <3>2, <3>3, <2>4
    <3> QED
      BY <3>4, <3>5
  <2> QED
    BY <2>3, <2>4
<1>2. PICK g \in [0 .. Len(m) -> Nat] : IsSum(g, Len(m))
  <2>1. Len(m) \notin Short
    BY <1>1
  <2> QED
    BY <2>1, <1>0
<1> DEFINE Sums(f) == [k \in 0 .. Len(m) |->
                        IF k = 0 THEN 0 ELSE f[k - 1] + Size[m[k]]]
           s == CHOOSE f : f = Sums(f)
<1>3. g = Sums(g)
  BY <1>0, <1>2
<1>4. s = Sums(s)
  <2> HIDE DEF Sums
  <2> QED
    BY <1>3, Zenon
<1>5. TotalSize(m) = s[Len(m)]
  BY DEF TotalSize
<1> HIDE DEF s
<1> DEFINE Wrong == {k \in 0 .. Len(m) : s[k] # g[k]}
<1>6. Wrong = {}
  <2> SUFFICES ASSUME Wrong # {}
               PROVE  FALSE
    OBVIOUS
  <2>1. Wrong \in SUBSET Nat
    BY <1>0
  <2>2. PICK n \in Wrong : \A y \in Wrong : n <= y
    BY <2>1, LeastNatural
  <2>3. n \in 0 .. Len(m) /\ n \in Nat
    BY <1>0
  <2>4. s[n] = IF n = 0 THEN 0 ELSE s[n - 1] + Size[m[n]]
    BY <1>4, <2>3
  <2>5. g[n] = IF n = 0 THEN 0 ELSE g[n - 1] + Size[m[n]]
    BY <1>3, <2>3
  <2>6. n # 0
    BY <2>2, <2>4, <2>5
  <2>7. n - 1 \in 0 .. Len(m) /\ n - 1 \notin Wrong
    BY <2>2, <2>3, <2>6, <1>0
  <2> QED
    BY <2>2, <2>4, <2>5, <2>7
<1>7. s[Len(m)] = g[Len(m)] /\ g[Len(m)] \in Nat
  BY <1>0, <1>2, <1>6
<1>8. m = <<>> => g[Len(m)] = 0
  BY <1>2
<1> QED
  BY <1>5, <1>7, <1>8

-----------------------------------------------------------------------------
(***************************************************************************)
(* Reading ahead                                                           *)
(***************************************************************************)

\* What is on a stream.
Https == {Http(block) : block \in {"upgrade", "other", "switch"}}

PayloadSet == [text : Seq(Texts \cup {Undecodable}), length : Nat,
               under : Keys \cup {NoKey}]

Frame == [b0 : 0 .. 255, b1 : 0 .. 255, extended : Nat,
          key : Keys \cup {NoKey}, body : PayloadSet, bytes : Int]

Item == Https \cup Frame

\* How far a reader is: how many messages it has, what of the next one, and
\* what it has met that ends its reading.
Reading == [n : Nat, part : Message \cup {NoMessage},
            met : {"none", "torn", "wrong", "close"}]

\* What recv refuses.
Bad(x, f) ==
  \/ Refused(f)
  \/ Opcode(f) = OP_CONT /\ x.part = NoMessage
  \/ /\ Opcode(f) = OP_TEXT /\ Fin(f)
     /\ Payload(f).text = <<Undecodable>> /\ Payload(f).under = NoKey

\* A data frame in the clear.
DataFrame(f) ==
  /\ ~Refused(f) /\ Payload(f).under = NoKey
  /\ Opcode(f) \in {OP_CONT, OP_TEXT, OP_BINARY}

Joined(x, f) ==
  [opcode |-> IF Opcode(f) = OP_CONT THEN x.part.opcode ELSE Opcode(f),
   parts  |-> x.part.parts \o Payload(f).text]

\* A whole frame: of the messages M, it takes a reader from x to y.
Understood(M, x, f, y) ==
  \/ Bad(x, f) /\ y = [x EXCEPT !.met = "wrong"]
  \/ ~Refused(f) /\ Opcode(f) = OP_CLOSE /\ y = [x EXCEPT !.met = "close"]
  \/ /\ ~Refused(f) /\ Opcode(f) \in {OP_PING, OP_PONG}
     /\ Payload(f).text = <<>>
     /\ y = x
  \/ /\ DataFrame(f) /\ ~Fin(f) /\ Opcode(f) # OP_CONT /\ x.part = NoMessage
     /\ y = [x EXCEPT !.part = Joined(x, f)]
  \/ /\ DataFrame(f) /\ Fin(f) /\ (Opcode(f) = OP_CONT <=> x.part # NoMessage)
     /\ x.n < Len(M) /\ M[x.n + 1] = Joined(x, f)
     /\ y = [x EXCEPT !.n = @ + 1, !.part = NoMessage]

\* Any item.
Takes(M, x, f, y) ==
  \/ x.met # "none" /\ y = x
  \/ x.met = "none" /\ f \in Https /\ y = x
  \/ /\ x.met = "none" /\ f \in Frame /\ Wanted(f) # f.bytes
     /\ y = [x EXCEPT !.met = "torn"]
  \/ /\ x.met = "none" /\ f \in Frame /\ Wanted(f) = f.bytes
     /\ Understood(M, x, f, y)

\* r is where a reader is before and after each item of s.
ReadsOn(M, s, r) ==
  /\ r \in [0 .. Len(s) -> Reading]
  /\ \A i \in 1 .. Len(s) : Takes(M, r[i - 1], s[i], r[i])

\* What becomes of r when an item is added to s, read from it, or lost.
More(r, n, y) == [i \in 0 .. n |-> IF i = n THEN y ELSE r[i]]
Past(r, n) == [i \in 0 .. n |-> r[i + 1]]
UpTo(r, n) == [i \in 0 .. n |-> r[i]]

-----------------------------------------------------------------------------
(***************************************************************************)
(* The inductive invariant                                                 *)
(***************************************************************************)

\* What is under way of a message that is sent in fragments.
Begun(e) ==
  IF e = "server" /\ rest # <<>>
  THEN [opcode |-> rest[1].opcode, parts |-> <<Head(rest[1].parts)>>]
  ELSE NoMessage

\* What stops a reader has a cause.
Excused(e, y) ==
  /\ y.met = "torn" => broken
  /\ y.met = "wrong" => e = "server" /\ wrong
  /\ y.met = "close" => /\ e = "server" /\ at["client"] = "closed"
                       /\ y.n = Len(sent[Peer(e)])

\* As long as all that is sent reaches e, the stream ends with it.
Complete(e, y) ==
  y.met = "none" => /\ y.n = Len(sent[Peer(e)])
                    /\ y.part = Begun(e)
                    /\ e = "server" => ~wrong /\ at["client"] # "closed"

Foretold(e, r) ==
  /\ ReadsOn(sent[Peer(e)], stream[e], r)
  /\ r[0] = [n |-> Len(got[e]), part |-> chunks[e], met |-> "none"]
  /\ \A i \in 0 .. Len(stream[e]) : Excused(e, r[i])
  /\ Reaches(e) => Complete(e, r[Len(stream[e])])

Reader(e) == at[e] \in {"tls", "secure", "handshake", "asked", "open"}

Follows(e) == Reader(e) => \E r : Foretold(e, r)

\* What has been received is the beginning of what has been sent.
Received(e) ==
  /\ Len(got[e]) <= Len(sent[Peer(e)])
  /\ \A i \in 1 .. Len(got[e]) : got[e][i] = sent[Peer(e)][i]

Types ==
  /\ foreign \in BOOLEAN
  /\ at \in [Ends -> {"tls", "secure", "handshake", "asked", "open", "raised",
                      "closed", "left", "done"}]
  /\ at["client"] \notin {"handshake", "done"}
  /\ at["server"] \notin {"secure", "asked", "closed", "left"}
  /\ closed \in [Ends -> BOOLEAN]
  /\ socket \in [Ends -> BOOLEAN]
  /\ stream \in [Ends -> Seq(Item)]
  /\ chunks \in [Ends -> Message \cup {NoMessage}]
  /\ passed \in BOOLEAN
  /\ rest \in Seq(Message) /\ Len(rest) <= 1
  /\ rest # <<>> => Len(rest[1].parts) > 1
  /\ wrong => rest = <<>>
  /\ controls \in 0 .. MaxControls
  /\ wrong \in BOOLEAN
  /\ broken \in BOOLEAN
  /\ sent \in [Ends -> Seq(Message)]
  /\ got \in [Ends -> Seq(Message)]

AllIn(s, S) == \A i \in 1 .. Len(s) : s[i] \in S

\* The sockets, and what the opening handshake puts on the streams.
Stages ==
  /\ socket["server"] <=> at["server"] # "done"
  /\ at["client"] \notin {"closed", "left"} => socket["client"]
  /\ at["server"] = "tls" => /\ at["client"] \in {"tls", "left"}
                            /\ stream["server"] = <<>>
  /\ at["server"] \in {"tls", "handshake"} =>
       /\ at["client"] \notin {"open", "closed"}
       /\ stream["client"] = <<>>
       /\ Len(stream["server"]) <= 1 /\ AllIn(stream["server"], Https)
  /\ at["server"] \notin {"tls", "handshake"} => AllIn(stream["server"], Frame)
  /\ at["client"] \in {"tls", "secure"} =>
       /\ at["server"] \in {"tls", "handshake"} \/ broken
       /\ at["server"] # "open"
       /\ stream["client"] = <<>> /\ stream["server"] = <<>>
  /\ at["client"] = "asked" =>
       /\ stream["client"] \in {<<>>, <<Http("switch")>>}
       /\ at["server"] \notin {"tls", "handshake"} => stream["server"] = <<>>
  /\ at["client"] \in {"tls", "secure", "asked"} => got["server"] = <<>> /\ ~passed
  /\ at["server"] \in {"tls", "handshake"} => got["server"] = <<>> /\ ~passed
  /\ at["client"] = "open" => AllIn(stream["client"], Frame)

\* The server stays as long as nothing is wrong and the client does.
Stays ==
  ~broken /\ ~wrong =>
    /\ at["client"] = "asked" /\ at["server"] \in {"raised", "done"}
         => stream["client"] = <<>>
    /\ at["client"] = "open" => at["server"] = "open"
    /\ at["client"] = "closed" /\ at["server"] # "open"
         => closed["server"] /\ got["server"] = sent["client"]

IInv ==
  /\ Types
  /\ Stages
  /\ Stays
  /\ \A e \in Ends : Received(e)
  /\ \A e \in Ends : Follows(e)

-----------------------------------------------------------------------------
(***************************************************************************)
(* What the frames that are sent read as                                   *)
(***************************************************************************)

\* One of encode_frame's frames, with this opcode and text.
Written(f, opcode, m) ==
  /\ f \in Frame /\ Wanted(f) = f.bytes
  /\ ~Refused(f) /\ Fin(f) /\ Opcode(f) = opcode
  /\ Payload(f).text = m /\ Payload(f).under = NoKey

LEMMA EncodedTyped ==
  ASSUME NEW opcode \in ValidOpcodes, NEW key \in Keys \cup {NoKey},
         NEW m \in Seq(Texts \cup {Undecodable}), NEW length \in Nat
  PROVE  EncodeFrame(opcode, Plain(m, length), key) \in Frame
<1> DEFINE f == EncodeFrame(opcode, Plain(m, length), key)
           w == ExtendedWidth(length)
           s == IF w = 0 THEN length ELSE IF w = 2 THEN 126 ELSE 127
           body == IF key = NoKey THEN Plain(m, length)
                   ELSE Xor(Plain(m, length), key)
           extended == IF w = 0 THEN 0 ELSE Packed(length, w)
           bytes == 2 + w + (IF key = NoKey THEN 0 ELSE 4) + length
           b1 == (IF key = NoKey THEN 0 ELSE 128) + s
<1>1. f = [b0 |-> 128 + opcode, b1 |-> b1, extended |-> extended, key |-> key,
           body |-> body, bytes |-> bytes]
  BY DEF EncodeFrame, Plain
<1>2. w \in {0, 2, 8} /\ s \in 0 .. 127
  BY DEF ExtendedWidth
<1>3. extended \in Nat
  BY DEF Packed
<1>4. body \in PayloadSet
  BY DEF Plain, Xor, PayloadSet
<1>5. 128 + opcode \in 0 .. 255
  BY DEF ValidOpcodes, OP_CONT, OP_TEXT, OP_BINARY, OP_CLOSE, OP_PING, OP_PONG
<1>6. b1 \in 0 .. 255 /\ bytes \in Int
  <2> HIDE DEF w
  <2> QED
    BY <1>2
<1> HIDE DEF f, w, body, extended, bytes, b1
<1>7. f \in Frame
  BY <1>1, <1>3, <1>4, <1>5, <1>6 DEF Frame
<1> QED
  BY <1>7 DEF f

LEMMA EncodedReads ==
  ASSUME NEW opcode \in ValidOpcodes, NEW key \in Keys \cup {NoKey},
         NEW m \in Seq(Texts \cup {Undecodable}), NEW length \in Nat,
         opcode \in ControlOpcodes => length <= 125
  PROVE  Written(EncodeFrame(opcode, Plain(m, length), key), opcode, m)
<1> DEFINE f == EncodeFrame(opcode, Plain(m, length), key)
<1>1. f \in Frame
  BY EncodedTyped
<1>2. /\ ~Refused(f) /\ Wanted(f) = f.bytes /\ Fin(f) /\ Opcode(f) = opcode
      /\ Payload(f) = Plain(m, length)
  BY RoundTrip
<1>3. Plain(m, length).text = m /\ Plain(m, length).under = NoKey
  BY DEF Plain
<1> HIDE DEF f
<1>4. Written(f, opcode, m)
  BY <1>1, <1>2, <1>3 DEF Written
<1> QED
  BY <1>4 DEF f

\* The frames either end sends: text and binary messages of any length, and
\* control frames, which are empty.
LEMMA FramesWritten ==
  ASSUME NEW e \in Ends, NEW opcode \in ValidOpcodes, NEW m \in Seq(Texts),
         opcode \in ControlOpcodes => m = <<>>, NEW f \in Frames(e, opcode, m)
  PROVE  Written(f, opcode, m)
<1>1. PICK key \in KeysOf(e) : f = EncodeFrame(opcode, Plain(m, TotalSize(m)), key)
  BY DEF Frames
<1>2. key \in Keys \cup {NoKey}
  BY <1>1 DEF KeysOf
<1>3. TotalSize(m) \in Nat
  BY TotalSizeType
<1>4. m = <<>> => TotalSize(m) = 0
  BY TotalSizeType
<1>5. m \in Seq(Texts \cup {Undecodable})
  BY SeqMonotonic
<1>6. opcode \in ControlOpcodes => TotalSize(m) <= 125
  BY <1>4
<1> QED
  BY <1>1, <1>2, <1>3, <1>5, <1>6, EncodedReads

\* A first fragment differs from that in the FIN bit only.
LEMMA UnfinishedReads ==
  ASSUME NEW f, NEW opcode \in {OP_TEXT, OP_BINARY}, NEW m, Written(f, opcode, m)
  PROVE  /\ Unfinished(f) \in Frame /\ Wanted(Unfinished(f)) = Unfinished(f).bytes
         /\ DataFrame(Unfinished(f)) /\ ~Fin(Unfinished(f))
         /\ Opcode(Unfinished(f)) = opcode /\ Payload(Unfinished(f)).text = m
<1> DEFINE g == Unfinished(f)
<1>0. f \in Frame /\ f.b0 \in 0 .. 255 /\ Fin(f) /\ Opcode(f) = opcode
  BY DEF Written, Frame
<1>1. /\ g.b0 = f.b0 - 128 /\ g.b1 = f.b1 /\ g.extended = f.extended
      /\ g.key = f.key /\ g.body = f.body /\ g.bytes = f.bytes
  BY <1>0 DEF Unfinished, Frame
<1>2. f.b0 - 128 \in 0 .. 127
  BY <1>0 DEF Fin
<1>3. g \in Frame
  BY <1>0, <1>2 DEF Unfinished, Frame
<1>4. Wanted(g) = Wanted(f) /\ Payload(g) = Payload(f)
  <2> HIDE DEF g
  <2> QED
    BY <1>1 DEF Wanted, Payload, Masked, ShortLength, Length
<1>5. Opcode(g) = opcode /\ ~Fin(g) /\ ReservedBits(g) = 0
  <2>1. ReservedBits(f) = 0
    BY DEF Written, Refused
  <2> HIDE DEF g
  <2> QED
    BY <2>1, <1>0, <1>1, <1>2 DEF Opcode, Fin, ReservedBits
<1>6. opcode \in ValidOpcodes /\ opcode \notin ControlOpcodes
      /\ opcode \in {OP_CONT, OP_TEXT, OP_BINARY}
  BY DEF ValidOpcodes, ControlOpcodes, OP_CONT, OP_TEXT, OP_BINARY, OP_CLOSE,
         OP_PING, OP_PONG
<1> HIDE DEF g
<1>7. ~Refused(g)
  BY <1>5, <1>6 DEF Refused
<1>8. g \in Frame /\ Wanted(g) = g.bytes /\ DataFrame(g) /\ ~Fin(g)
      /\ Opcode(g) = opcode /\ Payload(g).text = m
  BY <1>1, <1>3, <1>4, <1>5, <1>6, <1>7 DEF Written, DataFrame
<1> QED
  BY <1>8 DEF g

\* A frame of which the last byte is missing is waited for.
LEMMA TornReads ==
  ASSUME NEW f \in Frame
  PROVE  LET g == [f EXCEPT !.bytes = @ - 1]
         IN  g \in Frame /\ (Wanted(f) = f.bytes => Wanted(g) # g.bytes)
<1> DEFINE g == [f EXCEPT !.bytes = @ - 1]
<1>1. /\ g.b0 = f.b0 /\ g.b1 = f.b1 /\ g.extended = f.extended
      /\ g.key = f.key /\ g.body = f.body /\ g.bytes = f.bytes - 1
      /\ f.bytes \in Int
  BY DEF Frame
<1>2. g \in Frame
  BY DEF Frame
<1> HIDE DEF g
<1>3. Wanted(g) = Wanted(f)
  BY <1>1 DEF Wanted, Masked, ShortLength, Length
<1>4. g \in Frame /\ (Wanted(f) = f.bytes => Wanted(g) # g.bytes)
  BY <1>1, <1>2, <1>3
<1> QED
  BY <1>4 DEF g

\* Changing the first byte changes neither the length nor the payload.
LEMMA FirstByte ==
  ASSUME NEW f \in Frame, NEW b \in 0 .. 255, NEW g, g = [f EXCEPT !.b0 = b]
  PROVE  /\ g \in Frame /\ g.b0 = b
         /\ Wanted(g) = Wanted(f) /\ g.bytes = f.bytes
<1>1. /\ g.b0 = b /\ g.b1 = f.b1 /\ g.extended = f.extended
      /\ g.key = f.key /\ g.body = f.body /\ g.bytes = f.bytes
  BY DEF Frame
<1>2. g \in Frame
  BY DEF Frame
<1> QED
  BY <1>1, <1>2 DEF Wanted, Masked, ShortLength, Length

\* Each frame that breaks the protocol is refused by a reader that is not in
\* the middle of a message, or, unless it is a continuation, by any.
LEMMA WrongReads ==
  ASSUME NEW f \in WrongFrames
  PROVE  /\ f \in Frame /\ Wanted(f) = f.bytes
         /\ \/ Refused(f)
            \/ Opcode(f) = OP_CONT /\ rest = <<>>
            \/ /\ Opcode(f) = OP_TEXT /\ Fin(f)
               /\ Payload(f).text = <<Undecodable>> /\ Payload(f).under = NoKey
<1> DEFINE Of(opcode, length) ==
             {EncodeFrame(opcode, Plain(<<>>, length), key) : key \in Keys}
           NoText(key) == EncodeFrame(OP_TEXT, Plain(<<Undecodable>>, 1), key)
<1>0. /\ OP_TEXT = 1 /\ OP_PING = 9 /\ OP_CONT = 0
      /\ {0, 1, 9} \subseteq ValidOpcodes /\ 9 \in ControlOpcodes
      /\ 0 \notin ControlOpcodes /\ 1 \notin ControlOpcodes /\ 3 \notin ValidOpcodes
  BY DEF OP_CONT, OP_TEXT, OP_BINARY, OP_CLOSE, OP_PING, OP_PONG, ValidOpcodes,
         ControlOpcodes
<1>1. \A opcode \in {0, 1, 9}, length \in {0, 126} : \A h \in Of(opcode, length) :
        /\ h \in Frame /\ Wanted(h) = h.bytes /\ h.b0 = 128 + opcode
        /\ opcode = 9 /\ length = 126 => ShortLength(h) > 125
  <2> SUFFICES ASSUME NEW opcode \in {0, 1, 9}, NEW length \in {0, 126},
                      NEW key \in Keys
               PROVE  LET h == EncodeFrame(opcode, Plain(<<>>, length), key)
                      IN  /\ h \in Frame /\ Wanted(h) = h.bytes /\ h.b0 = 128 + opcode
                          /\ length = 126 => ShortLength(h) > 125
    OBVIOUS
  <2> DEFINE h == EncodeFrame(opcode, Plain(<<>>, length), key)
             p == Plain(<<>>, length)
  <2>1. opcode \in ValidOpcodes /\ length \in Nat /\ key \in Keys \cup {NoKey}
        /\ <<>> \in Seq(Texts \cup {Undecodable}) /\ p.length = length
    BY <1>0 DEF Plain
  <2>2. h \in Frame
    <3> HIDE DEF h
    <3>1. EncodeFrame(opcode, Plain(<<>>, length), key) \in Frame
      BY <2>1, EncodedTyped
    <3> QED
      BY <3>1 DEF h
  <2>3. h.b0 = 128 + opcode
    BY DEF EncodeFrame
  <2> HIDE DEF p
  <2>4. Wanted(EncodeFrame(opcode, p, key)) = EncodeFrame(opcode, p, key).bytes
        /\ (ShortLength(EncodeFrame(opcode, p, key)) <= 125 <=> p.length <= 125)
        /\ ShortLength(EncodeFrame(opcode, p, key)) \in 0 .. 127
    BY <2>1, LengthSurvives
  <2>5. h = EncodeFrame(opcode, p, key)
    BY DEF p
  <2>6. Wanted(h) = h.bytes /\ (length = 126 => ShortLength(h) > 125)
    <3> HIDE DEF h
    <3> QED
      BY <2>1, <2>4, <2>5
  <2> QED
    BY <2>2, <2>3, <2>6
<1>2. CASE \E h \in Of(OP_TEXT, 0) : f = [h EXCEPT !.b0 = @ + 64]
  <2>1. PICK h \in Of(1, 0) : f = [h EXCEPT !.b0 = @ + 64]
    BY <1>2, <1>0
  <2>2. h \in Frame /\ Wanted(h) = h.bytes /\ h.b0 = 129
    BY <1>1
  <2>3. f = [h EXCEPT !.b0 = 193]
    BY <2>1, <2>2
  <2>4. f \in Frame /\ f.b0 = 193 /\ Wanted(f) = f.bytes
    BY <2>2, <2>3, FirstByte
  <2> QED
    BY <2>4 DEF Refused, ReservedBits
<1>3. CASE \E h \in Of(OP_TEXT, 0) : f = [h EXCEPT !.b0 = @ + 2]
  <2>1. PICK h \in Of(1, 0) : f = [h EXCEPT !.b0 = @ + 2]
    BY <1>3, <1>0
  <2>2. h \in Frame /\ Wanted(h) = h.bytes /\ h.b0 = 129
    BY <1>1
  <2>3. f = [h EXCEPT !.b0 = 131]
    BY <2>1, <2>2
  <2>4. f \in Frame /\ f.b0 = 131 /\ Wanted(f) = f.bytes
    BY <2>2, <2>3, FirstByte
  <2>5. Opcode(f) = 3
    BY <2>4 DEF Opcode
  <2> QED
    BY <2>4, <2>5, <1>0 DEF Refused
<1>4. CASE \E h \in Of(OP_PING, 0) : f = Unfinished(h)
  <2>1. PICK h \in Of(9, 0) : f = [h EXCEPT !.b0 = @ - 128]
    BY <1>4, <1>0 DEF Unfinished
  <2>2. h \in Frame /\ Wanted(h) = h.bytes /\ h.b0 = 137
    BY <1>1
  <2>3. f = [h EXCEPT !.b0 = 9]
    BY <2>1, <2>2
  <2>4. f \in Frame /\ f.b0 = 9 /\ Wanted(f) = f.bytes
    BY <2>2, <2>3, FirstByte
  <2>5. Opcode(f) = 9 /\ ~Fin(f)
    BY <2>4 DEF Opcode, Fin
  <2> QED
    BY <2>4, <2>5, <1>0 DEF Refused
<1>5. CASE f \in Of(OP_PING, 126)
  <2>1. f \in Frame /\ Wanted(f) = f.bytes /\ f.b0 = 137 /\ ShortLength(f) > 125
    BY <1>0, <1>1, <1>5
  <2>2. Opcode(f) = 9
    BY <2>1 DEF Opcode
  <2> QED
    BY <2>1, <2>2, <1>0 DEF Refused
<1>6. CASE \E key \in Keys : f = NoText(key)
  <2>1. PICK key \in Keys : f = NoText(key)
    BY <1>6
  <2>2. Written(f, OP_TEXT, <<Undecodable>>)
    <3>1. <<Undecodable>> \in Seq(Texts \cup {Undecodable})
      OBVIOUS
    <3>2. /\ 1 \in Nat /\ key \in Keys \cup {NoKey}
          /\ OP_TEXT \in ValidOpcodes /\ OP_TEXT \notin ControlOpcodes
      BY <1>0
    <3>3. Written(EncodeFrame(OP_TEXT, Plain(<<Undecodable>>, 1), key), OP_TEXT,
                  <<Undecodable>>)
      BY <3>1, <3>2, EncodedReads
    <3> QED
      BY <2>1, <3>3
  <2> QED
    BY <2>2 DEF Written
<1>7. CASE rest = <<>> /\ f \in Of(OP_CONT, 0)
  <2>1. f \in Frame /\ Wanted(f) = f.bytes /\ f.b0 = 128
    BY <1>0, <1>1, <1>7
  <2>2. Opcode(f) = OP_CONT
    BY <2>1, <1>0 DEF Opcode
  <2> QED
    BY <2>1, <2>2, <1>7
<1>8. \/ \E h \in Of(OP_TEXT, 0) : f = [h EXCEPT !.b0 = @ + 64]
      \/ \E h \in Of(OP_TEXT, 0) : f = [h EXCEPT !.b0 = @ + 2]
      \/ \E h \in Of(OP_PING, 0) : f = Unfinished(h)
      \/ f \in Of(OP_PING, 126)
      \/ \E key \in Keys : f = NoText(key)
      \/ rest = <<>> /\ f \in Of(OP_CONT, 0)
  BY DEF WrongFrames
<1> QED
  BY <1>2, <1>3, <1>4, <1>5, <1>6, <1>7, <1>8

-----------------------------------------------------------------------------
(***************************************************************************)
(* How reading ahead changes with the stream                               *)
(***************************************************************************)

\* What has been said of a prefix of the messages is said of the messages.
Extends(M, N) ==
  Len(M) <= Len(N) /\ \A i \in 1 .. Len(M) : N[i] = M[i]

LEMMA TakesExtends ==
  ASSUME NEW M \in Seq(Message), NEW N \in Seq(Message), Extends(M, N),
         NEW x \in Reading, NEW f, NEW y, Takes(M, x, f, y)
  PROVE  Takes(N, x, f, y)
<1>1. x.n \in Nat /\ Len(M) \in Nat /\ Len(N) \in Nat
  BY DEF Reading
<1>2. x.n < Len(M) => x.n < Len(N) /\ N[x.n + 1] = M[x.n + 1]
  BY <1>1 DEF Extends
<1>3. Understood(M, x, f, y) => Understood(N, x, f, y)
  BY <1>2 DEF Understood
<1> QED
  BY <1>3 DEF Takes

LEMMA ReadsOnExtends ==
  ASSUME NEW M \in Seq(Message), NEW N \in Seq(Message), Extends(M, N),
         NEW s \in Seq(Item), NEW r, ReadsOn(M, s, r)
  PROVE  ReadsOn(N, s, r)
<1>0. \A i \in 1 .. Len(s) : i - 1 \in 0 .. Len(s)
  OBVIOUS
<1>1. \A i \in 1 .. Len(s) : r[i - 1] \in Reading
  BY <1>0 DEF ReadsOn
<1>2. \A i \in 1 .. Len(s) : Takes(N, r[i - 1], s[i], r[i])
  BY <1>1, TakesExtends DEF ReadsOn
<1> QED
  BY <1>2 DEF ReadsOn

\* An item more.
LEMMA ReadsOnAppend ==
  ASSUME NEW M, NEW s \in Seq(Item), NEW r, ReadsOn(M, s, r),
         NEW f \in Item, NEW y \in Reading, Takes(M, r[Len(s)], f, y),
         NEW n, n = Len(s) + 1
  PROVE  /\ ReadsOn(M, Append(s, f), More(r, n, y))
         /\ Len(Append(s, f)) = n
         /\ \A i \in 0 .. Len(s) : More(r, n, y)[i] = r[i]
         /\ More(r, n, y)[n] = y
<1> DEFINE L == Len(s)
           t == Append(s, f)
           q == More(r, n, y)
<1>0. n = L + 1 /\ q = [i \in 0 .. L + 1 |-> IF i = L + 1 THEN y ELSE r[i]]
  BY DEF More
<1>1. /\ L \in Nat /\ Len(t) = L + 1 /\ t[L + 1] = f
      /\ \A i \in 1 .. L : t[i] = s[i]
  BY AppendProperties
<1>2. r \in [0 .. L -> Reading] /\ \A i \in 1 .. L : Takes(M, r[i - 1], s[i], r[i])
  BY DEF ReadsOn
<1> HIDE DEF L, t, q
<1>3. q \in [0 .. L + 1 -> Reading]
  BY <1>0, <1>1, <1>2
<1>4. \A i \in 0 .. L : q[i] = r[i]
  BY <1>0, <1>1
<1>5. q[L + 1] = y
  BY <1>0, <1>1
<1>6. \A i \in 1 .. L + 1 : Takes(M, q[i - 1], t[i], q[i])
  <2> TAKE i \in 1 .. L + 1
  <2>1. CASE i = L + 1
    <3>1. q[i - 1] = r[L] /\ t[i] = f /\ q[i] = y
      BY <2>1, <1>1, <1>4, <1>5
    <3> QED
      BY <3>1 DEF L
  <2>2. CASE i # L + 1
    <3>1. i \in 1 .. L /\ i - 1 \in 0 .. L /\ i \in 0 .. L
      BY <2>2, <1>1
    <3>2. q[i - 1] = r[i - 1] /\ t[i] = s[i] /\ q[i] = r[i]
      BY <3>1, <1>1, <1>4
    <3> QED
      BY <3>1, <3>2, <1>2
  <2> QED
    BY <2>1, <2>2
<1>7. ReadsOn(M, t, q)
  BY <1>1, <1>3, <1>6 DEF ReadsOn
<1> QED
  BY <1>0, <1>1, <1>4, <1>5, <1>7 DEF L, t, q

\* The first item read.
LEMMA ReadsOnTail ==
  ASSUME NEW M, NEW s \in Seq(Item), s # <<>>, NEW r, ReadsOn(M, s, r),
         NEW L, L = Len(s) - 1
  PROVE  /\ Tail(s) \in Seq(Item) /\ ReadsOn(M, Tail(s), Past(r, L))
         /\ Len(Tail(s)) = L
         /\ \A i \in 0 .. L : Past(r, L)[i] = r[i + 1]
<1> DEFINE t == Tail(s)
           q == Past(r, L)
<1>0. q = [i \in 0 .. L |-> r[i + 1]]
  BY DEF Past
<1>1. /\ t \in Seq(Item) /\ L \in Nat /\ Len(t) = L /\ Len(s) = L + 1
      /\ \A i \in 1 .. L : t[i] = s[i + 1]
  BY HeadTailProperties, EmptySeq
<1>2. /\ r \in [0 .. L + 1 -> Reading]
      /\ \A i \in 1 .. L + 1 : Takes(M, r[i - 1], s[i], r[i])
  BY <1>1 DEF ReadsOn
<1> HIDE DEF t, q
<1>3. q \in [0 .. L -> Reading] /\ \A i \in 0 .. L : q[i] = r[i + 1]
  BY <1>0, <1>1, <1>2
<1>4. \A i \in 1 .. L : Takes(M, q[i - 1], t[i], q[i])
  <2> TAKE i \in 1 .. L
  <2>1. i + 1 \in 1 .. L + 1 /\ (i + 1) - 1 = i
    BY <1>1
  <2>2. Takes(M, r[i], s[i + 1], r[i + 1])
    BY <2>1, <1>2
  <2>3. q[i - 1] = r[i] /\ q[i] = r[i + 1] /\ t[i] = s[i + 1]
    BY <1>1, <1>3
  <2> QED
    BY <2>2, <2>3
<1>5. ReadsOn(M, t, q)
  BY <1>1, <1>3, <1>4 DEF ReadsOn
<1> QED
  BY <1>1, <1>3, <1>5 DEF t, q

\* A stream that is cut off between two items.
LEMMA ReadsOnCut ==
  ASSUME NEW M, NEW s \in Seq(Item), NEW r, ReadsOn(M, s, r),
         NEW n \in 0 .. Len(s)
  PROVE  /\ SubSeq(s, 1, n) \in Seq(Item)
         /\ Len(SubSeq(s, 1, n)) = n
         /\ \A i \in 1 .. n : SubSeq(s, 1, n)[i] = s[i]
         /\ ReadsOn(M, SubSeq(s, 1, n), UpTo(r, n))
         /\ \A i \in 0 .. n : UpTo(r, n)[i] = r[i]
<1> DEFINE t == SubSeq(s, 1, n)
           q == UpTo(r, n)
<1>0. n \in Nat /\ Len(s) \in Nat /\ \A i \in 1 .. n : s[i] \in Item
  OBVIOUS
<1>1. t \in Seq(Item) /\ Len(t) = n /\ \A i \in 1 .. n : t[i] = s[i]
  BY <1>0, SubSeqProperties
<1>2. /\ r \in [0 .. Len(s) -> Reading]
      /\ \A i \in 1 .. Len(s) : Takes(M, r[i - 1], s[i], r[i])
  BY DEF ReadsOn
<1>3. q \in [0 .. n -> Reading] /\ \A i \in 0 .. n : q[i] = r[i]
  BY <1>0, <1>2 DEF UpTo
<1> HIDE DEF t, q
<1>4. \A i \in 1 .. n : Takes(M, q[i - 1], t[i], q[i])
  <2> TAKE i \in 1 .. n
  <2>1. i \in 1 .. Len(s) /\ i - 1 \in 0 .. n /\ i \in 0 .. n
    BY <1>0
  <2>2. q[i - 1] = r[i - 1] /\ q[i] = r[i] /\ t[i] = s[i]
    BY <2>1, <1>1, <1>3
  <2> QED
    BY <2>1, <2>2, <1>2
<1>5. ReadsOn(M, t, q)
  BY <1>1, <1>3, <1>4 DEF ReadsOn
<1> QED
  BY <1>1, <1>3, <1>5 DEF t, q

\* What is left of a stream that is cut off anywhere.
LEMMA CutOffItems ==
  ASSUME NEW s \in Seq(Item), NEW t \in CutOff(s)
  PROVE  /\ t \in Seq(Item) /\ Len(t) <= Len(s)
         /\ \A i \in 1 .. Len(t) : /\ s[i] \in Https => t[i] = s[i]
                                   /\ s[i] \in Frame => t[i] \in Frame
<1>0. Len(s) \in Nat /\ \A i \in 1 .. Len(s) : s[i] \in Item
  OBVIOUS
<1>1. ASSUME NEW n \in 0 .. Len(s)
      PROVE  /\ SubSeq(s, 1, n) \in Seq(Item) /\ Len(SubSeq(s, 1, n)) = n
             /\ \A i \in 1 .. n : SubSeq(s, 1, n)[i] = s[i]
  <2>1. n \in Nat /\ \A i \in 1 .. n : s[i] \in Item
    BY <1>0
  <2> QED
    BY <2>1, SubSeqProperties
<1>2. CASE \E n \in 0 .. Len(s) : t = SubSeq(s, 1, n)
  <2>1. PICK n \in 0 .. Len(s) : t = SubSeq(s, 1, n)
    BY <1>2
  <2>2. t \in Seq(Item) /\ Len(t) = n /\ \A i \in 1 .. n : t[i] = s[i]
    BY <2>1, <1>1
  <2> QED
    BY <2>2, <1>0
<1>3. CASE \E n \in 1 .. Len(s) :
             /\ "b0" \in DOMAIN s[n]
             /\ t = Append(SubSeq(s, 1, n - 1), [s[n] EXCEPT !.bytes = @ - 1])
  <2>1. PICK n \in 1 .. Len(s) :
             /\ "b0" \in DOMAIN s[n]
             /\ t = Append(SubSeq(s, 1, n - 1), [s[n] EXCEPT !.bytes = @ - 1])
    BY <1>3
  <2>2. PICK k \in 0 .. Len(s) : k = n - 1
    BY <1>0
  <2> DEFINE g == [s[n] EXCEPT !.bytes = @ - 1]
             u == SubSeq(s, 1, k)
  <2>3. u \in Seq(Item) /\ Len(u) = k /\ \A i \in 1 .. k : u[i] = s[i]
    BY <1>1
  <2>4. s[n] \in Frame /\ s[n] \notin Https
    <3>1. \A h \in Https : "b0" \notin DOMAIN h
      BY DEF Https, Http
    <3>2. s[n] \in Https \cup Frame
      BY <1>0 DEF Item
    <3> QED
      BY <2>1, <3>1, <3>2
  <2>5. g \in Frame /\ g \in Item
    BY <2>4, TornReads DEF Item
  <2> HIDE DEF g, u
  <2>6. t = Append(u, g)
    BY <2>1, <2>2 DEF g, u
  <2>7. /\ t \in Seq(Item) /\ Len(t) = k + 1 /\ t[k + 1] = g
        /\ \A i \in 1 .. k : t[i] = u[i]
    BY <2>3, <2>5, <2>6, AppendProperties
  <2>8. k + 1 = n /\ \A i \in 1 .. n : i = n \/ i \in 1 .. k
    BY <1>0, <2>2
  <2>9. \A i \in 1 .. n : /\ s[i] \in Https => t[i] = s[i]
                          /\ s[i] \in Frame => t[i] \in Frame
    BY <2>3, <2>4, <2>5, <2>7, <2>8
  <2> QED
    BY <1>0, <2>7, <2>8, <2>9
<1> QED
  BY <1>2, <1>3 DEF CutOff

\* Reading ahead on what is left.
LEMMA ReadsOnCutOff ==
  ASSUME NEW M, NEW s \in Seq(Item), NEW r, ReadsOn(M, s, r),
         \A i \in 0 .. Len(s) : r[i].met # "torn", NEW t \in CutOff(s)
  PROVE  \E q :
           /\ ReadsOn(M, t, q) /\ q[0] = r[0]
           /\ \A i \in 0 .. Len(t) :
                q[i].met = "torn" \/ \E j \in 0 .. Len(s) : q[i] = r[j]
<1>0. Len(s) \in Nat /\ \A i \in 1 .. Len(s) : s[i] \in Item
  OBVIOUS
<1>1. CASE \E n \in 0 .. Len(s) : t = SubSeq(s, 1, n)
  <2>1. PICK n \in 0 .. Len(s) : t = SubSeq(s, 1, n)
    BY <1>1
  <2>2. t \in Seq(Item) /\ Len(t) = n /\ \A i \in 1 .. n : t[i] = s[i]
    BY <2>1, ReadsOnCut
  <2> DEFINE q == UpTo(r, n)
  <2>3. ReadsOn(M, t, q) /\ \A i \in 0 .. n : q[i] = r[i]
    <3>1. /\ ReadsOn(M, SubSeq(s, 1, n), UpTo(r, n))
          /\ \A i \in 0 .. n : UpTo(r, n)[i] = r[i]
      <4>1. ReadsOn(M, SubSeq(s, 1, n), UpTo(r, n))
        BY ReadsOnCut
      <4>2. \A i \in 0 .. n : UpTo(r, n)[i] = r[i]
        BY DEF UpTo
      <4> QED
        BY <4>1, <4>2
    <3> QED
      BY <2>1, <3>1, Zenon
  <2> HIDE DEF q
  <2>4. n \in Nat /\ n <= Len(s) /\ 0 .. n \subseteq 0 .. Len(s) /\ 0 \in 0 .. n
    BY <1>0
  <2> QED
    BY <2>2, <2>3, <2>4
<1>2. CASE \E n \in 1 .. Len(s) :
             /\ "b0" \in DOMAIN s[n]
             /\ t = Append(SubSeq(s, 1, n - 1), [s[n] EXCEPT !.bytes = @ - 1])
  <2>1. PICK n \in 1 .. Len(s) :
             /\ "b0" \in DOMAIN s[n]
             /\ t = Append(SubSeq(s, 1, n - 1), [s[n] EXCEPT !.bytes = @ - 1])
    BY <1>2
  <2>0. PICK k \in 0 .. Len(s) : k = n - 1
    BY <1>0
  <2> DEFINE g == [s[n] EXCEPT !.bytes = @ - 1]
             u == SubSeq(s, 1, k)
  <2>2. n \in Nat /\ n # 0 /\ n <= Len(s) /\ n = k + 1
    BY <1>0, <2>0
  <2>3. /\ u \in Seq(Item) /\ Len(u) = k
        /\ \A i \in 1 .. k : u[i] = s[i]
    BY <2>2, ReadsOnCut
  <2> DEFINE q == UpTo(r, k)
  <2>4. ReadsOn(M, u, q) /\ \A i \in 0 .. k : q[i] = r[i]
    BY <2>2, ReadsOnCut
  <2> HIDE DEF q
  <2>5. s[n] \in Frame
    <3>1. \A h \in Https : "b0" \notin DOMAIN h
      BY DEF Https, Http
    <3>2. s[n] \in Https \cup Frame
      BY <1>0 DEF Item
    <3> QED
      BY <2>1, <3>1, <3>2
  <2>6. g \in Frame /\ (Wanted(s[n]) = s[n].bytes => Wanted(g) # g.bytes)
    BY <2>5, TornReads
  <2>7. PICK y \in Reading : Takes(M, q[k], g, y)
                             /\ (y.met = "torn" \/ y = q[k])
    <3> DEFINE x == q[k]
    <3>1. x \in Reading /\ x = r[k]
      BY <2>2, <2>3, <2>4 DEF ReadsOn
    <3>2. CASE x.met # "none"
      BY <3>1, <3>2 DEF Takes
    <3>3. CASE x.met = "none" /\ Wanted(s[n]) = s[n].bytes
      <4>1. [x EXCEPT !.met = "torn"] \in Reading
            /\ [x EXCEPT !.met = "torn"].met = "torn"
        BY <3>1 DEF Reading
      <4>2. Takes(M, x, g, [x EXCEPT !.met = "torn"])
        BY <2>6, <3>3 DEF Takes
      <4> QED
        BY <4>1, <4>2
    <3>4. CASE x.met = "none" /\ Wanted(s[n]) # s[n].bytes
      <4>1. Takes(M, r[k], s[n], r[n])
        BY <2>0 DEF ReadsOn
      <4>2. s[n] \notin Https
        BY <2>1 DEF Https, Http
      <4>3. r[n] = [x EXCEPT !.met = "torn"]
        BY <3>1, <3>4, <4>1, <4>2 DEF Takes
      <4>4. r[n].met = "torn"
        BY <3>1, <4>3 DEF Reading
      <4> QED
        BY <4>4, <2>2
    <3> QED
      BY <3>2, <3>3, <3>4
  <2>8. g \in Item
    BY <2>6 DEF Item
  <2> HIDE DEF g, u
  <2>9. t = Append(u, g)
    BY <2>0, <2>1 DEF g, u
  <2>10. /\ t \in Seq(Item) /\ Len(t) = n /\ t[n] = g
         /\ \A i \in 1 .. k : t[i] = s[i]
    <3>1. /\ t \in Seq(Item) /\ Len(t) = k + 1 /\ t[k + 1] = g
          /\ \A i \in 1 .. k : t[i] = u[i]
      BY <2>3, <2>8, <2>9, AppendProperties
    <3> QED
      BY <2>2, <2>3, <3>1
  <2>11. PICK p :
           /\ ReadsOn(M, t, p)
           /\ \A i \in 0 .. k : p[i] = q[i]
           /\ p[n] = y
    <3>1. Takes(M, q[Len(u)], g, y) /\ n = Len(u) + 1
      BY <2>2, <2>3, <2>7
    <3> DEFINE p == More(q, n, y)
    <3>2. /\ ReadsOn(M, Append(u, g), p)
          /\ \A i \in 0 .. Len(u) : p[i] = q[i]
          /\ p[n] = y
      <4>1. u \in Seq(Item) /\ g \in Item /\ ReadsOn(M, u, q) /\ y \in Reading
        BY <2>3, <2>4, <2>8
      <4>2. ReadsOn(M, Append(u, g), p)
        BY <3>1, <4>1, ReadsOnAppend
      <4>3. \A i \in 0 .. Len(u) : p[i] = q[i]
        BY <3>1, <2>2, <2>3 DEF More
      <4>4. p[n] = y
        BY <3>1, <2>2 DEF More
      <4> QED
        BY <4>2, <4>3, <4>4
    <3> HIDE DEF p
    <3>3. k + 1 = n
      BY <2>2
    <3> QED
      BY <3>2, <3>3, <2>3, <2>9
  <2>14. \A i \in 0 .. n : i = n \/ (i \in 0 .. k /\ i \in 0 .. Len(s))
    BY <2>2
  <2>15. \A i \in 0 .. Len(t) :
           p[i].met = "torn" \/ \E j \in 0 .. Len(s) : p[i] = r[j]
    <3> TAKE i \in 0 .. Len(t)
    <3>1. CASE i = n
      <4>1. p[i] = y /\ (y.met = "torn" \/ y = r[k])
        BY <3>1, <2>2, <2>4, <2>7, <2>11
      <4> QED
        BY <4>1, <2>2
    <3>2. CASE i # n
      <4>1. i \in 0 .. k /\ i \in 0 .. Len(s)
        BY <3>2, <2>10, <2>14
      <4>2. p[i] = r[i]
        BY <4>1, <2>4, <2>11
      <4> QED
        BY <4>1, <4>2
    <3> QED
      BY <3>1, <3>2
  <2>16. p[0] = r[0]
    BY <2>2, <2>4, <2>11
  <2> QED
    BY <2>11, <2>15, <2>16
<1> QED
  BY <1>1, <1>2 DEF CutOff

\* What is known of an end's reading still holds when nothing changes for it
\* but that more has been sent.
LEMMA FollowsSame ==
  ASSUME NEW e \in Ends, Types, sent'[Peer(e)] \in Seq(Message), Follows(e),
         Reader(e)' => Reader(e), stream'[e] = stream[e],
         got'[e] = got[e], chunks'[e] = chunks[e],
         Extends(sent[Peer(e)], sent'[Peer(e)]),
         \A y \in Reading : Excused(e, y) => Excused(e, y)',
         Reaches(e)' => /\ Reaches(e)
                        /\ \A y \in Reading : Complete(e, y) => Complete(e, y)'
  PROVE  Follows(e)'
<1> SUFFICES ASSUME Reader(e)'
             PROVE  \E r : Foretold(e, r)'
  BY DEF Follows
<1>1. PICK r : Foretold(e, r)
  BY DEF Follows
<1>2. /\ sent[Peer(e)] \in Seq(Message) /\ stream[e] \in Seq(Item)
      /\ Len(stream[e]) \in Nat
  BY DEF Types, Ends, Peer
<1>3. ReadsOn(sent[Peer(e)], stream[e], r)
  BY <1>1 DEF Foretold
<1>4. ReadsOn(sent'[Peer(e)], stream[e], r)
  BY <1>2, <1>3, ReadsOnExtends
<1>5. \A i \in 0 .. Len(stream[e]) : r[i] \in Reading
  BY <1>3 DEF ReadsOn
<1>6. \A i \in 0 .. Len(stream[e]) : Excused(e, r[i])'
  BY <1>1, <1>5 DEF Foretold
<1>7. Reaches(e)' => Complete(e, r[Len(stream[e])])'
  BY <1>1, <1>2, <1>5 DEF Foretold
<1>8. Foretold(e, r)'
  BY <1>1, <1>4, <1>6, <1>7 DEF Foretold
<1> QED
  BY <1>8

\* ... and when an item is put on its stream which takes a reader who has all
\* that was sent before to all that is sent now.
LEMMA FollowsPut ==
  ASSUME NEW e \in Ends, Types, sent'[Peer(e)] \in Seq(Message), Follows(e),
         Reader(e)' => Reader(e), got'[e] = got[e], chunks'[e] = chunks[e],
         NEW f \in Item,
         stream'[e] = IF Reaches(e) THEN Append(stream[e], f) ELSE stream[e],
         Reaches(e)' => Reaches(e),
         Extends(sent[Peer(e)], sent'[Peer(e)]),
         \A y \in Reading : Excused(e, y) => Excused(e, y)',
         Reaches(e) => \A x \in Reading : x.met = "none" /\ Complete(e, x) =>
           \E y \in Reading : /\ Takes(sent'[Peer(e)], x, f, y)
                              /\ Excused(e, y)' /\ Complete(e, y)'
  PROVE  Follows(e)'
<1>1. CASE ~Reaches(e)
  BY <1>1, FollowsSame
<1>2. CASE Reaches(e)
  <2> SUFFICES ASSUME Reader(e)'
               PROVE  \E r : Foretold(e, r)'
    BY DEF Follows
  <2>1. PICK r : Foretold(e, r)
    BY DEF Follows
  <2> DEFINE s == stream[e]
             N == sent'[Peer(e)]
  <2>2. sent[Peer(e)] \in Seq(Message) /\ s \in Seq(Item) /\ Len(s) \in Nat
    BY DEF Types, Ends, Peer
  <2>3. ReadsOn(N, s, r)
    <3>1. ReadsOn(sent[Peer(e)], s, r)
      BY <2>1 DEF Foretold
    <3> QED
      BY <2>2, <3>1, ReadsOnExtends
  <2>4. \A i \in 0 .. Len(s) : r[i] \in Reading
    BY <2>3 DEF ReadsOn
  <2>5. \A i \in 0 .. Len(s) : Excused(e, r[i])'
    BY <2>1, <2>4 DEF Foretold
  <2>6. PICK y \in Reading : Takes(N, r[Len(s)], f, y) /\ Excused(e, y)'
                             /\ Complete(e, y)'
    <3>0. PICK i \in 0 .. Len(s) : i = Len(s)
      BY <2>2
    <3>1. PICK x \in Reading : x = r[i]
      BY <2>4
    <3>2. Complete(e, x) /\ Excused(e, x)'
      <4>1. Complete(e, x)
        BY <1>2, <2>1, <3>0, <3>1 DEF Foretold
      <4>2. Excused(e, r[i])'
        BY <2>5
      <4> QED
        BY <4>1, <4>2, <3>1
    <3>3. CASE x.met = "none"
      BY <1>2, <3>0, <3>1, <3>2, <3>3
    <3>4. CASE x.met # "none"
      <4>1. Takes(N, x, f, x) /\ Complete(e, x)'
        BY <3>4 DEF Takes, Complete
      <4> QED
        BY <4>1, <3>0, <3>1, <3>2
    <3> QED
      BY <3>3, <3>4
  <2>7. PICK n \in Nat : n = Len(s) + 1
    BY <2>2
  <2> DEFINE q == More(r, n, y)
             t == Append(s, f)
  <2>8. ReadsOn(N, t, q)
    <3> HIDE DEF q, t
    <3>1. ReadsOn(N, Append(s, f), More(r, n, y))
      BY <2>2, <2>3, <2>6, <2>7, ReadsOnAppend
    <3> QED
      BY <3>1 DEF q, t
  <2>9. /\ \A i \in 0 .. Len(s) : q[i] = r[i]
        /\ q[n] = y
    BY <2>2, <2>7 DEF More
  <2>10. Len(t) = n
    BY <2>2, <2>7, AppendProperties
  <2>11. stream'[e] = t
    BY <1>2
  <2> HIDE DEF q, t
  <2>12. \A i \in 0 .. n : i = n \/ i \in 0 .. Len(s)
    BY <2>2, <2>7
  <2>13. \A i \in 0 .. n : Excused(e, q[i])'
    <3> TAKE i \in 0 .. n
    <3>1. CASE i = n
      BY <3>1, <2>6, <2>9
    <3>2. CASE i \in 0 .. Len(s)
      <4>1. q[i] = r[i] /\ Excused(e, r[i])'
        BY <3>2, <2>5, <2>9
      <4> QED
        BY <4>1
    <3> QED
      BY <3>1, <3>2, <2>12
  <2>14. q[0] = [n |-> Len(got'[e]), part |-> chunks'[e], met |-> "none"]
    BY <2>1, <2>2, <2>9 DEF Foretold
  <2>15. Foretold(e, q)'
    BY <2>6, <2>8, <2>9, <2>10, <2>11, <2>13, <2>14 DEF Foretold
  <2> QED
    BY <2>15
<1> QED
  BY <1>1, <1>2

\* ... and when it has read the first item.
LEMMA FollowsRead ==
  ASSUME NEW e \in Ends, Types, NEW r, Foretold(e, r), stream[e] # <<>>,
         stream'[e] = Tail(stream[e]), sent' = sent,
         r[1] = [n |-> Len(got'[e]), part |-> chunks'[e], met |-> "none"],
         \A y \in Reading : Excused(e, y) => Excused(e, y)',
         Reaches(e)' => /\ Reaches(e)
                        /\ \A y \in Reading : Complete(e, y) => Complete(e, y)'
  PROVE  Follows(e)'
<1> DEFINE s == stream[e]
           t == Tail(s)
           M == sent[Peer(e)]
<1>1. s \in Seq(Item) /\ s # <<>>
  BY DEF Types
<1>2. PICK k \in Nat : k = Len(s) - 1
  <2>1. Len(s) \in Nat /\ Len(s) # 0
    BY <1>1, EmptySeq
  <2>2. Len(s) - 1 \in Nat
    BY <2>1
  <2> QED
    BY <2>2
<1> DEFINE q == Past(r, k)
<1>3. ReadsOn(M, s, r)
  BY DEF Foretold
<1>4. ReadsOn(M, t, q) /\ Len(t) = k
  <2> HIDE DEF q, s, M
  <2>1. k = Len(s) - 1 /\ s # <<>> /\ s \in Seq(Item)
    BY <1>1, <1>2
  <2>2. ReadsOn(M, Tail(s), Past(r, k)) /\ Len(Tail(s)) = k
    BY <2>1, <1>3, ReadsOnTail
  <2> QED
    BY <2>2 DEF q
<1>5. \A i \in 0 .. k : q[i] = r[i + 1]
  BY DEF Past
<1>6. k \in Nat /\ Len(s) = k + 1
  BY <1>1, <1>2
<1>7. \A i \in 0 .. k : r[i + 1] \in Reading /\ Excused(e, r[i + 1])
  <2>1. \A i \in 0 .. k + 1 : r[i] \in Reading
    BY <1>3, <1>6 DEF ReadsOn
  <2>2. \A i \in 0 .. k + 1 : Excused(e, r[i])
    BY <1>6 DEF Foretold
  <2> QED
    BY <2>1, <2>2, <1>6
<1> HIDE DEF q, t
<1>8. \A i \in 0 .. k : Excused(e, q[i])'
  BY <1>5, <1>7
<1>9. q[0] = r[1]
  BY <1>5, <1>6
<1>10. Reaches(e)' => Complete(e, q[k])'
  <2>1. q[k] = r[k + 1] /\ r[k + 1] \in Reading
    BY <1>5, <1>6, <1>7
  <2>2. Reaches(e) => Complete(e, r[k + 1])
    BY <1>6 DEF Foretold
  <2> QED
    BY <2>1, <2>2
<1>11. stream'[e] = t
  BY DEF t
<1>12. Foretold(e, q)'
  BY <1>4, <1>8, <1>9, <1>10, <1>11 DEF Foretold
<1> QED
  BY <1>12 DEF Follows

-----------------------------------------------------------------------------
(***************************************************************************)
(* What a step of recv finds, and what a send does                         *)
(***************************************************************************)

LEMMA Opcodes ==
  /\ OP_CONT = 0 /\ OP_TEXT = 1 /\ OP_BINARY = 2
  /\ OP_CLOSE = 8 /\ OP_PING = 9 /\ OP_PONG = 10
  /\ ValidOpcodes = {0, 1, 2, 8, 9, 10} /\ ControlOpcodes = {8, 9, 10}
BY DEF OP_CONT, OP_TEXT, OP_BINARY, OP_CLOSE, OP_PING, OP_PONG, ValidOpcodes,
       ControlOpcodes

LEMMA MessageFacts ==
  /\ \A m \in Messages : m \in Message /\ m.parts # <<>>
  /\ \A m \in Message : /\ m.opcode \in {OP_TEXT, OP_BINARY}
                        /\ m.parts \in Seq(Texts) /\ m # NoMessage
                        /\ \A i \in DOMAIN m.parts : m.parts[i] # Undecodable
  /\ NoMessage.opcode = OP_CONT /\ NoMessage.parts = <<>>
  /\ [opcode |-> OP_TEXT, parts |-> Announcement] \in Message
<1>1. \A m \in Message : m.opcode \in {OP_TEXT, OP_BINARY} /\ m.parts \in Seq(Texts)
  BY DEF Message
<1>2. \A m \in Message : m # NoMessage
  BY <1>1, Opcodes DEF NoMessage
<1>3. \A m \in Message : \A i \in DOMAIN m.parts : m.parts[i] # Undecodable
  BY <1>1, WebSocketAssumption
<1>4. \A m \in Messages : m \in Message /\ m.parts # <<>>
  BY WebSocketAssumption DEF Message
<1>5. [opcode |-> OP_TEXT, parts |-> Announcement] \in Message
  BY WebSocketAssumption DEF Message
<1> QED
  BY <1>1, <1>2, <1>3, <1>4, <1>5 DEF NoMessage

\* recv refuses a frame only if the other end has broken the protocol, takes
\* Close for Close, and puts a message together as it was sent.
RecvFinds(e, y) ==
  LET f == NextFrame(e)
  IN  \/ BadFrame(e) /\ y.met = "wrong"
      \/ /\ ~BadFrame(e) /\ Opcode(f) = OP_CLOSE
         /\ y.met = "close" /\ y.n = Len(got[e])
      \/ /\ ~BadFrame(e) /\ Opcode(f) \in {OP_PING, OP_PONG}
         /\ Payload(f).text = <<>>
         /\ y = [n |-> Len(got[e]), part |-> chunks[e], met |-> "none"]
      \/ /\ ~BadFrame(e) /\ Opcode(f) \in {OP_TEXT, OP_BINARY} /\ ~Fin(f)
         /\ Collected(e) \in Message
         /\ y = [n |-> Len(got[e]), part |-> Collected(e), met |-> "none"]
      \/ /\ ~BadFrame(e) /\ Opcode(f) \in {OP_CONT, OP_TEXT, OP_BINARY} /\ Fin(f)
         /\ Len(got[e]) < Len(sent[Peer(e)])
         /\ Collected(e) = sent[Peer(e)][Len(got[e]) + 1]
         /\ y = [n |-> Len(got[e]) + 1, part |-> NoMessage, met |-> "none"]

LEMMA ReadsFirst ==
  ASSUME NEW e \in Ends, Types, Stages, Follows(e), Reads(e)
  PROVE  \E r : /\ Foretold(e, r) /\ r[1] \in Reading
                /\ Excused(e, r[1]) /\ RecvFinds(e, r[1])
<1>0. stream[e] \in Seq(Item) /\ stream[e] # <<>> /\ 1 \in 1 .. Len(stream[e])
      /\ 1 \in 0 .. Len(stream[e]) /\ 0 \in 0 .. Len(stream[e])
  <2>1. stream[e] \in Seq(Item) /\ stream[e] # <<>>
    BY DEF Types, Reads
  <2>2. Len(stream[e]) \in Nat /\ Len(stream[e]) # 0
    BY <2>1, EmptySeq
  <2> QED
    BY <2>1, <2>2
<1>1. PICK r : Foretold(e, r)
  BY DEF Follows, Reader, Reads
<1> DEFINE f == NextFrame(e)
           x == r[0]
           y == r[1]
           M == sent[Peer(e)]
<1>2. f = stream[e][1] /\ f \in Frame /\ Wanted(f) = f.bytes
  <2>1. AllIn(stream[e], Frame)
    BY DEF Stages, Reads, Ends
  <2> QED
    BY <1>0, <2>1 DEF NextFrame, Reads, AllIn
<1>3. x \in Reading /\ y \in Reading /\ Takes(M, x, f, y) /\ Excused(e, y)
  <2>1. ReadsOn(M, stream[e], r)
    BY <1>1 DEF Foretold
  <2>2. x \in Reading /\ y \in Reading
    BY <2>1, <1>0 DEF ReadsOn
  <2>3. Takes(M, r[1 - 1], stream[e][1], r[1])
    BY <2>1, <1>0 DEF ReadsOn
  <2>4. Excused(e, y)
    BY <1>0, <1>1 DEF Foretold
  <2> QED
    BY <2>2, <2>3, <2>4, <1>2
<1>4. x = [n |-> Len(got[e]), part |-> chunks[e], met |-> "none"]
  BY <1>1 DEF Foretold
<1>5. f \notin Https
  BY <1>2 DEF Https, Http, Frame
<1>6. Understood(M, x, f, y)
  BY <1>2, <1>3, <1>4, <1>5 DEF Takes
<1>7. /\ chunks[e] \in Message \cup {NoMessage} /\ got[e] \in Seq(Message)
      /\ M \in Seq(Message) /\ Len(got[e]) \in Nat
  BY DEF Types, Ends, Peer
<1>8. Payload(f).under = NoKey => Collected(e) = Joined(x, f)
  BY <1>4 DEF Collected, Joined, NextFrame
<1>9. chunks[e].parts \in Seq(Texts)
  <2>1. <<>> \in Seq(Texts)
    OBVIOUS
  <2> QED
    BY <2>1, <1>7, MessageFacts
<1> HIDE DEF f
<1>10. BadFrame(e) <=>
         \/ Refused(f)
         \/ Opcode(f) = OP_CONT /\ chunks[e] = NoMessage
         \/ /\ Opcode(f) \in {OP_CONT, OP_TEXT, OP_BINARY} /\ Fin(f)
            /\ Collected(e).opcode = OP_TEXT
            /\ \E i \in DOMAIN Collected(e).parts :
                 Collected(e).parts[i] = Undecodable
  BY DEF BadFrame, f
<1>11. ASSUME Bad(x, f), y = [x EXCEPT !.met = "wrong"]
       PROVE  RecvFinds(e, y)
  <2>1. y.met = "wrong"
    BY <1>3, <1>11 DEF Reading
  <2>2. CASE Refused(f)
    BY <2>1, <2>2, <1>10 DEF RecvFinds
  <2>3. CASE Opcode(f) = OP_CONT /\ x.part = NoMessage
    BY <2>1, <2>3, <1>4, <1>10 DEF RecvFinds
  <2>4. CASE /\ Opcode(f) = OP_TEXT /\ Fin(f)
             /\ Payload(f).text = <<Undecodable>> /\ Payload(f).under = NoKey
    <3>1. Collected(e).opcode = OP_TEXT
          /\ Collected(e).parts = chunks[e].parts \o <<Undecodable>>
      BY <2>4, <1>4, <1>8, Opcodes DEF Joined
    <3>2. /\ chunks[e].parts \in Seq(Texts \cup {Undecodable})
          /\ <<Undecodable>> \in Seq(Texts \cup {Undecodable})
          /\ Len(<<Undecodable>>) = 1
      BY <1>9, SeqMonotonic
    <3>3. PICK n \in Nat : n = Len(chunks[e].parts) + 1
      BY <1>9
    <3>4. n \in DOMAIN Collected(e).parts /\ Collected(e).parts[n] = Undecodable
      BY <3>1, <3>2, <3>3, ConcatProperties
    <3>5. BadFrame(e)
      BY <3>1, <3>4, <2>4, <1>10
    <3> QED
      BY <3>5, <2>1 DEF RecvFinds
  <2> QED
    BY <1>11, <2>2, <2>3, <2>4 DEF Bad
<1>12. ASSUME ~Refused(f), Opcode(f) = OP_CLOSE, y = [x EXCEPT !.met = "close"]
       PROVE  RecvFinds(e, y)
  <2>1. y.met = "close" /\ y.n = Len(got[e])
    BY <1>4, <1>12
  <2>2. ~BadFrame(e)
    BY <1>10, <1>12, Opcodes
  <2> QED
    BY <2>1, <2>2, <1>12 DEF RecvFinds, f
<1>13. ASSUME ~Refused(f), Opcode(f) \in {OP_PING, OP_PONG},
              Payload(f).text = <<>>, y = x
       PROVE  RecvFinds(e, y)
  <2>1. ~BadFrame(e)
    BY <1>10, <1>13, Opcodes
  <2> QED
    BY <2>1, <1>4, <1>13 DEF RecvFinds, f
<1>14. ASSUME DataFrame(f), ~Fin(f), Opcode(f) # OP_CONT, x.part = NoMessage,
              y = [x EXCEPT !.part = Joined(x, f)]
       PROVE  RecvFinds(e, y)
  <2>1. ~BadFrame(e)
    BY <1>10, <1>14 DEF DataFrame
  <2>2. y = [n |-> Len(got[e]), part |-> Collected(e), met |-> "none"]
    BY <1>4, <1>8, <1>14 DEF DataFrame
  <2>3. Collected(e) \in Message
    <3>1. Collected(e) \in Message \cup {NoMessage}
      BY <2>2, <1>3 DEF Reading
    <3>2. Collected(e).opcode # OP_CONT
      BY <1>8, <1>14 DEF Joined, DataFrame
    <3> QED
      BY <3>1, <3>2, MessageFacts
  <2> QED
    BY <2>1, <2>2, <2>3, <1>14 DEF RecvFinds, DataFrame, f
<1>15. ASSUME DataFrame(f), Fin(f), Opcode(f) = OP_CONT <=> x.part # NoMessage,
              x.n < Len(M), M[x.n + 1] = Joined(x, f),
              y = [x EXCEPT !.n = @ + 1, !.part = NoMessage]
       PROVE  RecvFinds(e, y)
  <2>1. Collected(e) = M[Len(got[e]) + 1] /\ Len(got[e]) < Len(M)
    BY <1>4, <1>8, <1>15 DEF DataFrame
  <2>2. Collected(e) \in Message
    BY <2>1, <1>7
  <2>3. ~BadFrame(e)
    BY <2>2, <1>4, <1>10, <1>15, MessageFacts DEF DataFrame
  <2>4. y = [n |-> Len(got[e]) + 1, part |-> NoMessage, met |-> "none"]
    <3>1. y = [n |-> x.n + 1, part |-> NoMessage, met |-> x.met]
      BY <1>3, <1>15 DEF Reading
    <3> QED
      BY <3>1, <1>4
  <2> QED
    BY <2>1, <2>3, <2>4, <1>15 DEF RecvFinds, DataFrame, f
<1>16. RecvFinds(e, y)
  <2> HIDE DEF x, y, M
  <2> QED
    BY <1>6, <1>11, <1>12, <1>13, <1>14, <1>15 DEF Understood
<1> QED
  BY <1>1, <1>3, <1>16

\* sendall.
LEMMA PutEffect ==
  ASSUME Types, NEW e \in Ends, NEW f \in Item, Put(e, f)
  PROVE  /\ stream' \in [Ends -> Seq(Item)]
         /\ stream'[e] = stream[e]
         /\ stream'[Peer(e)] = IF Reaches(Peer(e)) THEN Append(stream[Peer(e)], f)
                               ELSE stream[Peer(e)]
<1>1. Peer(e) \in Ends /\ Peer(e) # e /\ stream \in [Ends -> Seq(Item)]
  BY DEF Types, Ends, Peer
<1> QED
  BY <1>1 DEF Put

LEMMA EndsFacts ==
  /\ Ends = {"client", "server"} /\ "client" # "server"
  /\ Peer("client") = "server" /\ Peer("server") = "client"
  /\ \A e \in Ends : Peer(e) \in Ends /\ Peer(Peer(e)) = e /\ Peer(e) # e
BY DEF Ends, Peer

\* What a sender's frames are on the stream.
LEMMA WrittenItem ==
  ASSUME NEW f, NEW opcode, NEW m, Written(f, opcode, m)
  PROVE  f \in Item /\ f \in Frame /\ f \notin Https
<1>1. f \in Frame /\ f \notin Https
  BY DEF Written, Frame, Https, Http
<1> QED
  BY <1>1 DEF Item

-----------------------------------------------------------------------------
(***************************************************************************)
(* Every step keeps the types                                              *)
(***************************************************************************)

Stream == [Ends -> Seq(Item)]

LEMMA StreamFacts ==
  ASSUME Types
  PROVE  /\ \A e \in Ends : [stream EXCEPT ![e] = <<>>] \in Stream
         /\ \A e \in Ends : stream[e] # <<>> =>
              [stream EXCEPT ![e] = Tail(@)] \in Stream
         /\ \A e \in Ends, f \in Item : Put(e, f) => stream' \in Stream
         /\ \A block \in {"upgrade", "other", "switch"} :
              Http(block) \in Item /\ Http(block) \in Https
<1>1. stream \in [Ends -> Seq(Item)] /\ <<>> \in Seq(Item)
  BY DEF Types
<1>2. \A e \in Ends : stream[e] # <<>> => Tail(stream[e]) \in Seq(Item)
  <2> TAKE e \in Ends
  <2>1. stream[e] \in Seq(Item)
    BY <1>1
  <2> QED
    BY <2>1, HeadTailProperties
<1>3. \A e \in Ends, f \in Item : Put(e, f) => stream' \in Stream
  BY PutEffect DEF Stream
<1>4. \A block \in {"upgrade", "other", "switch"} :
        Http(block) \in Item /\ Http(block) \in Https
  BY DEF Item, Https
<1> QED
  BY <1>1, <1>2, <1>3, <1>4 DEF Stream

Ats == [Ends -> {"tls", "secure", "handshake", "asked", "open", "raised",
                 "closed", "left", "done"}]

LEMMA ConnectTypes ==
  ASSUME Types, Secure \/ TlsFails \/ Request \/ Opened
  PROVE  Types'
<1>1. stream' \in Stream
  <2>1. CASE Secure \/ TlsFails
    BY <2>1 DEF Secure, TlsFails, Types, Stream
  <2>2. CASE Request
    <3>1. PICK block \in {"upgrade", "other", "switch"} : Put("client", Http(block))
      BY <2>2 DEF Request
    <3> QED
      BY <3>1, StreamFacts, EndsFacts
  <2>3. CASE Opened
    BY <2>3, StreamFacts, EndsFacts DEF Opened
  <2> QED
    BY <2>1, <2>2, <2>3
<1>2. at' \in Ats /\ at'["client"] \notin {"handshake", "done"}
      /\ at'["server"] \notin {"secure", "asked", "closed", "left"}
  BY EndsFacts DEF Types, Secure, TlsFails, Request, Opened, Ats
<1>3. socket' \in [Ends -> BOOLEAN]
  BY DEF Types, Secure, TlsFails, Request, Opened
<1>4. UNCHANGED <<foreign, closed, chunks, passed, client, broken, history>>
  BY DEF Secure, TlsFails, Request, Opened
<1> QED
  BY <1>1, <1>2, <1>3, <1>4 DEF Types, Ats, Stream, client, history

LEMMA ClientTypes ==
  ASSUME Types, Client
  PROVE  Types'
<1>1. ASSUME NEW m \in Messages, NEW f \in Frames("client", m.opcode, m.parts)
      PROVE  f \in Item
  <2>1. m.opcode \in ValidOpcodes /\ m.opcode \notin ControlOpcodes
        /\ m.parts \in Seq(Texts)
    BY MessageFacts, Opcodes
  <2> QED
    BY <2>1, FramesWritten, WrittenItem, EndsFacts
<1>2. ASSUME NEW m \in Message, m.parts # <<>>
      PROVE  \A f \in Frames("client", m.opcode, <<Head(m.parts)>>) :
               Unfinished(f) \in Item
  <2>1. m.opcode \in ValidOpcodes /\ m.opcode \notin ControlOpcodes
        /\ m.opcode \in {OP_TEXT, OP_BINARY} /\ m.parts \in Seq(Texts)
    BY MessageFacts, Opcodes
  <2>2. <<Head(m.parts)>> \in Seq(Texts)
    BY <1>2, <2>1
  <2> TAKE f \in Frames("client", m.opcode, <<Head(m.parts)>>)
  <2>3. Written(f, m.opcode, <<Head(m.parts)>>)
    BY <2>1, <2>2, FramesWritten, EndsFacts
  <2> QED
    BY <2>1, <2>3, UnfinishedReads DEF Item
<1>3. CASE Send
  <2>1. PICK m \in Messages :
       \/ /\ \E f \in Frames("client", m.opcode, m.parts) : Put("client", f)
          /\ sent' = IF wrong THEN sent
                     ELSE [sent EXCEPT !["client"] = Append(@, m)]
          /\ rest' = rest
       \/ /\ foreign /\ Len(m.parts) > 1 /\ ~wrong
          /\ \E f \in Frames("client", m.opcode, <<Head(m.parts)>>) :
               Put("client", Unfinished(f))
          /\ rest' = <<m>>
          /\ sent' = sent
    BY <1>3 DEF Send
  <2>2. m \in Message /\ m.parts # <<>>
    BY MessageFacts
  <2>3. stream' \in Stream
    <3>1. \E f \in Item : Put("client", f)
      BY <2>1, <2>2, <1>1, <1>2
    <3> QED
      BY <3>1, StreamFacts, EndsFacts
  <2>4. sent' \in [Ends -> Seq(Message)]
    <3>1. sent \in [Ends -> Seq(Message)]
      BY DEF Types
    <3>2. Append(sent["client"], m) \in Seq(Message)
      BY <2>2, <3>1, EndsFacts
    <3> QED
      BY <2>1, <3>1, <3>2
  <2>5. /\ rest' \in Seq(Message) /\ Len(rest') <= 1
        /\ rest' # <<>> => Len(rest'[1].parts) > 1
        /\ wrong => rest' = <<>>
    <3>1. CASE rest' = rest
      BY <3>1, <1>3 DEF Types, Send
    <3>2. CASE rest' = <<m>> /\ Len(m.parts) > 1 /\ ~wrong
      BY <3>2, <2>2
    <3> QED
      BY <2>1, <3>1, <3>2
  <2>6. controls' \in 0 .. MaxControls
    BY <1>3, WebSocketAssumption DEF Send, Types
  <2>7. UNCHANGED <<foreign, local, passed, wrong, broken, got>>
    BY <1>3 DEF Send
  <2> QED
    BY <2>3, <2>4, <2>5, <2>6, <2>7 DEF Types, Stream, local
<1>4. CASE SendLast
  <2>1. rest[1] \in Message /\ rest # <<>> /\ Tail(rest[1].parts) \in Seq(Texts)
        /\ rest[1].opcode \in {OP_TEXT, OP_BINARY}
    <3>1. rest[1] \in Message /\ rest # <<>> /\ Len(rest[1].parts) > 1
      BY <1>4 DEF SendLast, Types
    <3>2. rest[1].parts \in Seq(Texts) /\ rest[1].parts # <<>>
      BY <3>1, MessageFacts
    <3>3. Tail(rest[1].parts) \in Seq(Texts)
      BY <3>2, HeadTailProperties
    <3> QED
      BY <3>1, <3>3, MessageFacts
  <2>2. stream' \in Stream
    <3>1. PICK f \in Frames("client", OP_CONT, Tail(rest[1].parts)) : Put("client", f)
      BY <1>4 DEF SendLast
    <3>2. OP_CONT \in ValidOpcodes /\ OP_CONT \notin ControlOpcodes
      BY Opcodes
    <3>3. Written(f, OP_CONT, Tail(rest[1].parts))
      BY <2>1, <3>1, <3>2, FramesWritten, EndsFacts
    <3>4. f \in Item
      BY <3>3, WrittenItem
    <3> QED
      BY <3>1, <3>4, StreamFacts, EndsFacts
  <2>3. sent' \in [Ends -> Seq(Message)]
    <3>1. sent \in [Ends -> Seq(Message)]
      BY DEF Types
    <3>2. Append(sent["client"], rest[1]) \in Seq(Message)
      BY <2>1, <3>1, EndsFacts
    <3> QED
      BY <1>4, <3>1, <3>2 DEF SendLast
  <2>4. rest' = <<>>
    BY <1>4 DEF SendLast
  <2>5. UNCHANGED <<foreign, local, passed, controls, wrong, broken, got>>
    BY <1>4 DEF SendLast
  <2> QED
    BY <2>2, <2>3, <2>4, <2>5 DEF Types, Stream, local
<1>5. CASE SendControl
  <2>1. PICK opcode \in {OP_PING, OP_PONG} :
          \E f \in Frames("client", opcode, <<>>) : Put("client", f)
    BY <1>5 DEF SendControl
  <2>2. opcode \in ValidOpcodes /\ <<>> \in Seq(Texts)
    BY Opcodes
  <2>3. \A f \in Frames("client", opcode, <<>>) : f \in Item
    BY <2>2, FramesWritten, WrittenItem, EndsFacts
  <2>4. stream' \in Stream
    BY <2>1, <2>3, StreamFacts, EndsFacts
  <2>5. controls' \in 0 .. MaxControls
    BY <1>5, WebSocketAssumption DEF SendControl, Types
  <2>6. UNCHANGED <<foreign, local, passed, rest, wrong, broken, history>>
    BY <1>5 DEF SendControl
  <2> QED
    BY <2>4, <2>5, <2>6 DEF Types, Stream, local, history
<1>6. CASE SendWrong
  <2>1. PICK f \in WrongFrames : Put("client", f)
    BY <1>6 DEF SendWrong
  <2>2. f \in Item
    BY WrongReads DEF Item
  <2>3. stream' \in Stream
    BY <2>1, <2>2, StreamFacts, EndsFacts
  <2>4. UNCHANGED <<foreign, local, passed, controls, broken, history>>
        /\ wrong' = TRUE /\ rest' = <<>>
    BY <1>6 DEF SendWrong
  <2> QED
    BY <2>3, <2>4 DEF Types, Stream, local, history
<1>7. CASE Close
  <2>1. PICK f \in Frames("client", OP_CLOSE, <<>>) :
          stream' = [client |-> IF foreign THEN stream["client"] ELSE <<>>,
                     server |-> IF Reaches("server")
                                THEN Append(stream["server"], f)
                                ELSE stream["server"]]
    BY <1>7 DEF Close
  <2>2. f \in Item
    <3>1. OP_CLOSE \in ValidOpcodes /\ <<>> \in Seq(Texts)
      BY Opcodes
    <3> QED
      BY <3>1, FramesWritten, WrittenItem, EndsFacts
  <2>3. stream' \in Stream
    <3>1. /\ stream["client"] \in Seq(Item) /\ <<>> \in Seq(Item)
          /\ stream["server"] \in Seq(Item) /\ Append(stream["server"], f) \in Seq(Item)
      BY <2>2 DEF Types, Ends
    <3>2. PICK a \in Seq(Item), b \in Seq(Item) : stream' = [client |-> a, server |-> b]
      BY <2>1, <3>1
    <3> QED
      BY <3>2 DEF Stream, Ends
  <2>4. /\ at' \in Ats /\ at'["client"] = "closed" /\ at'["server"] = at["server"]
        /\ socket' \in [Ends -> BOOLEAN] /\ closed' \in [Ends -> BOOLEAN]
    BY <1>7, EndsFacts DEF Close, Types, Ats
  <2>5. UNCHANGED <<foreign, chunks, passed, client, broken, history>>
    BY <1>7 DEF Close
  <2> QED
    BY <2>3, <2>4, <2>5 DEF Types, Stream, Ats, client, history
<1>8. CASE Exit
  <2>1. stream' \in Stream /\ socket' \in [Ends -> BOOLEAN]
    BY <1>8, StreamFacts, EndsFacts DEF Exit, CloseSocket, Types
  <2>2. at' \in Ats /\ at'["client"] \in {"closed", "left"}
        /\ at'["server"] = at["server"]
    BY <1>8, EndsFacts DEF Exit, Types, Ats
  <2>3. UNCHANGED <<foreign, closed, chunks, passed, client, broken, history>>
    BY <1>8 DEF Exit
  <2> QED
    BY <2>1, <2>2, <2>3 DEF Types, Stream, Ats, client, history
<1> QED
  BY <1>3, <1>4, <1>5, <1>6, <1>7, <1>8 DEF Client

LEMMA RecvTypes ==
  ASSUME Types, Stages, NEW e \in Ends, Received(e), Follows(e), Recv(e)
  PROVE  Types'
<1>0. stream[e] # <<>> => [stream EXCEPT ![e] = Tail(@)] \in Stream
  BY StreamFacts
<1>1. ASSUME Reads(e), at' = [at EXCEPT ![e] = "raised"]
      PROVE  /\ at' \in Ats /\ at'["client"] \notin {"handshake", "done"}
             /\ at'["server"] \notin {"secure", "asked", "closed", "left"}
  BY <1>1, EndsFacts DEF Types, Ats
<1>2. CASE RecvRefuses(e)
  <2>1. stream' \in Stream
    BY <1>0, <1>2 DEF RecvRefuses, Reads, Take
  <2>2. UNCHANGED <<foreign, closed, socket, chunks, passed, client, broken, history>>
    BY <1>2 DEF RecvRefuses
  <2>3. /\ at' \in Ats /\ at'["client"] \notin {"handshake", "done"}
        /\ at'["server"] \notin {"secure", "asked", "closed", "left"}
    BY <1>1, <1>2 DEF RecvRefuses
  <2> QED
    BY <2>1, <2>2, <2>3 DEF Types, Stream, Ats, client, history
<1>3. CASE RecvControl(e)
  <2>1. PICK r : Foretold(e, r) /\ RecvFinds(e, r[1])
    BY <1>3, ReadsFirst DEF RecvControl
  <2>2. Payload(NextFrame(e)).text = <<>>
    BY <1>3, <2>1, Opcodes DEF RecvFinds, RecvControl
  <2>3. \A f \in Frames(e, OP_PONG, Payload(NextFrame(e)).text) : f \in Item
    <3>1. OP_PONG \in ValidOpcodes /\ <<>> \in Seq(Texts)
      BY Opcodes
    <3> QED
      BY <2>2, <3>1, FramesWritten, WrittenItem
  <2>4. stream' \in Stream
    <3>1. stream[e] # <<>> /\ stream \in [Ends -> Seq(Item)] /\ Peer(e) \in Ends
          /\ Peer(e) # e
      BY <1>3, EndsFacts DEF RecvControl, Reads, Types
    <3>2. \A f \in Item : Append(stream[Peer(e)], f) \in Seq(Item)
      BY <3>1
    <3>3. Tail(stream[e]) \in Seq(Item)
      BY <3>1, HeadTailProperties
    <3>4. CASE stream' = [stream EXCEPT ![e] = Tail(@)]
      BY <3>4, <3>1, <1>0
    <3>5. CASE \E f \in Frames(e, OP_PONG, Payload(NextFrame(e)).text) :
                stream' = [stream EXCEPT ![e] = Tail(@), ![Peer(e)] = Append(@, f)]
      BY <3>5, <2>3, <3>1, <3>2, <3>3 DEF Stream
    <3> QED
      BY <1>3, <3>4, <3>5 DEF RecvControl, Take
  <2>5. UNCHANGED <<foreign, local, passed, client, broken, history>>
    BY <1>3 DEF RecvControl
  <2> QED
    BY <2>4, <2>5 DEF Types, Stream, local, client, history
<1>4. CASE RecvClose(e)
  <2>1. stream' \in Stream
    BY <1>0, <1>4 DEF RecvClose, Reads, Take
  <2>2. UNCHANGED <<foreign, socket, chunks, passed, client, broken, history>>
        /\ closed' \in [Ends -> BOOLEAN]
    BY <1>4 DEF RecvClose, Types
  <2>3. /\ at' \in Ats /\ at'["client"] \notin {"handshake", "done"}
        /\ at'["server"] \notin {"secure", "asked", "closed", "left"}
    BY <1>1, <1>4 DEF RecvClose
  <2> QED
    BY <2>1, <2>2, <2>3 DEF Types, Stream, Ats, client, history
<1>5. CASE RecvData(e)
  <2>1. PICK r : Foretold(e, r) /\ RecvFinds(e, r[1])
    BY <1>5, ReadsFirst DEF RecvData
  <2>2. stream' \in Stream
    BY <1>0, <1>5 DEF RecvData, Reads, Take
  <2>3. Collected(e) \in Message
    <3>1. \/ Collected(e) \in Message
          \/ Len(got[e]) < Len(sent[Peer(e)])
             /\ Collected(e) = sent[Peer(e)][Len(got[e]) + 1]
      BY <1>5, <2>1, Opcodes DEF RecvFinds, RecvData
    <3>2. sent[Peer(e)] \in Seq(Message) /\ got[e] \in Seq(Message)
      BY EndsFacts DEF Types
    <3> QED
      BY <3>1, <3>2
  <2>4. chunks' \in [Ends -> Message \cup {NoMessage}]
    BY <1>5, <2>3 DEF RecvData, Types
  <2>5. got' \in [Ends -> Seq(Message)]
    <3>1. got \in [Ends -> Seq(Message)] /\ Append(got[e], Collected(e)) \in Seq(Message)
      BY <2>3 DEF Types
    <3> QED
      BY <1>5, <3>1 DEF RecvData
  <2>6. UNCHANGED <<foreign, at, closed, socket, passed, client, broken, sent>>
    BY <1>5 DEF RecvData
  <2> QED
    BY <2>2, <2>4, <2>5, <2>6 DEF Types, Stream, client
<1>6. CASE StreamEnds(e)
  <2>1. /\ at' \in Ats /\ at'["client"] \notin {"handshake", "done"}
        /\ at'["server"] \notin {"secure", "asked", "closed", "left"}
    BY <1>6, EndsFacts DEF StreamEnds, Types, Ats
  <2>2. UNCHANGED <<foreign, closed, socket, chunks, stream, passed, client, broken,
                    history>>
    BY <1>6 DEF StreamEnds
  <2> QED
    BY <2>1, <2>2 DEF Types, Ats, client, history
<1> QED
  BY <1>2, <1>3, <1>4, <1>5, <1>6 DEF Recv

LEMMA OtherTypes ==
  ASSUME Types, Upgrade \/ RefuseUpgrade \/ ServeEnds \/ PassTest \/ WriteOut \/ Break
  PROVE  Types'
<1>0. stream \in [Ends -> Seq(Item)] /\ at \in Ats
  BY DEF Types, Ats
<1>1. CASE Upgrade
  <2>1. stream' \in Stream
    <3>1. Tail(stream["server"]) \in Seq(Item)
      BY <1>0, <1>1, HeadTailProperties, EndsFacts DEF Upgrade
    <3>2. /\ Append(stream["client"], Http("switch")) \in Seq(Item)
          /\ stream["client"] \in Seq(Item)
      BY <1>0, StreamFacts, EndsFacts
    <3>3. stream' = [stream EXCEPT
                       !["server"] = Tail(@),
                       !["client"] = IF Reaches("client")
                                     THEN Append(@, Http("switch")) ELSE @]
      BY <1>1 DEF Upgrade
    <3> QED
      BY <1>0, <3>1, <3>2, <3>3, EndsFacts DEF Stream
  <2>2. at' \in Ats /\ at'["client"] = at["client"] /\ at'["server"] = "open"
    BY <1>0, <1>1, EndsFacts DEF Upgrade, Ats
  <2>3. UNCHANGED <<foreign, closed, socket, chunks, passed, client, broken, history>>
    BY <1>1 DEF Upgrade
  <2> QED
    BY <2>1, <2>2, <2>3 DEF Types, Stream, Ats, client, history
<1>2. CASE RefuseUpgrade
  <2>1. stream' \in Stream
    BY <1>2, StreamFacts, EndsFacts DEF RefuseUpgrade
  <2>2. at' \in Ats /\ at'["client"] = at["client"] /\ at'["server"] = "raised"
    BY <1>0, <1>2, EndsFacts DEF RefuseUpgrade, Ats
  <2>3. UNCHANGED <<foreign, closed, socket, chunks, passed, client, broken, history>>
    BY <1>2 DEF RefuseUpgrade
  <2> QED
    BY <2>1, <2>2, <2>3 DEF Types, Stream, Ats, client, history
<1>3. CASE ServeEnds
  <2>1. stream' \in Stream /\ socket' \in [Ends -> BOOLEAN]
    BY <1>3, StreamFacts, EndsFacts DEF ServeEnds, CloseSocket, Types
  <2>2. at' \in Ats /\ at'["client"] = at["client"] /\ at'["server"] = "done"
    BY <1>0, <1>3, EndsFacts DEF ServeEnds, Ats
  <2>3. UNCHANGED <<foreign, closed, chunks, passed, client, broken, history>>
    BY <1>3 DEF ServeEnds
  <2> QED
    BY <2>1, <2>2, <2>3 DEF Types, Stream, Ats, client, history
<1>4. CASE PassTest
  BY <1>4 DEF PassTest, Types, local, client, history
<1>5. CASE WriteOut
  <2>1. \A f \in Frames("server", OP_TEXT, Announcement) : f \in Item
    <3>1. OP_TEXT \in ValidOpcodes /\ OP_TEXT \notin ControlOpcodes
          /\ Announcement \in Seq(Texts)
      BY Opcodes, WebSocketAssumption
    <3> QED
      BY <3>1, FramesWritten, WrittenItem, EndsFacts
  <2>2. stream' \in Stream
    <3>1. stream' = stream \/ \E f \in Item : Put("server", f)
      BY <1>5, <2>1 DEF WriteOut
    <3> QED
      BY <1>0, <3>1, StreamFacts, EndsFacts DEF Stream
  <2>3. sent' \in [Ends -> Seq(Message)]
    <3>1. sent \in [Ends -> Seq(Message)]
      BY DEF Types
    <3>2. Append(sent["server"], [opcode |-> OP_TEXT, parts |-> Announcement])
            \in Seq(Message)
      BY <3>1, MessageFacts, EndsFacts
    <3> QED
      BY <1>5, <3>1, <3>2 DEF WriteOut
  <2>4. UNCHANGED <<foreign, local, client, broken, got>> /\ passed' = FALSE
    BY <1>5 DEF WriteOut
  <2> QED
    BY <2>2, <2>3, <2>4 DEF Types, Stream, local, client
<1>6. CASE Break
  <2>1. stream' \in Stream
    <3>1. stream["client"] \in Seq(Item) /\ stream["server"] \in Seq(Item)
      BY <1>0, EndsFacts
    <3>2. PICK a \in Seq(Item), b \in Seq(Item) : stream' = [client |-> a, server |-> b]
      BY <1>6, <3>1, CutOffItems DEF Break
    <3> QED
      BY <3>2 DEF Stream, Ends
  <2>2. UNCHANGED <<foreign, local, passed, client, history>> /\ broken' = TRUE
    BY <1>6 DEF Break
  <2> QED
    BY <2>1, <2>2 DEF Types, Stream, local, client, history
<1> QED
  BY <1>1, <1>2, <1>3, <1>4, <1>5, <1>6

-----------------------------------------------------------------------------
(***************************************************************************)
(* Every step keeps the stages                                             *)
(***************************************************************************)

LEMMA AllInFacts ==
  ASSUME NEW s \in Seq(Item), NEW S \in {Https, Frame}
  PROVE  /\ AllIn(<<>>, S)
         /\ AllIn(s, S) => /\ \A f \in S : AllIn(Append(s, f), S)
                           /\ s # <<>> => AllIn(Tail(s), S)
                           /\ \A t \in CutOff(s) : AllIn(t, S)
<1>1. AllIn(<<>>, S)
  BY DEF AllIn
<1>2. ASSUME AllIn(s, S), NEW f \in S
      PROVE  AllIn(Append(s, f), S)
  <2>1. f \in Item
    BY DEF Item
  <2>2. /\ Len(Append(s, f)) = Len(s) + 1 /\ Len(s) \in Nat
        /\ \A i \in 1 .. Len(s) : Append(s, f)[i] = s[i]
        /\ Append(s, f)[Len(s) + 1] = f
    BY <2>1, AppendProperties
  <2>3. \A i \in 1 .. Len(s) + 1 : i \in 1 .. Len(s) \/ i = Len(s) + 1
    BY <2>2
  <2> QED
    BY <1>2, <2>2, <2>3 DEF AllIn
<1>3. ASSUME AllIn(s, S), s # <<>>
      PROVE  AllIn(Tail(s), S)
  <2>1. /\ Len(Tail(s)) = Len(s) - 1 /\ Len(s) \in Nat
        /\ \A i \in 1 .. Len(Tail(s)) : Tail(s)[i] = s[i + 1]
    BY <1>3, HeadTailProperties
  <2>2. \A i \in 1 .. Len(Tail(s)) : i + 1 \in 1 .. Len(s)
    BY <2>1
  <2> QED
    BY <1>3, <2>1, <2>2 DEF AllIn
<1>4. ASSUME AllIn(s, S), NEW t \in CutOff(s)
      PROVE  AllIn(t, S)
  <2>1. t \in Seq(Item) /\ Len(t) <= Len(s) /\ Len(s) \in Nat
    BY CutOffItems
  <2>2. \A i \in 1 .. Len(t) : s[i] \in S
    BY <1>4, <2>1 DEF AllIn
  <2> QED
    BY <2>2, CutOffItems DEF AllIn
<1> QED
  BY <1>1, <1>2, <1>3, <1>4

LEMMA ConnectStages ==
  ASSUME Types, Stages, Secure \/ TlsFails \/ Request \/ Opened
  PROVE  Stages'
<1>0. at \in Ats /\ stream \in [Ends -> Seq(Item)] /\ socket \in [Ends -> BOOLEAN]
      /\ stream["client"] \in Seq(Item) /\ stream["server"] \in Seq(Item)
  BY DEF Types, Ats, Ends
<1>1. CASE Secure
  <2>1. /\ at'["client"] = "secure" /\ at'["server"] = "handshake"
        /\ at["client"] = "tls" /\ at["server"] = "tls"
    BY <1>1 DEF Secure
  <2>2. /\ socket' = socket /\ stream' = stream /\ passed' = passed
        /\ broken' = broken /\ got' = got
    BY <1>1 DEF Secure, history
  <2>3. AllIn(<<>>, Https) /\ Len(<<>>) = 0
    BY AllInFacts, <1>0
  <2>4. /\ stream["client"] = <<>> /\ stream["server"] = <<>>
        /\ got["server"] = <<>> /\ ~passed
        /\ socket["client"] /\ socket["server"]
    BY <2>1 DEF Stages
  <2>5. /\ stream'["client"] = <<>> /\ stream'["server"] = <<>>
        /\ Len(stream'["server"]) <= 1 /\ AllIn(stream'["server"], Https)
    BY <2>2, <2>3, <2>4
  <2>6. got'["server"] = <<>> /\ ~passed' /\ socket'["client"] /\ socket'["server"]
    BY <2>2, <2>4
  <2>7. at'["server"] # "done" /\ at'["client"] \notin {"closed", "left", "open", "asked", "tls"}
    BY <2>1
  <2> QED
    BY <2>1, <2>5, <2>6, <2>7 DEF Stages
<1>2. CASE TlsFails
  <2>1. /\ at["server"] = "tls" /\ at["client"] \in {"tls", "left"}
        /\ at'["server"] = "done" /\ at'["client"] \in {"raised", "left"}
        /\ at'["client"] = "left" => at["client"] = "left"
        /\ ~socket'["server"] /\ socket'["client"] = socket["client"]
    BY <1>0, <1>2, EndsFacts DEF TlsFails, Stages, Ats
  <2>2. stream' = stream /\ passed' = passed /\ broken' = broken /\ got' = got
    BY <1>2 DEF TlsFails, history
  <2>3. AllIn(<<>>, Frame)
    BY AllInFacts, <1>0
  <2>4. stream["server"] = <<>> /\ (at["client"] = "tls" => socket["client"])
    BY <2>1 DEF Stages
  <2>5. AllIn(stream'["server"], Frame) /\ (at'["client"] = "raised" => socket'["client"])
    <3>1. at'["client"] = "raised" => at["client"] = "tls"
      BY <1>0, <1>2, EndsFacts, <2>1 DEF TlsFails, Ats
    <3> QED
      BY <2>1, <2>2, <2>3, <2>4, <3>1
  <2> QED
    BY <2>1, <2>5 DEF Stages
<1>3. CASE Request
  <2>1. /\ at["client"] = "secure" /\ at'["client"] = "asked"
        /\ at'["server"] = at["server"]
    BY <1>0, <1>3, EndsFacts DEF Request, Ats
  <2>2. UNCHANGED <<socket, passed, broken, got>>
    BY <1>3 DEF Request, history
  <2>3. PICK block \in {"upgrade", "other", "switch"} : Put("client", Http(block))
    BY <1>3 DEF Request
  <2>4. /\ stream'["client"] = stream["client"]
        /\ stream'["server"] = IF Reaches("server")
                               THEN Append(stream["server"], Http(block))
                               ELSE stream["server"]
    BY <2>3, PutEffect, StreamFacts, EndsFacts
  <2>5. stream["server"] = <<>> /\ stream["client"] = <<>>
    BY <2>1 DEF Stages
  <2>6. /\ Len(Append(stream["server"], Http(block))) = 1
        /\ AllIn(Append(stream["server"], Http(block)), Https)
    <3>1. Http(block) \in Https /\ Http(block) \in Item
      BY StreamFacts
    <3>2. AllIn(stream["server"], Https)
      BY <1>0, <2>5, AllInFacts
    <3>3. AllIn(Append(stream["server"], Http(block)), Https)
      BY <1>0, <3>1, <3>2, AllInFacts
    <3>4. Len(Append(stream["server"], Http(block))) = Len(stream["server"]) + 1
      BY <1>0, <3>1, AppendProperties
    <3>5. Len(stream["server"]) = 0
      BY <2>5
    <3> QED
      BY <3>3, <3>4, <3>5
  <2>7. at["server"] \notin {"tls", "handshake"} => ~Reaches("server")
    BY <2>1 DEF Stages, Reaches
  <2>8. AllIn(<<>>, Frame) /\ AllIn(<<>>, Https) /\ Len(<<>>) = 0
    BY <1>0, AllInFacts
  <2> QED
    BY <2>1, <2>2, <2>4, <2>5, <2>6, <2>7, <2>8 DEF Stages
<1>4. CASE Opened
  <2>1. /\ at["client"] = "asked" /\ at'["client"] = "open"
        /\ at'["server"] = at["server"]
    BY <1>0, <1>4, EndsFacts DEF Opened, Ats
  <2>2. UNCHANGED <<socket, passed, broken, got>>
    BY <1>4 DEF Opened, history
  <2>3. stream["client"] = <<Http("switch")>>
    BY <1>4, <2>1 DEF Opened, Stages
  <2>4. stream'["client"] = <<>> /\ stream'["server"] = stream["server"]
    BY <1>0, <1>4, <2>3, EndsFacts DEF Opened
  <2>5. at["server"] \notin {"tls", "handshake"}
    BY <2>1, <2>3 DEF Stages
  <2>6. AllIn(<<>>, Frame)
    BY <1>0, AllInFacts
  <2> QED
    BY <2>1, <2>2, <2>4, <2>5, <2>6 DEF Stages
<1> QED
  BY <1>1, <1>2, <1>3, <1>4

LEMMA ClientStages ==
  ASSUME Types, Stages, Client
  PROVE  Stages'
<1>0. at \in Ats /\ stream \in [Ends -> Seq(Item)] /\ socket \in [Ends -> BOOLEAN]
      /\ stream["client"] \in Seq(Item) /\ stream["server"] \in Seq(Item)
  BY DEF Types, Ats, Ends
<1>1. ASSUME at["client"] = "open", \E f \in Frame : Put("client", f),
             UNCHANGED <<at, socket, passed, broken, got>>
      PROVE  Stages'
  <2>1. PICK f \in Frame : Put("client", f)
    BY <1>1
  <2>2. /\ stream'["client"] = stream["client"]
        /\ \/ stream'["server"] = stream["server"]
           \/ stream'["server"] = Append(stream["server"], f)
    BY <2>1, PutEffect, EndsFacts DEF Item
  <2>3. at["server"] \notin {"tls", "handshake"}
    BY <1>1 DEF Stages
  <2>4. AllIn(stream'["server"], Frame)
    BY <1>0, <2>2, <2>3, AllInFacts DEF Stages
  <2> QED
    BY <1>1, <2>2, <2>3, <2>4 DEF Stages
<1>2. CASE Send
  <2>1. \E f \in Frame : Put("client", f)
    <3>1. PICK m \in Messages :
            \/ \E f \in Frames("client", m.opcode, m.parts) : Put("client", f)
            \/ \E f \in Frames("client", m.opcode, <<Head(m.parts)>>) :
                 Put("client", Unfinished(f))
      BY <1>2 DEF Send
    <3>2. /\ m.opcode \in ValidOpcodes /\ m.opcode \notin ControlOpcodes
          /\ m.opcode \in {OP_TEXT, OP_BINARY}
          /\ m.parts \in Seq(Texts) /\ <<Head(m.parts)>> \in Seq(Texts)
      BY MessageFacts, Opcodes
    <3>3. \A f \in Frames("client", m.opcode, m.parts) : f \in Frame
      BY <3>2, FramesWritten, WrittenItem, EndsFacts
    <3>4. \A f \in Frames("client", m.opcode, <<Head(m.parts)>>) : Unfinished(f) \in Frame
      <4> TAKE f \in Frames("client", m.opcode, <<Head(m.parts)>>)
      <4>1. Written(f, m.opcode, <<Head(m.parts)>>)
        BY <3>2, FramesWritten, EndsFacts
      <4> QED
        BY <3>2, <4>1, UnfinishedReads
    <3> QED
      BY <3>1, <3>3, <3>4
  <2> QED
    BY <1>1, <1>2, <2>1 DEF Send, local
<1>3. CASE SendLast
  <2>1. \E f \in Frame : Put("client", f)
    <3>1. rest[1] \in Message /\ Len(rest[1].parts) > 1
      BY <1>3 DEF SendLast, Types
    <3>2. rest[1].parts \in Seq(Texts) /\ rest[1].parts # <<>>
      BY <3>1, MessageFacts
    <3>3. Tail(rest[1].parts) \in Seq(Texts)
      BY <3>2, HeadTailProperties
    <3>4. OP_CONT \in ValidOpcodes /\ OP_CONT \notin ControlOpcodes
      BY Opcodes
    <3>5. \A f \in Frames("client", OP_CONT, Tail(rest[1].parts)) :
            Written(f, OP_CONT, Tail(rest[1].parts))
      BY <3>3, <3>4, FramesWritten, EndsFacts
    <3>6. \A f \in Frames("client", OP_CONT, Tail(rest[1].parts)) : f \in Frame
      BY <3>5 DEF Written
    <3> QED
      BY <1>3, <3>6 DEF SendLast
  <2> QED
    BY <1>1, <1>3, <2>1 DEF SendLast, local
<1>4. CASE SendControl
  <2>1. \E f \in Frame : Put("client", f)
    <3>1. PICK opcode \in {OP_PING, OP_PONG} :
            \E f \in Frames("client", opcode, <<>>) : Put("client", f)
      BY <1>4 DEF SendControl
    <3>2. opcode \in ValidOpcodes /\ <<>> \in Seq(Texts)
      BY Opcodes
    <3> QED
      BY <3>1, <3>2, FramesWritten, WrittenItem, EndsFacts
  <2> QED
    BY <1>1, <1>4, <2>1 DEF SendControl, local, history
<1>5. CASE SendWrong
  <2>1. \E f \in Frame : Put("client", f)
    BY <1>5, WrongReads DEF SendWrong
  <2> QED
    BY <1>1, <1>5, <2>1 DEF SendWrong, local, history
<1>6. CASE Close
  <2>1. PICK f \in Frames("client", OP_CLOSE, <<>>) :
          stream' = [client |-> IF foreign THEN stream["client"] ELSE <<>>,
                     server |-> IF Reaches("server")
                                THEN Append(stream["server"], f)
                                ELSE stream["server"]]
    BY <1>6 DEF Close
  <2>2. f \in Frame
    <3>1. OP_CLOSE \in ValidOpcodes /\ <<>> \in Seq(Texts)
      BY Opcodes
    <3> QED
      BY <3>1, FramesWritten, WrittenItem, EndsFacts
  <2>3. /\ at["client"] = "open" /\ at'["client"] = "closed"
        /\ at'["server"] = at["server"] /\ socket'["server"] = socket["server"]
    BY <1>0, <1>6, EndsFacts DEF Close, Ats
  <2>4. UNCHANGED <<passed, broken, got>>
    BY <1>6 DEF Close, history
  <2>5. at["server"] \notin {"tls", "handshake"}
    BY <2>3 DEF Stages
  <2>6. AllIn(stream'["server"], Frame)
    BY <1>0, <2>1, <2>2, <2>5, AllInFacts DEF Stages
  <2> QED
    BY <2>3, <2>4, <2>5, <2>6 DEF Stages
<1>7. CASE Exit
  <2>1. /\ at' = [at EXCEPT !["client"] = IF @ = "closed" THEN @ ELSE "left"]
        /\ socket' = [socket EXCEPT !["client"] = FALSE]
        /\ stream' = [stream EXCEPT !["client"] = <<>>]
    BY <1>7 DEF Exit, CloseSocket
  <2>2. /\ \/ at'["client"] = "left"
           \/ at'["client"] = "closed" /\ at["client"] = "closed"
        /\ at'["server"] = at["server"]
        /\ socket'["server"] = socket["server"]
        /\ stream'["client"] = <<>> /\ stream'["server"] = stream["server"]
    BY <1>0, <2>1, EndsFacts DEF Ats
  <2>3. passed' = passed /\ broken' = broken /\ got' = got
    BY <1>7 DEF Exit, history
  <2>4. CASE at'["client"] = "left"
    BY <2>2, <2>3, <2>4 DEF Stages
  <2>5. CASE at'["client"] = "closed" /\ at["client"] = "closed"
    BY <2>2, <2>3, <2>5 DEF Stages
  <2> QED
    BY <2>2, <2>4, <2>5
<1> QED
  BY <1>2, <1>3, <1>4, <1>5, <1>6, <1>7 DEF Client

LEMMA RecvStages ==
  ASSUME Types, Stages, NEW e \in Ends, Follows(e), Recv(e)
  PROVE  Stages'
<1>0. /\ at \in Ats /\ stream \in [Ends -> Seq(Item)] /\ socket \in [Ends -> BOOLEAN]
      /\ stream["client"] \in Seq(Item) /\ stream["server"] \in Seq(Item)
      /\ got \in [Ends -> Seq(Message)]
  BY DEF Types, Ats, Ends
\* What every step that takes a frame does to the streams.
<1>1. ASSUME Reads(e), stream'[e] = Tail(stream[e]),
             \/ stream'[Peer(e)] = stream[Peer(e)]
             \/ \E f \in Frame : Reaches(Peer(e))
                                 /\ stream'[Peer(e)] = Append(stream[Peer(e)], f),
             \/ at' = at
             \/ at' = [at EXCEPT ![e] = "raised"],
             \A p \in Ends \ {"server"} : e = p => got'["server"] = got["server"],
             UNCHANGED <<socket, passed, broken>>
      PROVE  Stages'
  <2>1. stream[e] # <<>> /\ at[e] = "open"
    BY <1>1 DEF Reads
  <2>2. AllIn(stream[e], Frame) /\ AllIn(stream'[e], Frame)
    <3>1. AllIn(stream[e], Frame)
      BY <2>1, EndsFacts DEF Stages
    <3> QED
      BY <1>0, <1>1, <2>1, <3>1, AllInFacts
  <2>3. \A f \in Frame : AllIn(stream[Peer(e)], Frame) =>
                           AllIn(Append(stream[Peer(e)], f), Frame)
    BY <1>0, AllInFacts, EndsFacts
  <2>4. AllIn(stream[Peer(e)], Frame) => AllIn(stream'[Peer(e)], Frame)
    BY <1>1, <2>3
  <2>5. CASE e = "server"
    <3>1. at["server"] = "open" /\ stream["server"] # <<>>
          /\ at["client"] \notin {"tls", "secure", "asked"}
      BY <2>1, <2>5 DEF Stages
    <3>2. at'["client"] = at["client"] /\ at'["server"] \in {"open", "raised"}
      BY <1>0, <1>1, <2>5, <3>1 DEF Ats, Ends
    <3>3. AllIn(stream'["server"], Frame)
          /\ (at["client"] = "open" => AllIn(stream'["client"], Frame))
      BY <2>2, <2>4, <2>5, EndsFacts DEF Stages
    <3> QED
      BY <1>1, <3>1, <3>2, <3>3 DEF Stages
  <2>6. CASE e = "client"
    <3>1. at["client"] = "open" /\ at["server"] \notin {"tls", "handshake"}
      BY <2>1, <2>6 DEF Stages
    <3>2. at'["server"] = at["server"] /\ at'["client"] \in {"open", "raised"}
      BY <1>0, <1>1, <2>6, <3>1 DEF Ats, Ends
    <3>3. AllIn(stream'["server"], Frame) /\ AllIn(stream'["client"], Frame)
      BY <2>2, <2>4, <2>6, <3>1, EndsFacts DEF Stages
    <3> QED
      BY <1>1, <3>1, <3>2, <3>3 DEF Stages
  <2> QED
    BY <2>5, <2>6, EndsFacts
<1>2. ASSUME Reads(e), Take(e)
      PROVE  stream'[e] = Tail(stream[e]) /\ stream'[Peer(e)] = stream[Peer(e)]
  BY <1>0, <1>2, EndsFacts DEF Take
<1>3. CASE RecvRefuses(e)
  BY <1>1, <1>2, <1>3 DEF RecvRefuses, history
<1>4. CASE RecvClose(e)
  BY <1>1, <1>2, <1>4 DEF RecvClose, history
<1>5. CASE RecvData(e)
  <2>1. \A p \in Ends \ {"server"} : e = p => got'["server"] = got["server"]
    BY <1>0, <1>5, EndsFacts DEF RecvData
  <2> QED
    BY <1>1, <1>2, <1>5, <2>1 DEF RecvData
<1>6. CASE RecvControl(e)
  <2>1. PICK r : Foretold(e, r) /\ RecvFinds(e, r[1])
    BY <1>6, ReadsFirst DEF RecvControl
  <2>2. Payload(NextFrame(e)).text = <<>>
    BY <1>6, <2>1, Opcodes DEF RecvFinds, RecvControl
  <2>3. \A f \in Frames(e, OP_PONG, Payload(NextFrame(e)).text) : f \in Frame
    <3>1. OP_PONG \in ValidOpcodes /\ <<>> \in Seq(Texts)
      BY Opcodes
    <3> QED
      BY <2>2, <3>1, FramesWritten, WrittenItem
  <2>4. Reads(e) /\ UNCHANGED <<at, socket, passed, broken, got>>
    BY <1>6 DEF RecvControl, local, history
  <2>5. CASE Take(e)
    BY <1>1, <1>2, <2>4, <2>5
  <2>6. CASE Reaches(Peer(e)) /\ \E f \in Frames(e, OP_PONG, Payload(NextFrame(e)).text) :
              stream' = [stream EXCEPT ![e] = Tail(@), ![Peer(e)] = Append(@, f)]
    <3>1. PICK f \in Frame :
              stream' = [stream EXCEPT ![e] = Tail(@), ![Peer(e)] = Append(@, f)]
      BY <2>3, <2>6
    <3>2. stream'[e] = Tail(stream[e])
          /\ stream'[Peer(e)] = Append(stream[Peer(e)], f)
      BY <1>0, <3>1, EndsFacts
    <3> QED
      BY <1>1, <2>4, <2>6, <3>2
  <2> QED
    BY <1>6, <2>5, <2>6 DEF RecvControl
<1>7. CASE StreamEnds(e)
  <2>1. /\ at[e] \in {"asked", "handshake", "open"}
        /\ stream[e] # <<>> => at[e] = "open"
        /\ ~Reaches(Peer(e))
        /\ at' = [at EXCEPT ![e] = "raised"]
    BY <1>7 DEF StreamEnds, Over
  <2>2. UNCHANGED <<socket, stream, passed, broken, got>>
    BY <1>7 DEF StreamEnds, history
  <2>3. AllIn(<<>>, Frame)
    BY <1>0, AllInFacts
  <2>4. CASE e = "server"
    <3>1. at'["server"] = "raised" /\ at'["client"] = at["client"]
          /\ at["server"] \in {"handshake", "open"}
      BY <1>0, <2>1, <2>4, EndsFacts DEF Ats, Types
    <3>2. AllIn(stream["server"], Frame)
      BY <2>1, <2>3, <2>4, <3>1 DEF Stages
    <3>3. at["client"] \in {"tls", "secure"} => broken
      BY <2>1, <2>4, EndsFacts DEF Stages, Reaches
    <3>4. at["client"] = "asked" => stream["server"] = <<>>
      BY <2>1, <2>4, <3>1 DEF Stages
    <3> QED
      BY <2>2, <3>1, <3>2, <3>3, <3>4 DEF Stages
  <2>5. CASE e = "client"
    <3>1. at'["client"] = "raised" /\ at'["server"] = at["server"]
          /\ at["client"] \in {"asked", "open"}
      BY <1>0, <2>1, <2>5, EndsFacts DEF Ats, Types
    <3> QED
      BY <2>2, <3>1 DEF Stages
  <2> QED
    BY <2>4, <2>5, EndsFacts
<1> QED
  BY <1>3, <1>4, <1>5, <1>6, <1>7 DEF Recv

LEMMA OtherStages ==
  ASSUME Types, Stages,
         Upgrade \/ RefuseUpgrade \/ ServeEnds \/ PassTest \/ WriteOut \/ Break
  PROVE  Stages'
<1>0. /\ at \in Ats /\ stream \in [Ends -> Seq(Item)] /\ socket \in [Ends -> BOOLEAN]
      /\ stream["client"] \in Seq(Item) /\ stream["server"] \in Seq(Item)
  BY DEF Types, Ats, Ends
<1>1. AllIn(<<>>, Frame) /\ AllIn(<<>>, Https)
  BY <1>0, AllInFacts
\* The first item of a handshake is the only one.
<1>2. ASSUME at["server"] = "handshake", stream["server"] # <<>>
      PROVE  Tail(stream["server"]) = <<>>
  <2>1. Len(stream["server"]) <= 1
    BY <1>2 DEF Stages
  <2>2. Tail(stream["server"]) \in Seq(Item)
        /\ Len(Tail(stream["server"])) = Len(stream["server"]) - 1
    BY <1>0, <1>2, HeadTailProperties
  <2>3. Len(stream["server"]) \in Nat /\ Len(stream["server"]) # 0
    BY <1>0, <1>2, EmptySeq
  <2>4. Len(Tail(stream["server"])) = 0
    <3>1. \A n \in Nat : n # 0 /\ n <= 1 => n - 1 = 0
      OBVIOUS
    <3>2. Len(stream["server"]) - 1 = 0
      BY <2>1, <2>3, <3>1, Zenon
    <3> QED
      BY <2>2, <3>2, Zenon
  <2> QED
    BY <2>2, <2>4, EmptySeq
<1>3. CASE Upgrade
  <2>1. /\ at["server"] = "handshake" /\ stream["server"] # <<>>
        /\ at' = [at EXCEPT !["server"] = "open"]
        /\ stream' = [stream EXCEPT
                        !["server"] = Tail(@),
                        !["client"] = IF Reaches("client")
                                      THEN Append(@, Http("switch")) ELSE @]
    BY <1>3 DEF Upgrade
  <2>2. at'["client"] = at["client"] /\ at'["server"] = "open"
    BY <1>0, <2>1, EndsFacts DEF Ats
  <2>3. at["client"] \notin {"tls", "secure", "open", "closed"}
    BY <2>1 DEF Stages
  <2>4. stream'["server"] = <<>>
    BY <1>0, <1>2, <2>1, EndsFacts
  <2>5. stream'["client"] \in {<<>>, <<Http("switch")>>}
    <3>1. stream["client"] = <<>>
      BY <2>1 DEF Stages
    <3>2. Append(<<>>, Http("switch")) = <<Http("switch")>>
      OBVIOUS
    <3>3. stream'["client"] = IF Reaches("client")
                              THEN Append(stream["client"], Http("switch"))
                              ELSE stream["client"]
      BY <1>0, <2>1, EndsFacts
    <3> QED
      BY <3>1, <3>2, <3>3
  <2>6. /\ socket' = socket /\ passed' = passed /\ broken' = broken /\ got' = got
    BY <1>3 DEF Upgrade, history
  <2> QED
    BY <1>1, <2>1, <2>2, <2>3, <2>4, <2>5, <2>6 DEF Stages
<1>4. CASE RefuseUpgrade
  <2>1. /\ at["server"] = "handshake" /\ stream["server"] # <<>>
        /\ at' = [at EXCEPT !["server"] = "raised"]
        /\ stream' = [stream EXCEPT !["server"] = Tail(@)]
    BY <1>4 DEF RefuseUpgrade
  <2>2. at'["client"] = at["client"] /\ at'["server"] = "raised"
    BY <1>0, <2>1, EndsFacts DEF Ats
  <2>3. at["client"] \notin {"tls", "secure", "open", "closed"}
    BY <2>1 DEF Stages
  <2>4. stream'["server"] = <<>> /\ stream'["client"] = stream["client"]
    BY <1>0, <1>2, <2>1, EndsFacts
  <2>5. /\ socket' = socket /\ passed' = passed /\ broken' = broken /\ got' = got
    BY <1>4 DEF RefuseUpgrade, history
  <2> QED
    BY <1>1, <2>1, <2>2, <2>3, <2>4, <2>5 DEF Stages
<1>5. CASE ServeEnds
  <2>1. /\ at["server"] = "raised" /\ at' = [at EXCEPT !["server"] = "done"]
        /\ socket' = [socket EXCEPT !["server"] = FALSE]
        /\ stream' = [stream EXCEPT !["server"] = <<>>]
    BY <1>5 DEF ServeEnds, CloseSocket
  <2>2. at'["client"] = at["client"] /\ at'["server"] = "done"
        /\ ~socket'["server"] /\ socket'["client"] = socket["client"]
        /\ stream'["server"] = <<>> /\ stream'["client"] = stream["client"]
    BY <1>0, <2>1, EndsFacts DEF Ats
  <2>3. /\ passed' = passed /\ broken' = broken /\ got' = got
    BY <1>5 DEF ServeEnds, history
  <2> QED
    BY <1>1, <2>1, <2>2, <2>3 DEF Stages
<1>6. CASE PassTest
  <2>1. /\ at' = at /\ socket' = socket /\ stream' = stream /\ broken' = broken
        /\ got' = got /\ got["server"] # <<>>
    BY <1>6 DEF PassTest, local, history
  <2> QED
    BY <2>1 DEF Stages
<1>7. CASE WriteOut
  <2>1. /\ at' = at /\ socket' = socket /\ broken' = broken /\ got' = got
        /\ passed /\ passed' = FALSE
    BY <1>7 DEF WriteOut, local
  <2>2. at["client"] \notin {"tls", "secure", "asked"}
        /\ at["server"] \notin {"tls", "handshake"}
    BY <2>1 DEF Stages
  <2>3. \A f \in Frames("server", OP_TEXT, Announcement) : f \in Frame
    <3>1. OP_TEXT \in ValidOpcodes /\ OP_TEXT \notin ControlOpcodes
          /\ Announcement \in Seq(Texts)
      BY Opcodes, WebSocketAssumption
    <3> QED
      BY <3>1, FramesWritten, WrittenItem, EndsFacts
  <2>4. stream'["server"] = stream["server"]
        /\ \/ stream'["client"] = stream["client"]
           \/ \E f \in Frame : stream'["client"] = Append(stream["client"], f)
    <3>1. stream' = stream \/ \E f \in Frame : Put("server", f)
      BY <1>7, <2>3 DEF WriteOut
    <3>2. ASSUME NEW f \in Frame, Put("server", f)
          PROVE  /\ stream'["server"] = stream["server"]
                 /\ \/ stream'["client"] = stream["client"]
                    \/ stream'["client"] = Append(stream["client"], f)
      BY <3>2, PutEffect, EndsFacts DEF Item
    <3> QED
      BY <3>1, <3>2
  <2>5. at["client"] = "open" => AllIn(stream'["client"], Frame)
    BY <1>0, <2>4, AllInFacts DEF Stages
  <2> QED
    BY <2>1, <2>2, <2>4, <2>5 DEF Stages
<1>8. CASE Break
  <2>1. /\ at' = at /\ socket' = socket /\ passed' = passed /\ got' = got
        /\ broken' = TRUE /\ at["server"] \in {"handshake", "open"}
    BY <1>8 DEF Break, local, history
  <2>2. PICK s \in CutOff(stream["server"]), t \in CutOff(stream["client"]) :
          stream' = [client |-> t, server |-> s]
    BY <1>8 DEF Break
  <2>3. stream'["client"] = t /\ stream'["server"] = s
    BY <2>2
  <2>4. /\ s \in Seq(Item) /\ Len(s) <= Len(stream["server"])
        /\ t \in Seq(Item) /\ Len(t) <= Len(stream["client"])
        /\ Len(s) \in Nat /\ Len(t) \in Nat
    BY <1>0, CutOffItems
  <2>5. /\ stream["server"] = <<>> => s = <<>>
        /\ stream["client"] = <<>> => t = <<>>
    BY <2>4, EmptySeq
  <2>6. /\ \A S \in {Https, Frame} : AllIn(stream["server"], S) => AllIn(s, S)
        /\ \A S \in {Https, Frame} : AllIn(stream["client"], S) => AllIn(t, S)
    BY <1>0, AllInFacts
  <2>7. stream["client"] = <<Http("switch")>> => t \in {<<>>, <<Http("switch")>>}
    <3> SUFFICES ASSUME stream["client"] = <<Http("switch")>>, t # <<>>
                 PROVE  t = <<Http("switch")>>
      OBVIOUS
    <3>1. Len(stream["client"]) = 1 /\ stream["client"][1] = Http("switch")
      OBVIOUS
    <3>2. Len(t) = 1
      BY <2>4, <3>1, EmptySeq
    <3>3. t[1] = Http("switch")
      <4>1. 1 \in 1 .. Len(t) /\ stream["client"][1] \in Https
        BY <3>1, <3>2, StreamFacts
      <4>2. t[1] = stream["client"][1]
        BY <1>0, <4>1, CutOffItems
      <4> QED
        BY <3>1, <4>2
    <3>4. \A i \in 1 .. Len(t) : t[i] = stream["client"][i]
      BY <3>1, <3>2, <3>3
    <3> QED
      BY <1>0, <2>4, <3>1, <3>2, <3>4, SeqEqual
  <2>8. Len(stream["server"]) \in Nat /\ Len(stream["client"]) \in Nat
    BY <1>0
  <2>9. /\ Len(stream["server"]) <= 1 => Len(s) <= 1
        /\ AllIn(stream["server"], Https) => AllIn(s, Https)
        /\ AllIn(stream["server"], Frame) => AllIn(s, Frame)
        /\ AllIn(stream["client"], Frame) => AllIn(t, Frame)
    BY <2>4, <2>6, <2>8
  <2> QED
    BY <2>1, <2>3, <2>5, <2>7, <2>9 DEF Stages
<1> QED
  BY <1>3, <1>4, <1>5, <1>6, <1>7, <1>8

-----------------------------------------------------------------------------
(***************************************************************************)
(* The first state                                                         *)
(***************************************************************************)

LEMMA InitInv ==
  ASSUME Init
  PROVE  IInv
<1>1. /\ at["client"] = "tls" /\ at["server"] = "tls"
      /\ \A e \in Ends : /\ stream[e] = <<>> /\ chunks[e] = NoMessage
                         /\ sent[e] = <<>> /\ got[e] = <<>> /\ socket[e]
  BY DEF Init, Ends
<1>2. ~passed /\ ~wrong /\ ~broken /\ rest = <<>>
  BY DEF Init
<1>3. <<>> \in Seq(Item) /\ <<>> \in Seq(Message) /\ Len(<<>>) = 0
  OBVIOUS
<1>4. Types
  <2>1. at \in Ats
    BY DEF Init, Ends, Ats
  <2>2. closed \in [Ends -> BOOLEAN] /\ socket \in [Ends -> BOOLEAN]
    BY DEF Init
  <2>3. /\ stream \in [Ends -> Seq(Item)]
        /\ chunks \in [Ends -> Message \cup {NoMessage}]
        /\ sent \in [Ends -> Seq(Message)] /\ got \in [Ends -> Seq(Message)]
    BY <1>3 DEF Init
  <2>4. foreign \in BOOLEAN /\ controls \in 0 .. MaxControls
    BY WebSocketAssumption DEF Init
  <2>5. passed \in BOOLEAN /\ wrong \in BOOLEAN /\ broken \in BOOLEAN
    BY DEF Init
  <2>6. rest \in Seq(Message) /\ Len(rest) <= 1
    BY <1>2, <1>3
  <2> QED
    BY <1>1, <1>2, <2>1, <2>2, <2>3, <2>4, <2>5, <2>6 DEF Types, Ats
<1>5. Stages
  <2>1. AllIn(<<>>, Https) /\ AllIn(<<>>, Frame)
    BY <1>3, AllInFacts
  <2>2. /\ stream["client"] = <<>> /\ stream["server"] = <<>>
        /\ got["server"] = <<>> /\ socket["client"] /\ socket["server"]
    BY <1>1 DEF Ends
  <2>3. Len(stream["server"]) <= 1
    BY <1>3, <2>2
  <2> QED
    BY <1>1, <1>2, <2>1, <2>2, <2>3 DEF Stages
<1>6. Stays
  BY <1>1 DEF Stays
<1>7. \A e \in Ends : Received(e)
  BY <1>1, <1>3, EndsFacts DEF Received
<1>8. \A e \in Ends : Follows(e)
  <2> TAKE e \in Ends
  <2> DEFINE start == [n |-> 0, part |-> NoMessage, met |-> "none"]
             r == [i \in 0 .. 0 |-> start]
  <2>1. start \in Reading
    BY DEF Reading
  <2>2. r \in [0 .. 0 -> Reading] /\ r[0] = start
    BY <2>1
  <2>3. sent[Peer(e)] = <<>> /\ got[e] = <<>> /\ stream[e] = <<>> /\ chunks[e] = NoMessage
    BY <1>1, EndsFacts
  <2>4. Len(stream[e]) = 0 /\ Len(sent[Peer(e)]) = 0 /\ Len(got[e]) = 0
    BY <1>3, <2>3
  <2> HIDE DEF r
  <2>5. ReadsOn(sent[Peer(e)], stream[e], r)
    BY <2>2, <2>4 DEF ReadsOn
  <2>6. \A i \in 0 .. 0 : Excused(e, r[i])
    BY <2>2 DEF Excused
  <2>7. Complete(e, r[0])
    BY <1>1, <1>2, <2>2, <2>4 DEF Complete, Begun
  <2>8. Foretold(e, r)
    BY <2>2, <2>3, <2>4, <2>5, <2>6, <2>7 DEF Foretold
  <2> QED
    BY <2>8 DEF Follows
<1> QED
  BY <1>4, <1>5, <1>6, <1>7, <1>8 DEF IInv

-----------------------------------------------------------------------------
(***************************************************************************)
(* Every step keeps the server there for the client                        *)
(***************************************************************************)

\* On a connection that is not broken, the server meets the end of the stream
\* only if the client has left without close.
LEMMA EndOfStream ==
  ASSUME Types, Stages, Follows("server"), StreamEnds("server"), ~broken
  PROVE  at["client"] = "left"
<1>1. /\ at["server"] \in {"handshake", "open"}
      /\ ~Reaches("client")
      /\ stream["server"] # <<>> =>
           at["server"] = "open" /\ Wanted(NextFrame("server")) # NextFrame("server").bytes
  <2>1. /\ at["server"] \in {"asked", "handshake", "open"}
        /\ Over("server")
        /\ stream["server"] # <<>> =>
             /\ at["server"] = "open"
             /\ Wanted(NextFrame("server")) > NextFrame("server").bytes
    BY DEF StreamEnds
  <2>2. stream["server"] # <<>> => Wanted(NextFrame("server")) # NextFrame("server").bytes
    <3> SUFFICES ASSUME stream["server"] # <<>>
                 PROVE  Wanted(NextFrame("server")) # NextFrame("server").bytes
      OBVIOUS
    <3>1. stream["server"] \in Seq(Item) /\ AllIn(stream["server"], Frame)
      BY <2>1 DEF Types, Stages, Ends
    <3>2. 1 \in 1 .. Len(stream["server"])
      BY <3>1, EmptySeq
    <3>3. NextFrame("server") \in Frame
      BY <3>1, <3>2 DEF AllIn, NextFrame
    <3>4. NextFrame("server").bytes \in Int
      BY <3>3 DEF Frame
    <3> QED
      BY <2>1, <3>4
  <2> QED
    BY <2>1, <2>2, EndsFacts DEF Over, Types
<1>2. at["client"] \in {"closed", "left"}
  BY <1>1 DEF Stages, Reaches
<1> SUFFICES ASSUME at["client"] = "closed", at["server"] = "open"
             PROVE  FALSE
  BY <1>1, <1>2 DEF Stages
<1>3. Reaches("server") /\ Reader("server")
  BY DEF Stages, Reaches, Reader
<1>4. PICK r : Foretold("server", r)
  BY <1>3 DEF Follows
<1>5. stream["server"] \in Seq(Item) /\ AllIn(stream["server"], Frame)
  BY DEF Types, Stages, Ends
<1>6. r[0].met = "none"
  BY <1>4 DEF Foretold
<1>7. r[Len(stream["server"])].met # "none"
  BY <1>3, <1>4 DEF Foretold, Complete
<1>8. CASE stream["server"] = <<>>
  BY <1>6, <1>7, <1>8
<1>9. CASE stream["server"] # <<>>
  <2>1. 1 \in 1 .. Len(stream["server"]) /\ 1 \in 0 .. Len(stream["server"])
    BY <1>5, <1>9, EmptySeq
  <2>2. stream["server"][1] = NextFrame("server") /\ NextFrame("server") \in Frame
    BY <1>5, <1>9, <2>1 DEF NextFrame, AllIn
  <2>3. Takes(sent["client"], r[1 - 1], stream["server"][1], r[1])
    BY <1>4, <2>1, EndsFacts DEF Foretold, ReadsOn
  <2>4. r[1 - 1] = r[0] /\ r[0] \in Reading
    BY <1>4 DEF Foretold, ReadsOn
  <2>5. NextFrame("server") \notin Https
    BY <2>2 DEF Https, Http, Frame
  <2>6. r[1].met = "torn"
    BY <1>1, <1>6, <1>9, <2>2, <2>3, <2>4, <2>5 DEF Takes, Reading
  <2>7. Excused("server", r[1])
    BY <1>4, <2>1 DEF Foretold
  <2> QED
    BY <2>6, <2>7 DEF Excused
<1> QED
  BY <1>8, <1>9

LEMMA StaysKept ==
  ASSUME IInv, Next
  PROVE  Stays'
<1> SUFFICES ASSUME ~broken', ~wrong'
             PROVE  /\ at'["client"] = "asked" /\ at'["server"] \in {"raised", "done"}
                         => stream'["client"] = <<>>
                    /\ at'["client"] = "open" => at'["server"] = "open"
                    /\ at'["client"] = "closed" /\ at'["server"] # "open"
                         => closed'["server"] /\ got'["server"] = sent'["client"]
  BY DEF Stays
<1>0. /\ Types /\ Stages /\ Stays /\ Received("server") /\ Follows("server")
      /\ at \in Ats /\ stream \in [Ends -> Seq(Item)]
      /\ closed \in [Ends -> BOOLEAN]
      /\ got \in [Ends -> Seq(Message)] /\ sent \in [Ends -> Seq(Message)]
  BY DEF IInv, Types, Ats, Ends
<1>1. CASE Connect
  <2>1. CASE Secure
    <3>1. at'["client"] = "secure"
      BY <2>1 DEF Secure
    <3> QED
      BY <3>1
  <2>2. CASE TlsFails
    <3>1. at["server"] = "tls" /\ at'["client"] = IF at["client"] = "tls" THEN "raised" ELSE at["client"]
      BY <1>0, <2>2, EndsFacts DEF TlsFails, Ats
    <3>2. at'["client"] \in {"raised", "left"}
      BY <1>0, <3>1 DEF Stages
    <3> QED
      BY <3>2
  <2>3. CASE Request
    <3>1. at["client"] = "secure" /\ at'["client"] = "asked" /\ at'["server"] = at["server"]
          /\ broken' = broken
      BY <1>0, <2>3, EndsFacts DEF Request, Ats
    <3>2. at["server"] \in {"tls", "handshake"}
      BY <1>0, <3>1 DEF Stages
    <3> QED
      BY <3>1, <3>2
  <2>4. CASE Opened
    <3>1. /\ at["client"] = "asked" /\ stream["client"] # <<>>
          /\ at'["client"] = "open" /\ at'["server"] = at["server"]
          /\ broken' = broken /\ wrong' = wrong
      BY <1>0, <2>4, EndsFacts DEF Opened, Ats, client
    <3>2. at["server"] \notin {"tls", "handshake"}
      BY <1>0, <3>1 DEF Stages
    <3>3. at["server"] \notin {"raised", "done"}
      BY <1>0, <3>1 DEF Stays
    <3>4. at["server"] = "open"
      BY <1>0, <3>2, <3>3, EndsFacts DEF Types
    <3> QED
      BY <3>1, <3>4
  <2> QED
    BY <1>1, <2>1, <2>2, <2>3, <2>4 DEF Connect
<1>2. CASE Client
  <2>1. CASE Send \/ SendLast \/ SendControl
    <3>1. at["client"] = "open" /\ at' = at /\ broken' = broken /\ wrong' = wrong
      BY <2>1 DEF Send, SendLast, SendControl, local
    <3> QED
      BY <1>0, <3>1 DEF Stays
  <2>2. CASE SendWrong
    BY <2>2 DEF SendWrong
  <2>3. CASE Close
    <3>1. /\ at["client"] = "open"
          /\ at'["client"] = "closed" /\ at'["server"] = at["server"]
          /\ broken' = broken /\ wrong' = wrong
      BY <1>0, <2>3, EndsFacts DEF Close, Ats, client
    <3> QED
      BY <1>0, <3>1 DEF Stays
  <2>4. CASE Exit
    <3>1. /\ \/ at'["client"] = "left"
             \/ at'["client"] = "closed" /\ at["client"] = "closed"
          /\ at'["server"] = at["server"]
      BY <1>0, <2>4, EndsFacts DEF Exit, Ats
    <3>2. /\ broken' = broken /\ wrong' = wrong /\ closed' = closed
          /\ got' = got /\ sent' = sent
      BY <2>4 DEF Exit, client, history
    <3> QED
      BY <1>0, <3>1, <3>2 DEF Stays
  <2> QED
    BY <1>2, <2>1, <2>2, <2>3, <2>4 DEF Client
<1>3. CASE Recv("client")
  <2>1. CASE RecvRefuses("client") \/ RecvClose("client") \/ StreamEnds("client")
    <3>1. at' = [at EXCEPT !["client"] = "raised"]
      BY <2>1 DEF RecvRefuses, RecvClose, StreamEnds
    <3>2. at'["client"] = "raised"
      BY <1>0, <3>1, EndsFacts DEF Ats
    <3> QED
      BY <3>2
  <2>2. CASE RecvControl("client") \/ RecvData("client")
    <3>1. at["client"] = "open" /\ at' = at /\ broken' = broken /\ wrong' = wrong
      BY <2>2 DEF RecvControl, RecvData, Reads, local, client
    <3> QED
      BY <1>0, <3>1 DEF Stays
  <2> QED
    BY <1>3, <2>1, <2>2 DEF Recv
<1>4. CASE Recv("server")
  <2>0. broken' = broken /\ wrong' = wrong
    BY <1>4 DEF Recv, RecvRefuses, RecvClose, StreamEnds, RecvControl, RecvData, client
  <2>1. CASE RecvRefuses("server")
    <3>1. PICK r : Excused("server", r[1]) /\ RecvFinds("server", r[1])
      BY <1>0, <2>1, ReadsFirst, EndsFacts DEF RecvRefuses
    <3>2. r[1].met = "wrong"
      BY <2>1, <3>1 DEF RecvRefuses, RecvFinds
    <3> QED
      BY <2>0, <3>1, <3>2 DEF Excused
  <2>2. CASE RecvClose("server")
    <3>1. PICK r : Excused("server", r[1]) /\ RecvFinds("server", r[1])
      BY <1>0, <2>2, ReadsFirst, EndsFacts DEF RecvClose
    <3>2. r[1].met = "close" /\ r[1].n = Len(got["server"])
      BY <2>2, <3>1, Opcodes DEF RecvClose, RecvFinds
    <3>3. at["client"] = "closed" /\ Len(got["server"]) = Len(sent["client"])
      BY <3>1, <3>2, EndsFacts DEF Excused
    <3>4. got["server"] = sent["client"]
      <4>1. got["server"] \in Seq(Message) /\ sent["client"] \in Seq(Message)
        BY <1>0, EndsFacts
      <4>2. \A i \in 1 .. Len(got["server"]) : got["server"][i] = sent["client"][i]
        BY <1>0, EndsFacts DEF Received
      <4> QED
        BY <3>3, <4>1, <4>2, SeqEqual
    <3>5. closed'["server"] /\ got' = got /\ sent' = sent /\ at'["client"] = at["client"]
      BY <1>0, <2>2, EndsFacts DEF RecvClose, history, Ats
    <3> QED
      BY <3>3, <3>4, <3>5
  <2>3. CASE RecvControl("server") \/ RecvData("server")
    <3>1. at["server"] = "open" /\ at' = at
      BY <2>3 DEF RecvControl, RecvData, Reads, local
    <3> QED
      BY <3>1
  <2>4. CASE StreamEnds("server")
    <3>1. at["client"] = "left"
      BY <1>0, <2>0, <2>4, EndOfStream
    <3>2. at'["client"] = at["client"]
      BY <1>0, <2>4, EndsFacts DEF StreamEnds, Ats
    <3> QED
      BY <3>1, <3>2
  <2> QED
    BY <1>4, <2>1, <2>2, <2>3, <2>4 DEF Recv
<1>5. CASE Upgrade
  <2>1. at'["server"] = "open"
    BY <1>0, <1>5, EndsFacts DEF Upgrade, Ats
  <2> QED
    BY <2>1
<1>6. CASE RefuseUpgrade
  <2>1. at["server"] = "handshake" /\ at'["client"] = at["client"]
        /\ stream'["client"] = stream["client"]
    BY <1>0, <1>6, EndsFacts DEF RefuseUpgrade, Ats
  <2>2. at["client"] \notin {"open", "closed"} /\ stream["client"] = <<>>
    BY <1>0, <2>1 DEF Stages
  <2> QED
    BY <2>1, <2>2
<1>7. CASE ServeEnds
  <2>1. /\ at["server"] = "raised" /\ at'["client"] = at["client"]
        /\ stream'["client"] = stream["client"]
    BY <1>0, <1>7, EndsFacts DEF ServeEnds, CloseSocket, Ats
  <2>2. /\ broken' = broken /\ wrong' = wrong /\ closed' = closed
        /\ got' = got /\ sent' = sent
    BY <1>7 DEF ServeEnds, client, history
  <2> QED
    BY <1>0, <2>1, <2>2 DEF Stays
<1>8. CASE PassTest
  <2>1. /\ at' = at /\ stream' = stream /\ closed' = closed /\ got' = got
        /\ sent' = sent /\ broken' = broken /\ wrong' = wrong
    BY <1>8 DEF PassTest, local, client, history
  <2> QED
    BY <1>0, <2>1 DEF Stays
<1>9. CASE WriteOut
  <2>1. /\ passed /\ at' = at /\ closed' = closed /\ got' = got
        /\ broken' = broken /\ wrong' = wrong
    BY <1>9 DEF WriteOut, local, client
  <2>2. sent'["client"] = sent["client"]
    BY <1>0, <1>9, EndsFacts DEF WriteOut
  <2>3. at["client"] # "asked"
    BY <1>0, <2>1 DEF Stages
  <2> QED
    BY <1>0, <2>1, <2>2, <2>3 DEF Stays
<1>10. CASE Break
  BY <1>10 DEF Break
<1> QED
  BY <1>1, <1>2, <1>3, <1>4, <1>5, <1>6, <1>7, <1>8, <1>9, <1>10
     DEF Next, ServerThread

-----------------------------------------------------------------------------
(***************************************************************************)
(* What every step keeps                                                   *)
(***************************************************************************)

LEMMA TypesKept ==
  ASSUME IInv, Next
  PROVE  Types' /\ Stages'
<1>1. /\ Types /\ Stages
      /\ \A e \in Ends : Received(e)
      /\ \A e \in Ends : Follows(e)
  BY DEF IInv
<1>2. CASE Connect
  BY <1>1, <1>2, ConnectTypes, ConnectStages DEF Connect
<1>3. CASE Client
  BY <1>1, <1>3, ClientTypes, ClientStages
<1>4. ASSUME NEW e \in Ends, Recv(e)
      PROVE  Types' /\ Stages'
  BY <1>1, <1>4, RecvTypes, RecvStages
<1>5. CASE Upgrade \/ RefuseUpgrade \/ ServeEnds \/ PassTest \/ WriteOut \/ Break
  BY <1>1, <1>5, OtherTypes, OtherStages
<1> QED
  BY <1>2, <1>3, <1>4, <1>5, EndsFacts DEF Next, ServerThread

\* Messages are added to those sent, by an end that is there.
LEMMA SentGrows ==
  ASSUME Types, Next
  PROVE  /\ \A e \in Ends : Extends(sent[e], sent'[e])
         /\ at["client"] = "closed" => sent'["client"] = sent["client"]
<1>0. /\ sent \in [Ends -> Seq(Message)]
      /\ sent["client"] \in Seq(Message) /\ sent["server"] \in Seq(Message)
  BY DEF Types, Ends
<1>1. ASSUME NEW M \in Seq(Message)
      PROVE  Extends(M, M) /\ \A m \in Message : Extends(M, Append(M, m))
  <2>1. Len(M) \in Nat
    OBVIOUS
  <2>2. \A m \in Message : /\ Len(Append(M, m)) = Len(M) + 1
                           /\ \A i \in 1 .. Len(M) : Append(M, m)[i] = M[i]
    BY AppendProperties
  <2> QED
    BY <2>1, <2>2 DEF Extends
<1>2. CASE sent' = sent
  BY <1>0, <1>1, <1>2
<1>3. ASSUME NEW e \in Ends, NEW m \in Message,
             sent' = [sent EXCEPT ![e] = Append(@, m)],
             e = "client" => at["client"] # "closed"
      PROVE  /\ \A d \in Ends : Extends(sent[d], sent'[d])
             /\ at["client"] = "closed" => sent'["client"] = sent["client"]
  <2>1. \A d \in Ends : sent'[d] = IF d = e THEN Append(sent[d], m) ELSE sent[d]
    BY <1>0, <1>3
  <2>2. \A d \in Ends : Extends(sent[d], sent'[d])
    BY <1>0, <1>1, <2>1
  <2> QED
    BY <1>3, <2>1, <2>2, EndsFacts
<1>4. \/ sent' = sent
      \/ \E e \in Ends, m \in Message :
           /\ sent' = [sent EXCEPT ![e] = Append(@, m)]
           /\ e = "client" => at["client"] # "closed"
  <2>1. CASE Connect
    BY <2>1 DEF Connect, Secure, TlsFails, Request, Opened, history
  <2>2. CASE Send
    BY <2>2, MessageFacts, EndsFacts DEF Send
  <2>3. CASE SendLast
    <3>1. rest[1] \in Message
      BY <2>3 DEF SendLast, Types
    <3> QED
      BY <2>3, <3>1, EndsFacts DEF SendLast
  <2>4. CASE SendControl \/ SendWrong \/ Close \/ Exit
    BY <2>4 DEF SendControl, SendWrong, Close, Exit, history
  <2>5. ASSUME NEW e \in Ends, Recv(e)
        PROVE  sent' = sent
    BY <2>5 DEF Recv, RecvRefuses, RecvControl, RecvClose, RecvData, StreamEnds,
                history
  <2>6. CASE Upgrade \/ RefuseUpgrade \/ ServeEnds \/ PassTest \/ Break
    BY <2>6 DEF Upgrade, RefuseUpgrade, ServeEnds, PassTest, Break, history
  <2>7. CASE WriteOut
    BY <2>7, MessageFacts, EndsFacts DEF WriteOut
  <2> QED
    BY <2>1, <2>2, <2>3, <2>4, <2>5, <2>6, <2>7, EndsFacts
       DEF Next, Client, ServerThread
<1> QED
  BY <1>2, <1>3, <1>4

\* Nothing is mended, and nobody comes back.
LEMMA Onward ==
  ASSUME Types, Stages, Next
  PROVE  /\ broken => broken'
         /\ wrong => wrong'
         /\ at["client"] = "closed" => at'["client"] = "closed"
         /\ \A e \in Ends : Reader(e)' => Reader(e)
         /\ \A e \in Ends : socket'[e] => socket[e]
<1>0. at \in Ats /\ socket \in [Ends -> BOOLEAN]
  BY DEF Types, Ats
<1>1. broken => broken'
  BY DEF Next, Connect, Secure, TlsFails, Request, Opened, Client, Send, SendLast,
         SendControl, SendWrong, Close, Exit, Recv, RecvRefuses, RecvControl,
         RecvClose, RecvData, StreamEnds, ServerThread, Upgrade, RefuseUpgrade,
         ServeEnds, PassTest, WriteOut, Break
<1>2. wrong => wrong'
  BY DEF Next, Connect, Secure, TlsFails, Request, Opened, Client, Send, SendLast,
         SendControl, SendWrong, Close, Exit, Recv, RecvRefuses, RecvControl,
         RecvClose, RecvData, StreamEnds, ServerThread, Upgrade, RefuseUpgrade,
         ServeEnds, PassTest, WriteOut, Break, client
<1>3. /\ at["client"] = "closed" => at'["client"] = "closed"
      /\ \A e \in Ends : Reader(e)' => Reader(e)
  <2>1. CASE Secure
    <3>1. at' = [client |-> "secure", server |-> "handshake"]
          /\ at["client"] = "tls" /\ at["server"] = "tls"
      BY <2>1 DEF Secure
    <3> QED
      BY <3>1, EndsFacts DEF Reader
  <2>2. CASE TlsFails
    <3>1. at["server"] = "tls"
          /\ at'["server"] = "done"
          /\ at'["client"] = IF at["client"] = "tls" THEN "raised" ELSE at["client"]
      BY <1>0, <2>2, EndsFacts DEF TlsFails, Ats
    <3> QED
      BY <3>1, EndsFacts DEF Reader
  <2>3. ASSUME NEW d \in Ends, NEW a, at' = [at EXCEPT ![d] = a], Reader(d)
        PROVE  /\ at["client"] = "closed" => at'["client"] = "closed"
               /\ \A e \in Ends : Reader(e)' => Reader(e)
    <3>1. \A e \in Ends : e # d => at'[e] = at[e]
      BY <1>0, <2>3 DEF Ats
    <3>2. d = "client" => at["client"] # "closed"
      BY <2>3 DEF Reader
    <3> QED
      BY <2>3, <3>1, <3>2, EndsFacts DEF Reader
  <2>4. CASE Request \/ Opened \/ Close
    BY <2>4, <2>3, EndsFacts DEF Request, Opened, Close, Reader
  <2>5. CASE Upgrade \/ RefuseUpgrade
    BY <2>5, <2>3, EndsFacts DEF Upgrade, RefuseUpgrade, Reader
  <2>6. CASE ServeEnds
    <3>1. at["server"] = "raised" /\ at'["client"] = at["client"]
          /\ at'["server"] = "done"
      BY <1>0, <2>6, EndsFacts DEF ServeEnds, Ats
    <3> QED
      BY <3>1, EndsFacts DEF Reader
  <2>7. CASE Exit
    <3>1. /\ at'["client"] = IF at["client"] = "closed" THEN "closed" ELSE "left"
          /\ at'["server"] = at["server"]
      BY <1>0, <2>7, EndsFacts DEF Exit, Ats
    <3> QED
      BY <3>1, EndsFacts DEF Reader
  <2>8. CASE at' = at
    BY <2>8 DEF Reader
  <2>9. CASE Send \/ SendLast \/ SendControl \/ SendWrong \/ PassTest \/ WriteOut \/ Break
    BY <2>8, <2>9 DEF Send, SendLast, SendControl, SendWrong, PassTest, WriteOut,
                      Break, local
  <2>10. ASSUME NEW d \in Ends, Recv(d)
         PROVE  at' = at \/ (Reader(d) /\ at' = [at EXCEPT ![d] = "raised"])
    BY <2>10 DEF Recv, RecvRefuses, RecvControl, RecvClose, RecvData, StreamEnds,
                 Reads, local, Reader
  <2> QED
    BY <2>1, <2>2, <2>3, <2>4, <2>5, <2>6, <2>7, <2>8, <2>9, <2>10, EndsFacts
       DEF Next, Connect, Client, ServerThread
<1>4. \A e \in Ends : socket'[e] => socket[e]
  <2>1. ASSUME NEW d \in Ends, NEW b \in BOOLEAN, b => socket[d],
               socket' = [socket EXCEPT ![d] = b]
        PROVE  \A e \in Ends : socket'[e] => socket[e]
    BY <1>0, <2>1
  <2>2. CASE TlsFails \/ ServeEnds \/ Exit
    BY <2>1, <2>2, EndsFacts DEF TlsFails, ServeEnds, Exit, CloseSocket
  <2>3. CASE Close
    <3>1. socket["client"] /\ socket' = [socket EXCEPT !["client"] = foreign]
          /\ foreign \in BOOLEAN
      BY <2>3 DEF Close, Stages, Types
    <3> QED
      BY <2>1, <3>1, EndsFacts
  <2>4. \/ socket' = socket
        \/ TlsFails \/ ServeEnds \/ Exit \/ Close
    BY DEF Next, Connect, Secure, TlsFails, Request, Opened, Client, Send, SendLast,
           SendControl, SendWrong, Close, Exit, Recv, RecvRefuses, RecvControl,
           RecvClose, RecvData, StreamEnds, ServerThread, Upgrade, RefuseUpgrade,
           ServeEnds, PassTest, WriteOut, Break, local
  <2> QED
    BY <2>2, <2>3, <2>4
<1> QED
  BY <1>1, <1>2, <1>3, <1>4

\* What recv returns next is what comes next of what was sent.
LEMMA ReceivedKept ==
  ASSUME IInv, Next, NEW e \in Ends
  PROVE  Received(e)'
<1>0. /\ Types /\ Stages /\ Received(e) /\ Follows(e)
      /\ Peer(e) \in Ends /\ got \in [Ends -> Seq(Message)]
      /\ got[e] \in Seq(Message) /\ Len(got[e]) \in Nat
      /\ sent[Peer(e)] \in Seq(Message) /\ Len(sent[Peer(e)]) \in Nat
  BY EndsFacts DEF IInv, Types
<1>1. CASE got'[e] = got[e]
  <2>1. Extends(sent[Peer(e)], sent'[Peer(e)]) /\ Len(sent'[Peer(e)]) \in Nat
    BY <1>0, SentGrows, TypesKept DEF Types
  <2>2. Len(got[e]) <= Len(sent'[Peer(e)])
    BY <1>0, <2>1 DEF Received, Extends
  <2>3. \A i \in 1 .. Len(got[e]) : got[e][i] = sent'[Peer(e)][i]
    BY <1>0, <2>1 DEF Received, Extends
  <2> QED
    BY <1>1, <2>2, <2>3 DEF Received
<1>2. CASE RecvData(e)
  <2>1. PICK r : RecvFinds(e, r[1])
    BY <1>0, <1>2, ReadsFirst DEF RecvData
  <2>2. sent' = sent
    BY <1>2 DEF RecvData
  <2>3. CASE ~Fin(NextFrame(e))
    BY <1>1, <1>2, <2>3 DEF RecvData
  <2>4. CASE Fin(NextFrame(e))
    <3>1. got' = [got EXCEPT ![e] = Append(@, Collected(e))]
      BY <1>2, <2>4 DEF RecvData
    <3>2. /\ Len(got[e]) < Len(sent[Peer(e)])
          /\ Collected(e) = sent[Peer(e)][Len(got[e]) + 1]
      BY <1>2, <2>1, <2>4, Opcodes DEF RecvFinds, RecvData
    <3>3. Collected(e) \in Message
      BY <1>0, <3>2
    <3>4. got'[e] = Append(got[e], Collected(e))
      BY <1>0, <3>1
    <3>5. /\ Len(got'[e]) = Len(got[e]) + 1
          /\ got'[e][Len(got[e]) + 1] = Collected(e)
          /\ \A i \in 1 .. Len(got[e]) : got'[e][i] = got[e][i]
      BY <1>0, <3>3, <3>4, AppendProperties
    <3>6. \A i \in 1 .. Len(got[e]) + 1 : got'[e][i] = sent[Peer(e)][i]
      BY <1>0, <3>2, <3>5 DEF Received
    <3>7. Len(got[e]) + 1 <= Len(sent[Peer(e)])
      BY <1>0, <3>2
    <3> QED
      BY <2>2, <3>5, <3>6, <3>7 DEF Received
  <2> QED
    BY <2>3, <2>4
<1>3. got'[e] = got[e] \/ RecvData(e)
  <2>1. ASSUME NEW d \in Ends, Recv(d)
        PROVE  got'[e] = got[e] \/ RecvData(e)
    <3>1. CASE RecvData(d) /\ d # e
      BY <1>0, <3>1 DEF RecvData
    <3>2. CASE RecvRefuses(d) \/ RecvControl(d) \/ RecvClose(d) \/ StreamEnds(d)
      BY <3>2 DEF RecvRefuses, RecvControl, RecvClose, StreamEnds, history
    <3> QED
      BY <2>1, <3>1, <3>2 DEF Recv
  <2>2. CASE ~ \E d \in Ends : Recv(d)
    BY <2>2, EndsFacts
       DEF Next, Connect, Secure, TlsFails, Request, Opened, Client, Send, SendLast,
           SendControl, SendWrong, Close, Exit, ServerThread, Upgrade, RefuseUpgrade,
           ServeEnds, PassTest, WriteOut, Break, history
  <2> QED
    BY <2>1, <2>2
<1> QED
  BY <1>1, <1>2, <1>3

\* What the lemmas on reading ahead ask of a step.
LEMMA ReadingKept ==
  ASSUME IInv, Next, NEW e \in Ends
  PROVE  /\ Types /\ Follows(e)
         /\ Reader(e)' => Reader(e)
         /\ Reaches(e)' => Reaches(e)
         /\ sent[Peer(e)] \in Seq(Message) /\ sent'[Peer(e)] \in Seq(Message)
         /\ Extends(sent[Peer(e)], sent'[Peer(e)])
         /\ \A y \in Reading : Excused(e, y) => Excused(e, y)'
<1>0. Types /\ Stages /\ Follows(e) /\ Peer(e) \in Ends
  BY EndsFacts DEF IInv
<1>1. Types'
  BY TypesKept
<1>2. sent[Peer(e)] \in Seq(Message) /\ sent'[Peer(e)] \in Seq(Message)
      /\ Extends(sent[Peer(e)], sent'[Peer(e)])
  BY <1>0, <1>1, SentGrows DEF Types
<1>3. (Reader(e)' => Reader(e)) /\ (socket'[e] => socket[e]) /\ (broken => broken')
  BY <1>0, Onward
<1>4. Reaches(e)' => Reaches(e)
  BY <1>3 DEF Reaches
<1>5. ASSUME NEW y \in Reading, Excused(e, y)
      PROVE  Excused(e, y)'
  <2>1. y.met = "torn" => broken'
    BY <1>3, <1>5 DEF Excused
  <2>2. y.met = "wrong" => e = "server" /\ wrong'
    BY <1>0, <1>5, Onward DEF Excused
  <2>3. y.met = "close" => /\ e = "server" /\ at'["client"] = "closed"
                           /\ y.n = Len(sent'[Peer(e)])
    BY <1>0, <1>5, Onward, SentGrows, EndsFacts DEF Excused
  <2> QED
    BY <2>1, <2>2, <2>3 DEF Excused
<1> QED
  BY <1>0, <1>2, <1>3, <1>4, <1>5

\* A step that concerns neither an end nor what is sent to it.
LEMMA Undisturbed ==
  ASSUME IInv, Next, NEW e \in Ends, stream'[e] = stream[e], got'[e] = got[e],
         chunks'[e] = chunks[e], sent'[Peer(e)] = sent[Peer(e)],
         e = "server" => /\ rest' = rest /\ wrong' = wrong
                         /\ at'["client"] = "closed" => at["client"] = "closed"
  PROVE  Follows(e)'
<1>1. \A y \in Reading : Complete(e, y) => Complete(e, y)'
  BY DEF Complete, Begun
<1> QED
  BY <1>1, ReadingKept, FollowsSame

\* An item is put on an end's stream that it passes over.
LEMMA PassedOver ==
  ASSUME IInv, Next, NEW e \in Ends, NEW f \in Item,
         stream'[e] = IF Reaches(e) THEN Append(stream[e], f) ELSE stream[e],
         got'[e] = got[e], chunks'[e] = chunks[e], sent'[Peer(e)] = sent[Peer(e)],
         e = "server" => /\ rest' = rest /\ wrong' = wrong
                         /\ at'["client"] = "closed" => at["client"] = "closed",
         \/ f \in Https
         \/ \E opcode \in {OP_PING, OP_PONG} : Written(f, opcode, <<>>)
  PROVE  Follows(e)'
<1>1. \A M : \A x \in Reading : x.met = "none" => Takes(M, x, f, x)
  <2>1. CASE f \in Https
    BY <2>1 DEF Takes
  <2>2. CASE \E opcode \in {OP_PING, OP_PONG} : Written(f, opcode, <<>>)
    BY <2>2 DEF Takes, Understood, Written
  <2> QED
    BY <2>1, <2>2
<1>2. \A y \in Reading : y.met = "none" => Excused(e, y)'
  BY DEF Excused
<1>3. \A y \in Reading : Complete(e, y) => Complete(e, y)'
  BY DEF Complete, Begun
<1>4. \A x \in Reading : x.met = "none" /\ Complete(e, x) =>
        /\ Takes(sent'[Peer(e)], x, f, x) /\ Excused(e, x)' /\ Complete(e, x)'
  BY <1>1, <1>2, <1>3
<1> QED
  BY <1>4, ReadingKept, FollowsPut

-----------------------------------------------------------------------------
(***************************************************************************)
(* Every step agrees with what was foretold                                *)
(***************************************************************************)

\* The opening handshake takes an HTTP block off a stream.
LEMMA HttpTaken ==
  ASSUME IInv, Next, NEW e \in Ends, Reader(e), stream[e] # <<>>,
         stream[e][1] \in Https, stream'[e] = Tail(stream[e]),
         got'[e] = got[e], chunks'[e] = chunks[e], sent' = sent,
         e = "server" => /\ rest' = rest /\ wrong' = wrong
                         /\ at'["client"] = "closed" => at["client"] = "closed"
  PROVE  Follows(e)'
<1>1. Types /\ Follows(e)
  BY ReadingKept
<1>2. PICK r : Foretold(e, r)
  BY <1>1 DEF Follows
<1>3. stream[e] \in Seq(Item) /\ 1 \in 1 .. Len(stream[e])
  BY <1>1, EmptySeq DEF Types
<1>4. Takes(sent[Peer(e)], r[1 - 1], stream[e][1], r[1])
  BY <1>2, <1>3 DEF Foretold, ReadsOn
<1>5. r[0] = [n |-> Len(got[e]), part |-> chunks[e], met |-> "none"]
  BY <1>2 DEF Foretold
<1>6. stream[e][1] \notin Frame
  <2>1. ASSUME NEW f, f \in Frame
        PROVE  f \notin Https
    <3>1. "b0" \in DOMAIN f
      BY <2>1 DEF Frame
    <3>2. \A block : "b0" \notin DOMAIN Http(block)
      BY DEF Http
    <3> QED
      BY <3>1, <3>2 DEF Https
  <2> QED
    BY <2>1
<1>7. r[1] = r[0]
  BY <1>4, <1>5, <1>6 DEF Takes
<1>8. r[1] = [n |-> Len(got'[e]), part |-> chunks'[e], met |-> "none"]
  BY <1>5, <1>7
<1>9. \A y \in Reading : Complete(e, y) => Complete(e, y)'
  BY DEF Complete, Begun
<1> QED
  BY <1>1, <1>2, <1>8, <1>9, ReadingKept, FollowsRead

\* recv takes a frame off a stream.
LEMMA RecvFollows ==
  ASSUME IInv, Next, NEW e \in Ends, RecvControl(e) \/ RecvData(e)
  PROVE  Follows(e)'
<1>0. /\ Types /\ Stages /\ Follows(e) /\ Reads(e) /\ stream[e] # <<>>
      /\ stream \in [Ends -> Seq(Item)] /\ chunks[e] \in Message \cup {NoMessage}
      /\ got[e] \in Seq(Message) /\ got \in [Ends -> Seq(Message)]
      /\ chunks \in [Ends -> Message \cup {NoMessage}]
  BY DEF IInv, RecvControl, RecvData, Reads, Types
<1>1. PICK r : Foretold(e, r) /\ RecvFinds(e, r[1])
  BY <1>0, ReadsFirst
<1>2. /\ stream'[e] = Tail(stream[e]) /\ sent' = sent /\ at' = at
      /\ rest' = rest /\ wrong' = wrong
  <2>1. CASE Take(e)
    BY <1>0, <2>1 DEF RecvControl, RecvData, Take, local, client, history
  <2>2. CASE RecvControl(e) /\ ~Take(e)
    <3>1. PICK f : stream' = [stream EXCEPT ![e] = Tail(@), ![Peer(e)] = Append(@, f)]
      BY <2>2 DEF RecvControl
    <3>2. stream'[e] = Tail(stream[e])
      BY <1>0, <3>1, EndsFacts
    <3> QED
      BY <2>2, <3>2 DEF RecvControl, local, client, history
  <2> QED
    BY <2>1, <2>2 DEF RecvData
<1>3. r[1] = [n |-> Len(got'[e]), part |-> chunks'[e], met |-> "none"]
  <2>1. CASE RecvControl(e)
    <3>1. got' = got /\ chunks' = chunks
      BY <2>1 DEF RecvControl, local, history
    <3>2. r[1] = [n |-> Len(got[e]), part |-> chunks[e], met |-> "none"]
      BY <1>1, <2>1, Opcodes DEF RecvFinds, RecvControl
    <3> QED
      BY <3>1, <3>2
  <2>2. CASE RecvData(e) /\ Fin(NextFrame(e))
    <3>1. /\ Collected(e) = sent[Peer(e)][Len(got[e]) + 1]
          /\ Len(got[e]) < Len(sent[Peer(e)])
          /\ r[1] = [n |-> Len(got[e]) + 1, part |-> NoMessage, met |-> "none"]
      BY <1>1, <2>2, Opcodes DEF RecvFinds, RecvData
    <3>2. sent[Peer(e)] \in Seq(Message)
      BY ReadingKept
    <3>3. Collected(e) \in Message
      BY <1>0, <3>1, <3>2
    <3>4. got'[e] = Append(got[e], Collected(e)) /\ chunks'[e] = NoMessage
      BY <1>0, <2>2 DEF RecvData
    <3>5. Len(got'[e]) = Len(got[e]) + 1
      BY <1>0, <3>3, <3>4, AppendProperties
    <3> QED
      BY <3>1, <3>4, <3>5
  <2>3. CASE RecvData(e) /\ ~Fin(NextFrame(e))
    <3>1. r[1] = [n |-> Len(got[e]), part |-> Collected(e), met |-> "none"]
      BY <1>1, <2>3, Opcodes DEF RecvFinds, RecvData
    <3>2. chunks'[e] = Collected(e) /\ got' = got
      BY <1>0, <2>3 DEF RecvData
    <3> QED
      BY <3>1, <3>2
  <2> QED
    BY <2>1, <2>2, <2>3
<1>4. \A y \in Reading : Complete(e, y) => Complete(e, y)'
  BY <1>2 DEF Complete, Begun
<1> QED
  BY <1>0, <1>1, <1>2, <1>3, <1>4, ReadingKept, FollowsRead

\* The other end is told nothing, or sent a pong.
LEMMA RecvFollowsOther ==
  ASSUME IInv, Next, NEW d \in Ends, Recv(d), NEW e \in Ends, e # d
  PROVE  Follows(e)'
<1>0. /\ e = Peer(d) /\ Types /\ Stages /\ Follows(d) /\ at \in Ats
      /\ stream \in [Ends -> Seq(Item)] /\ stream[e] \in Seq(Item)
  BY EndsFacts DEF IInv, Types, Ats
<1>1. /\ chunks'[e] = chunks[e] /\ got'[e] = got[e] /\ sent' = sent
      /\ rest' = rest /\ wrong' = wrong
      /\ at'["client"] = "closed" => at["client"] = "closed"
  <2>1. chunks'[e] = chunks[e]
    BY <1>0 DEF Recv, RecvRefuses, RecvControl, RecvClose, RecvData, StreamEnds,
                local, Types
  <2>2. got'[e] = got[e]
    BY <1>0 DEF Recv, RecvRefuses, RecvControl, RecvClose, RecvData, StreamEnds,
                history, Types
  <2>3. sent' = sent /\ rest' = rest /\ wrong' = wrong
    BY DEF Recv, RecvRefuses, RecvControl, RecvClose, RecvData, StreamEnds,
           history, client
  <2>4. at' = at \/ at' = [at EXCEPT ![d] = "raised"]
    BY DEF Recv, RecvRefuses, RecvControl, RecvClose, RecvData, StreamEnds, local
  <2>5. at'["client"] = "closed" => at["client"] = "closed"
    BY <1>0, <2>4 DEF Ats, Ends
  <2> QED
    BY <2>1, <2>2, <2>3, <2>5
<1>2. CASE stream'[e] = stream[e]
  BY <1>1, <1>2, Undisturbed
<1>3. CASE RecvControl(d) /\ ~Take(d)
  <2>1. PICK f \in Frames(d, OP_PONG, Payload(NextFrame(d)).text) :
          /\ stream' = [stream EXCEPT ![d] = Tail(@), ![Peer(d)] = Append(@, f)]
          /\ Reaches(Peer(d))
    BY <1>3 DEF RecvControl
  <2>2. PICK r : RecvFinds(d, r[1])
    BY <1>0, <1>3, ReadsFirst DEF RecvControl
  <2>3. Payload(NextFrame(d)).text = <<>>
    BY <1>3, <2>2, Opcodes DEF RecvFinds, RecvControl
  <2>4. Written(f, OP_PONG, <<>>)
    <3>1. OP_PONG \in ValidOpcodes /\ <<>> \in Seq(Texts)
      BY Opcodes
    <3> QED
      BY <2>1, <2>3, <3>1, FramesWritten
  <2>5. f \in Item
    BY <2>4, WrittenItem
  <2>6. stream'[e] = IF Reaches(e) THEN Append(stream[e], f) ELSE stream[e]
    BY <1>0, <2>1
  <2> QED
    BY <1>1, <2>4, <2>5, <2>6, PassedOver
<1>4. stream'[e] = stream[e] \/ (RecvControl(d) /\ ~Take(d))
  <2>1. Take(d) => stream'[e] = stream[e]
    BY <1>0 DEF Take
  <2> QED
    BY <2>1 DEF Recv, RecvRefuses, RecvControl, RecvClose, RecvData, StreamEnds
<1> QED
  BY <1>2, <1>3, <1>4

\* A message is sent, or the last fragment of one.
LEMMA MessageSent ==
  ASSUME IInv, Next, NEW e \in Ends,
         NEW f, NEW opcode \in {OP_CONT, OP_TEXT, OP_BINARY}, NEW m \in Seq(Texts),
         Written(f, opcode, m), NEW message \in Message,
         stream'[e] = IF Reaches(e) THEN Append(stream[e], f) ELSE stream[e],
         got'[e] = got[e], chunks'[e] = chunks[e],
         sent'[Peer(e)] = Append(sent[Peer(e)], message),
         opcode = OP_CONT <=> Begun(e) # NoMessage,
         message.opcode = IF opcode = OP_CONT THEN Begun(e).opcode ELSE opcode,
         message.parts = Begun(e).parts \o m,
         Begun(e)' = NoMessage,
         e = "server" => ~wrong' /\ at'["client"] # "closed"
  PROVE  Follows(e)'
<1> DEFINE M == sent[Peer(e)]
           N == sent'[Peer(e)]
<1>1. M \in Seq(Message) /\ N \in Seq(Message) /\ Len(M) \in Nat
  BY ReadingKept
<1>2. Len(N) = Len(M) + 1 /\ N[Len(M) + 1] = message
  BY <1>1, AppendProperties
<1>3. ASSUME NEW x \in Reading, x.met = "none", Complete(e, x)
      PROVE  \E y \in Reading : /\ Takes(N, x, f, y)
                                /\ Excused(e, y)' /\ Complete(e, y)'
  <2>1. x.n = Len(M) /\ x.part = Begun(e)
    BY <1>3 DEF Complete
  <2>2. message = Joined(x, f)
    <3>1. message = [opcode |-> message.opcode, parts |-> message.parts]
      BY DEF Message
    <3> QED
      BY <2>1, <3>1 DEF Joined, Written
  <2>3. PICK y : y = [x EXCEPT !.n = @ + 1, !.part = NoMessage]
    OBVIOUS
  <2>10. y.n = x.n + 1 /\ y.part = NoMessage /\ y.met = "none" /\ y \in Reading
    <3>1. x.n + 1 \in Nat
      BY DEF Reading
    <3>2. y = [n |-> x.n + 1, part |-> NoMessage, met |-> "none"]
      BY <1>3, <2>3 DEF Reading
    <3> QED
      BY <3>1, <3>2 DEF Reading
  <2>4. DataFrame(f) /\ Fin(f) /\ (Opcode(f) = OP_CONT <=> x.part # NoMessage)
    BY <2>1 DEF DataFrame, Written
  <2>5. x.n < Len(N) /\ N[x.n + 1] = Joined(x, f)
    BY <1>1, <1>2, <2>1, <2>2
  <2> HIDE DEF N
  <2>6. Understood(N, x, f, y)
    BY <2>3, <2>4, <2>5 DEF Understood
  <2>7. Takes(N, x, f, y)
    BY <1>3, <2>6 DEF Takes, Written
  <2>8. Excused(e, y)'
    BY <2>10 DEF Excused
  <2>9. Complete(e, y)'
    BY <1>2, <2>1, <2>10 DEF Complete, N
  <2> QED
    BY <2>7, <2>8, <2>9, <2>10
<1>4. f \in Item
  BY WrittenItem
<1> QED
  BY <1>3, <1>4, ReadingKept, FollowsPut

LEMMA SendFollows ==
  ASSUME IInv, Send
  PROVE  Follows("server")'
<1>0. /\ Types /\ Next /\ sent \in [Ends -> Seq(Message)]
      /\ at["client"] = "open" /\ rest = <<>>
      /\ at' = at /\ wrong' = wrong /\ got' = got /\ chunks' = chunks
  BY DEF IInv, Types, Next, Client, Send, local
<1>1. PICK m \in Messages :
       \/ /\ \E f \in Frames("client", m.opcode, m.parts) : Put("client", f)
          /\ sent' = IF wrong THEN sent
                     ELSE [sent EXCEPT !["client"] = Append(@, m)]
          /\ rest' = rest
       \/ /\ foreign /\ Len(m.parts) > 1 /\ ~wrong
          /\ \E f \in Frames("client", m.opcode, <<Head(m.parts)>>) :
               Put("client", Unfinished(f))
          /\ rest' = <<m>>
          /\ sent' = sent
  BY DEF Send
<1>2. /\ m \in Message /\ m.parts \in Seq(Texts) /\ m.parts # <<>>
      /\ m.opcode \in {OP_TEXT, OP_BINARY} /\ m.opcode \in ValidOpcodes
      /\ m.opcode \notin ControlOpcodes /\ m.opcode # OP_CONT
  BY MessageFacts, Opcodes
<1>3. NoMessage.parts = <<>> /\ Begun("server") = NoMessage
  BY <1>0, MessageFacts DEF Begun
<1>4. CASE /\ \E f \in Frames("client", m.opcode, m.parts) : Put("client", f)
           /\ sent' = IF wrong THEN sent
                      ELSE [sent EXCEPT !["client"] = Append(@, m)]
           /\ rest' = rest
  <2>1. PICK f \in Frames("client", m.opcode, m.parts) : Put("client", f)
    BY <1>4
  <2>2. Written(f, m.opcode, m.parts)
    BY <1>2, <2>1, FramesWritten, EndsFacts
  <2>3. f \in Item
    BY <2>2, WrittenItem
  <2>4. stream'["server"] = IF Reaches("server") THEN Append(stream["server"], f)
                            ELSE stream["server"]
    BY <1>0, <2>1, <2>3, PutEffect, EndsFacts
  <2>5. CASE wrong
    <3>1. \A x \in Reading : x.met = "none" => ~Complete("server", x)
      BY <2>5 DEF Complete
    <3> QED
      BY <1>0, <2>3, <2>4, <3>1, ReadingKept, FollowsPut, EndsFacts
  <2>6. CASE ~wrong
    <3>1. sent'["client"] = Append(sent["client"], m)
      BY <1>0, <1>4, <2>6, EndsFacts
    <3>2. m.parts = <<>> \o m.parts
      BY <1>2, ConcatProperties, SeqEqual
    <3>3. Begun("server")' = NoMessage
      BY <1>0, <1>4 DEF Begun
    <3>4. "server" \in Ends /\ Peer("server") = "client"
      BY EndsFacts
    <3>5. m.opcode \in {OP_CONT, OP_TEXT, OP_BINARY}
      BY <1>2
    <3> QED
      BY <1>0, <1>2, <1>3, <2>2, <2>4, <2>6, <3>1, <3>2, <3>3, <3>4, <3>5, MessageSent
  <2> QED
    BY <2>5, <2>6
<1>5. CASE /\ foreign /\ Len(m.parts) > 1 /\ ~wrong
           /\ \E f \in Frames("client", m.opcode, <<Head(m.parts)>>) :
                Put("client", Unfinished(f))
           /\ rest' = <<m>>
           /\ sent' = sent
  <2>1. PICK f \in Frames("client", m.opcode, <<Head(m.parts)>>) :
          Put("client", Unfinished(f))
    BY <1>5
  <2>2. <<Head(m.parts)>> \in Seq(Texts)
    BY <1>2
  <2>3. Written(f, m.opcode, <<Head(m.parts)>>)
    BY <1>2, <2>1, <2>2, FramesWritten, EndsFacts
  <2>4. PICK g : g = Unfinished(f)
    OBVIOUS
  <2>5. /\ g \in Frame /\ Wanted(g) = g.bytes /\ DataFrame(g) /\ ~Fin(g)
        /\ Opcode(g) = m.opcode /\ Payload(g).text = <<Head(m.parts)>>
    BY <1>2, <2>3, <2>4, UnfinishedReads
  <2>6. stream'["server"] = IF Reaches("server") THEN Append(stream["server"], g)
                            ELSE stream["server"]
    BY <1>0, <2>1, <2>4, <2>5, PutEffect, EndsFacts DEF Item
  <2>7. ASSUME NEW x \in Reading, x.met = "none", Complete("server", x)
        PROVE  \E y \in Reading : /\ Takes(sent'["client"], x, g, y)
                                  /\ Excused("server", y)' /\ Complete("server", y)'
    <3>1. /\ x.n = Len(sent["client"]) /\ x.part = NoMessage
      BY <1>3, <2>7, EndsFacts DEF Complete
    <3>2. PICK part : part = [opcode |-> m.opcode, parts |-> <<Head(m.parts)>>]
      OBVIOUS
    <3>3. part \in Message
      BY <1>2, <2>2, <3>2 DEF Message
    <3>4. <<>> \o <<Head(m.parts)>> = <<Head(m.parts)>>
      OBVIOUS
    <3>5. Joined(x, g) = part
      BY <1>2, <1>3, <2>5, <3>1, <3>2, <3>4 DEF Joined
    <3>6. PICK y : y = [x EXCEPT !.part = part]
      OBVIOUS
    <3>7. y \in Reading /\ y.met = "none" /\ y.part = part /\ y.n = x.n
      BY <2>7, <3>3, <3>6 DEF Reading
    <3>8. Takes(sent'["client"], x, g, y)
      <4>1. Understood(sent'["client"], x, g, y)
        BY <1>2, <2>5, <3>1, <3>5, <3>6 DEF Understood
      <4> QED
        BY <2>5, <2>7, <4>1 DEF Takes
    <3>9. Excused("server", y)'
      BY <3>7 DEF Excused
    <3>10. Complete("server", y)'
      <4>1. Begun("server")' = part
        BY <1>5, <3>2 DEF Begun
      <4> QED
        BY <1>0, <1>5, <3>1, <3>7, <4>1, EndsFacts DEF Complete
    <3> QED
      BY <3>7, <3>8, <3>9, <3>10
  <2> QED
    BY <1>0, <2>5, <2>6, <2>7, ReadingKept, FollowsPut, EndsFacts DEF Item
<1> QED
  BY <1>1, <1>4, <1>5

LEMMA SendLastFollows ==
  ASSUME IInv, SendLast
  PROVE  Follows("server")'
<1>0. /\ Types /\ Next /\ sent \in [Ends -> Seq(Message)]
      /\ at["client"] = "open" /\ rest # <<>> /\ ~wrong
      /\ at' = at /\ wrong' = wrong /\ got' = got /\ chunks' = chunks
      /\ rest' = <<>> /\ rest[1] \in Message /\ Len(rest[1].parts) > 1
      /\ sent' = [sent EXCEPT !["client"] = Append(@, rest[1])]
  BY DEF IInv, Types, Next, Client, SendLast, local
<1>1. PICK message \in Message : message = rest[1]
  BY <1>0
<1>2. /\ message.parts \in Seq(Texts) /\ message.parts # <<>>
      /\ message.opcode \in {OP_TEXT, OP_BINARY} /\ message.opcode # OP_CONT
  BY <1>0, <1>1, MessageFacts, Opcodes
<1>3. /\ Tail(message.parts) \in Seq(Texts) /\ <<Head(message.parts)>> \in Seq(Texts)
      /\ message.parts = <<Head(message.parts)>> \o Tail(message.parts)
  <2>1. Tail(message.parts) \in Seq(Texts) /\ <<Head(message.parts)>> \in Seq(Texts)
    BY <1>2, HeadTailProperties
  <2>2. PICK a \in Seq(Texts), b \in Seq(Texts) : /\ a = <<Head(message.parts)>>
                                                  /\ b = Tail(message.parts)
    BY <2>1
  <2>3. /\ Len(a) = 1 /\ a[1] = message.parts[1]
        /\ Len(b) = Len(message.parts) - 1
        /\ \A i \in 1 .. Len(b) : b[i] = message.parts[i + 1]
        /\ Len(message.parts) \in Nat
    BY <1>2, <2>2, HeadTailProperties
  <2>4. /\ a \o b \in Seq(Texts) /\ Len(a \o b) = Len(message.parts)
        /\ \A i \in 1 .. Len(message.parts) : (a \o b)[i] = message.parts[i]
    BY <2>2, <2>3, ConcatProperties
  <2>5. a \o b = message.parts
    BY <1>2, <2>4, SeqEqual
  <2> QED
    BY <2>1, <2>2, <2>5
<1>4. PICK f \in Frames("client", OP_CONT, Tail(message.parts)) : Put("client", f)
  BY <1>1 DEF SendLast
<1>5. Written(f, OP_CONT, Tail(message.parts))
  <2>1. OP_CONT \in ValidOpcodes /\ OP_CONT \notin ControlOpcodes
    BY Opcodes
  <2> QED
    BY <1>3, <1>4, <2>1, FramesWritten, EndsFacts
<1>6. f \in Item
  BY <1>5, WrittenItem
<1>7. stream'["server"] = IF Reaches("server") THEN Append(stream["server"], f)
                          ELSE stream["server"]
  BY <1>0, <1>4, <1>6, PutEffect, EndsFacts
<1>8. Begun("server") = [opcode |-> message.opcode, parts |-> <<Head(message.parts)>>]
  BY <1>0, <1>1 DEF Begun
<1>9. Begun("server") # NoMessage
  BY <1>2, <1>8 DEF NoMessage
<1>10. Begun("server")' = NoMessage
  BY <1>0 DEF Begun
<1>11. sent'["client"] = Append(sent["client"], message)
  BY <1>0, <1>1, EndsFacts
<1>12. "server" \in Ends /\ Peer("server") = "client"
  BY EndsFacts
<1>13. /\ message.opcode = Begun("server").opcode
       /\ message.parts = Begun("server").parts \o Tail(message.parts)
  <2>1. /\ Begun("server").opcode = message.opcode
        /\ Begun("server").parts = <<Head(message.parts)>>
    BY <1>8
  <2> QED
    BY <1>3, <2>1
<1> QED
  BY <1>0, <1>3, <1>5, <1>7, <1>9, <1>10, <1>11, <1>12, <1>13, MessageSent

LEMMA SendWrongFollows ==
  ASSUME IInv, SendWrong
  PROVE  Follows("server")'
<1>0. /\ Types /\ Next /\ got' = got /\ chunks' = chunks /\ sent' = sent
      /\ wrong' = TRUE
  BY DEF IInv, Next, Client, SendWrong, local, history
<1>1. PICK f \in WrongFrames : Put("client", f)
  BY DEF SendWrong
<1>2. /\ f \in Frame /\ Wanted(f) = f.bytes /\ f \in Item
      /\ \/ Refused(f)
         \/ Opcode(f) = OP_CONT /\ rest = <<>>
         \/ /\ Opcode(f) = OP_TEXT /\ Fin(f)
            /\ Payload(f).text = <<Undecodable>> /\ Payload(f).under = NoKey
  BY WrongReads DEF Item
<1>3. stream'["server"] = IF Reaches("server") THEN Append(stream["server"], f)
                          ELSE stream["server"]
  BY <1>0, <1>1, <1>2, PutEffect, EndsFacts
<1>4. ASSUME NEW x \in Reading, x.met = "none", Complete("server", x)
      PROVE  \E y \in Reading : /\ Takes(sent'["client"], x, f, y)
                                /\ Excused("server", y)' /\ Complete("server", y)'
  <2>1. rest = <<>> => x.part = NoMessage
    BY <1>4 DEF Complete, Begun
  <2>2. Bad(x, f)
    BY <1>2, <2>1 DEF Bad
  <2>3. PICK y : y = [x EXCEPT !.met = "wrong"]
    OBVIOUS
  <2>4. y \in Reading /\ y.met = "wrong"
    BY <2>3 DEF Reading
  <2>5. Takes(sent'["client"], x, f, y)
    BY <1>2, <1>4, <2>2, <2>3 DEF Takes, Understood
  <2>6. Excused("server", y)' /\ Complete("server", y)'
    BY <1>0, <2>4 DEF Excused, Complete
  <2> QED
    BY <2>4, <2>5, <2>6
<1> QED
  BY <1>0, <1>2, <1>3, <1>4, ReadingKept, FollowsPut, EndsFacts

LEMMA CloseFollows ==
  ASSUME IInv, Close
  PROVE  Follows("server")'
<1>0. /\ Types /\ Next /\ got' = got /\ chunks' = chunks /\ sent' = sent
      /\ at'["client"] = "closed"
  BY EndsFacts DEF IInv, Types, Next, Client, Close, history
<1>1. PICK f \in Frames("client", OP_CLOSE, <<>>) :
        stream' = [client |-> IF foreign THEN stream["client"] ELSE <<>>,
                   server |-> IF Reaches("server") THEN Append(stream["server"], f)
                              ELSE stream["server"]]
  BY DEF Close
<1>2. Written(f, OP_CLOSE, <<>>)
  <2>1. OP_CLOSE \in ValidOpcodes /\ <<>> \in Seq(Texts)
    BY Opcodes
  <2> QED
    BY <1>1, <2>1, FramesWritten, EndsFacts
<1>3. f \in Item
  BY <1>2, WrittenItem
<1>4. stream'["server"] = IF Reaches("server") THEN Append(stream["server"], f)
                          ELSE stream["server"]
  BY <1>1
<1>5. ASSUME NEW x \in Reading, x.met = "none", Complete("server", x)
      PROVE  \E y \in Reading : /\ Takes(sent'["client"], x, f, y)
                                /\ Excused("server", y)' /\ Complete("server", y)'
  <2>1. x.n = Len(sent["client"])
    BY <1>5, EndsFacts DEF Complete
  <2>2. PICK y : y = [x EXCEPT !.met = "close"]
    OBVIOUS
  <2>3. y \in Reading /\ y.met = "close" /\ y.n = x.n
    BY <2>2 DEF Reading
  <2>4. Takes(sent'["client"], x, f, y)
    BY <1>2, <1>5, <2>2 DEF Takes, Understood, Written
  <2>5. Excused("server", y)' /\ Complete("server", y)'
    BY <1>0, <2>1, <2>3, EndsFacts DEF Excused, Complete
  <2> QED
    BY <2>3, <2>4, <2>5
<1> QED
  BY <1>0, <1>3, <1>4, <1>5, ReadingKept, FollowsPut, EndsFacts

LEMMA WriteOutFollows ==
  ASSUME IInv, WriteOut
  PROVE  Follows("client")'
<1>0. /\ Types /\ Next /\ got' = got /\ chunks' = chunks
      /\ sent \in [Ends -> Seq(Message)]
  BY DEF IInv, Types, Next, WriteOut, local
<1>1. CASE ~socket["server"]
  <2>1. stream' = stream /\ sent' = sent
    BY <1>1 DEF WriteOut
  <2> QED
    BY <1>0, <2>1, Undisturbed, EndsFacts
<1>2. CASE socket["server"]
  <2>1. PICK f \in Frames("server", OP_TEXT, Announcement) : Put("server", f)
    BY <1>2 DEF WriteOut
  <2>2. Announcement \in Seq(Texts)
    BY WebSocketAssumption
  <2>3. Written(f, OP_TEXT, Announcement)
    <3>1. OP_TEXT \in ValidOpcodes /\ OP_TEXT \notin ControlOpcodes
      BY Opcodes
    <3> QED
      BY <2>1, <2>2, <3>1, FramesWritten, EndsFacts
  <2>4. stream'["client"] = IF Reaches("client") THEN Append(stream["client"], f)
                            ELSE stream["client"]
    BY <1>0, <2>1, <2>3, WrittenItem, PutEffect, EndsFacts
  <2>5. PICK message \in Message :
          message = [opcode |-> OP_TEXT, parts |-> Announcement]
    BY MessageFacts
  <2>6. sent'["server"] = Append(sent["server"], message)
    BY <1>0, <1>2, <2>5, EndsFacts DEF WriteOut
  <2>7. /\ Begun("client") = NoMessage /\ Begun("client")' = NoMessage
        /\ NoMessage.parts = <<>>
    BY MessageFacts DEF Begun
  <2>8. /\ message.opcode = OP_TEXT /\ message.parts = Announcement
        /\ Announcement = <<>> \o Announcement
    BY <2>2, <2>5, ConcatProperties, SeqEqual
  <2>9. /\ "client" \in Ends /\ Peer("client") = "server" /\ "client" # "server"
        /\ OP_TEXT # OP_CONT /\ OP_TEXT \in {OP_CONT, OP_TEXT, OP_BINARY}
    BY EndsFacts, Opcodes
  <2> QED
    BY <1>0, <2>2, <2>3, <2>4, <2>6, <2>7, <2>8, <2>9, MessageSent
<1> QED
  BY <1>1, <1>2

LEMMA BreakFollows ==
  ASSUME IInv, Break, NEW e \in Ends
  PROVE  Follows(e)'
<1>0. /\ Types /\ Next /\ at' = at /\ got' = got /\ chunks' = chunks /\ sent' = sent
      /\ ~broken /\ broken' = TRUE
  BY DEF IInv, Next, Break, local, history
<1>1. /\ Follows(e)
      /\ \A y \in Reading : Excused(e, y) => Excused(e, y)'
  BY <1>0, ReadingKept
<1>2. stream'[e] \in CutOff(stream[e])
  BY EndsFacts DEF Break
<1> SUFFICES ASSUME Reader(e)'
             PROVE  \E r : Foretold(e, r)'
  BY DEF Follows
<1>3. PICK r : Foretold(e, r)
  BY <1>0, <1>1 DEF Follows, Reader
<1>4. stream[e] \in Seq(Item) /\ Len(stream[e]) \in Nat
  BY <1>0 DEF Types
<1>5. ReadsOn(sent[Peer(e)], stream[e], r)
  BY <1>3 DEF Foretold
<1>6. \A j \in 0 .. Len(stream[e]) : r[j] \in Reading /\ Excused(e, r[j])
  BY <1>3, <1>5 DEF Foretold, ReadsOn
<1>7. \A j \in 0 .. Len(stream[e]) : r[j].met # "torn"
  BY <1>0, <1>6 DEF Excused
<1>8. PICK t \in CutOff(stream[e]) : t = stream'[e]
  BY <1>2
<1>9. PICK q :
        /\ ReadsOn(sent[Peer(e)], t, q) /\ q[0] = r[0]
        /\ \A i \in 0 .. Len(t) :
             q[i].met = "torn" \/ \E j \in 0 .. Len(stream[e]) : q[i] = r[j]
  BY <1>4, <1>5, <1>7, ReadsOnCutOff
<1>10. \A i \in 0 .. Len(t) : Excused(e, q[i])'
  <2> TAKE i \in 0 .. Len(t)
  <2>1. CASE q[i].met = "torn"
    BY <2>1, <1>0 DEF Excused
  <2>2. ASSUME NEW j \in 0 .. Len(stream[e]), q[i] = r[j]
        PROVE  Excused(e, q[i])'
    <3>1. Excused(e, r[j])'
      BY <1>1, <1>6
    <3> QED
      BY <2>2, <3>1
  <2> QED
    BY <2>1, <2>2, <1>9
<1>11. q[0] = [n |-> Len(got'[e]), part |-> chunks'[e], met |-> "none"]
  BY <1>0, <1>3, <1>9 DEF Foretold
<1>12. ~Reaches(e)'
  BY <1>0 DEF Reaches
<1>13. Foretold(e, q)'
  BY <1>0, <1>8, <1>9, <1>10, <1>11, <1>12 DEF Foretold
<1> QED
  BY <1>13

LEMMA FollowsKept ==
  ASSUME IInv, Next
  PROVE  Follows("client")' /\ Follows("server")'
<1>0. /\ Types /\ Stages /\ at \in Ats /\ "client" \in Ends /\ "server" \in Ends
      /\ Peer("client") = "server" /\ Peer("server") = "client"
      /\ stream \in [Ends -> Seq(Item)]
      /\ stream["client"] \in Seq(Item) /\ stream["server"] \in Seq(Item)
      /\ sent \in [Ends -> Seq(Message)]
  BY EndsFacts DEF IInv, Types, Ats
<1>1. ASSUME NEW e \in Ends, at'[e] \notin {"tls", "secure", "handshake", "asked", "open"}
      PROVE  Follows(e)'
  BY <1>1 DEF Follows, Reader
<1>2. CASE Secure
  <2>1. at'["client"] = "secure"
    BY <1>2 DEF Secure
  <2>2. /\ stream' = stream /\ got' = got /\ chunks' = chunks /\ sent' = sent
        /\ rest' = rest /\ wrong' = wrong
    BY <1>2 DEF Secure, client, history
  <2> QED
    BY <1>0, <2>1, <2>2, Undisturbed
<1>3. CASE TlsFails
  <2>1. at["server"] = "tls" /\ at'["server"] = "done"
        /\ at'["client"] = IF at["client"] = "tls" THEN "raised" ELSE at["client"]
    BY <1>0, <1>3, EndsFacts DEF TlsFails, Ats
  <2>2. at'["client"] \in {"raised", "left"}
    BY <1>0, <2>1 DEF Stages
  <2> QED
    BY <1>0, <1>1, <2>1, <2>2
<1>4. CASE Request
  <2>1. PICK block \in {"upgrade", "other", "switch"} : Put("client", Http(block))
    BY <1>4 DEF Request
  <2>2. Http(block) \in Item /\ Http(block) \in Https
    BY <1>0, StreamFacts
  <2>3. /\ stream'["client"] = stream["client"]
        /\ stream'["server"] = IF Reaches("server")
                               THEN Append(stream["server"], Http(block))
                               ELSE stream["server"]
    BY <1>0, <2>1, <2>2, PutEffect
  <2>4. at'["client"] = "asked"
    BY <1>0, <1>4 DEF Request, Ats
  <2>5. /\ got' = got /\ chunks' = chunks /\ sent' = sent
        /\ rest' = rest /\ wrong' = wrong
    BY <1>4 DEF Request, client, history
  <2>6. Follows("client")'
    BY <1>0, <2>3, <2>5, Undisturbed, EndsFacts
  <2>7. Follows("server")'
    BY <1>0, <2>2, <2>3, <2>4, <2>5, PassedOver
  <2> QED
    BY <2>6, <2>7
<1>5. CASE Opened
  <2>1. at["client"] = "asked" /\ stream["client"] # <<>>
        /\ at'["client"] = "open"
        /\ stream' = [stream EXCEPT !["client"] = Tail(@)]
    BY <1>0, <1>5 DEF Opened, Ats
  <2>2. stream["client"] = <<Http("switch")>>
    BY <1>0, <2>1 DEF Stages
  <2>3. stream["client"][1] \in Https
    BY <1>0, <2>2, StreamFacts
  <2>4. stream'["client"] = Tail(stream["client"]) /\ stream'["server"] = stream["server"]
    BY <1>0, <2>1, EndsFacts
  <2>5. /\ got' = got /\ chunks' = chunks /\ sent' = sent
        /\ rest' = rest /\ wrong' = wrong
    BY <1>5 DEF Opened, client, history
  <2>6. Reader("client")
    BY <2>1 DEF Reader
  <2>7. Follows("client")'
    BY <1>0, <2>1, <2>3, <2>4, <2>5, <2>6, HttpTaken, EndsFacts
  <2>8. Follows("server")'
    BY <1>0, <2>1, <2>4, <2>5, Undisturbed
  <2> QED
    BY <2>7, <2>8
<1>6. CASE Client
  <2>1. CASE Send \/ SendLast \/ SendControl \/ SendWrong
    <3>1. \E f : Put("client", f)
      BY <2>1 DEF Send, SendLast, SendControl, SendWrong
    <3>2. stream'["client"] = stream["client"]
      BY <1>0, <3>1, EndsFacts DEF Put
    <3>3. got' = got /\ chunks' = chunks /\ sent'["server"] = sent["server"]
      <4>1. got' = got /\ chunks' = chunks
        BY <2>1 DEF Send, SendLast, SendControl, SendWrong, local, history
      <4>2. sent'["server"] = sent["server"]
        BY <1>0, <2>1, EndsFacts DEF Send, SendLast, SendControl, SendWrong, history
      <4> QED
        BY <4>1, <4>2
    <3>4. Follows("client")'
      BY <1>0, <3>2, <3>3, Undisturbed, EndsFacts
    <3>5. CASE SendControl
      <4>1. PICK opcode \in {OP_PING, OP_PONG} :
              \E f \in Frames("client", opcode, <<>>) : Put("client", f)
        BY <3>5 DEF SendControl
      <4>2. PICK f \in Frames("client", opcode, <<>>) : Put("client", f)
        BY <4>1
      <4>3. opcode \in ValidOpcodes /\ <<>> \in Seq(Texts)
        BY Opcodes
      <4>4. Written(f, opcode, <<>>)
        BY <1>0, <4>3, FramesWritten
      <4>5. f \in Item
        BY <4>4, WrittenItem
      <4>6. stream'["server"] = IF Reaches("server") THEN Append(stream["server"], f)
                                ELSE stream["server"]
        BY <1>0, <4>2, <4>5, PutEffect
      <4>7. sent' = sent /\ rest' = rest /\ wrong' = wrong /\ at' = at
        BY <3>5 DEF SendControl, local, history
      <4> QED
        BY <1>0, <3>3, <3>4, <4>4, <4>5, <4>6, <4>7, PassedOver
    <3> QED
      BY <2>1, <3>4, <3>5, SendFollows, SendLastFollows, SendWrongFollows
  <2>2. CASE Close
    <3>1. at'["client"] = "closed"
      BY <1>0, <2>2 DEF Close, Ats
    <3> QED
      BY <1>0, <1>1, <2>2, <3>1, CloseFollows
  <2>3. CASE Exit
    <3>1. at'["client"] = IF at["client"] = "closed" THEN "closed" ELSE "left"
      BY <1>0, <2>3 DEF Exit, Ats
    <3>2. stream'["server"] = stream["server"]
      BY <1>0, <2>3, EndsFacts DEF Exit, CloseSocket
    <3>3. /\ got' = got /\ chunks' = chunks /\ sent' = sent
          /\ rest' = rest /\ wrong' = wrong
      BY <2>3 DEF Exit, client, history
    <3>4. Follows("server")'
      BY <1>0, <3>1, <3>2, <3>3, Undisturbed
    <3> QED
      BY <1>0, <1>1, <3>1, <3>4
  <2> QED
    BY <1>6, <2>1, <2>2, <2>3 DEF Client
<1>7. ASSUME NEW d \in Ends, NEW e \in Ends, e # d, Recv(d)
      PROVE  Follows(d)' /\ Follows(e)'
  <2>1. CASE RecvControl(d) \/ RecvData(d)
    BY <1>7, <2>1, RecvFollows, RecvFollowsOther
  <2>2. CASE RecvRefuses(d) \/ RecvClose(d) \/ StreamEnds(d)
    <3>1. at' = [at EXCEPT ![d] = "raised"]
      BY <2>2 DEF RecvRefuses, RecvClose, StreamEnds
    <3>2. at'[d] = "raised"
      BY <1>0, <3>1 DEF Ats
    <3> QED
      BY <1>1, <1>7, <3>2, RecvFollowsOther
  <2> QED
    BY <1>7, <2>1, <2>2 DEF Recv
<1>8. CASE Upgrade
  <2>1. /\ at["server"] = "handshake" /\ stream["server"] # <<>>
        /\ Head(stream["server"]) = Http("upgrade")
        /\ stream' = [stream EXCEPT
                        !["server"] = Tail(@),
                        !["client"] = IF Reaches("client")
                                      THEN Append(@, Http("switch")) ELSE @]
        /\ at' = [at EXCEPT !["server"] = "open"]
    BY <1>8 DEF Upgrade
  <2>2. /\ stream'["server"] = Tail(stream["server"])
        /\ stream'["client"] = IF Reaches("client")
                               THEN Append(stream["client"], Http("switch"))
                               ELSE stream["client"]
        /\ at'["client"] = at["client"]
    BY <1>0, <2>1, EndsFacts DEF Ats
  <2>3. /\ got' = got /\ chunks' = chunks /\ sent' = sent
        /\ rest' = rest /\ wrong' = wrong
    BY <1>8 DEF Upgrade, client, history
  <2>4. Http("switch") \in Item /\ Http("switch") \in Https /\ Http("upgrade") \in Https
    BY <1>0, StreamFacts
  <2>5. Head(stream["server"]) = stream["server"][1]
    BY <1>0, <2>1, HeadTailProperties
  <2>6. Reader("server")
    BY <2>1 DEF Reader
  <2>7. Follows("server")'
    BY <1>0, <2>1, <2>2, <2>3, <2>4, <2>5, <2>6, HttpTaken
  <2>8. Follows("client")'
    BY <1>0, <2>2, <2>3, <2>4, PassedOver, EndsFacts
  <2> QED
    BY <2>7, <2>8
<1>9. CASE RefuseUpgrade \/ ServeEnds
  <2>1. at'["server"] \in {"raised", "done"} /\ stream'["client"] = stream["client"]
    BY <1>0, <1>9, EndsFacts DEF RefuseUpgrade, ServeEnds, CloseSocket, Ats
  <2>2. /\ got' = got /\ chunks' = chunks /\ sent' = sent
    BY <1>9 DEF RefuseUpgrade, ServeEnds, history
  <2> QED
    BY <1>0, <1>1, <2>1, <2>2, Undisturbed, EndsFacts
<1>10. CASE PassTest
  <2>1. /\ stream' = stream /\ got' = got /\ chunks' = chunks /\ sent' = sent
        /\ rest' = rest /\ wrong' = wrong /\ at' = at
    BY <1>10 DEF PassTest, local, client, history
  <2> QED
    BY <1>0, <2>1, Undisturbed
<1>11. CASE WriteOut
  <2>1. /\ got' = got /\ chunks' = chunks /\ rest' = rest /\ wrong' = wrong /\ at' = at
    BY <1>11 DEF WriteOut, local, client
  <2>2. sent'["client"] = sent["client"]
    BY <1>0, <1>11, EndsFacts DEF WriteOut
  <2>3. stream'["server"] = stream["server"]
    <3>1. stream' = stream \/ \E f : Put("server", f)
      BY <1>11 DEF WriteOut
    <3>2. ASSUME NEW f, Put("server", f)
          PROVE  stream'["server"] = stream["server"]
      BY <1>0, <3>2, EndsFacts DEF Put
    <3> QED
      BY <3>1, <3>2
  <2>4. Follows("server")'
    BY <1>0, <2>1, <2>2, <2>3, Undisturbed
  <2> QED
    BY <1>11, <2>4, WriteOutFollows
<1>12. CASE Break
  BY <1>0, <1>12, BreakFollows
<1> QED
  BY <1>2, <1>3, <1>4, <1>5, <1>6, <1>7, <1>8, <1>9, <1>10, <1>11, <1>12, EndsFacts
     DEF Next, Connect, ServerThread

-----------------------------------------------------------------------------
(***************************************************************************)
(* The invariant, and what follows from it                                 *)
(***************************************************************************)

LEMMA Inductive ==
  ASSUME IInv, [Next]_vars
  PROVE  IInv'
<1>1. CASE Next
  <2>1. \A e \in Ends : Received(e)'
    BY <1>1, ReceivedKept
  <2>2. \A e \in Ends : Follows(e)'
    BY <1>1, FollowsKept, EndsFacts
  <2> QED
    BY <1>1, <2>1, <2>2, TypesKept, StaysKept DEF IInv
<1>2. CASE UNCHANGED vars
  <2>1. /\ foreign' = foreign /\ at' = at /\ closed' = closed /\ socket' = socket
        /\ stream' = stream /\ chunks' = chunks /\ passed' = passed /\ rest' = rest
        /\ controls' = controls /\ wrong' = wrong /\ broken' = broken
        /\ sent' = sent /\ got' = got
    BY <1>2 DEF vars, local, client, history
  <2>2. Types' /\ Stages' /\ Stays'
    <3>1. Types'
      BY <2>1 DEF IInv, Types
    <3>2. Stages'
      BY <2>1 DEF IInv, Stages
    <3>3. Stays'
      BY <2>1 DEF IInv, Stays
    <3> QED
      BY <3>1, <3>2, <3>3
  <2>3. \A e \in Ends : Received(e)'
    BY <2>1 DEF IInv, Received
  <2>4. ASSUME NEW e \in Ends
        PROVE  Follows(e)'
    <3>1. Follows(e)
      BY DEF IInv
    <3> QED
      BY <2>1, <3>1 DEF Follows, Reader, Foretold, Excused, Complete, Begun, Reaches
  <2> QED
    BY <2>2, <2>3, <2>4 DEF IInv
<1> QED
  BY <1>1, <1>2

LEMMA SpecIInv == Spec => []IInv
BY InitInv, Inductive, PTL DEF Spec

\* The states of both ends, the streams and the histories always have their
\* types: first and second bytes are bytes, at most one message is under way in
\* fragments, and chunks holds the opcode and the texts of one message.
THEOREM TypeCorrect == Spec => []TypeOK
<1>1. IInv => TypeOK
  <2> SUFFICES ASSUME IInv
               PROVE  TypeOK
    OBVIOUS
  <2>1. Types
    BY DEF IInv
  <2>2. /\ at["client"] \in {"tls", "secure", "asked", "open", "raised", "closed",
                             "left"}
        /\ at["server"] \in {"tls", "handshake", "open", "raised", "done"}
    BY <2>1, EndsFacts DEF Types
  <2>3. ASSUME NEW e \in Ends, NEW i \in 1 .. Len(stream[e])
        PROVE  \/ stream[e][i] \in {Http(b) : b \in {"upgrade", "other", "switch"}}
               \/ stream[e][i].b0 \in 0 .. 255 /\ stream[e][i].b1 \in 0 .. 255
    <3>1. stream[e] \in Seq(Item)
      BY <2>1 DEF Types
    <3>2. stream[e][i] \in Item
      BY <3>1, ElementOfSeq
    <3> QED
      BY <3>2 DEF Item, Https, Frame
  <2> QED
    BY <2>1, <2>2, <2>3 DEF TypeOK, Types
<1> QED
  BY <1>1, SpecIInv, PTL

\* What recv has returned to either end is the beginning of what the other end
\* has sent, message for message: with any texts, lengths, fragments and pings,
\* and wherever the connection is cut off.
THEOREM Whole == Spec => []WholeMessages
<1>1. IInv => WholeMessages
  <2> SUFFICES ASSUME IInv, NEW e \in Ends
               PROVE  IsPrefix(got[Peer(e)], sent[e])
    BY DEF WholeMessages
  <2>1. /\ Received(Peer(e)) /\ Peer(Peer(e)) = e
        /\ got[Peer(e)] \in Seq(Message) /\ sent[e] \in Seq(Message)
    BY EndsFacts DEF IInv, Types
  <2>2. PICK s \in Seq(Message), t \in Seq(Message) : s = got[Peer(e)] /\ t = sent[e]
    BY <2>1
  <2>3. Len(s) <= Len(t) /\ \A i \in 1 .. Len(s) : s[i] = t[i]
    BY <2>1, <2>2 DEF Received
  <2>4. /\ SubSeq(t, 1, Len(s)) \in Seq(Message)
        /\ Len(SubSeq(t, 1, Len(s))) = Len(s)
        /\ \A i \in 1 .. Len(s) : SubSeq(t, 1, Len(s))[i] = t[i]
    BY <2>3
  <2>5. SubSeq(t, 1, Len(s)) = s
    BY <2>3, <2>4, SeqEqual
  <2>6. SubSeq(s, 1, Len(s)) = s
    BY SubSeqFull
  <2> QED
    BY <2>2, <2>3, <2>5, <2>6 DEF IsPrefix
<1> QED
  BY <1>1, SpecIInv, PTL

\* Once the server is done with a client that called close, on a connection
\* that nothing has broken, recv has returned every message of the client and
\* then its Close frame.
THEOREM CloseLosesNothing == Spec => []CleanClose
<1>1. IInv => CleanClose
  BY DEF IInv, Stays, CleanClose
<1> QED
  BY <1>1, SpecIInv, PTL
=============================================================================
