------------------------------ MODULE Session ------------------------------
(***************************************************************************)
(* protocol/session.py: the SessionState objects at the two ends of one    *)
(* connection, and the frames they have produced.                          *)
(*                                                                         *)
(* A tag is HMAC-SHA256 over epoch, sequence number, direction byte and    *)
(* body. The model takes the HMAC for an injective constructor, so a tag   *)
(* is the tuple of its inputs. A frame that was sealed stays in `wire`     *)
(* for ever and open may be called on any of them, any number of times and *)
(* in any order, and on copies with one field changed. That covers what    *)
(* tests/test_session.py tries: replayed, reordered, tampered, reflected   *)
(* frames, and frames sealed under another session's keys.                 *)
(*                                                                         *)
(* Definitions introduced by "Slip" are wrong variants of the definition   *)
(* that follows. Nothing uses them; put in its place, each makes a         *)
(* property fail, which shows that the property can.                       *)
(***************************************************************************)
EXTENDS Naturals, Sequences, FiniteSets

CONSTANTS
  Payloads,     \* plaintexts a caller may seal
  Shrinkable,   \* those for which huffman.compress yields fewer bytes
  NotBase64,    \* a payload field that b64decode refuses
  NotAscii,     \* a tag field that compare_digest refuses
  MaxSeq,       \* largest number struct.pack(">Q") takes: 2^64-1 in the code
  MaxSessions,  \* bound: how many sessions one run may go through
  MaxFrames     \* bound: how many frames they seal

Ends == {"client", "server"}
Peer(e) == IF e = "client" THEN "server" ELSE "client"

\* The bytes under the base64: a compression marker and what follows it.
Bodies == [marker : {"stored", "huffman"}, data : Payloads]

\* What the tag of a sealed frame covers, its key first.
Tags == (Nat \X Ends) \X {0} \X Nat \X {"C", "S"} \X Bodies

ASSUME SessionAssumption ==
  /\ Shrinkable \subseteq Payloads
  /\ NotBase64 \notin Bodies
  /\ NotAscii \notin Tags
  /\ MaxSeq \in Nat
  /\ MaxSessions \in Nat
  /\ MaxFrames \in Nat

VARIABLES
  session,   \* which handshake's keys both ends hold
  compress,  \* SessionState.compress: off at both ends of a browser session
  tx_seq,    \* SessionState.tx_seq of each end
  rx_seq,    \* SessionState.rx_seq of each end
  wire,      \* every frame any session ever sealed
  result,    \* how the last call of open returned or raised
  sealed,    \* history: plaintexts each end sealed in this session
  opened     \* history: what each end opened in this session

vars == <<session, compress, tx_seq, rx_seq, wire, result, sealed, opened>>

-----------------------------------------------------------------------------
\* Slip: every session is given the same keys.
SameKeyMacKey(n, role) == <<1, role>>

\* derive_session_keys: one MAC key for each session and writing end.
MacKey(n, role) == <<n, role>>

TxDir(e) == e
RxDir(e) == Peer(e)
TxMac(e) == MacKey(session, TxDir(e))

\* Slip: one key for both directions at each end.
OwnRxMac(e) == MacKey(session, TxDir(e))

RxMac(e) == MacKey(session, RxDir(e))

DirectionByte(d) == IF d = "client" THEN "C" ELSE "S"

ComputeTag(key, epoch, seq, direction, body) ==
  <<key, epoch, seq, DirectionByte(direction), body>>

Pack(p) ==
  [marker |-> IF p \in Shrinkable THEN "huffman" ELSE "stored", data |-> p]

Unpack(body) == body.data

\* seal never leaves epoch 0: the code has no rekeying yet.
SealedFrame(e, seq, p) ==
  LET body == IF compress THEN Pack(p)
                          ELSE [marker |-> "stored", data |-> p]
  IN  [epoch     |-> 0,
       seq       |-> seq,
       direction |-> TxDir(e),
       payload   |-> body,
       tag       |-> ComputeTag(TxMac(e), 0, seq, TxDir(e), body)]

-----------------------------------------------------------------------------
Init ==
  /\ session = 1
  /\ compress \in BOOLEAN
  /\ tx_seq = [e \in Ends |-> 0]
  /\ rx_seq = [e \in Ends |-> 0]
  /\ wire = {}
  /\ result = "none"
  /\ sealed = [e \in Ends |-> <<>>]
  /\ opened = [e \in Ends |-> <<>>]

\* Slip: the frame is built with the counter's old value.
LateCountSeal(e, p) ==
  /\ tx_seq[e] < MaxSeq
  /\ Cardinality(wire) < MaxFrames
  /\ wire' = wire \cup {SealedFrame(e, tx_seq[e], p)}
  /\ tx_seq' = [tx_seq EXCEPT ![e] = @ + 1]
  /\ sealed' = [sealed EXCEPT ![e] = Append(@, p)]
  /\ UNCHANGED <<session, compress, rx_seq, result, opened>>

\* Slip: the limit of the sequence number is off by one.
OverwideSeal(e, p) ==
  /\ tx_seq[e] <= MaxSeq
  /\ Cardinality(wire) < MaxFrames
  /\ tx_seq' = [tx_seq EXCEPT ![e] = @ + 1]
  /\ wire' = wire \cup {SealedFrame(e, tx_seq[e] + 1, p)}
  /\ sealed' = [sealed EXCEPT ![e] = Append(@, p)]
  /\ UNCHANGED <<session, compress, rx_seq, result, opened>>

\* seal: the counter moves first, then the frame is built with its new value.
Seal(e, p) ==
  /\ tx_seq[e] < MaxSeq
  /\ Cardinality(wire) < MaxFrames
  /\ tx_seq' = [tx_seq EXCEPT ![e] = @ + 1]
  /\ wire' = wire \cup {SealedFrame(e, tx_seq[e] + 1, p)}
  /\ sealed' = [sealed EXCEPT ![e] = Append(@, p)]
  /\ UNCHANGED <<session, compress, rx_seq, result, opened>>

\* seal past the 64-bit limit: compute_tag raises struct.error, but tx_seq has
\* moved already. Every later seal raises too; the model stops counting there.
SealOverflows(e) ==
  /\ tx_seq[e] = MaxSeq
  /\ tx_seq' = [tx_seq EXCEPT ![e] = @ + 1]
  /\ UNCHANGED <<session, compress, rx_seq, wire, result, sealed, opened>>

Raise(error) ==
  /\ result' = error
  /\ UNCHANGED <<session, compress, tx_seq, rx_seq, wire, sealed, opened>>

\* The checks of open that come before the tag is computed.
WellFormed(e, f) ==
  /\ f.direction = RxDir(e)
  /\ f.payload # NotBase64

\* Slip: the tag does not cover the body.
HeaderOnlyTagVerifies(e, f) ==
  \E b \in Bodies :
    f.tag = ComputeTag(RxMac(e), f.epoch, f.seq, f.direction, b)

TagVerifies(e, f) ==
  f.tag = ComputeTag(RxMac(e), f.epoch, f.seq, f.direction, f.payload)

\* The frames on which open stops with an error of its library: compute_tag
\* cannot pack the sequence number, or compare_digest cannot compare the tag.
Unpackable(e, f) == WellFormed(e, f) /\ f.seq > MaxSeq

Incomparable(e, f) ==
  /\ WellFormed(e, f)
  /\ f.seq <= MaxSeq
  /\ f.tag = NotAscii

\* Slip: rx_seq moves before the tag is verified.
EagerOpenUnauthentic(e, f) ==
  /\ ~ Unpackable(e, f)
  /\ ~ Incomparable(e, f)
  /\ ~ (WellFormed(e, f) /\ TagVerifies(e, f))
  /\ f.seq \in rx_seq[e] .. MaxSeq
  /\ rx_seq' = [rx_seq EXCEPT ![e] = f.seq]
  /\ result' = "AuthenticationError"
  /\ UNCHANGED <<session, compress, tx_seq, wire, sealed, opened>>

OpenUnauthentic(e, f) ==
  /\ ~ Unpackable(e, f)
  /\ ~ Incomparable(e, f)
  /\ ~ (WellFormed(e, f) /\ TagVerifies(e, f))
  /\ Raise("AuthenticationError")

OpenOverflows(e, f) == Unpackable(e, f) /\ Raise("struct.error")

OpenIncomparable(e, f) == Incomparable(e, f) /\ Raise("TypeError")

\* Everything open checks of the frame itself; what is left is freshness.
Authentic(e, f) ==
  /\ WellFormed(e, f)
  /\ f.seq <= MaxSeq
  /\ f.tag # NotAscii
  /\ TagVerifies(e, f)

OpenStale(e, f) ==
  /\ Authentic(e, f)
  /\ f.seq <= rx_seq[e]
  /\ Raise("ReplayError")

\* Slip: a frame with the number seen last counts as fresh.
RepeatingOpenFresh(e, f) ==
  /\ Authentic(e, f)
  /\ f.seq >= rx_seq[e]
  /\ rx_seq' = [rx_seq EXCEPT ![e] = f.seq]
  /\ result' = "opened"
  /\ opened' = [opened EXCEPT
                  ![e] = Append(@, [at |-> f.seq, msg |-> Unpack(f.payload)])]
  /\ UNCHANGED <<session, compress, tx_seq, wire, sealed>>

OpenFresh(e, f) ==
  /\ Authentic(e, f)
  /\ f.seq > rx_seq[e]
  /\ rx_seq' = [rx_seq EXCEPT ![e] = f.seq]
  /\ result' = "opened"
  /\ opened' = [opened EXCEPT
                  ![e] = Append(@, [at |-> f.seq, msg |-> Unpack(f.payload)])]
  /\ UNCHANGED <<session, compress, tx_seq, wire, sealed>>

Open(e, f) ==
  \/ OpenUnauthentic(e, f)
  \/ OpenOverflows(e, f)
  \/ OpenIncomparable(e, f)
  \/ OpenStale(e, f)
  \/ OpenFresh(e, f)

\* A frame with one field changed on the way; its tag may be another frame's.
Tampered(f) ==
  {[f EXCEPT !.epoch = 1]}
    \cup {[f EXCEPT !.seq = n] : n \in 0 .. MaxSeq + 1}
    \cup {[f EXCEPT !.direction = d] : d \in Ends}
    \cup {[f EXCEPT !.payload = b] : b \in Bodies \cup {NotBase64}}
    \cup {[f EXCEPT !.tag = g.tag] : g \in wire}
    \cup {[f EXCEPT !.tag = NotAscii]}

Arrivals == wire \cup UNION {Tampered(f) : f \in wire}

\* Slip: the receiving counters survive into the new session.
KeptCountNewSession ==
  /\ session < MaxSessions
  /\ session' = session + 1
  /\ compress' \in BOOLEAN
  /\ tx_seq' = [e \in Ends |-> 0]
  /\ result' = "none"
  /\ sealed' = [e \in Ends |-> <<>>]
  /\ opened' = [e \in Ends |-> <<>>]
  /\ UNCHANGED <<rx_seq, wire>>

\* A new connection and a new handshake: both ends build fresh SessionStates.
\* Frames of earlier sessions remain in `wire`.
NewSession ==
  /\ session < MaxSessions
  /\ session' = session + 1
  /\ compress' \in BOOLEAN
  /\ tx_seq' = [e \in Ends |-> 0]
  /\ rx_seq' = [e \in Ends |-> 0]
  /\ result' = "none"
  /\ sealed' = [e \in Ends |-> <<>>]
  /\ opened' = [e \in Ends |-> <<>>]
  /\ UNCHANGED wire

Next ==
  \/ \E e \in Ends, p \in Payloads : Seal(e, p)
  \/ \E e \in Ends : SealOverflows(e)
  \/ \E e \in Ends : \E f \in Arrivals : Open(e, f)
  \/ NewSession

Spec == Init /\ [][Next]_vars

-----------------------------------------------------------------------------
Frames ==
  [epoch     : {0},
   seq       : 1 .. MaxSeq,
   direction : Ends,
   payload   : Bodies,
   tag       : ((1 .. session) \X Ends) \X {0} \X (1 .. MaxSeq)
                 \X {"C", "S"} \X Bodies]

TypeOK ==
  /\ session \in Nat \ {0}
  /\ compress \in BOOLEAN
  /\ tx_seq \in [Ends -> 0 .. MaxSeq + 1]
  /\ rx_seq \in [Ends -> 0 .. MaxSeq]
  /\ wire \subseteq Frames
  /\ result \in {"none", "opened", "ReplayError", "AuthenticationError",
                 "struct.error", "TypeError"}
  /\ sealed \in [Ends -> Seq(Payloads)]
  /\ opened \in [Ends -> Seq([at : 1 .. MaxSeq, msg : Payloads])]

\* What an end opened is exactly what its peer sealed under that number in
\* this session: SessionState.open lets no altered, reflected or foreign
\* frame through.
OpenedWasSealed ==
  \A e \in Ends : \A i \in 1 .. Len(opened[e]) :
    LET o == opened[e][i]
    IN  /\ o.at <= Len(sealed[Peer(e)])
        /\ o.msg = sealed[Peer(e)][o.at]

\* No message is opened twice and none after a later one, whatever the order
\* and number of copies in which frames arrive (anti-replay of open).
OpenedInOrder ==
  \A e \in Ends : \A i, j \in 1 .. Len(opened[e]) :
    i < j => opened[e][i].at < opened[e][j].at

\* A MAC key never signs two different frames under one sequence number, over
\* all sessions and both directions, the 64-bit limit included.
SeqNeverReused ==
  \A f, g \in wire :
    (f.tag[1] = g.tag[1] /\ f.seq = g.seq) => f = g

\* No end is ever ahead of its peer: a receiver whose rx_seq passed the
\* sender's tx_seq would call every honest frame after it a replay.
RxNotAhead ==
  \A e \in Ends : rx_seq[e] <= tx_seq[Peer(e)]

\* An untouched frame of this session that is newer than all opened so far
\* is accepted by the end it was sealed for.
FreshFramesOpen ==
  \A e \in Ends : \A n \in 1 .. Len(sealed[Peer(e)]) :
    n > rx_seq[e] =>
      \E f \in wire : /\ f.seq = n
                      /\ Unpack(f.payload) = sealed[Peer(e)][n]
                      /\ Authentic(e, f)

\* A frame that open refuses leaves no trace: rx_seq moves only together with
\* a message being handed out, so garbage cannot make genuine frames stale. The
\* bodies of genuine frames are pack's: open moves rx_seq before it calls unpack,
\* and a body that unpack refuses would use up a number.
RefusalLeavesNoTrace ==
  [][\A e \in Ends :
       (session' = session /\ opened'[e] = opened[e])
          => rx_seq'[e] = rx_seq[e]]_vars

\* The two ends together implement the channel of OrderedChannel: end e reads
\* channel Peer(e).
Channel == INSTANCE OrderedChannel
  WITH Messages <- Payloads,
       sent <- sealed,
       got <- [d \in Ends |-> opened[Peer(d)]]

ImplementsChannel == Channel!Spec
=============================================================================
