---------------------------- MODULE SessionProofs ----------------------------
(***************************************************************************)
(* Proofs about Session for every set of plaintexts, every width of the    *)
(* sequence number and any number of sessions: the safety properties the   *)
(* runs of Session check, and that Session implements OrderedChannel.      *)
(***************************************************************************)
EXTENDS Session, SequenceTheorems, TLAPS

\* Every frame on the wire is as seal made it: its tag is over its own fields
\* and was computed with a key of some session so far.
WireHonest ==
  \A f \in wire :
    \E n \in 1 .. session :
      f.tag = ComputeTag(MacKey(n, f.direction), 0, f.seq, f.direction,
                         f.payload)

\* The frames of this session carry what was sealed under their numbers ...
WireMatchesSealed ==
  \A f \in wire :
    f.tag[1][1] = session =>
      /\ f.seq <= Len(sealed[f.direction])
      /\ f.payload.data = sealed[f.direction][f.seq]

\* ... and nothing that was sealed in this session is missing.
SealedIsOnWire ==
  \A e \in Ends : \A n \in 1 .. Len(sealed[e]) :
    \E f \in wire :
      /\ f.seq = n
      /\ f.direction = e
      /\ f.payload.data = sealed[e][n]
      /\ f.tag = ComputeTag(MacKey(session, e), 0, n, e, f.payload)

\* tx_seq counts the sealed frames until the number no longer fits.
TxCounts ==
  \A e \in Ends :
    Len(sealed[e]) = IF tx_seq[e] > MaxSeq THEN MaxSeq ELSE tx_seq[e]

\* rx_seq is the number of the last frame opened, and bounds all before it.
RxIsLast ==
  \A e \in Ends :
    /\ rx_seq[e] = IF opened[e] = <<>> THEN 0
                                       ELSE opened[e][Len(opened[e])].at
    /\ \A i \in 1 .. Len(opened[e]) : opened[e][i].at <= rx_seq[e]

IInv ==
  /\ TypeOK
  /\ WireHonest
  /\ WireMatchesSealed
  /\ SealedIsOnWire
  /\ TxCounts
  /\ RxIsLast
  /\ SeqNeverReused
  /\ OpenedWasSealed
  /\ OpenedInOrder

-----------------------------------------------------------------------------
\* The two ends are each other's peer, and a frame's direction byte tells
\* them apart.
LEMMA EndFacts ==
  ASSUME NEW e \in Ends
  PROVE  /\ Peer(e) \in Ends
         /\ Peer(e) # e
         /\ Peer(Peer(e)) = e
         /\ DirectionByte(e) \in {"C", "S"}
         /\ DirectionByte(Peer(e)) # DirectionByte(e)
BY DEF Ends, Peer, DirectionByte

LEMMA SealedFrameType ==
  ASSUME TypeOK, NEW e \in Ends, NEW p \in Payloads,
         tx_seq[e] < MaxSeq
  PROVE  LET f == SealedFrame(e, tx_seq[e] + 1, p)
         IN  /\ f \in Frames
             /\ f.seq = tx_seq[e] + 1
             /\ f.direction = e
             /\ f.payload \in Bodies
             /\ f.payload.data = p
             /\ f.tag = ComputeTag(MacKey(session, e), 0, tx_seq[e] + 1, e,
                                   f.payload)
<1> DEFINE body == IF compress THEN Pack(p)
                               ELSE [marker |-> "stored", data |-> p]
           f == SealedFrame(e, tx_seq[e] + 1, p)
<1>1. body \in Bodies /\ body.data = p
  BY DEF Bodies, Pack
<1>2. tx_seq[e] + 1 \in 1 .. MaxSeq
  BY SessionAssumption DEF TypeOK
<1>3. f = [epoch     |-> 0,
           seq       |-> tx_seq[e] + 1,
           direction |-> e,
           payload   |-> body,
           tag       |-> ComputeTag(MacKey(session, e), 0, tx_seq[e] + 1, e,
                                    body)]
  BY DEF SealedFrame, TxDir, TxMac
<1>4. session \in 1 .. session
  BY DEF TypeOK
<1>5. DirectionByte(e) \in {"C", "S"}
  BY EndFacts
<1>6. ComputeTag(MacKey(session, e), 0, tx_seq[e] + 1, e, body)
        \in ((1 .. session) \X Ends) \X {0} \X (1 .. MaxSeq)
              \X {"C", "S"} \X Bodies
  <2> HIDE DEF body
  <2> QED BY <1>1, <1>2, <1>4, <1>5 DEF ComputeTag, MacKey
<1> HIDE DEF body
<1>7. f \in Frames
  BY <1>1, <1>2, <1>3, <1>6 DEF Frames
<1> QED
  BY <1>1, <1>3, <1>7

\* A frame that passes the checks of open is a frame its peer sealed in this
\* session, whatever was done to the copy that arrived: the tag ties the
\* fields together.
LEMMA AuthenticIsHonest ==
  ASSUME TypeOK, WireHonest, NEW e \in Ends, NEW f \in Arrivals,
         Authentic(e, f)
  PROVE  \E g \in wire : /\ g.seq = f.seq
                         /\ g.payload = f.payload
                         /\ g.direction = Peer(e)
                         /\ g.tag[1] = MacKey(session, Peer(e))
<1>1. PICK g \in wire : f.tag = g.tag
  <2>1. CASE f \in wire
    BY <2>1
  <2>2. CASE f \in UNION {Tampered(h) : h \in wire}
    <3>1. PICK h \in wire : f \in Tampered(h)
      BY <2>2
    <3>2. h \in Frames
      BY DEF TypeOK
    <3>3. f.tag # NotAscii
      BY DEF Authentic
    <3>4. \/ f.tag = h.tag
          \/ \E g \in wire : f = [h EXCEPT !.tag = g.tag]
      BY <3>1, <3>2, <3>3 DEF Tampered, Frames
    <3> QED
      BY <3>2, <3>4 DEF Frames
  <2> QED
    BY <2>1, <2>2 DEF Arrivals
<1>2. PICK n \in 1 .. session :
        g.tag = ComputeTag(MacKey(n, g.direction), 0, g.seq, g.direction,
                           g.payload)
  BY DEF WireHonest
<1>3. f.tag = ComputeTag(MacKey(session, Peer(e)), f.epoch, f.seq, Peer(e),
                         f.payload)
  BY DEF Authentic, TagVerifies, WellFormed, RxMac, RxDir
<1>4. /\ MacKey(n, g.direction) = MacKey(session, Peer(e))
      /\ g.seq = f.seq
      /\ g.payload = f.payload
  BY <1>1, <1>2, <1>3 DEF ComputeTag
<1>5. g.direction = Peer(e)
  BY <1>4 DEF MacKey
<1>6. g.tag[1] = MacKey(session, Peer(e))
  BY <1>2, <1>4 DEF ComputeTag
<1> QED
  BY <1>4, <1>5, <1>6

-----------------------------------------------------------------------------
LEMMA InitIInv == Init => IInv
BY SessionAssumption
   DEF Init, IInv, TypeOK, WireHonest, WireMatchesSealed, SealedIsOnWire,
       TxCounts, RxIsLast, SeqNeverReused, OpenedWasSealed, OpenedInOrder

\* seal extends the wire and the history of one end by one frame that carries
\* the next number.
LEMMA SealIInv ==
  ASSUME IInv, NEW e \in Ends, NEW p \in Payloads, Seal(e, p)
  PROVE  IInv'
<1> DEFINE f == SealedFrame(e, tx_seq[e] + 1, p)
<1> USE DEF IInv
<1>1. /\ f \in Frames
      /\ f.seq = tx_seq[e] + 1
      /\ f.direction = e
      /\ f.payload \in Bodies
      /\ f.payload.data = p
      /\ f.tag = ComputeTag(MacKey(session, e), 0, tx_seq[e] + 1, e,
                            f.payload)
  BY SealedFrameType DEF Seal
<1>2. /\ wire' = wire \cup {f}
      /\ sealed' = [sealed EXCEPT ![e] = Append(@, p)]
      /\ tx_seq' = [tx_seq EXCEPT ![e] = @ + 1]
      /\ UNCHANGED <<session, compress, rx_seq, result, opened>>
  BY DEF Seal
<1>3. /\ tx_seq[e] \in 0 .. MaxSeq - 1
      /\ Len(sealed[e]) = tx_seq[e]
      /\ sealed[e] \in Seq(Payloads)
  BY SessionAssumption DEF TypeOK, TxCounts, Seal
<1>4. /\ Len(sealed'[e]) = tx_seq[e] + 1
      /\ sealed'[e][tx_seq[e] + 1] = p
      /\ \A n \in 1 .. tx_seq[e] : sealed'[e][n] = sealed[e][n]
      /\ sealed'[e] \in Seq(Payloads)
  BY <1>2, <1>3 DEF TypeOK
<1>5. \A d \in Ends : d # e => sealed'[d] = sealed[d]
  BY <1>2 DEF TypeOK
<1>6. f.tag[1] = MacKey(session, e)
  BY <1>1 DEF ComputeTag
<1>7. \A g \in wire : /\ g \in Frames
                      /\ g.tag[1] = MacKey(g.tag[1][1], g.direction)
                      /\ g.tag[1][1] \in 1 .. session
  <2>1. ASSUME NEW g \in wire
        PROVE  /\ g \in Frames
               /\ g.tag[1] = MacKey(g.tag[1][1], g.direction)
               /\ g.tag[1][1] \in 1 .. session
    <3>1. g \in Frames
      BY DEF TypeOK
    <3>2. PICK n \in 1 .. session :
            g.tag = ComputeTag(MacKey(n, g.direction), 0, g.seq,
                               g.direction, g.payload)
      BY DEF WireHonest
    <3>3. g.tag[1] = MacKey(n, g.direction)
      BY <3>2 DEF ComputeTag
    <3> QED
      BY <3>1, <3>3 DEF MacKey
  <2> QED
    BY <2>1
<1> HIDE DEF f
<1>8. TypeOK'
  <2>1. wire' \subseteq Frames'
    BY <1>1, <1>2 DEF TypeOK, Frames
  <2>2. tx_seq' \in [Ends -> 0 .. MaxSeq + 1]
    BY <1>2, <1>3, SessionAssumption DEF TypeOK
  <2>3. sealed' \in [Ends -> Seq(Payloads)]
    BY <1>2, <1>3 DEF TypeOK
  <2> QED
    BY <2>1, <2>2, <2>3, <1>2 DEF TypeOK
<1>9. WireHonest'
  <2>1. session \in 1 .. session
    BY DEF TypeOK
  <2> QED
    BY <1>1, <1>2, <2>1 DEF WireHonest
<1>10. WireMatchesSealed'
  <2> SUFFICES ASSUME NEW g \in wire', g.tag[1][1] = session
               PROVE  /\ g.seq <= Len(sealed'[g.direction])
                      /\ g.payload.data = sealed'[g.direction][g.seq]
    BY <1>2 DEF WireMatchesSealed
  <2>1. CASE g = f
    BY <2>1, <1>1, <1>3, <1>4
  <2>2. CASE g \in wire
    <3>1. /\ g.seq \in 1 .. Len(sealed[g.direction])
          /\ g.payload.data = sealed[g.direction][g.seq]
          /\ g.direction \in Ends
      BY <2>2, <1>7 DEF WireMatchesSealed, Frames, TypeOK
    <3> QED
      BY SMTT(30), <3>1, <1>3, <1>4, <1>5
  <2> QED
    BY <2>1, <2>2, <1>2
<1>11. SealedIsOnWire'
  <2> SUFFICES ASSUME NEW d \in Ends, NEW n \in 1 .. Len(sealed'[d])
               PROVE  \E g \in wire' :
                        /\ g.seq = n
                        /\ g.direction = d
                        /\ g.payload.data = sealed'[d][n]
                        /\ g.tag = ComputeTag(MacKey(session', d), 0, n, d,
                                              g.payload)
    BY DEF SealedIsOnWire, ComputeTag, MacKey, DirectionByte
  <2>1. CASE d = e /\ n = tx_seq[e] + 1
    <3>1. f \in wire'
      BY <1>2
    <3> QED
      BY <3>1, <2>1, <1>1, <1>2, <1>4
  <2>2. CASE ~ (d = e /\ n = tx_seq[e] + 1)
    <3>1. n \in 1 .. Len(sealed[d]) /\ sealed'[d][n] = sealed[d][n]
      BY <2>2, <1>3, <1>4, <1>5
    <3>2. wire \subseteq wire'
      BY <1>2
    <3> QED
      BY <3>1, <3>2, <1>2 DEF SealedIsOnWire
  <2> QED
    BY <2>1, <2>2
<1>12. TxCounts'
  BY <1>2, <1>3, <1>4, <1>5, SessionAssumption DEF TxCounts, TypeOK
<1>13. RxIsLast'
  BY <1>2 DEF RxIsLast
<1>14. SeqNeverReused'
  <2>1. ASSUME NEW g \in wire, g.tag[1] = f.tag[1], g.seq = f.seq
        PROVE  FALSE
    <3>1. g.direction = e /\ g.tag[1][1] = session
      BY <2>1, <1>6, <1>7 DEF MacKey
    <3>2. g.seq <= Len(sealed[e])
      BY <3>1 DEF WireMatchesSealed
    <3> QED
      BY <3>2, <2>1, <1>1, <1>3
  <2> QED
    BY <2>1, <1>2 DEF SeqNeverReused
<1>15. OpenedWasSealed'
  <2> SUFFICES ASSUME NEW d \in Ends, NEW i \in 1 .. Len(opened[d])
               PROVE  /\ opened[d][i].at <= Len(sealed'[Peer(d)])
                      /\ opened[d][i].msg
                           = sealed'[Peer(d)][opened[d][i].at]
    BY ZenonT(30), <1>2 DEF OpenedWasSealed
  <2>1. Peer(d) \in Ends
    BY EndFacts
  <2>2. opened[d][i].at \in 1 .. MaxSeq
    <3>1. opened[d] \in Seq([at : 1 .. MaxSeq, msg : Payloads])
      BY DEF TypeOK
    <3>2. opened[d][i] \in [at : 1 .. MaxSeq, msg : Payloads]
      BY <3>1, ElementOfSeq
    <3> QED
      BY <3>2
  <2>3. /\ opened[d][i].at \in 1 .. Len(sealed[Peer(d)])
        /\ opened[d][i].msg = sealed[Peer(d)][opened[d][i].at]
    <3>1. sealed[Peer(d)] \in Seq(Payloads)
      BY <2>1 DEF TypeOK
    <3> QED
      BY <2>2, <3>1 DEF OpenedWasSealed
  <2>4. CASE Peer(d) = e
    <3>1. opened[d][i].at \in 1 .. tx_seq[e]
      BY <2>2, <2>3, <2>4, <1>3
    <3> QED
      BY SMTT(30), <3>1, <2>3, <2>4, <1>3, <1>4
  <2>5. CASE Peer(d) # e
    BY <2>1, <2>3, <2>5, <1>5
  <2> QED
    BY <2>4, <2>5
<1>16. OpenedInOrder'
  BY <1>2 DEF OpenedInOrder
<1> QED
  BY <1>8, <1>9, <1>10, <1>11, <1>12, <1>13, <1>14, <1>15, <1>16

\* All but TxCounts and the type of tx_seq is about variables that stay.
LEMMA SealOverflowsIInv ==
  ASSUME IInv, NEW e \in Ends, SealOverflows(e)
  PROVE  IInv'
<1> USE DEF IInv, SealOverflows
<1>1. TypeOK'
  <2>1. tx_seq' \in [Ends -> 0 .. MaxSeq + 1]
    BY SessionAssumption DEF TypeOK
  <2>2. wire' \subseteq Frames'
    BY DEF TypeOK, Frames
  <2> QED
    BY <2>1, <2>2 DEF TypeOK
<1>2. WireHonest' /\ WireMatchesSealed' /\ SealedIsOnWire'
  BY DEF WireHonest, WireMatchesSealed, SealedIsOnWire, ComputeTag, MacKey
<1>3. TxCounts'
  BY SessionAssumption DEF TxCounts, TypeOK
<1>4. RxIsLast' /\ SeqNeverReused' /\ OpenedWasSealed' /\ OpenedInOrder'
  BY DEF RxIsLast, SeqNeverReused, OpenedWasSealed, OpenedInOrder
<1> QED
  BY <1>1, <1>2, <1>3, <1>4

\* A refused frame changes nothing the invariant speaks of.
LEMMA RaiseIInv ==
  ASSUME IInv,
         NEW error \in {"AuthenticationError", "ReplayError",
                        "struct.error", "TypeError"},
         Raise(error)
  PROVE  IInv'
<1> USE DEF IInv, Raise
<1>1. TypeOK'
  BY DEF TypeOK, Frames
<1>2. WireHonest' /\ WireMatchesSealed' /\ SealedIsOnWire'
  BY DEF WireHonest, WireMatchesSealed, SealedIsOnWire, ComputeTag, MacKey
<1>3. TxCounts' /\ RxIsLast'
  BY DEF TxCounts, RxIsLast
<1>4. SeqNeverReused' /\ OpenedWasSealed' /\ OpenedInOrder'
  BY DEF SeqNeverReused, OpenedWasSealed, OpenedInOrder
<1> QED
  BY <1>1, <1>2, <1>3, <1>4

\* open hands out what the peer sealed under that number, and moves rx_seq to
\* it: the honest frame behind an accepted one supplies both facts.
LEMMA OpenFreshIInv ==
  ASSUME IInv, NEW e \in Ends, NEW f \in Arrivals, OpenFresh(e, f)
  PROVE  IInv'
<1> DEFINE o == [at |-> f.seq, msg |-> f.payload.data]
<1> USE DEF IInv
<1>1. /\ Peer(e) \in Ends
      /\ f.seq \in 1 .. MaxSeq
      /\ f.seq <= Len(sealed[Peer(e)])
      /\ f.payload.data = sealed[Peer(e)][f.seq]
      /\ f.payload.data \in Payloads
  <2>1. PICK g \in wire : /\ g.seq = f.seq
                         /\ g.payload = f.payload
                         /\ g.direction = Peer(e)
                         /\ g.tag[1] = MacKey(session, Peer(e))
    BY AuthenticIsHonest DEF OpenFresh
  <2>2. g \in Frames /\ g.tag[1][1] = session
    BY <2>1 DEF TypeOK, MacKey
  <2>3. g.payload.data \in Payloads
    BY <2>2 DEF Frames, Bodies
  <2> QED
    BY <2>1, <2>2, <2>3, EndFacts DEF WireMatchesSealed, Frames
<1>2. /\ f.seq > rx_seq[e]
      /\ rx_seq' = [rx_seq EXCEPT ![e] = f.seq]
      /\ result' = "opened"
      /\ opened' = [opened EXCEPT ![e] = Append(@, o)]
      /\ UNCHANGED <<session, compress, tx_seq, wire, sealed>>
  BY DEF OpenFresh, Unpack
<1>3. opened[e] \in Seq([at : 1 .. MaxSeq, msg : Payloads])
  BY DEF TypeOK
<1>4. o \in [at : 1 .. MaxSeq, msg : Payloads] /\ o.at = f.seq
  BY <1>1
<1> HIDE DEF o
<1>5. /\ opened'[e] = Append(opened[e], o)
      /\ opened'[e] \in Seq([at : 1 .. MaxSeq, msg : Payloads])
      /\ Len(opened'[e]) = Len(opened[e]) + 1
      /\ Len(opened[e]) \in Nat
      /\ opened'[e][Len(opened[e]) + 1] = o
      /\ \A i \in 1 .. Len(opened[e]) : opened'[e][i] = opened[e][i]
  BY <1>2, <1>3, <1>4 DEF TypeOK
<1>6. \A d \in Ends : d # e => opened'[d] = opened[d] /\ rx_seq'[d] = rx_seq[d]
  BY <1>2 DEF TypeOK
<1>7. rx_seq'[e] = f.seq /\ rx_seq[e] \in 0 .. MaxSeq
  BY <1>2 DEF TypeOK
<1>8. \A i \in 1 .. Len(opened[e]) : /\ opened[e][i].at \in 1 .. MaxSeq
                                     /\ opened[e][i].at < f.seq
  <2>1. ASSUME NEW i \in 1 .. Len(opened[e])
        PROVE  /\ opened[e][i].at \in 1 .. MaxSeq
               /\ opened[e][i].at < f.seq
    <3>1. opened[e][i] \in [at : 1 .. MaxSeq, msg : Payloads]
      BY <1>3, ElementOfSeq
    <3>2. opened[e][i].at <= rx_seq[e]
      BY DEF RxIsLast
    <3> QED
      BY <3>1, <3>2, <1>1, <1>2, <1>7
  <2> QED
    BY <2>1
<1>9. TypeOK'
  <2>1. rx_seq' \in [Ends -> 0 .. MaxSeq]
    BY <1>1, <1>2 DEF TypeOK
  <2>2. opened' \in [Ends -> Seq([at : 1 .. MaxSeq, msg : Payloads])]
    BY <1>2, <1>5 DEF TypeOK
  <2>3. wire' \subseteq Frames'
    BY <1>2 DEF TypeOK, Frames
  <2> QED
    BY <2>1, <2>2, <2>3, <1>2 DEF TypeOK
<1>10. WireHonest' /\ WireMatchesSealed' /\ SealedIsOnWire'
  BY <1>2 DEF WireHonest, WireMatchesSealed, SealedIsOnWire, ComputeTag, MacKey
<1>11. TxCounts' /\ SeqNeverReused'
  BY <1>2 DEF TxCounts, SeqNeverReused
<1>12. RxIsLast'
  <2> SUFFICES ASSUME NEW d \in Ends
               PROVE  /\ rx_seq'[d] =
                           IF opened'[d] = <<>>
                           THEN 0 ELSE opened'[d][Len(opened'[d])].at
                      /\ \A i \in 1 .. Len(opened'[d]) :
                           opened'[d][i].at <= rx_seq'[d]
    BY DEF RxIsLast
  <2>1. CASE d = e
    <3>1. opened'[e] # <<>>
      BY <1>5
    <3>2. opened'[e][Len(opened'[e])].at = f.seq
      BY <1>4, <1>5
    <3>3. \A i \in 1 .. Len(opened'[e]) : opened'[e][i].at <= f.seq
      BY <1>1, <1>4, <1>5, <1>8
    <3> QED
      BY <2>1, <3>1, <3>2, <3>3, <1>7
  <2>2. CASE d # e
    BY <2>2, <1>6 DEF RxIsLast
  <2> QED
    BY <2>1, <2>2
<1>13. OpenedWasSealed'
  <2> SUFFICES ASSUME NEW d \in Ends, NEW i \in 1 .. Len(opened'[d])
               PROVE  /\ opened'[d][i].at <= Len(sealed[Peer(d)])
                      /\ opened'[d][i].msg
                           = sealed[Peer(d)][opened'[d][i].at]
    BY <1>2 DEF OpenedWasSealed
  <2>1. CASE d = e /\ i = Len(opened[e]) + 1
    BY <2>1, <1>1, <1>5 DEF o
  <2>2. CASE ~ (d = e /\ i = Len(opened[e]) + 1)
    <3>1. i \in 1 .. Len(opened[d]) /\ opened'[d][i] = opened[d][i]
      <4>1. CASE d = e
        BY <2>2, <4>1, <1>5
      <4>2. CASE d # e
        BY <4>2, <1>6
      <4> QED
        BY <4>1, <4>2
    <3> QED
      BY <3>1 DEF OpenedWasSealed
  <2> QED
    BY <2>1, <2>2
<1>14. OpenedInOrder'
  <2> SUFFICES ASSUME NEW d \in Ends,
                      NEW i \in 1 .. Len(opened'[d]),
                      NEW j \in 1 .. Len(opened'[d]), i < j
               PROVE  opened'[d][i].at < opened'[d][j].at
    BY DEF OpenedInOrder
  <2>1. CASE d = e /\ j = Len(opened[e]) + 1
    <3>1. i \in 1 .. Len(opened[e])
      BY <2>1, <1>5
    <3> QED
      BY <2>1, <3>1, <1>4, <1>5, <1>8
  <2>2. CASE ~ (d = e /\ j = Len(opened[e]) + 1)
    <3>1. /\ i \in 1 .. Len(opened[d]) /\ j \in 1 .. Len(opened[d])
          /\ opened'[d][i] = opened[d][i] /\ opened'[d][j] = opened[d][j]
      <4>1. CASE d = e
        BY <2>2, <4>1, <1>5
      <4>2. CASE d # e
        BY <4>2, <1>6
      <4> QED
        BY <4>1, <4>2
    <3> QED
      BY <3>1 DEF OpenedInOrder
  <2> QED
    BY <2>1, <2>2
<1> QED
  BY <1>9, <1>10, <1>11, <1>12, <1>13, <1>14

\* A new session starts over; the frames left on the wire carry older keys.
LEMMA NewSessionIInv ==
  ASSUME IInv, NewSession
  PROVE  IInv'
<1> USE DEF IInv, NewSession
<1>1. session \in Nat \ {0} /\ session' = session + 1 /\ wire' = wire
  BY DEF TypeOK
<1>2. TypeOK'
  <2>1. wire' \subseteq Frames'
    <3>1. 1 .. session \subseteq 1 .. session'
      BY <1>1
    <3> QED
      BY <3>1, <1>1 DEF TypeOK, Frames
  <2> QED
    BY <2>1, <1>1, SessionAssumption DEF TypeOK
<1>3. WireHonest'
  <2> SUFFICES ASSUME NEW f \in wire
               PROVE  \E n \in 1 .. session' :
                        f.tag = ComputeTag(MacKey(n, f.direction), 0, f.seq,
                                           f.direction, f.payload)
    BY <1>1 DEF WireHonest
  <2> QED
    BY <1>1 DEF WireHonest
<1>4. WireMatchesSealed'
  <2>1. ASSUME NEW f \in wire
        PROVE  f.tag[1][1] \in 1 .. session
    <3>1. PICK n \in 1 .. session :
            f.tag = ComputeTag(MacKey(n, f.direction), 0, f.seq, f.direction,
                               f.payload)
      BY DEF WireHonest
    <3> QED
      BY <3>1 DEF ComputeTag, MacKey
  <2> QED
    BY <2>1, <1>1 DEF WireMatchesSealed
<1>5. SealedIsOnWire' /\ TxCounts' /\ RxIsLast'
  BY SessionAssumption DEF SealedIsOnWire, TxCounts, RxIsLast
<1>6. SeqNeverReused' /\ OpenedWasSealed' /\ OpenedInOrder'
  BY DEF SeqNeverReused, OpenedWasSealed, OpenedInOrder
<1> QED
  BY <1>2, <1>3, <1>4, <1>5, <1>6

LEMMA NextIInv == IInv /\ [Next]_vars => IInv'
<1> SUFFICES ASSUME IInv, [Next]_vars
             PROVE  IInv'
  OBVIOUS
<1>1. ASSUME NEW e \in Ends, NEW p \in Payloads, Seal(e, p)
      PROVE  IInv'
  BY <1>1, SealIInv
<1>2. ASSUME NEW e \in Ends, SealOverflows(e)
      PROVE  IInv'
  BY <1>2, SealOverflowsIInv
<1>3. ASSUME NEW e \in Ends, NEW f \in Arrivals, Open(e, f)
      PROVE  IInv'
  <2>1. CASE OpenUnauthentic(e, f)
    BY <2>1, RaiseIInv DEF OpenUnauthentic
  <2>2. CASE OpenOverflows(e, f)
    BY <2>2, RaiseIInv DEF OpenOverflows
  <2>3. CASE OpenStale(e, f)
    BY <2>3, RaiseIInv DEF OpenStale
  <2>4. CASE OpenIncomparable(e, f)
    BY <2>4, RaiseIInv DEF OpenIncomparable
  <2>5. CASE OpenFresh(e, f)
    BY <2>5, OpenFreshIInv
  <2> QED
    BY <1>3, <2>1, <2>2, <2>3, <2>4, <2>5 DEF Open
<1>4. CASE NewSession
  BY <1>4, NewSessionIInv
<1>5. CASE UNCHANGED vars
  <2> USE <1>5 DEF IInv, vars
  <2>1. TypeOK'
    BY DEF TypeOK, Frames
  <2>2. WireHonest' /\ WireMatchesSealed' /\ SealedIsOnWire'
    BY DEF WireHonest, WireMatchesSealed, SealedIsOnWire, ComputeTag, MacKey
  <2>3. TxCounts' /\ RxIsLast'
    BY DEF TxCounts, RxIsLast
  <2>4. SeqNeverReused' /\ OpenedWasSealed' /\ OpenedInOrder'
    BY DEF SeqNeverReused, OpenedWasSealed, OpenedInOrder
  <2> QED
    BY <2>1, <2>2, <2>3, <2>4
<1> QED
  BY <1>1, <1>2, <1>3, <1>4, <1>5 DEF Next

LEMMA SpecIInv == Spec => []IInv
BY InitIInv, NextIInv, PTL DEF Spec

-----------------------------------------------------------------------------
\* The counters, frames and histories always have the types of the code's
\* fields, whatever arrives.
THEOREM TypeCorrect == Spec => []TypeOK
<1>1. IInv => TypeOK
  BY DEF IInv
<1> QED
  BY <1>1, SpecIInv, PTL

\* open never hands out anything but what the peer sealed under that number
\* in the same session.
THEOREM Authenticity == Spec => []OpenedWasSealed
<1>1. IInv => OpenedWasSealed
  BY DEF IInv
<1> QED
  BY <1>1, SpecIInv, PTL

\* open never hands out a message twice or after a later one.
THEOREM AntiReplay == Spec => []OpenedInOrder
<1>1. IInv => OpenedInOrder
  BY DEF IInv
<1> QED
  BY <1>1, SpecIInv, PTL

\* No key ever tags two frames with one sequence number, at any width.
THEOREM NoSeqReuse == Spec => []SeqNeverReused
<1>1. IInv => SeqNeverReused
  BY DEF IInv
<1> QED
  BY <1>1, SpecIInv, PTL

\* A receiver is never ahead of its sender.
THEOREM ReceiverNotAhead == Spec => []RxNotAhead
<1>1. ASSUME IInv, NEW e \in Ends
      PROVE  rx_seq[e] <= tx_seq[Peer(e)]
  <2> USE <1>1 DEF IInv
  <2>1. Peer(e) \in Ends /\ MaxSeq \in Nat
    BY EndFacts, SessionAssumption
  <2>2. tx_seq[Peer(e)] \in 0 .. MaxSeq + 1 /\ rx_seq[e] \in 0 .. MaxSeq
    BY <2>1 DEF TypeOK
  <2>3. /\ Len(sealed[Peer(e)]) \in Nat
        /\ Len(sealed[Peer(e)]) <= tx_seq[Peer(e)]
    BY <2>1, <2>2 DEF TxCounts
  <2>4. CASE opened[e] = <<>>
    BY <2>2, <2>4 DEF RxIsLast
  <2>5. CASE opened[e] # <<>>
    <3>1. opened[e] \in Seq([at : 1 .. MaxSeq, msg : Payloads])
      BY DEF TypeOK
    <3>2. Len(opened[e]) \in 1 .. Len(opened[e])
      BY <2>5, <3>1
    <3>3. rx_seq[e] <= Len(sealed[Peer(e)])
      BY <3>2, <2>5 DEF RxIsLast, OpenedWasSealed
    <3> QED
      BY <3>3, <2>2, <2>3
  <2> QED
    BY <2>4, <2>5
<1>2. IInv => RxNotAhead
  BY <1>1 DEF RxNotAhead
<1> QED
  BY <1>2, SpecIInv, PTL

\* A genuine frame newer than all opened so far passes the checks of open.
THEOREM FreshAccepted == Spec => []FreshFramesOpen
<1>1. ASSUME IInv, NEW e \in Ends, NEW n \in 1 .. Len(sealed[Peer(e)])
      PROVE  \E f \in wire : /\ f.seq = n
                             /\ Unpack(f.payload) = sealed[Peer(e)][n]
                             /\ Authentic(e, f)
  <2> USE <1>1 DEF IInv
  <2>1. PICK f \in wire :
          /\ f.seq = n
          /\ f.direction = Peer(e)
          /\ f.payload.data = sealed[Peer(e)][n]
          /\ f.tag = ComputeTag(MacKey(session, Peer(e)), 0, n, Peer(e),
                                f.payload)
    BY EndFacts DEF SealedIsOnWire
  <2>2. f \in Frames
    BY DEF TypeOK
  <2>3. /\ f.epoch = 0 /\ f.seq <= MaxSeq
        /\ f.payload # NotBase64 /\ f.tag # NotAscii
    <3>1. f.tag \in Tags
      <4>1. f.tag \in ((1 .. session) \X Ends) \X {0} \X (1 .. MaxSeq)
                        \X {"C", "S"} \X Bodies
        BY <2>2 DEF Frames
      <4>2. (1 .. session) \subseteq Nat /\ (1 .. MaxSeq) \subseteq Nat
        BY SessionAssumption
      <4> HIDE DEF IInv, Bodies
      <4> QED
        BY <4>1, <4>2 DEF Tags
    <3> QED
      BY <2>2, <3>1, SessionAssumption DEF Frames
  <2>4. Authentic(e, f)
    BY <2>1, <2>3
       DEF Authentic, WellFormed, TagVerifies, RxDir, RxMac
  <2> QED
    BY <2>1, <2>4 DEF Unpack
<1>2. IInv => FreshFramesOpen
  BY <1>1 DEF FreshFramesOpen
<1> QED
  BY <1>2, SpecIInv, PTL

\* A refused frame never moves rx_seq: only OpenFresh does, and it always
\* hands out a message, since the bodies of genuine frames are pack's.
THEOREM RefusalHarmless == Spec => RefusalLeavesNoTrace
<1>1. ASSUME IInv, [Next]_vars, NEW e \in Ends,
             session' = session, opened'[e] = opened[e]
      PROVE  rx_seq'[e] = rx_seq[e]
  <2> USE <1>1
  <2>1. ASSUME NEW d \in Ends, NEW f \in Arrivals, OpenFresh(d, f)
        PROVE  rx_seq'[e] = rx_seq[e]
    <3> USE <2>1 DEF IInv
    <3>1. opened[d] \in Seq([at : 1 .. MaxSeq, msg : Payloads])
      BY DEF TypeOK
    <3>2. opened'[d] = Append(opened[d], [at  |-> f.seq,
                                          msg |-> Unpack(f.payload)])
      BY DEF OpenFresh, TypeOK
    <3>3. opened'[d] # opened[d]
      <4>1. Len(opened'[d]) = Len(opened[d]) + 1 /\ Len(opened[d]) \in Nat
        BY <3>1, <3>2
      <4> QED
        BY <4>1
    <3>4. d # e
      BY <3>3
    <3> QED
      BY <3>4 DEF OpenFresh, TypeOK
  <2>2. CASE UNCHANGED rx_seq
    BY <2>2
  <2>3. \/ UNCHANGED rx_seq
        \/ NewSession
        \/ \E d \in Ends : \E f \in Arrivals : OpenFresh(d, f)
    BY DEF Next, Seal, SealOverflows, Open, OpenUnauthentic, OpenOverflows,
           OpenIncomparable, OpenStale, Raise, vars
  <2>4. ~ NewSession
    BY DEF NewSession, IInv, TypeOK
  <2> QED
    BY <2>1, <2>2, <2>3, <2>4
<1>2. IInv /\ [Next]_vars
        => [\A e \in Ends :
              (session' = session /\ opened'[e] = opened[e])
                => rx_seq'[e] = rx_seq[e]]_vars
  BY <1>1
<1> QED
  BY <1>2, SpecIInv, PTL DEF Spec, RefusalLeavesNoTrace

-----------------------------------------------------------------------------
(***************************************************************************)
(* The refinement. A seal is a Send on the sender's channel, an accepted   *)
(* open a Deliver on the peer's channel at the frame's number, a new       *)
(* session a Restart; an overflowing seal and a refused frame stutter.     *)
(***************************************************************************)
\* LastAt of the channel an end reads is that end's rx_seq.
LEMMA LastAtIsRx ==
  ASSUME IInv, NEW e \in Ends
  PROVE  Channel!LastAt(Peer(e)) = rx_seq[e]
<1>1. Peer(e) \in Ends /\ Peer(Peer(e)) = e
  BY EndFacts
<1> QED
  BY <1>1 DEF Channel!LastAt, IInv, RxIsLast

LEMMA SealIsSend ==
  ASSUME IInv, NEW e \in Ends, NEW p \in Payloads, Seal(e, p)
  PROVE  Channel!Send(e, p)
BY DEF Seal, Channel!Send

LEMMA OpenIsDeliver ==
  ASSUME IInv, NEW e \in Ends, NEW f \in Arrivals, OpenFresh(e, f)
  PROVE  \E i \in 1 .. Len(sealed[Peer(e)]) : Channel!Deliver(Peer(e), i)
<1>1. /\ f.seq \in 1 .. Len(sealed[Peer(e)])
      /\ f.payload.data = sealed[Peer(e)][f.seq]
  <2> USE DEF IInv
  <2>1. PICK g \in wire : /\ g.seq = f.seq
                         /\ g.payload = f.payload
                         /\ g.direction = Peer(e)
                         /\ g.tag[1] = MacKey(session, Peer(e))
    BY AuthenticIsHonest DEF OpenFresh
  <2>2. g \in Frames /\ g.tag[1][1] = session
    BY <2>1 DEF TypeOK, MacKey
  <2>3. f.seq \in 1 .. MaxSeq /\ f.seq <= Len(sealed[Peer(e)])
    BY <2>1, <2>2 DEF Frames, WireMatchesSealed
  <2>4. Len(sealed[Peer(e)]) \in Nat
    BY EndFacts DEF TypeOK
  <2> QED
    BY <2>1, <2>2, <2>3, <2>4, SessionAssumption DEF WireMatchesSealed
<1>2. f.seq > Channel!LastAt(Peer(e))
  BY LastAtIsRx DEF OpenFresh
<1>3. [d \in Ends |-> opened[Peer(d)]]'
        = [[d \in Ends |-> opened[Peer(d)]] EXCEPT
             ![Peer(e)] = Append(@, [at  |-> f.seq,
                                     msg |-> sealed[Peer(e)][f.seq]])]
  <2>1. opened' = [opened EXCEPT ![e] = Append(@, [at  |-> f.seq,
                                                   msg |-> f.payload.data])]
    BY DEF OpenFresh, Unpack
  <2>2. \A d \in Ends : opened'[Peer(d)] =
          IF d = Peer(e) THEN Append(opened[e], [at  |-> f.seq,
                                                 msg |-> f.payload.data])
                         ELSE opened[Peer(d)]
    BY <2>1 DEF IInv, TypeOK, Ends, Peer
  <2> QED
    BY <2>2, <1>1, EndFacts
<1>4. UNCHANGED sealed
  BY DEF OpenFresh
<1> QED
  BY <1>1, <1>2, <1>3, <1>4 DEF Channel!Deliver

\* Session implements OrderedChannel: at most once, in order, unaltered.
THEOREM Refinement == Spec => ImplementsChannel
<1>1. Init => Channel!Init
  BY EndFacts DEF Init, Channel!Init
<1>2. ASSUME IInv, [Next]_vars
      PROVE  [Channel!Next]_(Channel!vars)
  <2> USE <1>2
  <2>1. ASSUME NEW e \in Ends, NEW p \in Payloads, Seal(e, p)
        PROVE  Channel!Next
    BY <2>1, SealIsSend DEF Channel!Next
  <2>2. ASSUME NEW e \in Ends, NEW f \in Arrivals, OpenFresh(e, f)
        PROVE  Channel!Next
    <3>1. Peer(e) \in Ends
      BY EndFacts
    <3>2. \E i \in 1 .. Len(sealed[Peer(e)]) : Channel!Deliver(Peer(e), i)
      BY <2>2, OpenIsDeliver
    <3> QED
      BY <3>1, <3>2 DEF Channel!Next
  <2>3. CASE NewSession
    BY <2>3 DEF NewSession, Channel!Next, Channel!Restart, Ends, Peer
  <2>4. CASE UNCHANGED <<sealed, opened>>
    BY <2>4 DEF Channel!vars
  <2>5. \/ \E e \in Ends, p \in Payloads : Seal(e, p)
        \/ \E e \in Ends : \E f \in Arrivals : OpenFresh(e, f)
        \/ NewSession
        \/ UNCHANGED <<sealed, opened>>
    BY DEF Next, SealOverflows, Open, OpenUnauthentic, OpenOverflows,
           OpenIncomparable, OpenStale, Raise, vars
  <2> QED
    BY <2>1, <2>2, <2>3, <2>4, <2>5
<1> QED
  BY <1>1, <1>2, SpecIInv, PTL DEF Spec, ImplementsChannel, Channel!Spec
=============================================================================
