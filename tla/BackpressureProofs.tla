------------------------- MODULE BackpressureProofs -------------------------
(***************************************************************************)
(* Proof that relayed frames never mix on a connection: for any number of  *)
(* clients and pieces, buffers of any size, and clients that stop reading. *)
(***************************************************************************)
EXTENDS Backpressure, FiniteSetTheorems, SequenceTheorems, TLAPS

\* A thread that delivers holds its recipient's lock, so it is alone there.
LockHeld ==
  \A c \in Conns : pc[c] = "deliver" =>
    /\ recipients[c] # <<>>
    /\ \A r \in Conns : r = Head(recipients[c]) => lock[r] = c

\* No piece of a message comes after a certain one.
Latest(s, p) ==
  \E j \in 1 .. Len(s) :
    s[j] = p /\ \A k \in j + 1 .. Len(s) : s[k].kind # "message"

\* The frame a thread is writing is whole up to the piece it has come to.
UnderWay ==
  \A c, r \in Conns :
    (pc[c] = "deliver" /\ r = Head(recipients[c]) /\ rest[c] < Pieces) =>
      Latest(Sent(r), Piece(c, written[c], "message", rest[c]))

IInv == TypeOK /\ LockHeld /\ UnderWay /\ MessagesWhole

-----------------------------------------------------------------------------
LEMMA PieceTyped ==
  ASSUME NEW c \in Conns, NEW n \in Nat, NEW kind \in {"message", "answer"},
         NEW k \in 0 .. Pieces - 1
  PROVE  /\ Piece(c, n, kind, k) \in PieceType
         /\ Piece(c, n, kind, k).kind = kind /\ Piece(c, n, kind, k).rest = k
         /\ [Piece(c, n, kind, k) EXCEPT !.rest = @ + 1] = Piece(c, n, kind, k + 1)
  BY DEF Piece, PieceType

LEMMA Appended ==
  ASSUME NEW T, NEW s \in Seq(T), NEW p \in T
  PROVE  /\ Append(s, p) \in Seq(T)
         /\ Len(s) \in Nat /\ Len(Append(s, p)) = Len(s) + 1
         /\ Append(s, p)[Len(s) + 1] = p
         /\ \A i \in 1 .. Len(s) : Append(s, p)[i] = s[i]
  BY AppendProperties

\* Two sequences one after the other, by places.
LEMMA Joined ==
  ASSUME NEW T, NEW s \in Seq(T), NEW t \in Seq(T)
  PROVE  /\ s \o t \in Seq(T)
         /\ Len(s) \in Nat /\ Len(t) \in Nat
         /\ Len(s \o t) = Len(s) + Len(t)
         /\ \A i \in 1 .. Len(s) : (s \o t)[i] = s[i]
         /\ \A i \in 1 .. Len(t) : (s \o t)[Len(s) + i] = t[i]
  BY ConcatProperties

\* A piece put into the buffers is put at the end of what the client sees.
LEMMA SentLater ==
  ASSUME NEW T, NEW s \in Seq(T), NEW t \in Seq(T), NEW p \in T
  PROVE  s \o Append(t, p) = Append(s \o t, p)
<1>0. PICK a, w : a = Append(t, p) /\ w = s \o t
  OBVIOUS
<1> DEFINE u == s \o a
           v == Append(w, p)
           n == Len(s)
           m == Len(t)
<1>1. /\ a \in Seq(T) /\ n \in Nat /\ m \in Nat /\ Len(a) = m + 1
      /\ a[m + 1] = p /\ \A i \in 1 .. m : a[i] = t[i]
  BY <1>0, Appended
<1>2. /\ w \in Seq(T) /\ Len(w) = n + m
      /\ \A i \in 1 .. n : w[i] = s[i]
      /\ \A i \in 1 .. m : w[n + i] = t[i]
  BY <1>0, Joined
<1>3. /\ u \in Seq(T) /\ Len(u) = n + (m + 1)
      /\ \A i \in 1 .. n : u[i] = s[i]
      /\ \A i \in 1 .. m + 1 : u[n + i] = a[i]
  <2>0. a \in Seq(T)
    BY <1>1
  <2>1. u \in Seq(T) /\ Len(u) = n + Len(a)
    BY <2>0, Joined
  <2>2. \A i \in 1 .. n : u[i] = s[i]
    BY <2>0, Joined
  <2>3. \A i \in 1 .. Len(a) : u[n + i] = a[i]
    BY <2>0, Joined
  <2> HIDE DEF u, n, m
  <2> QED
    BY <1>1, <2>1, <2>2, <2>3
<1>4. /\ v \in Seq(T) /\ Len(v) = (n + m) + 1
      /\ v[(n + m) + 1] = p
      /\ \A i \in 1 .. n + m : v[i] = w[i]
  BY <1>2, Appended
<1> HIDE DEF u, v, n, m
<1>5. ASSUME NEW i \in 1 .. (n + m) + 1
      PROVE  u[i] = v[i]
  <2>1. CASE i \in 1 .. n
    BY <1>1, <1>2, <1>3, <1>4, <2>1
  <2>2. CASE i \notin 1 .. n
    <3>1. PICK j \in 1 .. m + 1 : i = n + j
      <4>1. i - n \in 1 .. m + 1 /\ i = n + (i - n)
        BY <1>1, <2>2
      <4> QED
        BY <4>1
    <3>2. CASE j = m + 1
      BY <1>1, <1>3, <1>4, <3>1, <3>2
    <3>3. CASE j \in 1 .. m
      <4>1. n + j \in 1 .. n + m
        BY <1>1, <3>3
      <4> QED
        BY <1>1, <1>2, <1>3, <1>4, <3>1, <3>3, <4>1
    <3> QED
      BY <1>1, <3>2, <3>3
  <2> QED
    BY <2>1, <2>2
<1>6. n + (m + 1) = (n + m) + 1
  BY <1>1
<1>7. u = v
  BY <1>3, <1>4, <1>5, <1>6, SeqEqual
<1> QED
  BY <1>0, <1>7 DEF u, v

\* A piece that is read stays where it is.
LEMMA SentStays ==
  ASSUME NEW T, NEW s \in Seq(T), NEW t \in Seq(T), t # <<>>
  PROVE  Append(s, Head(t)) \o Tail(t) = s \o t
<1>0. PICK h, r : h = Append(s, Head(t)) /\ r = Tail(t)
  OBVIOUS
<1> DEFINE u == h \o r
           v == s \o t
           n == Len(s)
           m == Len(t)
<1>1. n \in Nat /\ m \in Nat /\ m # 0 /\ Head(t) = t[1] /\ Head(t) \in T
  <2>1. m # 0
    BY EmptySeq
  <2> QED
    BY <2>1
<1>2. /\ r \in Seq(T) /\ Len(r) = m - 1
      /\ \A i \in 1 .. m - 1 : r[i] = t[i + 1]
  BY <1>0, HeadTailProperties
<1>3. /\ h \in Seq(T) /\ Len(h) = n + 1 /\ h[n + 1] = t[1]
      /\ \A i \in 1 .. n : h[i] = s[i]
  BY <1>0, <1>1, Appended
<1>4. /\ u \in Seq(T) /\ Len(u) = (n + 1) + (m - 1)
      /\ \A i \in 1 .. n + 1 : u[i] = h[i]
      /\ \A i \in 1 .. m - 1 : u[(n + 1) + i] = r[i]
  <2>0. h \in Seq(T) /\ r \in Seq(T)
    BY <1>2, <1>3
  <2>1. u \in Seq(T) /\ Len(u) = Len(h) + Len(r)
    BY <2>0, Joined
  <2>2. \A i \in 1 .. Len(h) : u[i] = h[i]
    BY <2>0, Joined
  <2>3. \A i \in 1 .. Len(r) : u[Len(h) + i] = r[i]
    BY <2>0, Joined
  <2> HIDE DEF u, n, m
  <2> QED
    BY <1>2, <1>3, <2>1, <2>2, <2>3
<1>5. /\ v \in Seq(T) /\ Len(v) = n + m
      /\ \A i \in 1 .. n : v[i] = s[i]
      /\ \A i \in 1 .. m : v[n + i] = t[i]
  BY Joined
<1> HIDE DEF u, v, n, m
<1>6. ASSUME NEW i \in 1 .. n + m
      PROVE  u[i] = v[i]
  <2>1. CASE i \in 1 .. n
    BY <1>1, <1>3, <1>4, <1>5, <2>1
  <2>2. CASE i = n + 1
    <3>1. n + 1 \in 1 .. n + 1 /\ 1 \in 1 .. m
      BY <1>1
    <3> QED
      BY <1>3, <1>4, <1>5, <2>2, <3>1
  <2>3. CASE i \notin 1 .. n + 1
    <3>1. PICK j \in 1 .. m - 1 : i = (n + 1) + j
      <4>1. i - (n + 1) \in 1 .. m - 1 /\ i = (n + 1) + (i - (n + 1))
        BY <1>1, <2>3
      <4> QED
        BY <4>1
    <3>2. j + 1 \in 1 .. m /\ i = n + (j + 1)
      BY <1>1, <3>1
    <3> QED
      BY <1>2, <1>4, <1>5, <3>1, <3>2
  <2> QED
    BY <1>1, <2>1, <2>2, <2>3
<1>7. (n + 1) + (m - 1) = n + m
  BY <1>1
<1>8. u = v
  BY <1>4, <1>5, <1>6, <1>7, SeqEqual
<1> QED
  BY <1>0, <1>8 DEF u, v

-----------------------------------------------------------------------------
\* What an appended piece does to what is on a connection.
LEMMA LatestAppended ==
  ASSUME NEW s \in Seq(PieceType), NEW p \in PieceType
  PROVE  Latest(Append(s, p), p)
<1>1. /\ Len(s) \in Nat /\ Len(Append(s, p)) = Len(s) + 1
      /\ Append(s, p)[Len(s) + 1] = p
  BY Appended
<1>2. \A k \in (Len(s) + 1) + 1 .. Len(s) + 1 : FALSE
  BY <1>1
<1> QED
  BY <1>1, <1>2 DEF Latest

LEMMA LatestKept ==
  ASSUME NEW s \in Seq(PieceType), NEW p \in PieceType, NEW q \in PieceType,
         q.kind # "message", Latest(s, p)
  PROVE  Latest(Append(s, q), p)
<1>1. PICK t : t = Append(s, q)
  OBVIOUS
<1>2. /\ Len(s) \in Nat /\ Len(t) = Len(s) + 1 /\ t[Len(s) + 1] = q
      /\ \A i \in 1 .. Len(s) : t[i] = s[i]
  BY <1>1, Appended
<1>3. PICK j \in 1 .. Len(s) :
        s[j] = p /\ \A k \in j + 1 .. Len(s) : s[k].kind # "message"
  BY DEF Latest
<1>4. j \in 1 .. Len(t) /\ t[j] = p
  BY <1>2, <1>3
<1>5. ASSUME NEW k \in j + 1 .. Len(t)
      PROVE  t[k].kind # "message"
  <2>1. CASE k = Len(s) + 1
    BY <1>2, <2>1
  <2>2. CASE k # Len(s) + 1
    <3>1. k \in j + 1 .. Len(s) /\ k \in 1 .. Len(s)
      BY <1>2, <2>2
    <3> QED
      BY <1>2, <1>3, <3>1
  <2> QED
    BY <2>1, <2>2
<1> QED
  BY <1>1, <1>4, <1>5 DEF Latest

\* A piece of an answer, or the first of a message, or the one that follows
\* the latest piece of a message, leaves messages whole.
LEMMA WholeAppended ==
  ASSUME NEW s \in Seq(PieceType), NEW q \in PieceType, WholeMessages(s),
         (q.kind = "message" /\ q.rest < Pieces - 1) =>
           Latest(s, [q EXCEPT !.rest = @ + 1])
  PROVE  WholeMessages(Append(s, q))
<1>1. PICK t : t = Append(s, q)
  OBVIOUS
<1>2. /\ Len(s) \in Nat /\ Len(t) = Len(s) + 1 /\ t[Len(s) + 1] = q
      /\ \A i \in 1 .. Len(s) : t[i] = s[i]
  BY <1>1, Appended
<1>3. SUFFICES ASSUME NEW i \in 1 .. Len(t),
                      t[i].kind = "message", t[i].rest < Pieces - 1
               PROVE  \E j \in 1 .. i - 1 :
                        /\ t[j] = [t[i] EXCEPT !.rest = @ + 1]
                        /\ \A k \in j + 1 .. i - 1 : t[k].kind # "message"
  BY SMTT(30), <1>1 DEF WholeMessages
<1>4. CASE i = Len(s) + 1
  <2>1. Latest(s, [q EXCEPT !.rest = @ + 1])
    BY <1>2, <1>3, <1>4
  <2>2. PICK j \in 1 .. Len(s) :
          /\ s[j] = [q EXCEPT !.rest = @ + 1]
          /\ \A k \in j + 1 .. Len(s) : s[k].kind # "message"
    BY <2>1 DEF Latest
  <2>3. \A k \in j + 1 .. Len(s) : t[k].kind # "message"
    <3>1. \A k \in j + 1 .. Len(s) : k \in 1 .. Len(s)
      BY <1>2
    <3> QED
      BY <1>2, <2>2, <3>1
  <2>4. i - 1 = Len(s) /\ t[i] = q /\ t[j] = s[j]
    BY <1>2, <1>4
  <2> QED
    BY <2>2, <2>3, <2>4
<1>5. CASE i # Len(s) + 1
  <2>1. i \in 1 .. Len(s) /\ t[i] = s[i]
    BY <1>2, <1>5
  <2>2. PICK j \in 1 .. i - 1 :
          /\ s[j] = [s[i] EXCEPT !.rest = @ + 1]
          /\ \A k \in j + 1 .. i - 1 : s[k].kind # "message"
    BY <1>3, <2>1 DEF WholeMessages
  <2>3. j \in 1 .. Len(s) /\ \A k \in j + 1 .. i - 1 : k \in 1 .. Len(s)
    BY <1>2, <2>1
  <2>4. t[j] = s[j] /\ \A k \in j + 1 .. i - 1 : t[k] = s[k]
    BY <1>2, <2>3
  <2> QED
    BY <2>1, <2>2, <2>4
<1> QED
  BY <1>4, <1>5

-----------------------------------------------------------------------------
\* What the writes and reads do to a connection.
LEMMA WriteSent ==
  ASSUME TypeOK, NEW c \in Conns, NEW r \in Conns,
         NEW kind \in {"message", "answer"}, Write(c, r, kind)
  PROVE  /\ rest[c] \in 1 .. Pieces /\ rest[c] - 1 \in 0 .. Pieces - 1
         /\ Piece(c, written[c], kind, rest[c] - 1) \in PieceType
         /\ rest' = [rest EXCEPT ![c] = @ - 1]
         /\ buffer' \in [Conns -> Seq(PieceType)]
         /\ \A q \in Conns : Len(buffer'[q]) <= Capacity
         /\ Sent(r)' = Append(Sent(r), Piece(c, written[c], kind, rest[c] - 1))
         /\ \A q \in Conns : q # r => Sent(q)' = Sent(q)
<1>1. /\ rest[c] \in 1 .. Pieces /\ rest[c] - 1 \in 0 .. Pieces - 1
      /\ rest' = [rest EXCEPT ![c] = @ - 1]
  BY SMTT(30), BackpressureAssumption DEF TypeOK, Write
<1>2. PICK p : p = Piece(c, written[c], kind, rest[c] - 1)
  OBVIOUS
<1>3. p \in PieceType
  <2>1. written[c] \in Nat
    BY DEF TypeOK
  <2> QED
    BY <1>1, <1>2, <2>1, PieceTyped
<1>4. /\ buffer[r] \in Seq(PieceType) /\ stream[r] \in Seq(PieceType)
      /\ Len(buffer[r]) < Capacity /\ Capacity \in Nat
  BY BackpressureAssumption DEF TypeOK, Write
<1>5. /\ Append(buffer[r], p) \in Seq(PieceType)
      /\ Len(Append(buffer[r], p)) <= Capacity
  BY <1>3, <1>4, Appended
<1>6. buffer' = [buffer EXCEPT ![r] = Append(buffer[r], p)] /\ stream' = stream
  BY <1>2 DEF Write
<1>7. /\ buffer'[r] = Append(buffer[r], p)
      /\ \A q \in Conns : q # r => buffer'[q] = buffer[q]
      /\ buffer' \in [Conns -> Seq(PieceType)]
  BY <1>5, <1>6 DEF TypeOK
<1>8. \A q \in Conns : Len(buffer'[q]) <= Capacity
  BY <1>5, <1>7 DEF TypeOK
<1>9. Sent(r)' = Append(Sent(r), p)
  <2>1. stream[r] \o Append(buffer[r], p) = Append(stream[r] \o buffer[r], p)
    <3>1. \A t, u \in Seq(PieceType) :
            t \o Append(u, p) = Append(t \o u, p)
      BY <1>3, SentLater
    <3>2. buffer[r] \in Seq(PieceType) /\ stream[r] \in Seq(PieceType)
      BY <1>4
    <3> QED
      BY <3>1, <3>2, Zenon
  <2> QED
    BY <1>6, <1>7, <2>1 DEF Sent
<1>10. \A q \in Conns : q # r => Sent(q)' = Sent(q)
  BY <1>6, <1>7 DEF Sent
<1> QED
  BY <1>1, <1>2, <1>3, <1>7, <1>8, <1>9, <1>10

LEMMA ReadSent ==
  ASSUME TypeOK, NEW r \in Conns, Read(r)
  PROVE  /\ buffer' \in [Conns -> Seq(PieceType)]
         /\ \A q \in Conns : Len(buffer'[q]) <= Capacity
         /\ stream' \in [Conns -> Seq(PieceType)]
         /\ \A q \in Conns : Sent(q)' = Sent(q)
<1>1. /\ buffer[r] \in Seq(PieceType) /\ buffer[r] # <<>>
      /\ stream[r] \in Seq(PieceType)
      /\ Len(buffer[r]) <= Capacity /\ Capacity \in Nat
  BY BackpressureAssumption DEF TypeOK, Read
<1>2. /\ Head(buffer[r]) \in PieceType
      /\ Tail(buffer[r]) \in Seq(PieceType)
      /\ Len(Tail(buffer[r])) = Len(buffer[r]) - 1
  BY <1>1, HeadTailProperties
<1>3. Len(Tail(buffer[r])) <= Capacity
  <2>1. Len(buffer[r]) \in Nat
    BY <1>1
  <2> QED
    BY <1>1, <1>2, <2>1
<1>4. Append(stream[r], Head(buffer[r])) \in Seq(PieceType)
  BY <1>1, <1>2, Appended
<1>5. /\ buffer' = [buffer EXCEPT ![r] = Tail(buffer[r])]
      /\ stream' = [stream EXCEPT ![r] = Append(stream[r], Head(buffer[r]))]
  BY DEF Read
<1>6. /\ buffer' \in [Conns -> Seq(PieceType)]
      /\ stream' \in [Conns -> Seq(PieceType)]
      /\ buffer'[r] = Tail(buffer[r])
      /\ stream'[r] = Append(stream[r], Head(buffer[r]))
      /\ \A q \in Conns : q # r => buffer'[q] = buffer[q] /\ stream'[q] = stream[q]
  BY <1>2, <1>4, <1>5 DEF TypeOK
<1>7. \A q \in Conns : Len(buffer'[q]) <= Capacity
  BY <1>3, <1>6 DEF TypeOK
<1>8. Append(stream[r], Head(buffer[r])) \o Tail(buffer[r])
        = stream[r] \o buffer[r]
  BY <1>1, SentStays
<1>9. ASSUME NEW q \in Conns
      PROVE  Sent(q)' = Sent(q)
  BY <1>6, <1>8 DEF Sent
<1> QED
  BY <1>6, <1>7, <1>9

-----------------------------------------------------------------------------
LEMMA InitIInv == Init => IInv
<1> SUFFICES ASSUME Init
             PROVE  IInv
  OBVIOUS
<1>1. TypeOK
  BY BackpressureAssumption DEF Init, TypeOK
<1>2. LockHeld /\ UnderWay
  BY DEF Init, LockHeld, UnderWay
<1>3. MessagesWhole
  <2>1. \A r \in Conns : Sent(r) = <<>>
    BY DEF Init, Sent
  <2>2. WholeMessages(<<>>)
    BY DEF WholeMessages
  <2> QED
    BY <2>1, <2>2 DEF MessagesWhole
<1> QED
  BY <1>1, <1>2, <1>3 DEF IInv

\* A list of all members of a set is a sequence of them.
LEMMA ListingTyped ==
  ASSUME NEW c \in Conns, NEW s \in Listings(Conns \ {c})
  PROVE  s \in Seq(Conns)
<1>1. PICK n \in Nat : n = Cardinality(Conns \ {c})
  BY BackpressureAssumption, FS_Subset, FS_CardinalityType
<1>2. s \in [1 .. n -> Conns]
  BY <1>1 DEF Listings
<1> QED
  BY <1>2

LEMMA StepTypeOK == TypeOK /\ LockHeld /\ [Next]_vars => TypeOK'
<1> SUFFICES ASSUME TypeOK, LockHeld, [Next]_vars
             PROVE  TypeOK'
  OBVIOUS
<1> USE BackpressureAssumption
<1>1. ASSUME NEW c \in Conns, TakeMessage(c)
      PROVE  TypeOK'
  <2>1. PICK s \in Listings(Conns \ {c}) :
          recipients' = [recipients EXCEPT ![c] = s]
    BY <1>1 DEF TakeMessage
  <2>2. recipients' \in [Conns -> Seq(Conns)]
    BY <2>1, ListingTyped DEF TypeOK
  <2> QED
    BY <1>1, <2>2 DEF TakeMessage, TypeOK
<1>2. ASSUME NEW c \in Conns, TakeBadFrame(c)
      PROVE  TypeOK'
  BY <1>2 DEF TakeBadFrame, TypeOK
<1>3. ASSUME NEW c \in Conns, StartDelivery(c)
      PROVE  TypeOK'
  <2>1. /\ rest' = [rest EXCEPT ![c] = Pieces]
        /\ written' = [written EXCEPT ![c] = @ + 1]
        /\ pc' = [pc EXCEPT ![c] = "deliver"]
        /\ UNCHANGED <<recipients, buffer, stream, arrived, stalled>>
    BY <1>3 DEF StartDelivery
  <2>2. lock' \in [Conns -> Conns \cup {NoOne}]
    BY <1>3 DEF StartDelivery, TypeOK
  <2>3. rest' \in [Conns -> 0 .. Pieces] /\ written' \in [Conns -> Nat]
    BY <2>1 DEF TypeOK
  <2>4. pc' \in [Conns -> {"recv", "fanout", "deliver", "reply"}]
    BY <2>1 DEF TypeOK
  <2> QED
    BY <2>1, <2>2, <2>3, <2>4 DEF TypeOK
<1>4. ASSUME NEW c \in Conns, NEW r \in Conns,
             NEW kind \in {"message", "answer"}, Write(c, r, kind)
      PROVE  TypeOK'
  <2>1. /\ rest[c] - 1 \in 0 .. Pieces - 1
        /\ rest' = [rest EXCEPT ![c] = @ - 1]
    BY <1>4, WriteSent
  <2>2. /\ buffer' \in [Conns -> Seq(PieceType)]
        /\ \A q \in Conns : Len(buffer'[q]) <= Capacity
    BY <1>4, WriteSent
  <2>3. rest' \in [Conns -> 0 .. Pieces]
    BY SMTT(30), <2>1 DEF TypeOK
  <2> QED
    BY <1>4, <2>2, <2>3 DEF Write, TypeOK
<1>5. ASSUME NEW c \in Conns, WriteDelivery(c)
      PROVE  TypeOK'
  <2>1. Head(recipients[c]) \in Conns
    BY <1>5 DEF WriteDelivery, LockHeld, TypeOK
  <2> QED
    BY <1>4, <1>5, <2>1 DEF WriteDelivery
<1>6. ASSUME NEW c \in Conns, WriteReply(c)
      PROVE  TypeOK'
  BY <1>4, <1>6 DEF WriteReply
<1>7. ASSUME NEW c \in Conns, EndDelivery(c)
      PROVE  TypeOK'
  <2>1. recipients[c] \in Seq(Conns) /\ recipients[c] # <<>>
    BY <1>7 DEF EndDelivery, LockHeld, TypeOK
  <2>2. Tail(recipients[c]) \in Seq(Conns)
    BY <2>1, HeadTailProperties
  <2> QED
    BY <1>7, <2>2 DEF EndDelivery, TypeOK
<1>8. ASSUME NEW c \in Conns, BackToRecv(c)
      PROVE  TypeOK'
  BY <1>8 DEF BackToRecv, TypeOK
<1>9. ASSUME NEW r \in Conns, Read(r)
      PROVE  TypeOK'
  <2>1. /\ buffer' \in [Conns -> Seq(PieceType)]
        /\ \A q \in Conns : Len(buffer'[q]) <= Capacity
        /\ stream' \in [Conns -> Seq(PieceType)]
    BY <1>9, ReadSent
  <2> QED
    BY <1>9, <2>1 DEF Read, TypeOK
<1>10. ASSUME NEW r \in Conns, Stall(r)
       PROVE  TypeOK'
  BY <1>10 DEF Stall, TypeOK
<1>11. CASE UNCHANGED vars
  BY <1>11 DEF vars, TypeOK
<1> QED
  BY <1>1, <1>2, <1>3, <1>5, <1>6, <1>7, <1>8, <1>9, <1>10, <1>11
     DEF Next, Thread

LEMMA StepLockHeld == TypeOK /\ LockHeld /\ [Next]_vars => LockHeld'
<1> SUFFICES ASSUME TypeOK, LockHeld, [Next]_vars
             PROVE  LockHeld'
  OBVIOUS
<1> USE BackpressureAssumption
<1>1. ASSUME NEW c \in Conns, TakeMessage(c)
      PROVE  LockHeld'
  <2>1. \A d \in Conns : pc'[d] = "deliver" =>
          pc[d] = "deliver" /\ recipients'[d] = recipients[d]
    BY <1>1 DEF TakeMessage, TypeOK
  <2>2. lock' = lock
    BY <1>1 DEF TakeMessage
  <2> QED
    BY <2>1, <2>2 DEF LockHeld
<1>2. ASSUME NEW c \in Conns, TakeBadFrame(c)
      PROVE  LockHeld'
  BY <1>2 DEF TakeBadFrame, TypeOK, LockHeld
<1>3. ASSUME NEW c \in Conns, StartDelivery(c)
      PROVE  LockHeld'
  <2>1. PICK r : r = Head(recipients[c])
    OBVIOUS
  <2>2. /\ recipients[c] # <<>> /\ r \in Conns /\ lock[r] = NoOne
        /\ lock' = [lock EXCEPT ![r] = c]
        /\ pc' = [pc EXCEPT ![c] = "deliver"]
        /\ recipients' = recipients
    BY <1>3, <2>1 DEF StartDelivery, TypeOK
  <2>3. ASSUME NEW d \in Conns, pc'[d] = "deliver"
        PROVE  /\ recipients'[d] # <<>>
               /\ \A q \in Conns : q = Head(recipients'[d]) => lock'[q] = d
    <3>1. CASE d = c
      BY <2>1, <2>2, <3>1 DEF TypeOK
    <3>2. CASE d # c
      <4>1. pc[d] = "deliver"
        BY <2>2, <2>3, <3>2 DEF TypeOK
      <4>2. recipients[d] # <<>>
        BY <4>1 DEF LockHeld
      <4>3. ASSUME NEW q \in Conns, q = Head(recipients[d])
            PROVE  lock'[q] = d
        <5>1. lock[q] = d
          BY <4>1, <4>3 DEF LockHeld
        <5> QED
          BY <2>2, <5>1 DEF TypeOK
      <4> QED
        BY <2>2, <4>2, <4>3
    <3> QED
      BY <3>1, <3>2
  <2> QED
    BY <2>3 DEF LockHeld
<1>4. ASSUME NEW c \in Conns, WriteDelivery(c) \/ WriteReply(c)
      PROVE  LockHeld'
  BY <1>4 DEF WriteDelivery, WriteReply, Write, LockHeld
<1>5. ASSUME NEW c \in Conns, EndDelivery(c)
      PROVE  LockHeld'
  <2>1. PICK r : r = Head(recipients[c])
    OBVIOUS
  <2>2. /\ lock' = [lock EXCEPT ![r] = NoOne]
        /\ pc' = [pc EXCEPT ![c] = "fanout"]
        /\ recipients' = [recipients EXCEPT ![c] = Tail(@)]
    BY <1>5, <2>1 DEF EndDelivery
  <2>3. recipients[c] # <<>> /\ \A q \in Conns : q = r => lock[q] = c
    BY <1>5, <2>1 DEF EndDelivery, LockHeld
  <2>4. r \in Conns
    BY <2>1, <2>3 DEF TypeOK
  <2>5. ASSUME NEW d \in Conns, pc'[d] = "deliver"
        PROVE  /\ recipients'[d] # <<>>
               /\ \A q \in Conns : q = Head(recipients'[d]) => lock'[q] = d
    <3>1. d # c /\ pc[d] = "deliver" /\ recipients'[d] = recipients[d]
      BY <2>2, <2>5 DEF TypeOK
    <3>2. recipients[d] # <<>>
      BY <3>1 DEF LockHeld
    <3>3. ASSUME NEW q \in Conns, q = Head(recipients[d])
          PROVE  lock'[q] = d
      <4>1. lock[q] = d
        BY <3>1, <3>3 DEF LockHeld
      <4> QED
        BY <2>2, <2>3, <2>4, <3>1, <4>1 DEF TypeOK
    <3> QED
      BY <3>1, <3>2, <3>3
  <2> QED
    BY <2>5 DEF LockHeld
<1>6. ASSUME NEW c \in Conns, BackToRecv(c)
      PROVE  LockHeld'
  BY <1>6 DEF BackToRecv, TypeOK, LockHeld
<1>7. ASSUME NEW r \in Conns, Read(r) \/ Stall(r)
      PROVE  LockHeld'
  BY <1>7 DEF Read, Stall, LockHeld
<1>8. CASE UNCHANGED vars
  BY <1>8 DEF vars, LockHeld
<1> QED
  BY <1>1, <1>2, <1>3, <1>4, <1>5, <1>6, <1>7, <1>8 DEF Next, Thread

-----------------------------------------------------------------------------
\* A step that moves no piece and puts no thread in the midst of a frame.
LEMMA NothingWritten ==
  ASSUME UnderWay, MessagesWhole, \A q \in Conns : Sent(q)' = Sent(q),
         \A d \in Conns : (pc'[d] = "deliver" /\ rest'[d] < Pieces) =>
           /\ pc[d] = "deliver" /\ rest'[d] = rest[d]
           /\ written'[d] = written[d] /\ recipients'[d] = recipients[d]
  PROVE  UnderWay' /\ MessagesWhole'
<1>1. ASSUME NEW d \in Conns, NEW q \in Conns,
             pc'[d] = "deliver", q = Head(recipients'[d]), rest'[d] < Pieces
      PROVE  Latest(Sent(q)', Piece(d, written'[d], "message", rest'[d]))
  <2>1. Latest(Sent(q), Piece(d, written[d], "message", rest[d]))
    BY <1>1 DEF UnderWay
  <2> QED
    BY <1>1, <2>1
<1>2. UnderWay'
  BY <1>1 DEF UnderWay
<1>3. MessagesWhole'
  BY DEF MessagesWhole
<1> QED
  BY <1>2, <1>3

\* The pieces of a connection are typed.
LEMMA SentTyped ==
  ASSUME TypeOK, NEW r \in Conns
  PROVE  Sent(r) \in Seq(PieceType)
<1>1. stream[r] \in Seq(PieceType) /\ buffer[r] \in Seq(PieceType)
  BY DEF TypeOK
<1> QED
  BY <1>1, Joined DEF Sent

\* A piece of an answer goes between the pieces of messages.
LEMMA ReplyWhole ==
  ASSUME IInv, NEW c \in Conns, WriteReply(c)
  PROVE  UnderWay' /\ MessagesWhole'
<1> USE DEF IInv
<1>1. pc[c] = "reply" /\ Write(c, c, "answer") /\ pc' = pc
      /\ recipients' = recipients /\ written' = written
  BY DEF WriteReply, Write
<1>2. PICK p : p = Piece(c, written[c], "answer", rest[c] - 1)
  OBVIOUS
<1>3. /\ rest[c] - 1 \in 0 .. Pieces - 1
      /\ p \in PieceType
      /\ rest' = [rest EXCEPT ![c] = @ - 1]
      /\ Sent(c)' = Append(Sent(c), p)
      /\ \A q \in Conns : q # c => Sent(q)' = Sent(q)
  BY <1>1, <1>2, WriteSent
<1>4. p.kind # "message"
  BY <1>2 DEF Piece
<1>5. ASSUME NEW d \in Conns, NEW q \in Conns,
             pc[d] = "deliver", q = Head(recipients[d]), rest'[d] < Pieces
      PROVE  Latest(Sent(q)', Piece(d, written[d], "message", rest'[d]))
  <2>1. d # c /\ rest'[d] = rest[d]
    BY <1>1, <1>3, <1>5 DEF TypeOK
  <2>2. PICK m : m = Piece(d, written[d], "message", rest[d])
    OBVIOUS
  <2>3. Latest(Sent(q), m)
    BY <1>5, <2>1, <2>2 DEF UnderWay
  <2>4. m \in PieceType
    <3>1. written[d] \in Nat /\ rest[d] \in 0 .. Pieces - 1
      BY <1>5, <2>1, BackpressureAssumption DEF TypeOK
    <3> QED
      BY <2>2, <3>1, PieceTyped
  <2>5. Sent(q) \in Seq(PieceType)
    BY SentTyped
  <2>6. Latest(Sent(q)', m)
    <3>1. CASE q = c
      <4>1. Latest(Append(Sent(q), p), m)
        BY <1>3, <1>4, <2>3, <2>4, <2>5, LatestKept
      <4> QED
        BY <1>3, <3>1, <4>1
    <3>2. CASE q # c
      BY <1>3, <2>3, <3>2
    <3> QED
      BY <3>1, <3>2
  <2> QED
    BY <2>1, <2>2, <2>6
<1>6. UnderWay'
  BY <1>1, <1>5 DEF UnderWay
<1>7. ASSUME NEW q \in Conns
      PROVE  WholeMessages(Sent(q)')
  <2>1. WholeMessages(Sent(q)) /\ Sent(q) \in Seq(PieceType)
    BY SentTyped DEF MessagesWhole
  <2>2. CASE q = c
    <3>1. WholeMessages(Append(Sent(q), p))
      BY <1>3, <1>4, <2>1, WholeAppended
    <3> QED
      BY <1>3, <2>2, <3>1
  <2>3. CASE q # c
    BY <1>3, <2>1, <2>3
  <2> QED
    BY <2>2, <2>3
<1>8. MessagesWhole'
  BY <1>7 DEF MessagesWhole
<1> QED
  BY <1>6, <1>8

\* A piece of a message goes after the one before it, which is still the
\* latest: the others who deliver hold the locks of others.
LEMMA DeliveryWhole ==
  ASSUME IInv, NEW c \in Conns, WriteDelivery(c)
  PROVE  UnderWay' /\ MessagesWhole'
<1> USE DEF IInv
<1>1. PICK r : r = Head(recipients[c])
  OBVIOUS
<1>2. pc[c] = "deliver" /\ r \in Conns /\ lock[r] = c
  BY <1>1 DEF WriteDelivery, LockHeld, TypeOK
<1>3. Write(c, r, "message") /\ pc' = pc
      /\ recipients' = recipients /\ written' = written
  BY <1>1 DEF WriteDelivery, Write
<1>4. PICK p : p = Piece(c, written[c], "message", rest[c] - 1)
  OBVIOUS
<1>5. /\ rest[c] \in 1 .. Pieces /\ rest[c] - 1 \in 0 .. Pieces - 1
      /\ p \in PieceType
      /\ rest' = [rest EXCEPT ![c] = @ - 1]
      /\ Sent(r)' = Append(Sent(r), p)
      /\ \A q \in Conns : q # r => Sent(q)' = Sent(q)
  BY <1>2, <1>3, <1>4, WriteSent
<1>6. ASSUME NEW d \in Conns, NEW q \in Conns,
             pc[d] = "deliver", q = Head(recipients[d]), rest'[d] < Pieces
      PROVE  Latest(Sent(q)', Piece(d, written[d], "message", rest'[d]))
  <2>1. CASE d = c
    <3>1. q = r /\ rest'[d] = rest[c] - 1
      BY <1>1, <1>5, <1>6, <2>1 DEF TypeOK
    <3>2. Latest(Append(Sent(r), p), p)
      BY <1>2, <1>5, SentTyped, LatestAppended
    <3> QED
      BY <1>4, <1>5, <2>1, <3>1, <3>2
  <2>2. CASE d # c
    <3>1. lock[q] = d
      BY <1>6 DEF LockHeld
    <3>2. q # r
      BY <1>2, <2>2, <3>1
    <3>3. rest'[d] = rest[d]
      BY <1>5, <2>2 DEF TypeOK
    <3>4. Latest(Sent(q), Piece(d, written[d], "message", rest[d]))
      BY <1>6, <3>3 DEF UnderWay
    <3> QED
      BY <1>5, <3>2, <3>3, <3>4
  <2> QED
    BY <2>1, <2>2
<1>7. UnderWay'
  BY <1>3, <1>6 DEF UnderWay
<1>8. ASSUME p.kind = "message", p.rest < Pieces - 1
      PROVE  Latest(Sent(r), [p EXCEPT !.rest = @ + 1])
  <2>1. written[c] \in Nat /\ Pieces \in Nat
    BY BackpressureAssumption DEF TypeOK
  <2>2. p.rest = rest[c] - 1
        /\ [p EXCEPT !.rest = @ + 1]
             = Piece(c, written[c], "message", (rest[c] - 1) + 1)
    BY <1>4, <1>5, <2>1, PieceTyped
  <2>3. (rest[c] - 1) + 1 = rest[c] /\ rest[c] < Pieces
    BY <1>5, <1>8, <2>1, <2>2
  <2>4. Latest(Sent(r), Piece(c, written[c], "message", rest[c]))
    BY <1>1, <1>2, <2>3 DEF UnderWay
  <2> QED
    BY <2>2, <2>3, <2>4
<1>9. ASSUME NEW q \in Conns
      PROVE  WholeMessages(Sent(q)')
  <2>1. WholeMessages(Sent(q)) /\ Sent(q) \in Seq(PieceType)
    BY SentTyped DEF MessagesWhole
  <2>2. CASE q = r
    <3>1. WholeMessages(Append(Sent(r), p))
      BY <1>5, <1>8, <2>1, <2>2, WholeAppended
    <3> QED
      BY <1>5, <2>2, <3>1
  <2>3. CASE q # r
    BY <1>5, <2>1, <2>3
  <2> QED
    BY <2>2, <2>3
<1>10. MessagesWhole'
  BY <1>9 DEF MessagesWhole
<1> QED
  BY <1>7, <1>10

LEMMA StepWhole == IInv /\ [Next]_vars => UnderWay' /\ MessagesWhole'
<1> SUFFICES ASSUME IInv, [Next]_vars
             PROVE  UnderWay' /\ MessagesWhole'
  OBVIOUS
<1> USE DEF IInv
<1>1. ASSUME NEW c \in Conns,
             TakeMessage(c) \/ TakeBadFrame(c) \/ StartDelivery(c)
               \/ EndDelivery(c) \/ BackToRecv(c)
      PROVE  UnderWay' /\ MessagesWhole'
  <2>1. \A q \in Conns : Sent(q)' = Sent(q)
    BY <1>1 DEF TakeMessage, TakeBadFrame, StartDelivery, EndDelivery,
                BackToRecv, Sent
  <2>2. ASSUME NEW d \in Conns, pc'[d] = "deliver", rest'[d] < Pieces
        PROVE  /\ pc[d] = "deliver" /\ rest'[d] = rest[d]
               /\ written'[d] = written[d] /\ recipients'[d] = recipients[d]
    <3>1. CASE TakeMessage(c)
      BY <2>2, <3>1 DEF TakeMessage, TypeOK
    <3>2. CASE TakeBadFrame(c)
      BY <2>2, <3>2 DEF TakeBadFrame, TypeOK
    <3>3. CASE StartDelivery(c)
      BY <2>2, <3>3, BackpressureAssumption DEF StartDelivery, TypeOK
    <3>4. CASE EndDelivery(c)
      BY <2>2, <3>4 DEF EndDelivery, TypeOK
    <3>5. CASE BackToRecv(c)
      BY <2>2, <3>5 DEF BackToRecv, TypeOK
    <3> QED
      BY <1>1, <3>1, <3>2, <3>3, <3>4, <3>5
  <2> QED
    BY <2>1, <2>2, NothingWritten
<1>2. ASSUME NEW c \in Conns, Read(c) \/ Stall(c)
      PROVE  UnderWay' /\ MessagesWhole'
  <2>1. UNCHANGED <<pc, rest, written, recipients>>
    BY <1>2 DEF Read, Stall
  <2>2. \A q \in Conns : Sent(q)' = Sent(q)
    <3>1. CASE Read(c)
      BY <3>1, ReadSent
    <3>2. CASE Stall(c)
      BY <3>2 DEF Stall, Sent
    <3> QED
      BY <1>2, <3>1, <3>2
  <2> QED
    BY <2>1, <2>2, NothingWritten
<1>3. CASE UNCHANGED vars
  <2>1. UNCHANGED <<pc, rest, written, recipients>>
    BY <1>3 DEF vars
  <2>2. \A q \in Conns : Sent(q)' = Sent(q)
    BY <1>3 DEF vars, Sent
  <2> QED
    BY <2>1, <2>2, NothingWritten
<1> QED
  BY <1>1, <1>2, <1>3, ReplyWhole, DeliveryWhole DEF Next, Thread

\* All parts of the invariant last: with the properties among them, for any
\* clients, pieces and buffers.
LEMMA Always == Spec => []IInv
<1>1. IInv /\ [Next]_vars => IInv'
  BY StepTypeOK, StepLockHeld, StepWhole DEF IInv
<1> QED
  BY InitIInv, <1>1, PTL DEF Spec

\* Every variable keeps its type; in particular no buffer takes more than it
\* holds, whoever writes to it (sendall of transport/ws.py).
THEOREM TypeCorrect == Spec => []TypeOK
<1>1. IInv => TypeOK
  BY DEF IInv
<1> QED
  BY Always, <1>1, PTL

\* Messages relayed by different threads never mix on a connection: the lock
\* of RegisteredClient is held until the last piece is written (cli/relay.py),
\* however many threads, pieces and slow readers there are.
THEOREM NeverMixed == Spec => []MessagesWhole
<1>1. IInv => MessagesWhole
  BY DEF IInv
<1> QED
  BY Always, <1>1, PTL
=============================================================================
