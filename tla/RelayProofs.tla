----------------------------- MODULE RelayProofs -----------------------------
(***************************************************************************)
(* Proof that ChatServer implements Relay, for any number of connections,  *)
(* messages and wrong frames: what a client hears of another is a run of   *)
(* its messages, each once and in order, and never its own.                *)
(*                                                                         *)
(* The invariant has three parts. Lines: the messages a thread has yet to  *)
(* take are numbered on from the last one it took. Lists: a list of        *)
(* recipients names each of them once, and only clients that have been     *)
(* registered. Gapless: who has heard a client and may hear more of it has *)
(* heard its last message, or the one before if the last is still to come. *)
(***************************************************************************)
EXTENDS ChatServerProofs

\* A frame from which TakeMessage takes a message, in a server that is
\* protected or not.
Takes(p, f) == IF p THEN f.type = "sealed" /\ f.good ELSE f.type = "chat"

\* Messages wait in the order of their numbers and without a gap, from the one
\* after the last one taken.
InLine(p, s, last, most) ==
  \A i \in 1 .. Len(s) : Takes(p, s[i]) =>
    /\ s[i].msg.n \in last + 1 .. most
    /\ \A j \in 1 .. i - 1 : Takes(p, s[j]) => s[j].msg.n < s[i].msg.n
    /\ s[i].msg.n > last + 1 =>
         \E j \in 1 .. i - 1 : Takes(p, s[j]) /\ s[j].msg.n = s[i].msg.n - 1

\* The last one said is taken or waits.
NoneLost(p, s, last, most) ==
  most = last \/ \E i \in 1 .. Len(s) : Takes(p, s[i]) /\ s[i].msg.n = most

\* The number of the last message c's thread has taken.
Taken(c) == IF message[c] = Hello THEN 0 ELSE message[c].n

Lines ==
  \A c \in Conns :
    /\ Taken(c) <= said[c]
    /\ pc[c] \notin {"finally", "closing", "done"} =>
         /\ InLine(protected, inbox[c], Taken(c), said[c])
         /\ peer[c] # "left" =>
              NoneLost(protected, inbox[c], Taken(c), said[c])

\* A thread on its way to hub.add.
Before == {"hello", "covenant", "authenticated", "register"}

\* The numbers of the messages of c among some frames.
NumbersIn(s, c) ==
  {s[i].msg.n : i \in {j \in 1 .. Len(s) : IsMessage(s[j]) /\ s[j].msg.from = c}}

Once(s) == \A i, j \in 1 .. Len(s) : s[i] = s[j] => i = j

\* Who is registered, listed or served has been through hub.add, and lists
\* name everyone once and never the sender.
Lists ==
  /\ \A c \in Conns : recipients[c] # <<>> => pc[c] \in {"fanout", "sending", "drop"}
  /\ \A c \in Conns : Once(recipients[c])
  /\ \A c, r \in Conns : Listed(c, r) => r # c /\ pc[r] \notin Before
  /\ \A r \in registry : pc[r] \notin Before
  /\ \A r, c \in Conns : NumbersIn(wire[r], c) # {} => pc[r] \notin Before
  /\ \A c \in Conns : pc[c] = "sending" => frame[c].msg = message[c]

\* The thread of c is about to drop r, or will yet deliver to it.
Failed(c, r) == pc[c] = "drop" /\ r = Head(recipients[c])
Due(c, r) == pc[c] = "broadcast" \/ (Listed(c, r) /\ ~ Failed(c, r))

\* Who has heard c has heard its last message, or the one before if the last
\* is yet to be delivered, or is out of the registry and will hear no more.
GaplessFor(r, c) ==
  LET N == NumbersIn(wire[r], c)
  IN  /\ \A k \in N : k <= Taken(c)
      /\ Due(c, r) => Taken(c) \notin N
      /\ (N # {} /\ Due(c, r) /\ (r \in registry \/ Listed(c, r))) =>
           Taken(c) - 1 \in N
      /\ (N # {} /\ r \in registry /\ ~ Due(c, r) /\ ~ Failed(c, r)) =>
           Taken(c) \in N

Gapless == \A r, c \in Conns : r # c => GaplessFor(r, c)

-----------------------------------------------------------------------------
LEMMA TakenNumbers ==
  ASSUME NEW p \in BOOLEAN, NEW f \in FromClient, Takes(p, f)
  PROVE  f.msg \in Messages /\ f.msg.n \in Nat \ {0}
<1>1. f.type = "chat" \/ (f.type = "sealed" /\ f.good)
  BY DEF Takes
<1>2. f.msg \in Messages
  BY <1>1, ClientMessages
<1> QED
  BY <1>2 DEF Messages

LEMMA TakenTyped ==
  ASSUME TypeOK, NEW c \in Conns
  PROVE  /\ Taken(c) \in Nat
         /\ message[c] \in Messages => message[c].n = Taken(c) /\ message[c] # Hello
<1>1. message[c] \in Messages \cup {Hello}
  BY DEF TypeOK
<1>2. ASSUME NEW m \in Messages
      PROVE  m # Hello /\ m.n \in Nat
  BY DEF Messages, Hello
<1> QED
  BY <1>1, <1>2 DEF Taken

LEMMA LineAppended ==
  ASSUME NEW p \in BOOLEAN, NEW s \in Seq(FromClient), NEW f \in FromClient,
         NEW t \in Nat, NEW u \in Nat, NEW v \in Nat, t <= u, InLine(p, s, t, u),
         NoneLost(p, s, t, u),
         IF Takes(p, f) THEN f.msg.n = u + 1 /\ v = u + 1 ELSE v = u
  PROVE  InLine(p, Append(s, f), t, v) /\ NoneLost(p, Append(s, f), t, v)
<1>1. PICK a : a = Append(s, f)
  OBVIOUS
<1>2. /\ Len(s) \in Nat /\ Len(a) = Len(s) + 1 /\ a[Len(s) + 1] = f
      /\ \A i \in 1 .. Len(s) : a[i] = s[i]
  BY <1>1, AppendProperties
<1>3. ASSUME NEW i \in 1 .. Len(s), Takes(p, s[i])
      PROVE  s[i].msg.n \in Nat
  BY <1>3, TakenNumbers
<1>4. ASSUME NEW i \in 1 .. Len(a), Takes(p, a[i])
      PROVE  /\ a[i].msg.n \in t + 1 .. v
             /\ \A j \in 1 .. i - 1 : Takes(p, a[j]) => a[j].msg.n < a[i].msg.n
             /\ a[i].msg.n > t + 1 =>
                  \E j \in 1 .. i - 1 : Takes(p, a[j]) /\ a[j].msg.n = a[i].msg.n - 1
  <2>1. CASE i \in 1 .. Len(s)
    <3>1. /\ a[i] = s[i] /\ u <= v
          /\ \A j \in 1 .. i - 1 : j \in 1 .. Len(s) /\ a[j] = s[j]
      BY <1>2, <2>1
    <3>2. /\ s[i].msg.n \in t + 1 .. u
          /\ \A j \in 1 .. i - 1 : Takes(p, s[j]) => s[j].msg.n < s[i].msg.n
          /\ s[i].msg.n > t + 1 =>
               \E j \in 1 .. i - 1 : Takes(p, s[j]) /\ s[j].msg.n = s[i].msg.n - 1
      BY <1>4, <2>1, <3>1 DEF InLine
    <3>3. a[i].msg.n \in t + 1 .. v
      BY <3>1, <3>2
    <3>4. \A j \in 1 .. i - 1 : Takes(p, a[j]) => a[j].msg.n < a[i].msg.n
      BY <3>1, <3>2
    <3>5. a[i].msg.n > t + 1 =>
            \E j \in 1 .. i - 1 : Takes(p, a[j]) /\ a[j].msg.n = a[i].msg.n - 1
      BY <3>1, <3>2
    <3> QED
      BY <3>3, <3>4, <3>5
  <2>2. CASE i = Len(s) + 1
    <3>1. a[i] = f /\ f.msg.n = u + 1 /\ v = u + 1
      BY <1>2, <1>4, <2>2
    <3>2. \A j \in 1 .. i - 1 : j \in 1 .. Len(s) /\ a[j] = s[j]
      BY <1>2, <2>2
    <3>3. \A j \in 1 .. i - 1 : Takes(p, a[j]) => a[j].msg.n < u + 1
      BY <3>2 DEF InLine
    <3>4. u + 1 > t + 1 => \E j \in 1 .. i - 1 : Takes(p, a[j]) /\ a[j].msg.n = u
      BY <1>2, <2>2, <3>2 DEF NoneLost
    <3> QED
      BY <3>1, <3>3, <3>4
  <2> QED
    BY <1>2, <2>1, <2>2
<1>5. InLine(p, a, t, v)
  BY <1>4 DEF InLine
<1>6. NoneLost(p, a, t, v)
  <2>1. CASE Takes(p, f)
    BY <1>2, <2>1 DEF NoneLost
  <2>2. CASE ~ Takes(p, f)
    BY <1>2, <2>2 DEF NoneLost
  <2> QED
    BY <2>1, <2>2
<1> QED
  BY <1>1, <1>5, <1>6

LEMMA LineCut ==
  ASSUME NEW p \in BOOLEAN, NEW s \in Seq(FromClient), NEW t \in Nat, NEW u \in Nat,
         NEW k \in 0 .. Len(s), InLine(p, s, t, u)
  PROVE  InLine(p, SubSeq(s, 1, k), t, u)
<1>1. PICK a : a = SubSeq(s, 1, k)
  OBVIOUS
<1>2. Len(a) = k /\ k <= Len(s) /\ \A i \in 1 .. k : a[i] = s[i] /\ i \in 1 .. Len(s)
  BY <1>1, SubSeqProperties
<1>3. ASSUME NEW i \in 1 .. Len(a), Takes(p, a[i])
      PROVE  /\ a[i].msg.n \in t + 1 .. u
             /\ \A j \in 1 .. i - 1 : Takes(p, a[j]) => a[j].msg.n < a[i].msg.n
             /\ a[i].msg.n > t + 1 =>
                  \E j \in 1 .. i - 1 : Takes(p, a[j]) /\ a[j].msg.n = a[i].msg.n - 1
  <2>1. i \in 1 .. Len(s) /\ a[i] = s[i] /\ \A j \in 1 .. i - 1 : a[j] = s[j]
    BY <1>2
  <2> QED
    BY <1>3, <2>1 DEF InLine
<1> QED
  BY <1>1, <1>3 DEF InLine

\* The head is not a message, or it is the next one.
LEMMA LineTail ==
  ASSUME NEW p \in BOOLEAN, NEW s \in Seq(FromClient), s # <<>>,
         NEW t \in Nat, NEW u \in Nat, InLine(p, s, t, u)
  PROVE  /\ Takes(p, Head(s)) =>
              /\ Head(s).msg.n = t + 1 /\ t + 1 <= u
              /\ InLine(p, Tail(s), t + 1, u)
              /\ NoneLost(p, s, t, u) => NoneLost(p, Tail(s), t + 1, u)
         /\ ~ Takes(p, Head(s)) =>
              /\ InLine(p, Tail(s), t, u)
              /\ NoneLost(p, s, t, u) => NoneLost(p, Tail(s), t, u)
<1>1. PICK a, h : a = Tail(s) /\ h = Head(s)
  OBVIOUS
<1>2. /\ Len(s) \in Nat \ {0} /\ h = s[1] /\ Len(a) = Len(s) - 1
      /\ \A i \in 1 .. Len(a) : a[i] = s[i + 1]
  BY <1>1, HeadTailProperties, EmptySeq
<1>3. \A i \in 1 .. Len(s) : Takes(p, s[i]) => s[i].msg.n \in Nat
  BY TakenNumbers
<1>4. \A i \in 1 .. Len(a) : i + 1 \in 1 .. Len(s)
  BY <1>2
<1>5. \A j \in 1 .. Len(s) : j = 1 \/ (j - 1 \in 1 .. Len(a) /\ s[j] = a[j - 1])
  <2> SUFFICES ASSUME NEW j \in 1 .. Len(s), j # 1
               PROVE  j - 1 \in 1 .. Len(a) /\ s[j] = a[j - 1]
    OBVIOUS
  <2>1. j - 1 \in 1 .. Len(a) /\ (j - 1) + 1 = j
    BY <1>2
  <2> QED
    BY <1>2, <2>1
<1>6. CASE Takes(p, h)
  <2>1. h.msg.n = t + 1 /\ t + 1 <= u
    <3>1. 1 \in 1 .. Len(s) /\ \A j \in 1 .. 1 - 1 : FALSE
      BY <1>2
    <3> QED
      BY <1>2, <1>3, <1>6, <3>1 DEF InLine
  <2>2. ASSUME NEW i \in 1 .. Len(a), Takes(p, a[i])
        PROVE  /\ a[i].msg.n \in (t + 1) + 1 .. u
               /\ \A j \in 1 .. i - 1 : Takes(p, a[j]) => a[j].msg.n < a[i].msg.n
               /\ a[i].msg.n > (t + 1) + 1 =>
                    \E j \in 1 .. i - 1 : Takes(p, a[j]) /\ a[j].msg.n = a[i].msg.n - 1
    <3>1. a[i] = s[i + 1] /\ i + 1 \in 1 .. Len(s) /\ a[i].msg.n \in Nat
      BY <1>2, <1>3, <1>4, <2>2
    <3>2. /\ a[i].msg.n \in t + 1 .. u
          /\ \A j \in 1 .. i : Takes(p, s[j]) => s[j].msg.n < a[i].msg.n
          /\ a[i].msg.n > t + 1 =>
               \E j \in 1 .. i : Takes(p, s[j]) /\ s[j].msg.n = a[i].msg.n - 1
      <4>1. (i + 1) - 1 = i
        OBVIOUS
      <4> QED
        BY <2>2, <3>1, <4>1 DEF InLine
    <3>3. a[i].msg.n > t + 1
      BY <1>2, <1>6, <2>1, <3>1, <3>2
    <3>4. \A j \in 1 .. i - 1 : Takes(p, a[j]) => a[j].msg.n < a[i].msg.n
      <4>1. \A j \in 1 .. i - 1 : j + 1 \in 1 .. i /\ j \in 1 .. Len(a)
        BY <1>2
      <4> QED
        BY <1>2, <3>2, <4>1
    <3>5. ASSUME a[i].msg.n > (t + 1) + 1
          PROVE  \E j \in 1 .. i - 1 : Takes(p, a[j]) /\ a[j].msg.n = a[i].msg.n - 1
      <4>1. PICK j \in 1 .. i : Takes(p, s[j]) /\ s[j].msg.n = a[i].msg.n - 1
        BY <3>2, <3>3
      <4>2. j # 1
        BY <1>2, <2>1, <3>1, <3>5, <4>1
      <4>3. j \in 1 .. Len(s) /\ j - 1 \in 1 .. i - 1
        BY <1>2, <4>2
      <4> QED
        BY <1>5, <4>1, <4>2, <4>3
    <3> QED
      BY <3>1, <3>2, <3>3, <3>4, <3>5
  <2>3. NoneLost(p, s, t, u) => NoneLost(p, a, t + 1, u)
    <3> SUFFICES ASSUME NoneLost(p, s, t, u), u # t + 1
                 PROVE  \E i \in 1 .. Len(a) : Takes(p, a[i]) /\ a[i].msg.n = u
      BY DEF NoneLost
    <3>1. PICK i \in 1 .. Len(s) : Takes(p, s[i]) /\ s[i].msg.n = u
      BY <2>1 DEF NoneLost
    <3>2. i # 1
      BY <1>2, <2>1, <3>1
    <3> QED
      BY <1>5, <3>1, <3>2
  <2>4. InLine(p, a, t + 1, u)
    BY <2>2 DEF InLine
  <2> QED
    BY <1>1, <1>6, <2>1, <2>3, <2>4
<1>7. CASE ~ Takes(p, h)
  <2>1. ASSUME NEW i \in 1 .. Len(a), Takes(p, a[i])
        PROVE  /\ a[i].msg.n \in t + 1 .. u
               /\ \A j \in 1 .. i - 1 : Takes(p, a[j]) => a[j].msg.n < a[i].msg.n
               /\ a[i].msg.n > t + 1 =>
                    \E j \in 1 .. i - 1 : Takes(p, a[j]) /\ a[j].msg.n = a[i].msg.n - 1
    <3>1. a[i] = s[i + 1] /\ i + 1 \in 1 .. Len(s) /\ a[i].msg.n \in Nat
      BY <1>2, <1>3, <1>4, <2>1
    <3>2. /\ a[i].msg.n \in t + 1 .. u
          /\ \A j \in 1 .. i : Takes(p, s[j]) => s[j].msg.n < a[i].msg.n
          /\ a[i].msg.n > t + 1 =>
               \E j \in 1 .. i : Takes(p, s[j]) /\ s[j].msg.n = a[i].msg.n - 1
      <4>1. (i + 1) - 1 = i
        OBVIOUS
      <4> QED
        BY <2>1, <3>1, <4>1 DEF InLine
    <3>3. \A j \in 1 .. i - 1 : Takes(p, a[j]) => a[j].msg.n < a[i].msg.n
      <4>1. \A j \in 1 .. i - 1 : j + 1 \in 1 .. i /\ j \in 1 .. Len(a)
        BY <1>2
      <4> QED
        BY <1>2, <3>2, <4>1
    <3>4. ASSUME a[i].msg.n > t + 1
          PROVE  \E j \in 1 .. i - 1 : Takes(p, a[j]) /\ a[j].msg.n = a[i].msg.n - 1
      <4>1. PICK j \in 1 .. i : Takes(p, s[j]) /\ s[j].msg.n = a[i].msg.n - 1
        BY <3>2, <3>4
      <4>2. j # 1
        BY <1>2, <1>7, <4>1
      <4>3. j \in 1 .. Len(s) /\ j - 1 \in 1 .. i - 1
        BY <1>2, <4>2
      <4> QED
        BY <1>5, <4>1, <4>2, <4>3
    <3> QED
      BY <3>2, <3>3, <3>4
  <2>2. NoneLost(p, s, t, u) => NoneLost(p, a, t, u)
    BY <1>2, <1>5, <1>7 DEF NoneLost
  <2>3. InLine(p, a, t, u)
    BY <2>1 DEF InLine
  <2> QED
    BY <1>1, <1>7, <2>2, <2>3
<1> QED
  BY <1>1, <1>6, <1>7

LEMMA NumbersAppended ==
  ASSUME NEW s \in Seq(FromServer), NEW f \in FromServer, NEW c
  PROVE  NumbersIn(Append(s, f), c)
           = IF IsMessage(f) /\ f.msg.from = c
               THEN NumbersIn(s, c) \cup {f.msg.n} ELSE NumbersIn(s, c)
<1>1. PICK a : a = Append(s, f)
  OBVIOUS
<1>2. /\ Len(s) \in Nat /\ Len(a) = Len(s) + 1 /\ a[Len(s) + 1] = f
      /\ \A i \in 1 .. Len(s) : a[i] = s[i]
  BY <1>1, AppendProperties
<1>3. \A i \in 1 .. Len(a) : i \in 1 .. Len(s) \/ i = Len(s) + 1
  BY <1>2
<1>4. ASSUME NEW x
      PROVE  x \in NumbersIn(a, c) <=>
               x \in NumbersIn(s, c) \/ (IsMessage(f) /\ f.msg.from = c /\ x = f.msg.n)
  <2>1. x \in NumbersIn(a, c) <=>
          \E i \in 1 .. Len(a) :
            IsMessage(a[i]) /\ a[i].msg.from = c /\ x = a[i].msg.n
    BY DEF NumbersIn
  <2>2. x \in NumbersIn(s, c) <=>
          \E i \in 1 .. Len(s) :
            IsMessage(s[i]) /\ s[i].msg.from = c /\ x = s[i].msg.n
    BY DEF NumbersIn
  <2>3. \A i \in 1 .. Len(s) : i \in 1 .. Len(a)
    BY <1>2
  <2>4. Len(s) + 1 \in 1 .. Len(a)
    BY <1>2
  <2> QED
    BY <1>2, <1>3, <2>1, <2>2, <2>3, <2>4
<1> QED
  BY <1>1, <1>4

-----------------------------------------------------------------------------
LEMMA OnceTail ==
  ASSUME NEW s \in Seq(Conns), s # <<>>, Once(s)
  PROVE  /\ Head(s) \in Conns /\ Holds(s, Head(s))
         /\ Once(Tail(s))
         /\ \A q \in Conns : Holds(Tail(s), q) <=> Holds(s, q) /\ q # Head(s)
<1>1. PICK a, h : a = Tail(s) /\ h = Head(s)
  OBVIOUS
<1>2. /\ Len(s) \in Nat \ {0} /\ h = s[1] /\ Len(a) = Len(s) - 1
      /\ \A i \in 1 .. Len(a) : a[i] = s[i + 1]
      /\ h \in Conns
  BY <1>1, HeadTailProperties, EmptySeq
<1>3. \A i \in 1 .. Len(a) : i + 1 \in 1 .. Len(s) /\ i + 1 # 1
  BY <1>2
<1>4. 1 \in 1 .. Len(s)
  BY <1>2
<1>5. Once(a)
  <2> SUFFICES ASSUME NEW i \in 1 .. Len(a), NEW j \in 1 .. Len(a), a[i] = a[j]
               PROVE  i = j
    BY DEF Once
  <2>1. i + 1 = j + 1
    BY <1>2, <1>3 DEF Once
  <2> QED
    BY <2>1
<1>6. ASSUME NEW q \in Conns
      PROVE  Holds(a, q) <=> Holds(s, q) /\ q # h
  <2>1. ASSUME Holds(a, q)
        PROVE  Holds(s, q) /\ q # h
    <3>1. PICK i \in 1 .. Len(a) : a[i] = q
      BY <2>1 DEF Holds
    <3>2. s[i + 1] = q /\ i + 1 \in 1 .. Len(s) /\ i + 1 # 1
      BY <1>2, <1>3, <3>1
    <3>3. s[i + 1] # s[1]
      BY <1>4, <3>2 DEF Once
    <3> QED
      BY <1>2, <3>2, <3>3 DEF Holds
  <2>2. ASSUME Holds(s, q), q # h
        PROVE  Holds(a, q)
    <3>1. PICK i \in 1 .. Len(s) : s[i] = q
      BY <2>2 DEF Holds
    <3>2. i - 1 \in 1 .. Len(a) /\ (i - 1) + 1 = i
      BY <1>2, <2>2, <3>1
    <3>3. a[i - 1] = q
      BY <1>2, <3>1, <3>2
    <3> QED
      BY <3>2, <3>3 DEF Holds
  <2> QED
    BY <2>1, <2>2
<1>7. Holds(s, h)
  BY <1>2, <1>4 DEF Holds
<1> QED
  BY <1>1, <1>2, <1>5, <1>6, <1>7

\* A list of recipients has everyone on it, once.
LEMMA ListingHolds ==
  ASSUME NEW S \in SUBSET Conns, NEW s \in Listings(S)
  PROVE  /\ s \in Seq(Conns) /\ Once(s)
         /\ \A q \in Conns : Holds(s, q) <=> q \in S
<1>1. IsFiniteSet(S) /\ IsFiniteSet(1 .. Cardinality(S))
      /\ Cardinality(S) \in Nat /\ Cardinality(1 .. Cardinality(S)) = Cardinality(S)
  <2>1. IsFiniteSet(S)
    BY ChatServerAssumption, FS_Subset
  <2>2. Cardinality(S) \in Nat
    BY <2>1, FS_CardinalityType
  <2> QED
    BY <2>1, <2>2, FS_Interval
<1>2. PICK n \in Nat : n = Cardinality(S)
  BY <1>1
<1>3. s \in [1 .. n -> S] /\ \A i, j \in 1 .. n : s[i] = s[j] => i = j
  BY <1>2 DEF Listings
<1>4. s \in Injection(1 .. n, S)
  BY <1>3 DEF Injection, IsInjective
<1>5. s \in Surjection(1 .. n, S)
  BY <1>1, <1>2, <1>4, FS_Injection
<1>6. s \in [1 .. n -> Conns]
  BY <1>3
<1>7. s \in Seq(Conns)
  BY <1>6
<1>8. Len(s) = n
  BY <1>3, <1>7
<1>9. \A q \in S : \E i \in 1 .. n : s[i] = q
  BY <1>5 DEF Surjection
<1> QED
  BY <1>3, <1>7, <1>8, <1>9 DEF Once, Holds

-----------------------------------------------------------------------------
\* The steps other than those of a relay.
Quiet(c) ==
  \/ Greet(c) \/ RefuseGreeting(c)
  \/ Authenticate(c) \/ RefuseProof(c) \/ SetCompression(c) \/ Register(c)
  \/ RefuseFrame(c) \/ Crash(c) \/ Hangup(c) \/ EndBroadcast(c)
  \/ Unregister(c) \/ CloseSocket(c) \/ Client(c)

Working == {"broadcast", "fanout", "sending", "drop"}

LEMMA QuietEffects ==
  ASSUME WellTyped, NEW c \in Conns, Quiet(c)
  PROVE  /\ UNCHANGED <<protected, message, recipients, frame>>
         /\ \A d \in Conns : d # c => pc'[d] = pc[d]
         /\ \/ pc'[c] = pc[c]
            \/ /\ pc[c] \notin Working \/ (pc[c] = "fanout" /\ recipients[c] = <<>>)
               /\ pc'[c] \notin Working
         /\ pc[c] \notin Before => pc'[c] \notin Before
         /\ \/ registry' \subseteq registry
            \/ /\ registry' = registry \cup {c}
               /\ pc[c] = "register" /\ pc'[c] = "loop"
         /\ \A d, e \in Conns : NumbersIn(wire'[d], e) = NumbersIn(wire[d], e)
<1> USE DEF WellTyped, TypeOK
<1>0. \A d, e \in Conns : NumbersIn(wire'[d], e) = NumbersIn(wire[d], e)
  <2>1. Talk(c) \/ Client(c)
    BY DEF Quiet, Talk
  <2>2. CASE UNCHANGED wire
    BY <2>2
  <2>3. ASSUME NEW f \in FromServer, ~ IsMessage(f),
               wire' = [wire EXCEPT ![c] = Append(@, f)]
        PROVE  \A d, e \in Conns : NumbersIn(wire'[d], e) = NumbersIn(wire[d], e)
    <3>1. wire[c] \in Seq(FromServer)
      OBVIOUS
    <3>2. \A e \in Conns : NumbersIn(Append(wire[c], f), e) = NumbersIn(wire[c], e)
      BY <2>3, <3>1, NumbersAppended
    <3> QED
      BY <2>3, <3>2
  <2> QED
    BY <2>1, <2>2, <2>3, TalkQuiet
<1>2. CASE \/ Greet(c) \/ RefuseGreeting(c) \/ Authenticate(c) \/ RefuseProof(c)
           \/ RefuseFrame(c)
  <2>1. \E label \in {"covenant", "register", "authenticated", "finally", "loop"} :
          /\ pc' = [pc EXCEPT ![c] = label]
          /\ label \in Before => pc[c] \in Before
    BY <1>2 DEF Greet, RefuseGreeting, Authenticate, RefuseProof, RefuseFrame,
      Receive, Reply, Goto, Before
  <2>2. /\ pc[c] \in {"hello", "covenant", "loop"}
        /\ UNCHANGED <<protected, message, recipients, frame, registry>>
    BY <1>2 DEF Greet, RefuseGreeting, Authenticate, RefuseProof, RefuseFrame,
      Receive, Reply, shared, fixed
  <2> QED
    BY <1>0, <2>1, <2>2 DEF Working, Before
<1>3. CASE SetCompression(c) \/ Register(c) \/ Crash(c) \/ Hangup(c)
           \/ EndBroadcast(c) \/ Unregister(c) \/ CloseSocket(c)
  <2>1. \E label \in {"register", "finally", "loop", "closing", "done"} :
          /\ pc' = [pc EXCEPT ![c] = label]
          /\ label \in Before => pc[c] \in Before
    BY <1>3 DEF SetCompression, Register, Crash, Hangup, EndBroadcast, Unregister,
      CloseSocket, Goto, Before
  <2>2. /\ pc[c] \notin Working \/ (pc[c] = "fanout" /\ recipients[c] = <<>>)
        /\ UNCHANGED <<protected, message, recipients, frame>>
    BY <1>3 DEF SetCompression, Register, Crash, Hangup, EndBroadcast, Unregister,
      CloseSocket, Receive, Working, shared, fixed
  <2>3. \/ registry' \subseteq registry
        \/ /\ registry' = registry \cup {c}
           /\ pc[c] = "register" /\ pc' = [pc EXCEPT ![c] = "loop"]
    BY <1>3 DEF SetCompression, Register, Crash, Hangup, EndBroadcast, Unregister,
      CloseSocket, Goto, shared
  <2> QED
    BY <1>0, <2>1, <2>2, <2>3 DEF Working, Before
<1>4. CASE Client(c)
  BY <1>0, <1>4 DEF Client, SayHello, SendProof, Say, SendWrong, Leave, thread,
    shared, fixed
<1> QED
  BY <1>2, <1>3, <1>4 DEF Quiet

\* What the thread of c is taken to when it starts to relay, lists whom it
\* relays to, or is done with one of them.
LEMMA TakeEffects ==
  ASSUME WellTyped, NEW c \in Conns, TakeMessage(c)
  PROVE  /\ pc[c] = "loop" /\ pc' = [pc EXCEPT ![c] = "broadcast"]
         /\ inbox[c] # <<>> /\ inbox' = [inbox EXCEPT ![c] = Tail(@)]
         /\ Takes(protected, Head(inbox[c]))
         /\ Head(inbox[c]).msg \in Messages
         /\ message' = [message EXCEPT ![c] = Head(inbox[c]).msg]
         /\ UNCHANGED <<fixed, recipients, frame, shared, wire, clients>>
<1>1. Receive(c, "loop")
  BY DEF TakeMessage
<1>2. Takes(protected, Head(inbox[c]))
  BY DEF TakeMessage, Takes
<1>3. Head(inbox[c]).msg \in Messages
  BY <1>1, <1>2, ReceiveTyped DEF Takes
<1> QED
  BY <1>1, <1>2, <1>3 DEF TakeMessage, Receive, Goto

\* A thread that is delivering, or dropping, has its recipient at the head of
\* its list, and is done with it when the list is shortened.
LEMMA ServedNext ==
  ASSUME WellTyped, NEW c \in Conns, Once(recipients[c]),
         pc[c] \in {"sending", "drop"}
  PROVE  /\ Head(recipients[c]) \in Conns
         /\ Listed(c, Head(recipients[c]))
         /\ Once(Tail(recipients[c]))
         /\ \A q \in Conns : Holds(Tail(recipients[c]), q) <=>
              Listed(c, q) /\ q # Head(recipients[c])
<1>1. recipients[c] \in Seq(Conns) /\ recipients[c] # <<>>
  BY DEF WellTyped, TypeOK, Relaying
<1> QED
  BY <1>1, OnceTail DEF Listed

LEMMA ListsStep == WellTyped /\ Lists /\ [Next]_vars => Lists'
<1> SUFFICES ASSUME WellTyped, Lists, [Next]_vars
             PROVE  Lists'
  OBVIOUS
<1> USE DEF WellTyped
<1>0. CASE UNCHANGED vars
  BY <1>0 DEF vars, thread, shared, Lists, Listed
<1>1. ASSUME NEW c \in Conns, Quiet(c)
      PROVE  Lists'
  <2>1. /\ UNCHANGED <<protected, message, recipients, frame>>
        /\ \A d \in Conns : d # c => pc'[d] = pc[d]
        /\ \/ pc'[c] = pc[c]
           \/ /\ pc[c] \notin Working \/ (pc[c] = "fanout" /\ recipients[c] = <<>>)
              /\ pc'[c] \notin Working
        /\ pc[c] \notin Before => pc'[c] \notin Before
        /\ \/ registry' \subseteq registry
           \/ /\ registry' = registry \cup {c}
              /\ pc[c] = "register" /\ pc'[c] = "loop"
        /\ \A d, e \in Conns : NumbersIn(wire'[d], e) = NumbersIn(wire[d], e)
    BY <1>1, QuietEffects
  <2>2. \A d \in Conns : pc[d] \notin Before => pc'[d] \notin Before
    BY <2>1
  <2>3. \A d \in Conns : recipients'[d] # <<>> =>
          pc'[d] \in {"fanout", "sending", "drop"}
    BY <2>1 DEF Lists, Working
  <2>4. \A d \in Conns : Once(recipients'[d])
    BY <2>1 DEF Lists
  <2>5. \A d, r \in Conns : Listed(d, r)' => r # d /\ pc'[r] \notin Before
    BY <2>1, <2>2 DEF Lists, Listed
  <2>6. \A r \in registry' : pc'[r] \notin Before
    <3>1. registry \subseteq Conns /\ "loop" \notin Before
      BY DEF TypeOK, Before
    <3> QED
      BY <2>1, <2>2, <3>1 DEF Lists
  <2>7. \A r, d \in Conns : NumbersIn(wire'[r], d) # {} => pc'[r] \notin Before
    BY <2>1, <2>2 DEF Lists
  <2>8. \A d \in Conns : pc'[d] = "sending" => frame'[d].msg = message'[d]
    BY <2>1 DEF Lists, Working
  <2> QED
    BY <2>3, <2>4, <2>5, <2>6, <2>7, <2>8 DEF Lists, Listed
<1>2. ASSUME NEW c \in Conns, TakeMessage(c)
      PROVE  Lists'
  <2>1. /\ pc[c] = "loop" /\ pc' = [pc EXCEPT ![c] = "broadcast"]
        /\ message' = [message EXCEPT ![c] = Head(inbox[c]).msg]
        /\ UNCHANGED <<fixed, recipients, frame, shared, wire, clients>>
    BY <1>2, TakeEffects
  <2>2. /\ \A d \in Conns : pc[d] \notin Before => pc'[d] \notin Before
        /\ \A d \in Conns : d # c => pc'[d] = pc[d] /\ message'[d] = message[d]
        /\ pc'[c] = "broadcast"
    BY <2>1 DEF TypeOK, Before
  <2>3. recipients[c] = <<>>
    BY <2>1 DEF Lists
  <2>4. \A d, r \in Conns : Listed(d, r)' => r # d /\ pc'[r] \notin Before
    BY <2>1, <2>2 DEF Lists, Listed
  <2>5. \A r \in registry' : pc'[r] \notin Before
    BY <2>1, <2>2 DEF Lists, shared, TypeOK
  <2> QED
    BY <2>1, <2>2, <2>3, <2>4, <2>5 DEF Lists, shared
<1>3. ASSUME NEW c \in Conns, Snapshot(c)
      PROVE  Lists'
  <2>1. PICK s \in Listings(registry \ {c}) :
          recipients' = [recipients EXCEPT ![c] = s]
    BY <1>3 DEF Snapshot
  <2>2. /\ pc[c] = "broadcast" /\ pc' = [pc EXCEPT ![c] = "fanout"]
        /\ UNCHANGED <<fixed, message, frame, shared, inbox, wire, clients>>
    BY <1>3 DEF Snapshot, Goto
  <2>3. /\ Once(s)
        /\ \A q \in Conns : Holds(s, q) <=> q \in registry \ {c}
    <3>1. registry \ {c} \in SUBSET Conns
      BY DEF TypeOK
    <3> QED
      BY <3>1, ListingHolds
  <2>4. /\ \A d \in Conns : pc[d] \notin Before => pc'[d] \notin Before
        /\ \A d \in Conns : d # c => pc'[d] = pc[d] /\ recipients'[d] = recipients[d]
        /\ pc'[c] = "fanout" /\ recipients'[c] = s
    BY <2>1, <2>2 DEF TypeOK, Before
  <2>5. \A d, r \in Conns : Listed(d, r)' => r # d /\ pc'[r] \notin Before
    <3> SUFFICES ASSUME NEW d \in Conns, NEW r \in Conns, Holds(recipients'[d], r)
                 PROVE  r # d /\ pc'[r] \notin Before
      BY DEF Listed
    <3>1. CASE d = c
      BY <2>3, <2>4, <3>1 DEF Lists
    <3>2. CASE d # c
      BY <2>4, <3>2 DEF Lists, Listed
    <3> QED
      BY <3>1, <3>2
  <2>6. \A r \in registry' : pc'[r] \notin Before
    BY <2>2, <2>4 DEF Lists, shared, TypeOK
  <2>7. \A d \in Conns : Once(recipients'[d])
    BY <2>3, <2>4 DEF Lists
  <2>8. \A d \in Conns : recipients'[d] # <<>> =>
          pc'[d] \in {"fanout", "sending", "drop"}
    BY <2>4 DEF Lists
  <2>9. \A d \in Conns : pc'[d] = "sending" => frame'[d].msg = message'[d]
    BY <2>2, <2>4 DEF Lists
  <2>10. \A r, d \in Conns : NumbersIn(wire'[r], d) # {} => pc'[r] \notin Before
    BY <2>2, <2>4 DEF Lists
  <2> QED
    BY <2>5, <2>6, <2>7, <2>8, <2>9, <2>10 DEF Lists, Listed
<1>4. ASSUME NEW c \in Conns, StartDelivery(c)
      PROVE  Lists'
  <2>1. /\ pc[c] = "fanout" /\ pc' = [pc EXCEPT ![c] = "sending"]
        /\ recipients[c] # <<>>
        /\ frame' = [frame EXCEPT ![c] =
             Outgoing(Head(recipients[c]), tx_seq[Head(recipients[c])] + 1, message[c])]
        /\ UNCHANGED <<fixed, message, recipients, registry, wire>>
    BY <1>4 DEF StartDelivery, Goto
  <2>2. PICK f : /\ f.msg = message[c]
                 /\ frame' = [frame EXCEPT ![c] = f]
    <3>1. \A r, n : Outgoing(r, n, message[c]).msg = message[c]
      BY DEF Outgoing
    <3> QED
      BY <2>1, <3>1
  <2>3. /\ \A d \in Conns : pc[d] \notin Before => pc'[d] \notin Before
        /\ \A d \in Conns : d # c => pc'[d] = pc[d] /\ frame'[d] = frame[d]
        /\ pc'[c] = "sending" /\ frame'[c] = f
    BY <2>1, <2>2 DEF TypeOK, Before
  <2>4. \A d, r \in Conns : Listed(d, r)' => r # d /\ pc'[r] \notin Before
    BY <2>1, <2>3 DEF Lists, Listed
  <2>5. \A r \in registry' : pc'[r] \notin Before
    BY <2>1, <2>3 DEF Lists, TypeOK
  <2>6. \A d \in Conns : pc'[d] = "sending" => frame'[d].msg = message'[d]
    BY <2>1, <2>2, <2>3 DEF Lists
  <2>7. \A r, d \in Conns : NumbersIn(wire'[r], d) # {} => pc'[r] \notin Before
    BY <2>1, <2>3 DEF Lists
  <2>8. /\ \A d \in Conns : recipients'[d] # <<>> =>
             pc'[d] \in {"fanout", "sending", "drop"}
        /\ \A d \in Conns : Once(recipients'[d])
    BY <2>1, <2>3 DEF Lists
  <2> QED
    BY <2>4, <2>5, <2>6, <2>7, <2>8 DEF Lists, Listed
<1>5. ASSUME NEW c \in Conns, FinishDelivery(c) \/ DropRecipient(c)
      PROVE  Lists'
  <2>0. pc[c] \in {"sending", "drop"} /\ Once(recipients[c])
    BY <1>5 DEF FinishDelivery, DropRecipient, Lists
  <2>1. PICK r \in Conns : r = Head(recipients[c])
    BY <2>0, ServedNext
  <2>2. /\ pc[c] \in {"sending", "drop"} /\ pc' = [pc EXCEPT ![c] = "fanout"]
        /\ recipients' = [recipients EXCEPT ![c] = Tail(@)]
        /\ registry' \subseteq registry
        /\ \/ UNCHANGED wire
           \/ pc[c] = "sending" /\ wire' = [wire EXCEPT ![r] = Append(@, frame[c])]
        /\ UNCHANGED <<fixed, message, frame>>
    BY <1>5, <2>1 DEF FinishDelivery, DropRecipient, NextRecipient, Goto
  <2>3. /\ Listed(c, r) /\ Once(Tail(recipients[c]))
        /\ \A q \in Conns : Holds(Tail(recipients[c]), q) <=> Listed(c, q) /\ q # r
    BY <2>0, <2>1, ServedNext
  <2>4. /\ \A d \in Conns : pc[d] \notin Before => pc'[d] \notin Before
        /\ \A d \in Conns : d # c => pc'[d] = pc[d] /\ recipients'[d] = recipients[d]
        /\ pc'[c] = "fanout" /\ recipients'[c] = Tail(recipients[c])
    BY <2>2 DEF TypeOK, Before
  <2>5. \A d, q \in Conns : Listed(d, q)' => q # d /\ pc'[q] \notin Before
    <3> SUFFICES ASSUME NEW d \in Conns, NEW q \in Conns, Holds(recipients'[d], q)
                 PROVE  q # d /\ pc'[q] \notin Before
      BY DEF Listed
    <3>1. Listed(d, q)
      <4>1. CASE d = c
        BY <2>3, <2>4, <4>1
      <4>2. CASE d # c
        BY <2>4, <4>2 DEF Listed
      <4> QED
        BY <4>1, <4>2
    <3> QED
      BY <2>4, <3>1 DEF Lists
  <2>6. \A q \in registry' : pc'[q] \notin Before
    BY <2>2, <2>4 DEF Lists, TypeOK
  <2>7. \A q, d \in Conns : NumbersIn(wire'[q], d) # {} => pc'[q] \notin Before
    <3> SUFFICES ASSUME NEW q \in Conns, NEW d \in Conns, NumbersIn(wire'[q], d) # {}
                 PROVE  pc[q] \notin Before
      BY <2>4
    <3>1. CASE q = r
      BY <2>3, <3>1 DEF Lists
    <3>2. CASE q # r
      <4>1. wire'[q] = wire[q]
        BY <2>2, <3>2 DEF TypeOK
      <4> QED
        BY <4>1 DEF Lists
    <3> QED
      BY <3>1, <3>2
  <2>8. \A d \in Conns : recipients'[d] # <<>> =>
          pc'[d] \in {"fanout", "sending", "drop"}
    BY <2>4 DEF Lists
  <2>9. \A d \in Conns : Once(recipients'[d])
    BY <2>3, <2>4 DEF Lists
  <2>10. \A d \in Conns : pc'[d] = "sending" => frame'[d].msg = message'[d]
    BY <2>2, <2>4 DEF Lists
  <2> QED
    BY <2>5, <2>6, <2>7, <2>8, <2>9, <2>10 DEF Lists, Listed
<1>6. ASSUME NEW c \in Conns, FailDelivery(c)
      PROVE  Lists'
  <2>1. /\ pc[c] = "sending" /\ pc' = [pc EXCEPT ![c] = "drop"]
        /\ UNCHANGED <<fixed, message, recipients, frame, registry, wire>>
    BY <1>6 DEF FailDelivery, Goto
  <2>2. /\ \A d \in Conns : pc[d] \notin Before => pc'[d] \notin Before
        /\ \A d \in Conns : d # c => pc'[d] = pc[d]
        /\ pc'[c] = "drop"
    BY <2>1 DEF TypeOK, Before
  <2>3. \A d, r \in Conns : Listed(d, r)' => r # d /\ pc'[r] \notin Before
    BY <2>1, <2>2 DEF Lists, Listed
  <2>4. \A r \in registry' : pc'[r] \notin Before
    BY <2>1, <2>2 DEF Lists, TypeOK
  <2>5. \A r, d \in Conns : NumbersIn(wire'[r], d) # {} => pc'[r] \notin Before
    BY <2>1, <2>2 DEF Lists
  <2>6. \A d \in Conns : pc'[d] = "sending" => frame'[d].msg = message'[d]
    BY <2>1, <2>2 DEF Lists
  <2>7. /\ \A d \in Conns : recipients'[d] # <<>> =>
             pc'[d] \in {"fanout", "sending", "drop"}
        /\ \A d \in Conns : Once(recipients'[d])
    BY <2>1, <2>2 DEF Lists
  <2> QED
    BY <2>3, <2>4, <2>5, <2>6, <2>7 DEF Lists, Listed
<1> QED
  BY <1>0, <1>1, <1>2, <1>3, <1>4, <1>5, <1>6 DEF Next, Thread, Quiet

-----------------------------------------------------------------------------
\* What a step does to the frames that wait, apart from TakeMessage's: those of
\* one client lose a head that is no message, gain one that is not, or gain
\* the next message, or are cut short as the client leaves.
LEMMA LineEffects ==
  ASSUME WellTyped, NEW c \in Conns,
         \/ Greet(c) \/ Authenticate(c) \/ RefuseFrame(c)
         \/ SayHello(c) \/ SendProof(c) \/ Say(c) \/ SendWrong(c) \/ Leave(c)
  PROVE  /\ UNCHANGED <<protected, message>>
         /\ \A d \in Conns \ {c} : /\ pc'[d] = pc[d] /\ inbox'[d] = inbox[d]
                                   /\ said'[d] = said[d] /\ peer'[d] = peer[d]
         /\ pc[c] \in {"finally", "closing", "done"} => pc'[c] = pc[c]
         /\ peer[c] = "left" => peer'[c] = "left"
         /\ \/ /\ inbox[c] # <<>> /\ ~ Takes(protected, Head(inbox[c]))
               /\ inbox'[c] = Tail(inbox[c]) /\ said'[c] = said[c]
            \/ \E f \in FromClient :
                 /\ peer[c] # "left" /\ inbox'[c] = Append(inbox[c], f)
                 /\ IF Takes(protected, f)
                      THEN f.msg.n = said[c] + 1 /\ said'[c] = said[c] + 1
                      ELSE said'[c] = said[c]
            \/ /\ peer'[c] = "left" /\ said'[c] = said[c]
               /\ \E k \in 0 .. Len(inbox[c]) : inbox'[c] = SubSeq(inbox[c], 1, k)
<1> USE DEF WellTyped, TypeOK
<1>1. CASE Greet(c) \/ Authenticate(c) \/ RefuseFrame(c)
  <2>1. /\ inbox[c] # <<>> /\ inbox' = [inbox EXCEPT ![c] = Tail(@)]
        /\ pc[c] \in {"hello", "covenant", "loop"}
        /\ \E label : pc' = [pc EXCEPT ![c] = label]
        /\ UNCHANGED <<protected, message, said, peer>>
    BY <1>1 DEF Greet, Authenticate, RefuseFrame, Receive, Reply, Goto, fixed, clients
  <2>2. ~ Takes(protected, Head(inbox[c]))
    <3>1. CASE Greet(c) \/ Authenticate(c)
      BY <3>1 DEF Greet, Authenticate, Hello, Proof, Takes
    <3>2. CASE RefuseFrame(c)
      BY <3>2 DEF RefuseFrame, Takes
    <3> QED
      BY <1>1, <3>1, <3>2
  <2> QED
    BY <2>1, <2>2
<1>2. CASE SayHello(c) \/ SendProof(c) \/ SendWrong(c)
  <2>1. PICK f \in FromClient :
          ~ Takes(protected, f) /\ inbox' = [inbox EXCEPT ![c] = Append(@, f)]
    <3>1. CASE SayHello(c)
      <4>1. ~ Takes(protected, Hello)
        BY DEF Takes, Hello
      <4> QED
        BY <3>1, <4>1, ClientFrames DEF SayHello, Post
    <3>2. CASE SendProof(c)
      <4>1. \A g \in BOOLEAN : ~ Takes(protected, Proof(g))
        BY DEF Takes, Proof
      <4> QED
        BY <3>2, <4>1, ClientFrames DEF SendProof, Post
    <3>3. CASE SendWrong(c)
      <4>0. [from |-> c, n |-> 1] \in Messages
        BY DEF Messages
      <4>1. PICK m \in Messages : m = [from |-> c, n |-> 1]
        BY <4>0
      <4>2. \/ \E f \in {Other, Malformed, BadSealed} : Post(c, f)
            \/ protected /\ Post(c, ChatBy(m))
        BY <3>3, <4>1 DEF SendWrong
      <4>3. \A f \in {Other, Malformed, BadSealed} : ~ Takes(protected, f)
        BY DEF Takes, Other, Malformed, BadSealed
      <4>4. protected => ~ Takes(protected, ChatBy(m))
        BY DEF Takes, ChatBy
      <4>5. /\ \A f \in {Other, Malformed, BadSealed} : f \in FromClient
            /\ ChatBy(m) \in FromClient
        BY ClientFrames
      <4> QED
        BY <4>2, <4>3, <4>4, <4>5 DEF Post
    <3> QED
      BY <1>2, <3>1, <3>2, <3>3
  <2>2. /\ UNCHANGED <<protected, message, said, pc>>
        /\ peer[c] # "left"
        /\ \A d \in Conns \ {c} : peer'[d] = peer[d]
    BY <1>2 DEF SayHello, SendProof, SendWrong, thread, fixed
  <2> QED
    BY <2>1, <2>2
<1>3. CASE Say(c)
  <2>0. [from |-> c, n |-> said[c] + 1] \in Messages
    BY DEF Messages
  <2>1. PICK m \in Messages : m = [from |-> c, n |-> said[c] + 1]
    BY <2>0
  <2>2. /\ Post(c, IF protected THEN SealedBy(m) ELSE ChatBy(m))
        /\ said' = [said EXCEPT ![c] = @ + 1]
        /\ UNCHANGED <<protected, message, pc, peer>> /\ peer[c] # "left"
    BY <1>3, <2>1 DEF Say, thread, fixed
  <2>3. PICK f \in FromClient :
          /\ inbox' = [inbox EXCEPT ![c] = Append(@, f)]
          /\ Takes(protected, f) /\ f.msg = m
    <3>1. /\ SealedBy(m).type = "sealed" /\ SealedBy(m).good /\ SealedBy(m).msg = m
          /\ ChatBy(m).type = "chat" /\ ChatBy(m).msg = m
      BY DEF SealedBy, ChatBy
    <3>2. SealedBy(m) \in FromClient /\ ChatBy(m) \in FromClient
      BY ClientFrames
    <3> QED
      BY <2>2, <3>1, <3>2 DEF Post, Takes
  <2>4. f.msg.n = said[c] + 1 /\ said'[c] = said[c] + 1
    BY <2>1, <2>2, <2>3
  <2> QED
    BY <2>2, <2>3, <2>4
<1>4. CASE Leave(c)
  BY <1>4 DEF Leave, thread, fixed
<1> QED
  BY <1>1, <1>2, <1>3, <1>4

LEMMA LinesStep == WellTyped /\ Lines /\ [Next]_vars => Lines'
<1> SUFFICES ASSUME WellTyped, Lines, [Next]_vars
             PROVE  Lines'
  OBVIOUS
<1> USE DEF WellTyped
<1>1. CASE UNCHANGED <<protected, message, inbox, said, peer>>
            /\ \A d \in Conns : pc[d] \in {"finally", "closing", "done"} =>
                 pc'[d] \in {"finally", "closing", "done"}
  BY <1>1 DEF Lines, Taken
<1>2. ASSUME NEW c \in Conns,
             Greet(c) \/ Authenticate(c) \/ RefuseFrame(c) \/ Client(c)
      PROVE  Lines'
  <2>1. /\ UNCHANGED <<protected, message>>
        /\ \A d \in Conns \ {c} : /\ pc'[d] = pc[d] /\ inbox'[d] = inbox[d]
                                  /\ said'[d] = said[d] /\ peer'[d] = peer[d]
        /\ pc[c] \in {"finally", "closing", "done"} => pc'[c] = pc[c]
        /\ peer[c] = "left" => peer'[c] = "left"
        /\ \/ /\ inbox[c] # <<>> /\ ~ Takes(protected, Head(inbox[c]))
              /\ inbox'[c] = Tail(inbox[c]) /\ said'[c] = said[c]
           \/ \E f \in FromClient :
                /\ peer[c] # "left" /\ inbox'[c] = Append(inbox[c], f)
                /\ IF Takes(protected, f)
                     THEN f.msg.n = said[c] + 1 /\ said'[c] = said[c] + 1
                     ELSE said'[c] = said[c]
           \/ /\ peer'[c] = "left" /\ said'[c] = said[c]
              /\ \E k \in 0 .. Len(inbox[c]) : inbox'[c] = SubSeq(inbox[c], 1, k)
    BY <1>2, LineEffects DEF Client
  <2>2. \A d \in Conns : Taken(d)' = Taken(d)
    BY <2>1 DEF Taken
  <2>3. /\ Taken(c) \in Nat /\ said[c] \in Nat /\ protected \in BOOLEAN
        /\ inbox[c] \in Seq(FromClient) /\ Taken(c) <= said[c]
    BY TakenTyped, ChatServerAssumption DEF TypeOK, Lines
  <2>4. said[c] <= said'[c] /\ said'[c] \in Nat
    BY <2>1, <2>3
  <2>5. ASSUME pc'[c] \notin {"finally", "closing", "done"}
        PROVE  /\ InLine(protected, inbox'[c], Taken(c), said'[c])
               /\ peer'[c] # "left" =>
                    NoneLost(protected, inbox'[c], Taken(c), said'[c])
    <3>1. /\ InLine(protected, inbox[c], Taken(c), said[c])
          /\ peer[c] # "left" => NoneLost(protected, inbox[c], Taken(c), said[c])
      <4>1. pc[c] \notin {"finally", "closing", "done"}
        BY <2>1, <2>5
      <4> QED
        BY <4>1 DEF Lines
    <3>2. CASE /\ inbox[c] # <<>> /\ ~ Takes(protected, Head(inbox[c]))
               /\ inbox'[c] = Tail(inbox[c]) /\ said'[c] = said[c]
      <4>1. /\ InLine(protected, Tail(inbox[c]), Taken(c), said[c])
            /\ NoneLost(protected, inbox[c], Taken(c), said[c]) =>
                 NoneLost(protected, Tail(inbox[c]), Taken(c), said[c])
        BY <2>3, <3>1, <3>2, LineTail
      <4> QED
        BY <2>1, <3>1, <3>2, <4>1
    <3>3. ASSUME NEW f \in FromClient,
                 peer[c] # "left", inbox'[c] = Append(inbox[c], f),
                 IF Takes(protected, f)
                   THEN f.msg.n = said[c] + 1 /\ said'[c] = said[c] + 1
                   ELSE said'[c] = said[c]
          PROVE  /\ InLine(protected, inbox'[c], Taken(c), said'[c])
                 /\ NoneLost(protected, inbox'[c], Taken(c), said'[c])
      <4>1. PICK s, t, u, v : /\ s = inbox[c] /\ t = Taken(c)
                              /\ u = said[c] /\ v = said'[c]
        OBVIOUS
      <4>2. InLine(protected, s, t, u) /\ NoneLost(protected, s, t, u)
        BY <3>1, <3>3, <4>1
      <4>3. /\ InLine(protected, Append(s, f), t, v)
            /\ NoneLost(protected, Append(s, f), t, v)
        BY <2>3, <2>4, <3>3, <4>1, <4>2, LineAppended
      <4> QED
        BY <3>3, <4>1, <4>3
    <3>4. ASSUME peer'[c] = "left", said'[c] = said[c],
                 NEW k \in 0 .. Len(inbox[c]), inbox'[c] = SubSeq(inbox[c], 1, k)
          PROVE  InLine(protected, inbox'[c], Taken(c), said'[c])
      BY <2>3, <3>1, <3>4, LineCut
    <3> QED
      BY <2>1, <3>2, <3>3, <3>4
  <2>6. ASSUME NEW d \in Conns
        PROVE  /\ Taken(d)' <= said'[d]
               /\ pc'[d] \notin {"finally", "closing", "done"} =>
                    /\ InLine(protected', inbox'[d], Taken(d)', said'[d])
                    /\ peer'[d] # "left" =>
                         NoneLost(protected', inbox'[d], Taken(d)', said'[d])
    <3>1. CASE d = c
      BY <2>1, <2>2, <2>3, <2>4, <2>5, <3>1
    <3>2. CASE d # c
      BY <2>1, <2>2, <3>2 DEF Lines
    <3> QED
      BY <3>1, <3>2
  <2> QED
    BY <2>6 DEF Lines
<1>3. ASSUME NEW c \in Conns, TakeMessage(c)
      PROVE  Lines'
  <2>1. /\ pc[c] = "loop" /\ pc' = [pc EXCEPT ![c] = "broadcast"]
        /\ inbox[c] # <<>> /\ inbox' = [inbox EXCEPT ![c] = Tail(@)]
        /\ Takes(protected, Head(inbox[c]))
        /\ Head(inbox[c]).msg \in Messages
        /\ message' = [message EXCEPT ![c] = Head(inbox[c]).msg]
        /\ UNCHANGED <<protected, peer, said>>
    BY <1>3, TakeEffects DEF fixed, clients
  <2>2. /\ Taken(c) \in Nat /\ said[c] \in Nat /\ protected \in BOOLEAN
        /\ inbox[c] \in Seq(FromClient)
    BY TakenTyped, ChatServerAssumption DEF TypeOK
  <2>3. /\ Head(inbox[c]).msg.n = Taken(c) + 1 /\ Taken(c) + 1 <= said[c]
        /\ InLine(protected, Tail(inbox[c]), Taken(c) + 1, said[c])
        /\ NoneLost(protected, inbox[c], Taken(c), said[c]) =>
             NoneLost(protected, Tail(inbox[c]), Taken(c) + 1, said[c])
    <3>1. InLine(protected, inbox[c], Taken(c), said[c])
      BY <2>1 DEF Lines
    <3> QED
      BY <2>1, <2>2, <3>1, LineTail
  <2>4. Taken(c)' = Taken(c) + 1
    <3>1. \A m \in Messages : m # Hello
      BY DEF Messages, Hello
    <3> QED
      BY <2>1, <2>3, <3>1 DEF Taken, TypeOK
  <2>5. \A d \in Conns \ {c} : /\ Taken(d)' = Taken(d) /\ pc'[d] = pc[d]
                               /\ inbox'[d] = inbox[d]
    BY <2>1 DEF Taken, TypeOK
  <2>6. inbox'[c] = Tail(inbox[c])
    BY <2>1 DEF TypeOK
  <2>7. ASSUME NEW d \in Conns
        PROVE  /\ Taken(d)' <= said'[d]
               /\ pc'[d] \notin {"finally", "closing", "done"} =>
                    /\ InLine(protected', inbox'[d], Taken(d)', said'[d])
                    /\ peer'[d] # "left" =>
                         NoneLost(protected', inbox'[d], Taken(d)', said'[d])
    <3>1. CASE d = c
      <4>1. peer[c] # "left" => NoneLost(protected, inbox[c], Taken(c), said[c])
        BY <2>1 DEF Lines
      <4> QED
        BY <2>1, <2>3, <2>4, <2>6, <3>1, <4>1
    <3>2. CASE d # c
      BY <2>1, <2>5, <3>2 DEF Lines
    <3> QED
      BY <3>1, <3>2
  <2> QED
    BY <2>7 DEF Lines
<1>4. ASSUME NEW c \in Conns, RefuseGreeting(c) \/ RefuseProof(c) \/ Crash(c)
      PROVE  Lines'
  <2>1. /\ pc' = [pc EXCEPT ![c] = "finally"]
        /\ \A d \in Conns \ {c} : inbox'[d] = inbox[d]
        /\ UNCHANGED <<protected, message, peer, said>>
    BY <1>4 DEF RefuseGreeting, RefuseProof, Crash, Receive, Reply, Goto, fixed, clients,
      TypeOK
  <2>2. \A d \in Conns : Taken(d)' = Taken(d)
    BY <2>1 DEF Taken
  <2>3. pc'[c] = "finally" /\ \A d \in Conns \ {c} : pc'[d] = pc[d]
    BY <2>1 DEF TypeOK
  <2> QED
    BY <2>1, <2>2, <2>3 DEF Lines
<1>5. ASSUME NEW c \in Conns,
             \/ SetCompression(c) \/ Register(c) \/ Hangup(c)
             \/ Snapshot(c) \/ StartDelivery(c) \/ FinishDelivery(c) \/ FailDelivery(c)
             \/ DropRecipient(c) \/ EndBroadcast(c) \/ Unregister(c) \/ CloseSocket(c)
      PROVE  Lines'
  <2>1. /\ \E label : /\ pc' = [pc EXCEPT ![c] = label]
                      /\ pc[c] \in {"finally", "closing", "done"} =>
                           label \in {"finally", "closing", "done"}
        /\ UNCHANGED <<protected, message, inbox, said, peer>>
    BY SMTT(30), <1>5 DEF SetCompression, Register, Hangup, Snapshot, StartDelivery,
      FinishDelivery, FailDelivery, DropRecipient, EndBroadcast, Unregister,
      CloseSocket, Goto, fixed, clients
  <2> QED
    BY <1>1, <2>1 DEF TypeOK
<1>6. CASE UNCHANGED vars
  BY <1>1, <1>6 DEF vars, thread, fixed, clients
<1> QED
  BY <1>2, <1>3, <1>4, <1>5, <1>6 DEF Next, Thread

-----------------------------------------------------------------------------
\* A step that concerns neither the two nor the registry, but by leaving it.
LEMMA GaplessKept ==
  ASSUME NEW r \in Conns, NEW c \in Conns, GaplessFor(r, c),
         NumbersIn(wire'[r], c) = NumbersIn(wire[r], c),
         message'[c] = message[c],
         r \in registry' => r \in registry,
         Due(c, r)' <=> Due(c, r), Failed(c, r)' <=> Failed(c, r),
         Listed(c, r)' <=> Listed(c, r)
  PROVE  GaplessFor(r, c)'
<1>1. Taken(c)' = Taken(c)
  BY DEF Taken
<1> QED
  BY <1>1 DEF GaplessFor

LEMMA DueKept ==
  ASSUME NEW c, NEW r, pc'[c] = pc[c], recipients'[c] = recipients[c]
  PROVE  /\ Due(c, r)' <=> Due(c, r)
         /\ Failed(c, r)' <=> Failed(c, r)
         /\ Listed(c, r)' <=> Listed(c, r)
BY DEF Due, Failed, Listed

\* Numbers of messages are natural numbers.
LEMMA NumbersAreNumbers ==
  ASSUME WellTyped, NEW r \in Conns, NEW c \in Conns
  PROVE  NumbersIn(wire[r], c) \subseteq Nat
<1>1. \A f \in FromServer : IsMessage(f) => f.msg \in Messages /\ f.msg.n \in Nat
  BY DEF FromServer, SealedFrames, IsMessage, HelloAck, AuthOk, AuthFail, Error, Messages
<1>2. \A i \in 1 .. Len(wire[r]) : wire[r][i] \in FromServer
  BY DEF WellTyped, TypeOK
<1> QED
  BY <1>1, <1>2 DEF NumbersIn

LEMMA GaplessStep ==
  WellTyped /\ Lists /\ Lines /\ Gapless /\ [Next]_vars => Gapless'
<1> SUFFICES ASSUME WellTyped, Lists, Lines, Gapless, [Next]_vars,
                    NEW r \in Conns, NEW d \in Conns, r # d
             PROVE  GaplessFor(r, d)'
  BY DEF Gapless
<1> USE DEF WellTyped
<1>g. GaplessFor(r, d)
  BY DEF Gapless
<1>0. CASE UNCHANGED vars
  BY <1>0, <1>g, GaplessKept, DueKept DEF vars, thread, shared
<1>1. ASSUME NEW c \in Conns, Quiet(c)
      PROVE  GaplessFor(r, d)'
  <2>1. /\ UNCHANGED <<protected, message, recipients, frame>>
        /\ \A e \in Conns : e # c => pc'[e] = pc[e]
        /\ \/ pc'[c] = pc[c]
           \/ /\ pc[c] \notin Working \/ (pc[c] = "fanout" /\ recipients[c] = <<>>)
              /\ pc'[c] \notin Working
        /\ \/ registry' \subseteq registry
           \/ /\ registry' = registry \cup {c}
              /\ pc[c] = "register" /\ pc'[c] = "loop"
        /\ \A q, e \in Conns : NumbersIn(wire'[q], e) = NumbersIn(wire[q], e)
    BY <1>1, QuietEffects
  <2>2. /\ Due(d, r)' <=> Due(d, r)
        /\ Failed(d, r)' <=> Failed(d, r)
        /\ Listed(d, r)' <=> Listed(d, r)
    <3>1. CASE pc'[d] = pc[d]
      BY <2>1, <3>1, DueKept
    <3>2. CASE pc'[d] # pc[d]
      <4>1. /\ pc[d] \notin Working \/ (pc[d] = "fanout" /\ recipients[d] = <<>>)
            /\ pc'[d] \notin Working
        BY <2>1, <3>2
      <4>2. recipients[d] = <<>>
        BY <4>1 DEF Lists, Working
      <4>3. \A q : ~ Holds(<<>>, q)
        BY DEF Holds
      <4> QED
        BY <2>1, <4>1, <4>2, <4>3 DEF Due, Failed, Listed, Working
    <3> QED
      BY <3>1, <3>2
  <2>3. CASE registry' \subseteq registry
    BY <1>g, <2>1, <2>2, <2>3, GaplessKept
  <2>4. CASE registry' = registry \cup {c} /\ pc[c] = "register"
    <3>1. CASE r = c
      <4>1. NumbersIn(wire[r], d) = {}
        BY <2>4, <3>1 DEF Lists, Before
      <4> QED
        BY <2>1, <4>1 DEF GaplessFor
    <3>2. CASE r # c
      BY <1>g, <2>1, <2>2, <2>4, <3>2, GaplessKept
    <3> QED
      BY <3>1, <3>2
  <2> QED
    BY <2>1, <2>3, <2>4
<1>2. ASSUME NEW c \in Conns, TakeMessage(c)
      PROVE  GaplessFor(r, d)'
  <2>1. /\ pc[c] = "loop" /\ pc' = [pc EXCEPT ![c] = "broadcast"]
        /\ inbox[c] # <<>> /\ Takes(protected, Head(inbox[c]))
        /\ Head(inbox[c]).msg \in Messages
        /\ message' = [message EXCEPT ![c] = Head(inbox[c]).msg]
        /\ UNCHANGED <<protected, recipients, registry, wire>>
    BY <1>2, TakeEffects DEF fixed, shared
  <2>2. CASE d # c
    <3>1. pc'[d] = pc[d] /\ recipients'[d] = recipients[d] /\ message'[d] = message[d]
      BY <2>1, <2>2 DEF TypeOK
    <3> QED
      BY <1>g, <2>1, <3>1, GaplessKept, DueKept
  <2>3. CASE d = c
    <3>1. Taken(c)' = Taken(c) + 1 /\ Taken(c) \in Nat
      <4>1. /\ Taken(c) \in Nat /\ said[c] \in Nat /\ protected \in BOOLEAN
            /\ inbox[c] \in Seq(FromClient)
        BY TakenTyped, ChatServerAssumption DEF TypeOK
      <4>2. InLine(protected, inbox[c], Taken(c), said[c])
        BY <2>1 DEF Lines
      <4>3. Head(inbox[c]).msg.n = Taken(c) + 1
        BY <2>1, <4>1, <4>2, LineTail
      <4>4. \A m \in Messages : m # Hello
        BY DEF Messages, Hello
      <4> QED
        BY <2>1, <4>1, <4>3, <4>4 DEF Taken, TypeOK
    <3>2. recipients[c] = <<>> /\ ~ Listed(c, r)
      <4>1. recipients[c] = <<>>
        BY <2>1 DEF Lists
      <4> QED
        BY <4>1 DEF Listed, Holds
    <3>3. ~ Due(c, r) /\ ~ Failed(c, r)
      BY <2>1, <3>2 DEF Due, Failed
    <3>4. Due(c, r)' /\ ~ Listed(c, r)'
      BY <2>1, <3>2 DEF Due, Listed, TypeOK
    <3>5. NumbersIn(wire[r], c) \subseteq Nat
      BY NumbersAreNumbers
    <3>6. PICK N : N = NumbersIn(wire[r], c) /\ N = NumbersIn(wire'[r], c)
      BY <2>1
    <3>7. PICK t \in Nat : t = Taken(c) /\ t + 1 = Taken(c)'
      BY <3>1
    <3>8. /\ \A k \in N : k <= t
          /\ (N # {} /\ r \in registry) => t \in N
      BY <1>g, <2>3, <3>3, <3>6, <3>7 DEF GaplessFor
    <3>9. /\ \A k \in N : k <= t + 1
          /\ t + 1 \notin N
          /\ (N # {} /\ r \in registry) => (t + 1) - 1 \in N
      BY <3>5, <3>6, <3>8
    <3> QED
      BY <2>1, <2>3, <3>4, <3>6, <3>7, <3>9 DEF GaplessFor
  <2> QED
    BY <2>2, <2>3
<1>3. ASSUME NEW c \in Conns, Snapshot(c)
      PROVE  GaplessFor(r, d)'
  <2>1. PICK s \in Listings(registry \ {c}) :
          recipients' = [recipients EXCEPT ![c] = s]
    BY <1>3 DEF Snapshot
  <2>2. /\ pc[c] = "broadcast" /\ pc' = [pc EXCEPT ![c] = "fanout"]
        /\ UNCHANGED <<message, registry, wire>>
    BY <1>3 DEF Snapshot, Goto, shared
  <2>3. CASE d # c
    <3>1. pc'[d] = pc[d] /\ recipients'[d] = recipients[d]
      BY <2>1, <2>2, <2>3 DEF TypeOK
    <3> QED
      BY <1>g, <2>2, <3>1, GaplessKept, DueKept
  <2>4. CASE d = c
    <3>1. Holds(s, r) <=> r \in registry
      <4>1. registry \ {c} \in SUBSET Conns
        BY DEF TypeOK
      <4> QED
        BY <2>4, <4>1, ListingHolds
    <3>2. pc'[c] = "fanout" /\ recipients'[c] = s
      BY <2>1, <2>2 DEF TypeOK
    <3>3. /\ Due(c, r) /\ ~ Failed(c, r)' /\ Taken(c)' = Taken(c)
          /\ Due(c, r)' <=> r \in registry
          /\ Listed(c, r)' <=> r \in registry
      BY <2>2, <3>1, <3>2 DEF Due, Failed, Listed, Taken
    <3> QED
      BY <1>g, <2>2, <2>4, <3>3 DEF GaplessFor
  <2> QED
    BY <2>3, <2>4
<1>4. ASSUME NEW c \in Conns, StartDelivery(c)
      PROVE  GaplessFor(r, d)'
  <2>1. /\ pc[c] = "fanout" /\ pc' = [pc EXCEPT ![c] = "sending"]
        /\ UNCHANGED <<message, recipients, registry, wire>>
    BY <1>4 DEF StartDelivery, Goto
  <2>2. /\ Due(d, r)' <=> Due(d, r)
        /\ Failed(d, r)' <=> Failed(d, r)
        /\ Listed(d, r)' <=> Listed(d, r)
    BY <2>1 DEF Due, Failed, Listed, TypeOK
  <2> QED
    BY <1>g, <2>1, <2>2, GaplessKept
<1>5. ASSUME NEW c \in Conns, FinishDelivery(c)
      PROVE  GaplessFor(r, d)'
  <2>0. pc[c] = "sending" /\ Once(recipients[c])
    BY <1>5 DEF FinishDelivery, Lists
  <2>1. PICK q \in Conns : q = Head(recipients[c])
    BY <2>0, ServedNext
  <2>2. /\ pc' = [pc EXCEPT ![c] = "fanout"]
        /\ recipients' = [recipients EXCEPT ![c] = Tail(@)]
        /\ wire' = [wire EXCEPT ![q] = Append(@, frame[c])]
        /\ UNCHANGED <<message, registry>>
    BY <1>5, <2>1 DEF FinishDelivery, NextRecipient, Goto
  <2>3. /\ Listed(c, q)
        /\ \A e \in Conns : Holds(Tail(recipients[c]), e) <=> Listed(c, e) /\ e # q
    BY <2>0, <2>1, ServedNext
  <2>4. /\ frame[c] \in FromServer /\ IsMessage(frame[c])
        /\ frame[c].msg.from = c /\ frame[c].msg = message[c]
        /\ message[c] \in Messages
    BY <2>0 DEF Relaying, Lists
  <2>5. Taken(c) = frame[c].msg.n
    BY <2>4, TakenTyped
  <2>6. /\ NumbersIn(wire'[q], c) = NumbersIn(wire[q], c) \cup {Taken(c)}
        /\ \A e \in Conns \ {c} : NumbersIn(wire'[q], e) = NumbersIn(wire[q], e)
    <3>1. wire'[q] = Append(wire[q], frame[c]) /\ wire[q] \in Seq(FromServer)
      BY <2>2 DEF TypeOK
    <3>2. \A e \in Conns : NumbersIn(Append(wire[q], frame[c]), e)
            = IF IsMessage(frame[c]) /\ frame[c].msg.from = e
                THEN NumbersIn(wire[q], e) \cup {frame[c].msg.n}
                ELSE NumbersIn(wire[q], e)
      BY <2>4, <3>1, NumbersAppended
    <3>3. \A e \in Conns \ {c} : ~ (IsMessage(frame[c]) /\ frame[c].msg.from = e)
      BY <2>4
    <3> QED
      BY <2>4, <2>5, <3>1, <3>2, <3>3, Zenon
  <2>7. \A p \in Conns : p # q => wire'[p] = wire[p]
    BY <2>2 DEF TypeOK
  <2>8. CASE d # c
    <3>1. pc'[d] = pc[d] /\ recipients'[d] = recipients[d]
      BY <2>2, <2>8 DEF TypeOK
    <3>2. NumbersIn(wire'[r], d) = NumbersIn(wire[r], d)
      BY <2>6, <2>7, <2>8
    <3> QED
      BY <1>g, <2>2, <3>1, <3>2, GaplessKept, DueKept
  <2>9. CASE d = c
    <3>1. /\ pc'[c] = "fanout"
          /\ Listed(c, r)' <=> Listed(c, r) /\ r # q
      BY <2>2, <2>3 DEF Listed, TypeOK
    <3>2. CASE r = q
      <4>1. ~ Due(c, r)' /\ Taken(c)' = Taken(c)
        BY <2>2, <3>1, <3>2 DEF Due, Taken
      <4>2. Taken(c) \in Nat
        BY TakenTyped
      <4>3. PICK N, t : N = NumbersIn(wire[r], c) /\ t = Taken(c)
        OBVIOUS
      <4>4. /\ \A k \in N : k <= t
            /\ NumbersIn(wire'[r], c) = N \cup {t}
        BY <1>g, <2>6, <2>9, <3>2, <4>3 DEF GaplessFor
      <4>5. \A k \in N \cup {t} : k <= t
        BY <4>2, <4>3, <4>4
      <4> QED
        BY <2>9, <4>1, <4>3, <4>4, <4>5 DEF GaplessFor
    <3>3. CASE r # q
      <4>1. /\ Due(c, r)' <=> Due(c, r)
            /\ Failed(c, r)' <=> Failed(c, r)
            /\ Listed(c, r)' <=> Listed(c, r)
        BY <2>0, <3>1, <3>3 DEF Due, Failed
      <4> QED
        BY <1>g, <2>2, <2>7, <2>9, <3>3, <4>1, GaplessKept
    <3> QED
      BY <3>2, <3>3
  <2> QED
    BY <2>8, <2>9
<1>6. ASSUME NEW c \in Conns, FailDelivery(c)
      PROVE  GaplessFor(r, d)'
  <2>1. /\ pc[c] = "sending" /\ pc' = [pc EXCEPT ![c] = "drop"]
        /\ UNCHANGED <<message, recipients, registry, wire>>
    BY <1>6 DEF FailDelivery, Goto
  <2>2. CASE d # c \/ r # Head(recipients[c])
    <3>1. /\ Due(d, r)' <=> Due(d, r)
          /\ Failed(d, r)' <=> Failed(d, r)
          /\ Listed(d, r)' <=> Listed(d, r)
      BY <2>1, <2>2 DEF Due, Failed, Listed, TypeOK
    <3> QED
      BY <1>g, <2>1, <3>1, GaplessKept
  <2>3. CASE d = c /\ r = Head(recipients[c])
    <3>1. ~ Due(c, r)' /\ Failed(c, r)' /\ Taken(c)' = Taken(c)
      BY <2>1, <2>3 DEF Due, Failed, Taken, TypeOK
    <3> QED
      BY <1>g, <2>1, <2>3, <3>1 DEF GaplessFor
  <2> QED
    BY <2>2, <2>3
<1>7. ASSUME NEW c \in Conns, DropRecipient(c)
      PROVE  GaplessFor(r, d)'
  <2>0. pc[c] = "drop" /\ Once(recipients[c])
    BY <1>7 DEF DropRecipient, Lists
  <2>1. PICK q \in Conns : q = Head(recipients[c])
    BY <2>0, ServedNext
  <2>2. /\ pc' = [pc EXCEPT ![c] = "fanout"]
        /\ recipients' = [recipients EXCEPT ![c] = Tail(@)]
        /\ registry' = registry \ {q}
        /\ UNCHANGED <<message, wire>>
    BY <1>7, <2>1 DEF DropRecipient, NextRecipient, Goto
  <2>3. \A e \in Conns : Holds(Tail(recipients[c]), e) <=> Listed(c, e) /\ e # q
    BY <2>0, <2>1, ServedNext
  <2>4. CASE d # c
    <3>1. pc'[d] = pc[d] /\ recipients'[d] = recipients[d]
      BY <2>2, <2>4 DEF TypeOK
    <3> QED
      BY <1>g, <2>2, <3>1, GaplessKept, DueKept
  <2>5. CASE d = c
    <3>1. /\ pc'[c] = "fanout"
          /\ Listed(c, r)' <=> Listed(c, r) /\ r # q
      BY <2>2, <2>3 DEF Listed, TypeOK
    <3>2. CASE r = q
      <4>1. ~ Due(c, r)' /\ Taken(c)' = Taken(c) /\ r \notin registry'
        BY <2>2, <3>1, <3>2 DEF Due, Taken
      <4> QED
        BY <1>g, <2>2, <2>5, <4>1 DEF GaplessFor
    <3>3. CASE r # q
      <4>1. /\ Due(c, r)' <=> Due(c, r)
            /\ Failed(c, r)' <=> Failed(c, r)
            /\ Listed(c, r)' <=> Listed(c, r)
        BY <2>0, <2>1, <3>1, <3>3 DEF Due, Failed
      <4> QED
        BY <1>g, <2>2, <2>5, <4>1, GaplessKept
    <3> QED
      BY <3>2, <3>3
  <2> QED
    BY <2>4, <2>5
<1> QED
  BY <1>0, <1>1, <1>2, <1>3, <1>4, <1>5, <1>6, <1>7 DEF Next, Thread, Quiet

-----------------------------------------------------------------------------
\* A sequence of frames as the abstract relay has it.
Words(s) == [i \in 1 .. Len(s) |-> Word(s[i])]

LEMMA WordsAppended ==
  ASSUME NEW s \in Seq(FromServer), NEW f \in FromServer
  PROVE  Words(Append(s, f)) = Append(Words(s), Word(f))
<1>1. PICK a : a = Append(s, f)
  OBVIOUS
<1>2. /\ Len(s) \in Nat /\ Len(a) = Len(s) + 1 /\ a[Len(s) + 1] = f
      /\ \A i \in 1 .. Len(s) : a[i] = s[i]
  BY <1>1, AppendProperties
<1>3. PICK n \in Nat : n = Len(s)
  BY <1>2
<1>4. PICK W : W = {Word(a[i]) : i \in 1 .. n + 1}
  OBVIOUS
<1>5. PICK g : g = [i \in 1 .. n |-> Word(s[i])]
  OBVIOUS
<1>6. PICK h : h = [i \in 1 .. n + 1 |-> Word(a[i])]
  OBVIOUS
<1>7. \A i \in 1 .. n : Word(s[i]) \in W /\ i \in 1 .. n + 1 /\ Word(a[i]) = Word(s[i])
  BY <1>2, <1>3, <1>4
<1>8. Word(f) \in W
  <2>1. n + 1 \in 1 .. n + 1 /\ a[n + 1] = f
    BY <1>2, <1>3
  <2> QED
    BY <1>4, <2>1
<1>9. g \in [1 .. n -> W]
  BY <1>5, <1>7
<1>10. h \in [1 .. n + 1 -> W]
  BY <1>4, <1>6
<1>11. g \in Seq(W)
  BY <1>9
<1>12. h \in Seq(W)
  <2>1. n + 1 \in Nat
    OBVIOUS
  <2> QED
    BY <1>10, <2>1
<1>13. Len(g) = n /\ Len(h) = n + 1
  BY <1>9, <1>10, <1>11, <1>12
<1>14. PICK b \in Seq(W) : b = Append(g, Word(f))
  BY <1>8, <1>11, AppendProperties
<1>15. /\ Len(b) = n + 1 /\ b[n + 1] = Word(f)
       /\ \A i \in 1 .. n : b[i] = g[i]
  BY <1>8, <1>11, <1>13, <1>14, AppendProperties
<1>16. \A i \in 1 .. n + 1 : b[i] = h[i]
  <2> SUFFICES ASSUME NEW i \in 1 .. n + 1
               PROVE  b[i] = h[i]
    OBVIOUS
  <2>1. CASE i \in 1 .. n
    BY <1>5, <1>6, <1>7, <1>15, <2>1
  <2>2. CASE i = n + 1
    BY <1>2, <1>3, <1>6, <1>15, <2>2
  <2> QED
    BY <2>1, <2>2
<1>17. b = h
  BY <1>12, <1>13, <1>14, <1>15, <1>16, SeqEqual
<1>18. Words(s) = g /\ Words(a) = h
  BY <1>2, <1>3, <1>5, <1>6 DEF Words
<1> QED
  BY <1>1, <1>14, <1>17, <1>18

\* What is sent to a client is heard by it.
LEMMA HeardMore ==
  ASSUME WellTyped, NEW r \in Conns, NEW f \in FromServer,
         wire' = [wire EXCEPT ![r] = Append(@, f)]
  PROVE  Heard' = [Heard EXCEPT ![r] = Append(@, Word(f))]
<1>1. Heard = [c \in Conns |-> Words(wire[c])]
  BY DEF Heard, Words
<1>2. Heard' = [c \in Conns |-> Words(wire'[c])]
  BY DEF Heard, Words
<1>3. wire[r] \in Seq(FromServer) /\ wire \in [Conns -> Seq(FromServer)]
  BY DEF WellTyped, TypeOK
<1>4. wire'[r] = Append(wire[r], f) /\ \A c \in Conns : c # r => wire'[c] = wire[c]
  BY <1>3
<1>5. Words(wire'[r]) = Append(Words(wire[r]), Word(f))
  BY <1>3, <1>4, WordsAppended
<1>6. PICK g, h, x : g = Heard /\ h = Heard' /\ x = Append(Heard[r], Word(f))
  OBVIOUS
<1>7. x = Words(wire'[r]) /\ g = [c \in Conns |-> Words(wire[c])]
  BY <1>1, <1>5, <1>6
<1>8. /\ h = [c \in Conns |-> Words(wire'[c])]
      /\ \A c \in Conns : h[c] = IF c = r THEN x ELSE g[c]
  BY <1>2, <1>4, <1>6, <1>7
<1>9. h = [g EXCEPT ![r] = x]
  BY <1>7, <1>8
<1> QED
  BY <1>6, <1>9

LEMMA NumbersHeard ==
  ASSUME NEW r \in Conns, NEW c \in Conns
  PROVE  Promise!Numbers(r, c) = NumbersIn(wire[r], c)
<1>1. Heard[r] = [i \in 1 .. Len(wire[r]) |-> Word(wire[r][i])]
  BY DEF Heard
<1>2. \A f : Word(f).from = c <=> IsMessage(f) /\ f.msg.from = c
  BY ChatServerAssumption DEF Word
<1>3. \A f : IsMessage(f) => Word(f).n = f.msg.n
  BY DEF Word
<1>4. ASSUME NEW x
      PROVE  x \in Promise!Numbers(r, c) <=> x \in NumbersIn(wire[r], c)
  <2>1. x \in Promise!Numbers(r, c) <=>
          \E i \in 1 .. Len(wire[r]) :
            Word(wire[r][i]).from = c /\ x = Word(wire[r][i]).n
    BY <1>1 DEF Promise!Numbers
  <2>2. x \in NumbersIn(wire[r], c) <=>
          \E i \in 1 .. Len(wire[r]) :
            IsMessage(wire[r][i]) /\ wire[r][i].msg.from = c /\ x = wire[r][i].msg.n
    BY DEF NumbersIn
  <2> QED
    BY <1>2, <1>3, <2>1, <2>2
<1> QED
  BY <1>4

LEMMA NobodyHeard ==
  ASSUME Init
  PROVE  Promise!Init /\ Lists /\ Lines /\ Gapless
<1>1. \A r \in Conns : wire[r] = <<>> /\ inbox[r] = <<>> /\ recipients[r] = <<>>
                         /\ pc[r] = "hello" /\ said[r] = 0 /\ message[r] = Hello
  BY DEF Init
<1>2. /\ Len(<<>>) = 0 /\ \A i \in 1 .. 0 : FALSE
  OBVIOUS
<1>3. Words(<<>>) = <<>>
  <2>1. PICK h : h = [i \in 1 .. 0 |-> Word(<<>>[i])]
    OBVIOUS
  <2>2. h \in [1 .. 0 -> {}]
    BY <1>2, <2>1
  <2>3. h \in Seq({})
    BY <2>2
  <2>4. Len(h) = 0
    BY <2>2, <2>3
  <2>5. h = <<>>
    BY <2>3, <2>4, EmptySeq
  <2> QED
    BY <1>2, <2>1, <2>5 DEF Words
<1>4. Promise!Init
  <2>1. Heard = [c \in Conns |-> Words(wire[c])]
    BY DEF Heard, Words
  <2>2. Heard = [c \in Conns |-> <<>>]
    BY <1>1, <1>3, <2>1
  <2> QED
    BY <2>2 DEF Promise!Init, Init
<1>5. \A r, c \in Conns : NumbersIn(wire[r], c) = {}
  BY <1>1, <1>2 DEF NumbersIn
<1>6. \A c, r \in Conns : ~ Listed(c, r) /\ Once(recipients[c])
  BY <1>1, <1>2 DEF Listed, Holds, Once
<1>7. Lists
  <2>1. registry = {}
    BY DEF Init
  <2> QED
    BY <1>1, <1>5, <1>6, <2>1 DEF Lists
<1>8. Lines
  <2> SUFFICES ASSUME NEW c \in Conns
               PROVE  /\ Taken(c) <= said[c]
                      /\ InLine(protected, inbox[c], Taken(c), said[c])
                      /\ NoneLost(protected, inbox[c], Taken(c), said[c])
    BY DEF Lines
  <2>1. Taken(c) = 0
    BY <1>1 DEF Taken
  <2> QED
    BY <1>1, <1>2, <2>1 DEF InLine, NoneLost
<1>9. Gapless
  BY <1>1, <1>5, <1>6 DEF Gapless, GaplessFor, Due
<1> QED
  BY <1>4, <1>7, <1>8, <1>9

\* A delivery is a message heard: the next one of its sender.
LEMMA DeliveryIsHear ==
  ASSUME WellTyped, Lists, Lines, Gapless, NEW c \in Conns, FinishDelivery(c)
  PROVE  Promise!Next
<1> USE DEF WellTyped
<1>0. pc[c] = "sending" /\ Once(recipients[c])
  BY DEF FinishDelivery, Lists
<1>1. PICK r \in Conns : r = Head(recipients[c])
  BY <1>0, ServedNext
<1>2. /\ wire' = [wire EXCEPT ![r] = Append(@, frame[c])]
      /\ UNCHANGED said
  BY <1>1 DEF FinishDelivery, clients
<1>3. Listed(c, r) /\ r # c /\ Due(c, r)
  BY <1>0, <1>1, ServedNext DEF Lists, Due, Failed
<1>4. /\ frame[c] \in FromServer /\ IsMessage(frame[c])
      /\ frame[c].msg = message[c]
      /\ message[c] \in Messages /\ message[c].from = c
  BY <1>0 DEF Relaying, Lists
<1>5. Word(frame[c]) = [from |-> c, n |-> Taken(c)]
  <2>1. Taken(c) = message[c].n
    BY <1>4, TakenTyped
  <2>2. message[c] = [from |-> c, n |-> Taken(c)]
    BY <1>4, <2>1 DEF Messages
  <2> QED
    BY <1>4, <2>2 DEF Word
<1>6. Heard' = [Heard EXCEPT ![r] = Append(@, [from |-> c, n |-> Taken(c)])]
  BY <1>2, <1>4, <1>5, HeardMore
<1>7. Taken(c) \in 1 .. said[c]
  <2>1. Taken(c) \in Nat \ {0} /\ Taken(c) <= said[c] /\ said[c] \in Nat
    BY <1>4, TakenTyped DEF Messages, Lines, TypeOK
  <2> QED
    BY <2>1
<1>8. PICK N : N = NumbersIn(wire[r], c) /\ N = Promise!Numbers(r, c)
  BY NumbersHeard
<1>9. /\ \A k \in N : k <= Taken(c)
      /\ Taken(c) \notin N
      /\ N # {} => Taken(c) - 1 \in N
  BY <1>3, <1>8 DEF Gapless, GaplessFor
<1>10. \A k \in N : k < Taken(c)
  <2>1. N \subseteq Nat
    BY <1>8, NumbersAreNumbers
  <2> QED
    BY <1>7, <1>9, <2>1
<1>11. Promise!Hear(r, c, Taken(c))
  BY <1>2, <1>3, <1>6, <1>7, <1>8, <1>9, <1>10 DEF Promise!Hear
<1> QED
  BY <1>7, <1>11 DEF Promise!Next

\* ChatServer implements Relay: whatever its threads do, what a client hears
\* of another is a run of its messages, each once and in order.
THEOREM Refinement == Spec => ImplementsRelay
<1> DEFINE Inv == WellTyped /\ Lists /\ Lines /\ Gapless
<1>1. Init => Inv /\ Promise!Init
  BY TypeInit, NobodyHeard
<1>2. Inv /\ [Next]_vars => Inv'
  BY TypeStep, ListsStep, LinesStep, GaplessStep
<1>3. ASSUME Inv, [Next]_vars
      PROVE  [Promise!Next]_<<said, Heard>>
  <2> USE <1>3
  <2>1. ASSUME NEW c \in Conns, FinishDelivery(c)
        PROVE  Promise!Next
    BY <2>1, DeliveryIsHear
  <2>2. ASSUME NEW c \in Conns, Say(c)
        PROVE  Promise!Next
    <3>1. said' = [said EXCEPT ![c] = @ + 1] /\ wire' = wire
      BY <2>2 DEF Say
    <3>2. Heard' = Heard
      BY <3>1 DEF Heard
    <3> QED
      BY <3>1, <3>2 DEF Promise!Say, Promise!Next
  <2>3. ASSUME NEW c \in Conns, Talk(c) \/ FailDelivery(c) \/ StartDelivery(c)
        PROVE  [Promise!Next]_<<said, Heard>>
    <3>1. said' = said
      BY <2>3 DEF Talk, Greet, RefuseGreeting, Authenticate, RefuseProof,
        SetCompression, Register, TakeMessage, RefuseFrame, Crash, Hangup, Snapshot,
        DropRecipient, EndBroadcast, Unregister, CloseSocket, FailDelivery,
        StartDelivery, Receive, clients
    <3>2. CASE wire' = wire
      BY <3>1, <3>2 DEF Heard
    <3>3. ASSUME NEW f \in FromServer, ~ IsMessage(f),
                 wire' = [wire EXCEPT ![c] = Append(@, f)]
          PROVE  Promise!Next
      <4>1. Word(f) = [from |-> NoOne, n |-> 0]
        BY <3>3 DEF Word
      <4>2. Heard' = [Heard EXCEPT ![c] = Append(@, [from |-> NoOne, n |-> 0])]
        BY <3>3, <4>1, HeardMore
      <4> QED
        BY <3>1, <4>2 DEF Promise!Tell, Promise!Next
    <3>4. \/ wire' = wire
          \/ \E f \in FromServer :
               ~ IsMessage(f) /\ wire' = [wire EXCEPT ![c] = Append(@, f)]
      BY <2>3, TalkQuiet DEF FailDelivery, StartDelivery
    <3> QED
      BY <3>2, <3>3, <3>4
  <2>4. ASSUME NEW c \in Conns,
               SayHello(c) \/ SendProof(c) \/ SendWrong(c) \/ Leave(c)
        PROVE  UNCHANGED <<said, Heard>>
    BY <2>4 DEF SayHello, SendProof, SendWrong, Leave, Heard
  <2>5. CASE UNCHANGED vars
    BY <2>5 DEF vars, clients, Heard
  <2> QED
    BY <2>1, <2>2, <2>3, <2>4, <2>5 DEF Next, Thread, Talk, Client
<1> QED
  BY <1>1, <1>2, <1>3, PTL DEF Spec, ImplementsRelay, Promise!Spec
=============================================================================
