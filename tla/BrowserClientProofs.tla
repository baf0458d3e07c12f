------------------------ MODULE BrowserClientProofs ------------------------
(***************************************************************************)
(* Proofs about BrowserClient, for any number of calls of init, of sockets *)
(* and of messages: connections are neither lost nor multiplied, HELLO is  *)
(* first on each, no message is shown twice or out of order, and a page on *)
(* its first connection shows everything that arrives.                     *)
(***************************************************************************)
EXTENDS BrowserClient, FiniteSetTheorems, SequenceTheorems, TLAPS

-----------------------------------------------------------------------------
(***************************************************************************)
(* Frames                                                                  *)
(***************************************************************************)

FromServer ==
  {Ack(b) : b \in BOOLEAN} \cup {Error}
    \cup {Relayed(s, n) : s \in Nat, n \in Nat}

LEMMA FrameFacts ==
  /\ \A b \in BOOLEAN : /\ Ack(b) \in FromServer /\ ~ IsChat(Ack(b))
                        /\ Ack(b).type = "hello_ack"
                        /\ Ack(b).password_required = b
  /\ Error \in FromServer /\ ~ IsChat(Error)
  /\ \A s, n \in Nat : /\ Relayed(s, n) \in FromServer
                       /\ IsChat(Relayed(s, n))
                       /\ Relayed(s, n).on = s /\ Relayed(s, n).n = n
<1>1. ASSUME NEW b \in BOOLEAN
      PROVE  /\ Ack(b) \in FromServer /\ Ack(b).type = "hello_ack"
             /\ Ack(b).password_required = b
  <2>1. Ack(b) \in FromServer
    BY DEF FromServer
  <2> QED
    BY <2>1 DEF Ack
<1>2. ASSUME NEW s \in Nat, NEW n \in Nat
      PROVE  /\ Relayed(s, n) \in FromServer /\ Relayed(s, n).type = "chat"
             /\ Relayed(s, n).on = s /\ Relayed(s, n).n = n
  <2>1. Relayed(s, n) \in FromServer
    BY DEF FromServer
  <2> QED
    BY <2>1 DEF Relayed
<1>3. Error \in FromServer /\ Error.type = "error"
  BY DEF FromServer, Error
<1> QED
  BY <1>1, <1>2, <1>3 DEF IsChat

LEMMA ChatFacts ==
  ASSUME NEW f \in FromServer, IsChat(f)
  PROVE  f.on \in Nat /\ f.n \in Nat
<1>1. CASE \E b \in BOOLEAN : f = Ack(b)
  BY <1>1, FrameFacts
<1>2. CASE f = Error
  BY <1>2, FrameFacts
<1>3. CASE \E s, n \in Nat : f = Relayed(s, n)
  BY <1>3, FrameFacts
<1> QED
  BY <1>1, <1>2, <1>3 DEF FromServer

LEMMA AckFacts ==
  ASSUME NEW f \in FromServer, f.type = "hello_ack"
  PROVE  f.password_required \in BOOLEAN
<1>1. CASE \E b \in BOOLEAN : f = Ack(b)
  BY <1>1, FrameFacts
<1>2. CASE f = Error
  BY <1>2 DEF Error
<1>3. CASE \E s, n \in Nat : f = Relayed(s, n)
  BY <1>3 DEF Relayed
<1> QED
  BY <1>1, <1>2, <1>3 DEF FromServer

FromPage == {Hello, Chat}

LEMMA HelloIsNotChat == Hello # Chat
<1>1. Hello.type = "hello" /\ Chat.type = "chat"
  BY DEF Hello, Chat
<1> QED
  BY <1>1

-----------------------------------------------------------------------------
(***************************************************************************)
(* Sequences                                                               *)
(***************************************************************************)

\* One entry of a sequence is replaced.
LEMMA UpdateSeq ==
  ASSUME NEW S, NEW u \in Seq(S), NEW k \in 1 .. Len(u), NEW x \in S
  PROVE  LET v == [u EXCEPT ![k] = x]
         IN  /\ v \in Seq(S) /\ Len(v) = Len(u) /\ DOMAIN v = DOMAIN u
             /\ v[k] = x /\ \A i \in 1 .. Len(u) : i # k => v[i] = u[i]
  OBVIOUS

LEMMA TailFacts ==
  ASSUME NEW S, NEW u \in Seq(S), u # <<>>
  PROVE  /\ Head(u) \in S /\ Head(u) = u[1] /\ Tail(u) \in Seq(S)
         /\ Len(u) \in Nat /\ Len(u) >= 1 /\ Len(Tail(u)) = Len(u) - 1
         /\ \A i \in 1 .. Len(u) - 1 : Tail(u)[i] = u[i + 1]
  BY HeadTailProperties, EmptySeq

LEMMA ConcatAppend ==
  ASSUME NEW S, NEW u \in Seq(S), NEW v \in Seq(S), NEW x \in S
  PROVE  u \o Append(v, x) = Append(u \o v, x)
<1>1. /\ Append(v, x) \in Seq(S) /\ Len(Append(v, x)) = Len(v) + 1
      /\ Append(v, x)[Len(v) + 1] = x
      /\ \A i \in 1 .. Len(v) : Append(v, x)[i] = v[i]
      /\ Len(u) \in Nat /\ Len(v) \in Nat
  BY AppendProperties
<1>2. /\ u \o v \in Seq(S) /\ Len(u \o v) = Len(u) + Len(v)
      /\ \A i \in 1 .. Len(u \o v) :
           (u \o v)[i] = IF i <= Len(u) THEN u[i] ELSE v[i - Len(u)]
  BY ConcatProperties
<1> DEFINE w == u \o Append(v, x)
<1> DEFINE z == Append(u \o v, x)
<1>3. /\ w \in Seq(S) /\ Len(w) = Len(u) + (Len(v) + 1)
      /\ \A i \in 1 .. Len(w) :
           w[i] = IF i <= Len(u) THEN u[i] ELSE Append(v, x)[i - Len(u)]
  BY <1>1, ConcatProperties
<1>4. /\ z \in Seq(S) /\ Len(z) = Len(u \o v) + 1
      /\ z[Len(u \o v) + 1] = x
      /\ \A i \in 1 .. Len(u \o v) : z[i] = (u \o v)[i]
  BY <1>2, AppendProperties
<1> HIDE DEF w, z
<1>5. Len(w) = Len(z)
  BY <1>1, <1>2, <1>3, <1>4
<1>6. \A i \in 1 .. Len(w) : w[i] = z[i]
  <2> TAKE i \in 1 .. Len(w)
  <2>1. CASE i <= Len(u)
    <3>1. i \in 1 .. Len(u \o v)
      BY <2>1, <1>1, <1>2
    <3>2. w[i] = u[i]
      BY <2>1, <1>3
    <3>3. z[i] = u[i]
      BY <2>1, <3>1, <1>2, <1>4
    <3> QED
      BY <3>2, <3>3
  <2>2. CASE i > Len(u) /\ i < Len(w)
    <3>1. i - Len(u) \in 1 .. Len(v) /\ i \in 1 .. Len(u \o v)
      BY <2>2, <1>1, <1>2, <1>3
    <3>2. w[i] = Append(v, x)[i - Len(u)]
      BY <2>2, <1>1, <1>3
    <3>3. z[i] = v[i - Len(u)]
      BY <2>2, <3>1, <1>1, <1>2, <1>4
    <3> QED
      BY <3>1, <3>2, <3>3, <1>1
  <2>3. CASE i = Len(w)
    <3>1. i - Len(u) = Len(v) + 1 /\ i = Len(u \o v) + 1
      BY <2>3, <1>1, <1>2, <1>3
    <3>2. w[i] = Append(v, x)[i - Len(u)]
      BY <2>3, <1>1, <1>3
    <3>3. z[i] = x
      BY <3>1, <1>4
    <3> QED
      BY <3>1, <3>2, <3>3, <1>1
  <2>4. Len(w) \in Nat /\ Len(u) \in Nat
    BY <1>1, <1>3
  <2> QED
    BY <2>1, <2>2, <2>3, <2>4
<1> QED
  BY <1>3, <1>4, <1>5, <1>6, SeqEqual DEF w, z

\* v is u without some of its items.
Thinned(v, u) ==
  \E at \in [1 .. Len(v) -> 1 .. Len(u)] :
    /\ \A i, j \in 1 .. Len(v) : i < j => at[i] < at[j]
    /\ \A i \in 1 .. Len(v) : v[i] = u[at[i]]

LEMMA ThinnedSame ==
  ASSUME NEW S, NEW u \in Seq(S)
  PROVE  Thinned(u, u)
<1> DEFINE at == [i \in 1 .. Len(u) |-> i]
<1>1. at \in [1 .. Len(u) -> 1 .. Len(u)]
  OBVIOUS
<1>2. \A i \in 1 .. Len(u) : at[i] = i
  OBVIOUS
<1> HIDE DEF at
<1> QED
  BY <1>1, <1>2 DEF Thinned

LEMMA ThinnedLast ==
  ASSUME NEW S, NEW u \in Seq(S), NEW f \in S
  PROVE  Thinned(u, Append(u, f))
<1> DEFINE at == [i \in 1 .. Len(u) |-> i]
<1>0. /\ Len(u) \in Nat /\ Len(Append(u, f)) = Len(u) + 1
      /\ \A i \in 1 .. Len(u) : Append(u, f)[i] = u[i]
  BY AppendProperties
<1>1. at \in [1 .. Len(u) -> 1 .. Len(Append(u, f))]
  BY <1>0
<1>2. \A i \in 1 .. Len(u) : at[i] = i
  OBVIOUS
<1> HIDE DEF at
<1> QED
  BY <1>0, <1>1, <1>2 DEF Thinned

\* The first item of the second part is left out.
LEMMA ThinnedMiddle ==
  ASSUME NEW S, NEW u \in Seq(S), NEW v \in Seq(S), v # <<>>
  PROVE  Thinned(u \o Tail(v), u \o v)
<1> DEFINE w == u \o Tail(v)
<1> DEFINE at == [i \in 1 .. Len(w) |-> IF i <= Len(u) THEN i ELSE i + 1]
<1>0. /\ Len(u) \in Nat /\ Len(v) \in Nat /\ Tail(v) \in Seq(S)
      /\ Len(Tail(v)) = Len(v) - 1
      /\ \A i \in 1 .. Len(v) - 1 : Tail(v)[i] = v[i + 1]
  BY TailFacts
<1>1. /\ Len(w) = Len(u) + (Len(v) - 1) /\ Len(u \o v) = Len(u) + Len(v)
      /\ \A i \in 1 .. Len(w) :
           w[i] = IF i <= Len(u) THEN u[i] ELSE Tail(v)[i - Len(u)]
      /\ \A i \in 1 .. Len(u \o v) :
           (u \o v)[i] = IF i <= Len(u) THEN u[i] ELSE v[i - Len(u)]
  BY <1>0, ConcatProperties
<1>2. at \in [1 .. Len(w) -> 1 .. Len(u \o v)]
  BY <1>0, <1>1
<1>3. \A i \in 1 .. Len(w) : at[i] = IF i <= Len(u) THEN i ELSE i + 1
  OBVIOUS
<1> HIDE DEF at, w
<1>4. \A i \in 1 .. Len(w) : w[i] = (u \o v)[at[i]]
  <2> TAKE i \in 1 .. Len(w)
  <2>1. CASE i <= Len(u)
    BY <2>1, <1>0, <1>1, <1>3
  <2>2. CASE ~ (i <= Len(u))
    <3>1. at[i] = i + 1 /\ i - Len(u) \in 1 .. Len(v) - 1
      BY <2>2, <1>0, <1>1, <1>3
    <3>2. w[i] = v[(i - Len(u)) + 1]
      BY <2>2, <3>1, <1>0, <1>1
    <3>3. (u \o v)[at[i]] = v[(i + 1) - Len(u)]
      BY <2>2, <3>1, <1>0, <1>1
    <3> QED
      BY <3>2, <3>3, <1>0
  <2> QED
    BY <2>1, <2>2
<1>5. \A i, j \in 1 .. Len(w) : i < j => at[i] < at[j]
  BY <1>0, <1>1, <1>3
<1> QED
  BY <1>2, <1>4, <1>5 DEF Thinned, w

LEMMA ThinnedInOrder ==
  ASSUME NEW u \in Seq(FromServer), NEW v \in Seq(FromServer), Thinned(v, u), InOrder(u)
  PROVE  InOrder(v)
  BY DEF Thinned, InOrder

LEMMA ThinnedMembers ==
  ASSUME NEW u \in Seq(FromServer), NEW v \in Seq(FromServer), Thinned(v, u),
         NEW i \in 1 .. Len(v)
  PROVE  \E k \in 1 .. Len(u) : v[i] = u[k]
  BY DEF Thinned

-----------------------------------------------------------------------------
(***************************************************************************)
(* The page                                                                *)
(***************************************************************************)

Loops == {"handshake", "receiveLoop"}

Pages ==
  [state : {"connecting", "authenticating", "ready", "error", "disconnected"},
   needsPassword : BOOLEAN, authenticated : BOOLEAN,
   inbox : Seq(FromServer), waiters : Seq(Loops), taken : Seq(FromServer),
   said : 0 .. MaxSent]

\* Nothing waits in the inbox while a loop waits for it.
Calm(p) == p \in Pages /\ (p.waiters = <<>> \/ p.inbox = <<>>)

\* What has reached the page, or will as soon as a loop asks for it.
Arrived(p) == p.taken \o p.inbox

LEMMA PageFacts ==
  ASSUME NEW p \in Pages
  PROVE  /\ p.state \in {"connecting", "authenticating", "ready", "error", "disconnected"}
         /\ p.needsPassword \in BOOLEAN /\ p.authenticated \in BOOLEAN
         /\ p.inbox \in Seq(FromServer) /\ p.waiters \in Seq(Loops)
         /\ p.taken \in Seq(FromServer) /\ p.said \in 0 .. MaxSent
         /\ Arrived(p) \in Seq(FromServer)
<1>1. p.inbox \in Seq(FromServer) /\ p.taken \in Seq(FromServer)
  BY DEF Pages
<1>2. Arrived(p) \in Seq(FromServer)
  BY <1>1, ConcatProperties DEF Arrived
<1> QED
  BY <1>2 DEF Pages

\* receiveLoop moves what has arrived, and loses none of it.
LEMMA ReceiveLoopFacts ==
  ASSUME NEW p, Calm(p)
  PROVE  LET q == ReceiveLoop(p)
         IN  Calm(q) /\ Arrived(q) = Arrived(p)
<1>0. p \in Pages /\ p.inbox \in Seq(FromServer) /\ p.taken \in Seq(FromServer)
        /\ p.waiters \in Seq(Loops) /\ p.taken \o p.inbox \in Seq(FromServer)
  BY PageFacts DEF Calm, Arrived
<1>1. CASE p.state # "ready"
  BY <1>1 DEF ReceiveLoop
<1>2. CASE p.state = "ready"
  <2>1. PICK q : q = [p EXCEPT !.taken = p.taken \o p.inbox, !.inbox = <<>>,
                               !.waiters = Append(p.waiters, "receiveLoop")]
    OBVIOUS
  <2>2. ReceiveLoop(p) = q
    BY <1>2, <2>1 DEF ReceiveLoop
  <2>3. Append(p.waiters, "receiveLoop") \in Seq(Loops) /\ <<>> \in Seq(FromServer)
    BY <1>0, AppendProperties, EmptySeq DEF Loops
  <2>4. q \in Pages /\ q.inbox = <<>> /\ q.taken = p.taken \o p.inbox
    BY <1>0, <2>1, <2>3 DEF Pages
  <2>5. q.taken \o q.inbox = p.taken \o p.inbox
    BY <1>0, <2>4, ConcatProperties, SeqEqual, EmptySeq
  <2> QED
    BY <2>2, <2>4, <2>5 DEF Calm, Arrived
<1> QED
  BY <1>1, <1>2

LEMMA GreetedFacts ==
  ASSUME NEW p, Calm(p), NEW f \in FromServer
  PROVE  LET q == Greeted(p, f)
         IN  Calm(q) /\ Arrived(q) = Arrived(p)
<1>0. p \in Pages
  BY DEF Calm
<1>1. CASE f.type # "hello_ack"
  <2>1. PICK q : q = [p EXCEPT !.state = "error"]
    OBVIOUS
  <2>2. q \in Pages /\ q.inbox = p.inbox /\ q.taken = p.taken /\ q.waiters = p.waiters
    BY <1>0, <2>1 DEF Pages
  <2> QED
    BY <1>1, <2>1, <2>2 DEF Greeted, Calm, Arrived
<1>2. CASE f.type = "hello_ack" /\ f.password_required
  <2>1. PICK q : q = [p EXCEPT !.needsPassword = TRUE, !.state = "authenticating"]
    OBVIOUS
  <2>2. q \in Pages /\ q.inbox = p.inbox /\ q.taken = p.taken /\ q.waiters = p.waiters
    BY <1>0, <2>1 DEF Pages
  <2> QED
    BY <1>2, <2>1, <2>2 DEF Greeted, Calm, Arrived
<1>3. CASE f.type = "hello_ack" /\ ~ f.password_required
  <2>1. PICK q : q = [p EXCEPT !.state = "ready"]
    OBVIOUS
  <2>2. q \in Pages /\ q.inbox = p.inbox /\ q.taken = p.taken /\ q.waiters = p.waiters
    BY <1>0, <2>1 DEF Pages
  <2>3. Calm(q) /\ Arrived(q) = Arrived(p)
    BY <2>2 DEF Calm, Arrived
  <2>4. Greeted(p, f) = ReceiveLoop(q)
    BY <1>3, <2>1 DEF Greeted
  <2> QED
    BY <2>3, <2>4, ReceiveLoopFacts
<1> QED
  BY <1>1, <1>2, <1>3, AckFacts

\* handshake may take a frame out of the inbox.
LEMMA AwaitAckFacts ==
  ASSUME NEW p, Calm(p)
  PROVE  LET q == AwaitAck(p)
         IN  Calm(q) /\ Thinned(Arrived(q), Arrived(p))
<1>0. p \in Pages /\ p.inbox \in Seq(FromServer) /\ p.taken \in Seq(FromServer)
        /\ p.waiters \in Seq(Loops) /\ Arrived(p) \in Seq(FromServer)
  BY PageFacts DEF Calm
<1>1. CASE p.inbox # <<>>
  <2>1. PICK q : q = [p EXCEPT !.inbox = Tail(p.inbox)]
    OBVIOUS
  <2>2. Tail(p.inbox) \in Seq(FromServer) /\ Head(p.inbox) \in FromServer
    BY <1>0, <1>1, TailFacts
  <2>3. q \in Pages /\ q.inbox = Tail(p.inbox) /\ q.taken = p.taken
          /\ q.waiters = p.waiters
    BY <1>0, <2>1, <2>2 DEF Pages
  <2>4. Calm(q) /\ Thinned(Arrived(q), Arrived(p))
    BY <1>0, <1>1, <2>3, ThinnedMiddle DEF Calm, Arrived
  <2>5. AwaitAck(p) = Greeted(q, Head(p.inbox))
    BY <1>1, <2>1 DEF AwaitAck
  <2>6. Arrived(AwaitAck(p)) = Arrived(q) /\ Calm(AwaitAck(p))
    BY <2>2, <2>4, <2>5, GreetedFacts
  <2> QED
    BY <2>4, <2>6
<1>2. CASE p.inbox = <<>>
  <2>1. PICK q : q = [p EXCEPT !.waiters = Append(p.waiters, "handshake")]
    OBVIOUS
  <2>2. Append(p.waiters, "handshake") \in Seq(Loops)
    BY <1>0, AppendProperties DEF Loops
  <2>3. q \in Pages /\ q.inbox = p.inbox /\ q.taken = p.taken
    BY <1>0, <2>1, <2>2 DEF Pages
  <2>4. Calm(q) /\ Arrived(q) = Arrived(p)
    BY <1>2, <2>3 DEF Calm, Arrived
  <2>5. AwaitAck(p) = q
    BY <1>2, <2>1 DEF AwaitAck
  <2> QED
    BY <1>0, <2>4, <2>5, ThinnedSame
<1> QED
  BY <1>1, <1>2

\* A frame joins what has arrived, or handshake takes it.
LEMMA OnFrameFacts ==
  ASSUME NEW p, Calm(p), NEW f \in FromServer
  PROVE  LET q == OnFrame(p, f)
         IN  Calm(q) /\ Thinned(Arrived(q), Append(Arrived(p), f))
<1>0. p \in Pages /\ p.inbox \in Seq(FromServer) /\ p.taken \in Seq(FromServer)
        /\ p.waiters \in Seq(Loops) /\ Arrived(p) \in Seq(FromServer)
        /\ Append(Arrived(p), f) \in Seq(FromServer)
  BY PageFacts, AppendProperties DEF Calm
<1>1. CASE p.waiters = <<>>
  <2>1. PICK q : q = [p EXCEPT !.inbox = Append(p.inbox, f)]
    OBVIOUS
  <2>2. Append(p.inbox, f) \in Seq(FromServer)
    BY <1>0, AppendProperties
  <2>3. q \in Pages /\ q.inbox = Append(p.inbox, f) /\ q.taken = p.taken
          /\ q.waiters = <<>>
    BY <1>0, <1>1, <2>1, <2>2 DEF Pages
  <2>4. q.taken \o q.inbox = Append(p.taken \o p.inbox, f)
    <3>1. \A u, v \in Seq(FromServer) : u \o Append(v, f) = Append(u \o v, f)
      BY ConcatAppend
    <3>2. p.inbox \in Seq(FromServer) /\ p.taken \in Seq(FromServer)
      BY <1>0
    <3>3. p.taken \o Append(p.inbox, f) = Append(p.taken \o p.inbox, f)
      BY <3>1, <3>2, Zenon
    <3> QED
      BY <2>3, <3>3
  <2>5. Calm(q) /\ Arrived(q) = Append(Arrived(p), f)
    BY <2>3, <2>4 DEF Calm, Arrived
  <2>6. OnFrame(p, f) = q
    BY <1>1, <2>1 DEF OnFrame
  <2> QED
    BY <1>0, <2>5, <2>6, ThinnedSame
<1>2. CASE p.waiters # <<>>
  <2>1. PICK q : q = [p EXCEPT !.waiters = Tail(p.waiters)]
    OBVIOUS
  <2>2. Tail(p.waiters) \in Seq(Loops) /\ p.inbox = <<>>
    BY <1>0, <1>2, TailFacts DEF Calm
  <2>3. q \in Pages /\ q.inbox = <<>> /\ q.taken = p.taken
    BY <1>0, <2>1, <2>2 DEF Pages
  <2>4. Calm(q) /\ Arrived(q) = Arrived(p)
    BY <2>2, <2>3 DEF Calm, Arrived
  <2>5. CASE Head(p.waiters) = "handshake"
    <3>1. OnFrame(p, f) = Greeted(q, f)
      BY <1>2, <2>1, <2>5 DEF OnFrame
    <3>2. Calm(OnFrame(p, f)) /\ Arrived(OnFrame(p, f)) = Arrived(p)
      BY <2>4, <3>1, GreetedFacts
    <3> QED
      BY <1>0, <3>2, ThinnedLast
  <2>6. CASE Head(p.waiters) # "handshake"
    <3>1. PICK z : z = [q EXCEPT !.taken = Append(q.taken, f)]
      OBVIOUS
    <3>2. OnFrame(p, f) = ReceiveLoop(z)
      BY <1>2, <2>1, <2>6, <3>1 DEF OnFrame
    <3>3. Append(p.taken, f) \in Seq(FromServer)
      BY <1>0, AppendProperties
    <3>4. z \in Pages /\ z.inbox = <<>> /\ z.taken = Append(p.taken, f)
      BY <2>3, <3>1, <3>3 DEF Pages
    <3>5. z.taken \o z.inbox = Append(p.taken \o p.inbox, f)
      BY <1>0, <2>2, <3>4, <3>3, AppendProperties, ConcatProperties,
         SeqEqual, EmptySeq DEF Arrived
    <3>6. Calm(z) /\ Arrived(z) = Append(Arrived(p), f)
      BY <3>4, <3>5 DEF Calm, Arrived
    <3>7. Calm(OnFrame(p, f)) /\ Arrived(OnFrame(p, f)) = Append(Arrived(p), f)
      BY <3>2, <3>6, ReceiveLoopFacts
    <3> QED
      BY <1>0, <3>7, ThinnedSame
  <2> QED
    BY <2>5, <2>6
<1> QED
  BY <1>1, <1>2

-----------------------------------------------------------------------------
(***************************************************************************)
(* Types                                                                   *)
(***************************************************************************)

Phases == {"connecting", "open", "closed"}

Types ==
  /\ protected \in BOOLEAN /\ chains \in Nat /\ inits \in Nat /\ timers \in Nat
  /\ Calm(page)
  /\ phase \in Seq(Phases)
  /\ toPage \in Seq(Seq(FromServer)) /\ Len(toPage) = Len(phase)
  /\ toServer \in Seq(Seq(FromPage)) /\ Len(toServer) = Len(phase)
  /\ served \in Seq(Nat) /\ Len(served) = Len(phase)
  /\ relayed \in Seq(0 .. MaxRelayed) /\ Len(relayed) = Len(phase)
  /\ \A s \in 1 .. Len(phase) : served[s] <= Len(toServer[s])

LEMMA SocketFacts ==
  ASSUME Types
  PROVE  /\ Len(phase) \in Nat /\ Sockets = 1 .. Len(phase)
         /\ \A s \in Sockets :
              /\ s \in Nat /\ s >= 1 /\ s <= Len(phase)
              /\ phase[s] \in Phases
              /\ toPage[s] \in Seq(FromServer)
              /\ toServer[s] \in Seq(FromPage)
              /\ served[s] \in Nat
              /\ relayed[s] \in 0 .. MaxRelayed
              /\ Len(toPage[s]) \in Nat /\ Len(toServer[s]) \in Nat
              /\ served[s] <= Len(toServer[s])
<1>1. Len(phase) \in Nat /\ Sockets = 1 .. Len(phase)
  BY DEF Types, Sockets
<1>2. ASSUME NEW s \in Sockets
      PROVE  /\ s \in Nat /\ s >= 1 /\ s <= Len(phase)
             /\ phase[s] \in Phases /\ served[s] \in Nat
             /\ relayed[s] \in 0 .. MaxRelayed
             /\ toPage[s] \in Seq(FromServer) /\ toServer[s] \in Seq(FromPage)
             /\ served[s] <= Len(toServer[s])
  <2>1. s \in 1 .. Len(phase) /\ s \in Nat /\ s >= 1 /\ s <= Len(phase)
    BY <1>1
  <2>2. phase[s] \in Phases /\ served[s] \in Nat /\ relayed[s] \in 0 .. MaxRelayed
    BY <2>1, ElementOfSeq DEF Types
  <2>3. toPage[s] \in Seq(FromServer) /\ toServer[s] \in Seq(FromPage)
    BY <2>1, ElementOfSeq DEF Types
  <2> QED
    BY <2>1, <2>2, <2>3 DEF Types
<1>3. \A s \in Sockets : Len(toPage[s]) \in Nat /\ Len(toServer[s]) \in Nat
  BY <1>2
<1> QED
  BY <1>1, <1>2, <1>3

\* What the fields of the page are that only receiving frames changes.
SamePage ==
  /\ Calm(page')
  /\ page'.taken = page.taken /\ page'.inbox = page.inbox
  /\ page'.waiters = page.waiters

\* What a new socket changes.
Appended ==
  /\ phase' = Append(phase, "connecting")
  /\ toPage' = Append(toPage, <<>>)
  /\ toServer' = Append(toServer, <<>>)
  /\ served' = Append(served, 0)
  /\ relayed' = Append(relayed, 0)
  /\ UNCHANGED <<protected, chains>>

LEMMA ConnectPage ==
  ASSUME Types, Connect
  PROVE  SamePage /\ Appended /\ page' = [page EXCEPT !.state = "connecting"]
<1>1. page' = [page EXCEPT !.state = "connecting"] /\ Appended
  BY DEF Connect, Appended
<1>2. page \in Pages
  BY DEF Types, Calm
<1>3. /\ page' \in Pages /\ page'.taken = page.taken /\ page'.inbox = page.inbox
      /\ page'.waiters = page.waiters
  BY <1>1, <1>2 DEF Pages
<1> QED
  BY <1>1, <1>3 DEF SamePage, Types, Calm

\* What Append does to the sequences with an entry per socket.
LEMMA AppendedFacts ==
  ASSUME Types, Appended
  PROVE  /\ phase' \in Seq(Phases) /\ Len(phase') = Len(phase) + 1
         /\ toPage' \in Seq(Seq(FromServer)) /\ Len(toPage') = Len(phase')
         /\ toServer' \in Seq(Seq(FromPage)) /\ Len(toServer') = Len(phase')
         /\ served' \in Seq(Nat) /\ Len(served') = Len(phase')
         /\ relayed' \in Seq(0 .. MaxRelayed) /\ Len(relayed') = Len(phase')
         /\ \A s \in 1 .. Len(phase) :
              /\ phase'[s] = phase[s] /\ toPage'[s] = toPage[s]
              /\ toServer'[s] = toServer[s] /\ served'[s] = served[s]
              /\ relayed'[s] = relayed[s]
         /\ phase'[Len(phase')] = "connecting"
         /\ toPage'[Len(phase')] = <<>> /\ toServer'[Len(phase')] = <<>>
         /\ served'[Len(phase')] = 0 /\ relayed'[Len(phase')] = 0
         /\ Sockets' = 1 .. Len(phase) + 1
<1>1. /\ <<>> \in Seq(FromServer) /\ <<>> \in Seq(FromPage)
      /\ 0 \in Nat /\ 0 \in 0 .. MaxRelayed /\ "connecting" \in Phases
  BY BrowserClientAssumption DEF Phases
<1>2. /\ phase' \in Seq(Phases) /\ Len(phase') = Len(phase) + 1
      /\ \A s \in 1 .. Len(phase) : phase'[s] = phase[s]
      /\ phase'[Len(phase) + 1] = "connecting"
  BY <1>1, AppendProperties DEF Types, Appended
<1>3. /\ toPage' \in Seq(Seq(FromServer)) /\ Len(toPage') = Len(phase) + 1
      /\ \A s \in 1 .. Len(phase) : toPage'[s] = toPage[s]
      /\ toPage'[Len(phase) + 1] = <<>>
  BY <1>1, AppendProperties DEF Types, Appended
<1>4. /\ toServer' \in Seq(Seq(FromPage)) /\ Len(toServer') = Len(phase) + 1
      /\ \A s \in 1 .. Len(phase) : toServer'[s] = toServer[s]
      /\ toServer'[Len(phase) + 1] = <<>>
  BY <1>1, AppendProperties DEF Types, Appended
<1>5. /\ served' \in Seq(Nat) /\ Len(served') = Len(phase) + 1
      /\ \A s \in 1 .. Len(phase) : served'[s] = served[s]
      /\ served'[Len(phase) + 1] = 0
  BY <1>1, AppendProperties DEF Types, Appended
<1>6. /\ relayed' \in Seq(0 .. MaxRelayed) /\ Len(relayed') = Len(phase) + 1
      /\ \A s \in 1 .. Len(phase) : relayed'[s] = relayed[s]
      /\ relayed'[Len(phase) + 1] = 0
  BY <1>1, AppendProperties DEF Types, Appended
<1>7. Sockets' = 1 .. Len(phase) + 1
  BY <1>2 DEF Sockets
<1> QED
  BY <1>2, <1>3, <1>4, <1>5, <1>6, <1>7

\* A frame is put behind what this.ws has sent, or dropped.
LEMMA SendFrameFacts ==
  ASSUME Types, NEW f \in FromPage, NEW states, SendFrame(f, states)
  PROVE  /\ toServer' \in Seq(Seq(FromPage)) /\ Len(toServer') = Len(phase)
         /\ \A s \in Sockets :
              IF s = Current /\ states[Current] = "open"
              THEN toServer'[s] = Append(toServer[s], f)
              ELSE toServer'[s] = toServer[s]
         /\ \A s \in Sockets : Len(toServer'[s]) >= Len(toServer[s])
<1>0. /\ Len(phase) \in Nat /\ toServer \in Seq(Seq(FromPage))
      /\ Len(toServer) = Len(phase)
      /\ Sockets = 1 .. Len(phase) /\ Current = Len(phase)
      /\ \A s \in Sockets : toServer[s] \in Seq(FromPage) /\ Len(toServer[s]) \in Nat
  BY SocketFacts DEF Types, Current
<1>1. CASE states[Current] = "open" /\ Current \in Sockets
  <2>1. PICK x : x = Append(toServer[Current], f)
    OBVIOUS
  <2>2. x \in Seq(FromPage) /\ Len(x) = Len(toServer[Current]) + 1
    BY <1>0, <1>1, <2>1, AppendProperties
  <2>3. toServer' = [toServer EXCEPT ![Current] = x]
    BY <1>1, <2>1 DEF SendFrame
  <2>4. /\ toServer' \in Seq(Seq(FromPage)) /\ Len(toServer') = Len(toServer)
        /\ toServer'[Current] = x
        /\ \A s \in 1 .. Len(toServer) : s # Current => toServer'[s] = toServer[s]
    BY <1>0, <1>1, <2>2, <2>3, UpdateSeq
  <2>5. \A s \in Sockets : s # Current => toServer'[s] = toServer[s]
    BY <1>0, <2>4
  <2>6. /\ toServer'[Current] = Append(toServer[Current], f)
        /\ Len(toServer'[Current]) >= Len(toServer[Current])
    BY <1>0, <1>1, <2>1, <2>2, <2>4
  <2>7. \A s \in Sockets : Len(toServer'[s]) >= Len(toServer[s])
    BY <1>0, <2>5, <2>6
  <2> QED
    BY <1>0, <1>1, <2>4, <2>5, <2>6, <2>7
<1>2. CASE Current \notin Sockets
  <2>1. toServer = <<>> /\ Sockets = {}
    BY <1>0, <1>2, EmptySeq
  <2>2. toServer' = <<>>
    BY <2>1 DEF SendFrame
  <2> QED
    BY <1>0, <2>1, <2>2
<1>3. CASE states[Current] # "open"
  BY <1>0, <1>3 DEF SendFrame
<1> QED
  BY <1>1, <1>2, <1>3

\* What a step of a socket changes besides the page.
LEMMA OpensEffect ==
  ASSUME Types, NEW s \in Sockets, Opens(s)
  PROVE  /\ phase[s] = "connecting"
         /\ phase' \in Seq(Phases) /\ Len(phase') = Len(phase)
         /\ phase'[s] = "open" /\ \A o \in Sockets : o # s => phase'[o] = phase[o]
         /\ Sockets' = Sockets
         /\ toServer' \in Seq(Seq(FromPage)) /\ Len(toServer') = Len(phase)
         /\ \A o \in Sockets :
              IF o = Current /\ phase'[Current] = "open"
              THEN toServer'[o] = Append(toServer[o], Hello)
              ELSE toServer'[o] = toServer[o]
         /\ \A o \in Sockets : Len(toServer'[o]) >= Len(toServer[o])
         /\ page' = AwaitAck(page)
         /\ Calm(page') /\ Thinned(Arrived(page'), Arrived(page))
         /\ UNCHANGED <<protected, chains, inits, timers, toPage, served, relayed>>
<1>1. phase \in Seq(Phases) /\ s \in 1 .. Len(phase) /\ "open" \in Phases /\ Calm(page)
  BY SocketFacts DEF Types, Phases
<1>2. /\ phase[s] = "connecting" /\ phase' = [phase EXCEPT ![s] = "open"]
      /\ SendFrame(Hello, phase') /\ page' = AwaitAck(page)
      /\ UNCHANGED <<protected, chains, inits, timers, toPage, served, relayed>>
  BY DEF Opens, server
<1>3. /\ phase' \in Seq(Phases) /\ Len(phase') = Len(phase)
      /\ phase'[s] = "open" /\ \A o \in 1 .. Len(phase) : o # s => phase'[o] = phase[o]
      /\ DOMAIN phase' = DOMAIN phase
  BY <1>1, <1>2, UpdateSeq
<1>4. Hello \in FromPage
  BY DEF FromPage
<1>5. /\ toServer' \in Seq(Seq(FromPage)) /\ Len(toServer') = Len(phase)
      /\ \A o \in Sockets :
           IF o = Current /\ phase'[Current] = "open"
           THEN toServer'[o] = Append(toServer[o], Hello)
           ELSE toServer'[o] = toServer[o]
      /\ \A o \in Sockets : Len(toServer'[o]) >= Len(toServer[o])
  BY <1>2, <1>4, SendFrameFacts
<1>6. Calm(page') /\ Thinned(Arrived(page'), Arrived(page))
  BY <1>1, <1>2, AwaitAckFacts
<1>7. Sockets' = Sockets
  BY <1>3 DEF Sockets
<1>8. \A o \in Sockets : o # s => phase'[o] = phase[o]
  BY <1>3, SocketFacts
<1> QED
  BY <1>2, <1>3, <1>5, <1>6, <1>7, <1>8

LEMMA MessageEffect ==
  ASSUME Types, NEW s \in Sockets, Message(s)
  PROVE  /\ phase[s] = "open" /\ toPage[s] # <<>> /\ Head(toPage[s]) \in FromServer
         /\ toPage' \in Seq(Seq(FromServer)) /\ Len(toPage') = Len(phase)
         /\ toPage'[s] = Tail(toPage[s])
         /\ \A o \in Sockets : o # s => toPage'[o] = toPage[o]
         /\ page' = OnFrame(page, Head(toPage[s]))
         /\ Calm(page')
         /\ Thinned(Arrived(page'), Append(Arrived(page), Head(toPage[s])))
         /\ UNCHANGED <<protected, chains, inits, phase, timers, toServer, served,
                        relayed>>
<1>1. /\ s \in 1 .. Len(toPage) /\ toPage \in Seq(Seq(FromServer))
      /\ toPage[s] \in Seq(FromServer) /\ Calm(page) /\ Sockets = 1 .. Len(toPage)
      /\ Len(toPage) = Len(phase)
  BY SocketFacts DEF Types
<1>2. /\ phase[s] = "open" /\ toPage[s] # <<>>
      /\ page' = OnFrame(page, Head(toPage[s]))
      /\ toPage' = [toPage EXCEPT ![s] = Tail(toPage[s])]
      /\ UNCHANGED <<protected, chains, inits, phase, timers, toServer, served,
                     relayed>>
  BY DEF Message, server
<1>3. Head(toPage[s]) \in FromServer /\ Tail(toPage[s]) \in Seq(FromServer)
  BY <1>1, <1>2, TailFacts
<1>4. /\ toPage' \in Seq(Seq(FromServer)) /\ Len(toPage') = Len(toPage)
      /\ toPage'[s] = Tail(toPage[s])
      /\ \A o \in 1 .. Len(toPage) : o # s => toPage'[o] = toPage[o]
  BY <1>1, <1>2, <1>3, UpdateSeq
<1>5. /\ Calm(page')
      /\ Thinned(Arrived(page'), Append(Arrived(page), Head(toPage[s])))
  BY <1>1, <1>2, <1>3, OnFrameFacts
<1> QED
  BY <1>1, <1>2, <1>3, <1>4, <1>5

LEMMA ClosesEffect ==
  ASSUME Types, NEW s \in Sockets, NEW failed \in BOOLEAN, Closes(s, failed)
  PROVE  /\ phase[s] # "closed"
         /\ phase' \in Seq(Phases) /\ Len(phase') = Len(phase) /\ Sockets' = Sockets
         /\ phase'[s] = "closed" /\ \A o \in Sockets : o # s => phase'[o] = phase[o]
         /\ SamePage /\ timers' = timers + 1
         /\ toPage' \in Seq(Seq(FromServer)) /\ Len(toPage') = Len(phase)
         /\ toPage'[s] = <<>> /\ \A o \in Sockets : o # s => toPage'[o] = toPage[o]
         /\ UNCHANGED <<protected, chains, inits, toServer, served, relayed>>
<1>1. /\ phase \in Seq(Phases) /\ s \in 1 .. Len(phase) /\ "closed" \in Phases
      /\ Calm(page) /\ page \in Pages /\ Sockets = 1 .. Len(phase)
      /\ toPage \in Seq(Seq(FromServer)) /\ Len(toPage) = Len(phase)
      /\ <<>> \in Seq(FromServer)
  BY SocketFacts DEF Types, Phases, Calm
<1>2. /\ phase[s] # "closed" /\ phase' = [phase EXCEPT ![s] = "closed"]
      /\ page' = [page EXCEPT !.state = IF failed \/ page.state = "error"
                                        THEN "error" ELSE "disconnected"]
      /\ timers' = timers + 1
      /\ toPage' = [toPage EXCEPT ![s] = <<>>]
      /\ UNCHANGED <<protected, chains, inits, toServer, served, relayed>>
  BY DEF Closes, server
<1>3. /\ phase' \in Seq(Phases) /\ Len(phase') = Len(phase)
      /\ phase'[s] = "closed" /\ \A o \in 1 .. Len(phase) : o # s => phase'[o] = phase[o]
      /\ DOMAIN phase' = DOMAIN phase
  BY <1>1, <1>2, UpdateSeq
<1>4. /\ toPage' \in Seq(Seq(FromServer)) /\ Len(toPage') = Len(toPage)
      /\ toPage'[s] = <<>>
      /\ \A o \in 1 .. Len(toPage) : o # s => toPage'[o] = toPage[o]
  BY <1>1, <1>2, UpdateSeq
<1>5. /\ page' \in Pages /\ page'.taken = page.taken /\ page'.inbox = page.inbox
      /\ page'.waiters = page.waiters
  BY <1>1, <1>2 DEF Pages
<1>6. SamePage
  BY <1>1, <1>5 DEF SamePage, Calm
<1>7. Sockets' = Sockets
  BY <1>3 DEF Sockets
<1> QED
  BY <1>1, <1>2, <1>3, <1>4, <1>6, <1>7

LEMMA SendEffect ==
  ASSUME Types, Send
  PROVE  /\ page.state = "ready" /\ SamePage
         /\ page' = [page EXCEPT !.said = page.said + 1]
         /\ toServer' \in Seq(Seq(FromPage)) /\ Len(toServer') = Len(phase)
         /\ \A s \in Sockets :
              IF s = Current /\ phase[Current] = "open"
              THEN toServer'[s] = Append(toServer[s], Chat)
              ELSE toServer'[s] = toServer[s]
         /\ \A s \in Sockets : Len(toServer'[s]) >= Len(toServer[s])
         /\ UNCHANGED <<protected, chains, inits, phase, timers, toPage, served,
                        relayed>>
<1>1. /\ page.state = "ready" /\ page.said < MaxSent /\ SendFrame(Chat, phase)
      /\ page' = [page EXCEPT !.said = page.said + 1]
      /\ UNCHANGED <<protected, chains, inits, phase, timers, toPage, served,
                     relayed>>
  BY DEF Send, server
<1>2. Chat \in FromPage /\ page \in Pages /\ Calm(page)
  BY DEF FromPage, Types, Calm
<1>3. page.said + 1 \in 0 .. MaxSent
  BY <1>1, <1>2, BrowserClientAssumption DEF Pages
<1>4. /\ page' \in Pages /\ page'.taken = page.taken /\ page'.inbox = page.inbox
      /\ page'.waiters = page.waiters
  BY <1>1, <1>2, <1>3 DEF Pages
<1>5. SamePage
  BY <1>2, <1>4 DEF SamePage, Calm
<1>6. /\ toServer' \in Seq(Seq(FromPage)) /\ Len(toServer') = Len(phase)
      /\ \A s \in Sockets :
           IF s = Current /\ phase[Current] = "open"
           THEN toServer'[s] = Append(toServer[s], Chat)
           ELSE toServer'[s] = toServer[s]
      /\ \A s \in Sockets : Len(toServer'[s]) >= Len(toServer[s])
  BY <1>1, <1>2, SendFrameFacts
<1> QED
  BY <1>1, <1>5, <1>6

LEMMA AuthenticateEffect ==
  ASSUME Types, Authenticate
  PROVE  /\ page.needsPassword /\ SamePage
         /\ UNCHANGED <<protected, chains, inits, phase, timers, toPage, toServer,
                        served, relayed>>
<1>1. /\ page.needsPassword
      /\ page' = [page EXCEPT !.state = "error", !.authenticated = FALSE]
      /\ UNCHANGED <<protected, chains, inits, phase, timers, toPage, toServer,
                     served, relayed>>
  BY DEF Authenticate, server
<1>2. page \in Pages /\ Calm(page)
  BY DEF Types, Calm
<1>3. /\ page' \in Pages /\ page'.taken = page.taken /\ page'.inbox = page.inbox
      /\ page'.waiters = page.waiters
  BY <1>1, <1>2 DEF Pages
<1>4. SamePage
  BY <1>2, <1>3 DEF SamePage, Calm
<1> QED
  BY <1>1, <1>4

LEMMA AnswerEffect ==
  ASSUME Types, NEW s \in Sockets, Answer(s)
  PROVE  /\ phase[s] = "open" /\ served[s] < Len(toServer[s])
         /\ served' \in Seq(Nat) /\ Len(served') = Len(phase)
         /\ served'[s] = served[s] + 1
         /\ \A o \in Sockets : o # s => served'[o] = served[o]
         /\ toPage' \in Seq(Seq(FromServer)) /\ Len(toPage') = Len(phase)
         /\ IF toServer[s][served[s] + 1] # Hello THEN toPage' = toPage
            ELSE toPage'[s] = Append(toPage[s], IF served[s] = 0 THEN Ack(protected)
                                                ELSE Error)
         /\ \A o \in Sockets : o # s => toPage'[o] = toPage[o]
         /\ UNCHANGED <<protected, chains, inits, page, phase, timers, toServer,
                        relayed>>
<1>1. /\ s \in 1 .. Len(phase) /\ Sockets = 1 .. Len(phase) /\ protected \in BOOLEAN
      /\ toPage \in Seq(Seq(FromServer)) /\ Len(toPage) = Len(phase)
      /\ served \in Seq(Nat) /\ Len(served) = Len(phase)
      /\ served[s] \in Nat /\ toPage[s] \in Seq(FromServer)
  BY SocketFacts DEF Types
<1>2. /\ phase[s] = "open" /\ served[s] < Len(toServer[s])
      /\ served' = [served EXCEPT ![s] = served[s] + 1]
      /\ toPage' = IF toServer[s][served'[s]] # Hello THEN toPage
                   ELSE [toPage EXCEPT ![s] = Append(toPage[s],
                           IF served[s] = 0 THEN Ack(protected) ELSE Error)]
      /\ UNCHANGED <<protected, chains, inits, page, phase, timers, toServer, relayed>>
  BY DEF Answer
<1>3. /\ served' \in Seq(Nat) /\ Len(served') = Len(served)
      /\ served'[s] = served[s] + 1
      /\ \A o \in 1 .. Len(served) : o # s => served'[o] = served[o]
  BY <1>1, <1>2, UpdateSeq
<1>4. /\ toPage' \in Seq(Seq(FromServer)) /\ Len(toPage') = Len(phase)
      /\ IF toServer[s][served[s] + 1] # Hello THEN toPage' = toPage
         ELSE toPage'[s] = Append(toPage[s], IF served[s] = 0 THEN Ack(protected)
                                             ELSE Error)
      /\ \A o \in Sockets : o # s => toPage'[o] = toPage[o]
  <2>1. CASE toServer[s][served[s] + 1] # Hello
    BY <2>1, <1>1, <1>2, <1>3
  <2>2. CASE toServer[s][served[s] + 1] = Hello
    <3>1. PICK f : f = IF served[s] = 0 THEN Ack(protected) ELSE Error
      OBVIOUS
    <3>2. f \in FromServer
      BY <1>1, <3>1, FrameFacts
    <3>3. PICK x : x = Append(toPage[s], f)
      OBVIOUS
    <3>4. x \in Seq(FromServer)
      BY <1>1, <3>2, <3>3, AppendProperties
    <3>5. toPage' = [toPage EXCEPT ![s] = x]
      BY <1>2, <1>3, <2>2, <3>1, <3>3
    <3>6. /\ toPage' \in Seq(Seq(FromServer)) /\ Len(toPage') = Len(toPage)
          /\ toPage'[s] = x
          /\ \A o \in 1 .. Len(toPage) : o # s => toPage'[o] = toPage[o]
      BY <1>1, <3>4, <3>5, UpdateSeq
    <3> QED
      BY <1>1, <2>2, <3>1, <3>3, <3>6
  <2> QED
    BY <2>1, <2>2
<1> QED
  BY <1>1, <1>2, <1>3, <1>4

LEMMA RelayEffect ==
  ASSUME Types, NEW s \in Sockets, Relay(s)
  PROVE  /\ phase[s] = "open" /\ served[s] > 0 /\ ~ protected
         /\ relayed' \in Seq(0 .. MaxRelayed) /\ Len(relayed') = Len(phase)
         /\ relayed'[s] = relayed[s] + 1
         /\ \A o \in Sockets : o # s => relayed'[o] = relayed[o]
         /\ Relayed(s, relayed[s] + 1) \in FromServer
         /\ toPage' \in Seq(Seq(FromServer)) /\ Len(toPage') = Len(phase)
         /\ toPage'[s] = Append(toPage[s], Relayed(s, relayed[s] + 1))
         /\ \A o \in Sockets : o # s => toPage'[o] = toPage[o]
         /\ UNCHANGED <<protected, chains, inits, page, phase, timers, toServer,
                        served>>
<1>1. /\ s \in 1 .. Len(phase) /\ s \in Nat /\ Sockets = 1 .. Len(phase)
      /\ toPage \in Seq(Seq(FromServer)) /\ Len(toPage) = Len(phase)
      /\ relayed \in Seq(0 .. MaxRelayed) /\ Len(relayed) = Len(phase)
      /\ relayed[s] \in 0 .. MaxRelayed /\ toPage[s] \in Seq(FromServer)
  BY SocketFacts DEF Types
<1>2. /\ phase[s] = "open" /\ served[s] > 0 /\ ~ protected /\ relayed[s] < MaxRelayed
      /\ relayed' = [relayed EXCEPT ![s] = relayed[s] + 1]
      /\ toPage' = [toPage EXCEPT ![s] = Append(toPage[s], Relayed(s, relayed'[s]))]
      /\ UNCHANGED <<protected, chains, inits, page, phase, timers, toServer, served>>
  BY DEF Relay
<1>3. relayed[s] + 1 \in 0 .. MaxRelayed /\ relayed[s] + 1 \in Nat
  BY <1>1, <1>2, BrowserClientAssumption
<1>4. /\ relayed' \in Seq(0 .. MaxRelayed) /\ Len(relayed') = Len(relayed)
      /\ relayed'[s] = relayed[s] + 1
      /\ \A o \in 1 .. Len(relayed) : o # s => relayed'[o] = relayed[o]
  BY <1>1, <1>2, <1>3, UpdateSeq
<1>5. Relayed(s, relayed[s] + 1) \in FromServer
  BY <1>1, <1>3, FrameFacts
<1>6. PICK x : x = Append(toPage[s], Relayed(s, relayed[s] + 1))
  OBVIOUS
<1>7. x \in Seq(FromServer) /\ toPage' = [toPage EXCEPT ![s] = x]
  BY <1>1, <1>2, <1>4, <1>5, <1>6, AppendProperties
<1>8. /\ toPage' \in Seq(Seq(FromServer)) /\ Len(toPage') = Len(toPage)
      /\ toPage'[s] = x
      /\ \A o \in 1 .. Len(toPage) : o # s => toPage'[o] = toPage[o]
  BY <1>1, <1>7, UpdateSeq
<1> QED
  BY <1>1, <1>2, <1>4, <1>5, <1>6, <1>8

LEMMA InitTypes == Init => Types
<1> SUFFICES ASSUME Init
             PROVE  Types
  OBVIOUS
<1>1. /\ protected \in BOOLEAN /\ chains \in Nat /\ inits \in Nat /\ timers \in Nat
  BY BrowserClientAssumption DEF Init
<1>2. /\ phase = <<>> /\ toPage = <<>> /\ toServer = <<>> /\ served = <<>>
      /\ relayed = <<>>
  BY DEF Init
<1>3. page = [state |-> "connecting", needsPassword |-> FALSE,
              authenticated |-> FALSE, inbox |-> <<>>, waiters |-> <<>>,
              taken |-> <<>>, said |-> 0]
  BY DEF Init
<1>4. page \in Pages /\ page.inbox = <<>>
  BY <1>3, BrowserClientAssumption DEF Pages
<1>5. Calm(page)
  BY <1>4 DEF Calm
<1> QED
  BY <1>1, <1>2, <1>5 DEF Types

LEMMA TypesKept == Types /\ [Next]_vars => Types'
<1> SUFFICES ASSUME Types, [Next]_vars
             PROVE  Types'
  OBVIOUS
<1>0. /\ protected \in BOOLEAN /\ chains \in Nat /\ inits \in Nat /\ timers \in Nat
      /\ Len(phase) \in Nat /\ Sockets = 1 .. Len(phase)
      /\ \A s \in 1 .. Len(phase) : served[s] <= Len(toServer[s])
      /\ \A s \in Sockets : served[s] \in Nat /\ Len(toServer[s]) \in Nat
  BY SocketFacts DEF Types
<1>1. ASSUME Connect, inits' \in Nat, timers' \in Nat
      PROVE  Types'
  <2>1. SamePage /\ Appended
    BY <1>1, ConnectPage
  <2>2. /\ Calm(page') /\ protected' = protected /\ chains' = chains
    BY <2>1 DEF SamePage, Appended
  <2>3. /\ phase' \in Seq(Phases) /\ Len(phase') = Len(phase) + 1
        /\ toPage' \in Seq(Seq(FromServer)) /\ Len(toPage') = Len(phase')
        /\ toServer' \in Seq(Seq(FromPage)) /\ Len(toServer') = Len(phase')
        /\ served' \in Seq(Nat) /\ Len(served') = Len(phase')
        /\ relayed' \in Seq(0 .. MaxRelayed) /\ Len(relayed') = Len(phase')
        /\ \A s \in 1 .. Len(phase) :
             toServer'[s] = toServer[s] /\ served'[s] = served[s]
        /\ toServer'[Len(phase')] = <<>> /\ served'[Len(phase')] = 0
    BY <2>1, AppendedFacts
  <2>4. \A s \in 1 .. Len(phase') : served'[s] <= Len(toServer'[s])
    <3> TAKE s \in 1 .. Len(phase')
    <3>1. CASE s \in 1 .. Len(phase)
      BY <3>1, <1>0, <2>3
    <3>2. CASE s = Len(phase')
      BY <3>2, <2>3
    <3> QED
      BY <3>1, <3>2, <1>0, <2>3
  <2> QED
    BY <1>0, <1>1, <2>2, <2>3, <2>4 DEF Types
<1>2. CASE CallInit
  BY <1>0, <1>1, <1>2 DEF CallInit
<1>3. CASE Timer
  BY <1>0, <1>1, <1>3 DEF Timer
<1>4. ASSUME NEW s \in Sockets, Opens(s)
      PROVE  Types'
  <2>1. /\ phase' \in Seq(Phases) /\ Len(phase') = Len(phase)
        /\ toServer' \in Seq(Seq(FromPage)) /\ Len(toServer') = Len(phase)
        /\ \A o \in Sockets : Len(toServer'[o]) >= Len(toServer[o])
        /\ Calm(page')
        /\ UNCHANGED <<protected, chains, inits, timers, toPage, served, relayed>>
    BY <1>4, OpensEffect
  <2>2. \A o \in 1 .. Len(phase) :
          toServer'[o] \in Seq(FromPage) /\ Len(toServer'[o]) \in Nat
    BY <2>1, ElementOfSeq
  <2>3. \A o \in 1 .. Len(phase') : served'[o] <= Len(toServer'[o])
    <3> TAKE o \in 1 .. Len(phase')
    <3>1. o \in 1 .. Len(phase) /\ o \in Sockets
      BY <1>0, <2>1
    <3>2. served'[o] = served[o]
      BY <2>1
    <3>3. Len(toServer'[o]) >= Len(toServer[o]) /\ Len(toServer'[o]) \in Nat
      BY <2>1, <2>2, <3>1
    <3>4. served[o] \in Nat /\ Len(toServer[o]) \in Nat /\ served[o] <= Len(toServer[o])
      BY <1>0, <3>1
    <3> QED
      BY <3>2, <3>3, <3>4
  <2> QED
    BY <2>1, <2>3 DEF Types
<1>5. ASSUME NEW s \in Sockets, Message(s)
      PROVE  Types'
  <2>1. /\ toPage' \in Seq(Seq(FromServer)) /\ Len(toPage') = Len(phase)
        /\ Calm(page')
        /\ UNCHANGED <<protected, chains, inits, phase, timers, toServer, served,
                       relayed>>
    BY <1>5, MessageEffect
  <2> QED
    BY <2>1 DEF Types
<1>6. ASSUME NEW s \in Sockets, NEW failed \in BOOLEAN, Closes(s, failed)
      PROVE  Types'
  <2>1. /\ phase' \in Seq(Phases) /\ Len(phase') = Len(phase)
        /\ SamePage /\ timers' = timers + 1
        /\ toPage' \in Seq(Seq(FromServer)) /\ Len(toPage') = Len(phase)
        /\ UNCHANGED <<protected, chains, inits, toServer, served, relayed>>
    BY <1>6, ClosesEffect
  <2> QED
    BY <2>1 DEF Types, SamePage
<1>7. CASE Send
  <2>1. /\ SamePage /\ toServer' \in Seq(Seq(FromPage)) /\ Len(toServer') = Len(phase)
        /\ \A o \in Sockets : Len(toServer'[o]) >= Len(toServer[o])
        /\ UNCHANGED <<protected, chains, inits, phase, timers, toPage, served,
                       relayed>>
    BY <1>7, SendEffect
  <2>2. \A o \in 1 .. Len(phase) :
          toServer'[o] \in Seq(FromPage) /\ Len(toServer'[o]) \in Nat
    BY <2>1, ElementOfSeq
  <2>3. \A o \in 1 .. Len(phase') : served'[o] <= Len(toServer'[o])
    <3> TAKE o \in 1 .. Len(phase')
    <3>1. o \in 1 .. Len(phase) /\ o \in Sockets
      BY <1>0, <2>1
    <3>2. served'[o] = served[o]
      BY <2>1
    <3>3. Len(toServer'[o]) >= Len(toServer[o]) /\ Len(toServer'[o]) \in Nat
      BY <2>1, <2>2, <3>1
    <3>4. served[o] \in Nat /\ Len(toServer[o]) \in Nat /\ served[o] <= Len(toServer[o])
      BY <1>0, <3>1
    <3> QED
      BY <3>2, <3>3, <3>4
  <2> QED
    BY <2>1, <2>3 DEF Types, SamePage
<1>8. CASE Authenticate
  BY <1>8, AuthenticateEffect DEF Types, SamePage
<1>9. ASSUME NEW s \in Sockets, Answer(s)
      PROVE  Types'
  <2>1. /\ served[s] < Len(toServer[s])
        /\ served' \in Seq(Nat) /\ Len(served') = Len(phase)
        /\ served'[s] = served[s] + 1
        /\ \A o \in Sockets : o # s => served'[o] = served[o]
        /\ toPage' \in Seq(Seq(FromServer)) /\ Len(toPage') = Len(phase)
        /\ UNCHANGED <<protected, chains, inits, page, phase, timers, toServer,
                       relayed>>
    BY <1>9, AnswerEffect
  <2>2. \A o \in 1 .. Len(phase) : served'[o] <= Len(toServer[o])
    <3> TAKE o \in 1 .. Len(phase)
    <3>1. o \in Sockets /\ served[o] \in Nat /\ Len(toServer[o]) \in Nat
            /\ served[o] <= Len(toServer[o])
      BY <1>0
    <3>2. CASE o = s
      BY <2>1, <3>1, <3>2
    <3>3. CASE o # s
      BY <2>1, <3>1, <3>3
    <3> QED
      BY <3>2, <3>3
  <2> QED
    BY <2>1, <2>2 DEF Types
<1>10. ASSUME NEW s \in Sockets, Relay(s)
       PROVE  Types'
  <2>1. /\ relayed' \in Seq(0 .. MaxRelayed) /\ Len(relayed') = Len(phase)
        /\ toPage' \in Seq(Seq(FromServer)) /\ Len(toPage') = Len(phase)
        /\ UNCHANGED <<protected, chains, inits, page, phase, timers, toServer,
                       served>>
    BY <1>10, RelayEffect
  <2> QED
    BY <2>1 DEF Types
<1>11. CASE UNCHANGED vars
  BY <1>11 DEF Types, vars, server
<1> QED
  BY <1>2, <1>3, <1>4, <1>5, <1>6, <1>7, <1>8, <1>9, <1>10, <1>11 DEF Next, Socket

-----------------------------------------------------------------------------
(***************************************************************************)
(* Connections                                                             *)
(***************************************************************************)

Alive == {s \in Sockets : phase[s] # "closed"}

LEMMA AliveFinite ==
  ASSUME Types
  PROVE  IsFiniteSet(Alive) /\ Cardinality(Alive) \in Nat
<1>1. IsFiniteSet(1 .. Len(phase)) /\ Alive \in SUBSET (1 .. Len(phase))
  BY SocketFacts, FS_Interval DEF Alive
<1>2. IsFiniteSet(Alive)
  BY <1>1, FS_Subset
<1> QED
  BY <1>2, FS_CardinalityType

LEMMA InitReconnects == Init => ReconnectsConserved
<1> SUFFICES ASSUME Init
             PROVE  ReconnectsConserved
  OBVIOUS
<1>1. Sockets = {} /\ inits = chains /\ timers = 0 /\ chains \in Nat
  BY BrowserClientAssumption DEF Init, Sockets
<1>2. Cardinality({s \in Sockets : phase[s] # "closed"}) = 0
  BY <1>1, FS_EmptySet
<1> QED
  BY <1>1, <1>2 DEF ReconnectsConserved

LEMMA ReconnectsKept ==
  Types /\ ReconnectsConserved /\ [Next]_vars => ReconnectsConserved'
<1> SUFFICES ASSUME Types, ReconnectsConserved, [Next]_vars
             PROVE  ReconnectsConserved'
  OBVIOUS
<1>0. /\ IsFiniteSet(Alive) /\ Cardinality(Alive) \in Nat
      /\ chains \in Nat /\ inits \in Nat /\ timers \in Nat
      /\ inits + timers + Cardinality(Alive) = chains
  BY AliveFinite DEF Types, ReconnectsConserved, Alive
<1>a. ASSUME inits' + timers' + Cardinality(Alive') = chains'
      PROVE  ReconnectsConserved'
  BY <1>a DEF ReconnectsConserved, Alive
<1>1. ASSUME Connect
      PROVE  Cardinality(Alive') = Cardinality(Alive) + 1 /\ chains' = chains
  <2>1. Appended
    BY <1>1, ConnectPage
  <2>2. /\ Len(phase') = Len(phase) + 1 /\ Sockets' = 1 .. Len(phase) + 1
        /\ \A s \in 1 .. Len(phase) : phase'[s] = phase[s]
        /\ phase'[Len(phase')] = "connecting"
    BY <2>1, AppendedFacts
  <2>3. Len(phase) \in Nat /\ Sockets = 1 .. Len(phase)
    BY SocketFacts
  <2>4. Alive' = Alive \cup {Len(phase) + 1}
    BY <2>2, <2>3 DEF Alive
  <2>5. Len(phase) + 1 \notin Alive
    BY <2>3 DEF Alive
  <2>6. Cardinality(Alive \cup {Len(phase) + 1}) = Cardinality(Alive) + 1
    BY <1>0, <2>5, FS_AddElement
  <2> QED
    BY <2>1, <2>4, <2>6 DEF Appended
<1>2. CASE CallInit
  BY <1>0, <1>1, <1>2, <1>a DEF CallInit
<1>3. CASE Timer
  BY <1>0, <1>1, <1>3, <1>a DEF Timer
<1>4. ASSUME NEW s \in Sockets, Opens(s)
      PROVE  ReconnectsConserved'
  <2>1. /\ phase[s] = "connecting" /\ phase'[s] = "open" /\ Sockets' = Sockets
        /\ \A o \in Sockets : o # s => phase'[o] = phase[o]
        /\ UNCHANGED <<chains, inits, timers>>
    BY <1>4, OpensEffect
  <2>2. Alive' = Alive
    BY <2>1 DEF Alive
  <2> QED
    BY <1>0, <1>a, <2>1, <2>2
<1>5. ASSUME NEW s \in Sockets, NEW failed \in BOOLEAN, Closes(s, failed)
      PROVE  ReconnectsConserved'
  <2>1. /\ phase[s] # "closed" /\ phase'[s] = "closed" /\ Sockets' = Sockets
        /\ \A o \in Sockets : o # s => phase'[o] = phase[o]
        /\ timers' = timers + 1 /\ UNCHANGED <<chains, inits>>
    BY <1>5, ClosesEffect
  <2>2. Alive' = Alive \ {s} /\ s \in Alive
    BY <2>1 DEF Alive
  <2>3. Cardinality(Alive \ {s}) = Cardinality(Alive) - 1
    BY <1>0, <2>2, FS_RemoveElement
  <2> QED
    BY <1>0, <1>a, <2>1, <2>2, <2>3
<1>6. ASSUME UNCHANGED <<chains, inits, timers, phase>>
      PROVE  ReconnectsConserved'
  BY <1>6 DEF ReconnectsConserved, Sockets
<1>7. ASSUME NEW s \in Sockets, Message(s) \/ Answer(s) \/ Relay(s)
      PROVE  ReconnectsConserved'
  BY <1>6, <1>7 DEF Message, Answer, Relay
<1>8. CASE Send \/ Authenticate \/ UNCHANGED vars
  BY <1>6, <1>8 DEF Send, Authenticate, vars
<1> QED
  BY <1>2, <1>3, <1>4, <1>5, <1>7, <1>8 DEF Next, Socket

-----------------------------------------------------------------------------
(***************************************************************************)
(* HELLO comes first                                                       *)
(***************************************************************************)

LEMMA AppendFacts ==
  ASSUME NEW S, NEW u \in Seq(S), NEW x \in S
  PROVE  /\ Append(u, x) # <<>>
         /\ u = <<>> => Head(Append(u, x)) = x
         /\ u # <<>> => Head(Append(u, x)) = Head(u)
<1>1. /\ Append(u, x) \in Seq(S) /\ Len(u) \in Nat
      /\ Len(Append(u, x)) = Len(u) + 1
      /\ Append(u, x)[Len(u) + 1] = x
      /\ \A i \in 1 .. Len(u) : Append(u, x)[i] = u[i]
  BY AppendProperties
<1>2. Append(u, x) # <<>>
  BY <1>1, EmptySeq
<1>3. Head(Append(u, x)) = Append(u, x)[1]
  BY <1>1, <1>2, TailFacts
<1>4. CASE u = <<>>
  BY <1>1, <1>2, <1>3, <1>4, EmptySeq
<1>5. CASE u # <<>>
  <2>1. Head(u) = u[1] /\ Len(u) >= 1
    BY <1>5, TailFacts
  <2> QED
    BY <1>1, <1>2, <1>3, <1>5, <2>1
<1> QED
  BY <1>4, <1>5

\* Nothing is sent before a socket has opened, and then HELLO is: a socket
\* other than this.ws that opens stays silent.
Greeting ==
  /\ \A s \in Sockets : phase[s] = "connecting" => toServer[s] = <<>>
  /\ HelloFirst
  /\ \A s \in Sockets : s = Len(phase) /\ phase[s] = "open" => toServer[s] # <<>>

LEMMA InitGreeting == Init => Greeting
  BY DEF Init, Greeting, HelloFirst, Sockets

LEMMA GreetingKept == Types /\ Greeting /\ [Next]_vars => Greeting'
<1> SUFFICES ASSUME Types, Greeting, [Next]_vars
             PROVE  Greeting'
  OBVIOUS
<1>0. /\ Len(phase) \in Nat /\ Sockets = 1 .. Len(phase) /\ Current = Len(phase)
      /\ \A s \in Sockets : toServer[s] \in Seq(FromPage)
      /\ Hello \in FromPage /\ Chat \in FromPage
  BY SocketFacts DEF FromPage, Current
<1>g. /\ \A s \in Sockets : phase[s] = "connecting" => toServer[s] = <<>>
      /\ \A s \in Sockets : toServer[s] # <<>> => Head(toServer[s]) = Hello
      /\ \A s \in Sockets : s = Len(phase) /\ phase[s] = "open" => toServer[s] # <<>>
  BY DEF Greeting, HelloFirst
<1>1. ASSUME Connect
      PROVE  Greeting'
  <2>1. Appended
    BY <1>1, ConnectPage
  <2>2. /\ Len(phase') = Len(phase) + 1 /\ Sockets' = 1 .. Len(phase) + 1
        /\ \A s \in 1 .. Len(phase) :
             phase'[s] = phase[s] /\ toServer'[s] = toServer[s]
        /\ phase'[Len(phase) + 1] = "connecting"
        /\ toServer'[Len(phase) + 1] = <<>>
    BY <2>1, AppendedFacts
  <2>3. \A s \in Sockets' : s = Len(phase) + 1 \/ s \in Sockets
    BY <1>0, <2>2
  <2> QED
    BY <1>0, <1>g, <2>2, <2>3 DEF Greeting, HelloFirst
<1>2. CASE CallInit \/ Timer
  BY <1>1, <1>2 DEF CallInit, Timer
<1>3. ASSUME NEW s \in Sockets, Opens(s)
      PROVE  Greeting'
  <2>1. /\ phase[s] = "connecting" /\ Len(phase') = Len(phase)
        /\ phase'[s] = "open" /\ \A o \in Sockets : o # s => phase'[o] = phase[o]
        /\ Sockets' = Sockets
        /\ \A o \in Sockets :
             IF o = Current /\ phase'[Current] = "open"
             THEN toServer'[o] = Append(toServer[o], Hello)
             ELSE toServer'[o] = toServer[o]
    BY <1>3, OpensEffect
  <2>2. \A o \in Sockets : phase'[o] = "connecting" => toServer'[o] = <<>>
    BY <1>g, <2>1
  <2>3. \A o \in Sockets : toServer'[o] # <<>> => Head(toServer'[o]) = Hello
    <3> TAKE o \in Sockets
    <3>1. CASE o = Current /\ phase'[Current] = "open"
      <4>1. toServer'[o] = Append(toServer[o], Hello) /\ toServer[o] \in Seq(FromPage)
        BY <1>0, <2>1, <3>1
      <4>2. /\ toServer[o] = <<>> => Head(toServer'[o]) = Hello
            /\ toServer[o] # <<>> => Head(toServer'[o]) = Head(toServer[o])
        BY <1>0, <4>1, AppendFacts
      <4> QED
        BY <1>g, <4>2
    <3>2. CASE ~ (o = Current /\ phase'[Current] = "open")
      BY <1>g, <2>1, <3>2
    <3> QED
      BY <3>1, <3>2
  <2>4. \A o \in Sockets : o = Len(phase) /\ phase'[o] = "open" => toServer'[o] # <<>>
    BY <1>0, <2>1, AppendFacts
  <2> QED
    BY <2>1, <2>2, <2>3, <2>4 DEF Greeting, HelloFirst
<1>4. ASSUME NEW s \in Sockets, NEW failed \in BOOLEAN, Closes(s, failed)
      PROVE  Greeting'
  <2>1. /\ Len(phase') = Len(phase) /\ Sockets' = Sockets
        /\ phase'[s] = "closed" /\ \A o \in Sockets : o # s => phase'[o] = phase[o]
        /\ toServer' = toServer
    BY <1>4, ClosesEffect
  <2> QED
    BY <1>g, <2>1 DEF Greeting, HelloFirst
<1>5. CASE Send
  <2>1. /\ \A s \in Sockets :
             IF s = Current /\ phase[Current] = "open"
             THEN toServer'[s] = Append(toServer[s], Chat)
             ELSE toServer'[s] = toServer[s]
        /\ phase' = phase
    BY <1>5, SendEffect
  <2>2. Sockets' = Sockets
    BY <2>1 DEF Sockets
  <2>3. \A s \in Sockets :
          \/ toServer'[s] = toServer[s]
          \/ /\ s = Len(phase) /\ phase[s] = "open" /\ toServer[s] # <<>>
             /\ toServer'[s] = Append(toServer[s], Chat)
    BY <1>0, <1>g, <2>1
  <2>4. \A s \in Sockets :
          \/ toServer'[s] = toServer[s]
          \/ /\ phase[s] = "open" /\ toServer'[s] # <<>>
             /\ Head(toServer'[s]) = Hello
    BY <1>0, <1>g, <2>3, AppendFacts
  <2> QED
    BY <1>g, <2>1, <2>2, <2>4 DEF Greeting, HelloFirst
<1>6. ASSUME UNCHANGED <<phase, toServer>>
      PROVE  Greeting'
  BY <1>6 DEF Greeting, HelloFirst, Sockets
<1>7. ASSUME NEW s \in Sockets, Message(s) \/ Answer(s) \/ Relay(s)
      PROVE  Greeting'
  BY <1>6, <1>7 DEF Message, Answer, Relay
<1>8. CASE Authenticate \/ UNCHANGED vars
  BY <1>6, <1>8 DEF Authenticate, vars
<1> QED
  BY <1>2, <1>3, <1>4, <1>5, <1>7, <1>8 DEF Next, Socket

-----------------------------------------------------------------------------
(***************************************************************************)
(* Order                                                                   *)
(***************************************************************************)

\* What u has of a connection is older than what v has.
Precedes(u, v) ==
  \A i \in 1 .. Len(u), j \in 1 .. Len(v) :
    SameConnection(u[i], v[j]) => u[i].n < v[j].n

\* What the server has relayed.
Known(f) == IsChat(f) => f.on \in Sockets /\ f.n <= relayed[f.on]

\* u may have arrived: what is on its way is younger.
MayArrive(u) ==
  /\ InOrder(u)
  /\ \A s \in Sockets : Precedes(u, toPage[s])
  /\ \A i \in 1 .. Len(u) : Known(u[i])

Streams ==
  \A s \in Sockets :
    /\ InOrder(toPage[s])
    /\ \A i \in 1 .. Len(toPage[s]) :
         IsChat(toPage[s][i]) => toPage[s][i].on = s /\ toPage[s][i].n <= relayed[s]

Order == MayArrive(Arrived(page)) /\ Streams

LEMMA ThinnedMayArrive ==
  ASSUME NEW u \in Seq(FromServer), NEW v \in Seq(FromServer), Thinned(v, u),
         MayArrive(u)
  PROVE  MayArrive(v)
<1>1. InOrder(v)
  BY ThinnedInOrder DEF MayArrive
<1>2. \A i \in 1 .. Len(v) : \E k \in 1 .. Len(u) : v[i] = u[k]
  BY ThinnedMembers
<1>3. \A s \in Sockets : Precedes(v, toPage[s])
  BY <1>2 DEF MayArrive, Precedes
<1>4. \A i \in 1 .. Len(v) : Known(v[i])
  BY <1>2 DEF MayArrive
<1> QED
  BY <1>1, <1>3, <1>4 DEF MayArrive

LEMMA InOrderAppend ==
  ASSUME NEW u \in Seq(FromServer), NEW f \in FromServer, InOrder(u),
         \A i \in 1 .. Len(u) : SameConnection(u[i], f) => u[i].n < f.n
  PROVE  InOrder(Append(u, f))
<1> DEFINE w == Append(u, f)
<1>1. /\ Len(u) \in Nat /\ Len(w) = Len(u) + 1 /\ w[Len(u) + 1] = f
      /\ \A i \in 1 .. Len(u) : w[i] = u[i]
  BY AppendProperties
<1> HIDE DEF w
<1>2. ASSUME NEW i \in 1 .. Len(w), NEW j \in 1 .. Len(w), i < j,
             SameConnection(w[i], w[j])
      PROVE  w[i].n < w[j].n
  <2>1. i \in 1 .. Len(u) /\ w[i] = u[i]
    BY <1>1, <1>2
  <2>2. CASE j \in 1 .. Len(u)
    BY <1>1, <1>2, <2>1, <2>2 DEF InOrder
  <2>3. CASE j = Len(u) + 1
    BY <1>1, <1>2, <2>1, <2>3
  <2> QED
    BY <1>1, <2>2, <2>3
<1>3. InOrder(w)
  BY <1>2 DEF InOrder
<1> QED
  BY <1>3 DEF w

LEMMA InitOrder == Init => Order
<1> SUFFICES ASSUME Init
             PROVE  Order
  OBVIOUS
<1>1. Sockets = {} /\ page.taken = <<>> /\ page.inbox = <<>>
  BY DEF Init, Sockets
<1>2. Arrived(page) = <<>>
  BY <1>1 DEF Arrived
<1>3. MayArrive(<<>>)
  BY <1>1 DEF MayArrive, InOrder
<1> QED
  BY <1>1, <1>2, <1>3 DEF Order, Streams

\* What is on its way may get lost without harm, and other sockets' too.
LEMMA OrderShrinks ==
  ASSUME Types, Order,
         \A s \in Sockets' : \/ s \in Sockets /\ toPage'[s] = toPage[s]
                             \/ toPage'[s] = <<>>,
         Sockets \subseteq Sockets',
         \A s \in Sockets : relayed'[s] = relayed[s],
         Arrived(page') \in Seq(FromServer), Thinned(Arrived(page'), Arrived(page))
  PROVE  Order'
<1>0. PICK u : u = Arrived(page')
  OBVIOUS
<1>1. MayArrive(u)
  BY <1>0, ThinnedMayArrive, PageFacts DEF Order, Types, Calm
<1>2. \A s \in Sockets' : Precedes(u, toPage'[s])
  BY <1>1 DEF MayArrive, Precedes
<1>3. \A i \in 1 .. Len(u) :
        IsChat(u[i]) => u[i].on \in Sockets' /\ u[i].n <= relayed'[u[i].on]
  BY <1>1 DEF MayArrive, Known
<1>4. MayArrive(u)'
  BY <1>1, <1>2, <1>3 DEF MayArrive, Known
<1>5. Streams'
  BY DEF Order, Streams, InOrder
<1> QED
  BY <1>0, <1>4, <1>5 DEF Order

\* A frame is put on its way behind the others: no message, or the next.
LEMMA OrderGrows ==
  ASSUME Types, Order, NEW s \in Sockets, NEW f \in FromServer,
         Sockets' = Sockets, page' = page,
         toPage'[s] = Append(toPage[s], f),
         \A o \in Sockets : o # s => toPage'[o] = toPage[o],
         \A o \in Sockets : relayed'[o] \in Nat /\ relayed'[o] >= relayed[o],
         IsChat(f) => f.on = s /\ f.n = relayed[s] + 1 /\ relayed'[s] = f.n
  PROVE  Order'
<1>0. /\ toPage[s] \in Seq(FromServer) /\ Len(toPage[s]) \in Nat
      /\ \A o \in Sockets :
           o \in Nat /\ relayed[o] \in Nat /\ toPage[o] \in Seq(FromServer)
  BY SocketFacts
<1>1. PICK u : u = Arrived(page)
  OBVIOUS
<1>2. u \in Seq(FromServer) /\ MayArrive(u) /\ Streams
  BY <1>1, PageFacts DEF Order, Types, Calm
<1>3. /\ Len(toPage'[s]) = Len(toPage[s]) + 1
      /\ toPage'[s][Len(toPage[s]) + 1] = f
      /\ \A i \in 1 .. Len(toPage[s]) : toPage'[s][i] = toPage[s][i]
  BY <1>0, AppendProperties
<1>4. \A i \in 1 .. Len(u) : u[i] \in FromServer /\ Known(u[i])
  BY <1>2, ElementOfSeq DEF MayArrive
<1>5. \A i \in 1 .. Len(u) : SameConnection(u[i], f) => u[i].n < f.n
  <2> SUFFICES ASSUME NEW i \in 1 .. Len(u), SameConnection(u[i], f)
               PROVE  u[i].n < f.n
    OBVIOUS
  <2>1. IsChat(u[i]) /\ IsChat(f) /\ u[i].on = f.on
    BY DEF SameConnection
  <2>2. u[i].n \in Nat /\ u[i].n <= relayed[s]
    BY <1>4, <2>1, ChatFacts DEF Known
  <2> QED
    BY <1>0, <2>1, <2>2
<1>6. \A i \in 1 .. Len(toPage[s]) :
        SameConnection(toPage[s][i], f) => toPage[s][i].n < f.n
  <2> SUFFICES ASSUME NEW i \in 1 .. Len(toPage[s]), SameConnection(toPage[s][i], f)
               PROVE  toPage[s][i].n < f.n
    OBVIOUS
  <2>1. IsChat(toPage[s][i]) /\ IsChat(f) /\ toPage[s][i] \in FromServer
    BY <1>0, ElementOfSeq DEF SameConnection
  <2>2. toPage[s][i].n \in Nat /\ toPage[s][i].n <= relayed[s]
    BY <1>2, <2>1, ChatFacts DEF Streams
  <2> QED
    BY <1>0, <2>1, <2>2
<1>7. Precedes(u, toPage'[s])
  <2>1. ASSUME NEW i \in 1 .. Len(u), NEW j \in 1 .. Len(toPage'[s]),
               SameConnection(u[i], toPage'[s][j])
        PROVE  u[i].n < toPage'[s][j].n
    <3>1. CASE j \in 1 .. Len(toPage[s])
      BY <1>2, <1>3, <2>1, <3>1 DEF MayArrive, Precedes
    <3>2. CASE j = Len(toPage[s]) + 1
      BY <1>3, <1>5, <2>1, <3>2
    <3> QED
      BY <1>0, <1>3, <3>1, <3>2
  <2> QED
    BY <2>1 DEF Precedes
<1>8. \A o \in Sockets : Precedes(u, toPage'[o])
  BY <1>2, <1>7 DEF MayArrive
<1>9. \A i \in 1 .. Len(u) :
        IsChat(u[i]) => u[i].on \in Sockets' /\ u[i].n <= relayed'[u[i].on]
  <2> SUFFICES ASSUME NEW i \in 1 .. Len(u), IsChat(u[i])
               PROVE  u[i].on \in Sockets' /\ u[i].n <= relayed'[u[i].on]
    OBVIOUS
  <2>1. u[i].on \in Sockets /\ u[i].n <= relayed[u[i].on] /\ u[i].n \in Nat
    BY <1>4, ChatFacts DEF Known
  <2>2. relayed[u[i].on] \in Nat /\ relayed'[u[i].on] \in Nat
          /\ relayed'[u[i].on] >= relayed[u[i].on]
    BY <1>0, <2>1
  <2> QED
    BY <2>1, <2>2
<1>10. MayArrive(u)'
  BY <1>2, <1>8, <1>9 DEF MayArrive, Known
<1>11. InOrder(toPage'[s])
  BY <1>0, <1>2, <1>6, InOrderAppend DEF Streams
<1>12. \A i \in 1 .. Len(toPage'[s]) :
         IsChat(toPage'[s][i]) => toPage'[s][i].on = s /\ toPage'[s][i].n <= relayed'[s]
  <2> SUFFICES ASSUME NEW i \in 1 .. Len(toPage'[s]), IsChat(toPage'[s][i])
               PROVE  toPage'[s][i].on = s /\ toPage'[s][i].n <= relayed'[s]
    OBVIOUS
  <2>1. CASE i \in 1 .. Len(toPage[s])
    <3>1. toPage'[s][i] = toPage[s][i] /\ toPage[s][i] \in FromServer
      BY <1>0, <1>3, <2>1, ElementOfSeq
    <3>2. /\ toPage[s][i].on = s /\ toPage[s][i].n <= relayed[s]
          /\ toPage[s][i].n \in Nat
      BY <1>2, <2>1, <3>1, ChatFacts DEF Streams
    <3> QED
      BY <1>0, <3>1, <3>2
  <2>2. CASE i = Len(toPage[s]) + 1
    BY <1>0, <1>3, <2>2
  <2> QED
    BY <1>0, <1>3, <2>1, <2>2
<1>13. \A o \in Sockets : o # s => \A i \in 1 .. Len(toPage'[o]) :
         IsChat(toPage'[o][i]) => toPage'[o][i].on = o /\ toPage'[o][i].n <= relayed'[o]
  <2> SUFFICES ASSUME NEW o \in Sockets, o # s, NEW i \in 1 .. Len(toPage[o]),
                      IsChat(toPage[o][i])
               PROVE  toPage[o][i].on = o /\ toPage[o][i].n <= relayed'[o]
    OBVIOUS
  <2>1. toPage[o][i] \in FromServer /\ relayed[o] \in Nat /\ relayed'[o] \in Nat
          /\ relayed'[o] >= relayed[o]
    BY <1>0, ElementOfSeq
  <2>2. /\ toPage[o][i].on = o /\ toPage[o][i].n <= relayed[o]
        /\ toPage[o][i].n \in Nat
    BY <1>2, <2>1, ChatFacts DEF Streams
  <2> QED
    BY <2>1, <2>2
<1>14. Streams'
  BY <1>2, <1>11, <1>12, <1>13 DEF Streams, InOrder
<1> QED
  BY <1>1, <1>10, <1>14 DEF Order

\* The oldest frame on its way arrives.
LEMMA OrderArrives ==
  ASSUME Types, Order, NEW s \in Sockets, Message(s)
  PROVE  Order'
<1>1. /\ toPage[s] # <<>> /\ toPage'[s] = Tail(toPage[s])
      /\ \A o \in Sockets : o # s => toPage'[o] = toPage[o]
      /\ Thinned(Arrived(page'), Append(Arrived(page), Head(toPage[s])))
      /\ Calm(page') /\ UNCHANGED <<phase, relayed>>
  BY MessageEffect
<1>2. /\ toPage[s] \in Seq(FromServer)
      /\ \A o \in Sockets : toPage[o] \in Seq(FromServer)
  BY SocketFacts
<1>3. PICK f : f = Head(toPage[s])
  OBVIOUS
<1>4. /\ f \in FromServer /\ f = toPage[s][1] /\ Len(toPage[s]) \in Nat
      /\ Len(toPage[s]) >= 1 /\ Len(toPage'[s]) = Len(toPage[s]) - 1
      /\ \A i \in 1 .. Len(toPage[s]) - 1 : toPage'[s][i] = toPage[s][i + 1]
  BY <1>1, <1>2, <1>3, TailFacts
<1>5. PICK u : u = Arrived(page)
  OBVIOUS
<1>6. u \in Seq(FromServer) /\ MayArrive(u) /\ Streams
  BY <1>5, PageFacts DEF Order, Types, Calm
<1>7. PICK w : w = Append(u, f)
  OBVIOUS
<1>8. /\ w \in Seq(FromServer) /\ Len(u) \in Nat /\ Len(w) = Len(u) + 1
      /\ w[Len(u) + 1] = f /\ \A i \in 1 .. Len(u) : w[i] = u[i]
  BY <1>4, <1>6, <1>7, AppendProperties
<1>9. IsChat(f) => f.on = s /\ f.n <= relayed[s]
  BY <1>4, <1>6 DEF Streams
<1>10. InOrder(w)
  <2>1. 1 \in 1 .. Len(toPage[s])
    BY <1>4
  <2>2. \A i \in 1 .. Len(u) : SameConnection(u[i], f) => u[i].n < f.n
    BY <1>4, <1>6, <2>1 DEF MayArrive, Precedes
  <2> QED
    BY <1>4, <1>6, <1>7, <2>2, InOrderAppend DEF MayArrive
<1>11. ASSUME NEW o \in Sockets, NEW i \in 1 .. Len(w), NEW j \in 1 .. Len(toPage'[o]),
              SameConnection(w[i], toPage'[o][j])
       PROVE  w[i].n < toPage'[o][j].n
  <2>1. PICK k \in 1 .. Len(toPage[o]) :
          toPage'[o][j] = toPage[o][k] /\ (o = s => k > 1)
    <3>1. CASE o = s
      <4>1. j + 1 \in 1 .. Len(toPage[s]) /\ j + 1 > 1
        BY <1>4, <3>1
      <4>2. toPage'[s][j] = toPage[s][j + 1]
        BY <1>4, <3>1
      <4> QED
        BY <3>1, <4>1, <4>2
    <3>2. CASE o # s
      BY <1>1, <3>2
    <3> QED
      BY <3>1, <3>2
  <2>2. CASE i \in 1 .. Len(u)
    BY <1>6, <1>8, <1>11, <2>1, <2>2 DEF MayArrive, Precedes
  <2>3. CASE i = Len(u) + 1
    <3>1. w[i] = f /\ SameConnection(f, toPage[o][k])
      BY <1>8, <1>11, <2>1, <2>3
    <3>2. o = s
      BY <1>6, <1>9, <3>1 DEF SameConnection, Streams
    <3>3. 1 \in 1 .. Len(toPage[s]) /\ k \in 1 .. Len(toPage[s]) /\ 1 < k
      BY <1>4, <2>1, <3>2
    <3>4. InOrder(toPage[s])
      BY <1>6 DEF Streams
    <3> QED
      BY <1>4, <2>1, <3>1, <3>2, <3>3, <3>4 DEF InOrder
  <2> QED
    BY <1>8, <2>2, <2>3
<1>12. \A i \in 1 .. Len(w) :
         IsChat(w[i]) => w[i].on \in Sockets /\ w[i].n <= relayed[w[i].on]
  <2> SUFFICES ASSUME NEW i \in 1 .. Len(w), IsChat(w[i])
               PROVE  w[i].on \in Sockets /\ w[i].n <= relayed[w[i].on]
    OBVIOUS
  <2>1. CASE i \in 1 .. Len(u)
    BY <1>6, <1>8, <2>1 DEF MayArrive, Known
  <2>2. CASE i = Len(u) + 1
    BY <1>8, <1>9, <2>2
  <2> QED
    BY <1>8, <2>1, <2>2
<1>13. PICK v : v = Arrived(page')
  OBVIOUS
<1>14. v \in Seq(FromServer) /\ Thinned(v, w)
  BY <1>1, <1>3, <1>5, <1>7, <1>13, PageFacts DEF Calm
<1>15. \A i \in 1 .. Len(v) : \E k \in 1 .. Len(w) : v[i] = w[k]
  BY <1>8, <1>14, ThinnedMembers
<1>16. InOrder(v)
  BY <1>8, <1>10, <1>14, ThinnedInOrder
<1>17. \A o \in Sockets : Precedes(v, toPage'[o])
  BY <1>11, <1>15 DEF Precedes
<1>18. \A i \in 1 .. Len(v) :
         IsChat(v[i]) => v[i].on \in Sockets /\ v[i].n <= relayed[v[i].on]
  BY <1>12, <1>15
<1>19. Sockets' = Sockets
  BY <1>1 DEF Sockets
<1>20. MayArrive(v)'
  BY <1>1, <1>16, <1>17, <1>18, <1>19 DEF MayArrive, Known
<1>21. ASSUME NEW o \in Sockets
       PROVE  /\ InOrder(toPage'[o])
              /\ \A i \in 1 .. Len(toPage'[o]) :
                   IsChat(toPage'[o][i]) =>
                     toPage'[o][i].on = o /\ toPage'[o][i].n <= relayed[o]
  <2>1. CASE o = s
    <3>1. \A i \in 1 .. Len(toPage'[s]) :
            i + 1 \in 1 .. Len(toPage[s]) /\ toPage'[s][i] = toPage[s][i + 1]
      BY <1>4
    <3>2. InOrder(toPage[s])
      BY <1>6 DEF Streams
    <3>3. ASSUME NEW i \in 1 .. Len(toPage'[s]), NEW j \in 1 .. Len(toPage'[s]),
                 i < j, SameConnection(toPage'[s][i], toPage'[s][j])
          PROVE  toPage'[s][i].n < toPage'[s][j].n
      <4>1. /\ i + 1 \in 1 .. Len(toPage[s]) /\ j + 1 \in 1 .. Len(toPage[s])
            /\ i + 1 < j + 1
        BY <3>1, <3>3
      <4>2. toPage'[s][i] = toPage[s][i + 1] /\ toPage'[s][j] = toPage[s][j + 1]
        BY <3>1
      <4> QED
        BY <3>2, <3>3, <4>1, <4>2 DEF InOrder
    <3>4. InOrder(toPage'[s])
      BY <3>3 DEF InOrder
    <3> QED
      BY <1>6, <2>1, <3>1, <3>4 DEF Streams
  <2>2. CASE o # s
    BY <1>1, <1>6, <2>2 DEF Streams
  <2> QED
    BY <2>1, <2>2
<1>22. Streams'
  BY <1>1, <1>19, <1>21 DEF Streams, InOrder
<1> QED
  BY <1>13, <1>20, <1>22 DEF Order

LEMMA OrderKept == Types /\ Types' /\ Order /\ [Next]_vars => Order'
<1> SUFFICES ASSUME Types, Types', Order, [Next]_vars
             PROVE  Order'
  OBVIOUS
<1>0. /\ Len(phase) \in Nat /\ Sockets = 1 .. Len(phase)
      /\ Arrived(page) \in Seq(FromServer) /\ Arrived(page') \in Seq(FromServer)
      /\ Thinned(Arrived(page), Arrived(page))
      /\ \A s \in Sockets : relayed[s] \in Nat
  BY SocketFacts, PageFacts, ThinnedSame DEF Types, Calm
<1>a. ASSUME SamePage
      PROVE  Arrived(page') = Arrived(page)
  BY <1>a DEF SamePage, Arrived
<1>1. ASSUME Connect
      PROVE  Order'
  <2>1. Appended /\ SamePage
    BY <1>1, ConnectPage
  <2>2. /\ Len(phase') = Len(phase) + 1 /\ Sockets' = 1 .. Len(phase) + 1
        /\ \A s \in 1 .. Len(phase) :
             toPage'[s] = toPage[s] /\ relayed'[s] = relayed[s]
        /\ toPage'[Len(phase) + 1] = <<>>
    BY <2>1, AppendedFacts
  <2>3. \A s \in Sockets' : \/ s \in Sockets /\ toPage'[s] = toPage[s]
                            \/ toPage'[s] = <<>>
    BY <1>0, <2>2
  <2>4. Sockets \subseteq Sockets' /\ \A s \in Sockets : relayed'[s] = relayed[s]
    BY <1>0, <2>2
  <2> QED
    BY <1>0, <1>a, <2>1, <2>3, <2>4, OrderShrinks
<1>2. CASE CallInit \/ Timer
  BY <1>1, <1>2 DEF CallInit, Timer
<1>3. ASSUME NEW s \in Sockets, Opens(s)
      PROVE  Order'
  <2>1. /\ Sockets' = Sockets /\ Thinned(Arrived(page'), Arrived(page))
        /\ toPage' = toPage /\ relayed' = relayed
    BY <1>3, OpensEffect
  <2> QED
    BY <1>0, <2>1, OrderShrinks
<1>4. ASSUME NEW s \in Sockets, NEW failed \in BOOLEAN, Closes(s, failed)
      PROVE  Order'
  <2>1. /\ Sockets' = Sockets /\ SamePage /\ toPage'[s] = <<>>
        /\ \A o \in Sockets : o # s => toPage'[o] = toPage[o]
        /\ relayed' = relayed
    BY <1>4, ClosesEffect
  <2>2. \A o \in Sockets : toPage'[o] = toPage[o] \/ toPage'[o] = <<>>
    BY <2>1
  <2> QED
    BY <1>0, <1>a, <2>1, <2>2, OrderShrinks
<1>5. ASSUME SamePage \/ page' = page, UNCHANGED <<phase, toPage, relayed>>
      PROVE  Order'
  <2>1. Arrived(page') = Arrived(page) /\ Sockets' = Sockets
    BY <1>a, <1>5 DEF Sockets
  <2> QED
    BY <1>0, <1>5, <2>1, OrderShrinks
<1>6. CASE Send
  BY <1>5, <1>6, SendEffect
<1>7. CASE Authenticate
  BY <1>5, <1>7, AuthenticateEffect
<1>8. CASE UNCHANGED vars
  BY <1>5, <1>8 DEF vars, server
<1>9. ASSUME NEW s \in Sockets, Answer(s)
      PROVE  Order'
  <2>1. /\ UNCHANGED <<page, phase, relayed>>
        /\ IF toServer[s][served[s] + 1] # Hello THEN toPage' = toPage
           ELSE toPage'[s] = Append(toPage[s], IF served[s] = 0 THEN Ack(protected)
                                               ELSE Error)
        /\ \A o \in Sockets : o # s => toPage'[o] = toPage[o]
    BY <1>9, AnswerEffect
  <2>2. CASE toPage' = toPage
    BY <1>5, <2>1, <2>2
  <2>3. CASE toServer[s][served[s] + 1] = Hello
    <3>1. PICK f : f = IF served[s] = 0 THEN Ack(protected) ELSE Error
      OBVIOUS
    <3>2. f \in FromServer /\ ~ IsChat(f)
      BY <3>1, FrameFacts DEF Types
    <3>3. toPage'[s] = Append(toPage[s], f)
      BY <2>1, <2>3, <3>1
    <3>4. Sockets' = Sockets /\ \A o \in Sockets : relayed'[o] = relayed[o]
      BY <2>1 DEF Sockets
    <3>5. \A o \in Sockets : relayed'[o] \in Nat /\ relayed'[o] >= relayed[o]
      BY <1>0, <3>4
    <3> QED
      BY <2>1, <3>2, <3>3, <3>4, <3>5, OrderGrows
  <2> QED
    BY <2>1, <2>2, <2>3
<1>10. ASSUME NEW s \in Sockets, Relay(s)
       PROVE  Order'
  <2>1. /\ UNCHANGED <<page, phase>>
        /\ relayed'[s] = relayed[s] + 1
        /\ \A o \in Sockets : o # s => relayed'[o] = relayed[o]
        /\ Relayed(s, relayed[s] + 1) \in FromServer
        /\ toPage'[s] = Append(toPage[s], Relayed(s, relayed[s] + 1))
        /\ \A o \in Sockets : o # s => toPage'[o] = toPage[o]
    BY <1>10, RelayEffect
  <2>2. PICK f : f = Relayed(s, relayed[s] + 1)
    OBVIOUS
  <2>3. f.on = s /\ f.n = relayed[s] + 1
    BY <1>0, <2>2, FrameFacts
  <2>4. Sockets' = Sockets
    BY <2>1 DEF Sockets
  <2>5. \A o \in Sockets : relayed'[o] \in Nat /\ relayed'[o] >= relayed[o]
    BY <1>0, <2>1
  <2> QED
    BY <2>1, <2>2, <2>3, <2>4, <2>5, OrderGrows
<1>11. ASSUME NEW s \in Sockets, Message(s)
       PROVE  Order'
  BY <1>11, OrderArrives
<1> QED
  BY <1>2, <1>3, <1>4, <1>6, <1>7, <1>8, <1>9, <1>10, <1>11 DEF Next, Socket

LEMMA OrderShows == Types /\ Order => ShownOnceInOrder
<1> SUFFICES ASSUME Types, Order
             PROVE  ShownOnceInOrder
  OBVIOUS
<1>1. /\ page.taken \in Seq(FromServer) /\ page.inbox \in Seq(FromServer)
      /\ InOrder(page.taken \o page.inbox)
  BY PageFacts DEF Types, Calm, Order, MayArrive, Arrived
<1>2. PICK u, v \in Seq(FromServer) :
        u = page.taken /\ v = page.inbox /\ InOrder(u \o v)
  BY <1>1
<1>3. /\ Len(u) \in Nat /\ Len(v) \in Nat /\ Len(u \o v) = Len(u) + Len(v)
      /\ \A i \in 1 .. Len(u \o v) :
           (u \o v)[i] = IF i <= Len(u) THEN u[i] ELSE v[i - Len(u)]
  BY ConcatProperties
<1>4. \A i \in 1 .. Len(u) : i \in 1 .. Len(u \o v) /\ (u \o v)[i] = u[i]
  BY <1>3
<1>5. InOrder(u)
  BY <1>2, <1>4 DEF InOrder
<1> QED
  BY <1>2, <1>5 DEF ShownOnceInOrder

-----------------------------------------------------------------------------
(***************************************************************************)
(* The first connection to an open node                                    *)
(***************************************************************************)

LEMMA RangeFacts ==
  ASSUME NEW S, NEW u \in Seq(S)
  PROVE  /\ \A x \in S : Range(Append(u, x)) = Range(u) \cup {x}
         /\ u # <<>> => Range(u) = Range(Tail(u)) \cup {Head(u)}
<1>1. /\ Len(u) \in Nat /\ DOMAIN u = 1 .. Len(u)
  OBVIOUS
<1>2. ASSUME NEW x \in S
      PROVE  Range(Append(u, x)) = Range(u) \cup {x}
  <2>1. /\ Append(u, x) \in Seq(S) /\ Len(Append(u, x)) = Len(u) + 1
        /\ Append(u, x)[Len(u) + 1] = x
        /\ \A i \in 1 .. Len(u) : Append(u, x)[i] = u[i]
    BY AppendProperties
  <2>2. DOMAIN Append(u, x) = 1 .. Len(u) + 1
    BY <1>1, <2>1
  <2>3. \A y \in Range(Append(u, x)) : y \in Range(u) \cup {x}
    BY <1>1, <2>1, <2>2 DEF Range
  <2>4. \A y \in Range(u) \cup {x} : y \in Range(Append(u, x))
    <3>1. Len(u) + 1 \in DOMAIN Append(u, x)
            /\ \A i \in DOMAIN u : i \in DOMAIN Append(u, x)
      BY <1>1, <2>2
    <3> QED
      BY <1>1, <2>1, <3>1 DEF Range
  <2> QED
    BY <2>3, <2>4
<1>3. ASSUME u # <<>>
      PROVE  Range(u) = Range(Tail(u)) \cup {Head(u)}
  <2>1. /\ Head(u) = u[1] /\ Tail(u) \in Seq(S) /\ Len(u) >= 1
        /\ Len(Tail(u)) = Len(u) - 1
        /\ \A i \in 1 .. Len(u) - 1 : Tail(u)[i] = u[i + 1]
    BY <1>3, TailFacts
  <2>2. DOMAIN Tail(u) = 1 .. Len(u) - 1
    BY <2>1
  <2>3. ASSUME NEW i \in DOMAIN u
        PROVE  u[i] \in Range(Tail(u)) \cup {Head(u)}
    <3>1. CASE i = 1
      BY <2>1, <3>1
    <3>2. CASE i # 1
      <4>1. i - 1 \in 1 .. Len(u) - 1 /\ (i - 1) + 1 = i
        BY <1>1, <3>2
      <4>2. Tail(u)[i - 1] = u[i] /\ i - 1 \in DOMAIN Tail(u)
        BY <2>1, <2>2, <4>1
      <4> QED
        BY <4>2 DEF Range
    <3> QED
      BY <3>1, <3>2
  <2>4. ASSUME NEW i \in DOMAIN Tail(u)
        PROVE  Tail(u)[i] \in Range(u)
    <3>1. i + 1 \in DOMAIN u /\ Tail(u)[i] = u[i + 1]
      BY <1>1, <2>1, <2>2
    <3> QED
      BY <3>1 DEF Range
  <2>5. Head(u) \in Range(u)
    BY <1>1, <2>1 DEF Range
  <2> QED
    BY <2>3, <2>4, <2>5 DEF Range
<1> QED
  BY <1>2, <1>3

\* handshake, waiting alone, gets the answer of an open node.
LEMMA FirstAck ==
  ASSUME NEW p \in Pages, p.waiters = <<"handshake">>, p.inbox = <<>>
  PROVE  LET q == OnFrame(p, Ack(FALSE))
         IN  /\ q.state = "ready" /\ q.needsPassword = p.needsPassword
             /\ q.waiters = <<"receiveLoop">> /\ q.inbox = <<>>
             /\ q.taken = p.taken
<1>1. PICK r : r = [p EXCEPT !.waiters = Tail(p.waiters)]
  OBVIOUS
<1>2. PICK w : w = [r EXCEPT !.state = "ready"]
  OBVIOUS
<1>3. PICK q : q = [w EXCEPT !.taken = w.taken \o w.inbox, !.inbox = <<>>,
                             !.waiters = Append(w.waiters, "receiveLoop")]
  OBVIOUS
<1>4. Head(p.waiters) = "handshake" /\ Tail(p.waiters) = <<>> /\ p.waiters # <<>>
  OBVIOUS
<1>5. w.state = "ready" /\ w.taken = p.taken /\ w.inbox = <<>> /\ w.waiters = <<>>
        /\ w.needsPassword = p.needsPassword
  BY <1>1, <1>2, <1>4 DEF Pages
<1>6. OnFrame(p, Ack(FALSE)) = Greeted(r, Ack(FALSE))
  BY <1>1, <1>4 DEF OnFrame
<1>7. Greeted(r, Ack(FALSE)) = ReceiveLoop(w)
  BY <1>2, FrameFacts DEF Greeted
<1>8. ReceiveLoop(w) = q
  BY <1>3, <1>5 DEF ReceiveLoop
<1>9. w.taken \o w.inbox = p.taken /\ Append(w.waiters, "receiveLoop") = <<"receiveLoop">>
  <2>1. p.taken \in Seq(FromServer)
    BY PageFacts
  <2>2. p.taken \o <<>> = p.taken
    BY <2>1, ConcatProperties, SeqEqual, EmptySeq
  <2> QED
    BY <1>5, <2>2
<1>10. /\ q.state = w.state /\ q.needsPassword = w.needsPassword
       /\ q.inbox = <<>> /\ q.taken = w.taken \o w.inbox
       /\ q.waiters = Append(w.waiters, "receiveLoop")
  BY <1>1, <1>2, <1>3 DEF Pages
<1> QED
  BY <1>5, <1>6, <1>7, <1>8, <1>9, <1>10

\* receiveLoop, waiting alone, takes a frame and waits again.
LEMMA FirstTaken ==
  ASSUME NEW p \in Pages, p.waiters = <<"receiveLoop">>, p.inbox = <<>>,
         p.state = "ready", NEW f \in FromServer
  PROVE  LET q == OnFrame(p, f)
         IN  /\ q.state = "ready" /\ q.needsPassword = p.needsPassword
             /\ q.waiters = <<"receiveLoop">> /\ q.inbox = <<>>
             /\ q.taken = Append(p.taken, f)
<1>1. PICK r : r = [p EXCEPT !.waiters = Tail(p.waiters)]
  OBVIOUS
<1>2. PICK w : w = [r EXCEPT !.taken = Append(r.taken, f)]
  OBVIOUS
<1>3. PICK q : q = [w EXCEPT !.taken = w.taken \o w.inbox, !.inbox = <<>>,
                             !.waiters = Append(w.waiters, "receiveLoop")]
  OBVIOUS
<1>4. Head(p.waiters) = "receiveLoop" /\ Tail(p.waiters) = <<>> /\ p.waiters # <<>>
  OBVIOUS
<1>5. w.state = "ready" /\ w.taken = Append(p.taken, f) /\ w.inbox = <<>>
        /\ w.waiters = <<>> /\ w.needsPassword = p.needsPassword
  BY <1>1, <1>2, <1>4 DEF Pages
<1>6. OnFrame(p, f) = ReceiveLoop(w)
  BY <1>1, <1>2, <1>4 DEF OnFrame
<1>8. ReceiveLoop(w) = q
  BY <1>3, <1>5 DEF ReceiveLoop
<1>9. w.taken \o w.inbox = Append(p.taken, f)
        /\ Append(w.waiters, "receiveLoop") = <<"receiveLoop">>
  <2>1. Append(p.taken, f) \in Seq(FromServer)
    BY PageFacts, AppendProperties
  <2>2. Append(p.taken, f) \o <<>> = Append(p.taken, f)
    BY <2>1, ConcatProperties, SeqEqual, EmptySeq
  <2> QED
    BY <1>5, <2>2
<1>10. /\ q.state = w.state /\ q.needsPassword = w.needsPassword
       /\ q.inbox = <<>> /\ q.taken = w.taken \o w.inbox
       /\ q.waiters = Append(w.waiters, "receiveLoop")
  BY <1>1, <1>2, <1>3 DEF Pages
<1> QED
  BY <1>5, <1>6, <1>8, <1>9, <1>10

\* Before the first socket opens,
Fresh ==
  /\ page.state = "connecting" /\ ~ page.needsPassword
  /\ page.waiters = <<>> /\ page.inbox = <<>>

\* until the answer to its HELLO is there,
Waiting ==
  /\ page.state = "connecting" /\ page.waiters = <<"handshake">>
  /\ served[1] = 0 => toPage[1] = <<>> /\ relayed[1] = 0
  /\ served[1] # 0 =>
       /\ toPage[1] # <<>> /\ Head(toPage[1]) = Ack(FALSE)
       /\ \A n \in 1 .. relayed[1] : Relayed(1, n) \in Range(toPage[1])

\* and then.
Showing ==
  /\ page.state = "ready" /\ page.waiters = <<"receiveLoop">> /\ served[1] # 0
  /\ \A n \in 1 .. relayed[1] :
       Relayed(1, n) \in Range(page.taken) \cup Range(toPage[1])

Opened ==
  /\ page.inbox = <<>> /\ ~ page.needsPassword
  /\ \A k \in 2 .. Len(toServer[1]) : toServer[1][k] # Hello
  /\ Waiting \/ Showing

First ==
  ~ protected =>
    /\ Len(phase) = 0 => Fresh
    /\ Len(phase) = 1 /\ phase[1] = "connecting" =>
         Fresh /\ toPage[1] = <<>> /\ served[1] = 0 /\ relayed[1] = 0
    /\ Len(phase) = 1 /\ phase[1] = "open" => Opened

LEMMA InitFirst == Init => First
<1> SUFFICES ASSUME Init
             PROVE  First
  OBVIOUS
<1>1. Len(phase) = 0 /\ Fresh
  BY DEF Init, Fresh
<1> QED
  BY <1>1 DEF First

\* One step of the only socket.
LEMMA OpensFirst ==
  ASSUME Types, Types', Greeting, First, NEW s \in Sockets, Opens(s)
  PROVE  First'
<1> SUFFICES ASSUME ~ protected, Len(phase) = 1
             PROVE  phase'[1] = "open" /\ Opened'
  BY OpensEffect, SocketFacts DEF First
<1>1. s = 1 /\ Current = 1 /\ Sockets = {1}
  BY SocketFacts DEF Current
<1>2. /\ phase[1] = "connecting" /\ phase'[1] = "open"
      /\ toServer'[1] = Append(toServer[1], Hello)
      /\ page' = AwaitAck(page)
      /\ UNCHANGED <<protected, chains, inits, timers, toPage, served, relayed>>
  BY <1>1, OpensEffect
<1>3. /\ Fresh /\ toPage[1] = <<>> /\ served[1] = 0 /\ relayed[1] = 0
      /\ toServer[1] = <<>> /\ page \in Pages
  BY <1>1, <1>2 DEF First, Greeting, Types, Calm
<1>4. page' = [page EXCEPT !.waiters = Append(page.waiters, "handshake")]
  BY <1>2, <1>3 DEF AwaitAck, Fresh
<1>5. /\ page'.state = "connecting" /\ page'.inbox = <<>> /\ ~ page'.needsPassword
      /\ page'.waiters = <<"handshake">>
  BY <1>3, <1>4 DEF Pages, Fresh
<1>6. Len(toServer'[1]) = 1
  BY <1>2, <1>3
<1> QED
  BY <1>2, <1>3, <1>5, <1>6 DEF Opened, Waiting

LEMMA MessageFirst ==
  ASSUME Types, Types', First, NEW s \in Sockets, Message(s)
  PROVE  First'
<1> SUFFICES ASSUME ~ protected, Len(phase) = 1
             PROVE  phase[1] = "open" /\ Opened'
  BY MessageEffect, SocketFacts DEF First
<1>1. s = 1 /\ toPage[1] \in Seq(FromServer) /\ page \in Pages
        /\ page.taken \in Seq(FromServer)
  BY SocketFacts, PageFacts DEF Types, Calm
<1>2. /\ phase[1] = "open" /\ toPage[1] # <<>> /\ Head(toPage[1]) \in FromServer
      /\ toPage'[1] = Tail(toPage[1])
      /\ page' = OnFrame(page, Head(toPage[1]))
      /\ UNCHANGED <<protected, chains, inits, phase, timers, toServer, served,
                     relayed>>
  BY <1>1, MessageEffect
<1>3. Opened
  BY <1>2 DEF First
<1>4. Range(toPage[1]) = Range(toPage'[1]) \cup {Head(toPage[1])}
  BY <1>1, <1>2, RangeFacts
<1>5. CASE Waiting
  <2>1. /\ served[1] # 0 /\ Head(toPage[1]) = Ack(FALSE)
        /\ \A n \in 1 .. relayed[1] : Relayed(1, n) \in Range(toPage[1])
    BY <1>2, <1>5 DEF Waiting
  <2>2. /\ page'.state = "ready" /\ page'.needsPassword = page.needsPassword
        /\ page'.waiters = <<"receiveLoop">> /\ page'.inbox = <<>>
        /\ page'.taken = page.taken
    BY <1>1, <1>2, <1>3, <1>5, <2>1, FirstAck DEF Waiting, Opened
  <2>3. \A n \in 1 .. relayed[1] : Relayed(1, n) # Ack(FALSE)
    BY DEF Relayed, Ack
  <2>4. \A n \in 1 .. relayed[1] : Relayed(1, n) \in Range(toPage'[1])
    BY <1>4, <2>1, <2>3
  <2> QED
    BY <1>2, <1>3, <2>1, <2>2, <2>4 DEF Opened, Showing
<1>6. CASE Showing
  <2>1. /\ page'.state = "ready" /\ page'.needsPassword = page.needsPassword
        /\ page'.waiters = <<"receiveLoop">> /\ page'.inbox = <<>>
        /\ page'.taken = Append(page.taken, Head(toPage[1]))
    BY <1>1, <1>2, <1>3, <1>6, FirstTaken DEF Showing, Opened
  <2>2. Range(page'.taken) = Range(page.taken) \cup {Head(toPage[1])}
    <3>1. \A u \in Seq(FromServer), x \in FromServer :
            Range(Append(u, x)) = Range(u) \cup {x}
      BY RangeFacts
    <3> QED
      BY <1>1, <1>2, <2>1, <3>1
  <2>3. \A n \in 1 .. relayed[1] :
          Relayed(1, n) \in Range(page'.taken) \cup Range(toPage'[1])
    BY <1>4, <1>6, <2>2 DEF Showing
  <2> QED
    BY <1>2, <1>3, <1>6, <2>1, <2>3 DEF Opened, Showing
<1> QED
  BY <1>2, <1>3, <1>5, <1>6 DEF Opened

LEMMA AnswerFirst ==
  ASSUME Types, Types', Greeting, First, NEW s \in Sockets, Answer(s)
  PROVE  First'
<1> SUFFICES ASSUME ~ protected, Len(phase) = 1
             PROVE  phase[1] = "open" /\ Opened'
  BY AnswerEffect, SocketFacts DEF First
<1>1. /\ s = 1 /\ 1 \in Sockets /\ toPage[1] \in Seq(FromServer)
      /\ toServer[1] \in Seq(FromPage) /\ served[1] \in Nat /\ protected = FALSE
      /\ Len(toServer[1]) \in Nat
  BY SocketFacts DEF Types
<1>2. /\ phase[1] = "open" /\ served[1] < Len(toServer[1])
      /\ served'[1] = served[1] + 1
      /\ IF toServer[1][served[1] + 1] # Hello THEN toPage' = toPage
         ELSE toPage'[1] = Append(toPage[1], IF served[1] = 0 THEN Ack(FALSE)
                                             ELSE Error)
      /\ UNCHANGED <<protected, chains, inits, page, phase, timers, toServer,
                     relayed>>
  BY <1>1, AnswerEffect
<1>3. Opened
  BY <1>2 DEF First
<1>4. served'[1] # 0
  BY <1>1, <1>2
<1>5. CASE served[1] = 0
  <2>1. Waiting /\ toPage[1] = <<>> /\ relayed[1] = 0
    BY <1>3, <1>5 DEF Opened, Waiting, Showing
  <2>2. toServer[1] # <<>> /\ Head(toServer[1]) = toServer[1][1]
    BY <1>1, <1>2, <1>5, TailFacts
  <2>3. toServer[1][1] = Hello
    BY <1>1, <2>2 DEF Greeting, HelloFirst
  <2>a. toServer[1][served[1] + 1] = Hello
    BY <1>5, <2>3
  <2>4. toPage'[1] = Append(<<>>, Ack(FALSE))
    BY <1>2, <1>5, <2>1, <2>a
  <2>5. toPage'[1] # <<>> /\ Head(toPage'[1]) = Ack(FALSE)
    BY <2>4, FrameFacts, AppendFacts
  <2>6. relayed'[1] = 0 /\ \A n \in 1 .. 0 : FALSE
    BY <1>2, <2>1
  <2>7. Waiting'
    BY <1>2, <1>4, <2>1, <2>5, <2>6 DEF Waiting
  <2> QED
    BY <1>2, <1>3, <2>7 DEF Opened
<1>6. CASE served[1] # 0
  <2>1. served[1] + 1 \in 2 .. Len(toServer[1])
    BY <1>1, <1>2, <1>6
  <2>2. toPage' = toPage
    BY <1>2, <1>3, <2>1 DEF Opened
  <2> QED
    BY <1>2, <1>3, <1>4, <1>6, <2>2 DEF Opened, Waiting, Showing
<1> QED
  BY <1>5, <1>6

LEMMA RelayFirst ==
  ASSUME Types, Types', First, NEW s \in Sockets, Relay(s)
  PROVE  First'
<1> SUFFICES ASSUME ~ protected, Len(phase) = 1
             PROVE  phase[1] = "open" /\ Opened'
  BY RelayEffect, SocketFacts DEF First
<1>1. s = 1 /\ toPage[1] \in Seq(FromServer) /\ relayed[1] \in Nat
        /\ served[1] \in Nat
  BY SocketFacts
<1>2. /\ phase[1] = "open" /\ served[1] > 0
      /\ relayed'[1] = relayed[1] + 1
      /\ Relayed(1, relayed[1] + 1) \in FromServer
      /\ toPage'[1] = Append(toPage[1], Relayed(1, relayed[1] + 1))
      /\ UNCHANGED <<protected, chains, inits, page, phase, timers, toServer,
                     served>>
  BY <1>1, RelayEffect
<1>3. Opened
  BY <1>2 DEF First
<1>4. Range(toPage'[1]) = Range(toPage[1]) \cup {Relayed(1, relayed[1] + 1)}
  BY <1>1, <1>2, RangeFacts
<1>5. \A n \in 1 .. relayed'[1] : n \in 1 .. relayed[1] \/ n = relayed[1] + 1
  BY <1>1, <1>2
<1>6. CASE Waiting
  <2>0. served[1] # 0
    BY <1>1, <1>2
  <2>1. /\ toPage[1] # <<>> /\ Head(toPage[1]) = Ack(FALSE)
        /\ \A n \in 1 .. relayed[1] : Relayed(1, n) \in Range(toPage[1])
    BY <2>0, <1>6 DEF Waiting
  <2>a. \A u \in Seq(FromServer), x \in FromServer :
          Append(u, x) # <<>> /\ (u # <<>> => Head(Append(u, x)) = Head(u))
    BY AppendFacts
  <2>2. toPage'[1] # <<>> /\ Head(toPage'[1]) = Ack(FALSE)
    BY <1>1, <1>2, <2>1, <2>a, Zenon
  <2>3. \A n \in 1 .. relayed'[1] : Relayed(1, n) \in Range(toPage'[1])
    BY <1>4, <1>5, <2>1
  <2> QED
    BY <1>2, <1>3, <1>6, <2>0, <2>2, <2>3 DEF Opened, Waiting
<1>7. CASE Showing
  <2>1. \A n \in 1 .. relayed'[1] :
          Relayed(1, n) \in Range(page.taken) \cup Range(toPage'[1])
    BY <1>4, <1>5, <1>7 DEF Showing
  <2> QED
    BY <1>2, <1>3, <1>7, <2>1 DEF Opened, Showing
<1> QED
  BY <1>2, <1>3, <1>6, <1>7 DEF Opened

LEMMA SendFirst ==
  ASSUME Types, Types', First, Send
  PROVE  First'
<1>1. /\ page.state = "ready" /\ page \in Pages
      /\ page' = [page EXCEPT !.said = page.said + 1]
      /\ \A s \in Sockets :
           toServer'[s] = toServer[s] \/ toServer'[s] = Append(toServer[s], Chat)
      /\ UNCHANGED <<protected, chains, inits, phase, timers, toPage, served,
                     relayed>>
  BY SendEffect DEF Types, Calm
<1>2. /\ page'.state = page.state /\ page'.waiters = page.waiters
      /\ page'.inbox = page.inbox /\ page'.taken = page.taken
      /\ page'.needsPassword = page.needsPassword
  BY <1>1 DEF Pages
<1>3. CASE ~ protected /\ Len(phase) = 1 /\ phase[1] = "open"
  <2>1. Opened /\ 1 \in Sockets /\ toServer[1] \in Seq(FromPage)
    BY <1>3, SocketFacts DEF First
  <2>2. \A k \in 2 .. Len(toServer'[1]) : toServer'[1][k] # Hello
    <3>1. CASE toServer'[1] = toServer[1]
      BY <2>1, <3>1 DEF Opened
    <3>2. CASE toServer'[1] = Append(toServer[1], Chat)
      <4>1. /\ Len(toServer'[1]) = Len(toServer[1]) + 1 /\ Len(toServer[1]) \in Nat
            /\ toServer'[1][Len(toServer[1]) + 1] = Chat
            /\ \A k \in 1 .. Len(toServer[1]) : toServer'[1][k] = toServer[1][k]
        BY <2>1, <3>2, AppendProperties DEF FromPage
      <4> QED
        BY <2>1, <4>1, HelloIsNotChat DEF Opened
    <3> QED
      BY <1>1, <2>1, <3>1, <3>2
  <2>3. Opened'
    BY <1>1, <1>2, <2>1, <2>2 DEF Opened, Waiting, Showing
  <2> QED
    BY <1>1, <1>3, <2>3 DEF First
<1>4. CASE ~ protected /\ Len(phase) <= 1 /\ ~ (Len(phase) = 1 /\ phase[1] = "open")
  BY <1>1, <1>2, <1>4 DEF First, Fresh
<1> QED
  BY <1>1, <1>3, <1>4, SocketFacts DEF First

LEMMA FirstKept ==
  Types /\ Types' /\ Greeting /\ First /\ [Next]_vars => First'
<1> SUFFICES ASSUME Types, Types', Greeting, First, [Next]_vars
             PROVE  First'
  OBVIOUS
<1>0. Len(phase) \in Nat /\ Sockets = 1 .. Len(phase) /\ page \in Pages
  BY SocketFacts DEF Types, Calm
<1>1. ASSUME Connect
      PROVE  First'
  <2>1. Appended /\ page' = [page EXCEPT !.state = "connecting"]
    BY <1>1, ConnectPage
  <2>2. /\ Len(phase') = Len(phase) + 1 /\ protected' = protected
        /\ phase'[Len(phase) + 1] = "connecting"
        /\ toPage'[Len(phase) + 1] = <<>>
        /\ served'[Len(phase) + 1] = 0 /\ relayed'[Len(phase) + 1] = 0
    BY <2>1, AppendedFacts DEF Appended
  <2>3. /\ page'.state = "connecting" /\ page'.waiters = page.waiters
        /\ page'.inbox = page.inbox /\ page'.needsPassword = page.needsPassword
    BY <1>0, <2>1 DEF Pages
  <2>4. CASE Len(phase) = 0
    BY <2>2, <2>3, <2>4 DEF First, Fresh
  <2>5. CASE Len(phase) # 0
    BY <1>0, <2>2, <2>5 DEF First
  <2> QED
    BY <2>4, <2>5
<1>2. CASE CallInit \/ Timer
  BY <1>1, <1>2 DEF CallInit, Timer
<1>3. ASSUME NEW s \in Sockets, NEW failed \in BOOLEAN, Closes(s, failed)
      PROVE  First'
  <2>1. Len(phase') = Len(phase) /\ phase'[s] = "closed"
    BY <1>3, ClosesEffect
  <2>2. Len(phase) = 1 => s = 1
    BY <1>0
  <2>3. Len(phase) # 0
    BY <1>0
  <2> QED
    BY <2>1, <2>2, <2>3 DEF First
<1>4. CASE Authenticate
  <2>1. page.needsPassword /\ UNCHANGED <<protected, phase>>
    BY <1>4, AuthenticateEffect
  <2> QED
    BY <2>1 DEF First, Fresh, Opened
<1>5. CASE UNCHANGED vars
  BY <1>5 DEF vars, server, First, Fresh, Opened, Waiting, Showing
<1> QED
  BY <1>2, <1>3, <1>4, <1>5, OpensFirst, MessageFirst, AnswerFirst, RelayFirst,
     SendFirst DEF Next, Socket

LEMMA FirstShows == Types /\ First => FirstConnectionShows
<1> SUFFICES ASSUME Types, First, ~ protected, Len(phase) = 1, phase[1] = "open",
                    NEW n \in 1 .. relayed[1]
             PROVE  Relayed(1, n) \in Range(page.taken) \cup Range(toPage[1])
  BY DEF FirstConnectionShows
<1>1. Waiting \/ Showing
  BY DEF First, Opened
<1>2. relayed[1] # 0
  OBVIOUS
<1> QED
  BY <1>1, <1>2 DEF Waiting, Showing

-----------------------------------------------------------------------------
(***************************************************************************)
(* The theorems                                                            *)
(***************************************************************************)

IInv == Types /\ ReconnectsConserved /\ Greeting /\ Order /\ First

LEMMA TypesTypeOK == Types => TypeOK
<1> SUFFICES ASSUME Types
             PROVE  TypeOK
  OBVIOUS
<1>1. PageType(page)
  <2>1. page \in Pages /\ (page.waiters = <<>> \/ page.inbox = <<>>)
    BY DEF Types, Calm
  <2>2. page.waiters \in Seq(Loops)
    BY <2>1, PageFacts
  <2>3. \A i \in 1 .. Len(page.waiters) : page.waiters[i] \in Loops
    BY <2>2, ElementOfSeq
  <2> QED
    BY <2>1, <2>3, PageFacts DEF PageType, Loops
<1>2. /\ Sockets = 1 .. Len(phase)
      /\ \A s \in Sockets : phase[s] \in Phases /\ served[s] <= Len(toServer[s])
  BY SocketFacts
<1>3. /\ DOMAIN toPage = Sockets /\ DOMAIN toServer = Sockets
      /\ served \in [Sockets -> Nat] /\ relayed \in [Sockets -> 0 .. MaxRelayed]
  <2>1. /\ toPage \in [1 .. Len(phase) -> Seq(FromServer)]
        /\ toServer \in [1 .. Len(phase) -> Seq(FromPage)]
        /\ served \in [1 .. Len(phase) -> Nat]
        /\ relayed \in [1 .. Len(phase) -> 0 .. MaxRelayed]
    <3>1. \A u, S : u \in Seq(S) => u \in [1 .. Len(u) -> S]
      OBVIOUS
    <3> QED
      BY <3>1 DEF Types
  <2> QED
    BY <1>2, <2>1
<1> QED
  BY <1>1, <1>2, <1>3 DEF TypeOK, Types, Phases

LEMMA SpecIInv == Spec => []IInv
<1>1. Init => IInv
  BY InitTypes, InitReconnects, InitGreeting, InitOrder, InitFirst DEF IInv
<1>2. IInv /\ [Next]_vars => IInv'
  BY TypesKept, ReconnectsKept, GreetingKept, OrderKept, FirstKept DEF IInv
<1> QED
  BY <1>1, <1>2, PTL DEF Spec

\* Types and bounds of every field of the page and every socket's streams; no
\* frame waits in the inbox while a loop of the page waits for one.
THEOREM TypeCorrect == Spec => []TypeOK
<1>1. IInv => TypeOK
  BY TypesTypeOK DEF IInv
<1> QED
  BY <1>1, SpecIInv, PTL

\* connect, onerror and onclose: however often the page starts, and however
\* sockets end, each call of init keeps one connection or timer going.
THEOREM OneConnectionEach == Spec => []ReconnectsConserved
<1>1. IInv => ReconnectsConserved
  BY DEF IInv
<1> QED
  BY <1>1, SpecIInv, PTL

\* handshake and sendFrame: the first frame on every socket is HELLO.
THEOREM GreetsFirst == Spec => []HelloFirst
<1>1. IInv => HelloFirst
  BY DEF IInv, Greeting
<1> QED
  BY <1>1, SpecIInv, PTL

\* onFrame, recvFrame and receiveLoop: what the loops take of a connection they
\* take once and in the order it was sent, over any number of connections.
THEOREM ShownInOrder == Spec => []ShownOnceInOrder
<1>1. IInv => ShownOnceInOrder
  BY OrderShows DEF IInv
<1> QED
  BY <1>1, SpecIInv, PTL

\* A page on its first connection to an open node has taken every message that
\* has arrived.
THEOREM FirstConnectionComplete == Spec => []FirstConnectionShows
<1>1. IInv => FirstConnectionShows
  BY FirstShows DEF IInv
<1> QED
  BY <1>1, SpecIInv, PTL
=============================================================================
