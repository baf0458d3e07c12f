-------------------------- MODULE ChatServerProofs --------------------------
(***************************************************************************)
(* Proofs about ChatServer for any number of connections, browsers and     *)
(* messages, and any wrong frames within the scenario: in which order      *)
(* sealed frames leave, who is admitted before it gets or sends a message, *)
(* and what a client that makes no mistake is sent.                        *)
(***************************************************************************)
EXTENDS ChatServer, FiniteSetTheorems, SequenceTheorems, TLAPS

\* What a thread works on while it relays.
Relaying ==
  \A c \in Conns :
    /\ pc[c] \in {"broadcast", "fanout", "sending", "drop"} =>
         message[c] \in Messages /\ message[c].from = c
    /\ pc[c] \in {"sending", "drop"} => recipients[c] # <<>>
    /\ pc[c] = "sending" => frame[c] \in FromServer /\ IsMessage(frame[c])
                              /\ frame[c].msg.from = c

\* What a client sends as a message is its own.
OwnMessages ==
  \A c \in Conns : \A i \in 1 .. Len(inbox[c]) :
    (inbox[c][i].type = "chat" \/ (inbox[c][i].type = "sealed" /\ inbox[c][i].good))
      => inbox[c][i].msg.from = c

WellTyped == TypeOK /\ Relaying /\ OwnMessages

-----------------------------------------------------------------------------
LEMMA ClientFrames ==
  /\ Hello \in FromClient /\ Other \in FromClient /\ Malformed \in FromClient
  /\ BadSealed \in FromClient
  /\ \A g \in BOOLEAN : Proof(g) \in FromClient
  /\ \A m \in Messages : SealedBy(m) \in FromClient /\ ChatBy(m) \in FromClient
  BY DEF FromClient, Hello, Other, Malformed, BadSealed, Proof, SealedBy, ChatBy

LEMMA ClientMessages ==
  ASSUME NEW f \in FromClient,
         f.type = "chat" \/ (f.type = "sealed" /\ f.good)
  PROVE  f.msg \in Messages
<1>1. f \notin {Hello, Other, Malformed} \cup {Proof(g) : g \in BOOLEAN}
  BY DEF Hello, Other, Malformed, Proof
<1>2. f # BadSealed
  <2>1. BadSealed.type = "sealed" /\ ~ BadSealed.good
    BY DEF BadSealed
  <2> QED
    BY <2>1
<1> QED
  BY <1>1, <1>2 DEF FromClient

LEMMA ServerFrames ==
  /\ HelloAck \in FromServer /\ AuthOk \in FromServer /\ AuthFail \in FromServer
  /\ \A f : Error(ErrorCode(f)) \in FromServer
  /\ \A m \in Messages : ChatBy(m) \in FromServer
  BY DEF FromServer, HelloAck, AuthOk, AuthFail, Error, ErrorCode, ChatBy

LEMMA OutgoingFrames ==
  ASSUME TypeOK, NEW r \in Conns, NEW n \in Nat, NEW m \in Messages
  PROVE  /\ Outgoing(r, n, m) \in FromServer
         /\ IsMessage(Outgoing(r, n, m))
         /\ Outgoing(r, n, m).msg = m
  BY DEF TypeOK, Outgoing, FromServer, SealedFrames, IsMessage

LEMMA SealedNumbers ==
  ASSUME NEW f \in FromServer, f.type = "sealed"
  PROVE  f.seq \in Nat
  BY DEF FromServer, SealedFrames, HelloAck, AuthOk, AuthFail, Error

LEMMA RepliesAreNoMessages ==
  /\ ~ IsMessage(HelloAck) /\ ~ IsMessage(AuthOk) /\ ~ IsMessage(AuthFail)
  /\ \A f : ~ IsMessage(Error(f))
  BY DEF IsMessage, HelloAck, AuthOk, AuthFail, Error

LEMMA TypeInit == Init => WellTyped
  BY ChatServerAssumption
  DEF Init, WellTyped, TypeOK, Relaying, OwnMessages, Places, FromServer, FromClient

\* Reading a frame keeps the types and, in what is left, the senders.
LEMMA ReceiveTyped ==
  ASSUME WellTyped, NEW c \in Conns, NEW label, Receive(c, label)
  PROVE  /\ Head(inbox[c]) \in FromClient
         /\ inbox' \in [Conns -> Seq(FromClient)]
         /\ OwnMessages'
         /\ LET f == Head(inbox[c])
            IN  f.type = "chat" \/ (f.type = "sealed" /\ f.good) =>
                  f.msg \in Messages /\ f.msg.from = c
         /\ UNCHANGED <<fixed, clients>>
<1>1. inbox[c] \in Seq(FromClient) /\ inbox[c] # <<>>
  BY DEF WellTyped, TypeOK, Receive
<1>2. /\ Head(inbox[c]) = inbox[c][1] /\ 1 \in 1 .. Len(inbox[c])
      /\ Head(inbox[c]) \in FromClient
      /\ Tail(inbox[c]) \in Seq(FromClient)
      /\ \A i \in 1 .. Len(Tail(inbox[c])) :
           i + 1 \in 1 .. Len(inbox[c]) /\ Tail(inbox[c])[i] = inbox[c][i + 1]
  BY <1>1
<1>3. inbox' = [inbox EXCEPT ![c] = Tail(@)]
  BY DEF Receive
<1>4. inbox' \in [Conns -> Seq(FromClient)]
  BY <1>2, <1>3 DEF WellTyped, TypeOK
<1>5. OwnMessages'
  <2> SUFFICES ASSUME NEW d \in Conns, NEW i \in 1 .. Len(inbox'[d]),
                      \/ inbox'[d][i].type = "chat"
                      \/ inbox'[d][i].type = "sealed" /\ inbox'[d][i].good
               PROVE  inbox'[d][i].msg.from = d
    BY DEF OwnMessages
  <2>1. CASE d = c
    <3>1. inbox'[d] = Tail(inbox[c])
      BY <1>3, <2>1 DEF WellTyped, TypeOK
    <3> QED
      BY <1>2, <2>1, <3>1 DEF WellTyped, OwnMessages
  <2>2. CASE d # c
    BY <1>3, <2>2 DEF WellTyped, TypeOK, OwnMessages
  <2> QED
    BY <2>1, <2>2
<1>6. LET f == Head(inbox[c])
      IN  f.type = "chat" \/ (f.type = "sealed" /\ f.good) =>
            f.msg \in Messages /\ f.msg.from = c
  BY <1>2, ClientMessages DEF WellTyped, OwnMessages
<1> QED
  BY <1>2, <1>4, <1>5, <1>6 DEF Receive

LEMMA ReplyTyped ==
  ASSUME WellTyped, NEW c \in Conns, NEW label \in Places, NEW f \in FromServer,
         Receive(c, pc[c]), Reply(c, f, label), UNCHANGED shared,
         label \notin {"broadcast", "fanout", "sending", "drop"}
  PROVE  WellTyped'
<1> USE DEF WellTyped
<1>1. /\ inbox' \in [Conns -> Seq(FromClient)] /\ OwnMessages'
      /\ UNCHANGED <<fixed, clients>>
  BY ReceiveTyped
<1>2. wire' \in [Conns -> Seq(FromServer)] /\ pc' \in [Conns -> Places]
  <2>1. Append(wire[c], f) \in Seq(FromServer)
    BY DEF TypeOK
  <2>2. "finally" \in Places
    BY DEF Places
  <2>3. /\ \/ wire' = [wire EXCEPT ![c] = Append(@, f)]
           \/ UNCHANGED wire
        /\ pc' = [pc EXCEPT ![c] = label] \/ pc' = [pc EXCEPT ![c] = "finally"]
    BY DEF Reply, Goto
  <2>4. wire' \in [Conns -> Seq(FromServer)]
    <3>1. wire \in [Conns -> Seq(FromServer)]
      BY DEF TypeOK
    <3> QED
      BY <2>1, <2>3, <3>1
  <2>5. pc' \in [Conns -> Places]
    <3>1. pc \in [Conns -> Places]
      BY DEF TypeOK
    <3> QED
      BY <2>2, <2>3, <3>1
  <2> QED
    BY <2>4, <2>5
<1>3. TypeOK'
  BY <1>1, <1>2 DEF TypeOK, Reply, shared, fixed, clients
<1>4. Relaying'
  BY DEF Relaying, Reply, Goto, TypeOK
<1> QED
  BY <1>1, <1>3, <1>4

LEMMA TypeStep == WellTyped /\ [Next]_vars => WellTyped'
<1> SUFFICES ASSUME WellTyped, [Next]_vars
             PROVE  WellTyped'
  OBVIOUS
<1> USE DEF WellTyped
<1>0. CASE UNCHANGED vars
  BY <1>0 DEF vars, fixed, thread, shared, clients, TypeOK, Relaying, OwnMessages
<1>1. ASSUME NEW c \in Conns, Greet(c) \/ RefuseGreeting(c) \/ Authenticate(c)
                              \/ RefuseProof(c) \/ RefuseFrame(c)
      PROVE  WellTyped'
  <2>1. PICK label \in {"covenant", "register", "authenticated", "finally", "loop"},
             f \in FromServer : Reply(c, f, label)
    <3>1. CASE Greet(c)
      BY <3>1, ServerFrames DEF Greet
    <3>2. CASE RefuseGreeting(c)
      <4>1. Error(400) \in FromServer
        BY DEF Error, FromServer
      <4> QED
        BY <3>2, <4>1 DEF RefuseGreeting
    <3>3. CASE Authenticate(c) \/ RefuseProof(c)
      BY <3>3, ServerFrames DEF Authenticate, RefuseProof
    <3>4. CASE RefuseFrame(c)
      BY <3>4, ServerFrames DEF RefuseFrame
    <3> QED
      BY <1>1, <3>1, <3>2, <3>3, <3>4
  <2>3. Receive(c, pc[c])
    BY <1>1 DEF Greet, RefuseGreeting, Authenticate, RefuseProof, RefuseFrame, Receive
  <2>2. UNCHANGED shared
    BY <1>1 DEF Greet, RefuseGreeting, Authenticate, RefuseProof, RefuseFrame
  <2>4. label \in Places /\ label \notin {"broadcast", "fanout", "sending", "drop"}
    BY DEF Places
  <2> QED
    BY <2>1, <2>2, <2>3, <2>4, ReplyTyped
<1>2. ASSUME NEW c \in Conns, SetCompression(c)
      PROVE  WellTyped'
  BY <1>2 DEF SetCompression, Compresses, Goto, TypeOK, Relaying, OwnMessages,
    Places, fixed, clients
<1>3. ASSUME NEW c \in Conns, Register(c) \/ Hangup(c) \/ EndBroadcast(c)
                              \/ Unregister(c) \/ CloseSocket(c)
      PROVE  WellTyped'
  <2>1. /\ registry' \subseteq Conns
        /\ \E label \in {"loop", "finally", "closing", "done"} :
             pc' = [pc EXCEPT ![c] = label]
        /\ UNCHANGED <<fixed, message, recipients, frame, lock, compress, tx_seq,
                       inbox, wire, clients>>
    BY <1>3 DEF Register, Hangup, EndBroadcast, Unregister, CloseSocket, Goto,
      TypeOK, fixed, clients, shared
  <2>2. TypeOK'
    BY <2>1 DEF TypeOK, Places, fixed, clients
  <2>3. Relaying' /\ OwnMessages'
    BY <2>1 DEF TypeOK, Relaying, OwnMessages
  <2> QED
    BY <2>2, <2>3
<1>4. ASSUME NEW c \in Conns, TakeMessage(c)
      PROVE  WellTyped'
  <2>1. Receive(c, "loop") /\ pc' = [pc EXCEPT ![c] = "broadcast"]
    BY <1>4 DEF TakeMessage, Goto
  <2>2. PICK m \in Messages : m.from = c /\ message' = [message EXCEPT ![c] = m]
    BY <1>4, <2>1, ReceiveTyped DEF TakeMessage
  <2>3. /\ inbox' \in [Conns -> Seq(FromClient)] /\ OwnMessages'
        /\ UNCHANGED <<fixed, clients, recipients, frame, shared, wire>>
    BY <1>4, <2>1, ReceiveTyped DEF TakeMessage
  <2>4. TypeOK'
    BY <2>1, <2>2, <2>3 DEF TypeOK, fixed, clients, shared, Places
  <2>5. Relaying'
    BY <2>1, <2>2, <2>3 DEF TypeOK, Relaying
  <2> QED
    BY <2>3, <2>4, <2>5
<1>5. ASSUME NEW c \in Conns, Crash(c)
      PROVE  WellTyped'
  <2>1. Receive(c, pc[c]) /\ pc' = [pc EXCEPT ![c] = "finally"]
    BY <1>5 DEF Crash, Goto
  <2>2. /\ inbox' \in [Conns -> Seq(FromClient)] /\ OwnMessages'
        /\ UNCHANGED <<fixed, clients, message, recipients, frame, shared, wire>>
    BY <1>5, <2>1, ReceiveTyped DEF Crash
  <2> QED
    BY <2>1, <2>2 DEF TypeOK, Relaying, fixed, clients, shared, Places
<1>6. ASSUME NEW c \in Conns, Snapshot(c)
      PROVE  WellTyped'
  <2>1. PICK s \in Listings(registry \ {c}) :
          recipients' = [recipients EXCEPT ![c] = s]
    BY <1>6 DEF Snapshot
  <2>2. s \in Seq(Conns)
    <3>1. registry \ {c} \subseteq Conns
      BY DEF TypeOK
    <3>2. PICK n \in Nat : n = Cardinality(registry \ {c})
      BY <3>1, ChatServerAssumption, FS_Subset, FS_CardinalityType
    <3>3. s \in [1 .. n -> Conns]
      BY <3>1, <3>2 DEF Listings
    <3> QED
      BY <3>3
  <2> QED
    BY <1>6, <2>1, <2>2 DEF Snapshot, Goto, TypeOK, Relaying, OwnMessages, Places,
      fixed, clients, shared
<1>7. ASSUME NEW c \in Conns, StartDelivery(c)
      PROVE  WellTyped'
  <2> DEFINE r == Head(recipients[c])
             f == Outgoing(r, tx_seq[r] + 1, message[c])
  <2>1. r \in Conns /\ tx_seq[r] \in Nat /\ message[c] \in Messages
        /\ message[c].from = c
    <3>1. pc[c] = "fanout" /\ recipients[c] # <<>>
      BY <1>7 DEF StartDelivery
    <3>2. recipients[c] \in Seq(Conns) /\ tx_seq \in [Conns -> Nat]
      BY DEF TypeOK
    <3>3. r \in Conns
      BY <3>1, <3>2
    <3>4. message[c] \in Messages /\ message[c].from = c
      BY <3>1 DEF Relaying
    <3> QED
      BY <3>2, <3>3, <3>4
  <2>2. f \in FromServer /\ IsMessage(f) /\ f.msg = message[c]
    BY <2>1, OutgoingFrames
  <2>3. /\ frame' = [frame EXCEPT ![c] = f]
        /\ tx_seq' = IF protected THEN [tx_seq EXCEPT ![r] = @ + 1] ELSE tx_seq
        /\ lock' = [lock EXCEPT ![r] = c]
        /\ pc' = [pc EXCEPT ![c] = "sending"]
        /\ recipients[c] # <<>>
        /\ UNCHANGED <<fixed, message, recipients, registry, compress, inbox,
                       wire, clients>>
    BY <1>7 DEF StartDelivery, Goto, Acquire
  <2> HIDE DEF r, f
  <2>4. TypeOK'
    <3>1. lock' \in [Conns -> Conns \cup {NoOne}] /\ pc' \in [Conns -> Places]
      BY <2>3 DEF TypeOK, Places
    <3>2. frame' \in [Conns -> FromServer \cup {Hello}]
      BY <2>2, <2>3 DEF TypeOK
    <3>3. tx_seq' \in [Conns -> Nat]
      <4>1. tx_seq \in [Conns -> Nat] /\ tx_seq[r] + 1 \in Nat
        BY <2>1 DEF TypeOK
      <4>2. CASE protected
        BY <2>3, <4>1, <4>2
      <4>3. CASE ~ protected
        BY <2>3, <4>1, <4>3
      <4> QED
        BY <4>2, <4>3
    <3> QED
      BY <2>3, <3>1, <3>2, <3>3 DEF TypeOK, fixed, clients
  <2>5. Relaying' /\ OwnMessages'
    BY <2>1, <2>2, <2>3 DEF Relaying, TypeOK, OwnMessages
  <2> QED
    BY <2>4, <2>5
<1>8. ASSUME NEW c \in Conns, FinishDelivery(c)
      PROVE  WellTyped'
  <2> DEFINE r == Head(recipients[c])
  <2>1. r \in Conns /\ Tail(recipients[c]) \in Seq(Conns) /\ frame[c] \in FromServer
    BY <1>8 DEF FinishDelivery, TypeOK, Relaying
  <2>2. Append(wire[r], frame[c]) \in Seq(FromServer)
    BY <2>1 DEF TypeOK
  <2>3. /\ wire' = [wire EXCEPT ![r] = Append(@, frame[c])]
        /\ lock' = [lock EXCEPT ![r] = NoOne]
        /\ recipients' = [recipients EXCEPT ![c] = Tail(@)]
        /\ pc' = [pc EXCEPT ![c] = "fanout"] /\ pc[c] = "sending"
        /\ UNCHANGED <<fixed, message, frame, registry, compress, tx_seq, inbox,
                       clients>>
    BY <1>8 DEF FinishDelivery, Release, NextRecipient, Goto
  <2> HIDE DEF r
  <2>4. TypeOK'
    BY <2>1, <2>2, <2>3 DEF TypeOK, Places, fixed, clients
  <2>5. Relaying' /\ OwnMessages'
    BY <2>3 DEF Relaying, TypeOK, OwnMessages
  <2> QED
    BY <2>4, <2>5
<1>9. ASSUME NEW c \in Conns, FailDelivery(c)
      PROVE  WellTyped'
  <2>1. Head(recipients[c]) \in Conns
    BY <1>9 DEF FailDelivery, TypeOK, Relaying
  <2> QED
    BY <1>9, <2>1 DEF FailDelivery, Release, Goto, TypeOK, Relaying, OwnMessages,
      Places, fixed, clients
<1>10. ASSUME NEW c \in Conns, DropRecipient(c)
       PROVE  WellTyped'
  <2>1. Tail(recipients[c]) \in Seq(Conns)
    BY <1>10 DEF DropRecipient, TypeOK, Relaying
  <2> QED
    BY <1>10, <2>1 DEF DropRecipient, NextRecipient, Goto, TypeOK, Relaying,
      OwnMessages, Places, fixed, clients
<1>11. ASSUME NEW c \in Conns, SayHello(c) \/ SendProof(c) \/ Say(c) \/ SendWrong(c)
       PROVE  WellTyped'
  <2>1. PICK f \in FromClient :
          /\ inbox' = [inbox EXCEPT ![c] = Append(@, f)]
          /\ (f.type = "chat" \/ (f.type = "sealed" /\ f.good)) => f.msg.from = c
    <3>1. CASE SayHello(c)
      BY <3>1, ClientFrames DEF SayHello, Post, Hello
    <3>2. CASE SendProof(c)
      <4>1. PICK g \in BOOLEAN : Post(c, Proof(g))
        BY <3>2 DEF SendProof
      <4>2. Proof(g).type = "proof"
        BY DEF Proof
      <4> QED
        BY <4>1, <4>2, ClientFrames DEF Post
    <3>3. CASE Say(c)
      <4> DEFINE m == [from |-> c, n |-> said[c] + 1]
      <4>1. m \in Messages /\ m.from = c
        BY DEF TypeOK, Messages
      <4> HIDE DEF m
      <4>2. Post(c, SealedBy(m)) \/ Post(c, ChatBy(m))
        BY <3>3 DEF Say, m
      <4>3. SealedBy(m).msg = m /\ ChatBy(m).msg = m
        BY DEF SealedBy, ChatBy
      <4> QED
        BY <4>1, <4>2, <4>3, ClientFrames DEF Post
    <3>4. CASE SendWrong(c)
      <4> DEFINE m == [from |-> c, n |-> 1]
      <4>1. m \in Messages /\ m.from = c
        BY DEF Messages
      <4> HIDE DEF m
      <4>2. \/ Post(c, Other) \/ Post(c, Malformed) \/ Post(c, BadSealed)
            \/ Post(c, ChatBy(m))
        BY <3>4 DEF SendWrong, m
      <4>3. /\ Other.type = "other" /\ Malformed.type = "malformed"
            /\ BadSealed.type = "sealed" /\ ~ BadSealed.good
            /\ ChatBy(m).msg = m
        BY DEF Other, Malformed, BadSealed, ChatBy
      <4> QED
        BY <4>1, <4>2, <4>3, ClientFrames DEF Post
    <3> QED
      BY <1>11, <3>1, <3>2, <3>3, <3>4
  <2>2. /\ peer' \in [Conns -> {"absent", "new", "greeted", "proved", "left"}]
        /\ said' \in [Conns -> Nat]
        /\ \A d \in Conns : said'[d] <= scenario.says[d]
        /\ wrong' \subseteq scenario.errs
        /\ UNCHANGED <<fixed, thread, shared, wire>>
    <3>1. scenario.says \in [Conns -> Nat]
      BY ChatServerAssumption DEF TypeOK
    <3>2. CASE SayHello(c) \/ SendProof(c)
      BY <3>2 DEF SayHello, SendProof, TypeOK, fixed
    <3>3. CASE Say(c)
      BY <3>1, <3>3 DEF Say, TypeOK, fixed
    <3>4. CASE SendWrong(c)
      BY <3>4 DEF SendWrong, TypeOK, fixed
    <3> QED
      BY <1>11, <3>2, <3>3, <3>4
  <2>3. Append(inbox[c], f) \in Seq(FromClient)
    BY DEF TypeOK
  <2>4. TypeOK' /\ Relaying'
    BY <2>1, <2>2, <2>3 DEF TypeOK, Relaying, fixed, thread, shared
  <2>5. OwnMessages'
    <3> SUFFICES ASSUME NEW d \in Conns, NEW i \in 1 .. Len(inbox'[d]),
                        \/ inbox'[d][i].type = "chat"
                        \/ inbox'[d][i].type = "sealed" /\ inbox'[d][i].good
                 PROVE  inbox'[d][i].msg.from = d
      BY DEF OwnMessages
    <3>1. CASE d = c /\ i = Len(inbox[c]) + 1
      BY <2>1, <3>1 DEF TypeOK
    <3>2. CASE ~ (d = c /\ i = Len(inbox[c]) + 1)
      <4>1. i \in 1 .. Len(inbox[d]) /\ inbox'[d][i] = inbox[d][i]
        BY <2>1, <3>2 DEF TypeOK
      <4> QED
        BY <4>1 DEF OwnMessages
    <3> QED
      BY <3>1, <3>2
  <2> QED
    BY <2>4, <2>5
<1>12. ASSUME NEW c \in Conns, Leave(c)
       PROVE  WellTyped'
  <2>1. PICK k \in 0 .. Len(inbox[c]) :
          inbox' = [inbox EXCEPT ![c] = SubSeq(@, 1, k)]
    BY <1>12 DEF Leave
  <2>2. /\ SubSeq(inbox[c], 1, k) \in Seq(FromClient)
        /\ Len(SubSeq(inbox[c], 1, k)) = k
        /\ \A i \in 1 .. k : SubSeq(inbox[c], 1, k)[i] = inbox[c][i]
    BY DEF TypeOK
  <2>3. TypeOK' /\ Relaying'
    BY <1>12, <2>1, <2>2 DEF Leave, TypeOK, Relaying, fixed, thread, shared
  <2>4. OwnMessages'
    BY SMTT(30), <2>1, <2>2 DEF OwnMessages, TypeOK
  <2> QED
    BY <2>3, <2>4
<1> QED
  BY <1>0, <1>1, <1>2, <1>3, <1>4, <1>5, <1>6, <1>7, <1>8, <1>9, <1>10, <1>11,
    <1>12 DEF Next, Thread, Client

\* Types, and whose the messages are that a thread relays.
THEOREM TypeCorrect == Spec => []TypeOK
<1>1. WellTyped => TypeOK
  BY DEF WellTyped
<1> QED
  BY <1>1, TypeInit, TypeStep, PTL DEF Spec

-----------------------------------------------------------------------------
(***************************************************************************)
(* The order of sealed frames                                              *)
(***************************************************************************)

\* Whoever is between seal and send holds the recipient's lock, and nobody
\* else does.
LockHeld ==
  /\ \A c \in Conns : pc[c] = "sending" => lock[Head(recipients[c])] = c
  /\ \A r \in Conns : lock[r] # NoOne =>
       pc[lock[r]] = "sending" /\ Head(recipients[lock[r]]) = r

\* No sealed frame's number passes the counter, and one that is about to be
\* sent has the last number, which no frame on the wire has.
NumbersFall ==
  /\ \A c \in Conns : \A i \in 1 .. Len(wire[c]) :
       wire[c][i].type = "sealed" => wire[c][i].seq <= tx_seq[c]
  /\ \A c \in Conns : (pc[c] = "sending" /\ frame[c].type = "sealed") =>
       LET r == Head(recipients[c])
       IN  /\ frame[c].seq = tx_seq[r]
           /\ \A i \in 1 .. Len(wire[r]) :
                wire[r][i].type = "sealed" => wire[r][i].seq < tx_seq[r]

InOrder == LockHeld /\ NumbersFall /\ SealedInOrder

\* The steps of a thread other than those of deliver.
Talk(c) ==
  \/ Greet(c) \/ RefuseGreeting(c)
  \/ Authenticate(c) \/ RefuseProof(c) \/ SetCompression(c) \/ Register(c)
  \/ TakeMessage(c) \/ RefuseFrame(c) \/ Crash(c) \/ Hangup(c)
  \/ Snapshot(c) \/ DropRecipient(c) \/ EndBroadcast(c)
  \/ Unregister(c) \/ CloseSocket(c)

\* They leave deliveries alone, and put nothing on the wire but replies.
LEMMA TalkQuiet ==
  ASSUME WellTyped, NEW c \in Conns, Talk(c) \/ Client(c)
  PROVE  /\ UNCHANGED <<fixed, lock, tx_seq, frame>>
         /\ \A d \in Conns : pc[d] = "sending" <=> pc'[d] = "sending"
         /\ \A d \in Conns : pc[d] = "sending" => recipients'[d] = recipients[d]
         /\ \/ UNCHANGED wire
            \/ \E f \in FromServer : ~ IsMessage(f)
                 /\ wire' = [wire EXCEPT ![c] = Append(@, f)]
<1> USE DEF WellTyped, TypeOK, Relaying
<1>1. CASE Greet(c) \/ RefuseGreeting(c) \/ Authenticate(c) \/ RefuseProof(c)
             \/ RefuseFrame(c)
  <2>1. \E f \in FromServer, label \in Places \ {"sending"} :
          Reply(c, f, label) /\ ~ IsMessage(f)
    <3>1. /\ \A n \in {400, 403, 422} : Error(n) \in FromServer /\ ~ IsMessage(Error(n))
          /\ \A f : ErrorCode(f) \in {400, 403, 422}
      BY RepliesAreNoMessages DEF FromServer, Error, ErrorCode
    <3>2. {"covenant", "register", "finally", "authenticated", "loop"}
            \subseteq Places \ {"sending"}
      BY DEF Places
    <3>3. CASE Greet(c)
      BY <3>2, <3>3, ServerFrames, RepliesAreNoMessages DEF Greet
    <3>4. CASE RefuseGreeting(c)
      BY <3>1, <3>2, <3>4 DEF RefuseGreeting
    <3>5. CASE Authenticate(c) \/ RefuseProof(c)
      BY <3>2, <3>5, ServerFrames, RepliesAreNoMessages DEF Authenticate, RefuseProof
    <3>6. CASE RefuseFrame(c)
      <4>1. Reply(c, Error(ErrorCode(Head(inbox[c]))), "loop")
        BY <3>6 DEF RefuseFrame
      <4> DEFINE n == ErrorCode(Head(inbox[c]))
      <4>2. n \in {400, 403, 422} /\ Reply(c, Error(n), "loop")
        BY <3>1, <4>1
      <4> HIDE DEF n
      <4>3. Error(n) \in FromServer /\ ~ IsMessage(Error(n))
        BY <3>1, <4>2
      <4> QED
        BY <3>2, <4>2, <4>3
    <3> QED
      BY <1>1, <3>3, <3>4, <3>5, <3>6
  <2>2. pc[c] # "sending" /\ UNCHANGED <<shared, fixed>>
    BY <1>1 DEF Greet, RefuseGreeting, Authenticate, RefuseProof, RefuseFrame, Receive
  <2> QED
    BY <2>1, <2>2 DEF Reply, Goto, shared, fixed
<1>2. CASE \/ SetCompression(c) \/ Register(c) \/ TakeMessage(c) \/ Crash(c)
           \/ Hangup(c) \/ Snapshot(c) \/ DropRecipient(c) \/ EndBroadcast(c)
           \/ Unregister(c) \/ CloseSocket(c)
  <2>1. /\ pc[c] # "sending"
        /\ \E label \in Places \ {"sending"} : pc' = [pc EXCEPT ![c] = label]
        /\ UNCHANGED <<fixed, lock, tx_seq, frame, wire>>
        /\ UNCHANGED recipients \/ \E s : recipients' = [recipients EXCEPT ![c] = s]
    BY SMTT(30), <1>2 DEF SetCompression, Register, TakeMessage, Crash, Hangup, Snapshot,
      DropRecipient, EndBroadcast, Unregister, CloseSocket, Goto, NextRecipient,
      Places, shared, fixed, Receive
  <2> QED
    BY <2>1 DEF fixed
<1>3. CASE Client(c)
  BY <1>3 DEF Client, SayHello, SendProof, Say, SendWrong, Leave, thread, shared, fixed
<1> QED
  BY <1>1, <1>2, <1>3 DEF Talk

\* The thread that leaves deliver gives the lock back, and only that lock.
LEMMA LockReleased ==
  ASSUME WellTyped, LockHeld, NEW c \in Conns, pc[c] = "sending",
         NEW label \in Places \ {"sending"}, pc' = [pc EXCEPT ![c] = label],
         lock' = [lock EXCEPT ![Head(recipients[c])] = NoOne],
         \A d \in Conns \ {c} : recipients'[d] = recipients[d]
  PROVE  /\ LockHeld'
         /\ \A d \in Conns \ {c} :
              pc[d] = "sending" => Head(recipients[d]) # Head(recipients[c])
<1> USE DEF WellTyped
<1> DEFINE r == Head(recipients[c])
<1>1. r \in Conns /\ lock[r] = c
  BY DEF TypeOK, Relaying, LockHeld
<1>2. ASSUME NEW d \in Conns \ {c}, pc[d] = "sending"
      PROVE  Head(recipients[d]) \in Conns /\ Head(recipients[d]) # r
  <2>1. recipients[d] \in Seq(Conns) /\ recipients[d] # <<>>
    BY <1>2 DEF TypeOK, Relaying
  <2>2. Head(recipients[d]) \in Conns
    BY <2>1
  <2>3. lock[Head(recipients[d])] = d /\ d # c
    BY <1>2 DEF LockHeld
  <2> QED
    BY <1>1, <2>2, <2>3
<1> HIDE DEF r
<1>3. ASSUME NEW d \in Conns, pc'[d] = "sending"
      PROVE  lock'[Head(recipients'[d])] = d
  <2>1. d \in Conns \ {c} /\ pc[d] = "sending"
    BY <1>3 DEF TypeOK
  <2>2. lock[Head(recipients[d])] = d
    BY <2>1 DEF LockHeld
  <2> QED
    BY <1>2, <2>1, <2>2 DEF TypeOK, r
<1>4. ASSUME NEW q \in Conns, lock'[q] # NoOne
      PROVE  pc'[lock'[q]] = "sending" /\ Head(recipients'[lock'[q]]) = q
  <2>1. q # r /\ lock'[q] = lock[q] /\ lock[q] \in Conns
    BY <1>1, <1>4 DEF TypeOK, r
  <2>2. pc[lock[q]] = "sending" /\ Head(recipients[lock[q]]) = q
    BY <1>4, <2>1 DEF LockHeld
  <2>3. lock[q] # c
    BY <2>1, <2>2 DEF r
  <2> QED
    BY <2>1, <2>2, <2>3 DEF TypeOK
<1> QED
  BY <1>2, <1>3, <1>4 DEF LockHeld, r

LEMMA OrderStep == WellTyped /\ InOrder /\ [Next]_vars => InOrder'
<1> SUFFICES ASSUME WellTyped, InOrder, [Next]_vars
             PROVE  InOrder'
  OBVIOUS
<1> USE DEF WellTyped
<1>0. CASE UNCHANGED vars
  BY <1>0 DEF vars, thread, shared, InOrder, LockHeld, NumbersFall, SealedInOrder
<1>1. ASSUME NEW c \in Conns, Talk(c) \/ Client(c)
      PROVE  InOrder'
  <2>1. LockHeld'
    <3>1. \A d \in Conns : pc'[d] = "sending" => lock'[Head(recipients'[d])] = d
      BY <1>1, TalkQuiet DEF InOrder, LockHeld
    <3>2. ASSUME NEW r \in Conns, lock'[r] # NoOne
          PROVE  pc'[lock'[r]] = "sending" /\ Head(recipients'[lock'[r]]) = r
      <4>1. lock' = lock /\ lock[r] \in Conns
        BY SMTT(30), <1>1, <3>2, TalkQuiet DEF TypeOK
      <4>2. pc[lock[r]] = "sending" /\ Head(recipients[lock[r]]) = r
        BY <3>2, <4>1 DEF InOrder, LockHeld
      <4> QED
        BY <1>1, <4>1, <4>2, TalkQuiet
    <3> QED
      BY <3>1, <3>2 DEF LockHeld
  <2>2. \A d \in Conns : \A i \in 1 .. Len(wire'[d]) : wire'[d][i].type = "sealed" =>
          i \in 1 .. Len(wire[d]) /\ wire'[d][i] = wire[d][i]
    <3>1. CASE UNCHANGED wire
      BY <3>1
    <3>2. ASSUME NEW f \in FromServer, ~ IsMessage(f),
                 wire' = [wire EXCEPT ![c] = Append(@, f)]
          PROVE  \A d \in Conns : \A i \in 1 .. Len(wire'[d]) :
                   wire'[d][i].type = "sealed" =>
                     i \in 1 .. Len(wire[d]) /\ wire'[d][i] = wire[d][i]
      BY <3>2 DEF TypeOK, IsMessage
    <3> QED
      BY <1>1, <3>1, <3>2, TalkQuiet
  <2>3. NumbersFall'
    <3>1. tx_seq' = tx_seq /\ frame' = frame
      BY <1>1, TalkQuiet
    <3>2. ASSUME NEW d \in Conns, pc'[d] = "sending", frame'[d].type = "sealed"
          PROVE  LET q == Head(recipients'[d])
                 IN  /\ frame'[d].seq = tx_seq'[q]
                     /\ \A i \in 1 .. Len(wire'[q]) :
                          wire'[q][i].type = "sealed" => wire'[q][i].seq < tx_seq'[q]
      <4>1. pc[d] = "sending" /\ recipients'[d] = recipients[d]
        BY <1>1, <3>2, TalkQuiet
      <4>2. Head(recipients[d]) \in Conns
        BY <4>1 DEF TypeOK, Relaying
      <4> DEFINE q == Head(recipients[d])
      <4>3. /\ frame[d].seq = tx_seq[q]
            /\ \A i \in 1 .. Len(wire[q]) :
                 wire[q][i].type = "sealed" => wire[q][i].seq < tx_seq[q]
        BY <3>1, <3>2, <4>1 DEF InOrder, NumbersFall
      <4>4. Head(recipients'[d]) = q
        BY <4>1
      <4> HIDE DEF q
      <4>5. \A i \in 1 .. Len(wire'[q]) :
              wire'[q][i].type = "sealed" => wire'[q][i].seq < tx_seq[q]
        BY <2>2, <4>2, <4>3 DEF q
      <4> QED
        BY <3>1, <4>3, <4>4, <4>5
    <3> QED
      BY <2>2, <3>1, <3>2 DEF InOrder, NumbersFall
  <2>4. SealedInOrder'
    BY <2>2 DEF InOrder, SealedInOrder
  <2> QED
    BY <2>1, <2>3, <2>4 DEF InOrder
<1>2. ASSUME NEW c \in Conns, StartDelivery(c)
      PROVE  InOrder'
  <2> DEFINE r == Head(recipients[c])
  <2>1. r \in Conns /\ tx_seq[r] \in Nat /\ lock[r] = NoOne
    BY SMTT(30), <1>2 DEF StartDelivery, TypeOK, Acquire
  <2>2. /\ lock' = [lock EXCEPT ![r] = c]
        /\ pc' = [pc EXCEPT ![c] = "sending"] /\ pc[c] = "fanout"
        /\ UNCHANGED <<recipients, wire>>
    BY <1>2 DEF StartDelivery, Goto, Acquire
  <2>3. /\ \A d \in Conns : tx_seq'[d] >= tx_seq[d] /\ tx_seq'[d] \in Nat
        /\ \A d \in Conns : d # r => tx_seq'[d] = tx_seq[d]
        /\ frame'[c].type = "sealed" =>
             tx_seq'[r] = tx_seq[r] + 1 /\ frame'[c].seq = tx_seq'[r]
        /\ \A d \in Conns : d # c => frame'[d] = frame[d]
    <3>1. CASE protected
      <4> DEFINE g == [type |-> "sealed", seq |-> tx_seq[r] + 1,
                       packed |-> compress[r], msg |-> message[c]]
      <4>1. tx_seq' = [tx_seq EXCEPT ![r] = @ + 1]
        BY <1>2, <3>1 DEF StartDelivery
      <4>2. frame' = [frame EXCEPT ![c] = g]
        BY <1>2, <3>1 DEF StartDelivery, Outgoing
      <4>3. g.seq = tx_seq[r] + 1
        OBVIOUS
      <4> HIDE DEF r, g
      <4>4. /\ tx_seq'[r] = tx_seq[r] + 1
            /\ \A d \in Conns : d # r => tx_seq'[d] = tx_seq[d]
            /\ \A d \in Conns : tx_seq[d] \in Nat
        BY <2>1, <4>1 DEF TypeOK
      <4>5. frame'[c] = g /\ \A d \in Conns : d # c => frame'[d] = frame[d]
        BY <4>2 DEF TypeOK
      <4> QED
        BY <4>3, <4>4, <4>5
    <3>2. CASE ~ protected
      <4>1. tx_seq' = tx_seq
        BY <1>2, <3>2 DEF StartDelivery
      <4>2. frame' = [frame EXCEPT ![c] = [type |-> "chat", msg |-> message[c]]]
        BY <1>2, <3>2 DEF StartDelivery, Outgoing
      <4> QED
        BY <4>1, <4>2 DEF TypeOK
    <3> QED
      BY <3>1, <3>2
  <2> HIDE DEF r
  <2>4. \A d \in Conns : pc[d] = "sending" => Head(recipients[d]) # r
    BY <2>1, ChatServerAssumption DEF InOrder, LockHeld
  <2>5. LockHeld'
    <3>1. Head(recipients'[c]) = r
      BY <2>2 DEF r
    <3>2. ASSUME NEW d \in Conns, pc'[d] = "sending"
          PROVE  lock'[Head(recipients'[d])] = d
      <4>1. CASE d = c
        BY <2>1, <2>2, <3>1, <4>1 DEF TypeOK
      <4>2. CASE d # c
        <5>1. pc[d] = "sending"
          BY <2>2, <3>2, <4>2 DEF TypeOK
        <5>2. Head(recipients[d]) \in Conns /\ Head(recipients[d]) # r
          BY SMTT(30), <2>4, <5>1 DEF TypeOK, Relaying
        <5> QED
          BY <2>2, <5>1, <5>2 DEF InOrder, LockHeld, TypeOK
      <4> QED
        BY <4>1, <4>2
    <3>3. ASSUME NEW q \in Conns, lock'[q] # NoOne
          PROVE  pc'[lock'[q]] = "sending" /\ Head(recipients'[lock'[q]]) = q
      <4>1. CASE q = r
        BY <2>1, <2>2, <3>1, <4>1 DEF TypeOK
      <4>2. CASE q # r
        <5>1. lock'[q] = lock[q] /\ lock[q] \in Conns
          BY <2>1, <2>2, <3>3, <4>2 DEF TypeOK
        <5>2. pc[lock[q]] = "sending" /\ Head(recipients[lock[q]]) = q
          BY <3>3, <5>1 DEF InOrder, LockHeld
        <5> QED
          BY <2>2, <5>1, <5>2 DEF TypeOK
      <4> QED
        BY <4>1, <4>2
    <3> QED
      BY <3>2, <3>3 DEF LockHeld
  <2>6. NumbersFall'
    <3>1. \A d \in Conns : \A i \in 1 .. Len(wire'[d]) :
            wire'[d][i].type = "sealed" => wire'[d][i].seq \in Nat
      <4>1. \A d \in Conns : \A i \in 1 .. Len(wire[d]) : wire[d][i] \in FromServer
        BY DEF TypeOK
      <4> QED
        BY <2>2, <4>1, SealedNumbers
    <3>2. \A d \in Conns : \A i \in 1 .. Len(wire'[d]) :
            wire'[d][i].type = "sealed" =>
              wire'[d][i].seq <= tx_seq[d] /\ wire'[d][i].seq <= tx_seq'[d]
      BY <2>2, <2>3, <3>1 DEF InOrder, NumbersFall, TypeOK
    <3>3. ASSUME NEW d \in Conns, pc'[d] = "sending", frame'[d].type = "sealed"
          PROVE  LET q == Head(recipients'[d])
                 IN  /\ frame'[d].seq = tx_seq'[q]
                     /\ \A i \in 1 .. Len(wire'[q]) :
                          wire'[q][i].type = "sealed" => wire'[q][i].seq < tx_seq'[q]
      <4>1. CASE d = c
        <5>1. Head(recipients'[d]) = r
          BY <2>2, <4>1 DEF r
        <5> QED
          BY SMTT(30), <2>1, <2>3, <3>1, <3>2, <3>3, <4>1, <5>1
      <4>2. CASE d # c
        <5>1. pc[d] = "sending" /\ frame'[d] = frame[d] /\ recipients'[d] = recipients[d]
          BY <2>2, <2>3, <3>3, <4>2 DEF TypeOK
        <5>2. Head(recipients[d]) \in Conns /\ Head(recipients[d]) # r
          BY SMTT(30), <2>4, <5>1 DEF TypeOK, Relaying
        <5> QED
          BY <2>2, <2>3, <3>3, <5>1, <5>2 DEF InOrder, NumbersFall
      <4> QED
        BY <4>1, <4>2
    <3> QED
      BY <3>2, <3>3 DEF NumbersFall
  <2>7. SealedInOrder'
    BY <2>2 DEF InOrder, SealedInOrder
  <2> QED
    BY <2>5, <2>6, <2>7 DEF InOrder
<1>3. ASSUME NEW c \in Conns, FinishDelivery(c)
      PROVE  InOrder'
  <2> DEFINE r == Head(recipients[c])
  <2>1. r \in Conns /\ frame[c] \in FromServer
    BY <1>3 DEF FinishDelivery, TypeOK, Relaying
  <2>2. /\ lock' = [lock EXCEPT ![r] = NoOne]
        /\ pc' = [pc EXCEPT ![c] = "fanout"] /\ pc[c] = "sending"
        /\ recipients' = [recipients EXCEPT ![c] = Tail(@)]
        /\ wire' = [wire EXCEPT ![r] = Append(@, frame[c])]
        /\ UNCHANGED <<tx_seq, frame>>
    BY <1>3 DEF FinishDelivery, Goto, Release, NextRecipient
  <2> HIDE DEF r
  <2>3. /\ LockHeld'
        /\ \A d \in Conns \ {c} : pc[d] = "sending" => Head(recipients[d]) # r
    <3>1. \A d \in Conns \ {c} : recipients'[d] = recipients[d]
      BY <2>2 DEF TypeOK
    <3>2. "fanout" \in Places \ {"sending"}
      BY DEF Places
    <3> QED
      BY <2>2, <3>1, <3>2, LockReleased DEF InOrder, r
  <2>5. /\ \A d \in Conns : d # r => wire'[d] = wire[d]
        /\ Len(wire'[r]) = Len(wire[r]) + 1 /\ Len(wire[r]) \in Nat
        /\ \A i \in 1 .. Len(wire[r]) : wire'[r][i] = wire[r][i]
        /\ wire'[r][Len(wire[r]) + 1] = frame[c]
    BY <2>1, <2>2 DEF TypeOK
  <2>6. frame[c].type = "sealed" =>
          /\ frame[c].seq = tx_seq[r]
          /\ \A i \in 1 .. Len(wire[r]) :
               wire[r][i].type = "sealed" => wire[r][i].seq < tx_seq[r]
    BY <2>2 DEF InOrder, NumbersFall, r
  <2>7. NumbersFall'
    <3>1. ASSUME NEW d \in Conns, NEW i \in 1 .. Len(wire'[d]),
                 wire'[d][i].type = "sealed"
          PROVE  wire'[d][i].seq <= tx_seq'[d]
      <4>1. CASE d = r /\ i = Len(wire[r]) + 1
        <5>1. tx_seq[r] \in Nat
          BY <2>1 DEF TypeOK
        <5> QED
          BY <2>2, <2>5, <2>6, <3>1, <4>1, <5>1
      <4>2. CASE ~ (d = r /\ i = Len(wire[r]) + 1)
        <5>1. i \in 1 .. Len(wire[d]) /\ wire'[d][i] = wire[d][i]
          BY <2>5, <4>2
        <5> QED
          BY <2>2, <3>1, <5>1 DEF InOrder, NumbersFall
      <4> QED
        BY <4>1, <4>2
    <3>2. ASSUME NEW d \in Conns, pc'[d] = "sending", frame'[d].type = "sealed"
          PROVE  LET q == Head(recipients'[d])
                 IN  /\ frame'[d].seq = tx_seq'[q]
                     /\ \A i \in 1 .. Len(wire'[q]) :
                          wire'[q][i].type = "sealed" => wire'[q][i].seq < tx_seq'[q]
      <4>1. /\ pc[d] = "sending" /\ d # c
            /\ frame'[d] = frame[d] /\ recipients'[d] = recipients[d]
        BY <2>2, <3>2 DEF TypeOK
      <4>2. Head(recipients[d]) \in Conns /\ Head(recipients[d]) # r
        <5>1. recipients[d] \in Seq(Conns) /\ recipients[d] # <<>>
          BY <4>1 DEF TypeOK, Relaying
        <5> QED
          BY <2>3, <4>1, <5>1
      <4> QED
        BY <2>2, <2>5, <3>2, <4>1, <4>2 DEF InOrder, NumbersFall
    <3> QED
      BY <3>1, <3>2 DEF NumbersFall
  <2>8. SealedInOrder'
    <3> SUFFICES ASSUME NEW d \in Conns, NEW i \in 1 .. Len(wire'[d]),
                        NEW j \in 1 .. Len(wire'[d]), i < j,
                        wire'[d][i].type = "sealed", wire'[d][j].type = "sealed"
                 PROVE  wire'[d][i].seq < wire'[d][j].seq
      BY DEF SealedInOrder
    <3>1. CASE d = r /\ j = Len(wire[r]) + 1
      BY SMTT(30), <2>5, <2>6, <3>1
    <3>2. CASE ~ (d = r /\ j = Len(wire[r]) + 1)
      <4>1. /\ i \in 1 .. Len(wire[d]) /\ wire'[d][i] = wire[d][i]
            /\ j \in 1 .. Len(wire[d]) /\ wire'[d][j] = wire[d][j]
        BY <2>5, <3>2
      <4> QED
        BY <4>1 DEF InOrder, SealedInOrder
    <3> QED
      BY <3>1, <3>2
  <2> QED
    BY <2>3, <2>7, <2>8 DEF InOrder
<1>4. ASSUME NEW c \in Conns, FailDelivery(c)
      PROVE  InOrder'
  <2> DEFINE r == Head(recipients[c])
  <2>1. /\ r \in Conns /\ lock' = [lock EXCEPT ![r] = NoOne]
        /\ pc' = [pc EXCEPT ![c] = "drop"] /\ pc[c] = "sending"
        /\ UNCHANGED <<recipients, wire, tx_seq, frame>>
    BY <1>4 DEF FailDelivery, Goto, Release, TypeOK, Relaying
  <2> HIDE DEF r
  <2>4. LockHeld'
    <3>1. "drop" \in Places \ {"sending"}
      BY DEF Places
    <3> QED
      BY <2>1, <3>1, LockReleased DEF InOrder, r
  <2>5. NumbersFall' /\ SealedInOrder'
    BY <2>1 DEF InOrder, NumbersFall, SealedInOrder, TypeOK
  <2> QED
    BY <2>4, <2>5 DEF InOrder
<1> QED
  BY <1>0, <1>1, <1>2, <1>3, <1>4 DEF Next, Thread, Talk

\* relay.py: the lock keeps concurrent relay threads from racing the sequence
\* counter. Any number of threads seal for a recipient, and what it is sent is
\* in the order of the numbers.
THEOREM SequenceOrder == Spec => []SealedInOrder
<1>1. Init => InOrder
  BY ChatServerAssumption DEF Init, InOrder, LockHeld, NumbersFall, SealedInOrder
<1>2. InOrder => SealedInOrder
  BY DEF InOrder
<1> QED
  BY <1>1, <1>2, TypeInit, TypeStep, OrderStep, PTL DEF Spec

-----------------------------------------------------------------------------
(***************************************************************************)
(* Admission                                                               *)
(***************************************************************************)

\* Where a thread is once its client is admitted.
Inside ==
  {"authenticated", "register", "loop", "broadcast", "fanout", "sending", "drop"}

\* The greeting, the first that c is sent, is complete.
Greeted(c) ==
  /\ wire[c] # <<>> /\ wire[c][1] = HelloAck
  /\ protected => Len(wire[c]) >= 2 /\ wire[c][2] = AuthOk

\* Its session is ready as well: what is sealed for it is as it can read it.
Ready(c) == Greeted(c) /\ (protected => compress[c] = (c \notin Browsers))

Holds(s, r) == \E i \in 1 .. Len(s) : s[i] = r
Listed(c, r) == Holds(recipients[c], r)

\* Whoever others may send to is ready, and who is not inside has nothing yet
\* but the beginning of the greeting.
Admission ==
  /\ \A c \in Conns :
       /\ pc[c] = "hello" => wire[c] = <<>>
       /\ pc[c] = "covenant" => protected /\ wire[c] = <<HelloAck>>
       /\ pc[c] = "authenticated" => protected
       /\ pc[c] \in Inside => Greeted(c)
       /\ pc[c] \in Inside \ {"authenticated"} => Ready(c)
  /\ \A c \in registry : Ready(c)
  /\ \A c, r \in Conns : Listed(c, r) => Ready(r)

\* What is about to be sent is what its recipient can read.
Readable ==
  \A c \in Conns : pc[c] = "sending" =>
    IF protected
      THEN frame[c].type = "sealed"
             /\ (Head(recipients[c]) \in Browsers => ~ frame[c].packed)
      ELSE frame[c].type = "chat"

\* What a client that makes no mistake has sent and the server has not read.
IsUsual(f) == IF protected THEN f.type = "sealed" /\ f.good ELSE f.type = "chat"

Usual(c) ==
  /\ peer[c] \in {"absent", "new"} => pc[c] = "hello" /\ inbox[c] = <<>>
  /\ protected /\ peer[c] = "greeted" =>
       \/ pc[c] = "hello"
       \/ pc[c] = "covenant" /\ inbox[c] = <<>>
  /\ ~ protected => peer[c] # "proved"
  /\ pc[c] = "hello" => peer[c] # "proved" /\ inbox[c] \in {<<>>, <<Hello>>}
  /\ pc[c] = "covenant" =>
       inbox[c] = <<>> \/ \E g \in BOOLEAN : inbox[c] = <<Proof(g)>>
  /\ pc[c] = "authenticated" => peer[c] # "greeted"
  /\ pc[c] \in Inside => \A i \in 1 .. Len(inbox[c]) : IsUsual(inbox[c][i])

Usuals == \A c \in Conns \ wrong : Usual(c)

-----------------------------------------------------------------------------
(***************************************************************************)
(* Admission                                                               *)
(***************************************************************************)

\* What is sent stays sent.
LEMMA WiresGrow ==
  ASSUME WellTyped, [Next]_vars
  PROVE  /\ UNCHANGED fixed
         /\ \A d \in Conns : \A i \in 1 .. Len(wire[d]) :
              i \in 1 .. Len(wire'[d]) /\ wire'[d][i] = wire[d][i]
<1> USE DEF WellTyped
<1> DEFINE Grown == \A d \in Conns : \A i \in 1 .. Len(wire[d]) :
                      i \in 1 .. Len(wire'[d]) /\ wire'[d][i] = wire[d][i]
<1>1. ASSUME UNCHANGED wire PROVE Grown
  BY <1>1
<1>2. ASSUME NEW c \in Conns, NEW f \in FromServer,
             wire' = [wire EXCEPT ![c] = Append(@, f)]
      PROVE  Grown
  BY <1>2 DEF TypeOK
<1>3. ASSUME UNCHANGED vars
      PROVE  UNCHANGED fixed /\ Grown
  BY <1>1, <1>3 DEF vars
<1>4. ASSUME NEW c \in Conns, Talk(c) \/ Client(c)
      PROVE  UNCHANGED fixed /\ Grown
  BY <1>1, <1>2, <1>4, TalkQuiet
<1>5. ASSUME NEW c \in Conns, FinishDelivery(c)
      PROVE  UNCHANGED fixed /\ Grown
  <2>1. Head(recipients[c]) \in Conns /\ frame[c] \in FromServer
    BY <1>5 DEF FinishDelivery, TypeOK, Relaying
  <2> QED
    BY <1>2, <1>5, <2>1 DEF FinishDelivery
<1>6. ASSUME NEW c \in Conns, StartDelivery(c) \/ FailDelivery(c)
      PROVE  UNCHANGED fixed /\ Grown
  BY <1>1, <1>6 DEF StartDelivery, FailDelivery
<1> HIDE DEF Grown
<1>7. UNCHANGED fixed /\ Grown
  BY <1>3, <1>4, <1>5, <1>6 DEF Next, Thread, Talk, vars
<1> QED
  BY <1>7 DEF Grown

\* A client that has sent a wrong frame is known for it.
LEMMA WrongStays == [Next]_vars => wrong \subseteq wrong'
<1>1. ASSUME NEW c \in Conns, Thread(c)
      PROVE  UNCHANGED wrong
  <2>1. CASE Greet(c) \/ RefuseGreeting(c) \/ Authenticate(c) \/ RefuseProof(c)
             \/ TakeMessage(c) \/ RefuseFrame(c) \/ Crash(c)
    BY <2>1
    DEF Greet, RefuseGreeting, Authenticate, RefuseProof, TakeMessage,
        RefuseFrame, Crash, Receive, clients
  <2>2. CASE SetCompression(c) \/ Register(c) \/ Hangup(c) \/ Snapshot(c)
             \/ StartDelivery(c) \/ FinishDelivery(c) \/ FailDelivery(c)
             \/ DropRecipient(c) \/ EndBroadcast(c) \/ Unregister(c)
             \/ CloseSocket(c)
    BY <2>2
    DEF SetCompression, Register, Hangup, Snapshot, StartDelivery,
        FinishDelivery, FailDelivery, DropRecipient, EndBroadcast, Unregister,
        CloseSocket, clients
  <2> QED
    BY <1>1, <2>1, <2>2 DEF Thread
<1>2. ASSUME NEW c \in Conns, Client(c)
      PROVE  wrong \subseteq wrong'
  BY <1>2 DEF Client, SayHello, SendProof, Say, SendWrong, Leave
<1>3. ASSUME UNCHANGED vars
      PROVE  UNCHANGED wrong
  BY <1>3 DEF vars, clients
<1> QED
  BY <1>1, <1>2, <1>3 DEF Next

LEMMA GreetedStays ==
  ASSUME WellTyped, [Next]_vars, NEW d \in Conns, Greeted(d)
  PROVE  Greeted(d)'
<1>1. wire[d] \in Seq(FromServer)
  BY DEF WellTyped, TypeOK
<1>2. /\ protected' = protected
      /\ \A i \in 1 .. Len(wire[d]) :
           i \in 1 .. Len(wire'[d]) /\ wire'[d][i] = wire[d][i]
  BY WiresGrow DEF fixed
<1>3. 1 \in 1 .. Len(wire[d]) /\ (protected => 2 \in 1 .. Len(wire[d]))
  BY <1>1 DEF Greeted
<1>4. wire'[d] \in Seq(FromServer)
  BY TypeStep DEF WellTyped, TypeOK
<1> QED
  BY <1>2, <1>3, <1>4 DEF Greeted

LEMMA ReadyStays ==
  ASSUME WellTyped, [Next]_vars, NEW d \in Conns, Ready(d)
  PROVE  Ready(d)'
<1>1. compress' = compress \/ \E c \in Conns : SetCompression(c)
  BY DEF Next, Thread, Client, Greet, RefuseGreeting, Authenticate, RefuseProof,
    Register, TakeMessage, RefuseFrame, Crash, Hangup, Snapshot, StartDelivery,
    FinishDelivery, FailDelivery, DropRecipient, EndBroadcast, Unregister,
    CloseSocket, SayHello, SendProof, Say, SendWrong, Leave, shared, vars
<1>2. compress'[d] = compress[d] \/ compress'[d] = (d \notin Browsers)
  BY <1>1 DEF SetCompression, Compresses, WellTyped, TypeOK
<1>3. protected' = protected
  BY WiresGrow DEF fixed
<1> QED
  BY <1>2, <1>3, GreetedStays DEF Ready

\* Most steps let nobody in.
LEMMA NobodyEnters ==
  ASSUME WellTyped, Admission, [Next]_vars,
         \A d \in Conns :
           /\ pc'[d] \in {"hello", "covenant"} => pc[d] = pc'[d] /\ wire'[d] = wire[d]
           /\ pc'[d] \in Inside =>
                pc[d] = pc'[d] \/ (pc[d] \in Inside /\ {pc[d], pc'[d]} \subseteq Inside \ {"authenticated"}),
         registry' \subseteq registry,
         \A d, r \in Conns : Listed(d, r)' => Listed(d, r) \/ r \in registry
  PROVE  Admission'
<1>1. protected' = protected
  BY WiresGrow DEF fixed
<1>2. ASSUME NEW d \in Conns
      PROVE  /\ pc'[d] = "hello" => wire'[d] = <<>>
             /\ pc'[d] = "covenant" => protected' /\ wire'[d] = <<HelloAck>>
             /\ pc'[d] = "authenticated" => protected'
             /\ pc'[d] \in Inside => Greeted(d)'
             /\ pc'[d] \in Inside \ {"authenticated"} => Ready(d)'
  <2>1. pc'[d] = "authenticated" => pc[d] = "authenticated"
    BY DEF Inside
  <2>2. pc'[d] \in Inside => pc[d] \in Inside
    OBVIOUS
  <2>3. pc'[d] \in Inside \ {"authenticated"} => pc[d] \in Inside \ {"authenticated"}
    OBVIOUS
  <2> QED
    BY <1>1, <2>1, <2>2, <2>3, GreetedStays, ReadyStays DEF Admission
<1>3. \A d \in registry' : Ready(d)'
  BY ReadyStays DEF Admission, WellTyped, TypeOK
<1>4. \A d, r \in Conns : Listed(d, r)' => Ready(r)'
  BY ReadyStays DEF Admission
<1> QED
  BY <1>2, <1>3, <1>4 DEF Admission

LEMMA AdmissionStep == WellTyped /\ Admission /\ [Next]_vars => Admission'
<1> SUFFICES ASSUME WellTyped, Admission, [Next]_vars
             PROVE  Admission'
  OBVIOUS
<1> USE DEF WellTyped
<1>0. CASE UNCHANGED vars
  BY <1>0 DEF vars, fixed, thread, shared, Admission, Ready, Greeted, Listed, Holds
<1>1. ASSUME NEW c \in Conns, Client(c)
      PROVE  Admission'
  <2>1. UNCHANGED <<pc, wire, recipients, registry>>
    BY <1>1 DEF Client, SayHello, SendProof, Say, SendWrong, Leave, thread, shared
  <2> QED
    BY <2>1, NobodyEnters DEF Listed, Holds
\* What a step other than deliver's sends, c alone gets; Leaves(c, label) is
\* the way of most of them.
<1> DEFINE Leaves(c, label) ==
      /\ pc' = [pc EXCEPT ![c] = label]
      /\ \A d \in Conns : d # c => wire'[d] = wire[d]
      /\ UNCHANGED <<registry, recipients>>
<1>2. ASSUME NEW c \in Conns, NEW label \in Places,
             label \notin {"hello", "covenant"}, Leaves(c, label),
             label \in Inside => {pc[c], label} \subseteq Inside \ {"authenticated"}
      PROVE  Admission'
  <2>1. \A d \in Conns : pc'[d] = IF d = c THEN label ELSE pc[d]
    BY <1>2 DEF TypeOK
  <2> QED
    BY <1>2, <2>1, NobodyEnters DEF Listed, Holds
<1>3. ASSUME NEW c \in Conns, Greet(c)
      PROVE  Admission'
  <2>1. wire[c] = <<>> /\ pc[c] = "hello" /\ protected' = protected
    BY <1>3, WiresGrow DEF Greet, Receive, Admission, fixed
  <2>2. UNCHANGED <<recipients, registry>>
    BY <1>3 DEF Greet, Reply, shared
  <2>3. CASE pc' = [pc EXCEPT ![c] = "finally"] /\ UNCHANGED wire
    BY <1>2, <2>2, <2>3 DEF Places, Inside
  <2>4. CASE /\ wire' = [wire EXCEPT ![c] = Append(@, HelloAck)]
             /\ pc' = [pc EXCEPT ![c] = IF protected THEN "covenant" ELSE "register"]
    <3>2. /\ wire'[c] = <<HelloAck>>
          /\ pc'[c] = IF protected THEN "covenant" ELSE "register"
          /\ \A d \in Conns : d # c => pc'[d] = pc[d] /\ wire'[d] = wire[d]
      BY <2>1, <2>4 DEF TypeOK
    <3>3. ~ protected => Ready(c)'
      BY <2>1, <3>2 DEF Ready, Greeted
    <3>4. \A d \in Conns : d # c =>
            /\ pc'[d] = "hello" => wire'[d] = <<>>
            /\ pc'[d] = "covenant" => protected' /\ wire'[d] = <<HelloAck>>
            /\ pc'[d] = "authenticated" => protected'
            /\ pc'[d] \in Inside => Greeted(d)'
            /\ pc'[d] \in Inside \ {"authenticated"} => Ready(d)'
      BY <2>1, <3>2, GreetedStays, ReadyStays DEF Admission
    <3>5. /\ pc'[c] = "hello" => wire'[c] = <<>>
          /\ pc'[c] = "covenant" => protected' /\ wire'[c] = <<HelloAck>>
          /\ pc'[c] = "authenticated" => protected'
          /\ pc'[c] \in Inside => Greeted(c)'
          /\ pc'[c] \in Inside \ {"authenticated"} => Ready(c)'
      BY <2>1, <3>2, <3>3 DEF Inside, Ready
    <3>6. \A d \in registry' : Ready(d)'
      BY <2>2, ReadyStays DEF Admission, TypeOK
    <3>7. \A d, r \in Conns : Listed(d, r)' => Ready(r)'
      BY <2>2, ReadyStays DEF Admission, Listed, Holds
    <3> QED
      BY <3>4, <3>5, <3>6, <3>7 DEF Admission
  <2> QED
    BY <1>3, <2>3, <2>4 DEF Greet, Reply, Goto
<1>4. ASSUME NEW c \in Conns, RefuseGreeting(c) \/ RefuseProof(c) \/ RefuseFrame(c)
      PROVE  Admission'
  <2>1. \/ \E f : Reply(c, f, "finally")
        \/ pc[c] = "loop" /\ \E f : Reply(c, f, "loop")
    BY <1>4 DEF RefuseGreeting, RefuseProof, RefuseFrame, Receive
  <2>2. PICK l \in {"loop", "finally"} :
          pc' = [pc EXCEPT ![c] = l] /\ (l = "loop" => pc[c] = "loop")
    BY <2>1 DEF Reply, Goto
  <2>3. \A d \in Conns : d # c => wire'[d] = wire[d]
    BY <2>1 DEF Reply, TypeOK
  <2>4. UNCHANGED <<registry, recipients>>
    BY <1>4, <2>1 DEF RefuseGreeting, RefuseProof, RefuseFrame, Reply, shared
  <2> QED
    BY <1>2, <2>1, <2>2, <2>3, <2>4 DEF Places, Inside
<1>5. ASSUME NEW c \in Conns, Authenticate(c)
      PROVE  Admission'
  <2>1. wire[c] = <<HelloAck>> /\ pc[c] = "covenant" /\ protected' /\ protected
    BY <1>5, WiresGrow DEF Authenticate, Receive, Admission, fixed
  <2>2. UNCHANGED <<recipients, registry>>
    BY <1>5 DEF Authenticate, Reply, shared
  <2>3. CASE pc' = [pc EXCEPT ![c] = "finally"] /\ UNCHANGED wire
    BY <1>2, <2>2, <2>3 DEF Places, Inside
  <2>4. CASE /\ wire' = [wire EXCEPT ![c] = Append(@, AuthOk)]
             /\ pc' = [pc EXCEPT ![c] = "authenticated"]
    <3>1. /\ wire[c] \in Seq(FromServer) /\ AuthOk \in FromServer
          /\ Len(wire[c]) = 1 /\ wire[c][1] = HelloAck
      BY <2>1, ServerFrames DEF TypeOK
    <3>2. /\ Len(wire'[c]) = 2 /\ wire'[c][1] = HelloAck /\ wire'[c][2] = AuthOk
          /\ wire'[c] # <<>> /\ pc'[c] = "authenticated"
          /\ \A d \in Conns : d # c => pc'[d] = pc[d] /\ wire'[d] = wire[d]
      <4>1. wire'[c] = Append(wire[c], AuthOk)
        BY <2>4 DEF TypeOK
      <4>2. Len(wire'[c]) = 2 /\ wire'[c][1] = HelloAck /\ wire'[c][2] = AuthOk
        BY <3>1, <4>1, AppendProperties
      <4>3. wire'[c] # <<>>
        BY <3>1, <4>1, AppendProperties
      <4> QED
        BY <2>4, <4>2, <4>3 DEF TypeOK
    <3>3. Greeted(c)'
      BY <3>2 DEF Greeted
    <3>4. \A d \in Conns : d # c =>
            /\ pc'[d] = "hello" => wire'[d] = <<>>
            /\ pc'[d] = "covenant" => protected' /\ wire'[d] = <<HelloAck>>
            /\ pc'[d] = "authenticated" => protected'
            /\ pc'[d] \in Inside => Greeted(d)'
            /\ pc'[d] \in Inside \ {"authenticated"} => Ready(d)'
      BY <2>1, <3>2, GreetedStays, ReadyStays DEF Admission
    <3>5. \A d \in registry' : Ready(d)'
      BY <2>2, ReadyStays DEF Admission, TypeOK
    <3>6. \A d, r \in Conns : Listed(d, r)' => Ready(r)'
      BY <2>2, ReadyStays DEF Admission, Listed, Holds
    <3> QED
      BY <2>1, <3>2, <3>3, <3>4, <3>5, <3>6 DEF Admission
  <2> QED
    BY <1>5, <2>3, <2>4 DEF Authenticate, Reply, Goto
<1>6. ASSUME NEW c \in Conns, SetCompression(c)
      PROVE  Admission'
  <2>1. /\ pc[c] = "authenticated" /\ pc' = [pc EXCEPT ![c] = "register"]
        /\ compress' = [compress EXCEPT ![c] = (c \notin Browsers)]
        /\ UNCHANGED <<fixed, wire, recipients, registry>>
    BY <1>6 DEF SetCompression, Compresses, Goto
  <2>2. Greeted(c)
    BY <2>1 DEF Admission, Inside
  <2>3. Ready(c)'
    BY <2>1, <2>2, GreetedStays DEF Ready, TypeOK
  <2>4. pc'[c] = "register" /\ \A d \in Conns : d # c => pc'[d] = pc[d]
    BY <2>1 DEF TypeOK
  <2>5. \A d \in Conns :
          /\ pc'[d] = "hello" => wire'[d] = <<>>
          /\ pc'[d] = "covenant" => protected' /\ wire'[d] = <<HelloAck>>
          /\ pc'[d] = "authenticated" => protected'
          /\ pc'[d] \in Inside => Greeted(d)'
          /\ pc'[d] \in Inside \ {"authenticated"} => Ready(d)'
    BY <2>1, <2>2, <2>3, <2>4, GreetedStays, ReadyStays DEF Admission, fixed
  <2>6. \A d \in registry' : Ready(d)'
    BY <2>1, ReadyStays DEF Admission, TypeOK
  <2>7. \A d, r \in Conns : Listed(d, r)' => Ready(r)'
    BY <2>1, ReadyStays DEF Admission, Listed, Holds
  <2> QED
    BY <2>5, <2>6, <2>7 DEF Admission
<1>7. ASSUME NEW c \in Conns, Register(c)
      PROVE  Admission'
  <2>1. /\ pc[c] = "register" /\ pc' = [pc EXCEPT ![c] = "loop"]
        /\ registry' = registry \cup {c}
        /\ UNCHANGED <<fixed, wire, recipients>>
    BY <1>7 DEF Register, Goto
  <2>2. Ready(c)
    BY <2>1 DEF Admission, Inside
  <2>3. pc'[c] = "loop" /\ \A d \in Conns : d # c => pc'[d] = pc[d]
    BY <2>1 DEF TypeOK
  <2>4. \A d \in registry' : Ready(d)'
    BY <2>1, <2>2, ReadyStays DEF Admission, TypeOK
  <2>5. \A d \in Conns :
          /\ pc'[d] = "hello" => wire'[d] = <<>>
          /\ pc'[d] = "covenant" => protected' /\ wire'[d] = <<HelloAck>>
          /\ pc'[d] = "authenticated" => protected'
          /\ pc'[d] \in Inside => Greeted(d)'
          /\ pc'[d] \in Inside \ {"authenticated"} => Ready(d)'
    BY <2>1, <2>2, <2>3, GreetedStays, ReadyStays DEF Admission, fixed, Ready
  <2>6. \A d, r \in Conns : Listed(d, r)' => Ready(r)'
    BY <2>1, ReadyStays DEF Admission, Listed, Holds
  <2> QED
    BY <2>4, <2>5, <2>6 DEF Admission
<1>8. ASSUME NEW c \in Conns, TakeMessage(c) \/ Crash(c) \/ Hangup(c)
                \/ StartDelivery(c) \/ FailDelivery(c) \/ EndBroadcast(c)
                \/ CloseSocket(c)
      PROVE  Admission'
  <2>1. /\ UNCHANGED <<wire, recipients, registry>>
        /\ \E label \in Places \ {"hello", "covenant"} :
             /\ pc' = [pc EXCEPT ![c] = label]
             /\ label \in Inside => {pc[c], label} \subseteq Inside \ {"authenticated"}
    BY <1>8 DEF TakeMessage, Crash, Hangup, StartDelivery, FailDelivery,
      EndBroadcast, CloseSocket, Receive, Goto, shared, Places, Inside
  <2> QED
    BY <1>2, <2>1
<1>9. ASSUME NEW c \in Conns, Unregister(c) \/ DropRecipient(c) \/ FinishDelivery(c)
                 \/ Snapshot(c)
      PROVE  Admission'
  <2>1. \A d \in Conns :
          /\ pc'[d] \in {"hello", "covenant"} => pc[d] = pc'[d]
          /\ pc'[d] \in Inside => pc[d] = pc'[d] \/
               (pc[d] \in Inside /\ {pc[d], pc'[d]} \subseteq Inside \ {"authenticated"})
    BY <1>9 DEF Unregister, DropRecipient, FinishDelivery, Snapshot, Goto, TypeOK, Inside
  <2>2. \A d \in Conns : pc[d] \in {"hello", "covenant"} => wire'[d] = wire[d]
    <3>1. CASE FinishDelivery(c)
      <4> DEFINE r == Head(recipients[c])
      <4>1. recipients[c] \in Seq(Conns) /\ recipients[c] # <<>>
        BY <3>1 DEF FinishDelivery, TypeOK, Relaying
      <4>2. r \in Conns /\ Listed(c, r)
        BY <4>1 DEF Listed, Holds
      <4>3. wire' = [wire EXCEPT ![r] = Append(@, frame[c])]
        BY <3>1 DEF FinishDelivery
      <4> HIDE DEF r
      <4>4. pc[r] \notin {"hello", "covenant"}
        BY <4>2 DEF Admission, Ready, Greeted
      <4> QED
        BY <4>2, <4>3, <4>4 DEF TypeOK
    <3>2. CASE ~ FinishDelivery(c)
      BY <1>9, <3>2 DEF Unregister, DropRecipient, Snapshot
    <3> QED
      BY <3>1, <3>2
  <2>3. registry' \subseteq registry
    BY <1>9 DEF Unregister, DropRecipient, FinishDelivery, Snapshot, shared
  <2>4. ASSUME NEW d \in Conns, NEW r \in Conns, Listed(d, r)'
        PROVE  Listed(d, r) \/ r \in registry
    <3>1. CASE Unregister(c) \/ d # c
      <4>1. recipients'[d] = recipients[d]
        BY <1>9, <3>1 DEF Unregister, DropRecipient, FinishDelivery, Snapshot,
          NextRecipient, TypeOK
      <4> QED
        BY <2>4, <4>1 DEF Listed, Holds
    <3>2. CASE d = c /\ (DropRecipient(c) \/ FinishDelivery(c))
      <4>1. recipients[c] \in Seq(Conns) /\ recipients[c] # <<>>
        BY <3>2 DEF DropRecipient, FinishDelivery, TypeOK, Relaying
      <4>2. recipients'[c] = Tail(recipients[c])
        BY <3>2 DEF DropRecipient, FinishDelivery, NextRecipient, TypeOK
      <4>3. PICK i \in 1 .. Len(Tail(recipients[c])) : Tail(recipients[c])[i] = r
        BY <2>4, <3>2, <4>2 DEF Listed, Holds
      <4>4. i + 1 \in 1 .. Len(recipients[c]) /\ recipients[c][i + 1] = r
        BY <4>1, <4>3
      <4> QED
        BY <3>2, <4>4 DEF Listed, Holds
    <3>3. CASE d = c /\ Snapshot(c)
      <4>1. PICK s \in Listings(registry \ {c}) : recipients' = [recipients EXCEPT ![c] = s]
        BY <3>3 DEF Snapshot
      <4>2. PICK n \in Nat : n = Cardinality(registry \ {c})
        BY ChatServerAssumption, FS_Subset, FS_CardinalityType DEF TypeOK
      <4>3. s \in [1 .. n -> registry \ {c}]
        BY <4>1, <4>2 DEF Listings
      <4>4. s \in Seq(registry \ {c}) /\ Len(s) = n
        BY <4>3
      <4>5. recipients'[c] = s
        BY <4>1 DEF TypeOK
      <4>6. PICK i \in 1 .. Len(s) : s[i] = r
        BY <2>4, <3>3, <4>5 DEF Listed, Holds
      <4> QED
        BY <4>3, <4>4, <4>6
    <3> QED
      BY <1>9, <3>1, <3>2, <3>3
  <2> HIDE DEF WellTyped
  <2> QED
    BY <2>1, <2>2, <2>3, <2>4, NobodyEnters
<1> QED
  BY <1>0, <1>1, <1>3, <1>4, <1>5, <1>6, <1>7, <1>8, <1>9 DEF Next, Thread

LEMMA AdmissionInit == Init => Admission
  BY DEF Init, Admission, Inside, Listed, Holds

\* A message is put on a wire by deliver alone.
LEMMA NewMessages ==
  ASSUME WellTyped, [Next]_vars, NEW d \in Conns, NEW i \in 1 .. Len(wire'[d]),
         IsMessage(wire'[d][i]), i \notin 1 .. Len(wire[d])
  PROVE  \E c \in Conns :
           /\ FinishDelivery(c) /\ d = Head(recipients[c])
           /\ i = Len(wire[d]) + 1 /\ wire'[d][i] = frame[c]
<1> USE DEF WellTyped
<1>1. wire # wire'
  OBVIOUS
<1>2. ASSUME NEW c \in Conns, Talk(c) \/ Client(c)
      PROVE  FALSE
  <2>1. PICK f \in FromServer : ~ IsMessage(f)
               /\ wire' = [wire EXCEPT ![c] = Append(@, f)]
    BY <1>1, <1>2, TalkQuiet
  <2>2. wire'[d] = IF d = c THEN Append(wire[d], f) ELSE wire[d]
    BY <2>1 DEF TypeOK
  <2>3. wire[d] \in Seq(FromServer)
    BY DEF TypeOK
  <2> QED
    BY <2>1, <2>2, <2>3, AppendProperties
<1>3. PICK c \in Conns : FinishDelivery(c)
  <2>1. PICK c \in Conns : Thread(c) \/ Client(c)
    BY <1>1 DEF Next, vars
  <2>2. ~ StartDelivery(c) /\ ~ FailDelivery(c)
    BY <1>1 DEF StartDelivery, FailDelivery
  <2> QED
    BY <1>2, <2>1, <2>2 DEF Thread, Talk
<1>4. Head(recipients[c]) \in Conns /\ frame[c] \in FromServer
  BY <1>3 DEF FinishDelivery, TypeOK, Relaying
<1>5. wire' = [wire EXCEPT ![Head(recipients[c])] = Append(@, frame[c])]
  BY <1>3 DEF FinishDelivery
<1>6. d = Head(recipients[c]) /\ wire'[d] = Append(wire[d], frame[c])
  BY <1>4, <1>5 DEF TypeOK
<1>7. wire[d] \in Seq(FromServer)
  BY DEF TypeOK
<1>8. Len(wire'[d]) = Len(wire[d]) + 1 /\ wire'[d][Len(wire[d]) + 1] = frame[c]
  BY <1>4, <1>6, <1>7, AppendProperties
<1>9. i = Len(wire[d]) + 1
  BY <1>7, <1>8
<1> QED
  BY <1>3, <1>6, <1>8, <1>9

\* The next recipient of a delivery is on the list.
LEMMA NextListed ==
  ASSUME WellTyped, NEW c \in Conns, recipients[c] # <<>>
  PROVE  Head(recipients[c]) \in Conns /\ Listed(c, Head(recipients[c]))
<1>1. recipients[c] \in Seq(Conns) /\ recipients[c] # <<>>
  BY DEF WellTyped, TypeOK
<1> QED
  BY <1>1 DEF Listed, Holds

LEMMA AuthorizedStep ==
  WellTyped /\ Admission /\ OnlyAuthorized /\ [Next]_vars => OnlyAuthorized'
<1> DEFINE Welcome == IF protected THEN AuthOk ELSE HelloAck
<1> SUFFICES ASSUME WellTyped, Admission, OnlyAuthorized, [Next]_vars,
                    NEW d \in Conns, NEW i \in 1 .. Len(wire'[d]),
                    IsMessage(wire'[d][i])
             PROVE  /\ \E k \in 1 .. Len(wire'[wire'[d][i].msg.from]) :
                         wire'[wire'[d][i].msg.from][k] = Welcome'
                    /\ \E k \in 1 .. i - 1 : wire'[d][k] = Welcome'
  BY DEF OnlyAuthorized, Authorized, Wrote
<1>1. Welcome' = Welcome
  BY WiresGrow DEF fixed
<1>2. PICK q \in Conns : wire'[d][i].msg.from = q
  <2>1. wire'[d][i] \in FromServer
    BY TypeStep DEF WellTyped, TypeOK
  <2>2. wire'[d][i].msg \in Messages
    BY <2>1, RepliesAreNoMessages DEF FromServer, SealedFrames
  <2> QED
    BY <2>2 DEF Messages
<1> HIDE DEF Welcome
<1>3. CASE i \in 1 .. Len(wire[d])
  <2>1. wire'[d][i] = wire[d][i]
    BY <1>3, WiresGrow
  <2>2. PICK k \in 1 .. Len(wire[q]) : wire[q][k] = Welcome
    <3>1. wire[d][i].msg.from = q
      BY <1>2, <2>1
    <3>2. Authorized(wire[d][i].msg.from)
      BY <1>3, <2>1 DEF OnlyAuthorized
    <3>3. \E k \in 1 .. Len(wire[wire[d][i].msg.from]) :
            wire[wire[d][i].msg.from][k] = Welcome
      BY <3>2 DEF Authorized, Wrote, Welcome
    <3> QED
      BY <3>1, <3>3
  <2>3. PICK j \in 1 .. i - 1 : wire[d][j] = Welcome
    BY <1>3, <2>1 DEF OnlyAuthorized, Welcome
  <2>4. j \in 1 .. Len(wire[d])
    BY <1>3, <2>3 DEF WellTyped, TypeOK
  <2> QED
    BY <1>1, <1>2, <2>2, <2>3, <2>4, WiresGrow
<1>4. CASE i \notin 1 .. Len(wire[d])
  <2>1. PICK c \in Conns :
          /\ FinishDelivery(c) /\ d = Head(recipients[c])
          /\ i = Len(wire[d]) + 1 /\ wire'[d][i] = frame[c]
    BY <1>4, NewMessages
  <2>2. pc[c] = "sending" /\ c = q
    BY <1>2, <2>1 DEF FinishDelivery, WellTyped, Relaying
  <2>3. Greeted(q)
    BY <2>2 DEF Admission, Inside
  <2>4. Greeted(d)
    BY <2>1, <2>2, NextListed DEF WellTyped, Relaying, Admission, Ready
  <2>5. ASSUME NEW x \in Conns, Greeted(x)
        PROVE  \E k \in 1 .. Len(wire[x]) : wire[x][k] = Welcome
    <3>1. wire[x] \in Seq(FromServer)
      BY DEF WellTyped, TypeOK
    <3>2. 1 \in 1 .. Len(wire[x]) /\ (protected => 2 \in 1 .. Len(wire[x]))
      BY <2>5, <3>1 DEF Greeted
    <3> QED
      BY <2>5, <3>2 DEF Greeted, Welcome
  <2>6. PICK k \in 1 .. Len(wire[q]) : wire[q][k] = Welcome
    BY <2>3, <2>5
  <2>7. PICK j \in 1 .. Len(wire[d]) : wire[d][j] = Welcome
    BY <2>4, <2>5
  <2>8. j \in 1 .. i - 1
    BY <2>1, <2>7 DEF WellTyped, TypeOK
  <2> QED
    BY <1>1, <1>2, <2>6, <2>7, <2>8, WiresGrow
<1> QED
  BY <1>3, <1>4

\* Whatever the number of clients and whoever is late, wrong or gone: a message
\* is from a client that was admitted, and its recipient was admitted before.
THEOREM AdmittedOnly == Spec => []OnlyAuthorized
<1>1. Init => OnlyAuthorized
  BY DEF Init, OnlyAuthorized
<1> QED
  BY <1>1, TypeInit, TypeStep, AdmissionInit, AdmissionStep, AuthorizedStep, PTL
  DEF Spec

-----------------------------------------------------------------------------
(***************************************************************************)
(* What a client that makes no mistake is sent                             *)
(***************************************************************************)

LEMMA ReadableStep ==
  WellTyped /\ InOrder /\ Admission /\ Readable /\ [Next]_vars => Readable'
<1> SUFFICES ASSUME WellTyped, InOrder, Admission, Readable, [Next]_vars,
                    NEW d \in Conns, pc'[d] = "sending"
             PROVE  IF protected'
                      THEN frame'[d].type = "sealed"
                             /\ (Head(recipients'[d]) \in Browsers => ~ frame'[d].packed)
                      ELSE frame'[d].type = "chat"
  BY DEF Readable
<1> USE DEF WellTyped
<1>1. protected' = protected
  BY WiresGrow DEF fixed
<1>2. CASE StartDelivery(d)
  <2> DEFINE r == Head(recipients[d])
  <2>1. r \in Conns /\ Ready(r)
    BY <1>2, NextListed DEF StartDelivery, Admission
  <2>2. frame'[d] = Outgoing(r, tx_seq[r] + 1, message[d]) /\ recipients' = recipients
    BY <1>2 DEF StartDelivery, TypeOK
  <2> HIDE DEF r
  <2>3. Head(recipients'[d]) = r
    BY <2>2 DEF r
  <2>4. protected => compress[r] = (r \notin Browsers)
    BY <2>1 DEF Ready
  <2>5. CASE protected
    <3>1. Outgoing(r, tx_seq[r] + 1, message[d])
            = [type |-> "sealed", seq |-> tx_seq[r] + 1, packed |-> compress[r],
               msg |-> message[d]]
      BY <2>5 DEF Outgoing
    <3>2. /\ Outgoing(r, tx_seq[r] + 1, message[d]).type = "sealed"
          /\ Outgoing(r, tx_seq[r] + 1, message[d]).packed = compress[r]
      BY <3>1
    <3> QED
      BY <1>1, <2>2, <2>3, <2>4, <2>5, <3>2
  <2>6. CASE ~ protected
    BY <1>1, <2>2, <2>6 DEF Outgoing
  <2> QED
    BY <2>5, <2>6
<1>3. CASE ~ StartDelivery(d)
  <2>1. pc[d] = "sending" /\ frame'[d] = frame[d] /\ recipients'[d] = recipients[d]
    <3>1. CASE UNCHANGED vars
      BY <3>1 DEF vars, thread
    <3>2. ASSUME NEW c \in Conns, Talk(c) \/ Client(c)
          PROVE  pc[d] = "sending" /\ frame'[d] = frame[d] /\ recipients'[d] = recipients[d]
      BY <3>2, TalkQuiet
    <3>3. ASSUME NEW c \in Conns,
                 StartDelivery(c) \/ FinishDelivery(c) \/ FailDelivery(c)
          PROVE  pc[d] = "sending" /\ frame'[d] = frame[d] /\ recipients'[d] = recipients[d]
      BY <1>3, <3>3 DEF StartDelivery, FinishDelivery, FailDelivery, NextRecipient,
        Goto, TypeOK
    <3> QED
      BY <3>1, <3>2, <3>3 DEF Next, Thread, Talk
  <2> QED
    BY <1>1, <2>1 DEF Readable
<1> QED
  BY <1>2, <1>3

\* The next frame of a client that made no mistake is the one expected.
LEMMA NextUsual ==
  ASSUME WellTyped, NEW c \in Conns, Usual(c), NEW label, Receive(c, label)
  PROVE  /\ label = "hello" => Head(inbox[c]) = Hello /\ inbox'[c] = <<>>
         /\ label = "covenant" =>
              inbox'[c] = <<>> /\ \E g \in BOOLEAN : Head(inbox[c]) = Proof(g)
         /\ label \in Inside =>
              /\ IsUsual(Head(inbox[c]))
              /\ \A i \in 1 .. Len(inbox'[c]) : IsUsual(inbox'[c][i])
<1>1. inbox[c] \in Seq(FromClient) /\ inbox[c] # <<>>
  BY DEF WellTyped, TypeOK, Receive
<1>2. pc[c] = label /\ inbox'[c] = Tail(inbox[c])
  BY DEF Receive, WellTyped, TypeOK
<1>3. \A f : Head(<<f>>) = f /\ Tail(<<f>>) = <<>>
  OBVIOUS
<1>4. CASE label = "hello"
  BY <1>1, <1>2, <1>3, <1>4 DEF Usual, Inside
<1>5. CASE label = "covenant"
  <2>1. PICK g \in BOOLEAN : inbox[c] = <<Proof(g)>>
    BY <1>1, <1>2, <1>5 DEF Usual
  <2> QED
    BY <1>2, <1>3, <1>5, <2>1 DEF Inside
<1>6. CASE label \in Inside
  <2>1. \A i \in 1 .. Len(inbox[c]) : IsUsual(inbox[c][i])
    BY <1>2, <1>6 DEF Usual
  <2>2. 1 \in 1 .. Len(inbox[c]) /\ Head(inbox[c]) = inbox[c][1]
    BY <1>1
  <2>3. \A i \in 1 .. Len(Tail(inbox[c])) :
          i + 1 \in 1 .. Len(inbox[c]) /\ Tail(inbox[c])[i] = inbox[c][i + 1]
    BY <1>1
  <2> QED
    BY <1>2, <1>6, <2>1, <2>2, <2>3 DEF Inside
<1> QED
  BY <1>4, <1>5, <1>6

LEMMA UsualStep == WellTyped /\ Admission /\ Usuals /\ [Next]_vars => Usuals'
<1> SUFFICES ASSUME WellTyped, Admission, Usuals, [Next]_vars,
                    NEW c \in Conns \ wrong'
             PROVE  Usual(c)'
  BY DEF Usuals
<1> USE DEF WellTyped
<1>1. protected' = protected
  BY WiresGrow DEF fixed
<1>2. c \notin wrong
  BY WrongStays
<1>3. Usual(c)
  BY <1>2 DEF Usuals
<1>4. ASSUME pc'[c] = pc[c], inbox'[c] = inbox[c], peer'[c] = peer[c]
      PROVE  Usual(c)'
  BY <1>1, <1>3, <1>4 DEF Usual, IsUsual
<1>5. ASSUME NEW d \in Conns \ {c}, Thread(d) \/ Client(d)
      PROVE  Usual(c)'
  <2>1. /\ \A l : pc' = [pc EXCEPT ![d] = l] => pc'[c] = pc[c]
        /\ \A l : inbox' = [inbox EXCEPT ![d] = l] => inbox'[c] = inbox[c]
        /\ \A l : peer' = [peer EXCEPT ![d] = l] => peer'[c] = peer[c]
    BY DEF TypeOK
  <2>2. ASSUME Thread(d)
        PROVE  \E l : pc' = [pc EXCEPT ![d] = l]
    BY <2>2 DEF Thread, Greet, RefuseGreeting, Authenticate, RefuseProof,
      SetCompression, Register, TakeMessage, RefuseFrame, Crash, Hangup, Snapshot,
      StartDelivery, FinishDelivery, FailDelivery, DropRecipient, EndBroadcast,
      Unregister, CloseSocket, Reply, Goto
  <2>3. ASSUME Thread(d)
        PROVE  peer' = peer /\ (inbox' = inbox \/ \E l : inbox' = [inbox EXCEPT ![d] = l])
    BY <2>3 DEF Thread, Greet, RefuseGreeting, Authenticate, RefuseProof,
      SetCompression, Register, TakeMessage, RefuseFrame, Crash, Hangup, Snapshot,
      StartDelivery, FinishDelivery, FailDelivery, DropRecipient, EndBroadcast,
      Unregister, CloseSocket, Receive, clients
  <2>4. ASSUME Client(d)
        PROVE  /\ pc' = pc
               /\ peer' = peer \/ \E l : peer' = [peer EXCEPT ![d] = l]
               /\ \E l : inbox' = [inbox EXCEPT ![d] = l]
    BY <2>4 DEF Client, SayHello, SendProof, Say, SendWrong, Leave, Post, thread
  <2> QED
    BY <1>4, <1>5, <2>1, <2>2, <2>3, <2>4
\* Most steps of an inner thread leave the client where it is.
<1>6. ASSUME pc[c] \notin {"hello", "covenant"}, peer' = peer,
             pc'[c] \notin {"hello", "covenant", "authenticated"},
             pc'[c] \in Inside => pc[c] \in Inside,
             inbox'[c] = inbox[c] \/ Receive(c, pc[c])
      PROVE  Usual(c)'
  <2>1. pc[c] \in Inside => \A i \in 1 .. Len(inbox'[c]) : IsUsual(inbox'[c][i])
    BY <1>3, <1>6, NextUsual DEF Usual
  <2> QED
    BY <1>1, <1>3, <1>6, <2>1 DEF Usual, IsUsual
<1>7. ASSUME Greet(c)
      PROVE  Usual(c)'
  <2>1. /\ pc[c] = "hello" /\ inbox[c] # <<>> /\ inbox'[c] = <<>> /\ peer' = peer
    BY <1>3, <1>7, NextUsual DEF Greet, Receive, clients
  <2>2. \/ pc'[c] = IF protected THEN "covenant" ELSE "register"
        \/ pc'[c] = "finally" /\ peer[c] = "left"
    BY <1>7 DEF Greet, Reply, Goto, TypeOK
  <2> QED
    BY <1>1, <1>3, <2>1, <2>2 DEF Usual, Inside
<1>8. ASSUME RefuseGreeting(c)
      PROVE  FALSE
  <2>1. Head(inbox[c]) = Hello
    BY <1>3, <1>8, NextUsual DEF RefuseGreeting
  <2> QED
    BY <1>8, <2>1 DEF RefuseGreeting, Hello
<1>9. ASSUME Authenticate(c) \/ RefuseProof(c)
      PROVE  Usual(c)'
  <2>1. Receive(c, "covenant")
    BY <1>9 DEF Authenticate, RefuseProof
  <2>2. pc[c] = "covenant" /\ inbox[c] # <<>> /\ peer' = peer
    BY <2>1 DEF Receive, clients
  <2>3. inbox'[c] = <<>>
    BY <1>3, <2>1, NextUsual
  <2>4. pc'[c] \in {"authenticated", "finally"}
    BY <1>9 DEF Authenticate, RefuseProof, Reply, Goto, TypeOK
  <2>5. protected /\ peer[c] \notin {"absent", "new", "greeted"}
    BY <1>3, <2>2 DEF Usual, Admission
  <2> QED
    BY <1>1, <2>2, <2>3, <2>4, <2>5 DEF Usual, Inside
<1>10. ASSUME SetCompression(c) \/ Register(c) \/ TakeMessage(c) \/ RefuseFrame(c)
                \/ Snapshot(c) \/ StartDelivery(c) \/ FinishDelivery(c)
                \/ FailDelivery(c) \/ DropRecipient(c) \/ EndBroadcast(c)
                \/ Unregister(c) \/ CloseSocket(c)
       PROVE  Usual(c)'
  <2>1. /\ pc[c] \notin {"hello", "covenant"} /\ peer' = peer
        /\ inbox'[c] = inbox[c] \/ Receive(c, pc[c])
    BY <1>10 DEF SetCompression, Register, TakeMessage, RefuseFrame, Snapshot,
      StartDelivery, FinishDelivery, FailDelivery, DropRecipient, EndBroadcast,
      Unregister, CloseSocket, Receive, clients
  <2>2. /\ pc'[c] \notin {"hello", "covenant", "authenticated"}
        /\ pc'[c] \in Inside => pc[c] \in Inside
    BY <1>10 DEF SetCompression, Register, TakeMessage, RefuseFrame, Snapshot,
      StartDelivery, FinishDelivery, FailDelivery, DropRecipient, EndBroadcast,
      Unregister, CloseSocket, Receive, Reply, Goto, Inside, TypeOK
  <2> QED
    BY <1>6, <2>1, <2>2
<1>11. ASSUME Crash(c)
       PROVE  FALSE
  <2>1. /\ pc[c] \in {"hello", "covenant", "loop"} /\ Receive(c, pc[c])
        /\ Head(inbox[c]) = Malformed
    BY <1>11 DEF Crash
  <2>2. /\ Malformed # Hello /\ ~ IsUsual(Malformed)
        /\ \A g \in BOOLEAN : Malformed # Proof(g)
    BY DEF Malformed, Hello, Proof, IsUsual
  <2> QED
    BY <1>3, <2>1, <2>2, NextUsual DEF Inside
<1>12. ASSUME Hangup(c)
       PROVE  Usual(c)'
  <2>1. pc'[c] = "finally" /\ peer'[c] = "left"
    BY <1>12 DEF Hangup, Goto, TypeOK, clients
  <2> QED
    BY <2>1 DEF Usual, Inside
<1>13. ASSUME SayHello(c)
       PROVE  Usual(c)'
  <2>1. /\ pc[c] = "hello" /\ inbox[c] = <<>> /\ pc' = pc
        /\ inbox'[c] = Append(inbox[c], Hello) /\ peer'[c] = "greeted"
    BY <1>3, <1>13 DEF SayHello, Post, Usual, thread, TypeOK
  <2>2. Append(<<>>, Hello) = <<Hello>>
    OBVIOUS
  <2> QED
    BY <2>1, <2>2 DEF Usual, Inside
<1>14. ASSUME SendProof(c)
       PROVE  Usual(c)'
  <2>1. /\ protected /\ peer[c] = "greeted" /\ pc' = pc /\ peer'[c] = "proved"
        /\ wire[c] # <<>>
    BY <1>14 DEF SendProof, Wrote, thread, TypeOK
  <2>2. pc[c] = "covenant" /\ inbox[c] = <<>>
    BY <1>3, <2>1 DEF Usual, Admission
  <2>3. PICK g \in BOOLEAN : inbox'[c] = Append(inbox[c], Proof(g))
    BY <1>14 DEF SendProof, Post, TypeOK
  <2>4. Append(<<>>, Proof(g)) = <<Proof(g)>>
    OBVIOUS
  <2> QED
    BY <1>1, <2>1, <2>2, <2>3, <2>4 DEF Usual, Inside
<1>15. ASSUME Say(c)
       PROVE  Usual(c)'
  <2>1. PICK f \in FromClient : IsUsual(f) /\ inbox'[c] = Append(inbox[c], f)
    <3> DEFINE m == [from |-> c, n |-> said[c] + 1]
    <3>1. m \in Messages
      BY DEF Messages, TypeOK
    <3> HIDE DEF m
    <3>2. SealedBy(m) \in FromClient /\ ChatBy(m) \in FromClient
      BY <3>1, ClientFrames
    <3>3. /\ SealedBy(m).type = "sealed" /\ SealedBy(m).good
          /\ ChatBy(m).type = "chat"
      BY DEF SealedBy, ChatBy
    <3>4. inbox'[c] = Append(inbox[c], IF protected THEN SealedBy(m) ELSE ChatBy(m))
      BY <1>15 DEF Say, Post, m, TypeOK
    <3>5. IsUsual(IF protected THEN SealedBy(m) ELSE ChatBy(m))
      BY <3>3 DEF IsUsual
    <3> QED
      BY <3>2, <3>4, <3>5
  <2>2. inbox[c] \in Seq(FromClient)
    BY DEF TypeOK
  <2>3. pc'[c] = pc[c] /\ peer'[c] = peer[c] /\ peer[c] \in {"greeted", "proved"}
    BY <1>15 DEF Say, thread
  <2>4. pc[c] \notin {"hello", "covenant"}
    <3>1. \E i \in 1 .. Len(wire[c]) :
            wire[c][i] = IF protected THEN AuthOk ELSE HelloAck
      BY <1>15 DEF Say, Authorized, Wrote
    <3>2. AuthOk # HelloAck
      BY DEF AuthOk, HelloAck
    <3> QED
      BY <3>1, <3>2 DEF Admission
  <2>5. pc[c] \in Inside => \A i \in 1 .. Len(inbox'[c]) : IsUsual(inbox'[c][i])
    BY <1>3, <2>1, <2>2, AppendProperties DEF Usual
  <2> QED
    BY <1>1, <1>3, <2>3, <2>4, <2>5 DEF Usual, IsUsual
<1>16. ASSUME SendWrong(c)
       PROVE  FALSE
  BY <1>16 DEF SendWrong
<1>17. ASSUME Leave(c)
       PROVE  Usual(c)'
  <2>1. PICK k \in 0 .. Len(inbox[c]) : inbox'[c] = SubSeq(inbox[c], 1, k)
    BY <1>17 DEF Leave, TypeOK
  <2>2. pc'[c] = pc[c] /\ peer'[c] = "left"
    BY <1>17 DEF Leave, thread, TypeOK
  <2>3. inbox[c] \in Seq(FromClient)
    BY DEF TypeOK
  <2>4. \A i \in 1 .. Len(inbox'[c]) :
          i \in 1 .. Len(inbox[c]) /\ inbox'[c][i] = inbox[c][i]
    BY <2>1, <2>3
  <2>5. k = 0 => inbox'[c] = <<>>
    BY <2>1, SubSeqEmpty
  <2>6. k = Len(inbox[c]) => inbox'[c] = inbox[c]
    BY <2>1, <2>3, SubSeqFull
  <2>7. \A f : inbox[c] = <<f>> => inbox'[c] \in {<<>>, <<f>>}
    BY <2>1, <2>5, <2>6
  <2>8. inbox[c] = <<>> => inbox'[c] = <<>>
    BY <2>1, <2>5
  <2> QED
    BY <1>1, <1>3, <2>2, <2>4, <2>7, <2>8 DEF Usual, IsUsual
<1> QED
  <2>1. CASE UNCHANGED vars
    BY <1>4, <2>1 DEF vars, thread, clients
  <2>2. CASE Thread(c) \/ Client(c)
    BY <2>2, <1>7, <1>8, <1>9, <1>10, <1>11, <1>12, <1>13, <1>14, <1>15, <1>16,
      <1>17 DEF Thread, Client
  <2> QED
    BY <1>5, <2>1, <2>2 DEF Next

LEMMA UsualInit == Init => Readable /\ Usuals /\ ListenersKeepUp
  BY DEF Init, Readable, Usuals, Usual, Inside, ListenersKeepUp, Expected

\* What has been received is as expected for ever.
LEMMA ExpectedStays ==
  ASSUME WellTyped, [Next]_vars, NEW c \in Conns, NEW i \in 1 .. Len(wire[c]),
         Expected(c, i)
  PROVE  Expected(c, i)'
<1>1. \A j \in 1 .. i : wire'[c][j] = wire[c][j]
  BY WiresGrow DEF WellTyped, TypeOK
<1>2. i \in 1 .. i /\ \A j \in 3 .. i - 1 : j \in 1 .. i
  OBVIOUS
<1>3. protected' = protected
  BY WiresGrow DEF fixed
<1> QED
  BY <1>1, <1>2, <1>3 DEF Expected

LEMMA KeepUpStep ==
  WellTyped /\ InOrder /\ Admission /\ Readable /\ Usuals /\ ListenersKeepUp
    /\ [Next]_vars => ListenersKeepUp'
<1> SUFFICES ASSUME WellTyped, InOrder, Admission, Readable, Usuals,
                    ListenersKeepUp, [Next]_vars,
                    NEW c \in Conns \ wrong', NEW i \in DOMAIN wire'[c]
             PROVE  Expected(c, i)'
  BY DEF ListenersKeepUp
<1> USE DEF WellTyped
<1>1. protected' = protected
  BY WiresGrow DEF fixed
<1>2. c \notin wrong
  BY WrongStays
<1>3. Usual(c)
  BY <1>2 DEF Usuals
<1>4. /\ wire[c] \in Seq(FromServer) /\ wire'[c] \in Seq(FromServer)
      /\ i \in 1 .. Len(wire'[c])
      /\ DOMAIN wire[c] = 1 .. Len(wire[c])
  BY TypeStep DEF TypeOK
<1>5. CASE i \in 1 .. Len(wire[c])
  BY <1>2, <1>4, <1>5, ExpectedStays DEF ListenersKeepUp
<1>6. ASSUME i \notin 1 .. Len(wire[c]), IsMessage(wire'[c][i])
      PROVE  Expected(c, i)'
  <2>1. PICK d \in Conns :
          /\ FinishDelivery(d) /\ c = Head(recipients[d])
          /\ i = Len(wire[c]) + 1 /\ wire'[c][i] = frame[d]
    BY <1>4, <1>6, NewMessages
  <2>2. pc[d] = "sending" /\ recipients[d] # <<>>
    BY <2>1 DEF FinishDelivery, Relaying
  <2>3. Greeted(c)
    BY <2>2, <2>1, NextListed DEF Admission, Ready
  <2>4. i >= 2 /\ (protected => i >= 3)
    BY <1>4, <2>1, <2>3 DEF Greeted
  <2>5. CASE protected
    <3>1. frame[d].type = "sealed" /\ (c \in Browsers => ~ frame[d].packed)
      BY <2>1, <2>2, <2>5 DEF Readable
    <3>2. \A j \in 1 .. Len(wire[c]) :
            wire[c][j].type = "sealed" => wire[c][j].seq < frame[d].seq
      BY <2>1, <2>2, <3>1 DEF InOrder, NumbersFall
    <3>3. ASSUME NEW j \in 3 .. i - 1
          PROVE  wire'[c][j] = wire[c][j] /\ wire[c][j].seq < frame[d].seq
      <4>1. j \in 1 .. Len(wire[c]) /\ j # 1 /\ j # 2
        BY <1>4, <2>1
      <4>2. wire[c][j].type = "sealed"
        BY <1>2, <1>4, <2>5, <4>1 DEF ListenersKeepUp, Expected
      <4> QED
        BY <3>2, <4>1, <4>2, WiresGrow
    <3> QED
      BY <1>1, <2>1, <2>4, <2>5, <3>1, <3>3 DEF Expected
  <2>6. CASE ~ protected
    <3>1. frame[d].type = "chat"
      BY <2>2, <2>6 DEF Readable
    <3> QED
      BY <1>1, <2>1, <2>4, <2>6, <3>1 DEF Expected
  <2> QED
    BY <2>5, <2>6
<1>7. ASSUME i \notin 1 .. Len(wire[c]), ~ IsMessage(wire'[c][i])
      PROVE  Expected(c, i)'
  <2>1. wire'[c] # wire[c]
    BY <1>4, <1>7
  <2>2. Talk(c)
    <3>1. wire # wire'
      BY <2>1
    <3>2. PICK d \in Conns : Thread(d) \/ Client(d)
      BY <3>1 DEF Next, vars
    <3>3. ~ Client(d) /\ ~ StartDelivery(d) /\ ~ FailDelivery(d)
      BY <3>1 DEF Client, SayHello, SendProof, Say, SendWrong, Leave, StartDelivery,
        FailDelivery
    <3>4. ~ FinishDelivery(d)
      <4> SUFFICES ASSUME FinishDelivery(d)
                   PROVE  FALSE
        OBVIOUS
      <4>1. pc[d] = "sending" /\ recipients[d] # <<>>
        BY DEF FinishDelivery, Relaying
      <4>2. IsMessage(frame[d]) /\ frame[d] \in FromServer
        BY <4>1 DEF Relaying
      <4>3. wire' = [wire EXCEPT ![Head(recipients[d])] = Append(@, frame[d])]
        BY DEF FinishDelivery
      <4>4. c = Head(recipients[d]) /\ wire'[c] = Append(wire[c], frame[d])
        BY <2>1, <4>3 DEF TypeOK
      <4>5. i = Len(wire[c]) + 1
        BY <1>4, <1>7, <4>2, <4>4, AppendProperties
      <4> QED
        BY <1>4, <1>7, <4>2, <4>4, <4>5, AppendProperties
    <3>5. Talk(d)
      BY <3>2, <3>3, <3>4 DEF Thread, Talk
    <3>6. PICK f \in FromServer : wire' = [wire EXCEPT ![d] = Append(@, f)]
      BY <3>1, <3>5, TalkQuiet
    <3> QED
      BY <2>1, <3>5, <3>6 DEF TypeOK
  <2>3. ASSUME NEW f \in FromServer, wire'[c] = Append(wire[c], f)
        PROVE  i = Len(wire[c]) + 1 /\ wire'[c][i] = f
    BY <1>4, <1>7, <2>3, AppendProperties
  <2>4. CASE Greet(c)
    <3>1. wire[c] = <<>> /\ wire'[c] = Append(wire[c], HelloAck)
      BY <2>1, <2>4 DEF Greet, Receive, Reply, Admission, TypeOK
    <3>2. i = 1 /\ wire'[c][i] = HelloAck
      BY <2>3, <3>1, ServerFrames
    <3> QED
      BY <3>2 DEF Expected
  <2>5. CASE Authenticate(c) \/ RefuseProof(c)
    <3>1. wire[c] = <<HelloAck>> /\ protected
      BY <2>5 DEF Authenticate, RefuseProof, Receive, Admission
    <3>2. PICK f \in {AuthOk, AuthFail} : wire'[c] = Append(wire[c], f)
      BY <2>1, <2>5 DEF Authenticate, RefuseProof, Reply, TypeOK
    <3>3. Len(wire[c]) = 1
      BY <3>1
    <3>4. i = 2 /\ wire'[c][i] = f
      BY <2>3, <3>2, <3>3, ServerFrames
    <3> QED
      BY <1>1, <3>1, <3>2, <3>4 DEF Expected
  <2>6. ~ RefuseGreeting(c)
    <3>1. Receive(c, "hello") => Head(inbox[c]) = Hello
      BY <1>3, NextUsual
    <3> QED
      BY <3>1 DEF RefuseGreeting, Hello
  <2>7. ~ RefuseFrame(c)
    <3>1. Receive(c, "loop") => IsUsual(Head(inbox[c]))
      BY <1>3, NextUsual DEF Inside
    <3> QED
      BY <3>1 DEF RefuseFrame, IsUsual
  <2>8. ~ (\/ SetCompression(c) \/ Register(c) \/ TakeMessage(c) \/ Crash(c)
           \/ Hangup(c) \/ Snapshot(c) \/ DropRecipient(c) \/ EndBroadcast(c)
           \/ Unregister(c) \/ CloseSocket(c))
    BY <2>1 DEF SetCompression, Register, TakeMessage, Crash, Hangup, Snapshot,
      DropRecipient, EndBroadcast, Unregister, CloseSocket
  <2> QED
    BY <2>2, <2>4, <2>5, <2>6, <2>7, <2>8 DEF Talk
<1> QED
  BY <1>5, <1>6, <1>7

\* Whoever connects, relays, fails or leaves at the same time, a client that
\* makes no mistake of its own is sent nothing that ends its receive loop.
THEOREM ListenersSurvive == Spec => []ListenersKeepUp
<1>1. Init => InOrder
  BY ChatServerAssumption DEF Init, InOrder, LockHeld, NumbersFall, SealedInOrder
<1> QED
  BY <1>1, TypeInit, TypeStep, OrderStep, AdmissionInit, AdmissionStep, UsualInit,
    ReadableStep, UsualStep, KeepUpStep, PTL DEF Spec
=============================================================================
