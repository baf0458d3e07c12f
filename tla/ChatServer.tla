----------------------------- MODULE ChatServer -----------------------------
(***************************************************************************)
(* cli/server.py and cli/relay.py: one handler thread for every connection,*)
(* the registry they share, and the delivery of messages between them.     *)
(*                                                                         *)
(* A step of a thread is what it does between two points where another     *)
(* thread can see or change what it works on: a receive, a critical        *)
(* section of the registry's lock, the sealing of a frame (inside the      *)
(* recipient's lock), the sending of it. A client is what the server sees  *)
(* of it: the frames it sends and the moment it goes away. The Covenant    *)
(* exchange is one step here (module Covenant has its inside), and whether *)
(* SessionState.open accepts a sealed frame is an attribute of the frame   *)
(* (module Session has that). Buffers are unbounded, so a send either      *)
(* succeeds or raises; module Backpressure has sends that block.           *)
(*                                                                         *)
(* Definitions introduced by "Slip" are wrong variants of the definition   *)
(* that follows. Nothing uses them; put in its place, each makes a         *)
(* property fail, which shows that the property can.                       *)
(***************************************************************************)
EXTENDS Naturals, Sequences, FiniteSets

CONSTANTS
  Conns,      \* connections; one identifies its client, its thread and its
              \* RegisteredClient
  Browsers,   \* those whose HELLO has status "browser"
  NoOne,      \* not a connection: the owner of a free lock
  Modes,      \* values of cfg.password_required to consider
  Scenarios   \* bounds to consider: which clients there are, how many
              \* messages each of them sends, and which of them send one frame
              \* that is out of order or malformed

ASSUME ChatServerAssumption ==
  /\ IsFiniteSet(Conns)
  /\ Browsers \subseteq Conns
  /\ NoOne \notin Conns
  /\ Modes \subseteq BOOLEAN
  /\ Scenarios \subseteq
       [clients : SUBSET Conns, says : [Conns -> Nat], errs : SUBSET Conns]

VARIABLES
  protected,  \* cfg.password_required: fixed for the life of the server
  scenario,   \* the bounds of this behaviour
  pc,         \* pc[c]: where the thread of c is
  registry,   \* ClientRegistry._clients
  lock,       \* lock[c]: the thread that holds RegisteredClient._lock of c
  compress,   \* compress[c]: SessionState.compress of c's session
  tx_seq,     \* tx_seq[c]: SessionState.tx_seq of c's session
  message,    \* message[c]: what c's thread is broadcasting
  recipients, \* recipients[c]: whom c's thread has yet to deliver it to
  frame,      \* frame[c]: the frame c's thread is about to send
  inbox,      \* inbox[c]: frames of client c the server has yet to read
  wire,       \* wire[c]: everything sent to client c, in order
  peer,       \* peer[c]: how far client c is
  said,       \* said[c]: how many messages client c has sent
  wrong       \* the clients that have sent a frame that is wrong

thread == <<pc, message, recipients, frame>>
shared == <<registry, lock, compress, tx_seq>>
fixed == <<protected, scenario>>
clients == <<peer, said, wrong>>
vars == <<fixed, thread, shared, inbox, wire, clients>>

-----------------------------------------------------------------------------
Messages == [from : Conns, n : Nat \ {0}]

\* Frames of a client. A "malformed" one is text loads refuses, or a sealed
\* frame on which open or decode_message raises anything but the three
\* exceptions _message_loop expects; "proof" stands for the client's part of
\* the Covenant exchange.
Hello == [type |-> "hello"]
Proof(good) == [type |-> "proof", good |-> good]
Other == [type |-> "other"]
Malformed == [type |-> "malformed"]
SealedBy(m) == [type |-> "sealed", good |-> TRUE, msg |-> m]
BadSealed == [type |-> "sealed", good |-> FALSE]
ChatBy(m) == [type |-> "chat", msg |-> m]

\* Frames of the server.
HelloAck == [type |-> "hello_ack"]
AuthOk == [type |-> "auth_ok"]
AuthFail == [type |-> "auth_fail"]
Error(code) == [type |-> "error", code |-> code]

\* deliver: what the recipient r is sent, its session's counter being n.
Outgoing(r, n, m) ==
  IF protected
    THEN [type |-> "sealed", seq |-> n, packed |-> compress[r], msg |-> m]
    ELSE [type |-> "chat", msg |-> m]

IsMessage(f) == f.type \in {"sealed", "chat"}

Wrote(c, f) == \E i \in 1 .. Len(wire[c]) : wire[c][i] = f

\* The server has told c that it may chat.
Authorized(c) == Wrote(c, IF protected THEN AuthOk ELSE HelloAck)

\* A list of the elements of S, in some order.
Listings(S) ==
  {s \in [1 .. Cardinality(S) -> S] :
     \A i, j \in 1 .. Cardinality(S) : s[i] = s[j] => i = j}

-----------------------------------------------------------------------------
Init ==
  /\ protected \in Modes
  /\ scenario \in Scenarios
  /\ pc = [c \in Conns |-> "hello"]
  /\ registry = {}
  /\ lock = [c \in Conns |-> NoOne]
  /\ compress = [c \in Conns |-> TRUE]
  /\ tx_seq = [c \in Conns |-> 0]
  /\ message = [c \in Conns |-> Hello]
  /\ recipients = [c \in Conns |-> <<>>]
  /\ frame = [c \in Conns |-> Hello]
  /\ inbox = [c \in Conns |-> <<>>]
  /\ wire = [c \in Conns |-> <<>>]
  /\ peer = [c \in Conns |-> IF c \in scenario.clients THEN "new" ELSE "absent"]
  /\ said = [c \in Conns |-> 0]
  /\ wrong = {}

(***************************************************************************)
(* A handler thread                                                        *)
(***************************************************************************)
Goto(c, label) == pc' = [pc EXCEPT ![c] = label]

\* The thread of c, at the given place, reads the next frame of its client.
Receive(c, label) ==
  /\ pc[c] = label
  /\ inbox[c] # <<>>
  /\ inbox' = [inbox EXCEPT ![c] = Tail(@)]
  /\ UNCHANGED <<fixed, clients>>

\* A send to c, and where its thread goes on. Once the client has gone the
\* send may raise instead, which ends the handler.
Reply(c, f, label) ==
  /\ \/ wire' = [wire EXCEPT ![c] = Append(@, f)] /\ Goto(c, label)
     \/ peer[c] = "left" /\ UNCHANGED wire /\ Goto(c, "finally")
  /\ UNCHANGED <<message, recipients, frame>>

Greet(c) ==
  /\ Receive(c, "hello")
  /\ Head(inbox[c]) = Hello
  /\ Reply(c, HelloAck, IF protected THEN "covenant" ELSE "register")
  /\ UNCHANGED shared

RefuseGreeting(c) ==
  /\ Receive(c, "hello")
  /\ Head(inbox[c]).type \notin {"hello", "malformed"}
  /\ Reply(c, Error(400), "finally")
  /\ UNCHANGED shared

\* covenant.run_server returns a session.
Authenticate(c) ==
  /\ Receive(c, "covenant")
  /\ Head(inbox[c]) = Proof(TRUE)
  /\ Reply(c, AuthOk, "authenticated")
  /\ UNCHANGED shared

\* Slip: the return after a failed handshake is missing.
LenientRefuseProof(c) ==
  /\ Receive(c, "covenant")
  /\ Head(inbox[c]).type # "malformed"
  /\ Head(inbox[c]) # Proof(TRUE)
  /\ Reply(c, AuthFail, "register")
  /\ UNCHANGED shared

\* covenant.run_server sends AUTH_FAIL and raises CovenantError.
RefuseProof(c) ==
  /\ Receive(c, "covenant")
  /\ Head(inbox[c]).type # "malformed"
  /\ Head(inbox[c]) # Proof(TRUE)
  /\ Reply(c, AuthFail, "finally")
  /\ UNCHANGED shared

\* Slip: is_browser is not looked at.
CompressesAlways(c) == TRUE

\* A browser cannot decompress: its session sends everything verbatim.
Compresses(c) == c \notin Browsers

SetCompression(c) ==
  /\ pc[c] = "authenticated"
  /\ compress' = [compress EXCEPT ![c] = Compresses(c)]
  /\ Goto(c, "register")
  /\ UNCHANGED <<fixed, message, recipients, frame, registry, lock, tx_seq,
                 inbox, wire, clients>>

\* hub.add
Register(c) ==
  /\ pc[c] = "register"
  /\ registry' = registry \cup {c}
  /\ Goto(c, "loop")
  /\ UNCHANGED <<fixed, message, recipients, frame, lock, compress, tx_seq,
                 inbox, wire, clients>>

\* Slip: the frame is handed on, not the message in it.
WrappedTakeMessage(c) ==
  /\ Receive(c, "loop")
  /\ LET f == Head(inbox[c])
     IN  /\ IF protected THEN f.type = "sealed" /\ f.good ELSE f.type = "chat"
         /\ message' = [message EXCEPT ![c] = f]
  /\ Goto(c, "broadcast")
  /\ UNCHANGED <<recipients, frame, shared, wire>>

\* _message_loop: a message of the kind this server takes.
TakeMessage(c) ==
  /\ Receive(c, "loop")
  /\ LET f == Head(inbox[c])
     IN  /\ IF protected THEN f.type = "sealed" /\ f.good ELSE f.type = "chat"
         /\ message' = [message EXCEPT ![c] = f.msg]
  /\ Goto(c, "broadcast")
  /\ UNCHANGED <<recipients, frame, shared, wire>>

\* _message_loop: the frames it answers with an ErrorFrame.
ErrorCode(f) ==
  CASE f.type = "sealed" -> IF protected THEN 400 ELSE 403
    [] f.type = "chat" -> 400
    [] OTHER -> 422

RefuseFrame(c) ==
  /\ Receive(c, "loop")
  /\ LET f == Head(inbox[c])
     IN  /\ f.type # "malformed"
         /\ f.type = "sealed" => ~ (protected /\ f.good)
         /\ f.type = "chat" => protected
         /\ Reply(c, Error(ErrorCode(f)), "loop")
  /\ UNCHANGED shared

\* An exception no handler expects ends the thread, wherever it was reading.
Crash(c) ==
  /\ pc[c] \in {"hello", "covenant", "loop"}
  /\ Receive(c, pc[c])
  /\ Head(inbox[c]) = Malformed
  /\ Goto(c, "finally")
  /\ UNCHANGED <<message, recipients, frame, shared, wire>>

\* ws.recv raises: the client has gone and all it sent has been read.
Hangup(c) ==
  /\ pc[c] \in {"hello", "covenant", "loop"}
  /\ inbox[c] = <<>>
  /\ peer[c] = "left"
  /\ Goto(c, "finally")
  /\ UNCHANGED <<fixed, message, recipients, frame, shared, inbox, wire,
                 clients>>

\* broadcast: the list of recipients, taken under the registry's lock.
Snapshot(c) ==
  /\ pc[c] = "broadcast"
  /\ recipients' \in {[recipients EXCEPT ![c] = s] :
                        s \in Listings(registry \ {c})}
  /\ Goto(c, "fanout")
  /\ UNCHANGED <<fixed, message, frame, shared, inbox, wire, clients>>

\* Slip: deliver does not take the lock.
NoAcquire(r, c) == UNCHANGED lock

\* with self._lock, entered by the thread of c for the recipient r, ...
Acquire(r, c) == lock[r] = NoOne /\ lock' = [lock EXCEPT ![r] = c]

\* Slip: the lock is not released.
NoRelease(r) == UNCHANGED lock

\* ... and left, by the end of the block or by an exception.
Release(r) == lock' = [lock EXCEPT ![r] = NoOne]

\* Slip: a recipient stays on the list after it was served.
SameRecipient(c) == UNCHANGED recipients

NextRecipient(c) == recipients' = [recipients EXCEPT ![c] = Tail(@)]

\* deliver: take the lock of the next recipient and build its frame.
StartDelivery(c) ==
  /\ pc[c] = "fanout"
  /\ recipients[c] # <<>>
  /\ LET r == Head(recipients[c])
     IN  /\ Acquire(r, c)
         /\ tx_seq' = IF protected THEN [tx_seq EXCEPT ![r] = @ + 1] ELSE tx_seq
         /\ frame' = [frame EXCEPT ![c] = Outgoing(r, tx_seq[r] + 1, message[c])]
  /\ Goto(c, "sending")
  /\ UNCHANGED <<fixed, message, recipients, registry, compress, inbox,
                 wire, clients>>

\* ws.send returns, and the with block of deliver ends.
FinishDelivery(c) ==
  /\ pc[c] = "sending"
  /\ LET r == Head(recipients[c])
     IN  /\ pc[r] # "done"
         /\ wire' = [wire EXCEPT ![r] = Append(@, frame[c])]
         /\ Release(r)
  /\ NextRecipient(c)
  /\ Goto(c, "fanout")
  /\ UNCHANGED <<fixed, message, frame, registry, compress, tx_seq, inbox,
                 clients>>

\* ws.send raises, because the recipient has gone or its own thread has closed
\* the socket. The lock is released on the way out of the with block.
FailDelivery(c) ==
  /\ pc[c] = "sending"
  /\ LET r == Head(recipients[c])
     IN  /\ peer[r] = "left" \/ pc[r] = "done"
         /\ Release(r)
  /\ Goto(c, "drop")
  /\ UNCHANGED <<fixed, message, recipients, frame, registry, compress,
                 tx_seq, inbox, wire, clients>>

\* broadcast's except clause: the recipient is removed, the others go on.
DropRecipient(c) ==
  /\ pc[c] = "drop"
  /\ registry' = registry \ {Head(recipients[c])}
  /\ NextRecipient(c)
  /\ Goto(c, "fanout")
  /\ UNCHANGED <<fixed, message, frame, lock, compress, tx_seq, inbox,
                 wire, clients>>

EndBroadcast(c) ==
  /\ pc[c] = "fanout"
  /\ recipients[c] = <<>>
  /\ Goto(c, "loop")
  /\ UNCHANGED <<fixed, message, recipients, frame, shared, inbox, wire,
                 clients>>

\* Slip: the client is not removed from the registry.
ForgetfulUnregister(c) ==
  /\ pc[c] = "finally"
  /\ Goto(c, "closing")
  /\ UNCHANGED <<fixed, message, recipients, frame, shared, inbox, wire,
                 clients>>

\* handle_session's finally clause. A thread that never got to hub.add has no
\* client to remove; the set does not hold it either.
Unregister(c) ==
  /\ pc[c] = "finally"
  /\ registry' = registry \ {c}
  /\ Goto(c, "closing")
  /\ UNCHANGED <<fixed, message, recipients, frame, lock, compress, tx_seq,
                 inbox, wire, clients>>

\* _serve_connection's finally clause: conn.close().
CloseSocket(c) ==
  /\ pc[c] = "closing"
  /\ Goto(c, "done")
  /\ UNCHANGED <<fixed, message, recipients, frame, shared, inbox, wire,
                 clients>>

Thread(c) ==
  \/ Greet(c) \/ RefuseGreeting(c)
  \/ Authenticate(c) \/ RefuseProof(c) \/ SetCompression(c) \/ Register(c)
  \/ TakeMessage(c) \/ RefuseFrame(c) \/ Crash(c) \/ Hangup(c)
  \/ Snapshot(c) \/ StartDelivery(c) \/ FinishDelivery(c) \/ FailDelivery(c)
  \/ DropRecipient(c) \/ EndBroadcast(c)
  \/ Unregister(c) \/ CloseSocket(c)

(***************************************************************************)
(* The clients                                                             *)
(***************************************************************************)
Post(c, f) == inbox' = [inbox EXCEPT ![c] = Append(@, f)]

SayHello(c) ==
  /\ peer[c] = "new"
  /\ peer' = [peer EXCEPT ![c] = "greeted"]
  /\ Post(c, Hello)
  /\ UNCHANGED <<fixed, thread, shared, wire, said, wrong>>

\* ChatClient.authenticate, with the right password or another.
SendProof(c) ==
  /\ peer[c] = "greeted"
  /\ protected
  /\ Wrote(c, HelloAck)
  /\ peer' = [peer EXCEPT ![c] = "proved"]
  /\ \E good \in BOOLEAN : Post(c, Proof(good))
  /\ UNCHANGED <<fixed, thread, shared, wire, said, wrong>>

\* ChatClient.send, after hello and, if it has to, authenticate have returned.
Say(c) ==
  /\ peer[c] \in {"greeted", "proved"}
  /\ Authorized(c)
  /\ said[c] < scenario.says[c]
  /\ said' = [said EXCEPT ![c] = @ + 1]
  /\ LET m == [from |-> c, n |-> said[c] + 1]
     IN  Post(c, IF protected THEN SealedBy(m) ELSE ChatBy(m))
  /\ UNCHANGED <<fixed, thread, shared, wire, peer, wrong>>

\* A frame that is malformed, or not what the server expects now.
SendWrong(c) ==
  /\ peer[c] \notin {"absent", "left"}
  /\ c \in scenario.errs \ wrong
  /\ wrong' = wrong \cup {c}
  /\ \/ \E f \in {Other, Malformed, BadSealed} : Post(c, f)
     \/ protected /\ Post(c, ChatBy([from |-> c, n |-> 1]))
  /\ UNCHANGED <<fixed, thread, shared, wire, peer, said>>

\* The client closes or exits, or its connection breaks: the server may then
\* get to read only a part of what was sent.
Leave(c) ==
  /\ peer[c] \notin {"absent", "left"}
  /\ peer' = [peer EXCEPT ![c] = "left"]
  /\ \E k \in 0 .. Len(inbox[c]) :
       inbox' = [inbox EXCEPT ![c] = SubSeq(@, 1, k)]
  /\ UNCHANGED <<fixed, thread, shared, wire, said, wrong>>

Client(c) == SayHello(c) \/ SendProof(c) \/ Say(c) \/ SendWrong(c) \/ Leave(c)

Next == \E c \in Conns : Thread(c) \/ Client(c)

\* The scheduler runs every thread that can run; clients promise nothing.
Fairness == \A c \in Conns : WF_vars(Thread(c))

Spec == Init /\ [][Next]_vars /\ Fairness
-----------------------------------------------------------------------------
Places ==
  {"hello", "covenant", "authenticated", "register", "loop", "broadcast",
   "fanout", "sending", "drop", "finally", "closing", "done"}

FromClient ==
  {Hello, Other, Malformed, BadSealed} \cup {Proof(g) : g \in BOOLEAN}
    \cup [type : {"sealed"}, good : {TRUE}, msg : Messages]
    \cup [type : {"chat"}, msg : Messages]

SealedFrames ==
  [type : {"sealed"}, seq : Nat, packed : BOOLEAN, msg : Messages]

FromServer ==
  {HelloAck, AuthOk, AuthFail} \cup {Error(n) : n \in {400, 403, 422}}
    \cup SealedFrames \cup [type : {"chat"}, msg : Messages]

TypeOK ==
  /\ protected \in Modes
  /\ scenario \in Scenarios
  /\ pc \in [Conns -> Places]
  /\ registry \subseteq Conns
  /\ lock \in [Conns -> Conns \cup {NoOne}]
  /\ compress \in [Conns -> BOOLEAN]
  /\ tx_seq \in [Conns -> Nat]
  /\ message \in [Conns -> Messages \cup {Hello}]
  /\ recipients \in [Conns -> Seq(Conns)]
  /\ frame \in [Conns -> FromServer \cup {Hello}]
  /\ inbox \in [Conns -> Seq(FromClient)]
  /\ wire \in [Conns -> Seq(FromServer)]
  /\ peer \in [Conns -> {"absent", "new", "greeted", "proved", "left"}]
  /\ said \in [Conns -> Nat]
  /\ \A c \in Conns : said[c] <= scenario.says[c]
  /\ wrong \subseteq scenario.errs

\* Sealed frames leave in the order of their sequence numbers, or the client
\* would refuse some as replays. Several threads seal for one client: it is
\* RegisteredClient._lock, held from seal to send, that makes this true.
SealedInOrder ==
  \A c \in Conns : \A i, j \in 1 .. Len(wire[c]) :
    (/\ i < j
     /\ wire[c][i].type = "sealed" /\ wire[c][j].type = "sealed")
      => wire[c][i].seq < wire[c][j].seq

\* Messages go from authorized clients to authorized clients only: what is
\* relayed comes from a client the server has admitted, and it follows the
\* frame that admits the recipient.
OnlyAuthorized ==
  \A c \in Conns : \A i \in 1 .. Len(wire[c]) :
    IsMessage(wire[c][i]) =>
      /\ Authorized(wire[c][i].msg.from)
      /\ \E k \in 1 .. i - 1 :
           wire[c][k] = IF protected THEN AuthOk ELSE HelloAck

\* What hello, authenticate and then receive of cli/chat_client.py, or the
\* page, make of the i-th frame they are sent is no exception: it is the one
\* they wait for, the session opens it, and a browser need not decompress it.
Expected(c, i) ==
  LET f == wire[c][i]
  IN  CASE i = 1 -> f = HelloAck
        [] i = 2 /\ protected -> f \in {AuthOk, AuthFail}
        [] OTHER ->
             IF protected
               THEN /\ f.type = "sealed"
                    /\ \A j \in 3 .. i - 1 : wire[c][j].seq < f.seq
                    /\ c \in Browsers => ~ f.packed
               ELSE f.type = "chat"

\* A client that makes no mistake of its own is never thrown out of its loop
\* by what the server sends it (cmd_listen expects ConnectionClosed only),
\* whoever relays to it at the same time or breaks off, or sends rubbish.
ListenersKeepUp ==
  \A c \in Conns \ wrong : \A i \in DOMAIN wire[c] : Expected(c, i)

\* A frame as the abstract relay has it.
Word(f) == IF IsMessage(f) THEN f.msg ELSE [from |-> NoOne, n |-> 0]

Heard == [c \in Conns |-> [i \in 1 .. Len(wire[c]) |-> Word(wire[c][i])]]

Promise == INSTANCE Relay WITH Clients <- Conns, Server <- NoOne, heard <- Heard

\* Between clients the server is the relay its module promises: no echo, no
\* message twice, out of order or left out between two that arrive, although
\* lists of recipients are snapshots and clients are dropped in mid-broadcast.
ImplementsRelay == Promise!Spec

Received(c, m) ==
  \E i \in 1 .. Len(wire[c]) : IsMessage(wire[c][i]) /\ wire[c][i].msg = m

Sendable == UNION {[from : {c}, n : 1 .. z.says[c]] : c \in Conns, z \in Scenarios}

\* Who is on the list of a broadcast gets the message, unless it goes away:
\* one dead peer does not stop the rest (relay.py, broadcast).
Delivery ==
  \A m \in Sendable : \A r \in Conns \ {m.from} :
    (/\ pc[m.from] = "fanout" /\ message[m.from] = m
     /\ \E i \in 1 .. Len(recipients[m.from]) : recipients[m.from][i] = r)
      ~> (Received(r, m) \/ peer[r] = "left" \/ pc[r] = "done")

\* A client that leaves is taken off the registry and its thread ends, even
\* if other threads are delivering to it or dropping it at that moment.
DepartedForgotten ==
  \A c \in Conns : peer[c] = "left" ~> (pc[c] = "done" /\ c \notin registry)

\* relay.py: "The server keeps one RegisteredClient per authorized connection.
\* When a message arrives it is delivered to every *other* client."
RosterComplete ==
  [][\A c, r \in Conns :
       (/\ pc[c] = "broadcast" /\ pc'[c] = "fanout"
        /\ r # c /\ Authorized(r) /\ peer[r] # "left"
        /\ pc[r] \notin {"finally", "closing", "done"})
         => \E i \in 1 .. Len(recipients'[c]) : recipients'[c][i] = r]_vars
=============================================================================
