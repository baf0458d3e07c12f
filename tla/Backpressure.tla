---------------------------- MODULE Backpressure ----------------------------
(***************************************************************************)
(* The sockets under ChatServer. WebSocket._send calls sendall, which hands*)
(* a frame to the kernel piece by piece and blocks while the buffers       *)
(* between server and client are full; nothing sets a timeout. Threads     *)
(* that deliver to a client hold its lock for that time. The client's own  *)
(* thread takes no lock when it answers a bad frame with an ErrorFrame     *)
(* (cli/server.py) or a ping with a pong (transport/ws.py).                *)
(*                                                                         *)
(* All clients are registered and none disconnects: this module is about   *)
(* slow readers and about the bytes of two writers on one socket.          *)
(*                                                                         *)
(* Definitions introduced by "Slip" are wrong variants of the definition   *)
(* that follows. Nothing uses them; put in its place, each makes a         *)
(* property fail, which shows that the property can.                       *)
(***************************************************************************)
EXTENDS Naturals, Sequences, FiniteSets

CONSTANTS
  Conns,       \* registered connections
  NoOne,       \* the owner of a free lock
  Pieces,      \* the number of pieces in which a frame is written
  Capacity,    \* the number of pieces the buffers of a connection hold
  MaxIn,       \* bound: MaxIn[c] frames arrive from client c
  MaxStalled   \* bound: how many clients stop reading

ASSUME BackpressureAssumption ==
  /\ IsFiniteSet(Conns)
  /\ NoOne \notin Conns
  /\ Pieces \in Nat \ {0}
  /\ Capacity \in Nat \ {0}
  /\ MaxIn \in [Conns -> Nat]
  /\ MaxStalled \in Nat

VARIABLES
  pc,          \* pc[c]: "recv", "fanout", "deliver" or "reply"
  recipients,  \* recipients[c]: whom c's thread has yet to deliver to
  rest,        \* rest[c]: pieces of its frame c's thread has yet to write
  written,     \* written[c]: frames c's thread has written or is writing
  lock,        \* lock[r]: the thread that holds RegisteredClient._lock of r
  buffer,      \* buffer[r]: pieces on their way to client r
  stream,      \* stream[r]: history, the pieces client r has read
  arrived,     \* arrived[c]: frames client c has sent
  stalled      \* clients that have stopped reading

vars == <<pc, recipients, rest, written, lock, buffer, stream, arrived, stalled>>

-----------------------------------------------------------------------------
\* One piece of the n-th frame thread c writes, and how many follow it.
Piece(c, n, kind, k) == [by |-> c, n |-> n, kind |-> kind, rest |-> k]

Listings(S) ==
  {s \in [1 .. Cardinality(S) -> S] :
     \A i, j \in 1 .. Cardinality(S) : s[i] = s[j] => i = j}

Init ==
  /\ pc = [c \in Conns |-> "recv"]
  /\ recipients = [c \in Conns |-> <<>>]
  /\ rest = [c \in Conns |-> 0]
  /\ written = [c \in Conns |-> 0]
  /\ lock = [c \in Conns |-> NoOne]
  /\ buffer = [c \in Conns |-> <<>>]
  /\ stream = [c \in Conns |-> <<>>]
  /\ arrived = [c \in Conns |-> 0]
  /\ stalled = {}

\* _message_loop reads a good message; broadcast lists the other clients.
TakeMessage(c) ==
  /\ pc[c] = "recv"
  /\ arrived[c] < MaxIn[c]
  /\ arrived' = [arrived EXCEPT ![c] = @ + 1]
  /\ recipients' \in {[recipients EXCEPT ![c] = s] :
                        s \in Listings(Conns \ {c})}
  /\ pc' = [pc EXCEPT ![c] = "fanout"]
  /\ UNCHANGED <<rest, written, lock, buffer, stream, stalled>>

\* _message_loop reads a frame it refuses, or recv reads a ping: the answer is
\* written at once, with no lock.
TakeBadFrame(c) ==
  /\ pc[c] = "recv"
  /\ arrived[c] < MaxIn[c]
  /\ arrived' = [arrived EXCEPT ![c] = @ + 1]
  /\ rest' = [rest EXCEPT ![c] = Pieces]
  /\ written' = [written EXCEPT ![c] = @ + 1]
  /\ pc' = [pc EXCEPT ![c] = "reply"]
  /\ UNCHANGED <<recipients, lock, buffer, stream, stalled>>

\* Slip: deliver does not take the recipient's lock.
UnlockedStartDelivery(c) ==
  /\ pc[c] = "fanout"
  /\ recipients[c] # <<>>
  /\ rest' = [rest EXCEPT ![c] = Pieces]
  /\ written' = [written EXCEPT ![c] = @ + 1]
  /\ pc' = [pc EXCEPT ![c] = "deliver"]
  /\ UNCHANGED <<recipients, lock, buffer, stream, arrived, stalled>>

\* Slip: one lock for all clients, held while a frame is sent.
GloballyLockedStartDelivery(c) ==
  /\ pc[c] = "fanout"
  /\ recipients[c] # <<>>
  /\ \A r \in Conns : lock[r] = NoOne
  /\ lock' = [lock EXCEPT ![Head(recipients[c])] = c]
  /\ rest' = [rest EXCEPT ![c] = Pieces]
  /\ written' = [written EXCEPT ![c] = @ + 1]
  /\ pc' = [pc EXCEPT ![c] = "deliver"]
  /\ UNCHANGED <<recipients, buffer, stream, arrived, stalled>>

\* deliver: take the recipient's lock, seal, enter ws.send.
StartDelivery(c) ==
  /\ pc[c] = "fanout"
  /\ recipients[c] # <<>>
  /\ lock[Head(recipients[c])] = NoOne
  /\ lock' = [lock EXCEPT ![Head(recipients[c])] = c]
  /\ rest' = [rest EXCEPT ![c] = Pieces]
  /\ written' = [written EXCEPT ![c] = @ + 1]
  /\ pc' = [pc EXCEPT ![c] = "deliver"]
  /\ UNCHANGED <<recipients, buffer, stream, arrived, stalled>>

\* Slip: the buffers are taken to hold everything.
UnboundedWrite(c, r, kind) ==
  /\ rest[c] > 0
  /\ buffer' = [buffer EXCEPT
                  ![r] = Append(@, Piece(c, written[c], kind, rest[c] - 1))]
  /\ rest' = [rest EXCEPT ![c] = @ - 1]
  /\ UNCHANGED <<pc, recipients, written, lock, stream, arrived, stalled>>

\* sendall: one piece fits into the buffers of r.
Write(c, r, kind) ==
  /\ rest[c] > 0
  /\ Len(buffer[r]) < Capacity
  /\ buffer' = [buffer EXCEPT
                  ![r] = Append(@, Piece(c, written[c], kind, rest[c] - 1))]
  /\ rest' = [rest EXCEPT ![c] = @ - 1]
  /\ UNCHANGED <<pc, recipients, written, lock, stream, arrived, stalled>>

WriteDelivery(c) == pc[c] = "deliver" /\ Write(c, Head(recipients[c]), "message")

WriteReply(c) == pc[c] = "reply" /\ Write(c, c, "answer")

\* sendall returns; the lock is released.
EndDelivery(c) ==
  /\ pc[c] = "deliver"
  /\ rest[c] = 0
  /\ lock' = [lock EXCEPT ![Head(recipients[c])] = NoOne]
  /\ recipients' = [recipients EXCEPT ![c] = Tail(@)]
  /\ pc' = [pc EXCEPT ![c] = "fanout"]
  /\ UNCHANGED <<rest, written, buffer, stream, arrived, stalled>>

BackToRecv(c) ==
  /\ \/ pc[c] = "fanout" /\ recipients[c] = <<>>
     \/ pc[c] = "reply" /\ rest[c] = 0
  /\ pc' = [pc EXCEPT ![c] = "recv"]
  /\ UNCHANGED <<recipients, rest, written, lock, buffer, stream, arrived,
                 stalled>>

Thread(c) ==
  \/ StartDelivery(c) \/ WriteDelivery(c) \/ EndDelivery(c)
  \/ WriteReply(c) \/ BackToRecv(c)

\* The client's read_frame takes a piece off the connection.
Read(r) ==
  /\ r \notin stalled
  /\ buffer[r] # <<>>
  /\ stream' = [stream EXCEPT ![r] = Append(@, Head(buffer[r]))]
  /\ buffer' = [buffer EXCEPT ![r] = Tail(@)]
  /\ UNCHANGED <<pc, recipients, rest, written, lock, arrived, stalled>>

\* A client stops reading for good, its connection staying up: a suspended
\* process, a terminal that holds back output.
Stall(r) ==
  /\ r \notin stalled
  /\ Cardinality(stalled) < MaxStalled
  /\ stalled' = stalled \cup {r}
  /\ UNCHANGED <<pc, recipients, rest, written, lock, buffer, stream, arrived>>

Next ==
  \E c \in Conns :
    TakeMessage(c) \/ TakeBadFrame(c) \/ Thread(c) \/ Read(c) \/ Stall(c)

\* Threads run when they can, and clients that have not stalled read.
Fairness == \A c \in Conns : WF_vars(Thread(c)) /\ WF_vars(Read(c))

Spec == Init /\ [][Next]_vars /\ Fairness

-----------------------------------------------------------------------------
PieceType ==
  [by : Conns, n : Nat, kind : {"message", "answer"}, rest : 0 .. Pieces - 1]

TypeOK ==
  /\ pc \in [Conns -> {"recv", "fanout", "deliver", "reply"}]
  /\ recipients \in [Conns -> Seq(Conns)]
  /\ rest \in [Conns -> 0 .. Pieces]
  /\ written \in [Conns -> Nat]
  /\ lock \in [Conns -> Conns \cup {NoOne}]
  /\ buffer \in [Conns -> Seq(PieceType)]
  /\ \A r \in Conns : Len(buffer[r]) <= Capacity
  /\ stream \in [Conns -> Seq(PieceType)]
  /\ arrived \in [Conns -> Nat]
  /\ stalled \subseteq Conns

\* What client r gets to see, sooner or later.
Sent(r) == stream[r] \o buffer[r]

\* Every piece but the first of a relayed frame comes right after the one before
\* it.
Unbroken(s) ==
  \A i \in 1 .. Len(s) :
    (s[i].kind = "message" /\ s[i].rest < Pieces - 1) =>
      i > 1 /\ s[i - 1] = [s[i] EXCEPT !.rest = @ + 1]

\* The same, but answers may be between them.
WholeMessages(s) ==
  \A i \in 1 .. Len(s) :
    (s[i].kind = "message" /\ s[i].rest < Pieces - 1) =>
      \E j \in 1 .. i - 1 :
        /\ s[j] = [s[i] EXCEPT !.rest = @ + 1]
        /\ \A k \in j + 1 .. i - 1 : s[k].kind # "message"

\* Messages of different relaying threads never mix on a client's connection:
\* leaving the answers of its own thread aside, whole frames arrive. The lock
\* is held until the last piece is written.
MessagesWhole == \A r \in Conns : WholeMessages(Sent(r))

\* It is the turn of a client that has stopped reading.
AtStalled(c) ==
  \/ pc[c] = "reply" /\ c \in stalled
  \/ pc[c] # "reply" /\ recipients[c] # <<>> /\ Head(recipients[c]) \in stalled

\* Every broadcast and every answer gets through to its last piece, however
\* small the buffers are and however the threads contend, unless its turn has
\* come to a client that stopped reading: nobody waits for anything else.
BroadcastsEnd ==
  \A c \in Conns : pc[c] # "recv" ~> (pc[c] = "recv" \/ AtStalled(c))

\* relay.py: "Each client carries a lock so concurrent relay threads never
\* interleave writes": on every connection a relayed frame goes out whole, and
\* nothing that another thread writes comes between its pieces. The threads of
\* the relay write their answers as well, and these without the lock.
WritesWhole == \A r \in Conns : Unbroken(Sent(r))
=============================================================================
