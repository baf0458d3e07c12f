----------------------------- MODULE WebSocket -----------------------------
(***************************************************************************)
(* One connection of transport/: TLS and the opening handshake, the        *)
(* WebSocket objects at both ends (transport/ws.py), the thread that serves*)
(* it (transport/server.py) and the end of it.                             *)
(*                                                                         *)
(* The server's end is this repository's. The client's is its WSSClient or *)
(* a foreign one, such as a browser, which may also split messages into    *)
(* fragments, ping, and break the protocol. A stream holds HTTP blocks and *)
(* frames; recv reads one of them per step. At the server, threads other   *)
(* than the connection's own send too: _send is two steps, the test of     *)
(* _closed and the sendall.                                                *)
(*                                                                         *)
(* Definitions introduced by "Slip" are wrong variants of the definition   *)
(* that follows. Nothing uses them; put in its place, each makes a         *)
(* property fail, which shows that the property can.                       *)
(***************************************************************************)
EXTENDS FrameCodec, SequencesExt

CONSTANTS
  Texts,        \* what messages are made of
  Undecodable,  \* bytes that are not UTF-8
  Size,         \* Size[t]: the length of t in bytes
  Messages,     \* the messages clients send: opcode and parts, a sequence of
                \* texts
  Announcement, \* the text message other threads of the server send
  ForeignKinds, \* whether to consider foreign clients, or not, or both
  MaxSent,      \* bound: how many messages each end sends
  MaxControls   \* bound: how many pings and pongs a foreign client sends

ASSUME WebSocketAssumption ==
  /\ Size \in [Texts -> Nat]
  /\ Undecodable \notin Texts
  /\ Messages \subseteq [opcode : {OP_TEXT, OP_BINARY},
                         parts : Seq(Texts) \ {<<>>}]
  /\ Announcement \in Seq(Texts)
  /\ ForeignKinds \subseteq BOOLEAN
  /\ MaxSent \in [{"client", "server"} -> Nat]
  /\ MaxControls \in Nat

VARIABLES
  foreign,   \* whether the client is a foreign one: fixed
  at,        \* at[e]: how far e is
  closed,    \* closed[e]: WebSocket._closed
  socket,    \* socket[e]: whether e's socket is open
  stream,    \* stream[e]: what is on its way to e
  chunks,    \* chunks[e]: the message_opcode and chunks of e's recv
  passed,    \* a thread of the server has passed _send's test
  rest,      \* what a foreign client has yet to send of a message
  controls,  \* how many pings and pongs it has sent
  wrong,     \* whether it has broken the protocol
  broken,    \* whether the connection has been cut off
  sent,      \* sent[e]: history, the messages e has put on the connection
  got        \* got[e]: history, the messages recv has returned to e

local == <<at, closed, socket, chunks>>
client == <<rest, controls, wrong>>
history == <<sent, got>>
vars == <<foreign, local, stream, passed, client, broken, history>>

-----------------------------------------------------------------------------
Ends == {"client", "server"}
Peer(e) == IF e = "client" THEN "server" ELSE "client"

\* The bytes of a sequence of texts.
TotalSize(m) ==
  LET sum[k \in 0 .. Len(m)] == IF k = 0 THEN 0 ELSE sum[k - 1] + Size[m[k]]
  IN  sum[Len(m)]

NoMessage == [opcode |-> OP_CONT, parts |-> <<>>]

Http(block) == [http |-> block]

\* Clients mask what they send, servers do not.
KeysOf(e) == IF e = "client" THEN Keys ELSE {NoKey}

\* The frames e may send with this opcode and text, depending on the key.
Frames(e, opcode, m) ==
  {EncodeFrame(opcode, Plain(m, TotalSize(m)), key) : key \in KeysOf(e)}

\* A frame without the FIN bit.
Unfinished(f) == [f EXCEPT !.b0 = @ - 128]

\* What is sent to e arrives.
Reaches(e) == socket[e] /\ ~broken

\* sendall.
Put(e, item) ==
  stream' = IF Reaches(Peer(e))
            THEN [stream EXCEPT ![Peer(e)] = Append(@, item)]
            ELSE stream

Init ==
  /\ foreign \in ForeignKinds
  /\ at = [client |-> "tls", server |-> "tls"]
  /\ closed = [e \in Ends |-> FALSE]
  /\ socket = [e \in Ends |-> TRUE]
  /\ stream = [e \in Ends |-> <<>>]
  /\ chunks = [e \in Ends |-> NoMessage]
  /\ passed = FALSE
  /\ rest = <<>>
  /\ controls = 0
  /\ wrong = FALSE
  /\ broken = FALSE
  /\ sent = [e \in Ends |-> <<>>]
  /\ got = [e \in Ends |-> <<>>]

-----------------------------------------------------------------------------
\* wrap_socket at both ends.
Secure ==
  /\ at["client"] = "tls" /\ at["server"] = "tls"
  /\ at' = [client |-> "secure", server |-> "handshake"]
  /\ UNCHANGED <<foreign, closed, socket, chunks, stream, passed, client,
                 broken, history>>

\* wrap_socket raises, at both ends or because the client is gone.
TlsFails ==
  /\ at["server"] = "tls"
  /\ at' = [at EXCEPT !["server"] = "done",
                      !["client"] = IF @ = "tls" THEN "raised" ELSE @]
  /\ socket' = [socket EXCEPT !["server"] = FALSE]
  /\ UNCHANGED <<foreign, closed, chunks, stream, passed, client, broken,
                 history>>

\* client_handshake sends its request; a foreign client may send something
\* server_handshake refuses: no GET, no upgrade, no key, too long a header.
Request ==
  /\ at["client"] = "secure"
  /\ \E block \in IF foreign THEN {"upgrade", "other"} ELSE {"upgrade"} :
       Put("client", Http(block))
  /\ at' = [at EXCEPT !["client"] = "asked"]
  /\ UNCHANGED <<foreign, closed, socket, chunks, passed, client, broken,
                 history>>

\* server_handshake answers, and the handler starts.
Upgrade ==
  /\ at["server"] = "handshake"
  /\ stream["server"] # <<>>
  /\ Head(stream["server"]) = Http("upgrade")
  /\ stream' = [stream EXCEPT
                  !["server"] = Tail(@),
                  !["client"] = IF Reaches("client")
                                THEN Append(@, Http("switch")) ELSE @]
  /\ at' = [at EXCEPT !["server"] = "open"]
  /\ UNCHANGED <<foreign, closed, socket, chunks, passed, client, broken,
                 history>>

\* server_handshake raises ProtocolError.
RefuseUpgrade ==
  /\ at["server"] = "handshake"
  /\ stream["server"] # <<>>
  /\ Head(stream["server"]) = Http("other")
  /\ stream' = [stream EXCEPT !["server"] = Tail(@)]
  /\ at' = [at EXCEPT !["server"] = "raised"]
  /\ UNCHANGED <<foreign, closed, socket, chunks, passed, client, broken,
                 history>>

\* client_handshake accepts the answer.
Opened ==
  /\ at["client"] = "asked"
  /\ stream["client"] # <<>>
  /\ stream' = [stream EXCEPT !["client"] = Tail(@)]
  /\ at' = [at EXCEPT !["client"] = "open"]
  /\ UNCHANGED <<foreign, closed, socket, chunks, passed, client, broken,
                 history>>

-----------------------------------------------------------------------------
\* send and send_bytes of a client that is not in the middle of a message.
\* A foreign client may keep all but the first part for later fragments.
Send ==
  /\ at["client"] = "open" /\ ~closed["client"] /\ rest = <<>>
  /\ Len(sent["client"]) < MaxSent["client"]
  /\ ~wrong \/ controls < MaxControls
  /\ controls' = IF wrong THEN controls + 1 ELSE controls
  /\ \E m \in Messages :
       \/ /\ \E f \in Frames("client", m.opcode, m.parts) : Put("client", f)
          /\ sent' = IF wrong THEN sent
                     ELSE [sent EXCEPT !["client"] = Append(@, m)]
          /\ rest' = rest
       \/ /\ foreign /\ Len(m.parts) > 1 /\ ~wrong
          /\ \E f \in Frames("client", m.opcode, <<Head(m.parts)>>) :
               Put("client", Unfinished(f))
          /\ rest' = <<m>>
          /\ sent' = sent
  /\ UNCHANGED <<foreign, local, passed, wrong, broken, got>>

\* A foreign client sends the last fragment of a message.
SendLast ==
  /\ at["client"] = "open" /\ rest # <<>>
  /\ \E f \in Frames("client", OP_CONT, Tail(rest[1].parts)) : Put("client", f)
  /\ sent' = [sent EXCEPT !["client"] = Append(@, rest[1])]
  /\ rest' = <<>>
  /\ UNCHANGED <<foreign, local, passed, controls, wrong, broken, got>>

\* A foreign client sends a ping or a pong, in the middle of a message or not.
SendControl ==
  /\ foreign /\ at["client"] = "open" /\ controls < MaxControls
  /\ \E opcode \in {OP_PING, OP_PONG} :
       \E f \in Frames("client", opcode, <<>>) : Put("client", f)
  /\ controls' = controls + 1
  /\ UNCHANGED <<foreign, local, passed, rest, wrong, broken, history>>

\* Frames that break the protocol: reserved bits, an unknown opcode, a control
\* frame in fragments or too long, text that is none, and a continuation of
\* nothing.
WrongFrames ==
  LET Of(opcode, length) ==
        {EncodeFrame(opcode, Plain(<<>>, length), key) : key \in Keys}
      NoText(key) == EncodeFrame(OP_TEXT, Plain(<<Undecodable>>, 1), key)
  IN  {[f EXCEPT !.b0 = @ + 64] : f \in Of(OP_TEXT, 0)}
      \cup {[f EXCEPT !.b0 = @ + 2] : f \in Of(OP_TEXT, 0)}
      \cup {Unfinished(f) : f \in Of(OP_PING, 0)}
      \cup Of(OP_PING, 126)
      \cup {NoText(key) : key \in Keys}
      \cup (IF rest = <<>> THEN Of(OP_CONT, 0) ELSE {})

\* A foreign client breaks the protocol.
SendWrong ==
  /\ foreign /\ at["client"] = "open" /\ ~wrong
  /\ \E f \in WrongFrames : Put("client", f)
  /\ wrong' = TRUE
  /\ rest' = <<>>
  /\ UNCHANGED <<foreign, local, passed, controls, broken, history>>

\* Another thread of the server calls send: it passes the test of _closed,
\* whatever the connection's own thread is doing or has done since the client's
\* first message made it known to others.
PassTest ==
  /\ got["server"] # <<>>
  /\ ~passed /\ ~closed["server"]
  /\ Len(sent["server"]) < MaxSent["server"]
  /\ passed' = TRUE
  /\ UNCHANGED <<foreign, local, stream, client, broken, history>>

\* ... and calls sendall, which raises if the socket has been closed.
WriteOut ==
  /\ passed
  /\ passed' = FALSE
  /\ IF socket["server"]
     THEN /\ \E f \in Frames("server", OP_TEXT, Announcement) : Put("server", f)
          /\ sent' = [sent EXCEPT !["server"] =
                        Append(@, [opcode |-> OP_TEXT, parts |-> Announcement])]
     ELSE UNCHANGED <<stream, sent>>
  /\ UNCHANGED <<foreign, local, client, broken, got>>

-----------------------------------------------------------------------------
\* recv can read the whole of a frame.
Reads(e) ==
  /\ at[e] = "open" /\ ~closed[e]
  /\ stream[e] # <<>>
  /\ Wanted(Head(stream[e])) = Head(stream[e]).bytes

NextFrame(e) == Head(stream[e])

Take(e) == stream' = [stream EXCEPT ![e] = Tail(@)]

\* Slip: recv goes by the opcode of the last fragment.
LastCollected(e) ==
  LET p == Payload(NextFrame(e))
  IN  [opcode |-> Opcode(NextFrame(e)),
       parts  |-> chunks[e].parts
                  \o IF p.under = NoKey THEN p.text ELSE <<p.under>>]

\* What recv has with the next frame's payload. A payload that is still
\* masked is unreadable.
Collected(e) ==
  LET f == NextFrame(e)
      p == Payload(f)
  IN  [opcode |-> IF Opcode(f) = OP_CONT THEN chunks[e].opcode ELSE Opcode(f),
       parts  |-> chunks[e].parts
                  \o IF p.under = NoKey THEN p.text ELSE <<p.under>>]

\* recv raises: ProtocolError in read_frame or on an orphaned continuation,
\* UnicodeDecodeError on a text message that is not UTF-8.
BadFrame(e) ==
  \/ Refused(NextFrame(e))
  \/ Opcode(NextFrame(e)) = OP_CONT /\ chunks[e] = NoMessage
  \/ /\ Opcode(NextFrame(e)) \in {OP_CONT, OP_TEXT, OP_BINARY}
     /\ Fin(NextFrame(e)) /\ Collected(e).opcode = OP_TEXT
     /\ \E i \in DOMAIN Collected(e).parts :
          Collected(e).parts[i] = Undecodable

RecvRefuses(e) ==
  /\ Reads(e) /\ BadFrame(e)
  /\ Take(e)
  /\ at' = [at EXCEPT ![e] = "raised"]
  /\ UNCHANGED <<foreign, closed, socket, chunks, passed, client, broken,
                 history>>

\* Slip: a ping drops what recv has collected of a message.
ForgetfulRecvControl(e) ==
  /\ Reads(e) /\ ~BadFrame(e)
  /\ Opcode(NextFrame(e)) \in {OP_PING, OP_PONG}
  /\ IF Opcode(NextFrame(e)) = OP_PING /\ Reaches(Peer(e))
     THEN \E f \in Frames(e, OP_PONG, Payload(NextFrame(e)).text) :
            stream' = [stream EXCEPT ![e] = Tail(@), ![Peer(e)] = Append(@, f)]
     ELSE Take(e)
  /\ chunks' = [chunks EXCEPT ![e].parts = <<>>]
  /\ UNCHANGED <<foreign, at, closed, socket, passed, client, broken, history>>

\* A ping is answered with a pong, a pong is passed over.
RecvControl(e) ==
  /\ Reads(e) /\ ~BadFrame(e)
  /\ Opcode(NextFrame(e)) \in {OP_PING, OP_PONG}
  /\ IF Opcode(NextFrame(e)) = OP_PING /\ Reaches(Peer(e))
     THEN \E f \in Frames(e, OP_PONG, Payload(NextFrame(e)).text) :
            stream' = [stream EXCEPT ![e] = Tail(@), ![Peer(e)] = Append(@, f)]
     ELSE Take(e)
  /\ UNCHANGED <<foreign, local, passed, client, broken, history>>

\* A Close frame: _closed is set and ConnectionClosed raised.
RecvClose(e) ==
  /\ Reads(e) /\ ~BadFrame(e)
  /\ Opcode(NextFrame(e)) = OP_CLOSE
  /\ Take(e)
  /\ closed' = [closed EXCEPT ![e] = TRUE]
  /\ at' = [at EXCEPT ![e] = "raised"]
  /\ UNCHANGED <<foreign, socket, chunks, passed, client, broken, history>>

\* A data frame: it completes a message or recv goes on.
RecvData(e) ==
  /\ Reads(e) /\ ~BadFrame(e)
  /\ Opcode(NextFrame(e)) \in {OP_CONT, OP_TEXT, OP_BINARY}
  /\ Take(e)
  /\ IF Fin(NextFrame(e))
     THEN /\ got' = [got EXCEPT ![e] = Append(@, Collected(e))]
          /\ chunks' = [chunks EXCEPT ![e] = NoMessage]
     ELSE /\ chunks' = [chunks EXCEPT ![e] = Collected(e)]
          /\ UNCHANGED got
  /\ UNCHANGED <<foreign, at, closed, socket, passed, client, broken, sent>>

\* Nothing more can come to e.
Over(e) == ~Reaches(Peer(e))

\* A read finds the end of the stream, in the opening handshake, between two
\* frames or in the middle of one: ConnectionClosed.
StreamEnds(e) ==
  /\ at[e] \in {"asked", "handshake", "open"}
  /\ Over(e)
  /\ stream[e] # <<>> =>
       at[e] = "open" /\ Wanted(NextFrame(e)) > NextFrame(e).bytes
  /\ at' = [at EXCEPT ![e] = "raised"]
  /\ UNCHANGED <<foreign, closed, socket, chunks, stream, passed, client,
                 broken, history>>

Recv(e) ==
  RecvRefuses(e) \/ RecvControl(e) \/ RecvClose(e) \/ RecvData(e)
  \/ StreamEnds(e)

-----------------------------------------------------------------------------
\* e's socket is closed; what it has not read is lost to it.
CloseSocket(e) ==
  /\ socket' = [socket EXCEPT ![e] = FALSE]
  /\ stream' = [stream EXCEPT ![e] = <<>>]

\* Slip: the socket is left to whoever holds it.
LeakyServeEnds ==
  /\ at["server"] = "raised"
  /\ at' = [at EXCEPT !["server"] = "done"]
  /\ UNCHANGED <<foreign, closed, socket, stream, chunks, passed, client,
                 broken, history>>

\* _serve_connection catches what the handshake or the handler raised, and
\* closes the socket: no Close frame is sent.
ServeEnds ==
  /\ at["server"] = "raised"
  /\ CloseSocket("server")
  /\ at' = [at EXCEPT !["server"] = "done"]
  /\ UNCHANGED <<foreign, closed, chunks, passed, client, broken, history>>

\* Slip: close sets _closed first and then sends through _send.
SilentClose ==
  /\ at["client"] = "open" /\ ~closed["client"]
  /\ closed' = [closed EXCEPT !["client"] = TRUE]
  /\ at' = [at EXCEPT !["client"] = "closed"]
  /\ CloseSocket("client")
  /\ UNCHANGED <<foreign, chunks, passed, client, broken, history>>

\* close: the Close frame goes out, _closed is set, the socket is closed. A
\* foreign client waits with that until the server has closed its own.
Close ==
  /\ at["client"] = "open" /\ ~closed["client"]
  /\ closed' = [closed EXCEPT !["client"] = TRUE]
  /\ at' = [at EXCEPT !["client"] = "closed"]
  /\ socket' = [socket EXCEPT !["client"] = foreign]
  /\ \E f \in Frames("client", OP_CLOSE, <<>>) :
       stream' = [client |-> IF foreign THEN stream["client"] ELSE <<>>,
                  server |-> IF Reaches("server") THEN Append(stream["server"], f)
                                                  ELSE stream["server"]]
  /\ UNCHANGED <<foreign, chunks, passed, client, broken, history>>

\* The client's process ends, and its socket with it.
Exit ==
  /\ socket["client"]
  /\ CloseSocket("client")
  /\ at' = [at EXCEPT !["client"] = IF @ = "closed" THEN @ ELSE "left"]
  /\ UNCHANGED <<foreign, closed, chunks, passed, client, broken, history>>

\* A stream that is cut off: at any point, in the middle of a frame or not.
CutOff(s) ==
  LET firstOf(n) == SubSeq(s, 1, n)
      torn(n) == Append(firstOf(n - 1), [s[n] EXCEPT !.bytes = @ - 1])
  IN  {firstOf(n) : n \in 0 .. Len(s)}
      \cup {torn(n) : n \in {k \in 1 .. Len(s) : "b0" \in DOMAIN s[k]}}

\* The connection breaks, or is reset because one end wrote to the other's
\* closed socket or closed its own without having read everything.
Break ==
  /\ ~broken
  /\ at["server"] \in {"handshake", "open"}
  /\ \E s \in CutOff(stream["server"]), t \in CutOff(stream["client"]) :
       stream' = [client |-> t, server |-> s]
  /\ broken' = TRUE
  /\ UNCHANGED <<foreign, local, passed, client, history>>

Connect == Secure \/ TlsFails \/ Request \/ Opened

Client == Send \/ SendLast \/ SendControl \/ SendWrong \/ Close \/ Exit

ServerThread == Upgrade \/ RefuseUpgrade \/ Recv("server") \/ ServeEnds

Next ==
  \/ Connect
  \/ Client
  \/ Recv("client")
  \/ ServerThread
  \/ PassTest \/ WriteOut
  \/ Break

\* The connection's thread runs when it has something to read, and learns
\* when the client has gone. Nothing is asked of the client.
Fairness ==
  /\ WF_vars(ServerThread)
  /\ WF_vars(TlsFails /\ at["client"] = "left")

Spec == Init /\ [][Next]_vars /\ Fairness

-----------------------------------------------------------------------------
Message == [opcode : {OP_TEXT, OP_BINARY}, parts : Seq(Texts)]

TypeOK ==
  /\ foreign \in BOOLEAN
  /\ at["client"] \in {"tls", "secure", "asked", "open", "raised", "closed",
                       "left"}
  /\ at["server"] \in {"tls", "handshake", "open", "raised", "done"}
  /\ closed \in [Ends -> BOOLEAN]
  /\ socket \in [Ends -> BOOLEAN]
  /\ \A e \in Ends : \A i \in 1 .. Len(stream[e]) :
       \/ stream[e][i] \in {Http(b) : b \in {"upgrade", "other", "switch"}}
       \/ stream[e][i].b0 \in 0 .. 255 /\ stream[e][i].b1 \in 0 .. 255
  /\ chunks \in [Ends -> Message \cup {NoMessage}]
  /\ passed \in BOOLEAN
  /\ rest \in Seq(Message) /\ Len(rest) <= 1
  /\ controls \in 0 .. MaxControls
  /\ wrong \in BOOLEAN
  /\ broken \in BOOLEAN
  /\ sent \in [Ends -> Seq(Message)]
  /\ got \in [Ends -> Seq(Message)]

\* recv returns exactly the messages of the other end, whole and in order, up
\* to some point: whatever their lengths, however a foreign client fragments
\* them and puts pings between, wherever the stream is cut off, and nothing
\* from after a frame that breaks the protocol.
WholeMessages == \A e \in Ends : IsPrefix(got[Peer(e)], sent[e])

\* A client that calls close on a connection that is not broken has all its
\* messages received, and the server learns from the Close frame, not from the
\* end of the stream, that it has gone.
CleanClose ==
  at["server"] = "done" /\ at["client"] = "closed" /\ ~broken /\ ~wrong
    => closed["server"] /\ got["server"] = sent["client"]

\* Every message a client sends over a connection that does not break is
\* received, though the client may go away right after it.
Delivery ==
  \A n \in 1 .. MaxSent["client"] :
    Len(sent["client"]) >= n ~> Len(got["server"]) >= n \/ broken

\* The server lets go of every connection whose client leaves or breaks the
\* protocol, or which breaks, at any stage of it.
Released ==
  at["client"] \in {"closed", "left"} \/ wrong \/ broken ~> ~socket["server"]
=============================================================================
