---------------------------- MODULE BrowserClient ----------------------------
(***************************************************************************)
(* The script of ui/index.html. A browser runs one event handler at a time,*)
(* with the continuations it makes runnable, so a step is an event: a call *)
(* of init, an event of a socket, a timer, a click. The page may open      *)
(* several sockets over time (and two at once: Alpine calls the init of    *)
(* x-data on its own and x-init calls it too); its inbox and its waiters   *)
(* are shared by all of them and outlive each. The server is what it sends *)
(* to a client of this kind.                                               *)
(*                                                                         *)
(* authenticate calls runCovenant(enc(this.password)); enc is local to     *)
(* ui/covenant.js, so the call ends in the catch branch, and runCovenant,  *)
(* the keys and the sealed frames play no part in what the page does.      *)
(*                                                                         *)
(* Definitions introduced by "Slip" are wrong variants of the definition   *)
(* that follows. Nothing uses them; put in its place, each makes a         *)
(* property fail, which shows that the property can.                       *)
(***************************************************************************)
EXTENDS Naturals, Sequences, FiniteSets, Functions

CONSTANTS
  Inits,       \* how often init may be called
  Modes,       \* values of the server's password_required to consider
  MaxSockets,  \* bound: how many sockets the page opens
  MaxRelayed,  \* bound: how many messages the server relays on a socket
  MaxSent      \* bound: how many messages the user sends

ASSUME BrowserClientAssumption ==
  /\ Inits \subseteq Nat
  /\ Modes \subseteq BOOLEAN
  /\ MaxSockets \in Nat
  /\ MaxRelayed \in Nat
  /\ MaxSent \in Nat

VARIABLES
  protected,  \* the server's password_required: fixed
  chains,     \* how often init is called: fixed
  inits,      \* how many of these calls are still to come
  page,       \* the fields of the x-data object that decide what happens
  phase,      \* phase[s]: "connecting", "open" or "closed", for each socket
  timers,     \* pending calls of connect
  toPage,     \* toPage[s]: frames on their way to the page
  toServer,   \* toServer[s]: what the page has sent, in order
  served,     \* served[s]: how many of these frames the server has read
  relayed     \* relayed[s]: how many messages the server has relayed

server == <<served, relayed>>
vars == <<protected, chains, inits, page, phase, timers, toPage, toServer,
          server>>

-----------------------------------------------------------------------------
Hello == [type |-> "hello"]
Chat == [type |-> "chat"]
Ack(required) == [type |-> "hello_ack", password_required |-> required]
Relayed(s, n) == [type |-> "chat", on |-> s, n |-> n]
Error == [type |-> "error"]

Sockets == DOMAIN phase

\* this.ws
Current == Len(phase)

IsChat(f) == f.type = "chat"

\* receiveLoop up to its first wait: it takes what is in the inbox. Of the
\* frames it has taken, the chat messages are shown.
ReceiveLoop(p) ==
  IF p.state # "ready" THEN p
  ELSE [p EXCEPT !.taken = @ \o p.inbox,
                 !.inbox = <<>>,
                 !.waiters = Append(@, "receiveLoop")]

\* Slip: receiveLoop is called before the state is set.
EarlyGreeted(p, f) ==
  IF f.type # "hello_ack" THEN [p EXCEPT !.state = "error"]
  ELSE IF f.password_required
       THEN [p EXCEPT !.needsPassword = TRUE, !.state = "authenticating"]
       ELSE [ReceiveLoop(p) EXCEPT !.state = "ready"]

\* handshake goes on with the frame it has been given.
Greeted(p, f) ==
  IF f.type # "hello_ack" THEN [p EXCEPT !.state = "error"]
  ELSE IF f.password_required
       THEN [p EXCEPT !.needsPassword = TRUE, !.state = "authenticating"]
       ELSE ReceiveLoop([p EXCEPT !.state = "ready"])

\* handshake asks for a frame: from the inbox, or as a waiter.
AwaitAck(p) ==
  IF p.inbox # <<>>
  THEN Greeted([p EXCEPT !.inbox = Tail(@)], Head(p.inbox))
  ELSE [p EXCEPT !.waiters = Append(@, "handshake")]

\* Slip: a frame goes to the inbox though a waiter takes it.
DoubleOnFrame(p, f) ==
  IF p.waiters = <<>> THEN [p EXCEPT !.inbox = Append(@, f)]
  ELSE LET rest == [p EXCEPT !.waiters = Tail(@), !.inbox = Append(@, f)]
       IN  IF Head(p.waiters) = "handshake" THEN Greeted(rest, f)
           ELSE ReceiveLoop([rest EXCEPT !.taken = Append(@, f)])

\* onFrame: the oldest waiter gets the frame, and goes on.
OnFrame(p, f) ==
  IF p.waiters = <<>> THEN [p EXCEPT !.inbox = Append(@, f)]
  ELSE LET rest == [p EXCEPT !.waiters = Tail(@)]
       IN  IF Head(p.waiters) = "handshake" THEN Greeted(rest, f)
           ELSE ReceiveLoop([rest EXCEPT !.taken = Append(@, f)])

Init ==
  /\ protected \in Modes
  /\ chains \in Inits
  /\ inits = chains
  /\ page = [state |-> "connecting", needsPassword |-> FALSE,
             authenticated |-> FALSE, inbox |-> <<>>, waiters |-> <<>>,
             taken |-> <<>>, said |-> 0]
  /\ phase = <<>>
  /\ timers = 0
  /\ toPage = <<>>
  /\ toServer = <<>>
  /\ served = <<>>
  /\ relayed = <<>>

-----------------------------------------------------------------------------
\* connect: a new socket takes the place of the last in this.ws. The URL is the
\* page's own and fixed, so WebSocket's constructor does not throw.
Connect ==
  /\ Len(phase) < MaxSockets
  /\ page' = [page EXCEPT !.state = "connecting"]
  /\ phase' = Append(phase, "connecting")
  /\ toPage' = Append(toPage, <<>>)
  /\ toServer' = Append(toServer, <<>>)
  /\ served' = Append(served, 0)
  /\ relayed' = Append(relayed, 0)
  /\ UNCHANGED <<protected, chains>>

CallInit == inits > 0 /\ inits' = inits - 1 /\ Connect /\ UNCHANGED timers

Timer == timers > 0 /\ timers' = timers - 1 /\ Connect /\ UNCHANGED inits

\* Slip: what is sent before this.ws is open is kept for it.
QueueingSendFrame(f, states) ==
  toServer' = IF states[Current] # "closed"
              THEN [toServer EXCEPT ![Current] = Append(@, f)]
              ELSE toServer

\* sendFrame: nothing is sent unless this.ws is open.
SendFrame(f, states) ==
  toServer' = IF states[Current] = "open"
              THEN [toServer EXCEPT ![Current] = Append(@, f)]
              ELSE toServer

\* onopen: handshake sends HELLO on this.ws, whichever socket has opened.
Opens(s) ==
  /\ phase[s] = "connecting"
  /\ phase' = [phase EXCEPT ![s] = "open"]
  /\ SendFrame(Hello, phase')
  /\ page' = AwaitAck(page)
  /\ UNCHANGED <<protected, chains, inits, timers, toPage, server>>

\* onmessage.
Message(s) ==
  /\ phase[s] = "open"
  /\ toPage[s] # <<>>
  /\ page' = OnFrame(page, Head(toPage[s]))
  /\ toPage' = [toPage EXCEPT ![s] = Tail(@)]
  /\ UNCHANGED <<protected, chains, inits, phase, timers, toServer, server>>

\* Slip: onerror schedules a new connection, and so does onclose.
EagerCloses(s, failed) ==
  /\ phase[s] = "connecting" => failed
  /\ phase[s] = "open" => failed \/ toPage[s] = <<>>
  /\ phase[s] # "closed"
  /\ phase' = [phase EXCEPT ![s] = "closed"]
  /\ page' = [page EXCEPT !.state = IF failed \/ @ = "error" THEN "error"
                                    ELSE "disconnected"]
  /\ timers' = timers + (IF failed THEN 2 ELSE 1)
  /\ toPage' = [toPage EXCEPT ![s] = <<>>]
  /\ UNCHANGED <<protected, chains, inits, toServer, server>>

\* onclose, with onerror before it if the connection has failed; frames that
\* were received in full are delivered first unless it has.
Closes(s, failed) ==
  /\ phase[s] = "connecting" => failed
  /\ phase[s] = "open" => failed \/ toPage[s] = <<>>
  /\ phase[s] # "closed"
  /\ phase' = [phase EXCEPT ![s] = "closed"]
  /\ page' = [page EXCEPT !.state = IF failed \/ @ = "error" THEN "error"
                                    ELSE "disconnected"]
  /\ timers' = timers + 1
  /\ toPage' = [toPage EXCEPT ![s] = <<>>]
  /\ UNCHANGED <<protected, chains, inits, toServer, server>>

\* The user sends a message. It is shown whether sendFrame sends it or not.
Send ==
  /\ page.state = "ready"
  /\ page.said < MaxSent
  /\ SendFrame(Chat, phase)
  /\ page' = [page EXCEPT !.said = @ + 1]
  /\ UNCHANGED <<protected, chains, inits, phase, timers, toPage, server>>

\* The user enters the secret: the gate is there and not disabled.
Authenticate ==
  /\ page.needsPassword /\ ~page.authenticated
  /\ page.state # "authenticating"
  /\ page' = [page EXCEPT !.state = "error", !.authenticated = FALSE]
  /\ UNCHANGED <<protected, chains, inits, phase, timers, toPage, toServer,
                 server>>

-----------------------------------------------------------------------------
\* The server reads a frame: HELLO is answered, another HELLO refused, a
\* message goes to other clients.
Answer(s) ==
  /\ phase[s] = "open"
  /\ served[s] < Len(toServer[s])
  /\ served' = [served EXCEPT ![s] = @ + 1]
  /\ toPage' = IF toServer[s][served'[s]] # Hello THEN toPage
               ELSE [toPage EXCEPT ![s] = Append(@, IF served[s] = 0
                                                    THEN Ack(protected)
                                                    ELSE Error)]
  /\ UNCHANGED <<protected, chains, inits, page, phase, timers, toServer,
                 relayed>>

\* An open server relays another client's message.
Relay(s) ==
  /\ phase[s] = "open" /\ served[s] > 0 /\ ~protected
  /\ relayed[s] < MaxRelayed
  /\ relayed' = [relayed EXCEPT ![s] = @ + 1]
  /\ toPage' = [toPage EXCEPT ![s] = Append(@, Relayed(s, relayed'[s]))]
  /\ UNCHANGED <<protected, chains, inits, page, phase, timers, toServer,
                 served>>

Socket(s) ==
  \/ Opens(s) \/ Message(s) \/ Answer(s) \/ Relay(s)
  \/ \E failed \in BOOLEAN : Closes(s, failed)

Next ==
  \/ CallInit \/ Timer \/ Send \/ Authenticate
  \/ \E s \in Sockets : Socket(s)

\* Events are delivered, timers go off, the server answers, and a user who is
\* asked for the secret enters it when the page lets them.
Fairness ==
  /\ WF_vars(CallInit) /\ WF_vars(Timer) /\ WF_vars(Authenticate)
  /\ \A s \in 1 .. MaxSockets :
       /\ WF_vars(s \in Sockets /\ Opens(s))
       /\ WF_vars(s \in Sockets /\ Message(s))
       /\ WF_vars(s \in Sockets /\ Answer(s))

Spec == Init /\ [][Next]_vars /\ Fairness

-----------------------------------------------------------------------------
PageType(p) ==
  /\ p.state \in {"connecting", "authenticating", "ready", "error",
                  "disconnected"}
  /\ p.needsPassword \in BOOLEAN /\ p.authenticated \in BOOLEAN
  /\ p.waiters = <<>> \/ p.inbox = <<>>
  /\ \A i \in 1 .. Len(p.waiters) : p.waiters[i] \in {"handshake", "receiveLoop"}
  /\ p.said \in 0 .. MaxSent

TypeOK ==
  /\ protected \in BOOLEAN
  /\ inits \in Nat /\ timers \in Nat
  /\ PageType(page)
  /\ \A s \in Sockets : phase[s] \in {"connecting", "open", "closed"}
  /\ DOMAIN toPage = Sockets /\ DOMAIN toServer = Sockets
  /\ served \in [Sockets -> Nat]
  /\ \A s \in Sockets : served[s] <= Len(toServer[s])
  /\ relayed \in [Sockets -> 0 .. MaxRelayed]

\* Every call of init keeps one connection going, for good: however sockets
\* fail to open, break or close, each is followed by one other, and the page
\* never gives up and never multiplies its connections.
ReconnectsConserved ==
  inits + timers + Cardinality({s \in Sockets : phase[s] # "closed"}) = chains

\* Whatever sockets open, in whichever order, and whatever the user sends
\* meanwhile, the first frame on each is HELLO: the server refuses a client
\* that starts with anything else.
HelloFirst == \A s \in Sockets : toServer[s] # <<>> => Head(toServer[s]) = Hello

\* Messages f and g come from one connection.
SameConnection(f, g) == IsChat(f) /\ IsChat(g) /\ f.on = g.on

InOrder(frames) ==
  \A i, j \in 1 .. Len(frames) :
    i < j /\ SameConnection(frames[i], frames[j]) => frames[i].n < frames[j].n

\* No message is shown twice or after a later one of its connection, whatever
\* loops are left over from earlier connections.
ShownOnceInOrder == InOrder(page.taken)

\* On an open node, a page that has one connection and has not lost it shows
\* everything that has arrived: no frame gets stuck in the inbox and none goes
\* to the wrong waiter.
FirstConnectionShows ==
  ~protected /\ Len(phase) = 1 /\ phase[1] = "open" =>
    \A n \in 1 .. relayed[1] :
      Relayed(1, n) \in Range(page.taken) \cup Range(toPage[1])

\* DOCS/product.md of two browsers on a protected node: "Both authenticate
\* with the password". The page gets a user in who is asked for the secret,
\* unless it loses the connection.
PasswordLetsIn ==
  page.needsPassword
    ~> page.authenticated \/ \E s \in Sockets : phase[s] = "closed"
=============================================================================
