# Verification of Priestly

Priestly is a small chat system: a central server, a command-line client and a
browser page, over WebSockets written on raw sockets, with a password-
authenticated handshake (Covenant) and messages sealed by an HMAC and a
sequence number. This directory holds TLA+ models of it, the TLC runs that check
them and the proofs that TLAPS checks. Paths in the modules are those of the
repository.

## The system

| Component | Code | State | Operations | Modules |
|---|---|---|---|---|
| sealed sessions | `protocol/session.py` | `tx_seq`, `rx_seq`, `compress`, one MAC key per direction | `seal`, `open` | `Session`, `OrderedChannel`, `SessionProofs` |
| Covenant handshake | `protocol/covenant.py` | the exponent, the commitment and the secret of each end, in locals | `run_client`, `run_server` | `Covenant`, `CovenantProofs` |
| Covenant arithmetic | `crypto/covenant.py` | none | `mask`, `unmask`, `confirm_mac`, `modinv`, `extended_gcd`, `derive_session_keys` | `Covenant` (in part), `CovenantProofs`, `ExtendedGcd`, `AlgorithmProofs` |
| chat server and relay | `cli/server.py`, `cli/relay.py` | the registry and its lock; per client a session and a lock | `handle_session`, `_message_loop`, `broadcast`, `deliver`, `add`, `remove` | `ChatServer`, `Relay`, `Backpressure`, their proofs, `Startup` (`main`) |
| chat client | `cli/chat_client.py`, `cli/client.py` | a session | `hello`, `authenticate`, `send`, `receive` | `ChatServer`, `Covenant`, `Startup` (in part) |
| packets | `protocol/packets.py`, `protocol/models.py` | none | `dumps`, `loads` | frames as records, in all modules |
| WebSocket layer | `transport/ws.py` | `_closed`; the fragments `recv` holds | `encode_frame`, `read_frame`, `recv`, `send`, `close`, both handshakes | `FrameCodec`, `WebSocket`, `WebSocketProofs` |
| connection set-up | `transport/server.py`, `client.py`, `tls.py` | the sockets | `_serve_connection`, `connect` | `WebSocket` (in part) |
| browser page | `ui/index.html`, `ui/covenant.js` | `ws`, `state`, `inbox`, `waiters`, `messages` | socket events, `handshake`, `receiveLoop`, `send`, `authenticate` | `BrowserClient` (in part), `BrowserClientProofs` |
| Huffman coder | `crypto/huffman.py` | none | `compress`, `decompress` | `Huffman`, `AlgorithmProofs` |
| configuration | `config.py` | none | `parse_jsonx`, `load`, `load_with_env`, `password_from_env` | `Jsonx`, `Startup`, `AlgorithmProofs` |
| UI server | `cli/ui_server.py` | a port | the search for a free port | not modelled |
| hash functions | `crypto/sha1.py`, `hmac_sha256.py`, `hkdf.py` | none | digests | not modelled |
| certificate script | `scripts/gen_dev_cert.py` | none | writes two files | not modelled |

How they interact: `WSSServer` starts a thread per connection. The thread takes
TLS and the opening handshake, wraps the socket in a `WebSocket` and calls the
chat server's handler, which talks HELLO and, on a node with a password, the
Covenant handshake; that yields the keys of a `SessionState`. The handler then
puts the client on the shared `ClientRegistry` and reads messages. For each, it
takes a snapshot of the registry and, one recipient after the other, takes that
client's lock, seals with that client's session and writes to that client's
socket. So threads meet in the registry, in each other's sessions and on each
other's sockets. Nothing has a timeout. The page in the browser is the same
client again, event-driven, and connects anew when its socket closes.

### What is hard here

- *Several threads seal and write for one client* while its own thread reads,
  answers pings and errors, and may close the socket at any moment.
- *The list of recipients is a snapshot*; clients join, leave and fail while
  it is worked through.
- *Writes block* while the recipient's lock is held.
- *Frames may be replayed, reordered, altered or reflected* before they reach
  `open`; the counter must neither lag nor run ahead.
- *The handshake has many ways to fail*, at either end, and each end must find
  out without timeouts.
- *A byte stream is cut anywhere*; one wrong length puts an end out of step.
- *The page's inbox and waiters outlive its connections.*
- *A listener dies of one unexpected frame*: `receive` raises on whatever is not
  a message, and the command `listen` catches only a closed connection.
- *The decoder has to build the coder's tree again*, ties included, from a blob
  that does not hold it; its bits have no separators and padded ends.
- *Two scanners read the configuration one after the other*, and one quote or
  backslash taken wrongly shifts the meaning of the rest of the file.
- *The password comes from four places*, in which an empty value means none.

`PROJECT.json` lists each hazard at its line with the properties that cover it.

### What makes each component correct

- Sessions: what is opened is what the peer sealed, once and in order; a key
  never signs two frames under one number; refusals leave no trace; fresh frames
  are accepted.
- Handshake: each end accepts only a peer that has the password and its true
  element; the right password is accepted; both ends finish.
- Relay: what `Relay` promises (from some message on, all of a sender's, in
  order, once, never one's own); sequence numbers in wire order; only authorized
  parties; nothing a well-behaved listener cannot take; delivery to everyone on
  the list; nobody remembered who left; nobody waits for anybody but a stalled
  reader; frames whole on every connection.
- WebSocket: whole messages in order, an announced close, the server lets go.
- Page: one connection for good, HELLO first, each message shown once.
- Arithmetic: `modinv` returns the inverse, and raises only without one.
- Huffman: `decompress` inverts `compress`; codes are prefix-free and shortest.
- Configuration: what reaches `json.loads` is what the grammar means; a node and
  a client with the same file and environment fit together, and the node is open
  only when nothing gives it a password.

## Modules

**`OrderedChannel`** is the abstract specification of a session: two one-way
channels that may lose messages but neither repeat, reorder nor alter them, and
that are emptied when a new session starts.

**`Session`** is both `SessionState` objects of a connection over several
sessions. `Seal`, `SealOverflows`, `OpenFresh`, `OpenStale`, `OpenUnauthentic`,
`OpenOverflows` and `OpenIncomparable` are `seal` and `open` with their returns and exceptions in
the order of the code; `NewSession` is a new handshake. Every frame ever sealed stays in `wire`
and may be handed to either end at any time, as it is or with one field changed.
`compute_tag` becomes an injective constructor over the fields it covers, the key
is the pair of session and role that `derive_session_keys` tells apart.
`ImplementsChannel` is the refinement of `OrderedChannel`.

**`Covenant`** is one run of the handshake: `run_client` and `run_server`, a
step per frame that is received, with every check in order. The arithmetic is
computed, in the quadratic residues modulo a small safe prime: `GroupAssumption`
says what RFC 3526 says of the code's `P` and `G` (`P` and `(P - 1) / 2` are
prime, `G` is a square). `Power` is Python's `pow`, `ModInv` is its contract (the
number whose product is 1), SHA-1 of an element is the element, an HMAC a tuple.
The connection may alter one frame and be lost at any time.

**`Relay`** is the abstract specification of the chat server: clients say
numbered messages, and each hears those of another from some message on without
a gap, in order, once, and never its own; the server itself may tell anybody
anything else (`Tell`: greetings and errors).

**`ChatServer`** is the server's threads, one per connection, from HELLO to the
end. A step is what a thread does between two points at which others can see or
change what it works on: a receive, the critical section of the registry, the
sealing of a frame, the sending of it. `StartDelivery` takes the recipient's
lock (`Acquire`) and seals, `FinishDelivery` and `FailDelivery` send and release
it (`Release`), `DropRecipient`, `Unregister` and `CloseSocket` are the cleanup.
Clients send the frames `ChatClient` sends, or one wrong one, and leave at any
time; `scenario` says which clients there are and bounds what they send.
`Expected` is what `hello` and `receive` accept at each place of a client's wire.
`ImplementsRelay` is the refinement of `Relay`, whose variables are what each
client has said and the frames on each wire, every one that is no message being
the same word of the server's (`Word`).

**`Backpressure`** has the same fan-out with sends that block: a frame is
several pieces, the buffers of a connection hold a few, a client may stop
reading. It also has the answers a client's own thread writes without the lock
(`WriteReply`: an `ErrorFrame`, a pong).

**`FrameCodec`** is `encode_frame` and `read_frame` on header bytes as numbers.
**`WebSocket`** is one connection on top of it, from TLS to its end: `recv` with
fragments, pings, pongs, Close and each error; `send` in its two steps, the test
of `_closed` and the write; `close`; `_serve_connection` and what it catches. The
client is this repository's or a foreign one that also fragments, pings and
breaks the protocol. `Break` cuts both streams at any point, inside a frame too.

**`BrowserClient`** is the page's script, one event per step (JavaScript runs a
handler and the continuations it releases before the next event). `page` holds
the fields that decide what happens; `OnFrame`, `AwaitAck`, `Greeted` and
`ReceiveLoop` are the code between two waits. Alpine calls the `init` of an
`x-data` object itself and the page calls it again with `x-init`, so both one
and two calls are considered.

**`ExtendedGcd`** is the loop of `extended_gcd` as `modinv` calls it, a step per
turn.

**`Huffman`** is `compress` and then `decompress` of what it returned: `Merge` is
a turn of `_build_tree`'s loop, `Encode` one symbol, `DecodeBit` and `DecodeLeaf`
one bit. Between them is `HandOver`, where only the blob (length, frequencies,
bits) goes on and the tree is built again. A tree is the function from its leaves
to their paths; the heap orders nodes by frequency and then by least symbol.

**`Jsonx`** is `_strip_comments` and `_strip_trailing_commas`, a step per turn of
their outer loops, on characters as a scanner tells them apart. The properties
have the grammar of the comments and commas on their side, without any scanner.

**`Startup`** is how a node and then a client in the same directory and
environment come by their settings: `parse_jsonx` line by line, validation,
`load_with_env`, `password_from_env`, `main` of the server and `_connect`.

`MCChatServer`, `MCBackpressure` and `MCWebSocket` give constants values for
TLC; `MCAlgorithms` runs `ExtendedGcd`, `Huffman`, `Jsonx` and `Startup`, one of
them in each behaviour. Operators introduced by "Slip" are plausible wrong variants of the
definition after them; each has been put in its place to see that a property
then fails (`PROJECT.json`, "mutants").

## Runs

Bounds are named in the constants of each module.

| Run | Question | Bounds, and why they are enough |
|---|---|---|
| `session` | Is what is opened what was sealed, once, in order, under any treatment of the frames? Does the pair implement the channel? | 2 sessions (frames cross from one to the next), 2 messages per direction with the counter's limit at 2 (order, repetition, overflow), 4 frames in all. The theorems lift all bounds but are about safety only, which is all there is. |
| `covenant` | Mutual authentication, refusal, acceptance, termination? | modulus 23, two passwords, five exponents among which are those that make degenerate elements; one altered frame. |
| `covenant_told` | Is every failure announced, as the docstring says? It is not. | as above |
| `chat_relay` | Do relays keep order, lock discipline and authorization, whatever a peer sends? Does the server implement `Relay`? | both modes. `Busy`: two relaying threads that meet at a third client, one of them twice (order per sender, snapshots that differ). `Faulty`: a CLI client and a browser that relay to each other, either of which sends one wrong frame at any moment. |
| `chat_live` | Is everyone on the list served, and everyone who left forgotten? | a protected node. `Crossed`: three clients, two of which relay to each other and to the third (every pair of threads meets at some lock). `Disturbed`: a client that sends a message and a wrong frame, and a listener. |
| `chat_roster` | Is a message delivered to every other authorized client? It is not. | two clients |
| `backpressure` | Can blocked writes mix frames or block threads for good? | frames of two pieces, buffers of one, one client that stops reading, two senders. Two pieces suffice for a frame to be split, one slot for every write to block. |
| `interleave` | Does nothing come between the pieces of a relayed frame, as `relay.py` says? An answer does. | as above, nobody stalls |
| `websocket` | Whole messages, announced close, delivery, release? | 2 messages of 126 or 65536 bytes, in frames of 125, 126, 65535, 65536 and 1 byte; one ping or pong; one message of another thread; one cut. |
| `browser` | Does the page keep one connection, start each with HELLO, show each message once? | 3 sockets (an old one, a current one, the one after), 2 relayed messages per socket, 1 or 2 calls of `init`. |
| `browser_auth` | Can a user get into a protected node with the page? They cannot. | one socket, one protected node |
| `algorithms` | Are the inverses inverse, the codes prefix-free, decodable and shortest, the texts stripped as meant? Do node and client fit? | `modinv` of -3 to 40 modulo 1 to 34 (consecutive Fibonacci numbers are the longest runs; common factors occur); payloads of up to 6 symbols out of 4 with bytes of 4 bits (trees of both shapes, ties, full and padded last bytes, one symbol, none); all texts of 3 characters, of 6 out of those that make strings and comments and of 5 out of those that make strings and trailing commas; files of up to 2 lines, either of which may fail or override the other, with every environment and command line. |

`CHECK_DEADLOCK FALSE` is in every configuration: the programs may stop (all
clients gone, a handshake over, a bound reached).

### Fairness

`Session` and the safety runs need none. Where liveness is checked, weak
fairness is assumed for

- the server's threads (`Thread`, `ServerThread`, `ServerStep`): the operating
  system runs a thread that can run, and a `threading.Lock` that is free is
  eventually taken, since each holder's wait is over when a write has ended;
- the end of a handshake that still follows its code (`ClientStep`);
- in `Backpressure`, clients that have not stopped reading read (`Read`);
- in `WebSocket`, a server in `wrap_socket` learns that the client has gone;
- in `BrowserClient`, events are delivered, timers go off and a user who can
  enter the secret does.

Never assumed: that clients send, read, close or stay; that a connection holds.
A client that stays and stays silent keeps its thread for ever, since the code
sets no timeout; no property claims otherwise.

## Findings

1. `covenant_told`: `loads` raises `ValueError` on text that is no packet, and
   `compare_digest` raises `TypeError` on a MAC that is not ASCII. Neither is
   caught in `run_server`, so no AUTH_FAIL is sent, against its docstring.
2. `chat_roster`: a client is told that it is admitted before `hub.add`. A
   message relayed in between misses it.
3. `interleave`: `relay.py` says that relay threads never interleave writes. Their
   deliveries do not (`MessagesWhole`, proved as `NeverMixed`). But each of these
   threads also answers its own client, in `_message_loop` and `recv`, without the
   lock: in the run, while a's thread is in the middle of a frame for b, b's
   thread writes a piece of an answer, and then a's goes on.
4. `browser_auth`: on HELLO_ACK from a protected node the page enters the state
   `authenticating`, in which its password field is disabled. The user cannot go
   on. (Nor would `authenticate` work: it calls `enc`, which only
   `ui/covenant.js` has in scope.)

Seen while modelling, with no statement in the repository to hold it against:
after the page reconnects, the `receiveLoop` waiter of the old connection takes
the new HELLO_ACK, and the new handshake refuses the frame after it
(`OnFrame`, `Greeted`); `recv` joins a data frame to an unfinished message; a
second `close` after a received Close frame leaves the socket open.

## Proofs

`SessionProofs` proves, for every set of payloads, every `MaxSeq` (the code's
is 2^64-1) and any number of sessions and frames, the type invariant, all safety
properties of the run `session` and that `Session` implements `OrderedChannel`.
The assumptions are those of `SessionAssumption`: compressible payloads are
payloads, the two junk values are not genuine ones, the bounds are numbers.
HMAC and HKDF are taken for injective, which is the model's, not a hypothesis of a proof.

The inductive invariant `IInv` is the conjunction of

- `TypeOK`;
- `WireHonest`: every frame on the wire has the tag `seal` gave it, under the
  key of some session so far. With it, `AuthenticIsHonest` shows that a frame
  `open` accepts is one that the peer sealed in this session, whatever was done
  to it on the way;
- `WireMatchesSealed` and `SealedIsOnWire`: the frames of this session are
  exactly what was sealed in it. The first gives authenticity, the second is
  needed for acceptance of fresh frames;
- `TxCounts`: `tx_seq` counts what was sealed, until the number no longer fits;
- `RxIsLast`: `rx_seq` is the number of the last frame opened and bounds all
  before it; the anti-replay property alone says nothing of `rx_seq`;
- `SeqNeverReused`, `OpenedWasSealed`, `OpenedInOrder`, the properties.

None of these is inductive without the others. `NextIInv` has one step per
action. `FreshAccepted` and `ReceiverNotAhead` follow from `IInv` in each state,
`RefusalHarmless` from the actions (bodies of genuine frames are `pack`'s, see
"Not modelled"), `Refinement` from `SealIsSend`,
`OpenIsDeliver` and the restart, step by step.

`WebSocketProofs` is for messages of any number and length. `RoundTrip` comes
first: what `encode_frame` writes, `read_frame` accepts and reads to its last
byte, with the same opcode and payload, for every length, opcode and masking key,
so the two ends never get out of step by a length. `WholeMessages` and
`CleanClose` of the connection then follow by *reading ahead*. `Reading` is what
an end has after some items of its stream: the messages it has had, the part of
the next, and the item it ends at, if any (`torn`, `wrong` or `close`). `Follows(e)`
says that there is a sequence of these for the stream of `e` as it is: it starts
with what the end has now, each item takes the reader one step (`Takes`,
`Understood`), each end is `Excused` by its cause (torn, by a broken connection;
wrong, by a client that broke the protocol; close, by a client that has called
`close` when everything is had), and the last reading is `Complete` while all that
is sent arrives: it has every message sent, and what has been written of the one
under way. A write is then one more reading, a `recv` one fewer, a break a
shorter sequence that may end torn; none of this depends on where a stream is
cut. `Received(e)` carries this over to what `recv` has returned, `Stages` and
`Stays` are what an end at each place of the code has done and cannot undo.

`BrowserClientProofs` is for any number of calls of `init`, of sockets and of
messages. `IInv` is the conjunction of

- `Types`, and with it `Calm`: no frame is in the inbox while a loop waits for one;
- `ReconnectsConserved`, which is inductive with the types: every step that ends
  a connection starts its timer, and a timer one connection;
- `Greeting`: nothing is on a socket before it opens, and the current one that is
  open has HELLO first;
- `Order`: what the page has taken from the inbox, followed by the inbox, is
  `Arrived`, and each event leaves it `Thinned` of what it was, with the new frame
  at its end. `MayArrive` and `Streams` say that the messages of one connection that
  have arrived are older than those still on its way. So what is shown is in
  order and shown once, however many loops and frames old connections have left;
- `First`: the stages `Fresh`, `Waiting` and `Showing` of a page that has had one
  socket only. On an open node nothing is thinned out in these.

`ChatServerProofs` is for any finite set of connections, any modes and any
scenarios. `WellTyped` is type correctness with what a thread holds while it
relays; it gives `TypeCorrect`. `SequenceOrder` needs
`LockHeld` (a thread between seal and send holds its recipient's lock, so there is
at most one per recipient) and `NumbersFall` (the number it has sealed is that
recipient's `tx_seq`, and those on the wire are below it, or at most `tx_seq` when
no such thread is there). Without the lock the second is lost, as the mutant of
`SealedInOrder` shows.

In the same module, `AdmittedOnly` rests on `Admission`: wherever a thread is,
its client's wire begins with the part of the greeting that belongs to that
place, and everyone in the registry or on a list of recipients is ready, the
session's compression set included. The list matters: it is a snapshot, and
readiness has to outlive the registry's entry. `ListenersSurvive` adds
`Readable` (what is about to be sent is as its recipient can read it) and
`Usuals` (what a client that makes no mistake has sent is what its thread
expects next, so no `ErrorFrame` is ever written to it).

`RelayProofs` extends this module by the refinement of `Relay`. The invariant follows a
message through the server. `Lines`: the messages that wait for a thread are
numbered on from the last it took (`Taken`), without a gap, and unless the client
has left the last one it said is among them, so the next is numbered on as well.
`Lists`: a list of recipients names each once, never its owner, and only clients
that have been through `hub.add`; a frame between seal and send is of the message
being broadcast. `Gapless`: who has heard a client and may hear more of it has
heard the last message taken, or the one before while the last is `Due`. It has to
say more than the promise does: a recipient that is being dropped (`Failed`) is
behind, and what saves the promise is that the sender's thread takes it off
the registry before its next snapshot; a client that registers late has heard nothing yet. `DeliveryIsHear` is
the step that matters, `Say` and the replies are the other two, all others
stutter.

`CovenantProofs` proves mutual authentication for every group, every set of
exponents and passwords and every treatment of frames the model has. `IInv` adds
to the two properties that a MAC somebody computed, on its way to either end, is
the one its honest author computed (`ConfirmsHonest`, `VerdictsHonest`), and the
shapes of the variables. No fact of arithmetic is used: authentication follows
from what the confirmations cover.

`TypeCorrect`, `WrongRefused` and `RightAccepted` do need the group. The first part
of the module works it out from `GroupAssumption`, which is all that is assumed
of `P` and `G`; nothing is computed, so it holds for 2048-bit numbers as for 23.

- *Inverses.* The least positive product of `x` and a number modulo `P` divides
  `P`, so it is 1: `ModInv` chooses an inverse, and no product of elements is 0.
- *Squares.* The squares of 1 to `Half` differ, and there are no others, so there
  are `Half` of them; they are closed under products and inverses. Hence masks of
  different passwords differ.
- *Orders.* The powers of a square `u` cut the squares into sets of the same
  size, so the order of `u` divides `Half`, which is prime: it is 1 or `Half`
  (`SquareOrder`).
- *Powers.* `Power` is a recursive function. That its values exist and the laws
  of exponents are shown by the least number principle of the library: no
  least exponent can violate them.

With one password unmasking gives back the server's element and both ends raise
`G` to the same product (`RightArithmetic`). With two and unaltered frames the client's element is off
by a square `u` other than 1; the secrets agree only if `u^a` is 1 for the
client's exponent `a`, so `Half` divides `a`; but then `G^a` is 1, which the
server's range check has refused (`WrongArithmetic`). The mutant that lets 1 pass
that check breaks the property. Around this, `Secrets` follows the values:
exponents are drawn once (`Drawn`), an unaltered challenge is the server's
(`ChallengeHonest`), the two secrets are powers of what each end has checked
(`SecretHonest`, `SecretChecked`). `Lockstep` is where both ends are in a run with
one password that nothing disturbs: `Fresh`, `Committed`, `Challenged`,
`Confirming`, `Verdict`, `Finished`, in this order, unless an element is degenerate.

`NoEndlessHandshake` is the part of termination that needs no fairness: every step
of an end or of the connection lowers `StepsLeft`, which is at most 9 at first. An
end that stays in a handshake therefore waits in silence; that it does not when
both programs run is `Termination`, of the run `covenant`.

`BackpressureProofs` proves that relayed frames never mix on a connection, for
any number of clients, pieces per frame and buffer sizes, and with readers that
stop. `IInv` adds to `MessagesWhole` that a thread that delivers holds its
recipient's lock (`LockHeld`) and that, once it has begun to write, the latest
piece of any message on that connection is its own last one (`UnderWay`).
`SentLater` and `SentStays` are the facts about sequences behind it: writing
appends to what a client will see, reading changes nothing of it.

`AlgorithmProofs` is about four components that run alone. *Huffman* is for
payloads of any length over any symbols and any width of a byte. `CodesPrefixFree` holds of the whole forest by `HeapOK` (no symbol is in
two trees, each has a least one). `RoundTrip` needs that both ends build the same
tree: `Growth` and `Regrowth` say that the heap is a function of the frequencies
and the number of merges, which depends on the least entry being unique
(`LeastOfHeap`, from the least number principle of the library). `CutsOK` says
where the codes lie in `bits`, and `DecoderOK` that the decoder is between two of
those cuts on the path that the bits since the last cut spell.

`CodesOptimal` is the theorem of Huffman, for any frequencies. A code is given by
its lengths, and Kraft's inequality says which there are: the shares, a leaf at
depth `d` taking 2^-d of a tree, fit in one tree (`Fits`). The invariant `BestOK`
says, while `compress` builds the tree, that the forest has lost nothing
(`Promising`): whatever lengths fit, the nodes of the heap, weighed by their
frequencies, can still be put at depths that fit and cost no more, what the
symbols have paid inside their trees (`Payments`) included. At the leaves the
depths are those lengths. A merge keeps it (`BestMerged`) by an exchange: the two
least nodes are swapped with the two deepest (`Swapped`, cheaper since they are
the lightest, `LeastIsLight`), the deepest comes up to the level of the other,
since what the shares leave free is a multiple of that level's share (`Lowered`),
and the two become one node a level higher (`Joined`). With one node left its
depth is 0 or more, so the tree has paid no more than the lengths cost
(`BestIsOptimal`); a lone symbol is a case of its own, as in `_build_codes`. Two
parts of it are elementary. `SumFunction` folds in an order that `CHOOSE`
picks: `SumIsTotal` shows that it is a recursive function's value, `TotalWithout`
that any member may go first, and the rest of the laws of sums follow, all by
`SetInduction`, which is the least number principle on cardinalities. And powers
of two, of which the prover knows nothing, are numbers of subsets (`PowerOfTwo`).

*ExtendedGcd* has Bezout's identity as the inductive invariant, with the
preservation of common divisors; `ModInvCorrect` follows for every argument and
modulus, and `GcdProgress` says that remainders fall. *Startup* is for files of
any length and any environment and options: `MergedOK` says that `merged` holds,
for each key, what the lines read so far say last (a last line exists by the
least number principle, `ConfigLatest`); `NodeOK` and `DialOK` carry this to what
the node listens with and what the client dials, so `NodeAndClientFit` compares
two readings of the same lines: one address, one password if the client gets in,
and a client that is turned away exactly if the only password is the file's,
which `_connect` does not look at.

*Jsonx* is for texts of any length. `StrippedAsMeant` compares the two scanners with
a grammar: a text is cut into tokens, and what is kept is strings, other
characters outside comments and the newlines of block comments, less the commas
that only blanks part from a bracket. For the first scanner, `CommentsLeft` says that a cut
of what has been read exists and `out` lists its kept places, either with nothing
open (`Outside`) or in a string that began at the last cut and is not closed yet
(`Within`); `CutGrows` is the step from a token to the next. The second scanner
reads `out`, not the text, so its invariant `Tracks` speaks of the cut of the whole
text: `Attuned` says that `in_string` and `escaped` at the next kept place are what
the token there makes of them, `Survivors` that its own `out` lists the kept places
before it that no rule drops, and `TrailingMeans` that its look-ahead sees a bracket
exactly when the grammar does. At the end `MeantIsKept` and `CutIsCut` show that this
cut is one the property speaks of, with the same places kept. `EscapedAt` counts the backslashes before
a place (odd or even), the scanners flip a flag; `EscapedNext` joins the two.

### Only model-checked

- All liveness (`Termination`, `DepartedForgotten`, both `Delivery`, `Released`,
  `BroadcastsEnd`): it depends on fairness.

Every other property of a passing run, each invariant and each action property, is
stated by a theorem.

## Not modelled

- SHA-1, HMAC and HKDF: rounds on 32-bit words, beyond TLC's integers, with
  published test vectors in the repository's tests. The models take them for
  injective.
- `cli/ui_server.py`: it serves one page and its settings. Its only loop, the
  search for a free port, keeps no state that a property would be about.
- `scripts/gen_dev_cert.py`: calls a library and writes two files.
- pydantic's validation beyond "is a valid packet" or not, wording of errors,
  console output, TLS options.
- JSON itself (a stripped line is a record or none), and the separators other
  than a newline at which `splitlines` cuts.
- Blobs that `compress` did not make: only a peer with the keys could send one.
- HTTP headers, the accept token and certificates beyond accepted or refused.
- A client that puts a data frame into a fragmented message, or a peer that
  holds the keys and seals a body neither implementation produces.
- A connection that goes silent without an end of stream: no code reacts to it.
- The constructor of the browser's WebSocket throwing: the page's URL is fixed.
- `ui/covenant.js`: the page never gets to call it (finding 4); the repository's
  tests compare it with the Python code.

## What could follow

- The sealed path of `ui/covenant.js`, whose `openSealed` reads `rxSeq` before an
  `await` and sets it after, once a page can authenticate.
