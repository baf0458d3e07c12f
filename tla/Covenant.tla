------------------------------ MODULE Covenant ------------------------------
(***************************************************************************)
(* protocol/covenant.py over crypto/covenant.py: run_client and run_server *)
(* at the two ends of one connection, from the commit to the verdict.      *)
(*                                                                         *)
(* The group arithmetic is computed, in a small group of the same shape as *)
(* the code's: P a safe prime with P % 8 = 7, so that G = 2 generates the  *)
(* quadratic residues. SHA-1 and HMAC are taken for injective: a digest is *)
(* the element it commits to, a MAC the tuple of its key and message. A    *)
(* password is the number secret_to_element hashes it to.                  *)
(*                                                                         *)
(* The two ends may hold different passwords, the connection may go down,  *)
(* and one frame of the exchange may be altered on the way, the failures   *)
(* the module's docstring names.                                           *)
(*                                                                         *)
(* Definitions introduced by "Slip" are wrong variants of the definition   *)
(* that follows. Nothing uses them; put in its place, each makes a         *)
(* property fail, which shows that the property can.                       *)
(***************************************************************************)
EXTENDS Integers, Sequences

CONSTANTS
  P, G,        \* the group
  Exponents,   \* what random_exponent may return
  Passwords    \* password hashes

\* The number of squares other than 0.
Half == (P - 1) \div 2

Prime(n) == n > 1 /\ \A d \in 2 .. n - 1 : n % d # 0

ASSUME CovenantAssumption ==
  /\ P \in Nat /\ P > 4
  /\ G \in 2 .. P - 2
  /\ Exponents \subseteq 1 .. P - 2
  \* A 256-bit hash is far below half of a 2048-bit P: no two passwords
  \* square to one element, and none is 0.
  /\ Passwords \subseteq 1 .. Half

\* RFC 3526's Group 14: P is a safe prime, and G a square.
ASSUME GroupAssumption ==
  /\ Prime(P) /\ Prime(Half)
  /\ \E y \in 1 .. Half : (y * y) % P = G

VARIABLES
  password,  \* password[e]: the password end e was started with
  client,    \* run_client's locals, and where it is
  server,    \* run_server's locals, and where it is
  toServer,  \* frames on their way to the server, in order
  toClient,  \* frames on their way to the client, in order
  closed,    \* the ends that have closed their socket
  link,      \* "up", or "down" once the connection is lost
  altered,   \* whether a frame has been altered on the way
  told       \* whether the server has sent AUTH_FAIL

vars == <<password, client, server, toServer, toClient, closed, link, altered,
          told>>

-----------------------------------------------------------------------------
\* crypto/covenant.py

\* pow(x, n, P)
Power(x, n) ==
  LET power[k \in 0 .. n] == IF k = 0 THEN 1 ELSE (power[k - 1] * x) % P
  IN  power[n]

PublicElement(exponent) == Power(G, exponent)

SharedSecret(peer_public, own_exponent) == Power(peer_public, own_exponent)

SecretToElement(hash) == (hash * hash) % P

ModInv(x) == CHOOSE y \in 1 .. P - 1 : (x * y) % P = 1

\* Slip: the product is not reduced.
UnreducedMask(public_b, pe) == public_b * pe

Mask(public_b, pe) == (public_b * pe) % P

\* Slip: the client masks again instead of removing the mask.
RepeatedUnmask(masked_b, pe) == (masked_b * pe) % P

Unmask(masked_b, pe) == (masked_b * ModInv(pe)) % P

ConfirmMac(shared, commit, role, public) == <<shared, commit, role, public>>

-----------------------------------------------------------------------------
\* Frames. 0 stands for a commit that is not 20 bytes of hex, -1 for an
\* element that is not hex, NoMac for a MAC nobody computed, NonAsciiMac for
\* one on which compare_digest raises TypeError.

NoMac == <<>>
NonAsciiMac == <<"non-ascii">>

CommitFrame(commit) == [type |-> "covenant_commit", commit |-> commit]
ChallengeFrame(m) == [type |-> "covenant_challenge", masked_b |-> m]
ConfirmFrame(x, mac) == [type |-> "covenant_confirm", a |-> x, confirm_c |-> mac]
AuthOkFrame(mac) == [type |-> "auth_ok", confirm_s |-> mac]
AuthFailFrame == [type |-> "auth_fail"]
\* A frame that is none of the handshake's, and text that loads refuses.
OtherFrame == [type |-> "other"]
Malformed == [type |-> "malformed"]

\* Slip: the identity passes for an element.
IdentityInRange(x) == 0 < x /\ x < P - 1

\* _parse_element
InRange(x) == 1 < x /\ x < P - 1

\* A frame sent over a lost connection goes nowhere.
Sent(channel, f) == IF link = "up" THEN Append(channel, f) ELSE channel

-----------------------------------------------------------------------------
Init ==
  /\ password \in [{"client", "server"} -> Passwords]
  /\ client = [at |-> "start", a |-> 0, public_b |-> 0, shared |-> 0]
  /\ server = [at |-> "commit", b |-> 0, commit |-> 0, shared |-> 0]
  /\ toServer = <<>>
  /\ toClient = <<>>
  /\ closed = {}
  /\ link = "up"
  /\ altered = FALSE
  /\ told = FALSE

(***************************************************************************)
(* run_client                                                              *)
(***************************************************************************)
ClientCommits ==
  /\ client.at = "start"
  /\ \E a \in Exponents :
       /\ client' = [client EXCEPT !.at = "challenge", !.a = a]
       /\ toServer' = Sent(toServer, CommitFrame(PublicElement(a)))
  /\ UNCHANGED <<password, server, toClient, closed, link, altered, told>>

ClientReceives(stage) ==
  /\ client.at = stage
  /\ toClient # <<>>
  /\ toClient' = Tail(toClient)
  /\ UNCHANGED <<password, server, closed, link, altered, told>>

\* The shared secret and the confirmation, from the challenge.
ClientConfirms ==
  /\ ClientReceives("challenge")
  /\ LET f == Head(toClient)
         A == PublicElement(client.a)
         B == Unmask(f.masked_b, SecretToElement(password["client"]))
         K == SharedSecret(B, client.a)
     IN  /\ f.type = "covenant_challenge"
         /\ InRange(f.masked_b)
         /\ client' = [client EXCEPT !.at = "result", !.public_b = B,
                                     !.shared = K]
         /\ toServer' = Sent(toServer,
                             ConfirmFrame(A, ConfirmMac(K, A, "client", A)))

\* AUTH_FAIL, another frame, text loads refuses, an element out of range.
ClientRefusesChallenge ==
  /\ ClientReceives("challenge")
  /\ LET f == Head(toClient)
     IN  f.type = "covenant_challenge" => ~ InRange(f.masked_b)
  /\ client' = [client EXCEPT !.at = "failed"]
  /\ UNCHANGED toServer

ServerProof ==
  ConfirmMac(client.shared, PublicElement(client.a), "server", client.public_b)

\* Slip: AUTH_OK is taken at its word.
TrustingClientAccepts ==
  /\ ClientReceives("result")
  /\ Head(toClient).type = "auth_ok"
  /\ client' = [client EXCEPT !.at = "ok"]
  /\ UNCHANGED toServer

ClientAccepts ==
  /\ ClientReceives("result")
  /\ Head(toClient).type = "auth_ok"
  /\ Head(toClient).confirm_s = ServerProof
  /\ client' = [client EXCEPT !.at = "ok"]
  /\ UNCHANGED toServer

ClientRefusesResult ==
  /\ ClientReceives("result")
  /\ LET f == Head(toClient)
     IN  f.type = "auth_ok" => f.confirm_s # ServerProof
  /\ client' = [client EXCEPT !.at = "failed"]
  /\ UNCHANGED toServer

\* recv or send raises: the connection is lost, or the server has closed it
\* and everything it sent has been read.
ClientDisconnected ==
  /\ client.at \in {"challenge", "result"}
  /\ link = "down" \/ ("server" \in closed /\ toClient = <<>>)
  /\ client' = [client EXCEPT !.at = "failed"]
  /\ UNCHANGED <<password, server, toServer, toClient, closed, link, altered,
                 told>>

\* cli/client.py leaves with SystemExit on a CovenantError and with a traceback
\* on anything else, and the operating system closes the socket. run_client itself tells nobody.
ClientExits ==
  /\ client.at = "failed"
  /\ "client" \notin closed
  /\ closed' = closed \cup {"client"}
  /\ UNCHANGED <<password, client, server, toServer, toClient, link, altered,
                 told>>

(***************************************************************************)
(* run_server                                                              *)
(***************************************************************************)
ServerReceives(stage) ==
  /\ server.at = stage
  /\ toServer # <<>>
  /\ toServer' = Tail(toServer)
  /\ UNCHANGED <<password, client, closed, link, altered>>

\* _fail: send AUTH_FAIL, ignoring errors, and raise CovenantError.
Fail ==
  /\ toClient' = Sent(toClient, AuthFailFrame)
  /\ told' = TRUE
  /\ server' = [server EXCEPT !.at = "failed"]

ServerChallenges ==
  /\ ServerReceives("commit")
  /\ Head(toServer).type = "covenant_commit"
  /\ Head(toServer).commit # 0
  /\ \E b \in Exponents :
       /\ server' = [server EXCEPT !.at = "confirm", !.b = b,
                                   !.commit = Head(toServer).commit]
       /\ toClient' = Sent(toClient,
            ChallengeFrame(Mask(PublicElement(b),
                                SecretToElement(password["server"]))))
  /\ UNCHANGED told

ServerRefusesCommit ==
  /\ ServerReceives("commit")
  /\ LET f == Head(toServer)
     IN  /\ f.type # "malformed"
         /\ f.type = "covenant_commit" => f.commit = 0
  /\ Fail

\* The checks on a confirm frame: range, commitment, key confirmation.
KeepsCommitment(f) ==
  /\ f.type = "covenant_confirm"
  /\ InRange(f.a)
  /\ f.a = server.commit

\* Slip: the key confirmation is not compared.
TrustingConfirmVerifies(f) == KeepsCommitment(f)

ConfirmVerifies(f) ==
  /\ KeepsCommitment(f)
  /\ f.confirm_c = ConfirmMac(SharedSecret(f.a, server.b), server.commit,
                              "client", f.a)

ServerAccepts ==
  /\ ServerReceives("confirm")
  /\ LET f == Head(toServer)
         K == SharedSecret(f.a, server.b)
     IN  /\ ConfirmVerifies(f)
         /\ server' = [server EXCEPT !.at = "ok", !.shared = K]
         /\ toClient' = Sent(toClient,
              AuthOkFrame(ConfirmMac(K, server.commit, "server",
                                     PublicElement(server.b))))
  /\ UNCHANGED told

\* _recv_frame raises ValueError, or compare_digest TypeError; neither is
\* caught anywhere below the thread's top.
Crashing(f) ==
  \/ f.type = "malformed"
  \/ /\ server.at = "confirm"
     /\ KeepsCommitment(f)
     /\ f.confirm_c = NonAsciiMac

ServerRefusesConfirm ==
  /\ ServerReceives("confirm")
  /\ ~ Crashing(Head(toServer))
  /\ ~ ConfirmVerifies(Head(toServer))
  /\ Fail

ServerCrashes ==
  /\ server.at \in {"commit", "confirm"}
  /\ ServerReceives(server.at)
  /\ Crashing(Head(toServer))
  /\ server' = [server EXCEPT !.at = "crashed"]
  /\ UNCHANGED <<toClient, told>>

ServerDisconnected ==
  /\ server.at \in {"commit", "confirm"}
  /\ link = "down" \/ ("client" \in closed /\ toServer = <<>>)
  /\ server' = [server EXCEPT !.at = "gone"]
  /\ UNCHANGED <<password, client, toServer, toClient, closed, link, altered,
                 told>>

\* Slip: an exception nobody expected leaves the socket open.
LeakyServerCloses ==
  /\ server.at \in {"failed", "gone"}
  /\ "server" \notin closed
  /\ closed' = closed \cup {"server"}
  /\ UNCHANGED <<password, client, server, toServer, toClient, link, altered,
                 told>>

\* _serve_connection closes the socket whichever way the handler ended.
ServerCloses ==
  /\ server.at \in {"failed", "crashed", "gone"}
  /\ "server" \notin closed
  /\ closed' = closed \cup {"server"}
  /\ UNCHANGED <<password, client, server, toServer, toClient, link, altered,
                 told>>

(***************************************************************************)
(* The connection                                                          *)
(***************************************************************************)
\* What one altered field, or another frame in its place, makes of a frame.
\* A MAC can be spoiled but not computed without its key.
Altered(f) ==
  {OtherFrame, Malformed, AuthFailFrame}
    \cup (IF f.type = "covenant_commit"
            THEN {CommitFrame(c) : c \in 0 .. P - 1} ELSE {})
    \cup (IF f.type = "covenant_challenge"
            THEN {ChallengeFrame(x) : x \in -1 .. P} ELSE {})
    \cup (IF f.type = "covenant_confirm"
            THEN {ConfirmFrame(x, f.confirm_c) : x \in -1 .. P}
                   \cup {ConfirmFrame(f.a, m) : m \in {NoMac, NonAsciiMac}}
            ELSE {})
    \cup (IF f.type = "auth_ok"
            THEN {AuthOkFrame(m) : m \in {NoMac, NonAsciiMac}} ELSE {})

AlterToServer ==
  /\ ~ altered
  /\ toServer # <<>>
  /\ \E f \in Altered(Head(toServer)) \ {Head(toServer)} :
       toServer' = <<f>> \o Tail(toServer)
  /\ altered' = TRUE
  /\ UNCHANGED <<password, client, server, toClient, closed, link, told>>

AlterToClient ==
  /\ ~ altered
  /\ toClient # <<>>
  /\ \E f \in Altered(Head(toClient)) \ {Head(toClient)} :
       toClient' = <<f>> \o Tail(toClient)
  /\ altered' = TRUE
  /\ UNCHANGED <<password, client, server, toServer, closed, link, told>>

\* The connection is lost. What has arrived may still be read.
Disconnect ==
  /\ link = "up"
  /\ link' = "down"
  /\ UNCHANGED <<password, client, server, toServer, toClient, closed, altered,
                 told>>

ClientStep ==
  \/ ClientCommits \/ ClientConfirms \/ ClientRefusesChallenge
  \/ ClientAccepts \/ ClientRefusesResult \/ ClientDisconnected \/ ClientExits

ServerStep ==
  \/ ServerChallenges \/ ServerRefusesCommit
  \/ ServerAccepts \/ ServerRefusesConfirm
  \/ ServerCrashes \/ ServerDisconnected \/ ServerCloses

Next ==
  \/ ClientStep
  \/ ServerStep
  \/ AlterToServer
  \/ AlterToClient
  \/ Disconnect

\* The two programs keep running: each takes its next step once it can.
Fairness == WF_vars(ClientStep) /\ WF_vars(ServerStep)

Spec == Init /\ [][Next]_vars /\ Fairness
-----------------------------------------------------------------------------
Elements == 0 .. P - 1
Macs ==
  {NoMac, NonAsciiMac}
    \cup (Elements \X Elements \X {"client", "server"} \X Elements)

Frames ==
  {OtherFrame, Malformed, AuthFailFrame}
    \cup [type : {"covenant_commit"}, commit : Elements]
    \cup [type : {"covenant_challenge"}, masked_b : -1 .. P]
    \cup [type : {"covenant_confirm"}, a : -1 .. P, confirm_c : Macs]
    \cup [type : {"auth_ok"}, confirm_s : Macs]

TypeOK ==
  /\ password \in [{"client", "server"} -> Passwords]
  /\ client \in [at : {"start", "challenge", "result", "ok", "failed"},
                 a : {0} \cup Exponents, public_b : Elements,
                 shared : Elements]
  /\ server \in [at : {"commit", "confirm", "ok", "failed", "crashed", "gone"},
                 b : {0} \cup Exponents, commit : Elements, shared : Elements]
  /\ toServer \in Seq(Frames)
  /\ toClient \in Seq(Frames)
  /\ closed \subseteq {"client", "server"}
  /\ link \in {"up", "down"}
  /\ altered \in BOOLEAN
  /\ told \in BOOLEAN

\* A server that has accepted did so on the word of this client: both hold
\* the same secret, over the element the client committed to, even when a
\* frame was altered on the way (run_server's three checks on the confirm).
ServerAuthenticates ==
  server.at = "ok" =>
    /\ client.at \in {"result", "ok", "failed"}
    /\ client.shared = server.shared
    /\ PublicElement(client.a) = server.commit

\* A client that has accepted knows that the server has too, with the same
\* secret, and has recovered the server's true element from the masked one
\* (mutual authentication through confirm_s).
ClientAuthenticates ==
  client.at = "ok" =>
    /\ server.at = "ok"
    /\ client.shared = server.shared
    /\ client.public_b = PublicElement(server.b)

\* With different passwords and frames that arrive as they were sent, if they
\* arrive, neither end accepts, for every choice of exponents, those of small
\* order included.
WrongPasswordRefused ==
  (password["client"] # password["server"] /\ ~ altered) =>
    client.at # "ok" /\ server.at # "ok"

\* With one password nothing but a lost connection or an exponent that yields
\* a degenerate element on the wire makes the handshake fail: the client's
\* arithmetic undoes the server's.
RightPasswordAccepted ==
  (/\ password["client"] = password["server"]
   /\ ~ altered
   /\ link = "up"
   /\ client.at = "failed" \/ server.at \in {"failed", "crashed", "gone"})
    => \/ ~ InRange(PublicElement(client.a))
       \/ server.b # 0 /\ ~ InRange(Mask(PublicElement(server.b),
                                         SecretToElement(password["server"])))

\* The handshake ends at both ends: no failure of one leaves the other
\* waiting for a frame for ever.
Termination ==
  <>(/\ client.at \in {"ok", "failed"}
     /\ server.at \in {"ok", "failed", "crashed", "gone"})

\* run_server's docstring: "On any client-side failure the server sends an
\* AUTH_FAIL frame (so the client learns the outcome) and then raises."
FailureIsAnnounced ==
  server.at \in {"failed", "crashed"} => told
=============================================================================
