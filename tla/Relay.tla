-------------------------------- MODULE Relay --------------------------------
(***************************************************************************)
(* What the chat server promises a client about the messages of another,   *)
(* whatever its threads, locks and registry do (cli/relay.py): it hears    *)
(* them from some message on without a gap, in order and once, it never    *)
(* hears its own, and nobody says what it hears but the client it is from. *)
(* ChatServer is shown to implement this.                                  *)
(***************************************************************************)
EXTENDS Naturals, Sequences

CONSTANTS
  Clients,
  Server  \* the relay itself, which is no client

VARIABLES
  said,  \* said[c]: how many messages c has sent
  heard  \* heard[r]: what r was sent: messages of others, and words of the relay

Init ==
  /\ said = [c \in Clients |-> 0]
  /\ heard = [c \in Clients |-> <<>>]

Say(c) ==
  /\ said' = [said EXCEPT ![c] = @ + 1]
  /\ UNCHANGED heard

\* The numbers of the messages that r has heard from c.
Numbers(r, c) ==
  {heard[r][i].n : i \in {j \in DOMAIN heard[r] : heard[r][j].from = c}}

Hear(r, c, n) ==
  /\ r # c
  /\ n \in 1 .. said[c] \ Numbers(r, c)
  /\ Numbers(r, c) = {} \/ n - 1 \in Numbers(r, c)
  /\ \A k \in Numbers(r, c) : k < n
  /\ heard' = [heard EXCEPT ![r] = Append(@, [from |-> c, n |-> n])]
  /\ UNCHANGED said

\* A greeting, or an error: nothing that concerns other clients.
Tell(r) ==
  /\ heard' = [heard EXCEPT ![r] = Append(@, [from |-> Server, n |-> 0])]
  /\ UNCHANGED said

Next ==
  \/ \E c \in Clients : Say(c) \/ Tell(c)
  \/ \E r, c \in Clients : \E n \in 1 .. said[c] : Hear(r, c, n)

Spec == Init /\ [][Next]_<<said, heard>>
=============================================================================
