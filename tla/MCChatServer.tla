---------------------------- MODULE MCChatServer ----------------------------
(***************************************************************************)
(* Instances of ChatServer for TLC: two clients a and b that run the CLI,  *)
(* and a browser w.                                                        *)
(***************************************************************************)
EXTENDS ChatServer

CONSTANTS a, b, w

Says(byA, byB, byW) ==
  [c \in Conns |-> CASE c = a -> byA [] c = b -> byB [] c = w -> byW]

\* Two threads relay to w at once, one of them twice.
Busy == [clients |-> {a, b, w}, says |-> Says(2, 1, 0), errs |-> {}]

\* Two relays can meet at w, and each other's recipients can fail.
Crossed == [clients |-> {a, b, w}, says |-> Says(1, 1, 0), errs |-> {}]

\* One message from each end of a pair.
Pair == [clients |-> {a, w}, says |-> Says(1, 0, 1), errs |-> {}]

\* The same, one of them sending a wrong frame at some moment.
Faulty == {[Pair EXCEPT !.errs = {c}] : c \in {a, w}}

\* One message, one wrong frame and a listener.
Disturbed == [clients |-> {a, w}, says |-> Says(1, 0, 0), errs |-> {a}]

Relayed == {Busy} \cup Faulty
Lived == {Crossed, Disturbed}
JustAPair == {Pair}
=============================================================================
