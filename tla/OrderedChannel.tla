--------------------------- MODULE OrderedChannel ---------------------------
(***************************************************************************)
(* What protocol/session.py promises its callers, with no frames, tags or  *)
(* counters: two one-way channels, named after the end that writes them.   *)
(* A message handed to a channel may be lost, but what comes out is a      *)
(* subsequence of what went in: every message at most once, in the order   *)
(* it was sent, unaltered, and never in the other direction.               *)
(***************************************************************************)
EXTENDS Naturals, Sequences

CONSTANTS
  Ends,     \* the two ends; channel d carries what end d writes
  Messages  \* what a caller may send

VARIABLES
  sent,     \* sent[d]: the messages handed to channel d, in order
  got       \* got[d]: what came out of channel d, as [at, msg] records, at
            \* being the position of the message in sent[d]

vars == <<sent, got>>

Init ==
  /\ sent = [d \in Ends |-> <<>>]
  /\ got = [d \in Ends |-> <<>>]

Send(d, m) ==
  /\ sent' = [sent EXCEPT ![d] = Append(@, m)]
  /\ UNCHANGED got

\* The position of the last message that came out of channel d.
LastAt(d) == IF got[d] = <<>> THEN 0 ELSE got[d][Len(got[d])].at

\* The message at position i comes out. The ones it overtakes are lost.
Deliver(d, i) ==
  /\ i > LastAt(d)
  /\ got' = [got EXCEPT ![d] = Append(@, [at |-> i, msg |-> sent[d][i]])]
  /\ UNCHANGED sent

\* A new connection starts from two empty channels: nothing crosses over.
Restart == 
  /\ sent' = [d \in Ends |-> <<>>]
  /\ got' = [d \in Ends |-> <<>>]

Next ==
  \/ \E d \in Ends, m \in Messages : Send(d, m)
  \/ \E d \in Ends : \E i \in 1..Len(sent[d]) : Deliver(d, i)
  \/ Restart

Spec == Init /\ [][Next]_vars
=============================================================================
