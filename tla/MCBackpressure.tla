--------------------------- MODULE MCBackpressure ---------------------------
(***************************************************************************)
(* Instances of Backpressure for TLC: three connections, of which two send.*)
(***************************************************************************)
EXTENDS Backpressure

CONSTANTS a, b, w

OneFromTwo == [c \in Conns |-> IF c = w THEN 0 ELSE 1]

TwoAndOne == [c \in Conns |-> IF c = a THEN 2 ELSE IF c = b THEN 1 ELSE 0]
=============================================================================
