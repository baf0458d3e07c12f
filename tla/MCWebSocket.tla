---------------------------- MODULE MCWebSocket ----------------------------
(***************************************************************************)
(* Instances of WebSocket for TLC: frames of 125, 126, 65535 and 65536     *)
(* bytes, the lengths at which the header changes, as whole messages and as*)
(* their first fragments.                                                  *)
(***************************************************************************)
EXTENDS WebSocket

CONSTANTS small, large, byte

Sizes == [t \in Texts |-> CASE t = small -> 125 [] t = large -> 65535
                            [] t = byte -> 1]

Edges ==
  {[opcode |-> OP_TEXT, parts |-> <<small, byte>>],
   [opcode |-> OP_BINARY, parts |-> <<large, byte>>]}

Short == <<small>>

TwoAndOne == [client |-> 2, server |-> 1]
=============================================================================
