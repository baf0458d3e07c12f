---------------------------- MODULE MCAlgorithms ----------------------------
(***************************************************************************)
(* The sequential parts of the program, run one at a time: an initial      *)
(* state gives one of them its input and the others a trivial one.         *)
(***************************************************************************)
EXTENDS ExtendedGcd, Huffman, Jsonx, Startup

Upto(S, n) == UNION {[1 .. k -> S] : k \in 0 .. n}

\* Among them 21 and 34, for which the loop takes longest.
SomeNumbers == -3 .. 40
SomeModuli == 1 .. 34

\* Frequencies of 1, 2 and 3 with and without ties: trees of up to four leaves,
\* of both shapes.
SomePayloads == Upto(0 .. 3, 6)

\* All texts of three characters, and longer ones of those that interact.
AllCharacters ==
  {"quote", "backslash", "hash", "slash", "star", "newline", "comma", "blank",
   "closer"}
SomeTexts ==
  Upto(AllCharacters, 3)
    \cup Upto({"quote", "backslash", "slash", "star", "newline"}, 6)
    \cup Upto({"quote", "backslash", "comma", "blank", "closer"}, 5)

\* Every file of two lines that set the port and the password, or neither.
SomeLines ==
  {NotARecord, "typo" :> "x"}
    \cup {"port" :> v : v \in {"x", Bad}}
    \cup {"password" :> v : v \in {"x", "y", Empty, None}}
SomeFiles == Upto(SomeLines, 2)
SomeEnvironments ==
  [{"PRIESTLY_PASSWD", "PASSWD"} -> {"x", "y", Empty, None}]
SomeServerOptions ==
  {[server_name |-> "x", host |-> None, port |-> p] : p \in {None, "y"}}
SomeClientOptions ==
  {[host |-> None, port |-> p, password |-> v] :
     p \in {None, "y"}, v \in {None, Empty, "y"}}

VARIABLE running  \* which of them

GcdRests == GcdStart(1, 1)
HuffmanRests == HuffmanStart(<<>>)
JsonxRests == JsonxStart(<<>>)
StartupRests ==
  StartupStart(None, CHOOSE e \in Environments : TRUE,
               CHOOSE o \in ServerOptions : TRUE, CHOOSE o \in ClientOptions : TRUE)

Init ==
  \/ /\ running = "modinv"
     /\ GcdInit /\ HuffmanRests /\ JsonxRests /\ StartupRests
  \/ /\ running = "huffman"
     /\ GcdRests /\ HuffmanInit /\ JsonxRests /\ StartupRests
  \/ /\ running = "jsonx"
     /\ GcdRests /\ HuffmanRests /\ JsonxInit /\ StartupRests
  \/ /\ running = "startup"
     /\ GcdRests /\ HuffmanRests /\ JsonxRests /\ StartupInit

Next ==
  /\ UNCHANGED running
  /\ \/ /\ running = "modinv" /\ GcdStep
        /\ UNCHANGED <<huffmanVars, jsonxVars, startupVars>>
     \/ /\ running = "huffman" /\ HuffmanNext
        /\ UNCHANGED <<gcdVars, jsonxVars, startupVars>>
     \/ /\ running = "jsonx" /\ JsonxNext
        /\ UNCHANGED <<gcdVars, huffmanVars, startupVars>>
     \/ /\ running = "startup" /\ StartupNext
        /\ UNCHANGED <<gcdVars, huffmanVars, jsonxVars>>

Spec == Init /\ [][Next]_<<running, gcdVars, huffmanVars, jsonxVars, startupVars>>
=============================================================================
