------------------------------- MODULE Huffman -------------------------------
(***************************************************************************)
(* crypto/huffman.py: compress, and decompress of what it returns. The     *)
(* blob is its fields (length, table, bits) and not their bytes; a tree is *)
(* the function from the symbols of its leaves to their paths, 0 for left  *)
(* and 1 for right, which is what _build_codes makes of it.                *)
(*                                                                         *)
(* A step is one turn of the loop of _build_tree, one symbol encoded or    *)
(* one bit decoded. The decoder has the blob alone, and builds the tree    *)
(* again.                                                                  *)
(*                                                                         *)
(* Definitions introduced by "Slip" are wrong variants of the definition   *)
(* that follows. Nothing uses them; put in its place, each makes a         *)
(* property fail, which shows that the property can.                       *)
(***************************************************************************)
EXTENDS Naturals, SequencesExt

CONSTANTS
  Symbols,   \* byte values
  Payloads,  \* inputs of compress to consider
  ByteBits   \* bits in a byte, 8 in the code

ASSUME HuffmanAssumption ==
  /\ Symbols \subseteq Nat
  /\ Payloads \subseteq Seq(Symbols)
  /\ ByteBits \in Nat \ {0}

VARIABLES
  payload,  \* the argument of compress
  length,   \* the blob: the payload's length,
  table,    \* the frequency of each symbol,
  bits,     \* and the codes, one after the other
  phase,    \* "compress", "decompress" or "done"
  heap,     \* the nodes of _build_tree that have no parent yet
  path,     \* decompress: the way from the root to node
  pos,      \* decompress: bits read so far
  result,   \* decompress: symbols decoded so far
  forests,  \* history: the values of heap in compress
  cuts      \* history: where the codes in bits begin, and where the next will

blob == <<payload, length, table>>
decoder == <<path, pos, result>>
huffmanVars == <<blob, bits, phase, heap, decoder, forests, cuts>>

-----------------------------------------------------------------------------
\* Counter(data)
Frequencies(data) ==
  [x \in Range(data) |-> Cardinality({i \in DOMAIN data : data[i] = x})]

Leaf(x, n) == [freq |-> n, sym |-> x, codes |-> [y \in {x} |-> <<>>]]

Leaves(freq) == {Leaf(x, freq[x]) : x \in DOMAIN freq}

\* The order of heap entries (f, s, _).
Before(n, o) == n.freq < o.freq \/ (n.freq = o.freq /\ n.sym < o.sym)

\* heappop
Least(h) == CHOOSE n \in h : \A o \in h \ {n} : Before(n, o)

\* Slip: the right subtree's codes are not told from the left's.
OneSidedJoin(l, n) ==
  [freq |-> l.freq + n.freq,
   sym |-> IF l.sym < n.sym THEN l.sym ELSE n.sym,
   codes |-> [x \in DOMAIN l.codes \cup DOMAIN n.codes |->
                IF x \in DOMAIN l.codes THEN <<0>> \o l.codes[x]
                                        ELSE n.codes[x]]]

\* The node above l and n.
Join(l, n) ==
  [freq |-> l.freq + n.freq,
   sym |-> IF l.sym < n.sym THEN l.sym ELSE n.sym,
   codes |-> [x \in DOMAIN l.codes \cup DOMAIN n.codes |->
                IF x \in DOMAIN l.codes THEN <<0>> \o l.codes[x]
                                        ELSE <<1>> \o n.codes[x]]]

\* Slip: the larger of the two nodes is not the least of the others.
GreedyMerged(h) ==
  LET l == Least(h)
      n == CHOOSE x \in h \ {l} : \A o \in h \ {l, x} : Before(o, x)
  IN  (h \ {l, n}) \cup {Join(l, n)}

\* One turn of _build_tree's loop.
Merged(h) ==
  LET l == Least(h)
      n == Least(h \ {l})
  IN  (h \ {l, n}) \cup {Join(l, n)}

\* len(heap) = 1, and heap[0]
Built(h) == \A l, n \in h : l = n
Codes == (CHOOSE n \in heap : TRUE).codes

\* _build_codes: a lone leaf's path is empty, its code is not.
Code(x) == IF Codes[x] = <<>> THEN <<0>> ELSE Codes[x]

\* The zeros of _pack_bits.
Padding(n) == [i \in 1 .. (ByteBits - (n % ByteBits)) % ByteBits |-> 0]

-----------------------------------------------------------------------------
HuffmanStart(data) ==
  /\ payload = data
  /\ length = Len(data)
  /\ table = Frequencies(data)
  /\ bits = <<>>
  /\ phase = IF data = <<>> THEN "done" ELSE "compress"
  /\ heap = Leaves(Frequencies(data))
  /\ path = <<>> /\ pos = 0 /\ result = <<>>
  /\ forests = <<Leaves(Frequencies(data))>>
  /\ cuts = <<0>>

HuffmanInit == \E data \in Payloads : HuffmanStart(data)

Merge ==
  /\ phase # "done"
  /\ ~ Built(heap)
  /\ heap' = Merged(heap)
  /\ forests' = IF phase = "compress" THEN Append(forests, heap') ELSE forests
  /\ UNCHANGED <<blob, bits, phase, decoder, cuts>>

Encode ==
  /\ phase = "compress"
  /\ Built(heap)
  /\ Len(cuts) <= length
  /\ bits' = bits \o Code(payload[Len(cuts)])
  /\ cuts' = Append(cuts, Len(bits'))
  /\ UNCHANGED <<blob, phase, heap, decoder, forests>>

\* The blob is complete, and decompress reads its header.
HandOver ==
  /\ phase = "compress"
  /\ Built(heap)
  /\ Len(cuts) > length
  /\ bits' = bits \o Padding(Len(bits))
  /\ phase' = "decompress"
  /\ heap' = Leaves(table)
  /\ UNCHANGED <<blob, decoder, forests, cuts>>

IsLeaf == \E x \in DOMAIN table : Codes[x] = <<>>

\* decompress: the root is a leaf.
DecodeLeaf ==
  /\ phase = "decompress"
  /\ Built(heap)
  /\ IsLeaf
  /\ \E x \in DOMAIN Codes : result' = [i \in 1 .. length |-> x]
  /\ phase' = "done"
  /\ UNCHANGED <<blob, bits, heap, path, pos, forests, cuts>>

\* Slip: node is not set back to the root after a symbol.
StrayingDecodeBit ==
  /\ phase = "decompress"
  /\ Built(heap)
  /\ ~ IsLeaf
  /\ pos' = pos + 1
  /\ path' = Append(path, bits[pos + 1])
  /\ result' = IF \E x \in DOMAIN Codes : Codes[x] = path'
                 THEN Append(result, CHOOSE x \in DOMAIN Codes : Codes[x] = path')
                 ELSE result
  /\ phase' = IF Len(result') = length \/ pos' = Len(bits) THEN "done" ELSE phase
  /\ UNCHANGED <<blob, bits, heap, forests, cuts>>

\* decompress: the loops over bytes and bits. They end with the last symbol,
\* or with the last bit.
DecodeBit ==
  /\ phase = "decompress"
  /\ Built(heap)
  /\ ~ IsLeaf
  /\ pos' = pos + 1
  /\ LET way == Append(path, bits[pos + 1])
         hit == {x \in DOMAIN Codes : Codes[x] = way}
     IN  IF hit = {}
           THEN path' = way /\ UNCHANGED result
           ELSE path' = <<>> /\ \E x \in hit : result' = Append(result, x)
  /\ phase' = IF Len(result') = length \/ pos' = Len(bits) THEN "done" ELSE phase
  /\ UNCHANGED <<blob, bits, heap, forests, cuts>>

HuffmanNext == Merge \/ Encode \/ HandOver \/ DecodeLeaf \/ DecodeBit

HuffmanSpec == HuffmanInit /\ [][HuffmanNext]_huffmanVars

-----------------------------------------------------------------------------
\* No code is the beginning of another, in any tree of the forest: it is what
\* makes bits without separators readable.
PrefixFree ==
  \A n \in heap : \A x, y \in DOMAIN n.codes :
    x # y => ~ IsPrefix(n.codes[x], n.codes[y])

\* decompress inverts compress (its docstring), and on the way there never has
\* anything but a beginning of the payload. Nothing in the blob says where a
\* code ends or which tree was used.
DecodesBack ==
  /\ IsPrefix(result, payload)
  /\ phase = "done" => result = payload

\* The codes are as short as those of any prefix code for these frequencies:
\* Kraft's inequality says which code lengths there are.
Optimal ==
  LET S == DOMAIN table
      K == Cardinality(S)
      Cost(len) == SumFunction([x \in S |-> table[x] * len[x]])
      Possible(len) == SumFunction([x \in S |-> 2 ^ (K - len[x])]) <= 2 ^ K
  IN  (phase = "compress" /\ cuts = <<0>> /\ Built(heap)) =>
        \A len \in [S -> 1 .. K] :
          Possible(len) => Cost([x \in S |-> Len(Code(x))]) <= Cost(len)
=============================================================================
