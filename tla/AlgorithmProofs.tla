--------------------------- MODULE AlgorithmProofs ---------------------------
(***************************************************************************)
(* Proofs about the sequential parts of the program, for inputs of any     *)
(* size: ExtendedGcd (Bezout's identity at every turn, progress, and that  *)
(* modinv returns an inverse exactly when there is one), Huffman (no code  *)
(* begins another, decompress returns what compress was given, and no      *)
(* prefix code is shorter), Startup (a node and a client with one          *)
(* configuration fit together) and Jsonx (comments and trailing commas go, *)
(* and strings stay). The run "algorithms" shows the same up to its        *)
(* bounds.                                                                 *)
(***************************************************************************)
EXTENDS ExtendedGcd, Huffman, Startup, Jsonx, FiniteSetTheorems,
        SequenceTheorems, WellFoundedInduction, TLAPS

-----------------------------------------------------------------------------
(***************************************************************************)
(* Arithmetic                                                              *)
(***************************************************************************)

\* What // and % of one division have to do with each other.
LEMMA Division ==
  ASSUME NEW x \in Int, NEW n \in Nat \ {0}
  PROVE  /\ x \div n \in Int
         /\ x % n \in 0 .. n - 1
         /\ x = n * (x \div n) + (x % n)
  BY Z3

\* The remainder is the only number of its range at a multiple's distance.
LEMMA RemainderUnique ==
  ASSUME NEW x \in Int, NEW n \in Nat \ {0}, NEW k \in Int,
         NEW y \in 0 .. n - 1, x = n * k + y
  PROVE  x % n = y
<1> DEFINE q == x \div n
<1> DEFINE z == x % n
<1>1. q \in Int /\ z \in 0 .. n - 1 /\ x = n * q + z
  BY Division
<1> HIDE DEF q, z
<1>2. n * (q - k) = y - z
  BY <1>1
<1>3. q - k \in Int /\ y - z < n /\ y - z > -n
  BY <1>1
<1>4. CASE q - k >= 1
  <2>1. n * (q - k) >= n
    BY <1>3, <1>4
  <2> QED
    BY <1>2, <1>3, <2>1
<1>5. CASE q - k <= -1
  <2>1. n * (q - k) <= -n
    BY <1>3, <1>5
  <2> QED
    BY <1>2, <1>3, <2>1
<1>6. CASE q - k = 0
  <2>1. y = z
    BY <1>1, <1>2, <1>6
  <2> QED
    BY <2>1 DEF z
<1> QED
  BY <1>3, <1>4, <1>5, <1>6

-----------------------------------------------------------------------------
(***************************************************************************)
(* The inductive invariant                                                 *)
(***************************************************************************)

\* No turn loses a divisor: what divides both remainders divides both
\* arguments. With Bezout, the last remainder is the greatest such number.
DivisorsKept ==
  \A d \in Int : Divides(d, old_r) /\ Divides(d, r) => CommonDivisor(d)

GcdIInv == GcdTypeOK /\ Bezout /\ DivisorsKept

LEMMA GcdInitIInv == GcdInit => GcdIInv
<1> SUFFICES ASSUME NEW x \in Numbers, NEW n \in Moduli, GcdStart(x, n)
             PROVE  GcdIInv
  BY DEF GcdInit
<1> USE DEF GcdStart
<1>1. x \in Int /\ n \in Nat \ {0} /\ x % n \in 0 .. n - 1
  BY GcdAssumption, Division
<1>2. GcdTypeOK
  BY <1>1 DEF GcdTypeOK
<1>3. Bezout
  BY <1>1 DEF Bezout
<1>4. DivisorsKept
  BY DEF DivisorsKept, CommonDivisor
<1> QED
  BY <1>2, <1>3, <1>4 DEF GcdIInv

\* The new remainder is that of the division: // rounds down.
LEMMA RemainderStep ==
  ASSUME GcdTypeOK, GcdStep
  PROVE  /\ old_r \div r \in Int
         /\ r' \in 0 .. r - 1
         /\ old_r = r * (old_r \div r) + r'
<1>1. r \in Nat \ {0} /\ old_r \in Int
  BY DEF GcdTypeOK, GcdStep
<1> DEFINE q == old_r \div r
<1>2. /\ q \in Int
      /\ old_r % r \in 0 .. r - 1
      /\ old_r = r * q + (old_r % r)
  BY <1>1, Division
<1>3. r' = old_r - q * r
  BY DEF GcdStep
<1> HIDE DEF q
<1>4. r' = old_r % r
  BY <1>1, <1>2, <1>3
<1> QED
  BY <1>2, <1>4 DEF q

LEMMA StepBezout ==
  ASSUME GcdTypeOK, Bezout, GcdStep
  PROVE  Bezout'
<1> DEFINE q == old_r \div r
<1> DEFINE A == a % m
<1>1. /\ q \in Int /\ A \in Int /\ m \in Int
      /\ old_s \in Int /\ s \in Int /\ old_t \in Int /\ t \in Int
  BY RemainderStep, Division DEF GcdTypeOK
<1>2. old_r = A * old_s + m * old_t /\ r = A * s + m * t
  BY DEF Bezout
<1>3. /\ old_r' = r /\ r' = old_r - q * r
      /\ old_s' = s /\ s' = old_s - q * s
      /\ old_t' = t /\ t' = old_t - q * t
      /\ a' = a /\ m' = m
  BY DEF GcdStep
<1>4. (a % m)' = A
  BY <1>3
<1> HIDE DEF q, A
<1>5. q * (A * s + m * t) = A * (q * s) + m * (q * t)
  BY <1>1
<1>6. r' = A * (old_s - q * s) + m * (old_t - q * t)
  BY <1>1, <1>2, <1>3, <1>5
<1> QED
  BY <1>2, <1>3, <1>4, <1>6 DEF Bezout

LEMMA StepDivisorsKept ==
  ASSUME GcdTypeOK, DivisorsKept, GcdStep
  PROVE  DivisorsKept'
<1> SUFFICES ASSUME NEW d \in Int, Divides(d, r), Divides(d, r')
             PROVE  CommonDivisor(d)
  BY DEF DivisorsKept, CommonDivisor, Divides, GcdStep
<1> DEFINE q == old_r \div r
<1>1. /\ q \in Int /\ r \in Int /\ r' \in Int
      /\ old_r = r * q + r'
  BY RemainderStep DEF GcdTypeOK
<1> HIDE DEF q
<1>2. PICK j \in Int : r = d * j
  BY DEF Divides
<1>3. PICK k \in Int : r' = d * k
  BY DEF Divides
<1>4. old_r = d * (j * q + k) /\ j * q + k \in Int
  BY <1>1, <1>2, <1>3
<1>5. Divides(d, old_r)
  BY <1>4 DEF Divides
<1> QED
  BY <1>5 DEF DivisorsKept

LEMMA GcdNextIInv == GcdIInv /\ [GcdStep]_gcdVars => GcdIInv'
<1> SUFFICES ASSUME GcdIInv, [GcdStep]_gcdVars
             PROVE  GcdIInv'
  OBVIOUS
<1>1. CASE GcdStep
  <2>1. GcdTypeOK'
    BY <1>1, RemainderStep DEF GcdIInv, GcdTypeOK, GcdStep
  <2> QED
    BY <1>1, <2>1, StepBezout, StepDivisorsKept DEF GcdIInv
<1>2. CASE UNCHANGED gcdVars
  BY <1>2 DEF gcdVars, GcdIInv, GcdTypeOK, Bezout, DivisorsKept,
              CommonDivisor, Divides
<1> QED
  BY <1>1, <1>2

LEMMA GcdSpecIInv == GcdSpec => []GcdIInv
  BY GcdInitIInv, GcdNextIInv, PTL DEF GcdSpec

-----------------------------------------------------------------------------
(***************************************************************************)
(* The theorems                                                            *)
(***************************************************************************)

\* The identity that extended_gcd's docstring promises of its result holds of
\* both remainders at every turn.
THEOREM BezoutHolds == GcdSpec => []Bezout
<1>1. GcdIInv => Bezout
  BY DEF GcdIInv
<1> QED
  BY <1>1, GcdSpecIInv, PTL

\* The last remainder divides both arguments, and is not 0.
LEMMA LastDivides ==
  ASSUME GcdIInv, r = 0
  PROVE  CommonDivisor(old_r) /\ old_r \in Nat \ {0}
<1>1. old_r \in Int /\ m \in Nat \ {0}
  BY DEF GcdIInv, GcdTypeOK
<1>2. old_r = old_r * 1 /\ 0 = old_r * 0
  BY <1>1
<1>3. Divides(old_r, old_r) /\ Divides(old_r, r)
  BY <1>2 DEF Divides
<1>4. CommonDivisor(old_r)
  BY <1>1, <1>3 DEF GcdIInv, DivisorsKept
<1>5. old_r # 0
  BY <1>1, <1>4 DEF CommonDivisor, Divides
<1> QED
  BY <1>4, <1>5 DEF GcdIInv, GcdTypeOK

\* If the last remainder is 1, modinv's result is the inverse.
LEMMA UnitInverse ==
  ASSUME GcdIInv, r = 0, old_r = 1
  PROVE  ModInverse \in 0 .. m - 1 /\ (a * ModInverse) % m = 1 % m
<1> DEFINE A == a % m
<1> DEFINE j == a \div m
<1> DEFINE x == old_s \div m
<1> DEFINE y == old_s % m
<1> DEFINE o == 1 \div m
<1>1. /\ a \in Int /\ m \in Nat \ {0} /\ old_s \in Int /\ old_t \in Int
  BY DEF GcdIInv, GcdTypeOK
<1>2. j \in Int /\ A \in Int /\ a = m * j + A
  BY <1>1, Division
<1>3. x \in Int /\ y \in 0 .. m - 1 /\ old_s = m * x + y
  BY <1>1, Division
<1>4. 1 = A * old_s + m * old_t
  BY DEF GcdIInv, Bezout
<1>5. o \in Int /\ 1 % m \in 0 .. m - 1 /\ 1 = m * o + (1 % m)
  BY <1>1, Division
<1> DEFINE u == 1 % m
<1>6. a * y = m * (j * y - A * x - old_t + o) + u
  <2> HIDE DEF A, j, x, y, o, u
  <2>1. y \in Int
    BY <1>1, <1>3
  <2>2. a * y = m * (j * y) + A * y
    BY <1>1, <1>2, <2>1
  <2>3. A * y = A * old_s - m * (A * x)
    BY <1>1, <1>2, <1>3, <2>1
  <2>4. A * old_s = 1 - m * old_t
    BY <1>1, <1>2, <1>4
  <2>5. 1 = m * o + u
    BY <1>5 DEF u
  <2>6. u \in Int
    BY <1>1, <1>5 DEF u
  <2>7. j * y \in Int /\ A * x \in Int
    BY <1>2, <1>3, <2>1
  <2> QED
    BY <1>1, <1>5, <2>2, <2>3, <2>4, <2>5, <2>6, <2>7
<1>7. a * y \in Int /\ j * y - A * x - old_t + o \in Int
  <2> HIDE DEF A, j, x, y, o
  <2>1. y \in Int
    BY <1>1, <1>3
  <2>2. j * y \in Int /\ A * x \in Int
    BY <1>2, <1>3, <2>1
  <2> QED
    BY <1>1, <1>5, <2>1, <2>2
<1>8. (a * y) % m = u
  <2> HIDE DEF A, j, x, y, o, u
  <2>1. u \in 0 .. m - 1
    BY <1>5 DEF u
  <2> QED
    BY <1>1, <1>6, <1>7, <2>1, RemainderUnique
<1> QED
  BY <1>3, <1>8 DEF ModInverse

\* If it is not, there is no inverse: the remainder divides the argument and
\* the modulus, and would have to divide 1.
LEMMA NoUnitNoInverse ==
  ASSUME GcdIInv, r = 0, old_r # 1, NEW x \in 0 .. m - 1
  PROVE  (a * x) % m # 1 % m
<1> SUFFICES ASSUME (a * x) % m = 1 % m
             PROVE  FALSE
  OBVIOUS
<1> DEFINE A == a % m
<1> DEFINE j == a \div m
<1> DEFINE k == (a * x) \div m
<1> DEFINE o == 1 \div m
<1>1. a \in Int /\ m \in Nat \ {0} /\ x \in Int /\ old_r \in Int
  BY DEF GcdIInv, GcdTypeOK
<1>2. j \in Int /\ A \in Int /\ a = m * j + A
  BY <1>1, Division
<1>3. a * x \in Int
  BY <1>1
<1>4. k \in Int /\ a * x = m * k + ((a * x) % m)
  BY <1>1, <1>3, Division
<1>5. o \in Int /\ 1 % m \in Int /\ 1 = m * o + (1 % m)
  BY <1>1, Division
<1>6. 1 = A * x + m * (j * x - k + o)
  <2> DEFINE u == 1 % m
  <2>1. a * x = m * k + u /\ 1 = m * o + u /\ u \in Int
    BY <1>4, <1>5
  <2> HIDE DEF A, j, k, o, u
  <2>2. a * x = m * (j * x) + A * x
    BY <1>1, <1>2
  <2>3. j * x \in Int /\ A * x \in Int
    BY <1>1, <1>2
  <2> QED
    BY <1>1, <1>4, <1>5, <2>1, <2>2, <2>3
<1>7. j * x - k + o \in Int
  <2> HIDE DEF j, k, o
  <2>1. j * x \in Int
    BY <1>1, <1>2
  <2> QED
    BY <1>4, <1>5, <2>1
<1>8. CommonDivisor(old_r) /\ old_r \in Nat \ {0}
  BY LastDivides
<1>9. PICK p \in Int : A = old_r * p
  BY <1>8 DEF CommonDivisor, Divides
<1>10. PICK n \in Int : m = old_r * n
  BY <1>8 DEF CommonDivisor, Divides
<1> DEFINE w == j * x - k + o
<1>11. 1 = A * x + m * w /\ w \in Int
  BY <1>6, <1>7
<1> HIDE DEF A, w
<1>12. p * x + n * w \in Int
  BY <1>1, <1>9, <1>10, <1>11
<1>13. 1 = old_r * (p * x + n * w)
  BY <1>1, <1>9, <1>10, <1>11
<1>14. \A z \in Int : old_r >= 2 => old_r * z # 1
  BY <1>8
<1> QED
  BY <1>8, <1>12, <1>13, <1>14

\* modinv returns the inverse when there is one and raises when there is none,
\* whatever the numbers: the contract that unmask relies on.
THEOREM ModInvCorrect == GcdSpec => []InverseCorrect
<1>1. GcdIInv => InverseCorrect
  BY UnitInverse, NoUnitNoInverse DEF InverseCorrect
<1> QED
  BY <1>1, GcdSpecIInv, PTL

\* Every turn makes the remainder smaller, so that extended_gcd returns.
THEOREM GcdProgress == GcdSpec => RemaindersFall
<1>1. GcdIInv /\ [GcdStep]_gcdVars => [0 <= r' /\ r' < r]_gcdVars
  <2> SUFFICES ASSUME GcdIInv, GcdStep
               PROVE  0 <= r' /\ r' < r
    OBVIOUS
  <2>1. r \in Nat
    BY DEF GcdIInv, GcdTypeOK
  <2> QED
    BY <2>1, RemainderStep DEF GcdIInv
<1> QED
  BY <1>1, GcdSpecIInv, PTL DEF GcdSpec, RemaindersFall

-----------------------------------------------------------------------------
(***************************************************************************)
(* The least entry of the heap                                             *)
(***************************************************************************)

LEMMA LeastNatural ==
  ASSUME NEW T \in SUBSET Nat, T # {}
  PROVE  \E x \in T : \A y \in T : x <= y
<1>1. PICK x \in T : \A y \in T : ~ (<<y, x>> \in OpToRel(<, Nat))
  BY NatLessThanWellFounded, WFMin
<1>2. \A y \in T : ~ (y < x)
  BY <1>1 DEF OpToRel
<1> QED
  BY <1>2

\* What the heap holds.
CodeTables == UNION {[D -> Seq({0, 1})] : D \in SUBSET Nat}
Nodes == [freq : Nat, sym : Nat, codes : CodeTables]

\* No symbol is in two nodes, and each has the one it is ordered by.
Apart(h) ==
  \A l, n \in h : l # n => DOMAIN l.codes \cap DOMAIN n.codes = {}

IsHeap(h) ==
  /\ h \in SUBSET Nodes
  /\ \A n \in h : n.sym \in DOMAIN n.codes
  /\ Apart(h)

LEMMA NodeFacts ==
  ASSUME NEW n \in Nodes
  PROVE  /\ n.freq \in Nat /\ n.sym \in Nat
         /\ DOMAIN n.codes \in SUBSET Nat
         /\ n.codes \in [DOMAIN n.codes -> Seq({0, 1})]
<1>1. n.codes \in CodeTables /\ n.freq \in Nat /\ n.sym \in Nat
  BY DEF Nodes
<1>2. PICK D \in SUBSET Nat : n.codes \in [D -> Seq({0, 1})]
  BY <1>1 DEF CodeTables
<1> QED
  BY <1>1, <1>2

\* The least entry exists and is unique, since no two have the same symbol:
\* heapq never compares nodes, and both ends pop the same.
LEMMA LeastOfHeap ==
  ASSUME NEW h, h # {}, IsHeap(h)
  PROVE  Least(h) \in h /\ \A o \in h \ {Least(h)} : Before(Least(h), o)
<1> DEFINE F == {n.freq : n \in h}
<1>0. \A n \in h : n.freq \in Nat /\ n.sym \in Nat
  BY NodeFacts DEF IsHeap
<1>1. F \in SUBSET Nat /\ F # {}
  BY <1>0
<1> HIDE DEF F
<1>2. PICK f \in F : \A g \in F : f <= g
  BY <1>1, LeastNatural
<1> DEFINE T == {n \in h : n.freq = f}
<1> DEFINE S == {n.sym : n \in T}
<1>3. S \in SUBSET Nat /\ S # {}
  BY <1>0, <1>2 DEF F
<1>4. \A n \in T : n.sym \in S
  OBVIOUS
<1> HIDE DEF S
<1>5. PICK x \in S : \A y \in S : x <= y
  BY <1>3, LeastNatural
<1>6. PICK l \in T : l.sym = x
  BY <1>5 DEF S
<1>7. \A o \in h \ {l} : Before(l, o)
  <2> SUFFICES ASSUME NEW o \in h, o # l
               PROVE  Before(l, o)
    OBVIOUS
  <2>1. l \in h /\ l.freq = f
    BY <1>6
  <2>2. l.freq \in Nat /\ o.freq \in Nat /\ f <= o.freq
    BY <1>0, <1>2, <2>1 DEF F
  <2>3. CASE o.freq = f
    <3>1. o.sym \in S
      BY <1>4, <2>3
    <3>2. l.sym <= o.sym /\ l.sym \in Nat /\ o.sym \in Nat
      BY <1>3, <1>5, <1>6, <3>1
    <3>3. l.sym # o.sym
      BY <2>1 DEF IsHeap, Apart
    <3> QED
      BY <2>1, <2>3, <3>2, <3>3 DEF Before
  <2>4. CASE o.freq # f
    BY <2>1, <2>2, <2>4 DEF Before
  <2> QED
    BY <2>3, <2>4
<1> QED
  BY <1>6, <1>7 DEF Least

-----------------------------------------------------------------------------
(***************************************************************************)
(* Codes and prefixes                                                      *)
(***************************************************************************)

LEMMA PrefixPointwise ==
  ASSUME NEW S, NEW u \in Seq(S), NEW v \in Seq(S)
  PROVE  IsPrefix(u, v) <=>
           Len(u) <= Len(v) /\ \A i \in 1 .. Len(u) : u[i] = v[i]
<1>1. ASSUME Len(u) <= Len(v)
      PROVE  /\ SubSeq(v, 1, Len(u)) \in Seq(S)
             /\ Len(SubSeq(v, 1, Len(u))) = Len(u)
             /\ \A i \in 1 .. Len(u) : SubSeq(v, 1, Len(u))[i] = v[i]
  BY <1>1
<1>2. SubSeq(u, 1, Len(u)) = u
  BY SubSeqFull
<1>3. ASSUME Len(u) <= Len(v), \A i \in 1 .. Len(u) : u[i] = v[i]
      PROVE  SubSeq(v, 1, Len(u)) = u
  BY <1>1, <1>3, SeqEqual
<1> QED
  BY <1>1, <1>2, <1>3 DEF IsPrefix

\* One bit in front of two codes keeps them apart, and so do two different bits.
LEMMA PrefixBehind ==
  ASSUME NEW x \in {0, 1}, NEW y \in {0, 1},
         NEW u \in Seq({0, 1}), NEW v \in Seq({0, 1}),
         IsPrefix(<<x>> \o u, <<y>> \o v)
  PROVE  x = y /\ IsPrefix(u, v)
<1> DEFINE c == <<x>> \o u
           d == <<y>> \o v
<1>1. /\ c \in Seq({0, 1}) /\ Len(c) = Len(u) + 1 /\ c[1] = x
      /\ \A i \in 1 .. Len(u) : c[i + 1] = u[i]
      /\ d \in Seq({0, 1}) /\ Len(d) = Len(v) + 1 /\ d[1] = y
      /\ \A i \in 1 .. Len(v) : d[i + 1] = v[i]
  OBVIOUS
<1>2. IsPrefix(c, d)
  OBVIOUS
<1> HIDE DEF c, d
<1>3. Len(c) <= Len(d) /\ \A i \in 1 .. Len(c) : c[i] = d[i]
  BY <1>1, <1>2, PrefixPointwise
<1>4. Len(u) \in Nat /\ Len(v) \in Nat
  OBVIOUS
<1>5. 1 \in 1 .. Len(c) /\ x = y
  BY <1>1, <1>3, <1>4
<1>6. Len(u) <= Len(v)
  BY <1>1, <1>3, <1>4
<1>7. ASSUME NEW i \in 1 .. Len(u)
      PROVE  u[i] = v[i]
  <2>1. i + 1 \in 1 .. Len(c) /\ i \in 1 .. Len(v)
    BY <1>1, <1>4, <1>6
  <2>2. c[i + 1] = d[i + 1]
    BY <1>3, <2>1
  <2> QED
    BY <1>1, <2>1, <2>2
<1> QED
  BY <1>5, <1>6, <1>7, PrefixPointwise

-----------------------------------------------------------------------------
(***************************************************************************)
(* The forest                                                              *)
(***************************************************************************)

\* A heap whose leaves are the symbols S, in trees that tell them apart.
Forest(h, S) ==
  /\ h # {} /\ IsHeap(h)
  /\ \A x : x \in S <=> \E n \in h : x \in DOMAIN n.codes
  /\ \A n \in h : \A x, y \in DOMAIN n.codes :
       x # y => ~ IsPrefix(n.codes[x], n.codes[y])

LEMMA FrequencyTypes ==
  ASSUME NEW data \in Seq(Nat)
  PROVE  Frequencies(data) \in [Range(data) -> Nat] /\ Range(data) \in SUBSET Nat
<1>1. ASSUME NEW x
      PROVE  Cardinality({i \in DOMAIN data : data[i] = x}) \in Nat
  <2>1. DOMAIN data = 1 .. Len(data) /\ Len(data) \in Nat
    OBVIOUS
  <2>2. IsFiniteSet(DOMAIN data)
    BY <2>1, FS_Interval
  <2>3. IsFiniteSet({i \in DOMAIN data : data[i] = x})
    BY <2>2, FS_Subset
  <2> QED
    BY <2>3, FS_CardinalityType
<1>2. Range(data) \in SUBSET Nat
  BY DEF Range
<1> QED
  BY <1>1, <1>2 DEF Frequencies

LEMMA ForestLeaves ==
  ASSUME NEW freq, NEW S \in SUBSET Nat, freq \in [S -> Nat], S # {}
  PROVE  Forest(Leaves(freq), S)
<1>1. ASSUME NEW x \in S
      PROVE  /\ Leaf(x, freq[x]) \in Nodes
             /\ Leaf(x, freq[x]).sym = x
             /\ DOMAIN Leaf(x, freq[x]).codes = {x}
  <2> DEFINE g == [y \in {x} |-> <<>>]
  <2>1. g \in [{x} -> Seq({0, 1})] /\ DOMAIN g = {x}
    OBVIOUS
  <2>2. Leaf(x, freq[x]) = [freq |-> freq[x], sym |-> x, codes |-> g]
    BY DEF Leaf
  <2> HIDE DEF g
  <2>3. g \in CodeTables
    BY <2>1 DEF CodeTables
  <2> QED
    BY <2>1, <2>2, <2>3 DEF Nodes
<1>2. Leaves(freq) = {Leaf(x, freq[x]) : x \in S}
  BY DEF Leaves
<1>3. Leaves(freq) # {}
  BY <1>2
<1>4. IsHeap(Leaves(freq))
  <2>1. Leaves(freq) \in SUBSET Nodes
    BY <1>1, <1>2
  <2>2. \A n \in Leaves(freq) : n.sym \in DOMAIN n.codes
    BY <1>1, <1>2
  <2>3. Apart(Leaves(freq))
    BY <1>1, <1>2 DEF Apart
  <2> QED
    BY <2>1, <2>2, <2>3 DEF IsHeap
<1>5. \A x : x \in S <=> \E n \in Leaves(freq) : x \in DOMAIN n.codes
  <2>1. ASSUME NEW x \in S
        PROVE  \E n \in Leaves(freq) : x \in DOMAIN n.codes
    <3>1. Leaf(x, freq[x]) \in Leaves(freq)
      BY <1>2
    <3>2. x \in DOMAIN Leaf(x, freq[x]).codes
      BY <1>1
    <3> QED
      BY <3>1, <3>2
  <2>2. ASSUME NEW n \in Leaves(freq), NEW x \in DOMAIN n.codes
        PROVE  x \in S
    BY <1>1, <1>2
  <2> QED
    BY <2>1, <2>2
<1>6. \A n \in Leaves(freq) : \A x, y \in DOMAIN n.codes : x = y
  BY <1>1, <1>2
<1> QED
  BY <1>3, <1>4, <1>5, <1>6 DEF Forest

\* The two nodes of a turn of the loop, and the node above them.
LEMMA TwoLeast ==
  ASSUME NEW h, NEW S, Forest(h, S), ~ Built(h)
  PROVE  /\ Least(h) \in h
         /\ Least(h \ {Least(h)}) \in h \ {Least(h)}
<1>1. Least(h) \in h
  BY LeastOfHeap DEF Forest
<1> DEFINE g == h \ {Least(h)}
<1>2. g # {}
  BY <1>1 DEF Built
<1>3. IsHeap(g)
  BY DEF Forest, IsHeap, Apart
<1> HIDE DEF g
<1>4. Least(g) \in g
  BY <1>2, <1>3, LeastOfHeap
<1> QED
  BY <1>1, <1>4 DEF g

LEMMA JoinFacts ==
  ASSUME NEW l \in Nodes, NEW n \in Nodes,
         l.sym \in DOMAIN l.codes, n.sym \in DOMAIN n.codes,
         DOMAIN l.codes \cap DOMAIN n.codes = {}
  PROVE  LET j == Join(l, n)
         IN  /\ j \in Nodes
             /\ j.sym \in DOMAIN j.codes
             /\ DOMAIN j.codes = DOMAIN l.codes \cup DOMAIN n.codes
             /\ \A x \in DOMAIN l.codes : j.codes[x] = <<0>> \o l.codes[x]
             /\ \A x \in DOMAIN n.codes : j.codes[x] = <<1>> \o n.codes[x]
<1> DEFINE D == DOMAIN l.codes \cup DOMAIN n.codes
           g == [x \in D |-> IF x \in DOMAIN l.codes THEN <<0>> \o l.codes[x]
                                                    ELSE <<1>> \o n.codes[x]]
           y == IF l.sym < n.sym THEN l.sym ELSE n.sym
<1>1. /\ l.freq \in Nat /\ l.sym \in Nat /\ DOMAIN l.codes \in SUBSET Nat
      /\ l.codes \in [DOMAIN l.codes -> Seq({0, 1})]
      /\ n.freq \in Nat /\ n.sym \in Nat /\ DOMAIN n.codes \in SUBSET Nat
      /\ n.codes \in [DOMAIN n.codes -> Seq({0, 1})]
  BY NodeFacts
<1>2. Join(l, n) = [freq |-> l.freq + n.freq, sym |-> y, codes |-> g]
  BY DEF Join
<1>3. g \in [D -> Seq({0, 1})]
  <2>1. \A x \in DOMAIN l.codes : <<0>> \o l.codes[x] \in Seq({0, 1})
    BY <1>1
  <2>2. \A x \in DOMAIN n.codes : <<1>> \o n.codes[x] \in Seq({0, 1})
    BY <1>1
  <2> QED
    BY <2>1, <2>2
<1>4. /\ DOMAIN g = D
      /\ \A x \in DOMAIN l.codes : g[x] = <<0>> \o l.codes[x]
      /\ \A x \in DOMAIN n.codes : g[x] = <<1>> \o n.codes[x]
  OBVIOUS
<1>5. y \in Nat /\ y \in D
  BY <1>1
<1>6. l.freq + n.freq \in Nat /\ D \in SUBSET Nat
  BY <1>1
<1> HIDE DEF g, D, y
<1>7. g \in CodeTables
  BY <1>3, <1>6 DEF CodeTables
<1>8. Join(l, n) \in Nodes
  BY <1>2, <1>5, <1>6, <1>7 DEF Nodes
<1>9. Join(l, n).codes = g /\ Join(l, n).sym = y
  BY <1>2
<1> QED
  BY <1>4, <1>5, <1>8, <1>9 DEF D

LEMMA ForestMerged ==
  ASSUME NEW h, NEW S, Forest(h, S), ~ Built(h)
  PROVE  Forest(Merged(h), S)
<1> DEFINE l == Least(h)
           n == Least(h \ {Least(h)})
           j == Join(l, n)
<1>1. l \in h /\ n \in h /\ l # n
  BY TwoLeast
<1>2. Merged(h) = (h \ {l, n}) \cup {j}
  BY DEF Merged
<1> HIDE DEF l, n
<1>3. /\ l \in Nodes /\ n \in Nodes
      /\ l.sym \in DOMAIN l.codes /\ n.sym \in DOMAIN n.codes
      /\ DOMAIN l.codes \cap DOMAIN n.codes = {}
  BY <1>1 DEF Forest, IsHeap, Apart
<1>4. /\ j \in Nodes
      /\ j.sym \in DOMAIN j.codes
      /\ DOMAIN j.codes = DOMAIN l.codes \cup DOMAIN n.codes
      /\ \A x \in DOMAIN l.codes : j.codes[x] = <<0>> \o l.codes[x]
      /\ \A x \in DOMAIN n.codes : j.codes[x] = <<1>> \o n.codes[x]
  BY <1>3, JoinFacts
<1> HIDE DEF j
<1>5. IsHeap(Merged(h))
  <2>1. Merged(h) \in SUBSET Nodes /\ \A e \in Merged(h) : e.sym \in DOMAIN e.codes
    BY <1>2, <1>4 DEF Forest, IsHeap
  <2>2. ASSUME NEW e \in h \ {l, n}
        PROVE  DOMAIN e.codes \cap DOMAIN j.codes = {}
    <3>1. /\ DOMAIN e.codes \cap DOMAIN l.codes = {}
          /\ DOMAIN e.codes \cap DOMAIN n.codes = {}
      BY <1>1 DEF Forest, IsHeap, Apart
    <3> QED
      BY <1>4, <3>1
  <2>3. Apart(Merged(h))
    BY <1>2, <2>2 DEF Apart, Forest, IsHeap
  <2> QED
    BY <2>1, <2>3 DEF IsHeap
<1>6. \A x : x \in S <=> \E e \in Merged(h) : x \in DOMAIN e.codes
  BY <1>1, <1>2, <1>4 DEF Forest
<1>7. ASSUME NEW e \in Merged(h), NEW x \in DOMAIN e.codes, NEW y \in DOMAIN e.codes,
             x # y, IsPrefix(e.codes[x], e.codes[y])
      PROVE  FALSE
  <2>1. CASE e \in h
    BY <1>7, <2>1 DEF Forest
  <2>2. CASE e = j
    <3>1. /\ l.codes \in [DOMAIN l.codes -> Seq({0, 1})]
          /\ n.codes \in [DOMAIN n.codes -> Seq({0, 1})]
      BY <1>3, NodeFacts
    <3>2. PICK b \in {0, 1}, u \in Seq({0, 1}) :
            /\ e.codes[x] = <<b>> \o u
            /\ \/ b = 0 /\ x \in DOMAIN l.codes /\ u = l.codes[x]
               \/ b = 1 /\ x \in DOMAIN n.codes /\ u = n.codes[x]
      <4>1. CASE x \in DOMAIN l.codes
        BY <1>4, <2>2, <3>1, <4>1
      <4>2. CASE x \in DOMAIN n.codes
        BY <1>4, <2>2, <3>1, <4>2
      <4> QED
        BY <1>4, <2>2, <4>1, <4>2
    <3>3. PICK c \in {0, 1}, v \in Seq({0, 1}) :
            /\ e.codes[y] = <<c>> \o v
            /\ \/ c = 0 /\ y \in DOMAIN l.codes /\ v = l.codes[y]
               \/ c = 1 /\ y \in DOMAIN n.codes /\ v = n.codes[y]
      <4>1. CASE y \in DOMAIN l.codes
        BY <1>4, <2>2, <3>1, <4>1
      <4>2. CASE y \in DOMAIN n.codes
        BY <1>4, <2>2, <3>1, <4>2
      <4> QED
        BY <1>4, <2>2, <4>1, <4>2
    <3>4. b = c /\ IsPrefix(u, v)
      BY SMTT(30), <1>7, <3>2, <3>3, PrefixBehind
    <3> QED
      BY <1>1, <1>7, <3>2, <3>3, <3>4 DEF Forest
  <2> QED
    BY <1>2, <2>1, <2>2
<1> QED
  BY <1>2, <1>5, <1>6, <1>7 DEF Forest

-----------------------------------------------------------------------------
(***************************************************************************)
(* Compression                                                             *)
(***************************************************************************)

\* The blob's fields, and the forests on the way from its table to the tree.
BlobOK ==
  /\ payload \in Seq(Symbols)
  /\ length = Len(payload)
  /\ table = Frequencies(payload)
  /\ phase \in {"compress", "decompress", "done"}
  /\ phase # "done" => payload # <<>>

HeapOK == IF payload = <<>> THEN heap = {} ELSE Forest(heap, DOMAIN table)

Growth ==
  /\ forests \in Seq(SUBSET Nodes) /\ forests # <<>>
  /\ forests[1] = Leaves(table)
  /\ \A k \in 1 .. Len(forests) - 1 :
       ~ Built(forests[k]) /\ forests[k + 1] = Merged(forests[k])

\* The decoder goes the same way and meets the same last forest.
LastForest == forests[Len(forests)]

Regrowth ==
  /\ payload # <<>> => Forest(LastForest, DOMAIN table)
  /\ phase = "compress" => heap = LastForest
  /\ phase = "decompress" =>
       /\ \E k \in 1 .. Len(forests) : heap = forests[k]
       /\ Built(LastForest)

LEMMA TableSymbols ==
  ASSUME BlobOK
  PROVE  /\ DOMAIN table = Range(payload) /\ DOMAIN table \in SUBSET Nat
         /\ table \in [DOMAIN table -> Nat]
         /\ \A i \in 1 .. length : payload[i] \in DOMAIN table
         /\ payload # <<>> => DOMAIN table # {} /\ length \in Nat \ {0}
<1>1. payload \in Seq(Nat) /\ length \in Nat
  <2>1. payload \in Seq(Symbols) /\ length = Len(payload)
    BY DEF BlobOK
  <2>2. \A i \in 1 .. Len(payload) : payload[i] \in Nat
    <3>1. Symbols \in SUBSET Nat
      BY HuffmanAssumption
    <3>2. \A i \in 1 .. Len(payload) : payload[i] \in Symbols
      BY <2>1
    <3> QED
      BY <3>1, <3>2
  <2>3. payload \in [1 .. Len(payload) -> Nat] /\ Len(payload) \in Nat
    BY <2>1, <2>2
  <2> QED
    BY <2>1, <2>3
<1>2. table \in [Range(payload) -> Nat] /\ Range(payload) \in SUBSET Nat
  BY <1>1, FrequencyTypes DEF BlobOK
<1>3. \A i \in 1 .. length : payload[i] \in Range(payload)
  BY <1>1 DEF Range, BlobOK
<1>4. payload # <<>> => length # 0
  BY <1>1 DEF BlobOK
<1>5. length # 0 => Range(payload) # {}
  BY <1>1, <1>3
<1> QED
  BY <1>1, <1>2, <1>3, <1>4, <1>5

LEMMA LeavesOfTable ==
  ASSUME BlobOK, payload # <<>>
  PROVE  Forest(Leaves(table), DOMAIN table)
  BY TableSymbols, ForestLeaves

LEMMA ForestInit == HuffmanInit => BlobOK /\ HeapOK /\ Growth /\ Regrowth
<1> SUFFICES ASSUME NEW data \in Payloads, HuffmanStart(data)
             PROVE  BlobOK /\ HeapOK /\ Growth /\ Regrowth
  BY DEF HuffmanInit
<1>1. BlobOK
  BY HuffmanAssumption DEF HuffmanStart, BlobOK
<1>2. HeapOK
  <2>1. CASE payload = <<>>
    <3>1. Range(payload) = {}
      BY <2>1 DEF Range
    <3> QED
      BY <1>1, <2>1, <3>1, TableSymbols DEF HuffmanStart, HeapOK, Leaves, BlobOK
  <2>2. CASE payload # <<>>
    BY <1>1, <2>2, LeavesOfTable DEF HuffmanStart, HeapOK, BlobOK
  <2> QED
    BY <2>1, <2>2
<1>3. Leaves(table) \in SUBSET Nodes
  <2>1. CASE payload # <<>>
    BY <1>1, <2>1, LeavesOfTable DEF Forest, IsHeap
  <2>2. CASE payload = <<>>
    <3>1. Range(payload) = {}
      BY <2>2 DEF Range
    <3> QED
      BY <1>1, <3>1, TableSymbols DEF Leaves
  <2> QED
    BY <2>1, <2>2
<1>4. forests = <<Leaves(table)>> /\ heap = Leaves(table)
  BY DEF HuffmanStart
<1>5. Growth
  BY <1>3, <1>4 DEF Growth
<1>6. Regrowth
  BY <1>1, <1>4, LeavesOfTable DEF Regrowth, LastForest, HuffmanStart
<1> QED
  BY <1>1, <1>2, <1>5, <1>6

LEMMA ForestStep ==
  BlobOK /\ HeapOK /\ Growth /\ Regrowth /\ [HuffmanNext]_huffmanVars
    => (BlobOK /\ HeapOK /\ Growth /\ Regrowth)'
<1> SUFFICES ASSUME BlobOK, HeapOK, Growth, Regrowth, [HuffmanNext]_huffmanVars
             PROVE  (BlobOK /\ HeapOK /\ Growth /\ Regrowth)'
  OBVIOUS
<1>0. CASE UNCHANGED huffmanVars
  BY <1>0 DEF huffmanVars, blob, decoder, BlobOK, HeapOK, Growth, Regrowth, LastForest
<1>1. CASE Merge
  <2>1. /\ phase # "done" /\ ~ Built(heap) /\ heap' = Merged(heap)
        /\ UNCHANGED <<payload, length, table, phase>>
    BY <1>1 DEF Merge, blob
  <2>2. Forest(heap', DOMAIN table)
    BY <2>1, ForestMerged DEF HeapOK, BlobOK
  <2>3. BlobOK' /\ HeapOK'
    BY <2>1, <2>2 DEF BlobOK, HeapOK
  <2>4. CASE phase = "compress"
    <3>1. /\ forests' = Append(forests, heap') /\ heap = forests[Len(forests)]
          /\ heap' \in SUBSET Nodes /\ forests \in Seq(SUBSET Nodes)
          /\ Len(forests) \in Nat \ {0}
      BY <1>1, <2>2, <2>4 DEF Merge, Regrowth, LastForest, Growth, Forest, IsHeap
    <3>2. /\ forests' \in Seq(SUBSET Nodes) /\ forests' # <<>>
          /\ Len(forests') = Len(forests) + 1
          /\ \A k \in 1 .. Len(forests) : forests'[k] = forests[k]
          /\ forests'[Len(forests) + 1] = heap'
      BY <3>1, AppendProperties
    <3>3. ASSUME NEW k \in 1 .. Len(forests') - 1
          PROVE  ~ Built(forests'[k]) /\ forests'[k + 1] = Merged(forests'[k])
      <4>1. CASE k = Len(forests)
        BY <2>1, <3>1, <3>2, <4>1
      <4>2. CASE k # Len(forests)
        <5>1. k \in 1 .. Len(forests) - 1 /\ k \in 1 .. Len(forests)
                /\ k + 1 \in 1 .. Len(forests)
          BY <3>1, <3>2, <4>2
        <5> QED
          BY <3>2, <5>1 DEF Growth
      <4> QED
        BY <4>1, <4>2
    <3>4. forests'[1] = Leaves(table')
      BY <2>1, <3>1, <3>2 DEF Growth
    <3>5. LastForest' = heap'
      BY <3>2 DEF LastForest
    <3>6. Growth'
      BY <3>2, <3>3, <3>4 DEF Growth
    <3>7. Regrowth'
      BY <2>1, <2>2, <2>4, <3>5 DEF Regrowth
    <3> QED
      BY <2>3, <3>6, <3>7
  <2>5. CASE phase = "decompress"
    <3>1. UNCHANGED forests
      BY <1>1, <2>5 DEF Merge
    <3>2. PICK k \in 1 .. Len(forests) : heap = forests[k]
      BY <2>5 DEF Regrowth, LastForest
    <3>3. k # Len(forests)
      BY <2>1, <2>5, <3>2 DEF Regrowth, LastForest
    <3>4. k \in 1 .. Len(forests) - 1 /\ k + 1 \in 1 .. Len(forests)
      BY <3>3 DEF Growth
    <3>5. heap' = forests[k + 1]
      BY <2>1, <3>2, <3>4 DEF Growth
    <3> QED
      BY <2>1, <2>3, <2>5, <3>1, <3>4, <3>5 DEF Growth, Regrowth, LastForest
  <2> QED
    BY <2>1, <2>4, <2>5 DEF BlobOK
<1>2. CASE Encode
  BY <1>2 DEF Encode, blob, decoder, BlobOK, HeapOK, Growth, Regrowth, LastForest
<1>3. CASE HandOver
  <2>1. /\ phase = "compress" /\ Built(heap) /\ phase' = "decompress"
        /\ heap' = Leaves(table) /\ UNCHANGED <<payload, length, table, forests>>
    BY <1>3 DEF HandOver, blob
  <2>2. BlobOK' /\ Forest(heap', DOMAIN table)
    BY <2>1, LeavesOfTable DEF BlobOK
  <2>3. 1 \in 1 .. Len(forests) /\ heap' = forests[1]
    BY <2>1 DEF Growth
  <2>4. Regrowth'
    BY <2>1, <2>3 DEF Regrowth, LastForest
  <2> QED
    BY <2>1, <2>2, <2>4 DEF HeapOK, Growth, BlobOK
<1>4. CASE DecodeLeaf \/ DecodeBit
  <2>1. /\ phase = "decompress" /\ phase' \in {"decompress", "done"}
        /\ UNCHANGED <<payload, length, table, heap, forests>>
    BY <1>4 DEF DecodeLeaf, DecodeBit, blob
  <2> QED
    BY <2>1 DEF BlobOK, HeapOK, Growth, Regrowth, LastForest
<1> QED
  BY <1>0, <1>1, <1>2, <1>3, <1>4 DEF HuffmanNext

\* For every payload, in every tree of compress and decompress: no code is the
\* beginning of another.
THEOREM CodesPrefixFree == HuffmanSpec => []PrefixFree
<1>1. HeapOK => PrefixFree
  BY DEF HeapOK, Forest, PrefixFree
<1> QED
  BY <1>1, ForestInit, ForestStep, PTL DEF HuffmanSpec

-----------------------------------------------------------------------------
(***************************************************************************)
(* Decompression                                                           *)
(***************************************************************************)

\* The code of a symbol in the last forest, once that is a tree.
RootCodes == (CHOOSE n \in LastForest : TRUE).codes
FinalCode(x) == IF RootCodes[x] = <<>> THEN <<0>> ELSE RootCodes[x]

\* A tree's codes: one for each symbol, and none empty.
LEMMA TreeCodes ==
  ASSUME BlobOK, payload # <<>>, Regrowth, Built(LastForest)
  PROVE  /\ RootCodes \in [DOMAIN table -> Seq({0, 1})]
         /\ \A x, y \in DOMAIN table :
              x # y => ~ IsPrefix(RootCodes[x], RootCodes[y])
         /\ \A x \in DOMAIN table :
              FinalCode(x) \in Seq({0, 1}) /\ Len(FinalCode(x)) \in Nat \ {0}
<1>1. Forest(LastForest, DOMAIN table)
  BY DEF Regrowth
<1>2. PICK n \in LastForest : \A e \in LastForest : e = n
  BY <1>1 DEF Forest, Built
<1>3. (CHOOSE e \in LastForest : TRUE) = n /\ RootCodes = n.codes
  BY <1>2 DEF RootCodes
<1>4. n \in Nodes
  BY <1>1 DEF Forest, IsHeap
<1>5. DOMAIN n.codes = DOMAIN table
  BY <1>1, <1>2 DEF Forest
<1>6. n.codes \in [DOMAIN table -> Seq({0, 1})]
  BY <1>4, <1>5, NodeFacts
<1>7. \A x, y \in DOMAIN table : x # y => ~ IsPrefix(n.codes[x], n.codes[y])
  BY <1>1, <1>5 DEF Forest
<1>8. ASSUME NEW x \in DOMAIN table
      PROVE  FinalCode(x) \in Seq({0, 1}) /\ Len(FinalCode(x)) \in Nat \ {0}
  <2>1. RootCodes[x] \in Seq({0, 1})
    BY <1>3, <1>6
  <2>2. <<0>> \in Seq({0, 1}) /\ Len(<<0>>) = 1
    OBVIOUS
  <2>3. RootCodes[x] # <<>> => Len(RootCodes[x]) \in Nat \ {0}
    BY <2>1
  <2>4. CASE RootCodes[x] = <<>>
    BY <2>2, <2>4 DEF FinalCode
  <2>5. CASE RootCodes[x] # <<>>
    BY <2>1, <2>3, <2>5 DEF FinalCode
  <2> QED
    BY <2>4, <2>5
<1> QED
  BY <1>3, <1>6, <1>7, <1>8

\* What Encode and DecodeBit use is that tree.
LEMMA SameTree ==
  ASSUME Growth, Regrowth, phase \in {"compress", "decompress"}, Built(heap)
  PROVE  /\ heap = LastForest /\ Built(LastForest)
         /\ Codes = RootCodes
         /\ \A x : Code(x) = FinalCode(x)
<1>1. heap = LastForest
  <2>1. CASE phase = "compress"
    BY <2>1 DEF Regrowth
  <2>2. CASE phase = "decompress"
    <3>1. PICK k \in 1 .. Len(forests) : heap = forests[k]
      BY <2>2 DEF Regrowth
    <3>2. ~ (k \in 1 .. Len(forests) - 1)
      BY <3>1 DEF Growth
    <3>3. Len(forests) \in Nat
      BY DEF Growth
    <3>4. k = Len(forests)
      BY <3>2, <3>3
    <3> QED
      BY <3>1, <3>4 DEF LastForest
  <2> QED
    BY <2>1, <2>2
<1>2. Codes = RootCodes
  BY <1>1 DEF Codes, RootCodes
<1> QED
  BY <1>1, <1>2 DEF Code, FinalCode

\* Between the k-th cut and the next is the code of x.
Encoded(k, x) ==
  /\ cuts[k + 1] = cuts[k] + Len(FinalCode(x))
  /\ \A j \in 1 .. Len(FinalCode(x)) : bits[cuts[k] + j] = FinalCode(x)[j]

\* bits is made of the codes of the payload, from cut to cut.
CutsOK ==
  phase # "done" =>
    /\ cuts \in Seq(Nat) /\ cuts[1] = 0 /\ bits \in Seq({0, 1})
    /\ Len(cuts) \in 1 .. length + 1
    /\ Len(cuts) > 1 => Built(LastForest)
    /\ phase = "compress" => Len(bits) = cuts[Len(cuts)]
    /\ phase = "decompress" => Len(cuts) = length + 1
    /\ \A k \in 1 .. Len(cuts) : cuts[k] <= Len(bits)
    /\ \A k \in 1 .. Len(cuts) - 1 : \A x \in DOMAIN table :
         payload[k] = x => Encoded(k, x)

\* path is a part of the code that begins at the last cut the decoder passed.
DecoderOK ==
  /\ phase = "compress" => path = <<>> /\ pos = 0 /\ result = <<>>
  /\ phase = "decompress" =>
       /\ result \in Seq(Nat) /\ Len(result) < length
       /\ \A i \in 1 .. Len(result) : result[i] = payload[i]
       /\ path \in Seq({0, 1})
       /\ pos = cuts[Len(result) + 1] + Len(path)
       /\ \A x \in DOMAIN table : payload[Len(result) + 1] = x =>
            /\ Len(path) < Len(FinalCode(x))
            /\ \A j \in 1 .. Len(path) : path[j] = FinalCode(x)[j]
  /\ phase = "done" => result = payload

Shaped == BlobOK /\ HeapOK /\ Growth /\ Regrowth

LEMMA CutsStep == Shaped /\ CutsOK /\ [HuffmanNext]_huffmanVars => CutsOK'
<1> SUFFICES ASSUME Shaped, CutsOK, [HuffmanNext]_huffmanVars
             PROVE  CutsOK'
  OBVIOUS
<1> USE DEF Shaped
\* A step that leaves bits and cuts alone, and the tree if there is one.
<1>0. ASSUME UNCHANGED <<payload, length, table, bits, cuts>>,
             phase' = phase \/ (phase = "decompress" /\ phase' = "done"),
             UNCHANGED forests \/ (phase = "compress" /\ ~ Built(LastForest))
      PROVE  CutsOK'
  <2>1. CASE UNCHANGED forests
    <3>1. \A x : FinalCode(x)' = FinalCode(x)
      BY <2>1 DEF FinalCode, RootCodes, LastForest
    <3>2. \A k, x : Encoded(k, x) => Encoded(k, x)'
      BY <1>0, <3>1 DEF Encoded
    <3>3. LastForest' = LastForest
      BY <2>1 DEF LastForest
    <3> QED
      BY <1>0, <3>2, <3>3 DEF CutsOK
  <2>2. CASE phase = "compress" /\ ~ Built(LastForest)
    <3>1. Len(cuts) = 1
      <4>1. /\ cuts \in Seq(Nat) /\ Len(cuts) \in 1 .. length + 1
            /\ ~ (Len(cuts) > 1)
        BY <2>2 DEF CutsOK
      <4>2. Len(cuts) \in Nat /\ length \in Nat
        BY <4>1 DEF BlobOK
      <4>3. \A k, n \in Nat : k \in 1 .. n + 1 /\ ~ (k > 1) => k = 1
        OBVIOUS
      <4> QED
        BY <4>1, <4>2, <4>3
    <3> QED
      BY <1>0, <2>2, <3>1 DEF CutsOK
  <2> QED
    BY <1>0, <2>1, <2>2
<1>1. CASE Merge
  <2>1. UNCHANGED <<payload, length, table, bits, cuts, phase>> /\ ~ Built(heap)
    BY <1>1 DEF Merge, blob
  <2>2. CASE phase = "compress"
    BY <1>0, <2>1, <2>2 DEF Regrowth
  <2>3. CASE phase # "compress"
    <3>1. UNCHANGED forests
      BY <1>1, <2>3 DEF Merge
    <3> QED
      BY <1>0, <2>1, <3>1
  <2> QED
    BY <2>2, <2>3
<1>2. CASE Encode
  <2> DEFINE n == Len(cuts)
             code == FinalCode(payload[n])
  <2>1. /\ phase = "compress" /\ Built(heap) /\ n <= length
        /\ bits' = bits \o Code(payload[n])
        /\ cuts' = Append(cuts, Len(bits'))
        /\ UNCHANGED <<payload, length, table, phase, forests>>
    BY <1>2 DEF Encode, blob
  <2>2. Code(payload[n]) = code /\ Built(LastForest)
    BY <2>1, SameTree
  <2>3. n \in Nat \ {0} /\ n \in 1 .. length /\ payload # <<>> /\ length \in Nat
    BY <2>1 DEF CutsOK, BlobOK
  <2>4. code \in Seq({0, 1}) /\ Len(code) \in Nat \ {0}
    BY <2>2, <2>3, TableSymbols, TreeCodes
  <2>5. /\ bits \in Seq({0, 1}) /\ cuts \in Seq(Nat) /\ Len(bits) = cuts[n]
        /\ cuts[1] = 0
    BY <2>1 DEF CutsOK
  <2>6. bits' = bits \o code
    BY <2>1, <2>2
  <2> HIDE DEF code
  <2>7. bits' \in Seq({0, 1}) /\ Len(bits') = Len(bits) + Len(code)
    BY <2>4, <2>5, <2>6, ConcatProperties
  <2>8. /\ \A i \in 1 .. Len(bits) : bits'[i] = bits[i]
        /\ \A i \in 1 .. Len(code) : bits'[Len(bits) + i] = code[i]
    <3>1. \A i \in 1 .. Len(bits) + Len(code) :
            bits'[i] = IF i <= Len(bits) THEN bits[i] ELSE code[i - Len(bits)]
      BY <2>4, <2>5, <2>6, ConcatProperties
    <3>2. Len(bits) \in Nat
      BY <2>5
    <3> QED
      BY SMTT(30), <2>4, <3>1, <3>2
  <2>9. /\ Len(bits) \in Nat /\ Len(bits') \in Nat
        /\ cuts' \in Seq(Nat) /\ Len(cuts') = n + 1
        /\ \A k \in 1 .. n : cuts'[k] = cuts[k]
        /\ cuts'[n + 1] = Len(bits')
    BY <2>1, <2>5, <2>7, AppendProperties
  <2>10. \A x : FinalCode(x)' = FinalCode(x)
    BY <2>1 DEF FinalCode, RootCodes, LastForest
  <2>11. \A k \in 1 .. n : cuts[k] <= Len(bits) /\ cuts[k] \in Nat
    BY <2>1, <2>5 DEF CutsOK
  <2>12. ASSUME NEW k \in 1 .. n + 1
         PROVE  cuts'[k] <= Len(bits')
    <3>1. CASE k = n + 1
      BY <2>9, <3>1
    <3>2. CASE k # n + 1
      <4>1. k \in 1 .. n
        BY <2>3, <3>2
      <4> QED
        BY <2>4, <2>7, <2>9, <2>11, <4>1
    <3> QED
      BY <3>1, <3>2
  <2>13. ASSUME NEW k \in 1 .. n, NEW x \in DOMAIN table, payload[k] = x
         PROVE  Encoded(k, x)'
    <3>1. CASE k = n
      <4>1. FinalCode(x) = code
        BY <2>13, <3>1 DEF code
      <4> QED
        BY <2>3, <2>4, <2>5, <2>7, <2>8, <2>9, <2>10, <3>1, <4>1 DEF Encoded
    <3>2. CASE k # n
      <4>1. k \in 1 .. n - 1 /\ k + 1 \in 1 .. n
        BY <2>3, <3>2
      <4>2. Encoded(k, x)
        BY <2>1, <2>13, <4>1 DEF CutsOK
      <4>3. Len(FinalCode(x)) \in Nat
        BY <2>2, <2>3, TreeCodes
      <4>4. ASSUME NEW j \in 1 .. Len(FinalCode(x))
            PROVE  bits'[cuts[k] + j] = bits[cuts[k] + j]
        <5>1. cuts[k] + j \in 1 .. Len(bits)
          <6>1. cuts[k + 1] = cuts[k] + Len(FinalCode(x))
            BY <4>2 DEF Encoded
          <6>2. cuts[k] \in Nat /\ cuts[k + 1] <= Len(bits)
            BY <2>11, <4>1
          <6>3. \A p, l, b \in Nat : p + l <= b => \A i \in 1 .. l : p + i \in 1 .. b
            OBVIOUS
          <6>4. Len(bits) \in Nat
            BY <2>9
          <6>5. cuts[k] + Len(FinalCode(x)) <= Len(bits)
            BY <6>1, <6>2
          <6> QED
            BY <4>3, <6>2, <6>3, <6>4, <6>5
        <5> QED
          BY <2>8, <5>1
      <4> QED
        BY <2>9, <2>10, <4>1, <4>2, <4>4 DEF Encoded
    <3> QED
      BY <3>1, <3>2
  <2>14. Built(LastForest)'
    BY <2>1, <2>2 DEF LastForest
  <2>15. n + 1 \in 1 .. length + 1 /\ cuts'[1] = 0
    BY <2>3, <2>5, <2>9
  <2>16. (n + 1) - 1 = n
    BY <2>3
  <2> QED
    BY <2>1, <2>7, <2>9, <2>12, <2>13, <2>14, <2>15, <2>16 DEF CutsOK
<1>3. CASE HandOver
  <2>1. /\ phase = "compress" /\ Built(heap) /\ Len(cuts) > length
        /\ bits' = bits \o Padding(Len(bits)) /\ phase' = "decompress"
        /\ UNCHANGED <<payload, length, table, cuts, forests>>
    BY <1>3 DEF HandOver, blob
  <2>2. /\ bits \in Seq({0, 1}) /\ Len(bits) \in Nat /\ length \in Nat
        /\ Len(cuts) = length + 1 /\ Built(LastForest) /\ payload # <<>>
    BY <2>1, SameTree DEF CutsOK, BlobOK
  <2>3. Padding(Len(bits)) \in Seq({0, 1})
    <3>1. ByteBits \in Nat \ {0}
      BY HuffmanAssumption
    <3>2. Len(bits) % ByteBits \in 0 .. ByteBits - 1
      BY <2>2, <3>1
    <3>3. (ByteBits - (Len(bits) % ByteBits)) % ByteBits \in Nat
      BY <3>1, <3>2
    <3> QED
      BY <3>3 DEF Padding
  <2>4. /\ bits' \in Seq({0, 1}) /\ Len(bits') >= Len(bits) /\ Len(bits') \in Nat
        /\ \A i \in 1 .. Len(bits) : bits'[i] = bits[i]
    BY <2>1, <2>2, <2>3, ConcatProperties
  <2>5. \A x : FinalCode(x)' = FinalCode(x)
    BY <2>1 DEF FinalCode, RootCodes, LastForest
  <2>6. /\ cuts \in Seq(Nat)
        /\ \A k \in 1 .. Len(cuts) : cuts[k] <= Len(bits) /\ cuts[k] \in Nat
    BY <2>1 DEF CutsOK
  <2>7. ASSUME NEW k \in 1 .. Len(cuts) - 1, NEW x \in DOMAIN table, payload[k] = x
        PROVE  Encoded(k, x)'
    <3>1. Encoded(k, x)
      BY <2>1, <2>7 DEF CutsOK
    <3>2. k \in 1 .. Len(cuts) /\ k + 1 \in 1 .. Len(cuts)
      BY <2>2
    <3>3. Len(FinalCode(x)) \in Nat
      BY <2>2, TreeCodes
    <3>4. ASSUME NEW j \in 1 .. Len(FinalCode(x))
          PROVE  bits'[cuts[k] + j] = bits[cuts[k] + j]
      <4>1. cuts[k] + j \in 1 .. Len(bits)
        BY SMTT(30), <2>2, <2>6, <3>1, <3>2, <3>3 DEF Encoded
      <4> QED
        BY <2>4, <4>1
    <3> QED
      BY <2>1, <2>5, <3>1, <3>4 DEF Encoded
  <2>8. Built(LastForest)'
    BY <2>1, <2>2 DEF LastForest
  <2>9. \A k \in 1 .. Len(cuts) : cuts[k] <= Len(bits')
    BY <2>2, <2>4, <2>6
  <2> QED
    BY <2>1, <2>2, <2>4, <2>7, <2>8, <2>9 DEF CutsOK
<1>4. CASE DecodeLeaf \/ DecodeBit
  <2>1. /\ phase = "decompress" /\ phase' \in {"decompress", "done"}
        /\ UNCHANGED <<payload, length, table, bits, cuts, forests>>
    BY <1>4 DEF DecodeLeaf, DecodeBit, blob
  <2> QED
    BY <1>0, <2>1
<1>5. CASE UNCHANGED huffmanVars
  BY <1>0, <1>5 DEF huffmanVars, blob
<1> QED
  BY <1>1, <1>2, <1>3, <1>4, <1>5 DEF HuffmanNext

LEMMA CutsInit == HuffmanInit => CutsOK /\ DecoderOK
<1> SUFFICES ASSUME NEW data \in Payloads, HuffmanStart(data), BlobOK
             PROVE  CutsOK /\ DecoderOK
  BY ForestInit DEF HuffmanInit
<1>1. cuts = <<0>> /\ bits = <<>> /\ path = <<>> /\ pos = 0 /\ result = <<>>
        /\ (phase = "done" <=> payload = <<>>) /\ phase \in {"compress", "done"}
  BY DEF HuffmanStart
<1>2. cuts \in Seq(Nat) /\ Len(cuts) = 1 /\ cuts[1] = 0 /\ bits \in Seq({0, 1})
        /\ Len(bits) = 0
  BY <1>1
<1>3. length \in Nat
  BY DEF BlobOK
<1> QED
  BY <1>1, <1>2, <1>3 DEF CutsOK, DecoderOK

\* The bit at pos goes on with the code of the next symbol.
LEMMA NextBit ==
  ASSUME Shaped, CutsOK, DecoderOK, phase = "decompress", Built(heap), ~ IsLeaf
  PROVE  LET x == payload[Len(result) + 1]
             way == Append(path, bits[pos + 1])
         IN  /\ x \in DOMAIN table /\ Codes[x] = FinalCode(x)
             /\ Codes[x] \in Seq({0, 1}) /\ way \in Seq({0, 1})
             /\ Len(way) = Len(path) + 1 /\ Len(way) <= Len(Codes[x])
             /\ \A j \in 1 .. Len(way) : way[j] = Codes[x][j]
             /\ cuts[Len(result) + 2] = cuts[Len(result) + 1] + Len(Codes[x])
<1> USE DEF Shaped
<1> DEFINE x == payload[Len(result) + 1]
           way == Append(path, bits[pos + 1])
           n == Len(result) + 1
<1>1. n \in 1 .. length /\ n \in Nat /\ payload # <<>> /\ length \in Nat
  BY DEF DecoderOK, BlobOK
<1>2. x \in DOMAIN table
  BY <1>1, TableSymbols
<1>3. Built(LastForest) /\ Codes = RootCodes /\ Code(x) = FinalCode(x)
  BY SameTree
<1>4. FinalCode(x) = Codes[x] /\ Codes[x] \in Seq({0, 1}) /\ Len(Codes[x]) \in Nat
  <2>1. Codes[x] # <<>>
    BY <1>2 DEF IsLeaf
  <2> QED
    BY <1>1, <1>2, <1>3, <2>1, TreeCodes DEF FinalCode
<1>5. Encoded(n, x)
  <2>1. Len(cuts) = length + 1
    BY DEF CutsOK
  <2>2. n \in 1 .. Len(cuts) - 1
    BY <1>1, <2>1
  <2> QED
    BY <1>2, <2>2 DEF CutsOK
<1>6. /\ path \in Seq({0, 1}) /\ Len(path) < Len(FinalCode(x)) /\ Len(path) \in Nat
      /\ \A j \in 1 .. Len(path) : path[j] = FinalCode(x)[j]
      /\ pos = cuts[n] + Len(path)
  BY <1>2 DEF DecoderOK
<1>7. cuts[n] \in Nat
  BY <1>1 DEF CutsOK
<1> HIDE DEF x
<1>8. bits[pos + 1] = Codes[x][Len(path) + 1]
  <2>1. Len(path) + 1 \in 1 .. Len(FinalCode(x))
    BY <1>4, <1>6
  <2>2. bits[cuts[n] + (Len(path) + 1)] = FinalCode(x)[Len(path) + 1]
    BY <1>5, <2>1 DEF Encoded
  <2>3. cuts[n] + (Len(path) + 1) = pos + 1
    <3>1. \A i, k \in Nat : i + (k + 1) = (i + k) + 1
      OBVIOUS
    <3>2. cuts[n] \in Nat /\ Len(path) \in Nat /\ pos = cuts[n] + Len(path)
      BY <1>6, <1>7
    <3> QED
      BY <3>1, <3>2
  <2> QED
    BY <1>4, <2>2, <2>3
<1>9. Codes[x][Len(path) + 1] \in {0, 1}
  BY <1>4, <1>6
<1>10. /\ way \in Seq({0, 1}) /\ Len(way) = Len(path) + 1
       /\ \A j \in 1 .. Len(path) : way[j] = path[j]
       /\ way[Len(path) + 1] = bits[pos + 1]
  BY <1>6, <1>8, <1>9, AppendProperties
<1> HIDE DEF way
<1>11. \A j \in 1 .. Len(way) : way[j] = Codes[x][j]
  <2> SUFFICES ASSUME NEW j \in 1 .. Len(way)
               PROVE  way[j] = Codes[x][j]
    OBVIOUS
  <2>1. CASE j = Len(path) + 1
    BY <1>8, <1>10, <2>1
  <2>2. CASE j # Len(path) + 1
    <3>1. j \in 1 .. Len(path)
      BY <1>6, <1>10, <2>2
    <3> QED
      BY <1>4, <1>6, <1>10, <3>1
  <2> QED
    BY <2>1, <2>2
<1>12. Len(way) <= Len(Codes[x])
  BY <1>4, <1>6, <1>10
<1>13. cuts[Len(result) + 2] = cuts[n] + Len(Codes[x])
  <2>1. Len(result) + 2 = n + 1
    BY <1>1 DEF DecoderOK
  <2> QED
    BY <1>4, <1>5, <2>1 DEF Encoded
<1> QED
  BY <1>2, <1>4, <1>10, <1>11, <1>12, <1>13 DEF x, way

\* So a symbol is found where its code ends, and there alone.
LEMMA Hits ==
  ASSUME Shaped, CutsOK, DecoderOK, phase = "decompress", Built(heap), ~ IsLeaf
  PROVE  LET x == payload[Len(result) + 1]
             way == Append(path, bits[pos + 1])
         IN  /\ DOMAIN Codes = DOMAIN table
             /\ Len(way) = Len(Codes[x]) => {y \in DOMAIN Codes : Codes[y] = way} = {x}
             /\ Len(way) < Len(Codes[x]) => {y \in DOMAIN Codes : Codes[y] = way} = {}
<1> USE DEF Shaped
<1> DEFINE x == payload[Len(result) + 1]
           way == Append(path, bits[pos + 1])
<1>1. /\ x \in DOMAIN table
      /\ Codes[x] \in Seq({0, 1}) /\ way \in Seq({0, 1})
      /\ Len(way) <= Len(Codes[x])
      /\ \A j \in 1 .. Len(way) : way[j] = Codes[x][j]
  BY NextBit
<1> HIDE DEF x, way
<1>2. IsPrefix(way, Codes[x])
  BY <1>1, PrefixPointwise
<1>3. /\ Codes \in [DOMAIN table -> Seq({0, 1})]
      /\ \A y, z \in DOMAIN table : y # z => ~ IsPrefix(Codes[y], Codes[z])
  BY SameTree, TreeCodes DEF BlobOK
<1>4. ASSUME NEW y \in DOMAIN Codes, Codes[y] = way
      PROVE  y = x
  BY <1>1, <1>2, <1>3, <1>4
<1>5. Len(way) = Len(Codes[x]) => Codes[x] = way
  BY <1>1, SeqEqual
<1>6. Len(way) < Len(Codes[x]) => Codes[x] # way
  BY <1>1
<1> QED
  BY <1>1, <1>3, <1>4, <1>5, <1>6 DEF x, way

LEMMA DecoderStep ==
  Shaped /\ CutsOK /\ DecoderOK /\ [HuffmanNext]_huffmanVars => DecoderOK'
<1> SUFFICES ASSUME Shaped, CutsOK, DecoderOK, [HuffmanNext]_huffmanVars
             PROVE  DecoderOK'
  OBVIOUS
<1> USE DEF Shaped
<1>0. ASSUME UNCHANGED <<payload, length, table, phase, path, pos, result>>,
             phase = "decompress" => UNCHANGED <<cuts, forests>>
      PROVE  DecoderOK'
  <2>1. phase = "decompress" => \A x : FinalCode(x)' = FinalCode(x)
    BY <1>0 DEF FinalCode, RootCodes, LastForest
  <2> QED
    BY <1>0, <2>1 DEF DecoderOK
<1>1. CASE Merge
  BY <1>0, <1>1 DEF Merge, blob, decoder
<1>2. CASE Encode
  BY <1>0, <1>2 DEF Encode, blob, decoder
<1>3. CASE HandOver
  <2>1. /\ phase = "compress" /\ Built(heap) /\ phase' = "decompress"
        /\ UNCHANGED <<payload, length, table, path, pos, result, cuts, forests>>
    BY <1>3 DEF HandOver, blob, decoder
  <2>2. /\ path = <<>> /\ pos = 0 /\ result = <<>> /\ payload # <<>>
        /\ Built(LastForest) /\ cuts[1] = 0 /\ length \in Nat \ {0}
    BY <2>1, SameTree, TableSymbols DEF DecoderOK, CutsOK, BlobOK
  <2>3. \A x : FinalCode(x)' = FinalCode(x)
    BY <2>1 DEF FinalCode, RootCodes, LastForest
  <2>4. \A x \in DOMAIN table : Len(FinalCode(x)) \in Nat \ {0}
    BY <2>2, TreeCodes
  <2>5. Len(<<>>) = 0 /\ <<>> \in Seq(Nat) /\ <<>> \in Seq({0, 1})
    OBVIOUS
  <2> QED
    BY <2>1, <2>2, <2>3, <2>4, <2>5 DEF DecoderOK
<1>4. CASE DecodeLeaf
  <2>1. /\ phase = "decompress" /\ Built(heap) /\ IsLeaf /\ phase' = "done"
        /\ UNCHANGED <<payload, length, table>>
    BY <1>4 DEF DecodeLeaf, blob
  <2>2. PICK z \in DOMAIN Codes : result' = [i \in 1 .. length |-> z]
    BY <1>4 DEF DecodeLeaf
  <2>3. /\ Codes \in [DOMAIN table -> Seq({0, 1})]
        /\ \A x, y \in DOMAIN table : x # y => ~ IsPrefix(Codes[x], Codes[y])
    BY <2>1, SameTree, TreeCodes DEF BlobOK
  <2>4. PICK x \in DOMAIN table : Codes[x] = <<>>
    BY <2>1 DEF IsLeaf
  <2>5. \A y \in DOMAIN table : IsPrefix(Codes[x], Codes[y])
    <3>1. <<>> \in Seq({0, 1}) /\ Len(<<>>) = 0
      OBVIOUS
    <3>2. \A y \in DOMAIN table : Codes[y] \in Seq({0, 1}) /\ Len(Codes[y]) >= 0
      BY <2>3
    <3> QED
      BY <2>4, <3>1, <3>2, PrefixPointwise
  <2>6. \A y \in DOMAIN table : y = z
    BY <2>2, <2>3, <2>5
  <2>7. \A i \in 1 .. length : payload[i] = z
    BY <2>6, TableSymbols
  <2>8. payload = [i \in 1 .. length |-> payload[i]]
    BY DEF BlobOK
  <2>9. result' = payload
    BY <2>2, <2>7, <2>8
  <2> QED
    BY <2>1, <2>9 DEF DecoderOK
<1>5. CASE DecodeBit
  <2> DEFINE x == payload[Len(result) + 1]
             way == Append(path, bits[pos + 1])
             hit == {y \in DOMAIN Codes : Codes[y] = way}
  <2>1. /\ phase = "decompress" /\ Built(heap) /\ ~ IsLeaf /\ pos' = pos + 1
        /\ IF hit = {}
             THEN path' = way /\ result' = result
             ELSE path' = <<>> /\ \E y \in hit : result' = Append(result, y)
        /\ phase' = IF Len(result') = length \/ pos' = Len(bits) THEN "done" ELSE phase
        /\ UNCHANGED <<payload, length, table, bits, cuts, forests>>
    BY <1>5 DEF DecodeBit, blob
  <2>2. /\ x \in DOMAIN table /\ Codes[x] = FinalCode(x)
        /\ Codes[x] \in Seq({0, 1}) /\ way \in Seq({0, 1})
        /\ Len(way) = Len(path) + 1 /\ Len(way) <= Len(Codes[x])
        /\ \A j \in 1 .. Len(way) : way[j] = Codes[x][j]
        /\ cuts[Len(result) + 2] = cuts[Len(result) + 1] + Len(Codes[x])
    BY <2>1, NextBit
  <2>3. /\ Len(way) = Len(Codes[x]) => hit = {x}
        /\ Len(way) < Len(Codes[x]) => hit = {}
    BY <2>1, Hits
  <2>4. /\ result \in Seq(Nat) /\ Len(result) \in Nat /\ Len(result) < length
        /\ \A i \in 1 .. Len(result) : result[i] = payload[i]
        /\ Len(path) \in Nat /\ pos = cuts[Len(result) + 1] + Len(path)
        /\ length \in Nat /\ x \in Nat /\ payload # <<>>
    BY <2>1, <2>2, TableSymbols DEF DecoderOK, BlobOK
  <2>5. /\ Len(cuts) = length + 1 /\ Len(bits) \in Nat
        /\ \A k \in 1 .. length + 1 : cuts[k] \in Nat /\ cuts[k] <= Len(bits)
    BY <2>1 DEF CutsOK
  <2>6. \A y : FinalCode(y)' = FinalCode(y)
    BY <2>1 DEF FinalCode, RootCodes, LastForest
  <2> HIDE DEF x, way, hit
  <2>7. Len(way) \in Nat /\ Len(Codes[x]) \in Nat
    BY <2>2
  <2>8. /\ cuts[Len(result) + 1] \in Nat /\ cuts[Len(result) + 2] \in Nat
        /\ cuts[Len(result) + 2] <= Len(bits)
    BY <2>4, <2>5
  <2>9. CASE Len(way) < Len(Codes[x])
    <3>1. path' = way /\ result' = result
      BY <2>1, <2>3, <2>9
    <3>2. pos' = cuts[Len(result) + 1] + Len(way)
      BY SMTT(30), <2>1, <2>2, <2>4, <2>8
    <3>3. pos' # Len(bits) /\ Len(result') # length
      BY SMTT(30), <2>2, <2>4, <2>7, <2>8, <2>9, <3>1, <3>2
    <3>4. phase' = "decompress"
      BY <2>1, <3>3
    <3>5. \A y \in DOMAIN table : payload[Len(result) + 1] = y =>
            Len(way) < Len(FinalCode(y)) /\ \A j \in 1 .. Len(way) : way[j] = FinalCode(y)[j]
      BY <2>2, <2>9 DEF x
    <3> QED
      BY <2>1, <2>2, <2>4, <2>6, <3>1, <3>2, <3>4, <3>5 DEF DecoderOK
  <2>10. CASE Len(way) = Len(Codes[x])
    <3>1. path' = <<>> /\ result' = Append(result, x)
      BY <2>1, <2>3, <2>10
    <3>2. /\ result' \in Seq(Nat) /\ Len(result') = Len(result) + 1
          /\ \A i \in 1 .. Len(result) : result'[i] = result[i]
          /\ result'[Len(result) + 1] = x
      BY <2>4, <3>1, AppendProperties
    <3>3. \A i \in 1 .. Len(result') : result'[i] = payload[i]
      <4> SUFFICES ASSUME NEW i \in 1 .. Len(result')
                   PROVE  result'[i] = payload[i]
        OBVIOUS
      <4>1. CASE i = Len(result) + 1
        BY <3>2, <4>1 DEF x
      <4>2. CASE i # Len(result) + 1
        <5>1. i \in 1 .. Len(result)
          BY <2>4, <3>2, <4>2
        <5> QED
          BY <2>4, <3>2, <5>1
      <4> QED
        BY <4>1, <4>2
    <3>4. pos' = cuts[Len(result) + 2]
      BY SMTT(30), <2>1, <2>2, <2>4, <2>7, <2>8, <2>10
    <3>5. CASE Len(result') = length
      <4>1. phase' = "done"
        BY <2>1, <3>5
      <4>2. payload \in Seq(Nat) /\ Len(payload) = length
        <5>1. payload \in Seq(Symbols) /\ Len(payload) = length
          BY DEF BlobOK
        <5>2. \A i \in 1 .. length : payload[i] \in Nat
          BY TableSymbols
        <5>3. payload \in [1 .. length -> Nat]
          BY <5>1, <5>2
        <5> QED
          BY <2>4, <5>1, <5>3
      <4>3. result' = payload
        BY <3>2, <3>3, <3>5, <4>2, SeqEqual
      <4> QED
        BY <2>1, <4>1, <4>3 DEF DecoderOK
    <3>6. CASE Len(result') # length
      <4> DEFINE y == payload[Len(result) + 2]
      <4>1. Len(result) + 2 \in 1 .. length /\ Len(result) + 3 \in 1 .. length + 1
        BY <2>4, <3>2, <3>6
      <4>2. y \in DOMAIN table
        BY <4>1, TableSymbols
      <4>3. Built(LastForest)
        BY <2>1, SameTree
      <4>4. Len(FinalCode(y)) \in Nat \ {0}
        BY <2>4, <4>2, <4>3, TreeCodes
      <4>5. Encoded(Len(result) + 2, y)
        <5>1. Len(result) + 2 \in 1 .. Len(cuts) - 1
          BY <2>4, <2>5, <4>1
        <5> QED
          BY <2>1, <4>2, <5>1 DEF CutsOK
      <4> HIDE DEF y
      <4>6. cuts[(Len(result) + 2) + 1] = cuts[Len(result) + 2] + Len(FinalCode(y))
        BY <4>5 DEF Encoded
      <4>7. (Len(result) + 2) + 1 = Len(result) + 3
        BY <2>4
      <4>8. cuts[Len(result) + 3] \in Nat /\ cuts[Len(result) + 3] <= Len(bits)
        BY <2>5, <4>1
      <4>9. pos' < Len(bits)
        BY <2>5, <2>8, <3>4, <4>4, <4>6, <4>7, <4>8
      <4>10. phase' = "decompress"
        BY <2>1, <2>5, <2>8, <3>4, <3>6, <4>9
      <4>11. Len(result') + 1 = Len(result) + 2 /\ Len(result') < length
        BY <2>4, <3>2, <3>6
      <4>12. Len(<<>>) = 0 /\ <<>> \in Seq({0, 1})
        OBVIOUS
      <4>13. pos' = cuts'[Len(result') + 1] + Len(path')
        BY <2>1, <2>8, <3>1, <3>4, <4>11, <4>12
      <4>14. \A z \in DOMAIN table : payload[Len(result') + 1] = z =>
               Len(FinalCode(z)) \in Nat \ {0}
        BY <2>4, <4>3, TreeCodes
      <4> QED
        BY <2>1, <2>6, <3>1, <3>2, <3>3, <4>10, <4>11, <4>12, <4>13, <4>14
        DEF DecoderOK
    <3> QED
      BY <3>5, <3>6
  <2> QED
    BY <2>2, <2>7, <2>9, <2>10
<1>6. CASE UNCHANGED huffmanVars
  BY <1>0, <1>6 DEF huffmanVars, blob, decoder
<1> QED
  BY <1>1, <1>2, <1>3, <1>4, <1>5, <1>6 DEF HuffmanNext

\* decompress inverts compress, for payloads of any length over any symbols.
THEOREM RoundTrip == HuffmanSpec => []DecodesBack
<1>1. HuffmanInit => Shaped
  BY ForestInit DEF Shaped
<1>2. Shaped /\ [HuffmanNext]_huffmanVars => Shaped'
  BY ForestStep DEF Shaped
<1>3. Shaped /\ DecoderOK => DecodesBack
  <2> SUFFICES ASSUME Shaped, DecoderOK
               PROVE  IsPrefix(result, payload) /\ (phase = "done" => result = payload)
    BY DEF DecodesBack
  <2>1. payload \in Seq(Nat) /\ Len(payload) \in Nat /\ length = Len(payload)
    <3>1. payload \in Seq(Symbols) /\ Len(payload) = length
      BY DEF Shaped, BlobOK
    <3>2. \A i \in 1 .. length : payload[i] \in Nat
      BY TableSymbols DEF Shaped
    <3>3. payload \in [1 .. length -> Nat] /\ length \in Nat
      BY <3>1, <3>2
    <3> QED
      BY <3>1, <3>3
  <2>2. /\ result \in Seq(Nat) /\ Len(result) <= length
        /\ \A i \in 1 .. Len(result) : result[i] = payload[i]
    <3>1. phase \in {"compress", "decompress", "done"}
      BY DEF Shaped, BlobOK
    <3>2. CASE phase = "compress"
      BY <2>1, <3>2 DEF DecoderOK
    <3>3. CASE phase = "decompress"
      BY <2>1, <3>3 DEF DecoderOK
    <3>4. CASE phase = "done"
      BY <2>1, <3>4 DEF DecoderOK
    <3> QED
      BY <3>1, <3>2, <3>3, <3>4
  <2>3. IsPrefix(result, payload)
    BY <2>1, <2>2, PrefixPointwise
  <2> QED
    BY <2>3 DEF DecoderOK
<1> QED
  BY <1>1, <1>2, <1>3, CutsInit, CutsStep, DecoderStep, PTL DEF HuffmanSpec

-----------------------------------------------------------------------------
(***************************************************************************)
(* Sums and powers                                                         *)
(***************************************************************************)

\* Induction, for a set instead of a formula.
LEMMA CountUp ==
  ASSUME NEW A, 0 \in A, \A n \in Nat : n \in A => n + 1 \in A
  PROVE  \A n \in Nat : n \in A
<1> DEFINE Missing == {n \in Nat : n \notin A}
<1>1. ASSUME Missing # {}
      PROVE  FALSE
  <2>1. Missing \in SUBSET Nat
    OBVIOUS
  <2>2. PICK n \in Missing : \A k \in Missing : n <= k
    <3> HIDE DEF Missing
    <3> QED
      BY <1>1, <2>1, LeastNatural
  <2>3. n \in Nat /\ n # 0 /\ n \notin A
    BY <2>2
  <2>4. n - 1 \in Nat /\ (n - 1) + 1 = n
    BY <2>3
  <2>5. n - 1 \notin A
    BY <2>3, <2>4
  <2>6. n - 1 \in Missing
    BY <2>4, <2>5
  <2> QED
    BY <2>2, <2>3, <2>6
<1> QED
  BY <1>1

\* A finite set belongs to A if each subset does of which all the subsets
\* smaller by one do.
LEMMA SetInduction ==
  ASSUME NEW S, IsFiniteSet(S), NEW A,
         \A T \in SUBSET S : (\A x \in T : T \ {x} \in A) => T \in A
  PROVE  \A T \in SUBSET S : T \in A
<1> DEFINE Missing == {T \in SUBSET S : T \notin A}
           Sizes == {Cardinality(T) : T \in Missing}
<1>1. \A T \in SUBSET S : IsFiniteSet(T) /\ Cardinality(T) \in Nat
  BY FS_Subset, FS_CardinalityType
<1>2. ASSUME NEW U \in Missing
      PROVE  FALSE
  <2>1. Sizes \in SUBSET Nat /\ Sizes # {}
    BY <1>1, <1>2
  <2>2. PICK n \in Sizes : \A k \in Sizes : n <= k
    <3> HIDE DEF Sizes
    <3> QED
      BY <2>1, LeastNatural
  <2>3. PICK T \in Missing : Cardinality(T) = n
    BY <2>2
  <2>4. PICK x \in T : T \ {x} \notin A
    BY <2>3
  <2>5. T \ {x} \in SUBSET S
    BY <2>3
  <2>6. T \ {x} \in Missing
    BY <2>4, <2>5
  <2>7. Cardinality(T \ {x}) \in Sizes
    BY <2>6
  <2>8. Cardinality(T \ {x}) = n - 1
    BY <1>1, <2>3, <2>4, FS_RemoveElement
  <2>9. n \in Nat
    BY <2>1, <2>2
  <2> HIDE DEF Sizes
  <2> QED
    BY <2>2, <2>7, <2>8, <2>9
<1> QED
  BY <1>2

\* g has the sums of f over all subsets of S, as SumFunctionOnSet adds up.
Totals(f, S, g) ==
  g = [T \in SUBSET S |->
         IF T = {} THEN 0
         ELSE f[CHOOSE x \in T : TRUE] + g[T \ {CHOOSE x \in T : TRUE}]]

\* The same for the subsets of at most n members.
SmallSets(S, n) == {T \in SUBSET S : Cardinality(T) <= n}

SmallTotals(f, S, n, g) ==
  g = [T \in SmallSets(S, n) |->
         IF T = {} THEN 0
         ELSE f[CHOOSE x \in T : TRUE] + g[T \ {CHOOSE x \in T : TRUE}]]

LEMMA SmallSetsShrink ==
  ASSUME NEW S, IsFiniteSet(S), NEW n \in Nat,
         NEW T \in SmallSets(S, n + 1), NEW x \in T
  PROVE  T \ {x} \in SmallSets(S, n)
<1>1. T \in SUBSET S /\ Cardinality(T) <= n + 1
  BY DEF SmallSets
<1>2. IsFiniteSet(T) /\ Cardinality(T) \in Nat
  BY <1>1, FS_Subset, FS_CardinalityType
<1>3. Cardinality(T \ {x}) = Cardinality(T) - 1
  BY <1>2, FS_RemoveElement
<1>4. T \ {x} \in SUBSET S
  BY <1>1
<1> QED
  BY <1>1, <1>2, <1>3, <1>4 DEF SmallSets

LEMMA SmallTotalsExist ==
  ASSUME NEW S, IsFiniteSet(S), NEW f
  PROVE  \A n \in Nat : \E g : SmallTotals(f, S, n, g)
<1> DEFINE A == {n \in Nat : \E g : SmallTotals(f, S, n, g)}
<1>1. 0 \in A
  <2>1. \A T \in SmallSets(S, 0) : T = {}
    <3> SUFFICES ASSUME NEW T \in SUBSET S, Cardinality(T) <= 0
                 PROVE  T = {}
      BY DEF SmallSets
    <3>1. IsFiniteSet(T) /\ Cardinality(T) \in Nat
      BY FS_Subset, FS_CardinalityType
    <3> QED
      BY <3>1, FS_EmptySet
  <2>2. SmallTotals(f, S, 0, [T \in SmallSets(S, 0) |-> 0])
    BY <2>1 DEF SmallTotals
  <2> QED
    BY <2>2
<1>2. ASSUME NEW n \in Nat, n \in A
      PROVE  n + 1 \in A
  <2>1. PICK g : SmallTotals(f, S, n, g)
    BY <1>2
  <2> DEFINE h == [T \in SmallSets(S, n + 1) |->
                     IF T = {} THEN 0
                     ELSE f[CHOOSE x \in T : TRUE]
                            + g[T \ {CHOOSE x \in T : TRUE}]]
  <2>2. \A T \in SmallSets(S, n) : T \in SmallSets(S, n + 1)
    <3> SUFFICES ASSUME NEW T \in SUBSET S, Cardinality(T) <= n
                 PROVE  Cardinality(T) <= n + 1
      BY DEF SmallSets
    <3>1. Cardinality(T) \in Nat
      BY FS_Subset, FS_CardinalityType
    <3> QED
      BY <3>1
  <2>3. \A T \in SmallSets(S, n) : h[T] = g[T]
    BY <2>1, <2>2 DEF SmallTotals
  <2>4. \A T \in SmallSets(S, n + 1) : T # {} =>
          T \ {CHOOSE x \in T : TRUE} \in SmallSets(S, n)
    BY <1>2, SmallSetsShrink
  <2>5. SmallTotals(f, S, n + 1, h)
    <3>1. \A T \in SmallSets(S, n + 1) : T # {} =>
            h[T \ {CHOOSE x \in T : TRUE}] = g[T \ {CHOOSE x \in T : TRUE}]
      BY <2>3, <2>4
    <3>2. PICK k : k = h
      OBVIOUS
    <3>3. \A T \in SmallSets(S, n + 1) :
            k[T] = IF T = {} THEN 0
                   ELSE f[CHOOSE x \in T : TRUE]
                          + k[T \ {CHOOSE x \in T : TRUE}]
      <4> SUFFICES ASSUME NEW T \in SmallSets(S, n + 1)
                   PROVE  k[T] = IF T = {} THEN 0
                                 ELSE f[CHOOSE x \in T : TRUE]
                                        + k[T \ {CHOOSE x \in T : TRUE}]
        OBVIOUS
      <4>1. k[T] = IF T = {} THEN 0
                   ELSE f[CHOOSE x \in T : TRUE]
                          + g[T \ {CHOOSE x \in T : TRUE}]
        BY <3>2
      <4>2. T # {} =>
              k[T \ {CHOOSE x \in T : TRUE}] = g[T \ {CHOOSE x \in T : TRUE}]
        <5> HIDE DEF h
        <5> QED
          BY <3>1, <3>2
      <4> HIDE DEF h
      <4> QED
        BY <4>1, <4>2
    <3>4. k = [T \in SmallSets(S, n + 1) |-> k[T]]
      BY <3>2
    <3>5. SmallTotals(f, S, n + 1, k)
      BY <3>3, <3>4, Zenon DEF SmallTotals
    <3> QED
      BY <3>2, <3>5
  <2> QED
    BY <1>2, <2>5
<1> HIDE DEF A
<1>3. \A n \in Nat : n \in A
  BY <1>1, <1>2, CountUp
<1> QED
  BY <1>3 DEF A

\* There are such sums, by induction on the number of members.
LEMMA TotalsExist ==
  ASSUME NEW S, IsFiniteSet(S), NEW f
  PROVE  \E g : Totals(f, S, g)
<1>1. Cardinality(S) \in Nat
  BY FS_CardinalityType
<1>2. SmallSets(S, Cardinality(S)) = SUBSET S
  BY FS_Subset DEF SmallSets
<1>3. PICK g : SmallTotals(f, S, Cardinality(S), g)
  BY <1>1, SmallTotalsExist
<1> QED
  BY <1>2, <1>3 DEF SmallTotals, Totals

\* A set's sum is the same among the subsets of a larger one.
LEMMA TotalsAgree ==
  ASSUME NEW S, IsFiniteSet(S), NEW f, NEW g, Totals(f, S, g),
         NEW U \in SUBSET S, NEW h, Totals(f, U, h)
  PROVE  g[U] = h[U]
<1> DEFINE A == {T \in SUBSET U : g[T] = h[T]}
<1>1. ASSUME NEW T \in SUBSET U, \A x \in T : T \ {x} \in A
      PROVE  T \in A
  <2>1. /\ g[T] = IF T = {} THEN 0
                  ELSE f[CHOOSE x \in T : TRUE]
                         + g[T \ {CHOOSE x \in T : TRUE}]
        /\ h[T] = IF T = {} THEN 0
                  ELSE f[CHOOSE x \in T : TRUE]
                         + h[T \ {CHOOSE x \in T : TRUE}]
    BY DEF Totals
  <2>2. CASE T = {}
    BY <2>1, <2>2
  <2>3. CASE T # {}
    <3>1. (CHOOSE x \in T : TRUE) \in T
      BY <2>3
    <3>2. g[T \ {CHOOSE x \in T : TRUE}] = h[T \ {CHOOSE x \in T : TRUE}]
      BY <1>1, <3>1
    <3> QED
      BY <2>1, <2>3, <3>2
  <2> QED
    BY <2>2, <2>3
<1>2. IsFiniteSet(U)
  BY FS_Subset
<1> HIDE DEF A
<1>3. \A T \in SUBSET U : T \in A
  BY <1>1, <1>2, SetInduction
<1> QED
  BY <1>3 DEF A

\* SumFunctionOnSet is that sum.
LEMMA SumIsTotal ==
  ASSUME NEW S, IsFiniteSet(S), NEW f
  PROVE  \E g : Totals(f, S, g) /\ SumFunctionOnSet(f, S) = g[S]
<1> DEFINE g == CHOOSE h : Totals(f, S, h)
<1>1. Totals(f, S, g)
  BY TotalsExist
<1>2. SumFunctionOnSet(f, S) = g[S]
  BY Zenon DEF SumFunctionOnSet, FoldFunctionOnSet, MapThenFoldSet, Totals
<1> QED
  BY <1>1, <1>2

LEMMA SumOfNone ==
  ASSUME NEW f
  PROVE  SumFunctionOnSet(f, {}) = 0
<1>1. PICK g : Totals(f, {}, g) /\ SumFunctionOnSet(f, {}) = g[{}]
  BY FS_EmptySet, SumIsTotal
<1> QED
  BY <1>1 DEF Totals

LEMMA SumChosen ==
  ASSUME NEW S, IsFiniteSet(S), NEW f, S # {}
  PROVE  \E x \in S :
           SumFunctionOnSet(f, S) = f[x] + SumFunctionOnSet(f, S \ {x})
<1> DEFINE x == CHOOSE y \in S : TRUE
           U == S \ {x}
<1>1. x \in S /\ U \in SUBSET S
  OBVIOUS
<1>2. IsFiniteSet(U)
  BY <1>1, FS_Subset
<1>3. PICK g : Totals(f, S, g) /\ SumFunctionOnSet(f, S) = g[S]
  BY SumIsTotal
<1>4. g[S] = f[x] + g[U]
  BY <1>3 DEF Totals
<1> HIDE DEF U
<1>5. PICK h : Totals(f, U, h) /\ SumFunctionOnSet(f, U) = h[U]
  BY <1>2, SumIsTotal
<1>6. g[U] = h[U]
  BY <1>1, <1>3, <1>5, TotalsAgree
<1> QED
  BY <1>1, <1>3, <1>4, <1>5, <1>6 DEF U

\* What the rest of the proof knows a sum by, and when it is a number.
Total(f, S) == SumFunctionOnSet(f, S)

Counts(f, S) == IsFiniteSet(S) /\ \A x \in S : f[x] \in Nat

LEMMA CountsFewer ==
  ASSUME NEW S, NEW f, Counts(f, S), NEW T \in SUBSET S
  PROVE  Counts(f, T) /\ IsFiniteSet(T)
<1>1. IsFiniteSet(T)
  BY FS_Subset DEF Counts
<1> QED
  BY <1>1 DEF Counts

LEMMA TotalOfNone ==
  ASSUME NEW f
  PROVE  Total(f, {}) = 0
  BY SumOfNone DEF Total

LEMMA TotalNatural ==
  ASSUME NEW S, NEW f, Counts(f, S)
  PROVE  Total(f, S) \in Nat
<1> DEFINE A == {T \in SUBSET S : Total(f, T) \in Nat}
<1>0. IsFiniteSet(S)
  BY DEF Counts
<1>1. ASSUME NEW T \in SUBSET S, \A x \in T : T \ {x} \in A
      PROVE  T \in A
  <2>1. CASE T = {}
    BY <2>1, TotalOfNone
  <2>2. CASE T # {}
    <3>1. IsFiniteSet(T)
      BY <1>0, FS_Subset
    <3>2. PICK x \in T : Total(f, T) = f[x] + Total(f, T \ {x})
      BY <2>2, <3>1, SumChosen DEF Total
    <3>3. Total(f, T \ {x}) \in Nat /\ f[x] \in Nat
      BY <1>1 DEF Counts
    <3> QED
      BY <3>2, <3>3
  <2> QED
    BY <2>1, <2>2
<1> HIDE DEF A
<1>2. \A T \in SUBSET S : T \in A
  BY <1>0, <1>1, SetInduction
<1> QED
  BY <1>2 DEF A

\* Any member can be taken out first.
LEMMA TotalWithout ==
  ASSUME NEW S, NEW f, Counts(f, S), NEW y \in S
  PROVE  /\ Total(f, S) = f[y] + Total(f, S \ {y})
         /\ Total(f, S \ {y}) \in Nat /\ Total(f, S) \in Nat
<1> DEFINE A == {T \in SUBSET S :
                   \A x \in T : Total(f, T) = f[x] + Total(f, T \ {x})}
<1>0. IsFiniteSet(S)
  BY DEF Counts
<1>1. \A T \in SUBSET S : Total(f, T) \in Nat /\ IsFiniteSet(T)
  BY CountsFewer, TotalNatural
<1>2. \A x \in S : f[x] \in Nat
  BY DEF Counts
<1>3. ASSUME NEW T \in SUBSET S, \A x \in T : T \ {x} \in A
      PROVE  T \in A
  <2> SUFFICES ASSUME NEW x \in T
               PROVE  Total(f, T) = f[x] + Total(f, T \ {x})
    OBVIOUS
  <2>1. PICK c \in T : Total(f, T) = f[c] + Total(f, T \ {c})
    BY <1>1, SumChosen DEF Total
  <2>2. CASE x = c
    BY <2>1, <2>2
  <2>3. CASE x # c
    <3>1. PICK V \in SUBSET S : V = (T \ {c}) \ {x} /\ V = (T \ {x}) \ {c}
      OBVIOUS
    <3>2. Total(f, T \ {c}) = f[x] + Total(f, V)
      <4>1. T \ {c} \in A /\ x \in T \ {c}
        BY <1>3, <2>3
      <4> QED
        BY <3>1, <4>1
    <3>3. Total(f, T \ {x}) = f[c] + Total(f, V)
      <4>1. T \ {x} \in A /\ c \in T \ {x}
        BY <1>3, <2>3
      <4> QED
        BY <3>1, <4>1
    <3>4. f[x] \in Nat /\ f[c] \in Nat /\ Total(f, V) \in Nat
      BY <1>1, <1>2
    <3> QED
      BY <2>1, <3>2, <3>3, <3>4
  <2> QED
    BY <2>2, <2>3
<1> HIDE DEF A
<1>4. S \in A
  BY <1>0, <1>3, SetInduction
<1>5. S \ {y} \in SUBSET S
  OBVIOUS
<1> QED
  BY <1>1, <1>4, <1>5 DEF A

\* Adding up term by term.
LEMMA TotalPlus ==
  ASSUME NEW S, NEW f, NEW g, NEW h, Counts(f, S), Counts(g, S),
         \A x \in S : h[x] = f[x] + g[x]
  PROVE  Total(h, S) = Total(f, S) + Total(g, S)
<1> DEFINE A == {T \in SUBSET S : Total(h, T) = Total(f, T) + Total(g, T)}
<1>0. IsFiniteSet(S)
  BY DEF Counts
<1>1. \A x \in S : f[x] \in Nat /\ g[x] \in Nat
  BY DEF Counts
<1>2. Counts(h, S)
  BY <1>0, <1>1 DEF Counts
<1>3. ASSUME NEW T \in SUBSET S, \A x \in T : T \ {x} \in A
      PROVE  T \in A
  <2>1. CASE T = {}
    BY <2>1, TotalOfNone
  <2>2. CASE T # {}
    <3>1. PICK x \in T : TRUE
      BY <2>2
    <3>2. Counts(f, T) /\ Counts(g, T) /\ Counts(h, T)
      BY <1>2, CountsFewer
    <3>3. /\ Total(f, T) = f[x] + Total(f, T \ {x})
          /\ Total(f, T \ {x}) \in Nat
      BY <3>2, TotalWithout
    <3>4. /\ Total(g, T) = g[x] + Total(g, T \ {x})
          /\ Total(g, T \ {x}) \in Nat
      BY <3>2, TotalWithout
    <3>5. Total(h, T) = h[x] + Total(h, T \ {x})
      BY <3>2, TotalWithout
    <3>6. Total(h, T \ {x}) = Total(f, T \ {x}) + Total(g, T \ {x})
      BY <1>3, <3>1
    <3>7. h[x] = f[x] + g[x] /\ f[x] \in Nat /\ g[x] \in Nat
      BY <1>1
    <3> QED
      BY <3>3, <3>4, <3>5, <3>6, <3>7
  <2> QED
    BY <2>1, <2>2
<1> HIDE DEF A
<1>4. \A T \in SUBSET S : T \in A
  BY <1>0, <1>3, SetInduction
<1> QED
  BY <1>4 DEF A

LEMMA TotalTimes ==
  ASSUME NEW S, NEW f, NEW h, NEW q \in Nat, Counts(f, S),
         \A x \in S : h[x] = q * f[x]
  PROVE  Total(h, S) = q * Total(f, S)
<1> DEFINE A == {T \in SUBSET S : Total(h, T) = q * Total(f, T)}
<1>0. IsFiniteSet(S)
  BY DEF Counts
<1>1. \A x \in S : f[x] \in Nat
  BY DEF Counts
<1>2. Counts(h, S)
  <2>1. \A x \in S : q * f[x] \in Nat
    BY <1>1
  <2> QED
    BY <1>0, <2>1 DEF Counts
<1>3. ASSUME NEW T \in SUBSET S, \A x \in T : T \ {x} \in A
      PROVE  T \in A
  <2>1. CASE T = {}
    BY <2>1, TotalOfNone
  <2>2. CASE T # {}
    <3>1. PICK x \in T : TRUE
      BY <2>2
    <3>2. Counts(f, T) /\ Counts(h, T)
      BY <1>2, CountsFewer
    <3>3. /\ Total(f, T) = f[x] + Total(f, T \ {x})
          /\ Total(f, T \ {x}) \in Nat
      BY <3>2, TotalWithout
    <3>4. Total(h, T) = h[x] + Total(h, T \ {x})
      BY <3>2, TotalWithout
    <3>5. Total(h, T \ {x}) = q * Total(f, T \ {x})
      BY <1>3, <3>1
    <3>6. h[x] = q * f[x] /\ f[x] \in Nat
      BY <1>1
    <3>7. \A m1, m2 \in Nat : q * (m1 + m2) = q * m1 + q * m2
      BY Z3
    <3> QED
      BY <3>3, <3>4, <3>5, <3>6, <3>7
  <2> QED
    BY <2>1, <2>2
<1> HIDE DEF A
<1>4. \A T \in SUBSET S : T \in A
  BY <1>0, <1>3, SetInduction
<1> QED
  BY <1>4 DEF A

LEMMA TotalSame ==
  ASSUME NEW S, NEW f, NEW g, Counts(f, S), \A x \in S : g[x] = f[x]
  PROVE  Total(g, S) = Total(f, S) /\ Counts(g, S)
<1>1. \A x \in S : g[x] = 1 * f[x]
  BY DEF Counts
<1>2. Total(g, S) = 1 * Total(f, S)
  BY <1>1, TotalTimes
<1>3. Total(f, S) \in Nat
  BY TotalNatural
<1> QED
  BY <1>2, <1>3 DEF Counts

LEMMA TotalApart ==
  ASSUME NEW S, NEW T, NEW f, Counts(f, S), Counts(f, T), S \cap T = {}
  PROVE  /\ Total(f, S \cup T) = Total(f, S) + Total(f, T)
         /\ Counts(f, S \cup T)
<1> DEFINE A == {U \in SUBSET T : Total(f, S \cup U) = Total(f, S) + Total(f, U)}
<1>0. IsFiniteSet(S) /\ IsFiniteSet(T)
  BY DEF Counts
<1>1. \A U \in SUBSET T : Counts(f, U) /\ Counts(f, S \cup U)
  <2> SUFFICES ASSUME NEW U \in SUBSET T
               PROVE  Counts(f, U) /\ Counts(f, S \cup U)
    OBVIOUS
  <2>1. Counts(f, U)
    BY CountsFewer
  <2>2. IsFiniteSet(S \cup U)
    BY <1>0, <2>1, FS_Union DEF Counts
  <2> QED
    BY <2>1, <2>2 DEF Counts
<1>2. Total(f, S) \in Nat
  BY TotalNatural
<1>3. ASSUME NEW U \in SUBSET T, \A x \in U : U \ {x} \in A
      PROVE  U \in A
  <2>1. CASE U = {}
    <3>1. S \cup U = S
      BY <2>1
    <3> QED
      BY <1>2, <2>1, <3>1, TotalOfNone
  <2>2. CASE U # {}
    <3>1. PICK x \in U : TRUE
      BY <2>2
    <3>2. /\ Total(f, U) = f[x] + Total(f, U \ {x})
          /\ Total(f, U \ {x}) \in Nat
      BY <1>1, TotalWithout
    <3>3. Total(f, S \cup U) = f[x] + Total(f, (S \cup U) \ {x})
      BY <1>1, TotalWithout
    <3>4. (S \cup U) \ {x} = S \cup (U \ {x})
      OBVIOUS
    <3>5. Total(f, S \cup (U \ {x})) = Total(f, S) + Total(f, U \ {x})
      BY <1>3, <3>1
    <3>6. f[x] \in Nat
      BY DEF Counts
    <3>7. Total(f, S \cup U) = f[x] + (Total(f, S) + Total(f, U \ {x}))
      BY <3>3, <3>4, <3>5
    <3>8. Total(f, S \cup U) = Total(f, S) + Total(f, U)
      BY <1>2, <3>2, <3>6, <3>7
    <3> QED
      BY <3>8
  <2> QED
    BY <2>1, <2>2
<1> HIDE DEF A
<1>4. \A U \in SUBSET T : U \in A
  BY <1>0, <1>3, SetInduction
<1> QED
  BY <1>1, <1>4 DEF A

-----------------------------------------------------------------------------
\* Powers of two: as many as a set has subsets.

LEMMA PowerOfTwo ==
  ASSUME NEW n \in Nat
  PROVE  /\ 2 ^ n \in Nat /\ 2 ^ 0 = 1
         /\ 2 ^ (n + 1) = 2 ^ n + 2 ^ n
<1> DEFINE S == 1 .. n
           x == n + 1
           Old == SUBSET S
           New == {T \cup {x} : T \in Old}
           b == [T \in Old |-> T \cup {x}]
<1>1. IsFiniteSet(S) /\ Cardinality(S) = n /\ x \notin S
  BY FS_Interval
<1>2. /\ IsFiniteSet(S \cup {x}) /\ Cardinality(S \cup {x}) = n + 1
  BY <1>1, FS_AddElement
<1>3. /\ IsFiniteSet(Old) /\ Cardinality(Old) = 2 ^ n
      /\ Cardinality(SUBSET (S \cup {x})) = 2 ^ (n + 1)
  BY <1>1, <1>2, FS_SUBSET
<1>4. b \in Bijection(Old, New)
  <2>1. b \in [Old -> New]
    OBVIOUS
  <2>2. \A T, U \in Old : b[T] = b[U] => T = U
    <3> SUFFICES ASSUME NEW T \in Old, NEW U \in Old, T \cup {x} = U \cup {x}
                 PROVE  T = U
      OBVIOUS
    <3>1. x \notin T /\ x \notin U
      BY <1>1
    <3> QED
      BY <3>1
  <2>3. \A V \in New : \E T \in Old : b[T] = V
    OBVIOUS
  <2>4. DOMAIN b = Old
    OBVIOUS
  <2> HIDE DEF b, Old, New
  <2> QED
    BY <2>1, <2>2, <2>3, <2>4 DEF Bijection, Injection, Surjection, IsInjective
<1>5. IsFiniteSet(New) /\ Cardinality(New) = Cardinality(Old)
  <2> HIDE DEF b, Old, New
  <2> QED
    BY <1>3, <1>4, FS_Bijection DEF ExistsBijection
<1>6. SUBSET (S \cup {x}) = Old \cup New /\ Old \cap New = {}
  <2>1. ASSUME NEW T \in SUBSET (S \cup {x})
        PROVE  T \in Old \cup New
    <3>1. CASE x \notin T
      BY <3>1
    <3>2. CASE x \in T
      <4>1. T \ {x} \in Old /\ T = (T \ {x}) \cup {x}
        BY <3>2
      <4> QED
        BY <4>1
    <3> QED
      BY <3>1, <3>2
  <2>2. Old \cup New \subseteq SUBSET (S \cup {x})
    OBVIOUS
  <2>3. Old \cap New = {}
    BY <1>1
  <2> QED
    BY <2>1, <2>2, <2>3
<1>7. Cardinality(Old) \in Nat
  BY <1>3, FS_CardinalityType
<1>8. Cardinality(Old \cup New) = Cardinality(Old) + Cardinality(New)
  <2> HIDE DEF Old, New
  <2>1. Cardinality(Old \cup New)
          = Cardinality(Old) + Cardinality(New) - Cardinality(Old \cap New)
    BY <1>3, <1>5, FS_Union
  <2>2. Cardinality(Old \cap New) = 0
    BY <1>6, FS_EmptySet
  <2> QED
    BY <1>5, <1>7, <2>1, <2>2
<1>9. 2 ^ 0 = 1
  <2>1. Cardinality(SUBSET {}) = 2 ^ 0
    BY FS_SUBSET, FS_EmptySet
  <2>2. SUBSET {} = {{}}
    OBVIOUS
  <2> QED
    BY <2>1, <2>2, FS_Singleton
<1> HIDE DEF Old, New, S, x
<1> QED
  BY <1>3, <1>5, <1>6, <1>7, <1>8, <1>9

LEMMA PowerPositive ==
  \A n \in Nat : 2 ^ n \in Nat \ {0}
<1> DEFINE A == {n \in Nat : 2 ^ n \in Nat \ {0}}
<1>1. 0 \in A
  BY PowerOfTwo
<1>2. ASSUME NEW n \in Nat, n \in A
      PROVE  n + 1 \in A
  <2>1. 2 ^ (n + 1) = 2 ^ n + 2 ^ n /\ 2 ^ n \in Nat \ {0}
    BY <1>2, PowerOfTwo
  <2>2. PICK p \in Nat \ {0} : p = 2 ^ n
    BY <2>1
  <2>3. p + p \in Nat \ {0} /\ n + 1 \in Nat
    OBVIOUS
  <2> QED
    BY <2>1, <2>2, <2>3
<1> HIDE DEF A
<1>3. \A n \in Nat : n \in A
  BY <1>1, <1>2, CountUp
<1> QED
  BY <1>3 DEF A

LEMMA PowerSplit ==
  ASSUME NEW k \in Nat
  PROVE  \A n \in Nat : 2 ^ (k + n) = 2 ^ k * 2 ^ n
<1> DEFINE A == {n \in Nat : 2 ^ (k + n) = 2 ^ k * 2 ^ n}
<1>0. 2 ^ k \in Nat
  BY PowerOfTwo
<1>1. 0 \in A
  <2>1. k + 0 = k /\ 2 ^ 0 = 1
    BY PowerOfTwo
  <2>2. 2 ^ k * 1 = 2 ^ k
    BY <1>0
  <2> QED
    BY <2>1, <2>2
<1>2. ASSUME NEW n \in Nat, n \in A
      PROVE  n + 1 \in A
  <2>1. 2 ^ (n + 1) = 2 ^ n + 2 ^ n /\ 2 ^ n \in Nat
    BY PowerOfTwo
  <2>2. k + n \in Nat /\ k + (n + 1) = (k + n) + 1
    OBVIOUS
  <2>3. 2 ^ ((k + n) + 1) = 2 ^ (k + n) + 2 ^ (k + n)
    BY <2>2, PowerOfTwo
  <2>4. 2 ^ (k + n) = 2 ^ k * 2 ^ n
    BY <1>2
  <2>5. \A p, q \in Nat : p * q + p * q = p * (q + q)
    BY Z3
  <2>6. 2 ^ (k + (n + 1)) = 2 ^ k * 2 ^ (n + 1)
    BY <1>0, <2>1, <2>2, <2>3, <2>4, <2>5
  <2> QED
    BY <1>2, <2>6
<1> HIDE DEF A
<1>3. \A n \in Nat : n \in A
  BY <1>1, <1>2, CountUp
<1> QED
  BY <1>3 DEF A

-----------------------------------------------------------------------------
(***************************************************************************)
(* Depths: S are the subtrees still without parent, d is how deep each is  *)
(* to be in the whole tree, w its weight. K is more than any depth.        *)
(***************************************************************************)

-----------------------------------------------------------------------------
(***************************************************************************)
(* Code lengths, as depths in a tree                                       *)
(***************************************************************************)

\* d is a depth for each member of S, none greater than K. A leaf at depth d
\* takes its share 2^-d of the tree, here times 2^K, and Kraft's inequality
\* says that the shares fit in one tree. Its burden is its weight times d.
Share(d, S, K) == [x \in S |-> 2 ^ (K - d[x])]
Burden(w, d, S) == [x \in S |-> w[x] * d[x]]

Fits(d, S, K) == Total(Share(d, S, K), S) <= 2 ^ K

\* S, w, d and K make sense.
Depths(w, d, S, K) ==
  /\ IsFiniteSet(S) /\ K \in Nat
  /\ d \in [S -> 0 .. K]
  /\ \A x \in S : w[x] \in Nat

LEMMA DepthsCount ==
  ASSUME NEW w, NEW d, NEW S, NEW K, Depths(w, d, S, K)
  PROVE  /\ Counts(Share(d, S, K), S) /\ Counts(Burden(w, d, S), S)
         /\ \A x \in S : /\ Share(d, S, K)[x] = 2 ^ (K - d[x])
                         /\ Share(d, S, K)[x] \in Nat \ {0}
                         /\ Burden(w, d, S)[x] = w[x] * d[x]
                         /\ d[x] \in 0 .. K /\ K - d[x] \in 0 .. K
                         /\ w[x] \in Nat
<1>1. /\ IsFiniteSet(S) /\ K \in Nat
      /\ \A x \in S : d[x] \in 0 .. K /\ w[x] \in Nat
  BY DEF Depths
<1>2. \A x \in S : K - d[x] \in 0 .. K /\ K - d[x] \in Nat
  BY <1>1
<1>3. \A x \in S : 2 ^ (K - d[x]) \in Nat \ {0}
  BY <1>2, PowerPositive
<1>4. \A x \in S : w[x] * d[x] \in Nat
  <2> SUFFICES ASSUME NEW x \in S
               PROVE  w[x] * d[x] \in Nat
    OBVIOUS
  <2>1. w[x] \in Nat /\ d[x] \in Nat
    BY <1>1
  <2> QED
    BY <2>1
<1>5. \A x \in S : /\ Share(d, S, K)[x] = 2 ^ (K - d[x])
                   /\ Burden(w, d, S)[x] = w[x] * d[x]
  BY DEF Share, Burden
<1> QED
  BY <1>1, <1>2, <1>3, <1>4, <1>5 DEF Counts

LEMMA TotalOfTwo ==
  ASSUME NEW S, NEW f, Counts(f, S), NEW x \in S, NEW y \in S, x # y
  PROVE  /\ Total(f, S) = f[x] + f[y] + Total(f, S \ {x, y})
         /\ f[x] \in Nat /\ f[y] \in Nat /\ Total(f, S \ {x, y}) \in Nat
         /\ Counts(f, S \ {x, y})
<1>1. /\ Total(f, S) = f[x] + Total(f, S \ {x})
  BY TotalWithout
<1>2. Counts(f, S \ {x}) /\ y \in S \ {x}
  BY CountsFewer
<1>3. /\ Total(f, S \ {x}) = f[y] + Total(f, (S \ {x}) \ {y})
      /\ Total(f, (S \ {x}) \ {y}) \in Nat
  BY <1>2, TotalWithout
<1>4. (S \ {x}) \ {y} = S \ {x, y}
  OBVIOUS
<1>5. f[x] \in Nat /\ f[y] \in Nat
  BY DEF Counts
<1>6. Counts(f, S \ {x, y})
  BY CountsFewer
<1> QED
  BY <1>1, <1>3, <1>4, <1>5, <1>6

\* It costs no more to have the lighter of two the deeper.
LEMMA Swapped ==
  ASSUME NEW w, NEW d, NEW S, NEW K, Depths(w, d, S, K), Fits(d, S, K),
         NEW x \in S, NEW y \in S, w[x] <= w[y], d[x] <= d[y]
  PROVE  \E e : /\ Depths(w, e, S, K) /\ Fits(e, S, K)
                /\ Total(Burden(w, e, S), S) <= Total(Burden(w, d, S), S)
                /\ e[x] = d[y] /\ e[y] = d[x]
                /\ \A z \in S \ {x, y} : e[z] = d[z]
<1>1. CASE x = y
  <2>1. Total(Burden(w, d, S), S) \in Nat
    BY DepthsCount, TotalNatural
  <2> QED
    BY <1>1, <2>1
<1>2. CASE x # y
  <2>1. PICK e : e = [d EXCEPT ![x] = d[y], ![y] = d[x]]
    OBVIOUS
  <2>2. d \in [S -> 0 .. K]
    BY DEF Depths
  <2>3. /\ e \in [S -> 0 .. K] /\ e[x] = d[y] /\ e[y] = d[x]
        /\ \A z \in S \ {x, y} : e[z] = d[z]
    BY <1>2, <2>1, <2>2
  <2>4. Depths(w, e, S, K)
    BY <2>3 DEF Depths
  <2> DEFINE V == S \ {x, y}
  <2>5. Total(Share(e, S, K), S) = Total(Share(d, S, K), S)
    <3>1. /\ Total(Share(d, S, K), S)
               = Share(d, S, K)[x] + Share(d, S, K)[y] + Total(Share(d, S, K), V)
          /\ Share(d, S, K)[x] \in Nat /\ Share(d, S, K)[y] \in Nat
          /\ Total(Share(d, S, K), V) \in Nat /\ Counts(Share(d, S, K), V)
      BY <1>2, DepthsCount, TotalOfTwo
    <3>2. Total(Share(e, S, K), S)
            = Share(e, S, K)[x] + Share(e, S, K)[y] + Total(Share(e, S, K), V)
      BY <1>2, <2>4, DepthsCount, TotalOfTwo
    <3>3. /\ Share(e, S, K)[x] = Share(d, S, K)[y]
          /\ Share(e, S, K)[y] = Share(d, S, K)[x]
          /\ \A z \in V : Share(e, S, K)[z] = Share(d, S, K)[z]
      BY <2>3 DEF Share
    <3>4. Total(Share(e, S, K), V) = Total(Share(d, S, K), V)
      BY <3>1, <3>3, TotalSame
    <3> QED
      BY <3>1, <3>2, <3>3, <3>4
  <2>6. Total(Burden(w, e, S), S) <= Total(Burden(w, d, S), S)
    <3>1. /\ Total(Burden(w, d, S), S)
               = Burden(w, d, S)[x] + Burden(w, d, S)[y] + Total(Burden(w, d, S), V)
          /\ Total(Burden(w, d, S), V) \in Nat /\ Counts(Burden(w, d, S), V)
      BY <1>2, DepthsCount, TotalOfTwo
    <3>2. Total(Burden(w, e, S), S)
            = Burden(w, e, S)[x] + Burden(w, e, S)[y] + Total(Burden(w, e, S), V)
      BY <1>2, <2>4, DepthsCount, TotalOfTwo
    <3>3. /\ Burden(w, e, S)[x] = w[x] * d[y]
          /\ Burden(w, e, S)[y] = w[y] * d[x]
          /\ Burden(w, d, S)[x] = w[x] * d[x]
          /\ Burden(w, d, S)[y] = w[y] * d[y]
          /\ \A z \in V : Burden(w, e, S)[z] = Burden(w, d, S)[z]
      BY <2>3 DEF Burden
    <3>4. Total(Burden(w, e, S), V) = Total(Burden(w, d, S), V)
      BY <3>1, <3>3, TotalSame
    <3>5. \A p, q, k, l \in Nat :
            p <= q /\ k <= l => p * l + q * k <= p * k + q * l
      <4> SUFFICES ASSUME NEW p \in Nat, NEW q \in Nat, NEW k \in Nat,
                          NEW l \in Nat, p <= q, k <= l
                   PROVE  p * l + q * k <= p * k + q * l
        OBVIOUS
      <4>1. PICK i \in Nat : q = p + i
        <5>1. q - p \in Nat /\ q = p + (q - p)
          OBVIOUS
        <5> QED
          BY <5>1
      <4>2. PICK j \in Nat : l = k + j
        <5>1. l - k \in Nat /\ l = k + (l - k)
          OBVIOUS
        <5> QED
          BY <5>1
      <4>3. i * j >= 0
        BY Z3
      <4>4. p * (k + j) + (p + i) * k + i * j = p * k + (p + i) * (k + j)
        BY Z3
      <4> QED
        BY <4>1, <4>2, <4>3, <4>4, Z3
    <3>6. /\ w[x] \in Nat /\ w[y] \in Nat /\ d[x] \in Nat /\ d[y] \in Nat
      BY <2>2 DEF Depths
    <3>7. w[x] * d[y] + w[y] * d[x] <= w[x] * d[x] + w[y] * d[y]
      BY <3>5, <3>6
    <3>8. PICK p \in Nat, q \in Nat, k \in Nat, l \in Nat :
            /\ p = w[x] * d[y] /\ q = w[y] * d[x]
            /\ k = w[x] * d[x] /\ l = w[y] * d[y]
      BY <3>6
    <3>9. p + q <= k + l
      BY <3>7, <3>8
    <3> QED
      BY <3>1, <3>2, <3>3, <3>4, <3>8, <3>9
  <2>7. Fits(e, S, K)
    BY <2>5 DEF Fits
  <2> QED
    BY <2>3, <2>4, <2>6, <2>7
<1> QED
  BY <1>1, <1>2

LEMMA DeepestOf ==
  ASSUME NEW w, NEW d, NEW S, NEW K, Depths(w, d, S, K),
         NEW V \in SUBSET S, V # {}
  PROVE  \E y \in V : \A x \in V : d[x] <= d[y]
<1>1. /\ K \in Nat /\ \A x \in S : d[x] \in 0 .. K
  BY DEF Depths
<1> DEFINE B == {K - d[x] : x \in V}
<1>2. B \in SUBSET Nat /\ B # {}
  BY <1>1
<1>3. \A x \in V : K - d[x] \in B
  OBVIOUS
<1>4. PICK k \in B : \A i \in B : k <= i
  <2> HIDE DEF B
  <2> QED
    BY <1>2, LeastNatural
<1>5. PICK y \in V : k = K - d[y]
  BY <1>4
<1>6. \A x \in V : d[x] <= d[y]
  <2> SUFFICES ASSUME NEW x \in V
               PROVE  d[x] <= d[y]
    OBVIOUS
  <2>1. K - d[y] <= K - d[x]
    BY <1>3, <1>4, <1>5
  <2>2. d[x] \in Nat /\ d[y] \in Nat
    BY <1>1
  <2> QED
    BY <1>1, <2>1, <2>2
<1> QED
  BY <1>6

\* The shares of a tree's nodes down to depth D are multiples of that of D, and
\* so is what a deeper one leaves: it can come up to D.
LEMMA Lowered ==
  ASSUME NEW w, NEW d, NEW S, NEW K, Depths(w, d, S, K), Fits(d, S, K),
         NEW x \in S, NEW D \in Nat, D <= d[x],
         \A z \in S \ {x} : d[z] <= D
  PROVE  \E e : /\ Depths(w, e, S, K) /\ Fits(e, S, K)
                /\ Total(Burden(w, e, S), S) <= Total(Burden(w, d, S), S)
                /\ e[x] = D
                /\ \A z \in S \ {x} : e[z] = d[z]
<1>1. /\ K \in Nat /\ d \in [S -> 0 .. K] /\ IsFiniteSet(S)
      /\ \A z \in S : d[z] \in 0 .. K /\ w[z] \in Nat
  BY DEF Depths
<1>2. D \in 0 .. K /\ K - D \in Nat
  BY <1>1
<1>3. PICK e : e = [d EXCEPT ![x] = D]
  OBVIOUS
<1>4. /\ e \in [S -> 0 .. K] /\ e[x] = D
      /\ \A z \in S \ {x} : e[z] = d[z]
  BY <1>1, <1>2, <1>3
<1>5. Depths(w, e, S, K)
  BY <1>4 DEF Depths
<1> DEFINE V == S \ {x}
           part == [z \in V |-> 2 ^ (D - d[z])]
<1>6. PICK q \in Nat \ {0}, b \in Nat \ {0} :
        q = 2 ^ (K - D) /\ b = 2 ^ D /\ 2 ^ K = q * b
  <2>1. (K - D) + D = K
    BY <1>1, <1>2
  <2>2. 2 ^ ((K - D) + D) = 2 ^ (K - D) * 2 ^ D
    BY <1>2, PowerSplit
  <2>3. 2 ^ (K - D) \in Nat \ {0} /\ 2 ^ D \in Nat \ {0}
    BY <1>2, PowerPositive
  <2> QED
    BY <2>1, <2>2, <2>3
<1>7. \A z \in V : part[z] \in Nat /\ Share(d, S, K)[z] = q * part[z]
  <2> SUFFICES ASSUME NEW z \in S, z # x
               PROVE  /\ 2 ^ (D - d[z]) \in Nat
                      /\ 2 ^ (K - d[z]) = q * 2 ^ (D - d[z])
    BY DEF Share
  <2>1. D - d[z] \in Nat /\ (K - D) + (D - d[z]) = K - d[z]
    BY <1>1, <1>2
  <2>2. 2 ^ ((K - D) + (D - d[z])) = 2 ^ (K - D) * 2 ^ (D - d[z])
    BY <1>2, <2>1, PowerSplit
  <2>3. 2 ^ (D - d[z]) \in Nat
    BY <2>1, PowerPositive
  <2> QED
    BY <1>6, <2>1, <2>2, <2>3
<1>8. Counts(part, V)
  <2>1. IsFiniteSet(V)
    BY <1>1, FS_Subset
  <2> QED
    BY <1>7, <2>1 DEF Counts
<1> HIDE DEF part
<1>9. PICK c \in Nat : Total(Share(d, S, K), V) = q * c
  <2>1. Total(part, V) \in Nat
    BY <1>8, TotalNatural
  <2>2. Total(Share(d, S, K), V) = q * Total(part, V)
    BY <1>7, <1>8, TotalTimes
  <2> QED
    BY <2>1, <2>2
<1>10. /\ Total(Share(d, S, K), S) = Share(d, S, K)[x] + q * c
       /\ Share(d, S, K)[x] \in Nat \ {0}
       /\ Counts(Share(d, S, K), V)
  <2>1. Total(Share(d, S, K), S) = Share(d, S, K)[x] + Total(Share(d, S, K), V)
    BY DepthsCount, TotalWithout
  <2>2. Counts(Share(d, S, K), V)
    BY DepthsCount, CountsFewer
  <2> QED
    BY <1>9, <2>1, <2>2, DepthsCount
<1>11. c + 1 <= b
  <2>1. PICK p \in Nat \ {0} : p = Share(d, S, K)[x]
    BY <1>10
  <2>2. p + q * c <= q * b
    BY <1>6, <1>10, <2>1 DEF Fits
  <2>3. ASSUME ~ (c + 1 <= b)
        PROVE  FALSE
    <3>1. PICK i \in Nat : c = b + i
      <4>1. c - b \in Nat /\ c = b + (c - b)
        BY <2>3
      <4> QED
        BY <4>1
    <3>2. q * (b + i) = q * b + q * i /\ q * i \in Nat /\ q * b \in Nat
      BY Z3
    <3> QED
      BY <2>1, <2>2, <3>1, <3>2
  <2> QED
    BY <2>3
<1>12. q * c + q <= q * b
  <2>1. PICK i \in Nat : b = c + 1 + i
    <3>1. b - (c + 1) \in Nat /\ b = c + 1 + (b - (c + 1))
      BY <1>11
    <3> QED
      BY <3>1
  <2>2. q * (c + 1 + i) = q * c + q + q * i /\ q * i \in Nat /\ q * c \in Nat
    BY Z3
  <2> QED
    BY <2>1, <2>2
<1>13. Fits(e, S, K)
  <2>1. Total(Share(e, S, K), S) = Share(e, S, K)[x] + Total(Share(e, S, K), V)
    BY <1>5, DepthsCount, TotalWithout
  <2>2. Share(e, S, K)[x] = q
    BY <1>4, <1>6 DEF Share
  <2>3. \A z \in V : Share(e, S, K)[z] = Share(d, S, K)[z]
    BY <1>4 DEF Share
  <2>4. Total(Share(e, S, K), V) = q * c
    BY <1>9, <1>10, <2>3, TotalSame
  <2>5. q * c \in Nat
    BY Z3
  <2>6. q + q * c <= q * b
    BY <1>12, <2>5
  <2> QED
    BY <1>6, <2>1, <2>2, <2>4, <2>6 DEF Fits
<1>14. Total(Burden(w, e, S), S) <= Total(Burden(w, d, S), S)
  <2>1. /\ Total(Burden(w, d, S), S) = Burden(w, d, S)[x] + Total(Burden(w, d, S), V)
        /\ Total(Burden(w, d, S), V) \in Nat
    BY DepthsCount, TotalWithout
  <2>2. Total(Burden(w, e, S), S) = Burden(w, e, S)[x] + Total(Burden(w, e, S), V)
    BY <1>5, DepthsCount, TotalWithout
  <2>3. \A z \in V : Burden(w, e, S)[z] = Burden(w, d, S)[z]
    BY <1>4 DEF Burden
  <2>4. Counts(Burden(w, d, S), V)
    BY DepthsCount, CountsFewer
  <2>5. Total(Burden(w, e, S), V) = Total(Burden(w, d, S), V)
    BY <2>3, <2>4, TotalSame
  <2>6. Burden(w, e, S)[x] = w[x] * D /\ Burden(w, d, S)[x] = w[x] * d[x]
    BY <1>4 DEF Burden
  <2>7. PICK p \in Nat, k \in Nat : p = w[x] /\ k = d[x]
    BY <1>1
  <2>8. p * D <= p * k /\ p * D \in Nat /\ p * k \in Nat
    <3>1. PICK i \in Nat : k = D + i
      <4>1. k - D \in Nat /\ k = D + (k - D)
        BY <2>7
      <4> QED
        BY <4>1
    <3>2. p * (D + i) = p * D + p * i /\ p * i \in Nat /\ p * D \in Nat
      BY Z3
    <3> QED
      BY <3>1, <3>2
  <2> QED
    BY <2>1, <2>2, <2>5, <2>6, <2>7, <2>8
<1> QED
  BY <1>4, <1>5, <1>13, <1>14

\* The two lightest can be the deepest, side by side.
LEMMA Paired ==
  ASSUME NEW w, NEW d, NEW S, NEW K, Depths(w, d, S, K), Fits(d, S, K),
         NEW x \in S, NEW y \in S, x # y,
         \A z \in S : w[x] <= w[z], \A z \in S \ {x} : w[y] <= w[z]
  PROVE  \E e : /\ Depths(w, e, S, K) /\ Fits(e, S, K)
                /\ Total(Burden(w, e, S), S) <= Total(Burden(w, d, S), S)
                /\ e[x] = e[y] /\ e[x] >= 1
<1>0. \A e, z : Depths(w, e, S, K) /\ z \in S =>
        /\ e[z] \in Nat /\ Total(Burden(w, e, S), S) \in Nat
  <2> SUFFICES ASSUME NEW e, NEW z \in S, Depths(w, e, S, K)
               PROVE  e[z] \in Nat /\ Total(Burden(w, e, S), S) \in Nat
    OBVIOUS
  <2>1. e[z] \in 0 .. K
    BY DEF Depths
  <2>2. Total(Burden(w, e, S), S) \in Nat
    BY DepthsCount, TotalNatural
  <2> QED
    BY <2>1, <2>2
<1>1. PICK b1 \in S : \A z \in S : d[z] <= d[b1]
  BY DeepestOf
<1>2. PICK d1 : /\ Depths(w, d1, S, K) /\ Fits(d1, S, K)
                /\ Total(Burden(w, d1, S), S) <= Total(Burden(w, d, S), S)
                /\ d1[x] = d[b1] /\ d1[b1] = d[x]
                /\ \A z \in S \ {x, b1} : d1[z] = d[z]
  BY <1>1, Swapped
<1>3. \A z \in S : d1[z] <= d1[x]
  <2> SUFFICES ASSUME NEW z \in S
               PROVE  d1[z] <= d1[x]
    OBVIOUS
  <2>1. d1[z] \in {d[b1], d[x], d[z]}
    BY <1>2
  <2>2. d[b1] \in Nat
    BY <1>0
  <2> QED
    BY <1>1, <1>2, <2>1, <2>2
<1>4. PICK b2 \in S \ {x} : \A z \in S \ {x} : d1[z] <= d1[b2]
  <2>1. S \ {x} \in SUBSET S /\ S \ {x} # {}
    OBVIOUS
  <2> QED
    BY <1>2, <2>1, DeepestOf
<1>5. PICK d2 : /\ Depths(w, d2, S, K) /\ Fits(d2, S, K)
                /\ Total(Burden(w, d2, S), S) <= Total(Burden(w, d1, S), S)
                /\ d2[y] = d1[b2] /\ d2[b2] = d1[y]
                /\ \A z \in S \ {y, b2} : d2[z] = d1[z]
  <2>1. b2 \in S /\ w[y] <= w[b2] /\ d1[y] <= d1[b2]
    BY <1>4
  <2> QED
    BY <1>2, <2>1, Swapped
<1>6. \A z \in S \ {x} : d2[z] <= d2[y]
  <2> SUFFICES ASSUME NEW z \in S, z # x
               PROVE  d2[z] <= d2[y]
    OBVIOUS
  <2>1. d2[z] \in {d1[b2], d1[y], d1[z]}
    BY <1>5
  <2>2. d1[b2] \in Nat
    BY <1>0, <1>2
  <2> QED
    BY <1>4, <1>5, <2>1, <2>2
<1>7. d2[y] <= d2[x]
  <2>1. d2[x] = d1[x] /\ d2[y] = d1[b2]
    BY <1>4, <1>5
  <2> QED
    BY <1>3, <1>4, <2>1
<1>8. d2[y] \in Nat
  BY <1>0, <1>5
<1>9. PICK e : /\ Depths(w, e, S, K) /\ Fits(e, S, K)
               /\ Total(Burden(w, e, S), S) <= Total(Burden(w, d2, S), S)
               /\ e[x] = d2[y]
               /\ \A z \in S \ {x} : e[z] = d2[z]
  BY <1>5, <1>6, <1>7, <1>8, Lowered
<1>10. Total(Burden(w, e, S), S) <= Total(Burden(w, d, S), S)
  <2>1. /\ Total(Burden(w, e, S), S) \in Nat
        /\ Total(Burden(w, d2, S), S) \in Nat
        /\ Total(Burden(w, d1, S), S) \in Nat
        /\ Total(Burden(w, d, S), S) \in Nat
    BY <1>0, <1>2, <1>5, <1>9
  <2> QED
    BY <1>2, <1>5, <1>9, <2>1
<1>11. e[x] = e[y]
  BY <1>9
<1>12. e[x] >= 1
  <2>1. /\ Total(Share(e, S, K), S)
             = Share(e, S, K)[x] + Share(e, S, K)[y]
                 + Total(Share(e, S, K), S \ {x, y})
        /\ Total(Share(e, S, K), S \ {x, y}) \in Nat
    BY <1>9, DepthsCount, TotalOfTwo
  <2>2. ASSUME e[x] = 0
        PROVE  FALSE
    <3>1. K \in Nat /\ K - 0 = K
      BY DEF Depths
    <3>2. Share(e, S, K)[x] = 2 ^ K /\ Share(e, S, K)[y] = 2 ^ K
      BY <1>11, <2>2, <3>1 DEF Share
    <3>3. PICK p \in Nat \ {0} : p = 2 ^ K
      BY <3>1, PowerPositive
    <3> QED
      BY <1>9, <2>1, <3>2, <3>3 DEF Fits
  <2>3. e[x] \in Nat
    BY <1>0, <1>9
  <2> QED
    BY <2>2, <2>3
<1> QED
  BY <1>9, <1>10, <1>11, <1>12

\* Two side by side become one, a level higher.
LEMMA Joined ==
  ASSUME NEW w, NEW e, NEW S, NEW K, Depths(w, e, S, K), Fits(e, S, K),
         NEW x \in S, NEW y \in S, x # y, e[x] = e[y], e[x] >= 1,
         NEW j, NEW R, j \notin S \ {x, y}, R = (S \ {x, y}) \cup {j},
         NEW v, v[j] = w[x] + w[y], \A z \in S \ {x, y} : v[z] = w[z]
  PROVE  \E c : /\ Depths(v, c, R, K) /\ Fits(c, R, K)
                /\ Total(Burden(v, c, R), R) + w[x] + w[y]
                     <= Total(Burden(w, e, S), S)
<1>1. /\ K \in Nat /\ e \in [S -> 0 .. K] /\ IsFiniteSet(S)
      /\ \A z \in S : e[z] \in 0 .. K /\ w[z] \in Nat
  BY DEF Depths
<1>2. PICK V : V = S \ {x, y}
  OBVIOUS
<1>3. V \in SUBSET S /\ j \notin V /\ R = V \cup {j} /\ R \ {j} = V /\ j \in R
  BY <1>2
<1>4. PICK D \in Nat : D = e[x] /\ D - 1 \in 0 .. K /\ K - D \in Nat
  BY <1>1
<1>5. PICK c : c = [z \in R |-> IF z = j THEN D - 1 ELSE e[z]]
  OBVIOUS
<1>6. /\ c \in [R -> 0 .. K] /\ c[j] = D - 1
      /\ \A z \in V : c[z] = e[z] /\ v[z] = w[z]
  BY <1>1, <1>2, <1>3, <1>4, <1>5
<1>7. Depths(v, c, R, K)
  <2>1. IsFiniteSet(R)
    <3>1. IsFiniteSet(V)
      BY <1>1, <1>3, FS_Subset
    <3> QED
      BY <1>3, <3>1, FS_AddElement
  <2>2. \A z \in R : v[z] \in Nat
    <3>1. v[j] \in Nat
      BY <1>1
    <3> QED
      BY <1>1, <1>3, <1>6, <3>1
  <2> QED
    BY <1>1, <1>6, <2>1, <2>2 DEF Depths
<1>8. Total(Share(c, R, K), R) = Total(Share(e, S, K), S)
  <2>1. /\ Total(Share(e, S, K), S)
             = Share(e, S, K)[x] + Share(e, S, K)[y] + Total(Share(e, S, K), V)
        /\ Total(Share(e, S, K), V) \in Nat /\ Counts(Share(e, S, K), V)
    <3>1. Counts(Share(e, S, K), S)
      BY DepthsCount
    <3> QED
      BY <1>2, <3>1, TotalOfTwo
  <2>2. Total(Share(c, R, K), R) = Share(c, R, K)[j] + Total(Share(c, R, K), V)
    BY <1>3, <1>7, DepthsCount, TotalWithout
  <2>3. \A z \in V : Share(c, R, K)[z] = Share(e, S, K)[z]
    BY <1>3, <1>6 DEF Share
  <2>4. Total(Share(c, R, K), V) = Total(Share(e, S, K), V)
    BY <2>1, <2>3, TotalSame
  <2>5. Share(c, R, K)[j] = Share(e, S, K)[x] + Share(e, S, K)[y]
    <3>1. /\ Share(e, S, K)[x] = 2 ^ (K - D) /\ Share(e, S, K)[y] = 2 ^ (K - D)
          /\ Share(c, R, K)[j] = 2 ^ (K - (D - 1))
      BY <1>3, <1>4, <1>6 DEF Share
    <3>2. K - (D - 1) = (K - D) + 1
      BY <1>1
    <3>3. 2 ^ ((K - D) + 1) = 2 ^ (K - D) + 2 ^ (K - D)
      BY <1>4, PowerOfTwo
    <3> QED
      BY <3>1, <3>2, <3>3
  <2> QED
    BY <2>1, <2>2, <2>4, <2>5
<1>9. Fits(c, R, K)
  BY <1>8 DEF Fits
<1>10. Total(Burden(v, c, R), R) + w[x] + w[y] <= Total(Burden(w, e, S), S)
  <2>1. /\ Total(Burden(w, e, S), S)
             = Burden(w, e, S)[x] + Burden(w, e, S)[y] + Total(Burden(w, e, S), V)
        /\ Total(Burden(w, e, S), V) \in Nat /\ Counts(Burden(w, e, S), V)
    <3>1. Counts(Burden(w, e, S), S)
      BY DepthsCount
    <3> QED
      BY <1>2, <3>1, TotalOfTwo
  <2>2. Total(Burden(v, c, R), R) = Burden(v, c, R)[j] + Total(Burden(v, c, R), V)
    BY <1>3, <1>7, DepthsCount, TotalWithout
  <2>3. \A z \in V : Burden(v, c, R)[z] = Burden(w, e, S)[z]
    BY <1>3, <1>6 DEF Burden
  <2>4. Total(Burden(v, c, R), V) = Total(Burden(w, e, S), V)
    BY <2>1, <2>3, TotalSame
  <2>5. PICK p \in Nat, q \in Nat, i \in Nat :
          p = w[x] /\ q = w[y] /\ D = i + 1
    <3>1. D - 1 \in Nat /\ D = (D - 1) + 1
      BY <1>4
    <3> QED
      BY <1>1, <3>1
  <2>6. /\ Burden(w, e, S)[x] = p * (i + 1) /\ Burden(w, e, S)[y] = q * (i + 1)
        /\ Burden(v, c, R)[j] = (p + q) * i
    <3>1. D - 1 = i
      BY <2>5
    <3> QED
      BY <1>3, <1>4, <1>6, <2>5, <3>1 DEF Burden
  <2>7. /\ p * (i + 1) + q * (i + 1) = (p + q) * i + p + q
        /\ (p + q) * i \in Nat
    BY Z3
  <2>8. PICK k \in Nat, rest \in Nat :
          k = (p + q) * i /\ rest = Total(Burden(w, e, S), V)
    BY <2>1, <2>7
  <2>9. Total(Burden(v, c, R), R) = k + rest
    BY <2>2, <2>4, <2>6, <2>8
  <2>10. PICK p1 \in Nat, q1 \in Nat : p1 = p * (i + 1) /\ q1 = q * (i + 1)
    OBVIOUS
  <2>11. Total(Burden(w, e, S), S) = p1 + q1 + rest /\ p1 + q1 = k + p + q
    BY <2>1, <2>6, <2>7, <2>8, <2>10
  <2> QED
    BY <2>5, <2>9, <2>11
<1> QED
  BY <1>7, <1>9, <1>10

LEMMA TotalOfOne ==
  ASSUME NEW f, NEW x, Counts(f, {x})
  PROVE  Total(f, {x}) = f[x]
<1>1. Total(f, {x}) = f[x] + Total(f, {x} \ {x})
  BY TotalWithout
<1>2. {x} \ {x} = {} /\ f[x] \in Nat
  BY DEF Counts
<1> QED
  BY <1>1, <1>2, TotalOfNone

\* Counting under other names.
LEMMA TotalRenamed ==
  ASSUME NEW S, NEW f, Counts(f, S), NEW b, NEW g,
         \A x, y \in S : b[x] = b[y] => x = y,
         \A x \in S : g[b[x]] = f[x]
  PROVE  /\ Total(g, {b[x] : x \in S}) = Total(f, S)
         /\ Counts(g, {b[x] : x \in S})
<1> DEFINE Image(T) == {b[x] : x \in T}
           A == {T \in SUBSET S : /\ Counts(g, Image(T))
                                  /\ Total(g, Image(T)) = Total(f, T)}
<1>0. IsFiniteSet(S) /\ \A x \in S : f[x] \in Nat
  BY DEF Counts
<1>1. ASSUME NEW T \in SUBSET S, \A x \in T : T \ {x} \in A
      PROVE  T \in A
  <2>1. CASE T = {}
    <3>1. Image(T) = {}
      BY <2>1
    <3>2. Counts(g, {})
      BY FS_EmptySet DEF Counts
    <3> QED
      BY <2>1, <3>1, <3>2, TotalOfNone
  <2>2. CASE T # {}
    <3>1. PICK x \in T : TRUE
      BY <2>2
    <3>2. PICK I : I = Image(T \ {x})
      OBVIOUS
    <3>3. Counts(g, I) /\ Total(g, I) = Total(f, T \ {x})
      BY <1>1, <3>1, <3>2
    <3>4. Image(T) = I \cup {b[x]} /\ b[x] \notin I
      BY <3>2
    <3>5. Counts(g, I \cup {b[x]})
      <4>1. IsFiniteSet(I \cup {b[x]})
        BY <3>3, FS_AddElement DEF Counts
      <4>2. g[b[x]] \in Nat
        BY <1>0
      <4> QED
        BY <3>3, <4>1, <4>2 DEF Counts
    <3>6. Total(g, I \cup {b[x]}) = g[b[x]] + Total(g, (I \cup {b[x]}) \ {b[x]})
      BY <3>5, TotalWithout
    <3>7. (I \cup {b[x]}) \ {b[x]} = I
      BY <3>4
    <3>8. Total(f, T) = f[x] + Total(f, T \ {x})
      BY CountsFewer, TotalWithout
    <3>9. g[b[x]] = f[x]
      OBVIOUS
    <3>10. Total(g, Image(T)) = Total(f, T)
      BY <3>3, <3>4, <3>6, <3>7, <3>8, <3>9
    <3> QED
      BY <3>4, <3>5, <3>10
  <2> QED
    BY <2>1, <2>2
<1> HIDE DEF A
<1>2. \A T \in SUBSET S : T \in A
  BY <1>0, <1>1, SetInduction
<1> QED
  BY <1>2 DEF A

-----------------------------------------------------------------------------
(***************************************************************************)
(* The codes of a forest: how much has been paid for them so far, and how  *)
(* little the rest can cost.                                               *)
(***************************************************************************)

-----------------------------------------------------------------------------
(***************************************************************************)
(* No codes are shorter                                                    *)
(***************************************************************************)

\* What the nodes of a forest weigh, and what their symbols' codes cost so far.
Weights(h) == [n \in h |-> n.freq]

Lengths(f, n) == [x \in DOMAIN n.codes |-> f[x] * Len(n.codes[x])]

Paid(f, n) == Total(Lengths(f, n), DOMAIN n.codes)

Payments(f, h) == [n \in h |-> Paid(f, n)]

\* Whatever code lengths there are, the forest can still get as cheap.
Promising(h, f, S) ==
  \A len \in [S -> 1 .. Cardinality(S)] :
    Fits(len, S, Cardinality(S)) =>
      \E d : /\ Depths(Weights(h), d, h, Cardinality(S))
             /\ Fits(d, h, Cardinality(S))
             /\ Total(Burden(Weights(h), d, h), h) + Total(Payments(f, h), h)
                  <= Total(Burden(f, len, S), S)

Weighted(h, f) == \A n \in h : n.freq = Total(f, DOMAIN n.codes)

Best(h, f, S) == IsFiniteSet(h) /\ Weighted(h, f) /\ Promising(h, f, S)

LEMMA BestLeaves ==
  ASSUME NEW S, IsFiniteSet(S), NEW f \in [S -> Nat]
  PROVE  Best(Leaves(f), f, S)
<1> DEFINE h == Leaves(f)
           b == [x \in S |-> Leaf(x, f[x])]
           K == Cardinality(S)
<1>1. \A x \in S : /\ Leaf(x, f[x]).freq = f[x] /\ Leaf(x, f[x]).sym = x
                   /\ DOMAIN Leaf(x, f[x]).codes = {x}
                   /\ Leaf(x, f[x]).codes[x] = <<>>
                   /\ f[x] \in Nat
  BY DEF Leaf
<1>2. h = {b[x] : x \in S} /\ \A x \in S : b[x] = Leaf(x, f[x])
  BY DEF Leaves
<1>3. \A x, y \in S : b[x] = b[y] => x = y
  BY <1>1, <1>2
<1>4. Counts(f, S) /\ K \in Nat
  BY <1>1, FS_CardinalityType DEF Counts
<1> HIDE DEF b, h, K
<1>5. IsFiniteSet(h)
  <2>1. PICK g : g = [n \in h |-> f[n.sym]]
    OBVIOUS
  <2>2. \A x \in S : g[b[x]] = f[x]
    BY <1>1, <1>2, <2>1
  <2>3. /\ Total(g, {b[x] : x \in S}) = Total(f, S)
        /\ Counts(g, {b[x] : x \in S})
    <3>1. Counts(f, S)
      BY <1>4
    <3> QED
      BY <1>3, <2>2, <3>1, TotalRenamed
  <2> QED
    BY <1>2, <2>3 DEF Counts
<1>6. Weighted(h, f)
  <2> SUFFICES ASSUME NEW x \in S
               PROVE  f[x] = Total(f, {x})
    BY <1>1, <1>2 DEF Weighted
  <2>1. Counts(f, {x})
    BY <1>4, CountsFewer
  <2> QED
    BY <2>1, TotalOfOne
<1>7. Total(Payments(f, h), h) = 0
  <2>1. \A n \in h : Payments(f, h)[n] = 0
    <3> SUFFICES ASSUME NEW x \in S
                 PROVE  Paid(f, Leaf(x, f[x])) = 0
      BY <1>2 DEF Payments
    <3>1. PICK n : n = Leaf(x, f[x])
      OBVIOUS
    <3>2. DOMAIN n.codes = {x} /\ n.codes[x] = <<>> /\ f[x] \in Nat
      BY <1>1, <3>1
    <3>3. Lengths(f, n)[x] = 0
      BY <3>2 DEF Lengths
    <3>4. Counts(Lengths(f, n), {x})
      BY <3>3, FS_Singleton DEF Counts
    <3>5. Total(Lengths(f, n), {x}) = 0
      BY <3>3, <3>4, TotalOfOne
    <3> QED
      BY <3>1, <3>2, <3>5 DEF Paid
  <2>2. Counts(Payments(f, h), h)
    BY <1>5, <2>1 DEF Counts
  <2>3. \A n \in h : Payments(f, h)[n] = 0 * Payments(f, h)[n]
    BY <2>1
  <2>4. Total(Payments(f, h), h) = 0 * Total(Payments(f, h), h)
    BY <2>2, <2>3, TotalTimes
  <2>5. Total(Payments(f, h), h) \in Nat
    BY <2>2, TotalNatural
  <2> QED
    BY <2>4, <2>5
<1>8. ASSUME NEW len \in [S -> 1 .. K], Fits(len, S, K)
      PROVE  \E d : /\ Depths(Weights(h), d, h, K) /\ Fits(d, h, K)
                    /\ Total(Burden(Weights(h), d, h), h)
                         + Total(Payments(f, h), h)
                         <= Total(Burden(f, len, S), S)
  <2>1. Depths(f, len, S, K)
    <3>1. len \in [S -> 0 .. K]
      BY <1>4
    <3> QED
      BY <1>1, <1>4, <3>1 DEF Depths
  <2>2. PICK d : d = [n \in h |-> len[n.sym]]
    OBVIOUS
  <2>3. \A n \in h : n.sym \in S /\ n.freq \in Nat
    BY <1>1, <1>2
  <2>4. d \in [h -> 0 .. K] /\ \A x \in S : b[x] \in h /\ d[b[x]] = len[x]
    BY <1>1, <1>2, <1>4, <2>2, <2>3
  <2>5. Depths(Weights(h), d, h, K)
    BY <1>4, <1>5, <2>3, <2>4 DEF Depths, Weights
  <2>6. Total(Share(d, h, K), h) = Total(Share(len, S, K), S)
    <3>1. \A x \in S : Share(d, h, K)[b[x]] = Share(len, S, K)[x]
      BY <2>4 DEF Share
    <3>2. Counts(Share(len, S, K), S)
      BY <2>1, DepthsCount
    <3> QED
      BY <1>2, <1>3, <3>1, <3>2, TotalRenamed
  <2>7. Total(Burden(Weights(h), d, h), h) = Total(Burden(f, len, S), S)
    <3>1. \A x \in S : Burden(Weights(h), d, h)[b[x]] = Burden(f, len, S)[x]
      BY <1>1, <1>2, <2>4 DEF Burden, Weights
    <3>2. Counts(Burden(f, len, S), S)
      BY <2>1, DepthsCount
    <3> QED
      BY <1>2, <1>3, <3>1, <3>2, TotalRenamed
  <2>8. Total(Burden(f, len, S), S) \in Nat
    BY <2>1, DepthsCount, TotalNatural
  <2>9. Fits(d, h, K)
    BY <1>8, <2>6 DEF Fits
  <2> QED
    BY <1>7, <2>5, <2>7, <2>8, <2>9
<1>9. Promising(h, f, S)
  BY <1>8 DEF Promising, K
<1> QED
  BY <1>5, <1>6, <1>9 DEF Best, h

\* The least of the heap is not heavier than the others.
LEMMA LeastIsLight ==
  ASSUME NEW h, h # {}, IsHeap(h)
  PROVE  \A n \in h : Least(h).freq <= n.freq
<1>1. Least(h) \in h /\ \A o \in h \ {Least(h)} : Before(Least(h), o)
  BY LeastOfHeap
<1>2. \A n \in h : n.freq \in Nat
  BY NodeFacts DEF IsHeap
<1> QED
  BY <1>1, <1>2 DEF Before

\* Every symbol's code gets one longer.
LEMMA JoinPaid ==
  ASSUME NEW f, NEW l \in Nodes, NEW n \in Nodes,
         l.sym \in DOMAIN l.codes, n.sym \in DOMAIN n.codes,
         DOMAIN l.codes \cap DOMAIN n.codes = {},
         Counts(f, DOMAIN l.codes), Counts(f, DOMAIN n.codes)
  PROVE  LET j == Join(l, n)
         IN  /\ Paid(f, j) = Paid(f, l) + Paid(f, n)
                               + Total(f, DOMAIN l.codes)
                               + Total(f, DOMAIN n.codes)
             /\ Total(f, DOMAIN j.codes)
                  = Total(f, DOMAIN l.codes) + Total(f, DOMAIN n.codes)
             /\ Paid(f, l) \in Nat /\ Paid(f, n) \in Nat
<1>1. PICK j : j = Join(l, n)
  OBVIOUS
<1>2. /\ DOMAIN j.codes = DOMAIN l.codes \cup DOMAIN n.codes
      /\ \A x \in DOMAIN l.codes : j.codes[x] = <<0>> \o l.codes[x]
      /\ \A x \in DOMAIN n.codes : j.codes[x] = <<1>> \o n.codes[x]
  BY <1>1, JoinFacts
<1>3. /\ \A x \in DOMAIN l.codes : l.codes[x] \in Seq({0, 1}) /\ f[x] \in Nat
      /\ \A x \in DOMAIN n.codes : n.codes[x] \in Seq({0, 1}) /\ f[x] \in Nat
  BY NodeFacts DEF Counts
<1>4. ASSUME NEW m1 \in {l, n}, NEW b \in {0, 1},
             \A x \in DOMAIN m1.codes : j.codes[x] = <<b>> \o m1.codes[x],
             DOMAIN m1.codes \subseteq DOMAIN j.codes
      PROVE  /\ Total(Lengths(f, j), DOMAIN m1.codes)
                  = Paid(f, m1) + Total(f, DOMAIN m1.codes)
             /\ Paid(f, m1) \in Nat
             /\ Counts(Lengths(f, j), DOMAIN m1.codes)
  <2>1. PICK D : D = DOMAIN m1.codes
    OBVIOUS
  <2>2. Counts(f, D)
    BY <2>1
  <2>3. \A x \in D : /\ Lengths(f, m1)[x] \in Nat /\ f[x] \in Nat
                     /\ Lengths(f, j)[x] = Lengths(f, m1)[x] + f[x]
    <3> SUFFICES ASSUME NEW x \in D
                 PROVE  /\ f[x] * Len(m1.codes[x]) \in Nat /\ f[x] \in Nat
                        /\ f[x] * Len(j.codes[x])
                             = f[x] * Len(m1.codes[x]) + f[x]
      BY <1>4, <2>1 DEF Lengths
    <3>1. m1.codes[x] \in Seq({0, 1}) /\ f[x] \in Nat
      BY <1>3, <2>1
    <3>2. PICK u \in Seq({0, 1}) : u = m1.codes[x]
      BY <3>1
    <3>3. Len(<<b>> \o u) = Len(u) + 1 /\ Len(u) \in Nat
      OBVIOUS
    <3>4. j.codes[x] = <<b>> \o u
      BY <1>4, <2>1, <3>2
    <3>5. PICK k \in Nat, p \in Nat : k = Len(u) /\ p = f[x]
      BY <3>1, <3>3
    <3>6. p * (k + 1) = p * k + p /\ p * k \in Nat
      BY Z3
    <3> QED
      BY <3>2, <3>3, <3>4, <3>5, <3>6
  <2>4. Counts(Lengths(f, m1), D) /\ Counts(Lengths(f, j), D)
    <3>1. IsFiniteSet(D)
      BY <2>2 DEF Counts
    <3>2. \A x \in D : Lengths(f, j)[x] \in Nat
      BY <2>3
    <3> QED
      BY <2>3, <3>1, <3>2 DEF Counts
  <2>5. Total(Lengths(f, j), D) = Total(Lengths(f, m1), D) + Total(f, D)
    BY <2>2, <2>3, <2>4, TotalPlus
  <2>6. Total(Lengths(f, m1), D) \in Nat
    BY <2>4, TotalNatural
  <2> QED
    BY <2>1, <2>4, <2>5, <2>6 DEF Paid
<1>5. /\ Total(Lengths(f, j), DOMAIN l.codes)
           = Paid(f, l) + Total(f, DOMAIN l.codes)
      /\ Paid(f, l) \in Nat
      /\ Counts(Lengths(f, j), DOMAIN l.codes)
  BY <1>2, <1>4
<1>6. /\ Total(Lengths(f, j), DOMAIN n.codes)
           = Paid(f, n) + Total(f, DOMAIN n.codes)
      /\ Paid(f, n) \in Nat
      /\ Counts(Lengths(f, j), DOMAIN n.codes)
  BY <1>2, <1>4
<1>7. Total(Lengths(f, j), DOMAIN j.codes)
        = Total(Lengths(f, j), DOMAIN l.codes)
            + Total(Lengths(f, j), DOMAIN n.codes)
  BY <1>2, <1>5, <1>6, TotalApart
<1>8. Total(f, DOMAIN j.codes)
        = Total(f, DOMAIN l.codes) + Total(f, DOMAIN n.codes)
  BY <1>2, TotalApart
<1>9. /\ Total(f, DOMAIN l.codes) \in Nat /\ Total(f, DOMAIN n.codes) \in Nat
  BY TotalNatural
<1>10. Paid(f, j) = Paid(f, l) + Paid(f, n)
                      + Total(f, DOMAIN l.codes) + Total(f, DOMAIN n.codes)
  BY <1>5, <1>6, <1>7, <1>9 DEF Paid
<1> QED
  BY <1>1, <1>5, <1>6, <1>8, <1>10

\* All that a heap's nodes are paid is a number.
LEMMA PaymentsCount ==
  ASSUME NEW h, NEW S, NEW f, Forest(h, S), IsFiniteSet(h), Counts(f, S)
  PROVE  /\ Counts(Payments(f, h), h)
         /\ \A n \in h : Counts(f, DOMAIN n.codes) /\ Paid(f, n) \in Nat
<1>1. \A n \in h : n \in Nodes /\ DOMAIN n.codes \in SUBSET S
  BY DEF Forest, IsHeap
<1>2. ASSUME NEW n \in h
      PROVE  Counts(f, DOMAIN n.codes) /\ Paid(f, n) \in Nat
  <2>1. Counts(f, DOMAIN n.codes)
    BY <1>1, CountsFewer
  <2>2. Counts(Lengths(f, n), DOMAIN n.codes)
    <3>1. IsFiniteSet(DOMAIN n.codes)
      BY <2>1 DEF Counts
    <3>2. ASSUME NEW x \in DOMAIN n.codes
          PROVE  Lengths(f, n)[x] \in Nat
      <4>1. n.codes[x] \in Seq({0, 1})
        BY <1>1, NodeFacts
      <4>2. Len(n.codes[x]) \in Nat /\ f[x] \in Nat
        BY <2>1, <4>1 DEF Counts
      <4>3. f[x] * Len(n.codes[x]) \in Nat
        BY <4>2
      <4> QED
        BY <4>3 DEF Lengths
    <3> QED
      BY <3>1, <3>2 DEF Counts
  <2> QED
    BY <2>1, <2>2, TotalNatural DEF Paid
<1>3. \A n \in h : Payments(f, h)[n] = Paid(f, n)
  BY DEF Payments
<1> QED
  BY <1>2, <1>3 DEF Counts

LEMMA BestMerged ==
  ASSUME NEW h, NEW S, NEW f, Forest(h, S), ~ Built(h), Counts(f, S),
         Best(h, f, S)
  PROVE  Best(Merged(h), f, S)
<1>1. PICK l, n : l = Least(h) /\ n = Least(h \ {l})
  OBVIOUS
<1>2. l \in h /\ n \in h /\ l # n
  BY <1>1, TwoLeast
<1>3. IsHeap(h) /\ h # {} /\ IsHeap(h \ {l}) /\ h \ {l} # {}
  <2>1. IsHeap(h \ {l})
    BY DEF Forest, IsHeap, Apart
  <2> QED
    BY <1>2, <2>1 DEF Forest
<1>4. /\ \A z \in h : l.freq <= z.freq
      /\ \A z \in h \ {l} : n.freq <= z.freq
  BY <1>1, <1>3, LeastIsLight
<1>5. PICK j : j = Join(l, n)
  OBVIOUS
<1>6. PICK R : R = (h \ {l, n}) \cup {j} /\ R = Merged(h)
  BY <1>1, <1>5 DEF Merged
<1>7. /\ l \in Nodes /\ n \in Nodes
      /\ l.sym \in DOMAIN l.codes /\ n.sym \in DOMAIN n.codes
      /\ DOMAIN l.codes \cap DOMAIN n.codes = {}
  BY <1>2, <1>3 DEF IsHeap, Apart
<1>8. /\ DOMAIN j.codes = DOMAIN l.codes \cup DOMAIN n.codes
      /\ j.freq = l.freq + n.freq
  <2>1. DOMAIN j.codes = DOMAIN l.codes \cup DOMAIN n.codes
    BY <1>5, <1>7, JoinFacts
  <2> QED
    BY <1>5, <2>1 DEF Join
<1>9. j \notin h \ {l, n}
  <2>1. ASSUME j \in h \ {l, n}
        PROVE  FALSE
    <3>1. DOMAIN j.codes \cap DOMAIN l.codes = {}
      BY <1>2, <1>3, <2>1 DEF IsHeap, Apart
    <3> QED
      BY <1>7, <1>8, <3>1
  <2> QED
    BY <2>1
<1>10. /\ IsFiniteSet(h) /\ Weighted(h, f) /\ Promising(h, f, S)
  BY DEF Best
<1>11. /\ Counts(Payments(f, h), h)
       /\ \A z \in h : Counts(f, DOMAIN z.codes) /\ Paid(f, z) \in Nat
  BY <1>10, PaymentsCount
<1>12. /\ Paid(f, j) = Paid(f, l) + Paid(f, n) + l.freq + n.freq
       /\ j.freq = Total(f, DOMAIN j.codes)
       /\ Paid(f, l) \in Nat /\ Paid(f, n) \in Nat
       /\ l.freq \in Nat /\ n.freq \in Nat
  <2>1. l.freq = Total(f, DOMAIN l.codes) /\ n.freq = Total(f, DOMAIN n.codes)
    BY <1>2, <1>10 DEF Weighted
  <2>2. Counts(f, DOMAIN l.codes) /\ Counts(f, DOMAIN n.codes)
    BY <1>2, <1>11
  <2>3. /\ Paid(f, Join(l, n)) = Paid(f, l) + Paid(f, n)
                             + Total(f, DOMAIN l.codes) + Total(f, DOMAIN n.codes)
        /\ Total(f, DOMAIN Join(l, n).codes)
             = Total(f, DOMAIN l.codes) + Total(f, DOMAIN n.codes)
        /\ Paid(f, l) \in Nat /\ Paid(f, n) \in Nat
    BY <1>7, <2>2, JoinPaid
  <2>4. l.freq \in Nat /\ n.freq \in Nat
    BY <1>7, NodeFacts
  <2> QED
    BY <1>5, <1>8, <2>1, <2>3, <2>4
<1>13. IsFiniteSet(R) /\ IsFiniteSet(h \ {l, n})
  <2>1. IsFiniteSet(h \ {l, n})
    BY <1>10, FS_Subset
  <2> QED
    BY <1>6, <2>1, FS_AddElement
<1>14. Weighted(R, f)
  BY <1>6, <1>10, <1>12 DEF Weighted
<1>15. Total(Payments(f, R), R) = Total(Payments(f, h), h) + l.freq + n.freq
  <2>1. /\ Total(Payments(f, h), h)
             = Payments(f, h)[l] + Payments(f, h)[n]
                 + Total(Payments(f, h), h \ {l, n})
        /\ Total(Payments(f, h), h \ {l, n}) \in Nat
        /\ Counts(Payments(f, h), h \ {l, n})
    BY <1>2, <1>11, TotalOfTwo
  <2>2. /\ Payments(f, h)[l] = Paid(f, l) /\ Payments(f, h)[n] = Paid(f, n)
        /\ Payments(f, R)[j] = Paid(f, j)
        /\ \A z \in h \ {l, n} : Payments(f, R)[z] = Payments(f, h)[z]
    BY <1>2, <1>6 DEF Payments
  <2>3. /\ Total(Payments(f, R), h \ {l, n}) = Total(Payments(f, h), h \ {l, n})
        /\ Counts(Payments(f, R), h \ {l, n})
    BY <2>1, <2>2, TotalSame
  <2>4. Counts(Payments(f, R), R)
    <3>1. Paid(f, j) \in Nat
      BY <1>12
    <3> QED
      BY <1>6, <1>13, <2>2, <2>3, <3>1 DEF Counts
  <2>5. Total(Payments(f, R), R)
          = Payments(f, R)[j] + Total(Payments(f, R), R \ {j})
    BY <1>6, <2>4, TotalWithout
  <2>6. R \ {j} = h \ {l, n}
    BY <1>6, <1>9
  <2> QED
    BY <1>12, <2>1, <2>2, <2>3, <2>5, <2>6
<1>16. ASSUME NEW K, K = Cardinality(S), NEW len \in [S -> 1 .. K], Fits(len, S, K)
       PROVE  \E c : /\ Depths(Weights(R), c, R, K) /\ Fits(c, R, K)
                     /\ Total(Burden(Weights(R), c, R), R)
                          + Total(Payments(f, R), R)
                          <= Total(Burden(f, len, S), S)
  <2>1. PICK d : /\ Depths(Weights(h), d, h, K) /\ Fits(d, h, K)
                 /\ Total(Burden(Weights(h), d, h), h) + Total(Payments(f, h), h)
                      <= Total(Burden(f, len, S), S)
    BY <1>10, <1>16 DEF Promising
  <2>2. \A z \in h : Weights(h)[z] = z.freq
    BY DEF Weights
  <2>3. PICK e : /\ Depths(Weights(h), e, h, K) /\ Fits(e, h, K)
                 /\ Total(Burden(Weights(h), e, h), h)
                      <= Total(Burden(Weights(h), d, h), h)
                 /\ e[l] = e[n] /\ e[l] >= 1
    <3>1. /\ \A z \in h : Weights(h)[l] <= Weights(h)[z]
          /\ \A z \in h \ {l} : Weights(h)[n] <= Weights(h)[z]
      BY <1>2, <1>4, <2>2
    <3> QED
      BY <1>2, <2>1, <3>1, Paired
  <2>4. PICK c : /\ Depths(Weights(R), c, R, K) /\ Fits(c, R, K)
                 /\ Total(Burden(Weights(R), c, R), R)
                      + Weights(h)[l] + Weights(h)[n]
                      <= Total(Burden(Weights(h), e, h), h)
    <3>1. /\ Weights(R)[j] = Weights(h)[l] + Weights(h)[n]
          /\ \A z \in h \ {l, n} : Weights(R)[z] = Weights(h)[z]
      BY <1>2, <1>6, <1>8 DEF Weights
    <3> QED
      BY <1>2, <1>6, <1>9, <2>3, <3>1, Joined
  <2>5. /\ Total(Burden(Weights(h), d, h), h) \in Nat
        /\ Total(Burden(Weights(h), e, h), h) \in Nat
        /\ Total(Burden(Weights(R), c, R), R) \in Nat
        /\ Total(Payments(f, h), h) \in Nat
    BY <1>11, <2>1, <2>3, <2>4, DepthsCount, TotalNatural
  <2>6. Total(Burden(f, len, S), S) \in Nat
    <3>1. IsFiniteSet(S) /\ \A x \in S : f[x] \in Nat
      BY DEF Counts
    <3>2. K \in Nat
      BY <1>16, <3>1, FS_CardinalityType
    <3>3. len \in [S -> 0 .. K]
      BY <1>16, <3>2
    <3>4. Depths(f, len, S, K)
      BY <3>1, <3>2, <3>3 DEF Depths
    <3> QED
      BY <3>4, DepthsCount, TotalNatural
  <2>7. Weights(h)[l] = l.freq /\ Weights(h)[n] = n.freq
    BY <1>2, <2>2
  <2>8. Total(Burden(Weights(R), c, R), R) + Total(Payments(f, R), R)
          <= Total(Burden(f, len, S), S)
    BY <1>12, <1>15, <2>1, <2>3, <2>4, <2>5, <2>6, <2>7
  <2> QED
    BY <2>4, <2>8
<1>17. Promising(R, f, S)
  BY <1>16 DEF Promising
<1> QED
  BY <1>6, <1>13, <1>14, <1>17 DEF Best

\* In compress, every forest can still become as cheap as any code there is.
BestOK == phase = "compress" => Best(heap, table, DOMAIN table)

\* What a payload counts are finitely many symbols.
LEMMA FiniteTable ==
  ASSUME BlobOK
  PROVE  /\ IsFiniteSet(DOMAIN table) /\ Counts(table, DOMAIN table)
         /\ table \in [DOMAIN table -> Nat]
<1>1. DOMAIN table = Range(payload) /\ table \in [DOMAIN table -> Nat]
  BY TableSymbols
<1>2. Len(payload) \in Nat /\ DOMAIN payload = 1 .. Len(payload)
  BY DEF BlobOK
<1>3. payload \in Surjection(1 .. Len(payload), Range(payload))
  <2>1. payload \in [1 .. Len(payload) -> Range(payload)]
    BY <1>2 DEF BlobOK, Range
  <2>2. \A y \in Range(payload) : \E i \in 1 .. Len(payload) : payload[i] = y
    BY <1>2 DEF Range
  <2> QED
    BY <2>1, <2>2 DEF Surjection
<1>4. IsFiniteSet(1 .. Len(payload))
  BY <1>2, FS_Interval
<1>5. IsFiniteSet(Range(payload))
  BY <1>3, <1>4, FS_Surjection
<1> QED
  BY <1>1, <1>5 DEF Counts

LEMMA BestInit == HuffmanInit => BestOK
<1> SUFFICES ASSUME HuffmanInit, phase = "compress"
             PROVE  Best(heap, table, DOMAIN table)
  BY DEF BestOK
<1>1. BlobOK
  BY ForestInit
<1>2. heap = Leaves(table)
  BY DEF HuffmanInit, HuffmanStart
<1> QED
  BY <1>1, <1>2, FiniteTable, BestLeaves

LEMMA BestStep ==
  BlobOK /\ HeapOK /\ BestOK /\ [HuffmanNext]_huffmanVars => BestOK'
<1> SUFFICES ASSUME BlobOK, HeapOK, BestOK, [HuffmanNext]_huffmanVars
             PROVE  BestOK'
  OBVIOUS
<1>1. CASE Merge
  <2>1. /\ phase # "done" /\ ~ Built(heap) /\ heap' = Merged(heap)
        /\ table' = table /\ phase' = phase
    BY <1>1 DEF Merge, blob
  <2>2. Forest(heap, DOMAIN table)
    BY <2>1 DEF HeapOK, BlobOK
  <2>3. phase = "compress" => Best(Merged(heap), table, DOMAIN table)
    BY <2>1, <2>2, FiniteTable, BestMerged DEF BestOK
  <2> QED
    BY <2>1, <2>3 DEF BestOK
<1>2. CASE Encode \/ UNCHANGED huffmanVars
  <2>1. table' = table /\ phase' = phase /\ heap' = heap
    BY <1>2 DEF Encode, huffmanVars, blob
  <2> QED
    BY <2>1 DEF BestOK
<1>3. CASE HandOver \/ DecodeLeaf \/ DecodeBit
  <2>1. phase' # "compress"
    BY <1>3 DEF HandOver, DecodeLeaf, DecodeBit
  <2> QED
    BY <2>1 DEF BestOK
<1> QED
  BY <1>1, <1>2, <1>3 DEF HuffmanNext

\* A lone tree costs what its symbols have paid, a lone symbol one bit each.
LEMMA TreeCost ==
  ASSUME NEW n \in Nodes, NEW f,
         NEW S, S = DOMAIN n.codes, Counts(f, S),
         \A x, y \in S : x # y => ~ IsPrefix(n.codes[x], n.codes[y]),
         NEW c, \A x \in S : c[x] = IF n.codes[x] = <<>> THEN 1
                                                       ELSE Len(n.codes[x]),
         NEW len \in [S -> 1 .. Cardinality(S)],
         Paid(f, n) <= Total(Burden(f, len, S), S)
  PROVE  Total(Burden(f, c, S), S) <= Total(Burden(f, len, S), S)
<1>1. n.codes \in [S -> Seq({0, 1})]
  BY NodeFacts
<1>2. CASE \A x \in S : n.codes[x] # <<>>
  <2>1. \A x \in S : Lengths(f, n)[x] = f[x] * Len(n.codes[x])
    BY DEF Lengths
  <2>2. \A x \in S : Burden(f, c, S)[x] = Lengths(f, n)[x]
    BY <1>2, <2>1 DEF Burden
  <2>3. Counts(Lengths(f, n), S)
    <3>1. ASSUME NEW x \in S
          PROVE  Lengths(f, n)[x] \in Nat
      <4>1. PICK p \in Nat, q \in Nat : p = f[x] /\ q = Len(n.codes[x])
        BY <1>1 DEF Counts
      <4> QED
        BY <2>1, <4>1
    <3> QED
      BY <3>1 DEF Counts
  <2>4. Total(Burden(f, c, S), S) = Total(Lengths(f, n), S)
    BY <2>2, <2>3, TotalSame
  <2> QED
    BY <2>4 DEF Paid
<1>3. CASE \E x \in S : n.codes[x] = <<>>
  <2>1. PICK x \in S : n.codes[x] = <<>>
    BY <1>3
  <2>2. S = {x}
    <3>1. ASSUME NEW y \in S, y # x
          PROVE  FALSE
      <4>1. n.codes[y] \in Seq({0, 1}) /\ n.codes[x] \in Seq({0, 1})
        BY <1>1, <3>1
      <4>2. Len(n.codes[x]) = 0 /\ Len(n.codes[y]) \in Nat
        BY <2>1, <4>1
      <4>3. IsPrefix(n.codes[x], n.codes[y])
        BY <4>1, <4>2, PrefixPointwise
      <4> QED
        BY <3>1, <4>3
    <3> QED
      BY <3>1
  <2>3. Cardinality(S) = 1
    BY <2>2, FS_Singleton
  <2>4. len[x] = 1 /\ c[x] = 1
    BY <2>1, <2>3
  <2>5. \A y \in S : Burden(f, c, S)[y] = Burden(f, len, S)[y]
    BY <2>2, <2>4 DEF Burden
  <2>6. Counts(Burden(f, len, S), S)
    <3>1. Burden(f, len, S)[x] = f[x] * 1 /\ f[x] \in Nat
      BY <2>4 DEF Burden, Counts
    <3> QED
      BY <2>2, <3>1 DEF Counts
  <2>7. Total(Burden(f, c, S), S) = Total(Burden(f, len, S), S)
    BY <2>5, <2>6, TotalSame
  <2>8. Total(Burden(f, len, S), S) \in Nat
    BY <2>6, TotalNatural
  <2> QED
    BY <2>7, <2>8
<1> QED
  BY <1>2, <1>3

LEMMA BestIsOptimal == BlobOK /\ HeapOK /\ BestOK => Optimal
<1> SUFFICES ASSUME BlobOK, HeapOK, BestOK, phase = "compress", Built(heap),
                    NEW S, S = DOMAIN table, NEW K, K = Cardinality(S),
                    NEW len \in [S -> 1 .. K],
                    SumFunction([x \in S |-> 2 ^ (K - len[x])]) <= 2 ^ K
             PROVE  SumFunction([x \in S |-> table[x]
                                     * [y \in S |-> Len(Code(y))][x]])
                      <= SumFunction([x \in S |-> table[x] * len[x]])
  BY DEF Optimal
<1>1. PICK c : c = [y \in S |-> Len(Code(y))]
  OBVIOUS
<1>2. /\ SumFunction([x \in S |-> 2 ^ (K - len[x])]) = Total(Share(len, S, K), S)
      /\ SumFunction([x \in S |-> table[x] * len[x]])
           = Total(Burden(table, len, S), S)
      /\ SumFunction([x \in S |-> table[x] * c[x]])
           = Total(Burden(table, c, S), S)
  BY DEF SumFunction, Total, Share, Burden
<1>3. Fits(len, S, K)
  BY <1>2 DEF Fits
<1>4. Forest(heap, S) /\ Best(heap, table, S)
  BY DEF HeapOK, BlobOK, BestOK
<1>5. PICK n : heap = {n}
  <2>1. PICK n \in heap : TRUE
    BY <1>4 DEF Forest
  <2>2. \A o \in heap : o = n
    BY <2>1 DEF Built
  <2>3. heap = {n}
    BY <2>1, <2>2
  <2> QED
    BY <2>3
<1>6. /\ n \in Nodes /\ S = DOMAIN n.codes
      /\ \A x, y \in S : x # y => ~ IsPrefix(n.codes[x], n.codes[y])
  BY <1>4, <1>5 DEF Forest, IsHeap
<1>7. Codes = n.codes
  BY <1>5 DEF Codes
<1>8. \A x \in S : c[x] = IF n.codes[x] = <<>> THEN 1 ELSE Len(n.codes[x])
  <2>1. Len(<<0>>) = 1
    OBVIOUS
  <2> QED
    BY <1>1, <1>7, <2>1 DEF Code
<1>9. Counts(table, S)
  BY FiniteTable
<1>10. Paid(table, n) <= Total(Burden(table, len, S), S)
  <2>1. PICK d : /\ Depths(Weights(heap), d, heap, K)
                 /\ Total(Burden(Weights(heap), d, heap), heap)
                      + Total(Payments(table, heap), heap)
                      <= Total(Burden(table, len, S), S)
    BY <1>3, <1>4 DEF Best, Promising
  <2>2. Total(Burden(Weights(heap), d, heap), heap) \in Nat
    BY <2>1, DepthsCount, TotalNatural
  <2>3. Counts(Payments(table, heap), heap) /\ Paid(table, n) \in Nat
    BY <1>4, <1>5, <1>9, PaymentsCount DEF Best
  <2>4. Payments(table, heap)[n] = Paid(table, n)
    BY <1>5 DEF Payments
  <2>5. Total(Payments(table, heap), heap) = Paid(table, n)
    BY <1>5, <2>3, <2>4, TotalOfOne
  <2>6. Total(Burden(table, len, S), S) \in Nat
    <3>1. \A x \in S : table[x] \in Nat /\ IsFiniteSet(S)
      BY <1>9 DEF Counts
    <3>2. K \in Nat
      BY <1>9, FS_CardinalityType DEF Counts
    <3>3. len \in [S -> 0 .. K]
      BY <3>2
    <3>4. Depths(table, len, S, K)
      BY <1>9, <3>1, <3>2, <3>3 DEF Depths, Counts
    <3> QED
      BY <3>4, DepthsCount, TotalNatural
  <2> QED
    BY <2>1, <2>2, <2>3, <2>5, <2>6
<1>11. Total(Burden(table, c, S), S) <= Total(Burden(table, len, S), S)
  BY <1>6, <1>8, <1>9, <1>10, TreeCost
<1> QED
  BY <1>1, <1>2, <1>11

\* For every payload: when compress has built its tree, no code lengths that
\* Kraft's inequality allows would make the encoded payload shorter. The merges
\* of _build_tree always take the right two nodes.
THEOREM CodesOptimal == HuffmanSpec => []Optimal
<1>1. BlobOK /\ HeapOK /\ BestOK => Optimal
  BY BestIsOptimal
<1>2. BlobOK /\ HeapOK /\ Growth /\ Regrowth /\ BestOK /\ [HuffmanNext]_huffmanVars
        => (BlobOK /\ HeapOK /\ Growth /\ Regrowth /\ BestOK)'
  BY ForestStep, BestStep
<1>3. HuffmanInit => BlobOK /\ HeapOK /\ Growth /\ Regrowth /\ BestOK
  BY ForestInit, BestInit
<1> QED
  BY <1>1, <1>2, <1>3, PTL DEF HuffmanSpec

-----------------------------------------------------------------------------
(***************************************************************************)
(* The settings of a node and a client                                     *)
(***************************************************************************)

\* The dictionary merged holds what the lines read so far say last.
MergedOK ==
  /\ \A f : f \in DOMAIN merged <=> \E k \in 1 .. lineno : f \in DOMAIN Lines[k]
  /\ \A f : \A k \in 1 .. lineno :
       (f \in DOMAIN Lines[k] /\ \A j \in k + 1 .. lineno : f \notin DOMAIN Lines[j])
         => merged[f] = Lines[k][f]

\* What main makes of its options and of the settings of the file and the
\* environment.
NodeOK ==
  /\ node = [server_name |-> Either(server_args.server_name, Latest("server_name")),
             host |-> Either(server_args.host, Latest("host")),
             port |-> Either(server_args.port, Latest("port")),
             password |-> Either(PasswordFromEnv, Latest("password"))]
  /\ Latest("password") \in Good \cup {None, Empty}

\* What _connect makes of its options and of the same file and environment.
DialOK ==
  LET password == Either(client_args.password, PasswordFromEnv)
  IN  /\ dial.host = Either(client_args.host, Latest("host"))
      /\ dial.port = Either(client_args.port, Latest("port"))
      /\ (stage = "connected" /\ Required) =>
           dial.password = password /\ ~ Falsy(password)
      /\ stage # "not reached" =>
           (stage = "exit 2" <=> Required /\ Falsy(password))

StartupInputs ==
  /\ file \in Files \cup {None}
  /\ env \in Environments
  /\ server_args \in ServerOptions
  /\ client_args \in ClientOptions

StartupIInv ==
  /\ StartupInputs
  /\ lineno \in 0 .. Len(Lines)
  /\ Loading => MergedOK /\ dial = None
  /\ stage = "client loads" => NodeOK
  /\ node # None => NodeOK
  /\ dial # None => NodeOK /\ DialOK

LEMMA LinesLength ==
  ASSUME StartupInputs
  PROVE  Len(Lines) \in Nat
<1>1. CASE file = None
  BY <1>1 DEF Lines
<1>2. CASE file # None
  BY <1>2, StartupAssumption DEF Lines, StartupInputs
<1> QED
  BY <1>1, <1>2

\* Once every line is read, cfg has the values that are set last.
LEMMA ConfigLatest ==
  ASSUME StartupInputs, MergedOK, lineno = Len(Lines), NEW f \in Fields
  PROVE  Config(merged)[f] = Latest(f)
<1> DEFINE having == {k \in 1 .. Len(Lines) : f \in DOMAIN Lines[k]}
<1>0. Len(Lines) \in Nat
  BY LinesLength
<1>1. Config(merged)[f] = IF f \in DOMAIN merged THEN merged[f] ELSE Default[f]
  BY DEF Config, Default, Updated
<1>2. f \in DOMAIN merged <=> having # {}
  BY DEF MergedOK
<1>3. Latest(f) = IF having = {} THEN Default[f]
                  ELSE Lines[CHOOSE k \in having : \A j \in having : j <= k][f]
  BY DEF Latest
<1>4. ASSUME having # {}
      PROVE  merged[f] = Lines[CHOOSE k \in having : \A j \in having : j <= k][f]
  <2>1. {Len(Lines) - k : k \in having} \in SUBSET Nat
          /\ {Len(Lines) - k : k \in having} # {}
    BY <1>0, <1>4
  <2>2. PICK x \in {Len(Lines) - k : k \in having} :
          \A y \in {Len(Lines) - k : k \in having} : x <= y
    BY <2>1, LeastNatural
  <2>3. PICK k \in having : x = Len(Lines) - k
    BY <2>2
  <2>4. ASSUME NEW j \in having
        PROVE  j <= k
    <3>1. Len(Lines) - j \in {Len(Lines) - i : i \in having}
      BY <2>4
    <3>2. x <= Len(Lines) - j
      BY <2>2, <3>1
    <3>3. j \in Nat /\ k \in Nat
      OBVIOUS
    <3> QED
      BY <1>0, <2>3, <3>2, <3>3
  <2>5. PICK l : l = CHOOSE i \in having : \A j \in having : j <= i
    OBVIOUS
  <2>6. l \in having /\ \A j \in having : j <= l
    BY <2>4, <2>5
  <2>7. \A j \in l + 1 .. lineno : f \notin DOMAIN Lines[j]
    BY <1>0, <2>6
  <2>8. merged[f] = Lines[l][f]
    BY <2>6, <2>7 DEF MergedOK
  <2> QED
    BY <2>5, <2>8
<1> HIDE DEF having
<1> QED
  BY <1>1, <1>2, <1>3, <1>4

\* One more line.
LEMMA MergedStep ==
  ASSUME StartupInputs, lineno \in 0 .. Len(Lines), MergedOK, ReadLine
  PROVE  MergedOK'
<1>0. /\ lineno \in Nat /\ lineno' = lineno + 1 /\ Lines' = Lines
      /\ merged' = Updated(merged, Lines[lineno + 1])
  BY LinesLength DEF ReadLine, inputs, Lines
<1>1. PICK line : line = Lines[lineno + 1]
  OBVIOUS
<1>2. /\ DOMAIN merged' = DOMAIN line \cup DOMAIN merged
      /\ \A f \in DOMAIN line \cup DOMAIN merged :
           merged'[f] = IF f \in DOMAIN line THEN line[f] ELSE merged[f]
  BY <1>0, <1>1 DEF Updated
<1>3. \A k : k \in 1 .. lineno + 1 <=> k \in 1 .. lineno \/ k = lineno + 1
  BY <1>0
<1>4. ASSUME NEW f
      PROVE  f \in DOMAIN merged' <=> \E k \in 1 .. lineno + 1 : f \in DOMAIN Lines[k]
  BY <1>1, <1>2, <1>3 DEF MergedOK
<1>5. ASSUME NEW f, NEW k \in 1 .. lineno + 1, f \in DOMAIN Lines[k],
             \A j \in k + 1 .. lineno + 1 : f \notin DOMAIN Lines[j]
      PROVE  merged'[f] = Lines[k][f]
  <2>1. CASE k = lineno + 1
    BY <1>1, <1>2, <1>5, <2>1
  <2>2. CASE k \in 1 .. lineno
    <3>1. lineno + 1 \in k + 1 .. lineno + 1
      BY <1>0, <2>2
    <3>2. f \notin DOMAIN line
      BY <1>1, <1>5, <3>1
    <3>3. \A j \in k + 1 .. lineno : f \notin DOMAIN Lines[j]
      BY <1>0, <1>5, <2>2
    <3>4. f \in DOMAIN merged /\ merged[f] = Lines[k][f]
      BY <1>5, <2>2, <3>3 DEF MergedOK
    <3> QED
      BY <1>2, <3>2, <3>4
  <2> QED
    BY <1>3, <2>1, <2>2
<1> QED
  BY <1>0, <1>4, <1>5 DEF MergedOK

LEMMA Interval ==
  ASSUME NEW n \in Nat
  PROVE  0 \in 0 .. n /\ \A k \in 0 .. n : k < n => k + 1 \in 0 .. n
  OBVIOUS

\* The scan of the file begins, in main and in _connect.
LEMMA MergedAfresh ==
  /\ lineno = 0 /\ merged = <<>> => MergedOK
  /\ lineno' = 0 /\ merged' = <<>> => MergedOK'
<1>1. DOMAIN <<>> = {} /\ \A k \in 1 .. 0 : FALSE
  OBVIOUS
<1> QED
  BY <1>1 DEF MergedOK

LEMMA StartupInitIInv == StartupInit => StartupIInv
<1> SUFFICES ASSUME StartupInit
             PROVE  StartupIInv
  OBVIOUS
<1>1. /\ StartupInputs /\ stage = "server loads" /\ lineno = 0 /\ merged = <<>>
      /\ node = None /\ dial = None
  BY DEF StartupInit, StartupStart, StartupInputs
<1>2. Len(Lines) \in Nat
  BY <1>1, LinesLength
<1>3. lineno \in 0 .. Len(Lines)
  BY <1>1, <1>2, Interval, Zenon
<1>4. MergedOK
  BY <1>1, MergedAfresh
<1> QED
  BY <1>1, <1>3, <1>4 DEF StartupIInv

LEMMA StartupStep == StartupIInv /\ [StartupNext]_startupVars => StartupIInv'
<1> SUFFICES ASSUME StartupIInv, [StartupNext]_startupVars
             PROVE  StartupIInv'
  OBVIOUS
<1>0. /\ StartupInputs /\ lineno \in 0 .. Len(Lines) /\ Len(Lines) \in Nat
      /\ Loading => MergedOK /\ dial = None
      /\ stage = "client loads" => NodeOK
      /\ node # None => NodeOK
      /\ dial # None => NodeOK /\ DialOK
  BY LinesLength DEF StartupIInv
<1>a. ASSUME UNCHANGED inputs
      PROVE  StartupInputs' /\ Lines' = Lines /\ PasswordFromEnv' = PasswordFromEnv
             /\ \A f : Latest(f)' = Latest(f)
  <2>1. /\ file' = file /\ env' = env /\ server_args' = server_args
        /\ client_args' = client_args
    BY <1>a DEF inputs
  <2>2. Lines' = Lines
    BY <2>1 DEF Lines
  <2>3. PasswordFromEnv' = PasswordFromEnv
    BY <2>1 DEF PasswordFromEnv
  <2>4. \A f : Latest(f)' = Latest(f)
    BY <2>2 DEF Latest
  <2>5. StartupInputs'
    BY <1>0, <2>1 DEF StartupInputs
  <2> QED
    BY <2>2, <2>3, <2>4, <2>5
<1>b. ASSUME UNCHANGED <<inputs, node>>, NodeOK
      PROVE  NodeOK'
  BY <1>a, <1>b DEF inputs, NodeOK
<1>1. CASE ReadLine
  <2>1. /\ UNCHANGED <<inputs, stage, node, dial>> /\ Loading
        /\ lineno < Len(Lines) /\ lineno' = lineno + 1
    BY <1>1 DEF ReadLine
  <2>2. StartupInputs' /\ Lines' = Lines /\ \A f : Latest(f)' = Latest(f)
          /\ PasswordFromEnv' = PasswordFromEnv
    BY <1>a, <2>1
  <2>3. lineno' \in 0 .. Len(Lines')
    <3>1. lineno' \in 0 .. Len(Lines)
      BY <1>0, <2>1, Interval, Zenon
    <3> QED
      BY <2>2, <3>1
  <2>4. MergedOK'
    BY <1>0, <1>1, <2>1, MergedStep
  <2>5. NodeOK => NodeOK'
    BY <1>b, <2>1
  <2>6. DialOK => DialOK'
    BY <2>1, <2>2 DEF DialOK, inputs, Required
  <2> QED
    BY <1>0, <2>1, <2>2, <2>3, <2>4, <2>5, <2>6 DEF StartupIInv
<1>2. CASE LoadFails
  <2>1. UNCHANGED <<inputs, lineno, merged, node, dial>> /\ stage' = "failed" /\ Loading
    BY <1>2 DEF LoadFails
  <2>2. StartupInputs' /\ Lines' = Lines /\ \A f : Latest(f)' = Latest(f)
          /\ PasswordFromEnv' = PasswordFromEnv
    BY <1>a, <2>1
  <2>3. NodeOK => NodeOK'
    BY <1>b, <2>1
  <2>4. dial' = None
    BY <1>0, <2>1
  <2> QED
    BY <1>0, <2>1, <2>2, <2>3, <2>4 DEF StartupIInv, Loading
<1>3. CASE Serve
  <2>1. /\ UNCHANGED <<inputs, dial>> /\ stage = "server loads"
        /\ lineno' = 0 /\ merged' = <<>> /\ stage' = "client loads"
        /\ lineno = Len(Lines) /\ \A f \in DOMAIN merged : Valid(f, merged[f])
        /\ node' = [server_name |-> Either(server_args.server_name,
                                           Config(merged).server_name),
                    host |-> Either(server_args.host, Config(merged).host),
                    port |-> Either(server_args.port, Config(merged).port),
                    password |-> Override(Config(merged))]
    BY <1>3 DEF Serve, Loaded
  <2>2. StartupInputs' /\ Lines' = Lines /\ \A f : Latest(f)' = Latest(f)
          /\ PasswordFromEnv' = PasswordFromEnv
    BY <1>a, <2>1
  <2>3. MergedOK
    BY <1>0, <2>1 DEF Loading
  <2>4. \A f \in Fields : Config(merged)[f] = Latest(f)
    BY <1>0, <2>1, <2>3, ConfigLatest
  <2>5. Latest("password") \in Good \cup {None, Empty}
    <3>1. Config(merged)["password"] =
            IF "password" \in DOMAIN merged THEN merged["password"] ELSE None
      BY DEF Config, Updated, Default, Fields
    <3>2. "password" \in Fields
      BY DEF Fields
    <3> QED
      BY <2>1, <2>4, <3>1, <3>2 DEF Valid
  <2>6. /\ Config(merged).server_name = Latest("server_name")
        /\ Config(merged).host = Latest("host")
        /\ Config(merged).port = Latest("port")
        /\ Config(merged).password = Latest("password")
    BY <2>4 DEF Fields
  <2>7. NodeOK'
    BY <2>1, <2>2, <2>5, <2>6 DEF NodeOK, Override, inputs
  <2>8. MergedOK' /\ lineno' \in 0 .. Len(Lines')
    <3>1. lineno' \in 0 .. Len(Lines)
      BY <1>0, <2>1, Interval, Zenon
    <3> QED
      BY <2>1, <2>2, <3>1, MergedAfresh
  <2>9. dial' = None
    BY <1>0, <2>1 DEF Loading
  <2> QED
    BY <2>1, <2>2, <2>7, <2>8, <2>9 DEF StartupIInv
<1>4. CASE Connect
  <2> DEFINE password == Either(client_args.password, PasswordFromEnv)
  <2>1. /\ UNCHANGED <<inputs, lineno, merged, node>> /\ stage = "client loads"
        /\ lineno = Len(Lines)
    BY <1>4 DEF Connect, Loaded
  <2>2. PICK host, port, reached :
          /\ host = Either(client_args.host, Config(merged).host)
          /\ port = Either(client_args.port, Config(merged).port)
          /\ reached = (host = node.host /\ port = node.port)
    OBVIOUS
  <2>3. /\ dial' = [host |-> host, port |-> port,
                    password |-> IF reached /\ Required THEN password ELSE None]
        /\ stage' = IF ~ reached THEN "not reached"
                    ELSE IF Required /\ Falsy(password) THEN "exit 2"
                    ELSE "connected"
    BY <1>4, <2>2 DEF Connect
  <2>4. StartupInputs' /\ Lines' = Lines /\ \A f : Latest(f)' = Latest(f)
          /\ PasswordFromEnv' = PasswordFromEnv
    BY <1>a, <2>1
  <2>5. \A f \in Fields : Config(merged)[f] = Latest(f)
    BY <1>0, <2>1, ConfigLatest DEF Loading
  <2>6. host = Either(client_args.host, Latest("host"))
          /\ port = Either(client_args.port, Latest("port"))
    BY <2>2, <2>5 DEF Fields
  <2>7. NodeOK'
    BY <1>0, <1>b, <2>1
  <2>8. dial'.host = host /\ dial'.port = port
          /\ (reached /\ Required => dial'.password = password)
    BY <2>3
  <2>9. /\ stage' = "connected" /\ Required => reached /\ ~ Falsy(password)
        /\ stage' # "not reached" =>
             (stage' = "exit 2" <=> Required /\ Falsy(password))
    BY <2>3
  <2>10. UNCHANGED <<client_args, node>>
    BY <2>1 DEF inputs
  <2>11. Required' = Required
    BY <2>10 DEF Required
  <2>12. DialOK'
    BY <2>4, <2>6, <2>8, <2>9, <2>10, <2>11 DEF DialOK
  <2>13. ~ Loading' /\ stage' # "client loads"
    BY <2>3 DEF Loading
  <2>14. lineno' \in 0 .. Len(Lines')
    BY <1>0, <2>1, <2>4
  <2> QED
    BY <2>4, <2>7, <2>12, <2>13, <2>14 DEF StartupIInv
<1>5. CASE UNCHANGED startupVars
  <2>1. UNCHANGED <<file, env, server_args, client_args, stage, lineno, merged, node, dial>>
    BY <1>5 DEF startupVars, inputs
  <2>2. StartupInputs' /\ Lines' = Lines /\ \A f : Latest(f)' = Latest(f)
          /\ PasswordFromEnv' = PasswordFromEnv
    BY <1>a, <2>1 DEF inputs
  <2>3. NodeOK => NodeOK'
    BY <1>b, <2>1 DEF inputs
  <2>4. DialOK => DialOK'
    BY <2>1, <2>2 DEF DialOK, Required
  <2>5. MergedOK => MergedOK'
    BY <2>1, <2>2 DEF MergedOK
  <2>6. lineno' \in 0 .. Len(Lines')
    BY <1>0, <2>1, <2>2
  <2> QED
    BY <1>0, <2>1, <2>2, <2>3, <2>4, <2>5, <2>6 DEF StartupIInv, Loading
<1> QED
  BY <1>1, <1>2, <1>3, <1>4, <1>5 DEF StartupNext

LEMMA StartupSpecIInv == StartupSpec => []StartupIInv
  BY StartupInitIInv, StartupStep, PTL DEF StartupSpec

LEMMA SettingsFit == StartupIInv => NodeAndClientFit
<1> SUFFICES ASSUME StartupIInv
             PROVE  NodeAndClientFit
  OBVIOUS
<1>a. \A v \in Good \cup {None, Empty} : Falsy(v) <=> v \notin Good
  BY StartupAssumption DEF Falsy
<1>b. \A v, w \in Good \cup {None, Empty} :
        /\ Either(v, w) \in Good \cup {None, Empty}
        /\ Either(v, w) \in Good <=> v \in Good \/ w \in Good
  BY <1>a DEF Either
<1>c. /\ PasswordFromEnv \in Good \cup {None, Empty}
      /\ PasswordFromEnv \in Good <=> SetInEnv("PRIESTLY_PASSWD") \/ SetInEnv("PASSWD")
  <2>1. /\ env["PRIESTLY_PASSWD"] \in Good \cup {None, Empty}
        /\ env["PASSWD"] \in Good \cup {None, Empty}
    BY StartupAssumption DEF StartupIInv, StartupInputs
  <2>2. PICK v : v = Either(env["PRIESTLY_PASSWD"], env["PASSWD"])
    OBVIOUS
  <2>3. /\ v \in Good \cup {None, Empty}
        /\ v \in Good <=> SetInEnv("PRIESTLY_PASSWD") \/ SetInEnv("PASSWD")
    BY <1>b, <2>1, <2>2 DEF SetInEnv
  <2>4. PasswordFromEnv = Either(v, None) /\ None \notin Good
    BY <2>2, StartupAssumption DEF PasswordFromEnv
  <2> QED
    BY <1>b, <2>3, <2>4
<1>1. ASSUME NodeOK
      PROVE  Required <=> \/ SetInEnv("PRIESTLY_PASSWD") \/ SetInEnv("PASSWD")
                          \/ Latest("password") \in Good
  <2>1. /\ node.password = Either(PasswordFromEnv, Latest("password"))
        /\ Latest("password") \in Good \cup {None, Empty}
    BY <1>1 DEF NodeOK
  <2>2. /\ node.password \in Good \cup {None, Empty}
        /\ node.password \in Good <=> \/ PasswordFromEnv \in Good
                                      \/ Latest("password") \in Good
    BY <1>b, <1>c, <2>1
  <2> QED
    BY <1>a, <1>c, <2>2 DEF Required
<1>2. ASSUME NodeOK, DialOK, Falsy(server_args["host"]), Falsy(client_args["host"])
      PROVE  node["host"] = Latest("host") /\ dial["host"] = Latest("host")
  BY <1>2 DEF NodeOK, DialOK, Either
<1>3. ASSUME NodeOK, DialOK, Falsy(server_args["port"]), Falsy(client_args["port"])
      PROVE  node["port"] = Latest("port") /\ dial["port"] = Latest("port")
  BY <1>3 DEF NodeOK, DialOK, Either
<1>4. ASSUME NodeOK, DialOK, stage = "connected", Required,
             Falsy(client_args.password)
      PROVE  dial.password = node.password
  <2>1. dial.password = PasswordFromEnv /\ ~ Falsy(PasswordFromEnv)
    BY <1>4 DEF DialOK, Either
  <2>2. node.password = Either(PasswordFromEnv, Latest("password"))
    BY <1>4 DEF NodeOK
  <2> QED
    BY <2>1, <2>2 DEF Either
<1>5. ASSUME NodeOK, DialOK, stage # "not reached"
      PROVE  stage = "exit 2" <=>
               /\ Latest("password") \in Good /\ Falsy(client_args.password)
               /\ ~ SetInEnv("PRIESTLY_PASSWD") /\ ~ SetInEnv("PASSWD")
  <2>1. stage = "exit 2" <=>
          Required /\ Falsy(Either(client_args.password, PasswordFromEnv))
    BY <1>5 DEF DialOK
  <2>2. Falsy(Either(client_args.password, PasswordFromEnv)) <=>
          Falsy(client_args.password) /\ Falsy(PasswordFromEnv)
    BY DEF Either
  <2>3. Falsy(PasswordFromEnv) <=>
          ~ SetInEnv("PRIESTLY_PASSWD") /\ ~ SetInEnv("PASSWD")
    BY <1>a, <1>c
  <2> QED
    BY <1>1, <1>5, <2>1, <2>2, <2>3
<1>6. (node # None => NodeOK) /\ (dial # None => NodeOK /\ DialOK)
  BY DEF StartupIInv
<1> QED
  BY <1>1, <1>2, <1>3, <1>4, <1>5, <1>6 DEF NodeAndClientFit

\* parse_jsonx, load_with_env, main and _connect: a node and a client that
\* share config.cfg and the environment agree on the address unless an option
\* says otherwise, and on the password if the client gets in; it is turned away
\* for want of one exactly if the node's is only in the file. An empty password
\* locks nothing.
THEOREM SettingsShared == StartupSpec => []NodeAndClientFit
  BY StartupSpecIInv, SettingsFit, PTL

-----------------------------------------------------------------------------
(***************************************************************************)
(* Jsonx: what the scanners leave                                          *)
(***************************************************************************)

\* The characters that the scanners look for.
Marks == <<Quote, Backslash, Hash, Slash, Star, Newline, Comma>>

LEMMA MarksDiffer ==
  /\ Quote # Backslash /\ Quote # Hash /\ Quote # Slash /\ Quote # Newline
  /\ Quote # Comma /\ Hash # Slash /\ Hash # Newline /\ Slash # Newline
  /\ Slash # Star /\ Star # Newline
<1>1. \A i, j \in 1 .. 7 : Marks[i] = Marks[j] => i = j
  BY JsonxAssumption DEF IsInjective, Marks
<1>2. /\ Marks[1] = Quote /\ Marks[2] = Backslash /\ Marks[3] = Hash
      /\ Marks[4] = Slash /\ Marks[5] = Star /\ Marks[6] = Newline
      /\ Marks[7] = Comma
  BY DEF Marks
<1> HIDE DEF Marks
<1>3. /\ Marks[1] # Marks[2] /\ Marks[1] # Marks[3] /\ Marks[1] # Marks[4]
      /\ Marks[1] # Marks[6] /\ Marks[1] # Marks[7] /\ Marks[3] # Marks[4]
      /\ Marks[3] # Marks[6] /\ Marks[4] # Marks[6] /\ Marks[4] # Marks[5]
      /\ Marks[5] # Marks[6]
  BY <1>1
<1> QED
  BY <1>2, <1>3, Zenon

-----------------------------------------------------------------------------
\* Sequences in ascending order.

LEMMA ListsJoin ==
  ASSUME NEW S \in SUBSET Nat, NEW T \in SUBSET Nat,
         NEW u \in Seq(Nat), NEW v \in Seq(Nat), Lists(u, S), Lists(v, T),
         \A x \in S, y \in T : x < y
  PROVE  Lists(u \o v, S \cup T)
<1> DEFINE w == u \o v
<1>1. /\ Len(u) \in Nat /\ Len(v) \in Nat
      /\ w \in Seq(Nat) /\ Len(w) = Len(u) + Len(v)
      /\ \A i \in 1 .. Len(u) : w[i] = u[i]
      /\ \A i \in 1 .. Len(v) : w[Len(u) + i] = v[i]
      /\ DOMAIN u = 1 .. Len(u) /\ DOMAIN v = 1 .. Len(v)
      /\ DOMAIN w = 1 .. Len(u) + Len(v)
  OBVIOUS
<1> HIDE DEF w
<1>2. /\ S = {u[i] : i \in 1 .. Len(u)}
      /\ T = {v[i] : i \in 1 .. Len(v)}
  BY <1>1 DEF Lists, Range
<1>3. ASSUME NEW i \in DOMAIN w
      PROVE  \/ i \in 1 .. Len(u) /\ w[i] = u[i]
             \/ i - Len(u) \in 1 .. Len(v) /\ w[i] = v[i - Len(u)]
  <2>1. CASE i <= Len(u)
    BY <1>1, <2>1
  <2>2. CASE i > Len(u)
    <3>1. i - Len(u) \in 1 .. Len(v) /\ Len(u) + (i - Len(u)) = i
      BY <1>1, <2>2
    <3> QED
      BY <1>1, <3>1
  <2> QED
    BY <1>1, <2>1, <2>2
<1>4. Range(w) \subseteq S \cup T
  BY <1>2, <1>3 DEF Range
<1>5. S \cup T \subseteq Range(w)
  <2>1. ASSUME NEW i \in 1 .. Len(u)
        PROVE  u[i] \in Range(w)
    <3>1. i \in DOMAIN w /\ w[i] = u[i]
      BY <1>1
    <3> QED
      BY <3>1 DEF Range
  <2>2. ASSUME NEW i \in 1 .. Len(v)
        PROVE  v[i] \in Range(w)
    <3>1. Len(u) + i \in DOMAIN w /\ w[Len(u) + i] = v[i]
      BY <1>1
    <3> QED
      BY <3>1 DEF Range
  <2> QED
    BY <1>2, <2>1, <2>2
<1>6. ASSUME NEW i \in DOMAIN w, NEW j \in DOMAIN w, i < j
      PROVE  w[i] < w[j]
  <2>1. i \in Int /\ j \in Int
    BY <1>1
  <2>2. CASE i <= Len(u) /\ j <= Len(u)
    <3>1. i \in DOMAIN u /\ j \in DOMAIN u /\ w[i] = u[i] /\ w[j] = u[j]
      BY <1>1, <2>2
    <3> QED
      BY <1>6, <3>1 DEF Lists
  <2>3. CASE i <= Len(u) /\ j > Len(u)
    <3>1. w[i] \in S
      BY <1>1, <1>2, <2>3
    <3>2. w[j] \in T
      <4>1. j - Len(u) \in 1 .. Len(v) /\ w[j] = v[j - Len(u)]
        <5>1. ~ (j \in 1 .. Len(u))
          BY <1>1, <2>1, <2>3
        <5> QED
          BY <1>3, <5>1
      <4> QED
        BY <1>2, <4>1
    <3> QED
      BY <3>1, <3>2
  <2>4. CASE i > Len(u)
    <3>1. /\ i - Len(u) \in DOMAIN v /\ w[i] = v[i - Len(u)]
          /\ j - Len(u) \in DOMAIN v /\ w[j] = v[j - Len(u)]
          /\ i - Len(u) < j - Len(u)
      <4>1. ~ (i \in 1 .. Len(u)) /\ ~ (j \in 1 .. Len(u))
        BY <1>1, <1>6, <2>1, <2>4
      <4>2. /\ i - Len(u) \in 1 .. Len(v) /\ w[i] = v[i - Len(u)]
            /\ j - Len(u) \in 1 .. Len(v) /\ w[j] = v[j - Len(u)]
        BY <1>3, <4>1
      <4>3. i - Len(u) < j - Len(u)
        BY <1>1, <1>6, <2>1
      <4> QED
        BY <1>1, <4>2, <4>3
    <3>2. \A p, q \in DOMAIN v : p < q => v[p] < v[q]
      BY DEF Lists
    <3>3. v[i - Len(u)] < v[j - Len(u)]
      BY <3>1, <3>2, Zenon
    <3> QED
      BY <3>1, <3>3, Zenon
  <2> QED
    BY <1>1, <1>6, <2>1, <2>2, <2>3, <2>4
<1>7. Lists(w, S \cup T)
  BY <1>4, <1>5, <1>6 DEF Lists
<1> QED
  BY <1>7 DEF w

LEMMA ListsAppend ==
  ASSUME NEW S \in SUBSET Nat, NEW u \in Seq(Nat), Lists(u, S), NEW y \in Nat,
         \A x \in S : x < y
  PROVE  Lists(Append(u, y), S \cup {y})
<1>1. Lists(<<y>>, {y})
  <2>1. DOMAIN <<y>> = {1} /\ <<y>>[1] = y
    OBVIOUS
  <2> QED
    BY <2>1 DEF Lists, Range
<1>2. <<y>> \in Seq(Nat) /\ Append(u, y) = u \o <<y>>
  OBVIOUS
<1>3. Lists(u \o <<y>>, S \cup {y})
  BY <1>1, <1>2, ListsJoin
<1> QED
  BY <1>2, <1>3

LEMMA ListsNothing == Lists(<<>>, {}) /\ <<>> \in Seq(Nat)
  BY DEF Lists, Range

\* The place after one that is taken, and all places between two of a list.
LEMMA ListsNext ==
  ASSUME NEW S \in SUBSET Nat, NEW u \in Seq(Nat), Lists(u, S),
         NEW i \in 1 .. Len(u)
  PROVE  /\ u[i] \in S
         /\ \A x \in S : x > u[i] =>
              i + 1 \in 1 .. Len(u) /\ u[i + 1] <= x /\ u[i] < u[i + 1]
<1>1. DOMAIN u = 1 .. Len(u) /\ Len(u) \in Nat /\ i \in Int
  OBVIOUS
<1>2. S = {u[k] : k \in 1 .. Len(u)}
  BY <1>1 DEF Lists, Range
<1>3. ASSUME NEW x \in S, x > u[i]
      PROVE  i + 1 \in 1 .. Len(u) /\ u[i + 1] <= x /\ u[i] < u[i + 1]
  <2>1. PICK k \in 1 .. Len(u) : u[k] = x
    BY <1>2
  <2>2. k > i
    <3>1. CASE k = i
      BY <1>3, <2>1, <3>1
    <3>2. CASE k < i
      <4>1. u[k] < u[i]
        BY <1>1, <3>2 DEF Lists
      <4>2. u[k] \in Nat /\ u[i] \in Nat
        OBVIOUS
      <4> QED
        BY <1>3, <2>1, <4>1, <4>2
    <3> QED
      BY <3>1, <3>2
  <2>3. i + 1 \in 1 .. Len(u)
    BY <1>1, <2>2
  <2>4. u[i] < u[i + 1]
    BY <1>1, <2>3 DEF Lists
  <2>5. CASE k = i + 1
    BY <2>1, <2>3, <2>4, <2>5
  <2>6. CASE k > i + 1
    <3>1. u[i + 1] < u[k]
      BY <1>1, <2>3, <2>6 DEF Lists
    <3>2. u[i + 1] \in Nat /\ x \in Nat
      BY <2>3
    <3> QED
      BY <2>1, <2>3, <2>4, <3>1, <3>2
  <2> QED
    BY <2>2, <2>5, <2>6
<1> QED
  BY <1>2, <1>3

LEMMA ListsOrder ==
  ASSUME NEW S \in SUBSET Nat, NEW u \in Seq(Nat), Lists(u, S),
         NEW i \in 1 .. Len(u), NEW j \in 1 .. Len(u)
  PROVE  u[i] < u[j] <=> i < j
<1>1. DOMAIN u = 1 .. Len(u) /\ i \in Int /\ j \in Int
      /\ u[i] \in Nat /\ u[j] \in Nat
  OBVIOUS
<1>2. i < j => u[i] < u[j]
  BY <1>1 DEF Lists
<1>3. j < i => u[j] < u[i]
  BY <1>1 DEF Lists
<1> QED
  BY <1>1, <1>2, <1>3

-----------------------------------------------------------------------------
\* A text cut into tokens, the first at 1 and the next to come at e.

Token(from, to) ==
  \/ IsString(from, to) \/ IsCharacter(from, to)
  \/ IsLineComment(from, to) \/ IsBlockComment(from, to)

Adjacent(C, from, to) ==
  from \in C /\ to \in C /\ from < to /\ \A d \in C : d <= from \/ to <= d

IsCutTo(C, e) ==
  /\ C \subseteq 1 .. e
  /\ 1 \in C /\ e \in C
  /\ e <= Len(text) + 1
  /\ \A from, to \in C : Adjacent(C, from, to) => Token(from, to)

\* What is kept of a token.
KeptOf(from, to, i) ==
  \/ IsString(from, to) \/ IsCharacter(from, to)
  \/ IsBlockComment(from, to) /\ text[i] = Newline /\ i < Len(text)

TokenKept(from, to) == {i \in from .. to - 1 : KeptOf(from, to, i)}

KeptIn(C) ==
  {i \in 1 .. Len(text) :
     \E from, to \in C :
       /\ Adjacent(C, from, to) /\ from <= i /\ i < to
       /\ KeptOf(from, to, i)}

LEMMA CutGrows ==
  ASSUME text \in Seq(Characters), NEW C, NEW e \in Nat, IsCutTo(C, e),
         NEW f \in Nat, e < f, f <= Len(text) + 1, Token(e, f)
  PROVE  /\ IsCutTo(C \cup {f}, f)
         /\ KeptIn(C \cup {f}) =
              KeptIn(C) \cup TokenKept(e, f)
<1> DEFINE D == C \cup {f}
<1>1. /\ C \subseteq 1 .. e /\ 1 \in C /\ e \in C
      /\ Len(text) \in Nat /\ e >= 1
  BY DEF IsCutTo
<1>2. \A from, to \in D :
        Adjacent(D, from, to) <=> \/ from \in C /\ to \in C /\ Adjacent(C, from, to)
                                  \/ from = e /\ to = f
  <2>1. ASSUME NEW from \in C, NEW to \in C
        PROVE  Adjacent(D, from, to) <=> Adjacent(C, from, to)
    BY <1>1 DEF Adjacent
  <2>2. Adjacent(D, e, f)
    BY <1>1 DEF Adjacent
  <2>3. ASSUME NEW from \in D, Adjacent(D, from, f)
        PROVE  from = e
    BY <1>1, <2>3 DEF Adjacent
  <2>4. ASSUME NEW to \in D
        PROVE  ~ Adjacent(D, f, to)
    BY <1>1 DEF Adjacent
  <2>5. f \notin C
    BY <1>1
  <2> QED
    BY <1>1, <2>1, <2>2, <2>3, <2>4, <2>5
<1>3. C \subseteq D /\ e \in D /\ f \in D /\ D \subseteq 1 .. f
  BY <1>1
<1> HIDE DEF D
<1>4. IsCutTo(D, f)
  <2>1. \A from, to \in D : Adjacent(D, from, to) => Token(from, to)
    BY <1>2 DEF IsCutTo
  <2> QED
    BY <1>1, <1>3, <2>1 DEF IsCutTo
<1>5. KeptIn(D) = KeptIn(C) \cup TokenKept(e, f)
  <2>1. ASSUME NEW i \in KeptIn(D)
        PROVE  i \in KeptIn(C) \cup TokenKept(e, f)
    <3>1. PICK from \in D, to \in D :
            /\ Adjacent(D, from, to) /\ from <= i /\ i < to
            /\ KeptOf(from, to, i)
      BY DEF KeptIn
    <3>2. i \in 1 .. Len(text)
      BY DEF KeptIn
    <3>3. CASE from \in C /\ to \in C /\ Adjacent(C, from, to)
      BY <3>1, <3>2, <3>3 DEF KeptIn
    <3>4. CASE from = e /\ to = f
      <4>1. i \in e .. f - 1
        BY <1>1, <3>1, <3>2, <3>4
      <4> QED
        BY <3>1, <3>4, <4>1 DEF TokenKept
    <3> QED
      BY <1>2, <3>1, <3>3, <3>4
  <2>2. ASSUME NEW i \in KeptIn(C)
        PROVE  i \in KeptIn(D)
    <3>1. PICK from \in C, to \in C :
            /\ Adjacent(C, from, to) /\ from <= i /\ i < to
            /\ KeptOf(from, to, i)
      BY DEF KeptIn
    <3>2. i \in 1 .. Len(text)
      BY DEF KeptIn
    <3>3. from \in D /\ to \in D /\ Adjacent(D, from, to)
      BY <1>2, <1>3, <3>1
    <3> QED
      BY <3>1, <3>2, <3>3 DEF KeptIn
  <2>3. ASSUME NEW i \in TokenKept(e, f)
        PROVE  i \in KeptIn(D)
    <3>1. e \in D /\ f \in D /\ Adjacent(D, e, f)
      BY <1>2, <1>3
    <3>2. i \in 1 .. Len(text) /\ e <= i /\ i < f /\ KeptOf(e, f, i)
      BY <1>1 DEF TokenKept
    <3> QED
      BY <3>1, <3>2 DEF KeptIn
  <2> QED
    BY <2>1, <2>2, <2>3
<1> QED
  BY <1>4, <1>5 DEF D

LEMMA CutStart ==
  ASSUME text \in Seq(Characters)
  PROVE  IsCutTo({1}, 1) /\ KeptIn({1}) = {}
<1>1. Len(text) \in Nat
  OBVIOUS
<1>2. \A from, to \in {1} : ~ Adjacent({1}, from, to)
  BY DEF Adjacent
<1> QED
  BY <1>1, <1>2 DEF IsCutTo, KeptIn

LEMMA KeptBefore ==
  ASSUME NEW C, NEW e \in Nat, IsCutTo(C, e)
  PROVE  KeptIn(C) \in SUBSET Nat /\ \A i \in KeptIn(C) : i < e
<1>1. C \subseteq 1 .. e
  BY DEF IsCutTo
<1>2. ASSUME NEW i \in KeptIn(C)
      PROVE  i \in Nat /\ i < e
  <2>1. PICK to \in C : i < to
    BY DEF KeptIn
  <2>2. i \in Nat
    BY DEF KeptIn
  <2> QED
    BY <1>1, <2>1, <2>2
<1> QED
  BY <1>2

\* A token is of one kind.
LEMMA KindsDiffer ==
  ASSUME NEW from, NEW to
  PROVE  /\ IsString(from, to) => text[from] = Quote
         /\ IsLineComment(from, to) =>
              ~ IsString(from, to) /\ ~ IsCharacter(from, to)
                /\ ~ IsBlockComment(from, to)
         /\ IsBlockComment(from, to) =>
              ~ IsString(from, to) /\ ~ IsCharacter(from, to)
         /\ IsCharacter(from, to) => text[from] # Quote
  BY MarksDiffer DEF IsString, IsLineComment, IsBlockComment, IsCharacter, Starts

-----------------------------------------------------------------------------
\* Within strings: a backslash makes the next character escaped, unless it
\* is escaped itself.

LEMMA Parity ==
  ASSUME NEW n \in Nat
  PROVE  (n + 1) % 2 = 0 <=> n % 2 # 0
  OBVIOUS

LEMMA EscapedMeans ==
  ASSUME NEW f \in Nat, NEW i \in Nat, EscapedAt(f, i + 1)
  PROVE  \E k \in f .. (i + 1) - 1 :
           /\ (i + 1 - k) % 2 = 0
           /\ \A j \in k + 1 .. (i + 1) - 1 : text[j] = Backslash
  BY DEF EscapedAt

LEMMA EscapedNext ==
  ASSUME NEW f \in Nat, NEW i \in Nat, f < i, text[f] # Backslash
  PROVE  EscapedAt(f, i + 1) <=> (~ EscapedAt(f, i) /\ text[i] = Backslash)
<1>1. CASE text[i] # Backslash
  <2>1. ASSUME EscapedAt(f, i + 1)
        PROVE  FALSE
    <3>1. PICK k \in f .. i :
            /\ (i + 1 - k) % 2 = 0
            /\ \A j \in k + 1 .. i : text[j] = Backslash
      <4>1. PICK k \in f .. (i + 1) - 1 :
              /\ (i + 1 - k) % 2 = 0
              /\ \A j \in k + 1 .. (i + 1) - 1 : text[j] = Backslash
        BY <2>1, EscapedMeans
      <4>2. k \in f .. i
        BY <4>1
      <4>3. \A j \in k + 1 .. i : text[j] = Backslash
        <5>1. \A j \in k + 1 .. i : j \in k + 1 .. (i + 1) - 1
          BY <4>2
        <5> QED
          BY <4>1, <5>1, Zenon
      <4> QED
        BY <4>1, <4>2, <4>3, Zenon
    <3>2. CASE k = i
      BY <3>1, <3>2
    <3>3. CASE k < i
      <4>1. i \in k + 1 .. i
        BY <3>3
      <4> QED
        BY <1>1, <3>1, <4>1
    <3> QED
      BY <3>2, <3>3
  <2> QED
    BY <1>1, <2>1
<1>2. CASE text[i] = Backslash
  <2> DEFINE Others == {j \in f .. i - 1 : text[j] # Backslash}
             Back == {n \in Nat : i - n \in Others}
  <2>1. i - f \in Back
    BY DEF Back
  <2>2. PICK n \in Back : \A x \in Back : n <= x
    <3> HIDE DEF Back
    <3>1. Back \in SUBSET Nat
      BY DEF Back
    <3> QED
      BY <2>1, <3>1, LeastNatural
  <2>3. PICK k \in Nat : k = i - n
    BY <2>2
  <2>4. k \in f .. i - 1 /\ text[k] # Backslash
    BY <2>2, <2>3
  <2>5. \A j \in k + 1 .. i - 1 : text[j] = Backslash
    <3>1. ASSUME NEW j \in k + 1 .. i - 1, text[j] # Backslash
          PROVE  FALSE
      <4>1. j \in Others /\ i - j \in Nat /\ i - (i - j) = j
        BY <2>4, <3>1
      <4>2. i - j \in Back
        BY <4>1
      <4> QED
        BY <2>2, <2>3, <4>2
    <3> QED
      BY <3>1
  <2> HIDE DEF Back, Others
  \* k is the only place to count from.
  <2>6. EscapedAt(f, i) <=> (i - k) % 2 = 0
    <3>1. ASSUME NEW x \in f .. i - 1, text[x] # Backslash,
                 \A j \in x + 1 .. i - 1 : text[j] = Backslash
          PROVE  x = k
      <4>1. CASE x < k
        <5>1. k \in x + 1 .. i - 1
          BY <2>4, <4>1
        <5> QED
          BY <2>4, <3>1, <5>1
      <4>2. CASE k < x
        <5>1. x \in k + 1 .. i - 1
          BY <2>4, <4>2
        <5> QED
          BY <2>5, <3>1, <5>1
      <4> QED
        BY <2>4, <4>1, <4>2
    <3> QED
      BY <2>4, <2>5, <3>1 DEF EscapedAt
  <2>7. EscapedAt(f, i + 1) <=> (i + 1 - k) % 2 = 0
    <3>1. ASSUME NEW x \in f .. i, text[x] # Backslash,
                 \A j \in x + 1 .. i : text[j] = Backslash
          PROVE  x = k
      <4>1. x # i
        BY <1>2, <3>1
      <4>2. CASE x < k
        <5>1. k \in x + 1 .. i
          BY <2>4, <4>2
        <5> QED
          BY <2>4, <3>1, <5>1
      <4>3. CASE k < x
        <5>1. x \in k + 1 .. i - 1
          BY <2>4, <4>1, <4>3
        <5> QED
          BY <2>5, <3>1, <5>1
      <4> QED
        BY <2>4, <4>2, <4>3
    <3>2. \A j \in k + 1 .. i : text[j] = Backslash
      <4>1. \A j \in k + 1 .. i : j \in k + 1 .. i - 1 \/ j = i
        BY <2>4
      <4> QED
        BY <1>2, <2>5, <4>1
    <3>3. k \in f .. i
      BY <2>4
    <3>4. f .. (i + 1) - 1 = f .. i /\ \A x : x + 1 .. (i + 1) - 1 = x + 1 .. i
      OBVIOUS
    <3> QED
      BY <2>4, <3>1, <3>2, <3>3, <3>4 DEF EscapedAt
  <2>8. (i + 1 - k) % 2 = 0 <=> (i - k) % 2 # 0
    <3>1. i - k \in Nat /\ i + 1 - k = (i - k) + 1
      BY <2>4
    <3> QED
      BY <3>1, Parity
  <2> QED
    BY <1>2, <2>6, <2>7, <2>8
<1> QED
  BY <1>1, <1>2

LEMMA EscapedFirst ==
  ASSUME NEW f \in Nat
  PROVE  ~ EscapedAt(f, f + 1)
<1>1. ASSUME NEW k \in f .. f + 1 - 1, (f + 1 - k) % 2 = 0
      PROVE  FALSE
  <2>1. k = f /\ f + 1 - k = 1
    OBVIOUS
  <2> QED
    BY <1>1, <2>1
<1> QED
  BY <1>1 DEF EscapedAt

-----------------------------------------------------------------------------
\* The first scanner.

JsonxTypes ==
  /\ text \in Seq(Characters)
  /\ scan \in {"comments", "commas", "over"}
  /\ source \in Seq(Nat) /\ out \in Seq(Nat)
  /\ at \in Nat \ {0}
  /\ in_string \in BOOLEAN /\ escaped \in BOOLEAN

\* A string that begins at f goes on at i.
Unclosed(f, i) ==
  text[f] = Quote /\ \A j \in f + 1 .. i - 1 : ~ Closing(f, j)

Here == IF at <= Len(text) THEN at ELSE Len(text) + 1

\* Outside strings the next token is to come at Here.
Outside ==
  ~ escaped /\ \E C : IsCutTo(C, Here) /\ Lists(out, KeptIn(C))

\* The string that is being read begins at f.
Within ==
  \E C : \E f \in Nat :
    /\ IsCutTo(C, f) /\ f < at /\ at <= Len(text) + 1
    /\ Unclosed(f, at)
    /\ escaped <=> EscapedAt(f, at)
    /\ Lists(out, KeptIn(C) \cup f .. at - 1)

CommentsLeft ==
  scan = "comments" =>
    /\ source = [i \in 1 .. Len(text) |-> i]
    /\ ~ in_string => Outside
    /\ in_string => Within

\* Nothing of the grammar changes while the text stays.
LEMMA SameText ==
  ASSUME text' = text
  PROVE  /\ \A from, to : Token(from, to)' <=> Token(from, to)
         /\ \A from, to : IsString(from, to)' <=> IsString(from, to)
         /\ \A from, to, i : KeptOf(from, to, i)' <=> KeptOf(from, to, i)
         /\ \A f, i : EscapedAt(f, i)' <=> EscapedAt(f, i)
         /\ \A f, i : Unclosed(f, i)' <=> Unclosed(f, i)
<1>1. \A f, i : EscapedAt(f, i)' <=> EscapedAt(f, i)
  BY DEF EscapedAt
<1>2. \A f, i : Closing(f, i)' <=> Closing(f, i)
  BY <1>1 DEF Closing
<1>3. \A i, x, y : Starts(i, x, y)' <=> Starts(i, x, y)
  BY DEF Starts
<1>4. \A from, to : IsString(from, to)' <=> IsString(from, to)
  BY <1>2 DEF IsString
<1>5. \A from, to : IsCharacter(from, to)' <=> IsCharacter(from, to)
  BY <1>3 DEF IsCharacter
<1>6. \A from, to : IsLineComment(from, to)' <=> IsLineComment(from, to)
  BY <1>3 DEF IsLineComment
<1>7. \A from, to : IsBlockComment(from, to)' <=> IsBlockComment(from, to)
  BY <1>3 DEF IsBlockComment
<1>8. \A from, to : Token(from, to)' <=> Token(from, to)
  BY <1>4, <1>5, <1>6, <1>7 DEF Token
<1>9. \A from, to, i : KeptOf(from, to, i)' <=> KeptOf(from, to, i)
  BY <1>4, <1>5, <1>7 DEF KeptOf
<1> QED
  BY <1>1, <1>2, <1>4, <1>8, <1>9 DEF Unclosed

LEMMA SameCut ==
  ASSUME text' = text
  PROVE  /\ \A C, e : IsCutTo(C, e)' <=> IsCutTo(C, e)
         /\ \A C : KeptIn(C)' = KeptIn(C)
<1>1. \A C, e : IsCutTo(C, e)' <=> IsCutTo(C, e)
  BY SameText DEF IsCutTo
<1>2. \A C : KeptIn(C)' = KeptIn(C)
  BY SameText DEF KeptIn
<1> QED
  BY <1>1, <1>2

\* What a step does to these, by the token it has gone past.
LEMMA OutsideNext ==
  ASSUME JsonxTypes, text' = text, at' \in Nat, out' \in Seq(Nat), ~ escaped',
         NEW C, NEW e \in Nat, IsCutTo(C, e),
         e < Here', Token(e, Here'), out' \in Seq(Nat),
         Lists(out', KeptIn(C) \cup TokenKept(e, Here'))
  PROVE  Outside'
<1>1. Here' \in Nat /\ Here' <= Len(text) + 1 /\ Len(text) \in Nat
  BY DEF Here, JsonxTypes
<1>2. PICK h \in Nat : h = Here'
  BY <1>1
<1>3. PICK D : D = C \cup {h}
  OBVIOUS
<1>4. IsCutTo(D, h) /\ Lists(out', KeptIn(D))
  <2>1. text \in Seq(Characters)
    BY DEF JsonxTypes
  <2>2. e < h /\ h <= Len(text) + 1 /\ Token(e, h)
    BY <1>1, <1>2
  <2>3. /\ IsCutTo(C \cup {h}, h)
        /\ KeptIn(C \cup {h}) = KeptIn(C) \cup TokenKept(e, h)
    BY <2>1, <2>2, CutGrows, ZenonT(40)
  <2> QED
    BY <1>2, <1>3, <2>3
<1>5. KeptIn(D)' = KeptIn(D)
  BY SameCut
<1>6. IsCutTo(D, Here)'
  BY <1>2, <1>4, SameText DEF IsCutTo
<1>7. Lists(out, KeptIn(D))'
  BY <1>4, <1>5 DEF Lists
<1> QED
  BY <1>6, <1>7 DEF Outside

LEMMA WithinNext ==
  ASSUME JsonxTypes, text' = text, at' \in Nat, out' \in Seq(Nat),
         NEW C, NEW f \in Nat, IsCutTo(C, f), f < at', at' <= Len(text) + 1,
         Unclosed(f, at'), escaped' <=> EscapedAt(f, at'),
         Lists(out', KeptIn(C) \cup f .. at' - 1)
  PROVE  Within'
<1>1. IsCutTo(C, f)' /\ KeptIn(C)' = KeptIn(C)
  BY SameCut
<1>2. Unclosed(f, at)'
  BY SameText DEF Unclosed
<1>3. (escaped <=> EscapedAt(f, at))'
  BY SameText DEF EscapedAt
<1>4. Lists(out, KeptIn(C) \cup f .. at - 1)'
  BY <1>1 DEF Lists
<1> QED
  BY <1>1, <1>2, <1>3, <1>4 DEF Within

LEMMA KeptOfString ==
  ASSUME NEW from \in Nat, NEW to \in Nat, IsString(from, to)
  PROVE  TokenKept(from, to) = from .. to - 1
  BY DEF TokenKept, KeptOf

LEMMA KeptOfCharacter ==
  ASSUME NEW from \in Nat, NEW to \in Nat, IsCharacter(from, to)
  PROVE  TokenKept(from, to) = {from}
  BY DEF TokenKept, KeptOf, IsCharacter

LEMMA KeptOfLine ==
  ASSUME NEW from \in Nat, NEW to \in Nat, IsLineComment(from, to)
  PROVE  TokenKept(from, to) = {}
  BY KindsDiffer DEF TokenKept, KeptOf

LEMMA KeptOfBlock ==
  ASSUME NEW from \in Nat, NEW to \in Nat, IsBlockComment(from, to)
  PROVE  TokenKept(from, to) =
           {i \in from .. to - 1 : text[i] = Newline /\ i < Len(text)}
  BY KindsDiffer DEF TokenKept, KeptOf

\* The first scanner reads the text itself.
Reading ==
  /\ Len(source) = Len(text) /\ Len(text) \in Nat
  /\ Places = 1 .. Len(text)
  /\ \A i : Inside(i) <=> i <= Len(text)
  /\ \A i \in 1 .. Len(text) : source[i] = i /\ Char(i) = text[i]

LEMMA ReadsText ==
  ASSUME JsonxTypes, CommentsLeft, scan = "comments"
  PROVE  Reading
<1>1. source = [i \in 1 .. Len(text) |-> i] /\ Len(text) \in Nat
  BY DEF JsonxTypes, CommentsLeft
<1>2. DOMAIN source = 1 .. Len(text) /\ Len(source) = Len(text)
  BY <1>1 DEF JsonxTypes
<1>3. \A i \in 1 .. Len(text) : source[i] = i
  BY <1>1
<1> QED
  BY <1>1, <1>2, <1>3 DEF Reading, Places, Inside, Char

LEMMA NextTwoStarts ==
  ASSUME Reading, at \in 1 .. Len(text)
  PROVE  \A x, y : NextTwo(x, y) <=> Starts(at, x, y)
  BY DEF NextTwo, Starts, Reading

LEMMA LeastIsMin ==
  ASSUME NEW S \in SUBSET Nat, S # {}
  PROVE  Min(S) \in S /\ \A i \in S : Min(S) <= i
  BY LeastNatural DEF Min

LEMMA LargerOfTwo ==
  ASSUME NEW x \in Nat, NEW y \in Nat
  PROVE  /\ Max({x, y}) = x \/ Max({x, y}) = y
         /\ Max({x, y}) >= x /\ Max({x, y}) >= y
<1>1. \E z \in {x, y} : \A w \in {x, y} : z >= w
  OBVIOUS
<1>2. Max({x, y}) \in {x, y} /\ \A w \in {x, y} : Max({x, y}) >= w
  BY <1>1 DEF Max
<1> QED
  BY <1>2

\* A step that leaves the text takes the first scanner on.
LEMMA StillComments ==
  ASSUME JsonxTypes, CommentsLeft, scan = "comments",
         UNCHANGED <<text, scan, source>>,
         in_string' => Within', ~ in_string' => Outside'
  PROVE  CommentsLeft'
<1>1. source' = [i \in 1 .. Len(text') |-> i]
  BY DEF CommentsLeft
<1> QED
  BY <1>1 DEF CommentsLeft

LEMMA StringRead ==
  ASSUME JsonxTypes, CommentsLeft, scan = "comments", StringCharacter
  PROVE  CommentsLeft'
<1>1. Reading
  BY ReadsText
<1>2. /\ at \in 1 .. Len(text) /\ in_string /\ text' = text
      /\ at' = at + 1 /\ out' = Append(out, at)
      /\ escaped' = (~ escaped /\ text[at] = Backslash)
      /\ in_string' = (escaped \/ text[at] # Quote)
      /\ UNCHANGED <<text, scan, source>>
  BY <1>1 DEF StringCharacter, Scanning, Keep, Reading, JsonxTypes
<1>3. at \in Nat /\ out \in Seq(Nat) /\ Len(text) \in Nat
      /\ text \in Seq(Characters)
  BY DEF JsonxTypes
<1>4. Within
  BY <1>2 DEF CommentsLeft
<1>5. PICK C : \E f \in Nat :
        /\ IsCutTo(C, f) /\ f < at /\ at <= Len(text) + 1
        /\ Unclosed(f, at)
        /\ escaped <=> EscapedAt(f, at)
        /\ Lists(out, KeptIn(C) \cup f .. at - 1)
  BY <1>4 DEF Within
<1>6. PICK f \in Nat :
        /\ IsCutTo(C, f) /\ f < at /\ at <= Len(text) + 1
        /\ Unclosed(f, at)
        /\ escaped <=> EscapedAt(f, at)
        /\ Lists(out, KeptIn(C) \cup f .. at - 1)
  BY <1>5
<1>7. /\ at' \in Nat /\ out' \in Seq(Nat)
      /\ Lists(out', KeptIn(C) \cup f .. at)
  <2>1. KeptIn(C) \cup f .. at - 1 \in SUBSET Nat
        /\ \A x \in KeptIn(C) \cup f .. at - 1 : x < at
    BY <1>3, <1>6, KeptBefore
  <2>2. Lists(Append(out, at), (KeptIn(C) \cup f .. at - 1) \cup {at})
    BY <1>3, <1>6, <2>1, ListsAppend
  <2>3. (KeptIn(C) \cup f .. at - 1) \cup {at} = KeptIn(C) \cup f .. at
    BY <1>3, <1>6
  <2>4. at' \in Nat /\ out' \in Seq(Nat) /\ out' = Append(out, at)
    BY <1>2, <1>3
  <2> QED
    BY <2>2, <2>3, <2>4
<1>8. escaped' <=> EscapedAt(f, at + 1)
  BY <1>2, <1>3, <1>6, EscapedNext, MarksDiffer DEF Unclosed
<1>9. ASSUME in_string'
      PROVE  Within'
  <2>1. ~ Closing(f, at)
    BY <1>2, <1>6, <1>9 DEF Closing
  <2>2. Unclosed(f, at + 1)
    BY <1>3, <1>6, <2>1 DEF Unclosed
  <2>3. f < at + 1 /\ at + 1 <= Len(text) + 1 /\ (at + 1) - 1 = at
    BY <1>2, <1>3, <1>6
  <2> QED
    BY <1>2, <1>6, <1>7, <1>8, <2>2, <2>3, WithinNext
<1>10. ASSUME ~ in_string'
      PROVE  Outside'
  <2>1. Here' = at + 1
    BY <1>2, <1>3 DEF Here
  <2>2. Closing(f, at)
    BY <1>2, <1>6, <1>10 DEF Closing
  <2>3. IsString(f, at + 1)
    BY <1>3, <1>6, <2>2 DEF IsString, Unclosed
  <2>4. TokenKept(f, at + 1) = f .. at
    BY <1>3, <2>3, KeptOfString
  <2>5. ~ escaped'
    BY <1>2, <1>10, MarksDiffer
  <2>6. Token(f, at + 1) /\ f < at + 1
    BY <1>3, <1>6, <2>3 DEF Token
  <2> QED
    BY <1>2, <1>6, <1>7, <2>1, <2>4, <2>5, <2>6, OutsideNext
<1> QED
  BY <1>2, <1>9, <1>10, StillComments

LEMMA StringOpens ==
  ASSUME JsonxTypes, CommentsLeft, scan = "comments", OpenString
  PROVE  CommentsLeft'
<1>1. Reading
  BY ReadsText
<1>2. /\ at \in 1 .. Len(text) /\ ~ in_string /\ text' = text
      /\ text[at] = Quote
      /\ at' = at + 1 /\ out' = Append(out, at)
      /\ escaped' = escaped /\ in_string'
      /\ UNCHANGED <<text, scan, source>>
  BY <1>1 DEF OpenString, Scanning, Keep, Reading, JsonxTypes
<1>3. at \in Nat /\ out \in Seq(Nat) /\ Len(text) \in Nat
      /\ text \in Seq(Characters) /\ Here = at
  BY <1>2 DEF JsonxTypes, Here
<1>4. PICK C : IsCutTo(C, at) /\ Lists(out, KeptIn(C))
  BY <1>2, <1>3 DEF CommentsLeft, Outside
<1>5. ~ escaped
  BY <1>2 DEF CommentsLeft, Outside
<1>6. Lists(out', KeptIn(C) \cup at .. at)
  <2>1. Lists(Append(out, at), KeptIn(C) \cup {at})
    BY <1>3, <1>4, KeptBefore, ListsAppend
  <2>2. at .. at = {at}
    BY <1>3
  <2> QED
    BY <1>2, <2>1, <2>2
<1>7. escaped' <=> EscapedAt(at, at + 1)
  BY <1>2, <1>3, <1>5, EscapedFirst
<1>8. Unclosed(at, at + 1)
  BY <1>2, <1>3 DEF Unclosed
<1>9. at < at + 1 /\ at + 1 <= Len(text) + 1 /\ (at + 1) - 1 = at
  BY <1>2, <1>3
<1>10. at' \in Nat /\ out' \in Seq(Nat)
  BY <1>2, <1>3
<1>11. Within'
  BY <1>2, <1>3, <1>4, <1>6, <1>7, <1>8, <1>9, <1>10, WithinNext
<1> QED
  BY <1>2, <1>11, StillComments

LEMMA CharacterRead ==
  ASSUME JsonxTypes, CommentsLeft, OtherCharacter
  PROVE  CommentsLeft'
<1>0. scan = "comments"
  BY DEF OtherCharacter, Scanning
<1>1. Reading
  BY <1>0, ReadsText
<1>2. /\ at \in 1 .. Len(text) /\ ~ in_string /\ text' = text
      /\ at' = at + 1 /\ out' = Append(out, at)
      /\ escaped' = escaped /\ ~ in_string'
      /\ UNCHANGED <<text, scan, source>>
  BY <1>1 DEF OtherCharacter, Scanning, Keep, Reading, JsonxTypes
<1>3. at \in Nat /\ out \in Seq(Nat) /\ Len(text) \in Nat
      /\ text \in Seq(Characters) /\ Here = at /\ Here' = at + 1
  BY <1>2 DEF JsonxTypes, Here
<1>4. PICK C : IsCutTo(C, at) /\ Lists(out, KeptIn(C))
  BY <1>0, <1>2, <1>3 DEF CommentsLeft, Outside
<1>5. ~ escaped'
  BY <1>0, <1>2 DEF CommentsLeft, Outside
<1>6. IsCharacter(at, at + 1)
  <2>1. /\ text[at] \notin {Quote, Hash}
        /\ ~ NextTwo(Slash, Slash) /\ ~ NextTwo(Slash, Star)
    BY <1>1, <1>2 DEF OtherCharacter, Reading
  <2>2. \A x, y : NextTwo(x, y) <=> Starts(at, x, y)
    BY <1>1, <1>2, NextTwoStarts
  <2> QED
    BY <2>1, <2>2 DEF IsCharacter
<1>7. TokenKept(at, at + 1) = {at}
  BY <1>3, <1>6, KeptOfCharacter
<1>8. Lists(out', KeptIn(C) \cup TokenKept(at, at + 1))
  BY <1>2, <1>3, <1>4, <1>7, KeptBefore, ListsAppend
<1>9. Token(at, at + 1) /\ at < at + 1
  BY <1>3, <1>6 DEF Token
<1>10. at' \in Nat /\ out' \in Seq(Nat)
  BY <1>2, <1>3
<1>11. Outside'
  BY <1>2, <1>3, <1>4, <1>5, <1>8, <1>9, <1>10, OutsideNext
<1> QED
  BY <1>0, <1>2, <1>11, StillComments

LEMMA LineSkipped ==
  ASSUME JsonxTypes, CommentsLeft, LineComment
  PROVE  CommentsLeft'
<1>0. scan = "comments"
  BY DEF LineComment, Scanning
<1>1. Reading
  BY <1>0, ReadsText
<1> DEFINE ends == {i \in Places : i >= at /\ Char(i) = Newline}
<1>2. /\ at \in 1 .. Len(text) /\ ~ in_string /\ text' = text
      /\ at' = IF ends = {} THEN Len(text) + 1 ELSE Min(ends)
      /\ escaped' = escaped /\ ~ in_string' /\ out' = out
      /\ UNCHANGED <<text, scan, source>>
  BY <1>1 DEF LineComment, Scanning, Reading, JsonxTypes
<1>3. at \in Nat /\ out \in Seq(Nat) /\ Len(text) \in Nat
      /\ text \in Seq(Characters) /\ Here = at
  BY <1>2 DEF JsonxTypes, Here
<1>4. PICK C : IsCutTo(C, at) /\ Lists(out, KeptIn(C))
  BY <1>0, <1>2, <1>3 DEF CommentsLeft, Outside
<1>5. ~ escaped'
  BY <1>0, <1>2 DEF CommentsLeft, Outside
<1>6. \A i : i \in ends <=> i \in at .. Len(text) /\ text[i] = Newline
  BY <1>1, <1>2, <1>3 DEF Reading
<1> HIDE DEF ends
<1>7. text[at] = Hash \/ Starts(at, Slash, Slash)
  <2>1. text[at] = Hash \/ NextTwo(Slash, Slash)
    BY <1>1, <1>2 DEF LineComment, Reading
  <2> QED
    BY <1>1, <1>2, <2>1, NextTwoStarts
<1>8. PICK e \in at .. Len(text) + 1 :
        /\ at' = e
        /\ \A i \in at .. e - 1 : text[i] # Newline
        /\ e = Len(text) + 1 \/ text[e] = Newline
  <2>1. CASE ends = {}
    <3>1. at' = Len(text) + 1 /\ Len(text) + 1 \in at .. Len(text) + 1
      BY <1>2, <1>3, <2>1
    <3>2. \A i \in at .. (Len(text) + 1) - 1 : text[i] # Newline
      BY <1>3, <1>6, <2>1
    <3> QED
      BY <3>1, <3>2
  <2>2. CASE ends # {}
    <3>1. ends \in SUBSET Nat
      BY <1>3, <1>6
    <3>2. Min(ends) \in ends /\ \A i \in ends : Min(ends) <= i
      BY <2>2, <3>1, LeastIsMin
    <3>3. at' = Min(ends) /\ Min(ends) \in at .. Len(text)
          /\ text[Min(ends)] = Newline
      BY <1>2, <1>6, <2>2, <3>2
    <3>4. \A i \in at .. Min(ends) - 1 : text[i] # Newline
      <4>1. ASSUME NEW i \in at .. Min(ends) - 1, text[i] = Newline
            PROVE  FALSE
        <5>1. i \in at .. Len(text) /\ i < Min(ends)
          BY <1>3, <3>3
        <5>2. i \in ends
          BY <1>6, <4>1, <5>1
        <5> QED
          BY <1>3, <3>2, <3>3, <5>1, <5>2
      <4> QED
        BY <4>1
    <3> QED
      BY <1>3, <3>3, <3>4
  <2> QED
    BY <2>1, <2>2
<1>9. at < e
  <2>1. text[at] # Newline
    BY <1>7, MarksDiffer DEF Starts
  <2> QED
    BY <1>2, <1>3, <1>8, <2>1
<1>10. IsLineComment(at, e)
  BY <1>7, <1>8 DEF IsLineComment
<1>11. e \in Nat /\ Here' = e
  BY <1>2, <1>3, <1>8 DEF Here
<1>12. Lists(out', KeptIn(C) \cup TokenKept(at, e))
  <2>1. TokenKept(at, e) = {}
    BY <1>3, <1>10, <1>11, KeptOfLine
  <2>2. KeptIn(C) \cup {} = KeptIn(C)
    OBVIOUS
  <2> QED
    BY <1>2, <1>4, <2>1, <2>2
<1>13. Token(at, e)
  BY <1>10 DEF Token
<1>14. at' \in Nat /\ out' \in Seq(Nat)
  BY <1>2, <1>3, <1>8, <1>11
<1>15. Outside'
  BY <1>2, <1>3, <1>4, <1>5, <1>9, <1>11, <1>12, <1>13, <1>14, OutsideNext
<1> QED
  BY <1>0, <1>2, <1>15, StillComments

\* Where the inner loop of a block comment stops: at the closing mark, or
\* at the last character, or beyond it when there is none to look at.
Closes(stop) ==
  /\ stop \in at + 2 .. Len(text) - 1
  /\ text[stop] = Star /\ text[stop + 1] = Slash
  /\ \A i \in at + 2 .. stop - 1 : ~ Starts(i, Star, Slash)

NeverCloses(stop) ==
  /\ stop \in Nat /\ (stop = at + 2 \/ stop = Len(text))
  /\ stop >= at + 2 /\ stop >= Len(text)
  /\ \A i \in at + 2 .. Len(text) - 1 : ~ Starts(i, Star, Slash)

LEMMA BlockStops ==
  ASSUME JsonxTypes, Reading, at \in 1 .. Len(text),
         NEW ends,
         ends = {i \in Places : /\ i >= at + 2 /\ Inside(i + 1)
                                /\ Char(i) = Star /\ Char(i + 1) = Slash}
  PROVE  /\ ends # {} => Closes(Min(ends))
         /\ ends = {} => NeverCloses(Max({at + 2, Len(source)}))
<1>1. Len(text) \in Nat /\ at \in Nat /\ Len(source) = Len(text)
  BY DEF Reading
<1>2. \A i : i \in ends <=> i \in at + 2 .. Len(text) - 1 /\ Starts(i, Star, Slash)
  <2>1. ASSUME NEW i \in Nat, i + 1 <= Len(text), i >= at + 2
        PROVE  /\ i \in Places /\ Inside(i + 1)
               /\ Char(i) = text[i] /\ Char(i + 1) = text[i + 1]
    BY <1>1, <2>1 DEF Reading
  <2>2. \A i \in Places : i \in Nat /\ (Inside(i + 1) => i + 1 <= Len(text))
    BY <1>1 DEF Reading
  <2> QED
    BY <1>1, <2>1, <2>2 DEF Starts
<1>3. ASSUME ends # {}
      PROVE  Closes(Min(ends))
  <2>1. ends \in SUBSET Nat
    BY <1>1, <1>2
  <2>2. PICK stop : stop = Min(ends)
    OBVIOUS
  <2>3. stop \in ends /\ \A i \in ends : stop <= i
    BY <1>3, <2>1, <2>2, LeastIsMin
  <2>4. stop \in at + 2 .. Len(text) - 1 /\ Starts(stop, Star, Slash)
    BY <1>2, <2>3
  <2>5. ASSUME NEW i \in at + 2 .. stop - 1, Starts(i, Star, Slash)
        PROVE  FALSE
    <3>1. i \in at + 2 .. Len(text) - 1 /\ i < stop
      BY <1>1, <2>4
    <3>2. i \in ends
      BY <1>2, <2>5, <3>1
    <3> QED
      BY <1>1, <2>3, <2>4, <3>1, <3>2
  <2> QED
    BY <2>2, <2>4, <2>5 DEF Closes, Starts
<1>4. ASSUME ends = {}
      PROVE  NeverCloses(Max({at + 2, Len(source)}))
  <2>1. PICK stop : stop = Max({at + 2, Len(text)})
    OBVIOUS
  <2>2. stop = at + 2 \/ stop = Len(text)
    BY <1>1, <2>1, LargerOfTwo
  <2>3. stop >= at + 2 /\ stop >= Len(text)
    BY <1>1, <2>1, LargerOfTwo
  <2>4. \A i \in at + 2 .. Len(text) - 1 : ~ Starts(i, Star, Slash)
    BY <1>2, <1>4
  <2>5. NeverCloses(stop)
    BY <1>1, <2>2, <2>3, <2>4 DEF NeverCloses
  <2> QED
    BY <1>1, <2>1, <2>5
<1> QED
  BY <1>3, <1>4

LEMMA BlockClosed ==
  ASSUME at \in 1 .. Len(text), Len(text) \in Nat, Starts(at, Slash, Star),
         NEW stop, Closes(stop)
  PROVE  /\ IsBlockComment(at, stop + 2)
         /\ TokenKept(at, stop + 2) = {i \in at + 2 .. stop - 1 : text[i] = Newline}
<1>1. stop \in at + 2 .. Len(text) - 1 /\ stop \in Nat /\ at \in Nat
  BY DEF Closes
<1>2. IsBlockComment(at, stop + 2)
  <2>1. (stop + 2) - 3 = stop - 1 /\ (stop + 2) - 2 = stop /\ stop + 2 > at + 3
    BY <1>1
  <2>2. Starts(stop, Star, Slash)
    BY <1>1 DEF Closes, Starts
  <2> QED
    BY <2>1, <2>2 DEF IsBlockComment, Closes
<1>3. (stop + 2) - 1 = stop + 1 /\ stop + 2 \in Nat
  BY <1>1
<1>4. TokenKept(at, stop + 2) =
        {i \in at .. stop + 1 : text[i] = Newline /\ i < Len(text)}
  BY <1>1, <1>2, <1>3, KeptOfBlock
<1>5. ASSUME NEW i \in at .. stop + 1, text[i] = Newline
      PROVE  i \in at + 2 .. stop - 1
  <2>1. i # at /\ i # at + 1
    BY <1>5, MarksDiffer DEF Starts
  <2>2. i # stop /\ i # stop + 1
    BY <1>5, MarksDiffer DEF Closes
  <2> QED
    BY <1>1, <2>1, <2>2
<1>6. \A i \in at + 2 .. stop - 1 : i \in at .. stop + 1 /\ i < Len(text)
  BY <1>1
<1> QED
  BY <1>2, <1>4, <1>5, <1>6

LEMMA BlockOpen ==
  ASSUME at \in 1 .. Len(text), Len(text) \in Nat, Starts(at, Slash, Star),
         NEW stop, NeverCloses(stop)
  PROVE  /\ IsBlockComment(at, Len(text) + 1)
         /\ TokenKept(at, Len(text) + 1) =
              {i \in at + 2 .. stop - 1 : text[i] = Newline}
<1>1. stop \in Nat /\ at \in Nat /\ (stop = at + 2 \/ stop = Len(text))
      /\ stop >= at + 2 /\ stop >= Len(text) /\ at + 1 <= Len(text)
  BY DEF NeverCloses, Starts
<1>2. IsBlockComment(at, Len(text) + 1)
  <2>1. \A i \in at + 2 .. (Len(text) + 1) - 3 : i \in at + 2 .. Len(text) - 1
    BY <1>1
  <2> QED
    BY <2>1 DEF IsBlockComment, NeverCloses
<1>3. (Len(text) + 1) - 1 = Len(text) /\ Len(text) + 1 \in Nat
  OBVIOUS
<1>4. TokenKept(at, Len(text) + 1) =
        {i \in at .. Len(text) : text[i] = Newline /\ i < Len(text)}
  BY <1>1, <1>2, <1>3, KeptOfBlock
<1>5. ASSUME NEW i \in at .. Len(text), text[i] = Newline, i < Len(text)
      PROVE  i \in at + 2 .. stop - 1
  <2>1. i # at /\ i # at + 1
    BY <1>5, MarksDiffer DEF Starts
  <2> QED
    BY <1>1, <1>5, <2>1
<1>6. \A i \in at + 2 .. stop - 1 : i \in at .. Len(text) /\ i < Len(text)
  BY <1>1
<1> QED
  BY <1>2, <1>4, <1>5, <1>6

LEMMA BlockSkipped ==
  ASSUME JsonxTypes, CommentsLeft, BlockComment
  PROVE  CommentsLeft' /\ JsonxTypes'
<1>0. scan = "comments"
  BY DEF BlockComment, Scanning
<1>1. Reading
  BY <1>0, ReadsText
<1>2. PICK ends :
        ends = {i \in Places : /\ i >= at + 2 /\ Inside(i + 1)
                               /\ Char(i) = Star /\ Char(i + 1) = Slash}
  OBVIOUS
<1>3. PICK stop :
        stop = IF ends # {} THEN Min(ends) ELSE Max({at + 2, Len(source)})
  OBVIOUS
<1>4. PICK kept : kept = {i \in at + 2 .. stop - 1 : Char(i) = Newline}
  OBVIOUS
<1>5. /\ at \in 1 .. Len(text) /\ ~ in_string /\ text' = text
      /\ NextTwo(Slash, Star)
      /\ at' = stop + 2
      /\ escaped' = escaped /\ ~ in_string'
      /\ UNCHANGED <<text, scan, source>>
  BY <1>1, <1>2, <1>3 DEF BlockComment, Scanning, Reading, JsonxTypes
<1>6. PICK lines \in [1 .. Cardinality(kept) -> kept] :
        /\ Lists(lines, kept)
        /\ out' = out \o [k \in DOMAIN lines |-> source[lines[k]]]
  BY <1>2, <1>3, <1>4, Zenon DEF BlockComment
<1>7. at \in Nat /\ out \in Seq(Nat) /\ Len(text) \in Nat
      /\ text \in Seq(Characters) /\ Here = at
  BY <1>5 DEF JsonxTypes, Here
<1>8. PICK C : IsCutTo(C, at) /\ Lists(out, KeptIn(C))
  BY <1>0, <1>5, <1>7 DEF CommentsLeft, Outside
<1>9. ~ escaped'
  BY <1>0, <1>5 DEF CommentsLeft, Outside
<1>10. Starts(at, Slash, Star)
  BY <1>1, <1>5, NextTwoStarts
<1>11. PICK e \in Nat :
         /\ e = IF stop + 2 <= Len(text) THEN stop + 2 ELSE Len(text) + 1
         /\ stop \in Nat /\ at < e
         /\ IsBlockComment(at, e)
         /\ TokenKept(at, e) = {i \in at + 2 .. stop - 1 : text[i] = Newline}
         /\ \A i \in at + 2 .. stop - 1 : i \in 1 .. Len(text)
  <2>1. CASE ends # {}
    <3>1. Closes(stop)
      BY <1>1, <1>2, <1>3, <1>5, <2>1, BlockStops
    <3>2. stop \in at + 2 .. Len(text) - 1
      BY <3>1 DEF Closes
    <3>3. /\ stop \in Nat /\ at < stop + 2 /\ stop + 2 \in Nat
          /\ \A i \in at + 2 .. stop - 1 : i \in 1 .. Len(text)
          /\ stop + 2 <= Len(text) \/ stop + 2 = Len(text) + 1
      BY <1>7, <3>2
    <3> QED
      BY <1>5, <1>7, <1>10, <3>1, <3>3, BlockClosed
  <2>2. CASE ends = {}
    <3>1. NeverCloses(stop)
      BY <1>1, <1>2, <1>3, <1>5, <2>2, BlockStops
    <3>2. /\ stop \in Nat /\ (stop = at + 2 \/ stop = Len(text))
          /\ stop >= Len(text) /\ at + 1 <= Len(text)
      <4>1. at < Len(text)
        BY <1>10 DEF Starts
      <4>2. /\ stop \in Nat /\ (stop = at + 2 \/ stop = Len(text))
            /\ stop >= Len(text)
        BY <3>1 DEF NeverCloses
      <4> QED
        BY <1>7, <4>1, <4>2
    <3>3. /\ stop \in Nat /\ at < Len(text) + 1 /\ Len(text) + 1 \in Nat
          /\ \A i \in at + 2 .. stop - 1 : i \in 1 .. Len(text)
          /\ ~ (stop + 2 <= Len(text))
      BY <1>5, <1>7, <3>2
    <3> QED
      BY <1>5, <1>7, <1>10, <3>1, <3>3, BlockOpen
  <2> QED
    BY <2>1, <2>2
<1>12. /\ Here' = e /\ e <= Len(text) + 1
       /\ kept = TokenKept(at, e)
  <2>1. Here' = e /\ e <= Len(text) + 1
    BY <1>5, <1>7, <1>11 DEF Here
  <2>2. \A i \in at + 2 .. stop - 1 : Char(i) = text[i]
    BY <1>1, <1>11 DEF Reading
  <2> QED
    BY <1>4, <1>11, <2>1, <2>2
<1>13. /\ \A i \in kept : i \in 1 .. Len(text) /\ i >= at
       /\ IsFiniteSet(kept)
  <2>1. \A i \in kept : i \in 1 .. Len(text) /\ i >= at
    BY <1>4, <1>7, <1>11
  <2>2. IsFiniteSet(1 .. Len(text))
    BY <1>7, FS_Interval
  <2>3. kept \subseteq 1 .. Len(text)
    BY <2>1
  <2> QED
    BY <2>1, <2>2, <2>3, FS_Subset
<1>14. out' = out \o lines /\ lines \in Seq(Nat)
  <2>1. Cardinality(kept) \in Nat
    BY <1>13, FS_CardinalityType
  <2>2. \A k \in DOMAIN lines : source[lines[k]] = lines[k]
    BY <1>1, <1>6, <1>13 DEF Reading
  <2>3. [k \in DOMAIN lines |-> source[lines[k]]] = lines
    BY <1>6, <2>2
  <2>4. lines \in [1 .. Cardinality(kept) -> Nat]
    BY <1>6, <1>13
  <2>5. lines \in Seq(Nat)
    BY <2>1, <2>4
  <2> QED
    BY <1>6, <2>3, <2>5
<1>15. Lists(out', KeptIn(C) \cup TokenKept(at, e))
  <2>1. \A x \in KeptIn(C), y \in kept : x < y
    BY <1>7, <1>8, <1>13, KeptBefore
  <2>2. kept \in SUBSET Nat /\ KeptIn(C) \in SUBSET Nat
    BY <1>7, <1>8, <1>13, KeptBefore
  <2>3. Lists(out \o lines, KeptIn(C) \cup kept)
    BY <1>6, <1>7, <1>8, <1>14, <2>1, <2>2, ListsJoin
  <2> QED
    BY <1>12, <1>14, <2>3
<1>16. Token(at, e)
  BY <1>11 DEF Token
<1>17. at' \in Nat /\ out' \in Seq(Nat)
  BY <1>5, <1>7, <1>11, <1>14
<1>18. Outside'
  BY <1>5, <1>7, <1>8, <1>9, <1>11, <1>12, <1>15, <1>16, <1>17, OutsideNext
<1>19. JsonxTypes'
  <2>1. at' # 0 /\ scan' = scan /\ source' = source
    BY <1>5, <1>7, <1>11
  <2>2. in_string' = in_string
    BY DEF BlockComment
  <2>3. text' = text /\ escaped' = escaped
    BY <1>5
  <2> QED
    BY <1>17, <2>1, <2>2, <2>3 DEF JsonxTypes
<1> QED
  BY <1>0, <1>5, <1>18, <1>19, StillComments

-----------------------------------------------------------------------------
\* The second scanner.

\* i is in the token from .. to - 1.
Spans(C, from, to, i) == Adjacent(C, from, to) /\ from <= i /\ i < to

InString(C, i) ==
  \E from, to \in C : Spans(C, from, to, i) /\ IsString(from, to)

Dropped(C, i) ==
  /\ text[i] = Comma /\ ~ InString(C, i)
  /\ \E j \in KeptIn(C) :
       /\ j > i /\ text[j] \in Closers
       /\ \A k \in KeptIn(C) : i < k /\ k < j => text[k] \in Blanks

\* Before the character at i is read, quoted and skipped hold of the string
\* that it is in, if it is in one.
Attuned(C, i, quoted, skipped) ==
  \A from, to \in C :
    Spans(C, from, to, i) =>
      /\ quoted <=> IsString(from, to) /\ from < i
      /\ skipped <=> quoted /\ EscapedAt(from, i)

\* What is to stay of the places before the k-th of u.
Survivors(C, u, k) ==
  {i \in KeptIn(C) : ~ Dropped(C, i) /\ (k <= Len(u) => i < u[k])}

Tracks(C) ==
  /\ IsCutTo(C, Len(text) + 1)
  /\ Lists(source, KeptIn(C))
  /\ at <= Len(source) + 1
  /\ Lists(out, Survivors(C, source, at))
  /\ at <= Len(source) => Attuned(C, source[at], in_string, escaped)

CommasLeft == scan = "commas" => \E C : Tracks(C)

LEMMA SpansApart ==
  ASSUME NEW C \in SUBSET Nat, NEW f \in C, NEW e \in C, NEW g \in C, NEW h \in C,
         NEW i \in Nat, NEW j \in Nat, i <= j,
         Spans(C, f, e, i), Spans(C, g, h, j)
  PROVE  (f = g /\ e = h) \/ e <= g
  BY DEF Spans, Adjacent

LEMMA StringKept ==
  ASSUME text \in Seq(Characters), NEW C, IsCutTo(C, Len(text) + 1),
         NEW f \in C, NEW e \in C, Adjacent(C, f, e), IsString(f, e),
         NEW i \in f .. e - 1
  PROVE  i \in KeptIn(C)
<1>1. C \subseteq 1 .. Len(text) + 1 /\ Len(text) \in Nat
  BY DEF IsCutTo
<1>2. i \in 1 .. Len(text) /\ f <= i /\ i < e
  BY <1>1
<1> QED
  BY <1>2 DEF KeptIn, KeptOf

LEMMA CutTypes ==
  ASSUME text \in Seq(Characters), NEW C, IsCutTo(C, Len(text) + 1)
  PROVE  /\ C \in SUBSET Nat /\ KeptIn(C) \in SUBSET (1 .. Len(text))
         /\ KeptIn(C) \in SUBSET Nat
         /\ \A i \in KeptIn(C) :
              \E from, to \in C : Spans(C, from, to, i) /\ KeptOf(from, to, i)
<1>1. C \in SUBSET Nat
  BY DEF IsCutTo
<1>2. KeptIn(C) \in SUBSET (1 .. Len(text)) /\ KeptIn(C) \in SUBSET Nat
  BY DEF KeptIn
<1>3. \A i \in KeptIn(C) :
        \E from, to \in C : Spans(C, from, to, i) /\ KeptOf(from, to, i)
  BY DEF KeptIn, Spans
<1> QED
  BY <1>1, <1>2, <1>3

\* A place that is kept and not the first of its string follows one that is
\* kept as well: no string begins between two places of the list.
LEMMA NoStringBetween ==
  ASSUME text \in Seq(Characters), NEW C, IsCutTo(C, Len(text) + 1),
         NEW u \in Seq(Nat), Lists(u, KeptIn(C)),
         NEW i \in 1 .. Len(u), i + 1 \in 1 .. Len(u),
         NEW g \in C, NEW h \in C, Spans(C, g, h, u[i + 1]), IsString(g, h),
         g > u[i]
  PROVE  g = u[i + 1]
<1>1. C \in SUBSET Nat /\ KeptIn(C) \in SUBSET Nat
  BY CutTypes
<1>2. g \in g .. h - 1 /\ Adjacent(C, g, h) /\ g <= u[i + 1]
  BY <1>1 DEF Spans, Adjacent
<1>3. g \in KeptIn(C)
  BY <1>2, StringKept
<1>4. u[i + 1] <= g
  BY <1>1, <1>3, ListsNext
<1>5. u[i + 1] \in Nat /\ g \in Nat
  BY <1>1
<1> QED
  BY <1>2, <1>4, <1>5

LEMMA AttunedNext ==
  ASSUME text \in Seq(Characters), NEW C, IsCutTo(C, Len(text) + 1),
         NEW u \in Seq(Nat), Lists(u, KeptIn(C)),
         NEW i \in 1 .. Len(u), i + 1 \in 1 .. Len(u),
         NEW q1 \in BOOLEAN, NEW s1 \in BOOLEAN,
         NEW q2 \in BOOLEAN, NEW s2 \in BOOLEAN,
         Attuned(C, u[i], q1, s1),
         q1 => /\ s2 <=> ~ s1 /\ text[u[i]] = Backslash
               /\ q2 <=> s1 \/ text[u[i]] # Quote,
         ~ q1 => (s2 <=> s1) /\ (q2 <=> text[u[i]] = Quote)
  PROVE  Attuned(C, u[i + 1], q2, s2)
<1>1. /\ C \in SUBSET Nat /\ KeptIn(C) \in SUBSET Nat
      /\ KeptIn(C) \in SUBSET (1 .. Len(text)) /\ Len(text) \in Nat
  BY CutTypes
<1>2. PICK p \in Nat : p = u[i]
  OBVIOUS
<1>3. PICK q \in Nat : q = u[i + 1]
  OBVIOUS
<1>4. p < q
  BY <1>1, <1>2, <1>3, ListsOrder
<1>5. p \in KeptIn(C) /\ q \in KeptIn(C)
  BY <1>1, <1>2, <1>3, ListsNext
<1>6. \A x \in KeptIn(C) : x > p => q <= x
  BY <1>1, <1>2, <1>3, ListsNext
<1>7. PICK f \in C, e \in C : Spans(C, f, e, p) /\ KeptOf(f, e, p)
  BY <1>5, CutTypes
<1>8. f \in Nat /\ e \in Nat /\ f <= p /\ p < e /\ Adjacent(C, f, e)
  BY <1>1, <1>7 DEF Spans
<1>9. /\ q1 <=> IsString(f, e) /\ f < p
      /\ s1 <=> q1 /\ EscapedAt(f, p)
  BY <1>2, <1>7 DEF Attuned
<1>10. /\ q1 => /\ s2 <=> ~ s1 /\ text[p] = Backslash
                /\ q2 <=> s1 \/ text[p] # Quote
       /\ ~ q1 => (s2 <=> s1) /\ (q2 <=> text[p] = Quote)
  BY <1>2
<1>11. CASE IsString(f, e) /\ p + 1 < e
  \* The next place is in the same string.
  <2>1. q = p + 1
    <3>1. p + 1 \in f .. e - 1
      BY <1>8, <1>11
    <3>2. p + 1 \in KeptIn(C)
      BY <1>8, <1>11, <3>1, StringKept
    <3>3. q <= p + 1
      BY <1>6, <3>2
    <3> QED
      BY <1>4, <3>3
  <2>2. Spans(C, f, e, q)
    BY <1>8, <1>11, <2>1 DEF Spans
  <2>3. ASSUME NEW g \in C, NEW h \in C, Spans(C, g, h, q)
        PROVE  g = f /\ h = e
    <3>1. (f = g /\ e = h) \/ e <= g
      <4>1. q <= q
        OBVIOUS
      <4> QED
        BY <1>1, <2>2, <2>3, <4>1, SpansApart, Zenon
    <3>2. g <= q /\ q < e /\ g \in Nat
      BY <1>1, <1>11, <2>1, <2>3 DEF Spans
    <3> QED
      BY <1>8, <3>1, <3>2
  <2>4. text[f] = Quote
    BY <1>11 DEF IsString
  <2>5. q2 /\ (s2 <=> EscapedAt(f, q))
    <3>1. CASE p = f
      <4>1. ~ q1 /\ ~ s1 /\ text[p] = Quote
        BY <1>8, <1>9, <2>4, <3>1
      <4>2. ~ EscapedAt(f, q)
        BY <1>8, <2>1, <3>1, EscapedFirst
      <4> QED
        BY <1>10, <4>1, <4>2
    <3>2. CASE p # f
      <4>1. f < p /\ q1 /\ (s1 <=> EscapedAt(f, p))
        BY <1>8, <1>9, <1>11, <3>2
      <4>2. p \in f + 1 .. e - 2
        BY <1>8, <1>11, <4>1
      <4>3. ~ Closing(f, p)
        BY <1>11, <4>2 DEF IsString
      <4>4. q2
        BY <1>10, <4>1, <4>3 DEF Closing
      <4>5. text[f] # Backslash
        BY <2>4, MarksDiffer
      <4>6. EscapedAt(f, p + 1) <=> (~ EscapedAt(f, p) /\ text[p] = Backslash)
        BY <1>8, <4>1, <4>5, EscapedNext
      <4> QED
        BY <1>10, <2>1, <4>1, <4>4, <4>6
    <3> QED
      BY <3>1, <3>2
  <2>6. f < q
    BY <1>8, <2>1
  <2>7. Attuned(C, q, q2, s2)
    BY <1>11, <2>3, <2>5, <2>6 DEF Attuned
  <2> QED
    BY <1>3, <2>7
<1>12. CASE ~ (IsString(f, e) /\ p + 1 < e)
  \* No string goes on after p.
  <2>1. ~ q2 /\ ~ s2
    <3>1. CASE IsString(f, e)
      <4>1. e = p + 1 /\ e <= q /\ q <= Len(text)
        BY <1>1, <1>4, <1>5, <1>8, <1>12, <3>1
      <4>2. e > f + 1 /\ Closing(f, p)
        <5>1. e > f + 1 /\ Closing(f, e - 1)
          BY <1>1, <3>1, <4>1 DEF IsString
        <5>2. e - 1 = p
          BY <1>8, <4>1
        <5> QED
          BY <5>1, <5>2
      <4>3. f < p
        BY <1>8, <4>1, <4>2
      <4>4. q1 /\ ~ s1 /\ text[p] = Quote
        BY <1>9, <3>1, <4>2, <4>3 DEF Closing
      <4> QED
        BY <1>10, <4>4, MarksDiffer
    <3>2. CASE ~ IsString(f, e)
      <4>1. text[p] # Quote
        <5>1. CASE IsCharacter(f, e)
          <6>1. p = f
            BY <1>8, <5>1 DEF IsCharacter
          <6> QED
            BY <5>1, <6>1, KindsDiffer
        <5>2. CASE text[p] = Newline
          BY <5>2, MarksDiffer
        <5> QED
          BY <1>7, <3>2, <5>1, <5>2 DEF KeptOf
      <4>2. ~ q1 /\ ~ s1
        BY <1>9, <3>2
      <4> QED
        BY <1>10, <4>1, <4>2
    <3> QED
      BY <3>1, <3>2
  <2>2. ASSUME NEW g \in C, NEW h \in C, Spans(C, g, h, q), IsString(g, h)
        PROVE  ~ (g < q)
    <3>1. (f = g /\ e = h) \/ e <= g
      <4>1. p <= q
        BY <1>4
      <4> QED
        BY <1>1, <1>7, <2>2, <4>1, SpansApart, Zenon
    <3>2. CASE f = g /\ e = h
      <4>1. q < e /\ e <= p + 1
        BY <1>8, <1>12, <2>2, <3>2 DEF Spans
      <4> QED
        BY <1>4, <1>8, <4>1
    <3>3. CASE e <= g
      <4>1. g > p /\ g \in Nat
        BY <1>1, <1>8, <3>3
      <4>2. Spans(C, g, h, u[i + 1]) /\ g > u[i]
        BY <1>2, <1>3, <2>2, <4>1
      <4>3. g = u[i + 1]
        BY <2>2, <4>2, NoStringBetween
      <4> QED
        BY <1>3, <4>3
    <3> QED
      BY <3>1, <3>2, <3>3
  <2>3. Attuned(C, q, q2, s2)
    BY <2>1, <2>2 DEF Attuned
  <2> QED
    BY <1>3, <2>3
<1> QED
  BY <1>11, <1>12

\* Nothing of a list is before its first place.
LEMMA ListsFirst ==
  ASSUME NEW S \in SUBSET Nat, NEW u \in Seq(Nat), Lists(u, S), 1 <= Len(u)
  PROVE  u[1] \in S /\ \A x \in S : u[1] <= x
<1>1. 1 \in 1 .. Len(u) /\ DOMAIN u = 1 .. Len(u)
  OBVIOUS
<1>2. S = {u[k] : k \in 1 .. Len(u)}
  BY <1>1 DEF Lists, Range
<1>3. ASSUME NEW k \in 1 .. Len(u)
      PROVE  u[1] <= u[k]
  <2>1. ~ (k < 1)
    OBVIOUS
  <2>2. ~ (u[k] < u[1])
    BY <1>1, <2>1, ListsOrder
  <2> QED
    BY <1>1, <2>2
<1> QED
  BY <1>1, <1>2, <1>3

LEMMA AttunedFirst ==
  ASSUME text \in Seq(Characters), NEW C, IsCutTo(C, Len(text) + 1),
         NEW u \in Seq(Nat), Lists(u, KeptIn(C)), 1 <= Len(u)
  PROVE  Attuned(C, u[1], FALSE, FALSE)
<1>1. C \in SUBSET Nat /\ KeptIn(C) \in SUBSET Nat
  BY CutTypes
<1>2. \A x \in KeptIn(C) : u[1] <= x
  BY <1>1, ListsFirst
<1>3. ASSUME NEW g \in C, NEW h \in C, Spans(C, g, h, u[1]), IsString(g, h)
      PROVE  ~ (g < u[1])
  <2>1. u[1] \in Nat
    OBVIOUS
  <2>2. g \in g .. h - 1 /\ Adjacent(C, g, h)
    BY <1>1, <1>3, <2>1 DEF Spans, Adjacent
  <2>3. g \in KeptIn(C)
    BY <1>3, <2>2, StringKept
  <2> QED
    BY <1>1, <1>2, <2>1, <2>3
<1> QED
  BY <1>3 DEF Attuned

LEMMA ListsSplit ==
  ASSUME NEW S \in SUBSET Nat, NEW u \in Seq(Nat), Lists(u, S),
         NEW k \in 1 .. Len(u), NEW x \in S
  PROVE  (k + 1 <= Len(u) => x < u[k + 1]) <=> (x < u[k] \/ x = u[k])
<1>1. u[k] \in Nat /\ x \in Nat /\ k \in Nat /\ Len(u) \in Nat
  OBVIOUS
<1>2. x > u[k] => k + 1 \in 1 .. Len(u) /\ u[k + 1] <= x /\ u[k] < u[k + 1]
  BY ListsNext
<1>3. CASE k + 1 <= Len(u)
  <2>1. k + 1 \in 1 .. Len(u) /\ u[k + 1] \in Nat /\ k < k + 1
    BY <1>1, <1>3
  <2>2. u[k] < u[k + 1]
    BY <2>1, ListsOrder
  <2> QED
    BY <1>1, <1>2, <1>3, <2>1, <2>2
<1>4. CASE ~ (k + 1 <= Len(u))
  BY <1>1, <1>2, <1>4
<1> QED
  BY <1>3, <1>4

LEMMA SurvivorsNext ==
  ASSUME text \in Seq(Characters), NEW C, IsCutTo(C, Len(text) + 1),
         NEW u \in Seq(Nat), Lists(u, KeptIn(C)), NEW k \in 1 .. Len(u)
  PROVE  /\ \A x \in Survivors(C, u, k) : x < u[k]
         /\ Survivors(C, u, k) \in SUBSET Nat
         /\ Dropped(C, u[k]) => Survivors(C, u, k + 1) = Survivors(C, u, k)
         /\ ~ Dropped(C, u[k]) =>
              Survivors(C, u, k + 1) = Survivors(C, u, k) \cup {u[k]}
<1>1. KeptIn(C) \in SUBSET Nat
  BY CutTypes
<1>2. u[k] \in KeptIn(C)
  BY <1>1, ListsNext
<1>3. \A x \in KeptIn(C) :
        (k + 1 <= Len(u) => x < u[k + 1]) <=> (x < u[k] \/ x = u[k])
  BY <1>1, ListsSplit
<1>4. /\ \A x \in Survivors(C, u, k) : x < u[k]
      /\ Survivors(C, u, k) \in SUBSET Nat
  BY <1>1 DEF Survivors
<1>5. \A x : x \in Survivors(C, u, k + 1) <=>
                x \in KeptIn(C) /\ ~ Dropped(C, x) /\ (x < u[k] \/ x = u[k])
  BY <1>3 DEF Survivors
<1>6. \A x : x \in Survivors(C, u, k) <=>
                x \in KeptIn(C) /\ ~ Dropped(C, x) /\ x < u[k]
  <2>1. k <= Len(u)
    OBVIOUS
  <2> QED
    BY <2>1 DEF Survivors
<1>7. ASSUME Dropped(C, u[k])
      PROVE  Survivors(C, u, k + 1) = Survivors(C, u, k)
  BY <1>5, <1>6, <1>7
<1>8. ASSUME ~ Dropped(C, u[k])
      PROVE  Survivors(C, u, k + 1) = Survivors(C, u, k) \cup {u[k]}
  BY <1>2, <1>5, <1>6, <1>8
<1> QED
  BY <1>4, <1>7, <1>8

\* What the second scanner sees of a comma is what the grammar says of it.
LEMMA TrailingMeans ==
  ASSUME JsonxTypes, NEW C, IsCutTo(C, Len(text) + 1),
         Lists(source, KeptIn(C)), at \in 1 .. Len(source),
         ~ InString(C, source[at])
  PROVE  Trailing <=> Dropped(C, source[at])
<1>1. /\ KeptIn(C) \in SUBSET Nat /\ source \in Seq(Nat)
      /\ text \in Seq(Characters)
  BY CutTypes DEF JsonxTypes
<1>2. /\ DOMAIN source = 1 .. Len(source)
      /\ KeptIn(C) = {source[i] : i \in 1 .. Len(source)}
  <2>1. DOMAIN source = 1 .. Len(source)
    BY <1>1
  <2>2. KeptIn(C) = {source[i] : i \in DOMAIN source}
    BY DEF Lists, Range
  <2> QED
    BY <2>1, <2>2
<1>3. \A i, j \in 1 .. Len(source) : source[i] < source[j] <=> i < j
  BY <1>1, ListsOrder
<1>4. ASSUME Trailing
      PROVE  Dropped(C, source[at])
  <2>1. PICK j \in 1 .. Len(source) :
          /\ j > at /\ text[source[j]] \in Closers
          /\ \A i \in at + 1 .. j - 1 : text[source[i]] \in Blanks
    BY <1>2, <1>4 DEF Trailing, Char, Places
  <2>2. source[j] \in KeptIn(C) /\ source[at] < source[j]
    BY <1>2, <1>3, <2>1
  <2>3. ASSUME NEW k \in KeptIn(C), source[at] < k, k < source[j]
        PROVE  text[k] \in Blanks
    <3>1. PICK i \in 1 .. Len(source) : source[i] = k
      BY <1>2
    <3>2. at < i /\ i < j
      BY <1>3, <2>3, <3>1
    <3>3. i \in at + 1 .. j - 1
      BY <3>2
    <3> QED
      BY <2>1, <3>1, <3>3
  <2>4. source[j] > source[at]
    BY <1>1, <2>2
  <2>5. text[source[at]] = Comma
    BY <1>4 DEF Trailing, Char
  <2> QED
    BY <2>1, <2>2, <2>3, <2>4, <2>5 DEF Dropped
<1>5. ASSUME Dropped(C, source[at])
      PROVE  Trailing
  <2>1. PICK y \in KeptIn(C) :
          /\ y > source[at] /\ text[y] \in Closers
          /\ \A k \in KeptIn(C) : source[at] < k /\ k < y => text[k] \in Blanks
    BY <1>5 DEF Dropped
  <2>2. PICK j \in 1 .. Len(source) : source[j] = y
    BY <1>2
  <2>3. source[at] < source[j]
    BY <1>1, <2>1, <2>2
  <2>4. at < j
    BY <1>3, <2>3
  <2>5. ASSUME NEW i \in at + 1 .. j - 1
        PROVE  text[source[i]] \in Blanks
    <3>1. i \in 1 .. Len(source) /\ at < i /\ i < j
      OBVIOUS
    <3>2. source[i] \in KeptIn(C) /\ source[at] < source[i] /\ source[i] < y
      BY <1>2, <1>3, <2>2, <3>1
    <3> QED
      BY <2>1, <3>2
  <2>6. text[source[at]] = Comma
    BY <1>5 DEF Dropped
  <2>7. j > at
    BY <2>4
  <2> QED
    BY <1>2, <2>1, <2>2, <2>5, <2>6, <2>7 DEF Trailing, Char, Places
<1> QED
  BY <1>4, <1>5

\* None of this changes while the text stays.
LEMMA SameLists ==
  ASSUME text' = text
  PROVE  /\ \A C, u, k : Survivors(C, u, k)' = Survivors(C, u, k)
         /\ \A C, i, q, e : Attuned(C, i, q, e)' <=> Attuned(C, i, q, e)
         /\ \A C, i : Dropped(C, i)' <=> Dropped(C, i)
<1>1. \A f, e : IsString(f, e)' <=> IsString(f, e)
  BY SameText
<1>2. \A C, i : InString(C, i)' <=> InString(C, i)
  BY <1>1 DEF InString, Spans, Adjacent
<1>3. \A C : KeptIn(C)' = KeptIn(C)
  BY SameCut
<1>4. \A C, i : Dropped(C, i)' <=> Dropped(C, i)
  BY <1>2, <1>3 DEF Dropped
<1>5. \A C, u, k : Survivors(C, u, k)' = Survivors(C, u, k)
  BY <1>3, <1>4 DEF Survivors
<1>6. \A f, i : EscapedAt(f, i)' <=> EscapedAt(f, i)
  BY SameText
<1>7. \A C, i, q, e : Attuned(C, i, q, e)' <=> Attuned(C, i, q, e)
  BY <1>1, <1>6 DEF Attuned, Spans, Adjacent
<1> QED
  BY <1>4, <1>5, <1>7

\* A step that leaves the text takes the second scanner on.
LEMMA StillCommas ==
  ASSUME JsonxTypes, scan = "commas", UNCHANGED <<text, scan, source>>,
         NEW C, Tracks(C), at \in 1 .. Len(source), at' = at + 1,
         in_string' \in BOOLEAN, escaped' \in BOOLEAN,
         in_string => /\ escaped' <=> ~ escaped /\ Char(at) = Backslash
                      /\ in_string' <=> escaped \/ Char(at) # Quote,
         ~ in_string => /\ escaped' <=> escaped
                        /\ in_string' <=> Char(at) = Quote,
         \/ Dropped(C, source[at]) /\ out' = out
         \/ ~ Dropped(C, source[at]) /\ out' = Append(out, source[at])
  PROVE  CommasLeft'
<1>1. /\ text \in Seq(Characters) /\ source \in Seq(Nat) /\ out \in Seq(Nat)
      /\ in_string \in BOOLEAN /\ escaped \in BOOLEAN
      /\ at \in Nat /\ Len(source) \in Nat /\ source[at] \in Nat
      /\ text' = text /\ source' = source
  BY DEF JsonxTypes
<1>2. /\ IsCutTo(C, Len(text) + 1) /\ Lists(source, KeptIn(C))
      /\ Lists(out, Survivors(C, source, at))
      /\ Attuned(C, source[at], in_string, escaped)
  BY <1>1 DEF Tracks
<1>3. Lists(out', Survivors(C, source, at + 1))
  <2>1. /\ \A x \in Survivors(C, source, at) : x < source[at]
        /\ Survivors(C, source, at) \in SUBSET Nat
        /\ Dropped(C, source[at]) =>
             Survivors(C, source, at + 1) = Survivors(C, source, at)
        /\ ~ Dropped(C, source[at]) =>
             Survivors(C, source, at + 1)
               = Survivors(C, source, at) \cup {source[at]}
    <3>1. PICK u \in Seq(Nat) : u = source
      BY <1>1
    <3>2. PICK k \in 1 .. Len(u) : k = at
      BY <3>1
    <3>3. IsCutTo(C, Len(text) + 1) /\ Lists(u, KeptIn(C))
      BY <1>2, <3>1
    <3>4. /\ \A x \in Survivors(C, u, k) : x < u[k]
          /\ Survivors(C, u, k) \in SUBSET Nat
          /\ Dropped(C, u[k]) => Survivors(C, u, k + 1) = Survivors(C, u, k)
          /\ ~ Dropped(C, u[k]) =>
               Survivors(C, u, k + 1) = Survivors(C, u, k) \cup {u[k]}
      BY <1>1, <3>3, SurvivorsNext
    <3> QED
      BY <3>1, <3>2, <3>4
  <2>2. Lists(Append(out, source[at]),
              Survivors(C, source, at) \cup {source[at]})
    BY <1>1, <1>2, <2>1, ListsAppend
  <2> QED
    BY <1>2, <2>1, <2>2
<1>4. ASSUME at + 1 <= Len(source)
      PROVE  Attuned(C, source[at + 1], in_string', escaped')
  <2>1. at + 1 \in 1 .. Len(source)
    BY <1>1, <1>4
  <2>2. PICK q2 \in BOOLEAN, s2 \in BOOLEAN : q2 = in_string' /\ s2 = escaped'
    OBVIOUS
  <2>3. /\ in_string => /\ s2 <=> ~ escaped /\ text[source[at]] = Backslash
                        /\ q2 <=> escaped \/ text[source[at]] # Quote
        /\ ~ in_string => (s2 <=> escaped) /\ (q2 <=> text[source[at]] = Quote)
    BY <2>2 DEF Char
  <2>4. Attuned(C, source[at + 1], q2, s2)
    BY <1>1, <1>2, <2>1, <2>3, AttunedNext, ZenonT(40)
  <2> QED
    BY <2>2, <2>4
<1>5. Tracks(C)'
  <2>1. (IsCutTo(C, Len(text) + 1))' /\ KeptIn(C)' = KeptIn(C)
    <3>1. IsCutTo(C, Len(text) + 1)' <=> IsCutTo(C, Len(text) + 1)
      BY <1>1, SameText DEF IsCutTo
    <3> QED
      BY <1>2, <3>1, SameCut
  <2>2. Survivors(C, source, at)' = Survivors(C, source, at + 1)
    BY <1>1, SameCut, SameLists DEF Survivors
  <2>3. Attuned(C, source[at], in_string, escaped)'
          <=> Attuned(C, source[at + 1], in_string', escaped')
    BY <1>1, SameText DEF Attuned, Spans, Adjacent
  <2>4. (at <= Len(source) + 1)'
    BY <1>1
  <2>5. (at <= Len(source))' <=> at + 1 <= Len(source)
    BY <1>1
  <2>6. Lists(source, KeptIn(C))'
    BY <1>1, <1>2, <2>1 DEF Lists
  <2>7. Lists(out, Survivors(C, source, at))'
    BY <1>3, <2>2 DEF Lists
  <2>8. (at <= Len(source) => Attuned(C, source[at], in_string, escaped))'
    BY <1>4, <2>3, <2>5
  <2> QED
    BY <2>1, <2>4, <2>6, <2>7, <2>8 DEF Tracks
<1> QED
  BY <1>5 DEF CommasLeft

\* Whether the scanner is in a string where the grammar has one.
LEMMA StringSeen ==
  ASSUME JsonxTypes, NEW C, Tracks(C), at \in 1 .. Len(source)
  PROVE  /\ in_string => InString(C, source[at])
         /\ ~ in_string /\ Char(at) # Quote => ~ InString(C, source[at])
<1>1. /\ IsCutTo(C, Len(text) + 1) /\ Lists(source, KeptIn(C))
      /\ Attuned(C, source[at], in_string, escaped)
      /\ text \in Seq(Characters) /\ source \in Seq(Nat)
  BY DEF Tracks, JsonxTypes
<1>2. C \in SUBSET Nat /\ KeptIn(C) \in SUBSET Nat
  BY <1>1, CutTypes
<1>3. source[at] \in KeptIn(C) /\ source[at] \in Nat
  BY <1>1, <1>2, ListsNext
<1>4. PICK from \in C, to \in C : Spans(C, from, to, source[at])
  BY <1>1, <1>3, CutTypes
<1>5. in_string => InString(C, source[at])
  BY <1>1, <1>4 DEF Attuned, InString
<1>6. ASSUME ~ in_string, InString(C, source[at])
      PROVE  Char(at) = Quote
  <2>1. PICK f \in C, e \in C : Spans(C, f, e, source[at]) /\ IsString(f, e)
    BY <1>6 DEF InString
  <2>2. ~ (f < source[at])
    BY <1>1, <1>6, <2>1 DEF Attuned
  <2>3. f = source[at]
    BY <1>2, <1>3, <2>1, <2>2 DEF Spans
  <2> QED
    BY <2>1, <2>3 DEF IsString, Char
<1> QED
  BY <1>5, <1>6

LEMMA StringPassed ==
  ASSUME JsonxTypes, CommasLeft, scan = "commas", StringCharacter
  PROVE  CommasLeft'
<1>1. PICK C : Tracks(C)
  BY DEF CommasLeft
<1>2. /\ at \in 1 .. Len(source) /\ in_string
      /\ UNCHANGED <<text, scan, source>>
      /\ at' = at + 1 /\ out' = Append(out, source[at])
      /\ escaped' = (~ escaped /\ Char(at) = Backslash)
      /\ in_string' = (escaped \/ Char(at) # Quote)
  BY DEF StringCharacter, Scanning, Keep, Inside, JsonxTypes
<1>3. ~ Dropped(C, source[at])
  BY <1>1, <1>2, StringSeen DEF Dropped
<1> QED
  BY <1>1, <1>2, <1>3, StillCommas

LEMMA StringEntered ==
  ASSUME JsonxTypes, CommasLeft, scan = "commas", OpenString
  PROVE  CommasLeft'
<1>1. PICK C : Tracks(C)
  BY DEF CommasLeft
<1>2. /\ at \in 1 .. Len(source) /\ ~ in_string
      /\ UNCHANGED <<text, scan, source>> /\ Char(at) = Quote
      /\ at' = at + 1 /\ out' = Append(out, source[at])
      /\ in_string' = TRUE /\ escaped' = escaped
      /\ escaped \in BOOLEAN
  BY DEF OpenString, Scanning, Keep, Inside, JsonxTypes
<1>3. ~ Dropped(C, source[at])
  BY <1>2, MarksDiffer DEF Dropped, Char
<1> QED
  BY <1>1, <1>2, <1>3, StillCommas

LEMMA CommasDropped ==
  ASSUME JsonxTypes, CommasLeft, scan = "commas", Commas
  PROVE  CommasLeft'
<1>1. PICK C : Tracks(C)
  BY DEF CommasLeft
<1>2. /\ at \in 1 .. Len(source) /\ ~ in_string
      /\ UNCHANGED <<text, scan, source>> /\ Char(at) # Quote
      /\ at' = at + 1
      /\ Trailing => out' = out
      /\ ~ Trailing => out' = Append(out, source[at])
      /\ in_string' = in_string /\ escaped' = escaped
      /\ escaped \in BOOLEAN /\ in_string \in BOOLEAN
  BY DEF Commas, Scanning, Keep, Inside, JsonxTypes
<1>3. ~ InString(C, source[at])
  BY <1>1, <1>2, StringSeen
<1>4. Trailing <=> Dropped(C, source[at])
  <2>1. IsCutTo(C, Len(text) + 1) /\ Lists(source, KeptIn(C))
    BY <1>1 DEF Tracks
  <2> QED
    BY <1>2, <1>3, <2>1, TrailingMeans
<1> QED
  BY <1>1, <1>2, <1>4, StillCommas

\* The second scanner begins.
LEMMA CommasStart ==
  ASSUME JsonxTypes, CommentsLeft, NextScanner
  PROVE  CommasLeft'
<1>1. /\ scan = "comments" /\ at > Len(source) /\ source' = out /\ at' = 1
      /\ ~ in_string' /\ ~ escaped' /\ out' = <<>> /\ text' = text
      /\ text \in Seq(Characters) /\ Len(text) \in Nat /\ at \in Nat
      /\ out \in Seq(Nat) /\ at > Len(text)
  <2>1. Reading
    BY ReadsText DEF NextScanner
  <2> QED
    BY <2>1 DEF NextScanner, Inside, JsonxTypes, Reading
<1>2. PICK C : IsCutTo(C, Len(text) + 1) /\ Lists(out, KeptIn(C))
  <2>1. CASE in_string
    <3>1. PICK C : \E f \in Nat :
            /\ IsCutTo(C, f) /\ f < at /\ at <= Len(text) + 1
            /\ Unclosed(f, at)
            /\ Lists(out, KeptIn(C) \cup f .. at - 1)
      BY <1>1, <2>1 DEF CommentsLeft, Within
    <3>2. PICK f \in Nat :
            /\ IsCutTo(C, f) /\ f < at /\ at <= Len(text) + 1
            /\ Unclosed(f, at)
            /\ Lists(out, KeptIn(C) \cup f .. at - 1)
      BY <3>1
    <3>3. at = Len(text) + 1 /\ f < Len(text) + 1
      <4>1. f < at /\ at <= Len(text) + 1
        BY <3>2
      <4>2. at > Len(text) /\ at \in Nat /\ Len(text) \in Nat
        BY <1>1
      <4> QED
        BY <4>1, <4>2
    <3>4. IsString(f, Len(text) + 1)
      BY <1>1, <3>2, <3>3 DEF IsString, Unclosed
    <3>5. TokenKept(f, Len(text) + 1) = f .. at - 1
      BY <1>1, <3>3, <3>4, KeptOfString
    <3>6. Token(f, Len(text) + 1)
      BY <3>4 DEF Token
    <3>7. PICK e \in Nat : e = Len(text) + 1
      BY <1>1
    <3>8. f < e /\ e <= Len(text) + 1 /\ Token(f, e)
      BY <3>3, <3>6, <3>7
    <3>9. /\ IsCutTo(C \cup {e}, e)
          /\ KeptIn(C \cup {e}) = KeptIn(C) \cup TokenKept(f, e)
      <4>1. text \in Seq(Characters) /\ IsCutTo(C, f)
        BY <1>1, <3>2
      <4> QED
        BY <3>8, <4>1, CutGrows
    <3> QED
      BY <3>2, <3>5, <3>7, <3>9
  <2>2. CASE ~ in_string
    <3>1. Here = Len(text) + 1
      BY <1>1 DEF Here
    <3> QED
      BY <1>1, <2>2, <3>1 DEF CommentsLeft, Outside
  <2> QED
    BY <2>1, <2>2
<1>3. Len(out) \in Nat
  BY <1>1
<1>4. Lists(<<>>, Survivors(C, out, 1))
  <2>1. Survivors(C, out, 1) = {}
    <3>1. KeptIn(C) \in SUBSET Nat
      BY <1>1, <1>2, CutTypes
    <3>2. CASE 1 <= Len(out)
      <4>1. \A x \in KeptIn(C) : out[1] <= x
        BY <1>1, <1>2, <3>1, <3>2, ListsFirst
      <4>2. out[1] \in Nat
        BY <1>1, <1>3, <3>2
      <4> QED
        BY <3>1, <3>2, <4>1, <4>2 DEF Survivors
    <3>3. CASE ~ (1 <= Len(out))
      <4>1. DOMAIN out = {}
        BY <1>1, <1>3, <3>3
      <4>2. KeptIn(C) = {}
        BY <1>2, <4>1 DEF Lists, Range
      <4> QED
        BY <4>2 DEF Survivors
    <3> QED
      BY <3>2, <3>3
  <2> QED
    BY <2>1, ListsNothing
<1>5. 1 <= Len(out) => Attuned(C, out[1], FALSE, FALSE)
  BY <1>1, <1>2, AttunedFirst
<1>6. Tracks(C)'
  <2>1. (IsCutTo(C, Len(text) + 1))' /\ KeptIn(C)' = KeptIn(C)
    <3>1. IsCutTo(C, Len(text) + 1)' <=> IsCutTo(C, Len(text) + 1)
      BY <1>1, SameText DEF IsCutTo
    <3> QED
      BY <1>1, <1>2, <3>1, SameCut
  <2>2. Survivors(C, source, at)' = Survivors(C, out, 1)
    BY <1>1, SameCut, SameLists DEF Survivors
  <2>3. Attuned(C, source[at], in_string, escaped)'
          <=> Attuned(C, out[1], FALSE, FALSE)
    BY <1>1, SameText DEF Attuned, Spans, Adjacent
  <2>4. (at <= Len(source) + 1)'
    BY <1>1, <1>3
  <2>5. (at <= Len(source))' <=> 1 <= Len(out)
    BY <1>1
  <2>6. Lists(source, KeptIn(C))'
    BY <1>1, <1>2, <2>1 DEF Lists
  <2>7. Lists(out, Survivors(C, source, at))'
    BY <1>1, <1>4, <2>2 DEF Lists
  <2>8. (at <= Len(source) => Attuned(C, source[at], in_string, escaped))'
    BY <1>5, <2>3, <2>5
  <2> QED
    BY <2>1, <2>4, <2>6, <2>7, <2>8 DEF Tracks
<1> QED
  BY <1>6 DEF CommasLeft

-----------------------------------------------------------------------------
\* The cut of the scanners is one that the property asks for.

LEMMA GreatestIsMax ==
  ASSUME NEW n \in Nat, NEW S \in SUBSET (0 .. n), S # {}
  PROVE  Max(S) \in S /\ \A i \in S : Max(S) >= i
<1>1. PICK B \in SUBSET Nat : B = {k \in Nat : n - k \in S}
  OBVIOUS
<1>2. B # {}
  <2>1. PICK x \in S : TRUE
    OBVIOUS
  <2>2. n - x \in Nat /\ n - (n - x) = x
    OBVIOUS
  <2>3. n - x \in B
    BY <1>1, <2>1, <2>2
  <2> QED
    BY <2>3
<1>3. PICK b \in B : \A k \in B : b <= k
  BY <1>2, LeastNatural
<1>4. n - b \in S
  BY <1>1
<1>5. \A i \in S : n - b >= i
  <2>1. ASSUME NEW i \in S
        PROVE  n - b >= i
    <3>1. n - i \in Nat /\ n - (n - i) = i
      OBVIOUS
    <3>2. n - i \in B
      BY <1>1, <3>1
    <3> QED
      BY <1>1, <1>3, <3>2
  <2> QED
    BY <2>1
<1>6. \E x \in S : \A y \in S : x >= y
  BY <1>4, <1>5
<1> QED
  BY <1>6 DEF Max

\* D is C without the place after the text.
Uncapped(C, D) ==
  /\ D \subseteq C /\ Len(text) + 1 \notin D
  /\ \A j \in C : j \in D \/ j = Len(text) + 1

LEMMA SpanFound ==
  ASSUME text \in Seq(Characters), NEW C, IsCutTo(C, Len(text) + 1),
         NEW D, Uncapped(C, D), NEW i \in 1 .. Len(text)
  PROVE  /\ Begin(D, i) \in C /\ End(D, i) \in C
         /\ Spans(C, Begin(D, i), End(D, i), i)
         /\ i \in C => Begin(D, i) = i
<1>1. /\ C \subseteq 1 .. Len(text) + 1 /\ Len(text) \in Nat /\ 1 \in C
      /\ Len(text) + 1 \in C
      /\ D \subseteq C /\ Len(text) + 1 \notin D
      /\ \A j \in C : j \in D \/ j = Len(text) + 1
  BY DEF IsCutTo, Uncapped
<1>2. PICK L : L = {j \in D : j <= i}
  OBVIOUS
<1>3. PICK R : R = {j \in D : j > i} \cup {Len(text) + 1}
  OBVIOUS
<1>4. L \in SUBSET (0 .. i) /\ 1 \in L
  <2>1. ASSUME NEW j \in L
        PROVE  j \in 0 .. i
    BY <1>1, <1>2
  <2>2. 1 \in D /\ 1 <= i
    BY <1>1
  <2> QED
    BY <1>2, <2>1, <2>2
<1>5. R \in SUBSET Nat /\ R # {} /\ R \subseteq C /\ \A j \in R : j > i
  <2>1. ASSUME NEW j \in R
        PROVE  j \in C /\ j \in Nat /\ j > i
    BY <1>1, <1>3
  <2>2. Len(text) + 1 \in R
    BY <1>3
  <2> QED
    BY <2>1, <2>2
<1>6. /\ Begin(D, i) \in L /\ \A j \in L : Begin(D, i) >= j
  <2>1. Begin(D, i) = Max(L)
    BY <1>2 DEF Begin
  <2>2. i \in Nat
    BY <1>1
  <2>3. Max(L) \in L /\ \A j \in L : Max(L) >= j
    BY <1>4, <2>2, GreatestIsMax
  <2> QED
    BY <2>1, <2>3
<1>7. /\ End(D, i) \in R /\ \A j \in R : End(D, i) <= j
  <2>1. End(D, i) = Min(R)
    BY <1>3 DEF End
  <2>2. Min(R) \in R /\ \A j \in R : Min(R) <= j
    BY <1>5, LeastIsMin
  <2> QED
    BY <2>1, <2>2
<1>8. \A d \in C : d \in L \/ d \in R
  BY <1>1, <1>2, <1>3
<1>9. Begin(D, i) \in C /\ Begin(D, i) <= i /\ Begin(D, i) \in Nat
  <2>1. Begin(D, i) \in D /\ Begin(D, i) <= i
    BY <1>2, <1>6
  <2>2. Begin(D, i) \in C /\ Begin(D, i) \in Nat
    <3>1. D \subseteq C
      BY <1>1
    <3>2. Begin(D, i) \in C
      BY <2>1, <3>1
    <3>3. C \in SUBSET Nat
      BY CutTypes
    <3> QED
      BY <3>2, <3>3
  <2> QED
    BY <2>1, <2>2
<1>10. End(D, i) \in C /\ End(D, i) > i /\ End(D, i) \in Nat
  BY <1>1, <1>5, <1>7
<1>11. \A d \in C : d <= Begin(D, i) \/ End(D, i) <= d
  BY <1>1, <1>6, <1>7, <1>8
<1>12. i \in C => Begin(D, i) = i
  <2>1. i \in C => i \in L
    BY <1>1, <1>2
  <2> QED
    BY <1>6, <1>9, <2>1
<1> QED
  BY <1>1, <1>9, <1>10, <1>11, <1>12 DEF Spans, Adjacent

LEMMA SpanIs ==
  ASSUME text \in Seq(Characters), NEW C, IsCutTo(C, Len(text) + 1),
         NEW D, Uncapped(C, D), NEW i \in 1 .. Len(text),
         NEW from \in C, NEW to \in C, Spans(C, from, to, i)
  PROVE  from = Begin(D, i) /\ to = End(D, i)
<1>1. PICK b \in C, e \in C : b = Begin(D, i) /\ e = End(D, i)
  BY SpanFound
<1>2. Spans(C, b, e, i)
  BY <1>1, SpanFound
<1>3. C \in SUBSET Nat
  BY CutTypes
<1>4. b \in Nat /\ e \in Nat /\ from \in Nat /\ to \in Nat
  BY <1>3
<1> QED
  BY <1>1, <1>2, <1>4 DEF Spans, Adjacent

LEMMA MeantIsKept ==
  ASSUME text \in Seq(Characters), NEW C, IsCutTo(C, Len(text) + 1),
         NEW D, Uncapped(C, D)
  PROVE  /\ Meant(D) = KeptIn(C)
         /\ \A i \in KeptIn(C) : Quoted(D, i) <=> InString(C, i)
<1>1. ASSUME NEW i \in 1 .. Len(text)
      PROVE  i \in KeptIn(C) <=> KeptOf(Begin(D, i), End(D, i), i)
  <2>1. PICK b \in C, e \in C : b = Begin(D, i) /\ e = End(D, i)
    BY SpanFound
  <2>2. Spans(C, b, e, i)
    BY <2>1, SpanFound
  <2>3. \A from, to \in C : Spans(C, from, to, i) => from = b /\ to = e
    BY <2>1, SpanIs
  <2>4. i \in KeptIn(C) <=>
          \E from, to \in C : Spans(C, from, to, i) /\ KeptOf(from, to, i)
    BY DEF KeptIn, Spans
  <2> QED
    BY <2>1, <2>2, <2>3, <2>4
<1>2. \A i \in 1 .. Len(text) :
        i \in Meant(D) <=> KeptOf(Begin(D, i), End(D, i), i)
  BY DEF Meant, KeptOf
<1>3. Meant(D) \subseteq 1 .. Len(text) /\ KeptIn(C) \subseteq 1 .. Len(text)
  BY DEF Meant, KeptIn
<1>4. ASSUME NEW i \in KeptIn(C)
      PROVE  Quoted(D, i) <=> InString(C, i)
  <2>0. i \in 1 .. Len(text)
    BY <1>3
  <2>1. PICK b \in C, e \in C : b = Begin(D, i) /\ e = End(D, i)
    BY <2>0, SpanFound
  <2>2. Spans(C, b, e, i)
    BY <2>0, <2>1, SpanFound
  <2>3. \A from, to \in C : Spans(C, from, to, i) => from = b /\ to = e
    BY <2>0, <2>1, SpanIs
  <2> QED
    BY <2>1, <2>2, <2>3 DEF Quoted, InString
<1> QED
  BY <1>1, <1>2, <1>3, <1>4

LEMMA CutIsCut ==
  ASSUME text \in Seq(Characters), NEW C, IsCutTo(C, Len(text) + 1),
         NEW D, Uncapped(C, D)
  PROVE  IsCut(D) /\ D \in SUBSET (1 .. Len(text)) /\ (text # <<>> => 1 \in D)
<1>1. /\ C \subseteq 1 .. Len(text) + 1 /\ Len(text) \in Nat /\ 1 \in C
      /\ \A from, to \in C : Adjacent(C, from, to) => Token(from, to)
      /\ D \subseteq C /\ Len(text) + 1 \notin D
      /\ \A j \in C : j \in D \/ j = Len(text) + 1
  BY DEF IsCutTo, Uncapped
<1>2. D \in SUBSET (1 .. Len(text))
  <2>1. ASSUME NEW j \in D
        PROVE  j \in 1 .. Len(text)
    BY <1>1
  <2> QED
    BY <2>1
<1>3. text # <<>> => 1 \in D
  BY <1>1
<1>4. ASSUME NEW from \in D
      PROVE  Token(from, End(D, from))
  <2>1. from \in C /\ from \in 1 .. Len(text)
    <3>1. from \in C
      BY <1>1
    <3>2. from \in 1 .. Len(text)
      BY <1>2
    <3> QED
      BY <3>1, <3>2
  <2>2. /\ Begin(D, from) \in C /\ End(D, from) \in C
        /\ Spans(C, Begin(D, from), End(D, from), from)
        /\ Begin(D, from) = from
    BY <2>1, SpanFound
  <2>3. Adjacent(C, from, End(D, from))
    BY <2>2 DEF Spans
  <2> QED
    BY <1>1, <2>1, <2>2, <2>3
<1>5. IsCut(D)
  BY <1>4 DEF IsCut, Token
<1> QED
  BY <1>2, <1>3, <1>5

Stripped ==
  \E C : IsCutTo(C, Len(text) + 1) /\ Lists(out, {i \in KeptIn(C) : ~ Dropped(C, i)})

LEMMA StrippedMeans ==
  ASSUME text \in Seq(Characters), Stripped
  PROVE  StrippedAsMeant
<1>1. PICK C : /\ IsCutTo(C, Len(text) + 1)
               /\ Lists(out, {i \in KeptIn(C) : ~ Dropped(C, i)})
  BY DEF Stripped
<1>2. PICK D : Uncapped(C, D)
  <2>1. Uncapped(C, C \ {Len(text) + 1})
    BY DEF Uncapped
  <2> QED
    BY <2>1
<1>3. IsCut(D) /\ D \in SUBSET (1 .. Len(text)) /\ (text # <<>> => 1 \in D)
  BY <1>1, <1>2, CutIsCut
<1>4. /\ Meant(D) = KeptIn(C)
      /\ \A i \in KeptIn(C) : Quoted(D, i) <=> InString(C, i)
  BY <1>1, <1>2, MeantIsKept
<1>5. \A i \in KeptIn(C) : Forbidden(D, Meant(D), i) <=> Dropped(C, i)
  BY <1>4 DEF Forbidden, Dropped
<1>6. {i \in Meant(D) : ~ Forbidden(D, Meant(D), i)}
        = {i \in KeptIn(C) : ~ Dropped(C, i)}
  BY <1>4, <1>5
<1>7. Lists(out, {i \in Meant(D) : ~ Forbidden(D, Meant(D), i)})
  BY <1>1, <1>6
<1> QED
  BY <1>3, <1>7 DEF StrippedAsMeant

\* The second scanner returns.
LEMMA CommasEnd ==
  ASSUME JsonxTypes, CommasLeft, Return
  PROVE  Stripped'
<1>1. /\ text' = text /\ out' = out /\ scan = "commas" /\ ~ (at <= Len(source))
  BY DEF Return, Inside
<1>2. PICK C : Tracks(C)
  BY <1>1 DEF CommasLeft
<1>3. /\ IsCutTo(C, Len(text) + 1)
      /\ Lists(out, {i \in KeptIn(C) : ~ Dropped(C, i)})
  BY <1>1, <1>2 DEF Tracks, Survivors
<1>4. (IsCutTo(C, Len(text) + 1))'
  BY <1>1, <1>3, SameText DEF IsCutTo
<1>5. (Lists(out, {i \in KeptIn(C) : ~ Dropped(C, i)}))'
  BY <1>1, <1>3, SameCut, SameLists DEF Lists
<1> QED
  BY <1>4, <1>5 DEF Stripped

-----------------------------------------------------------------------------
\* All of it.

LEMMA JsonxTypesStep ==
  ASSUME JsonxTypes, CommentsLeft, [JsonxNext]_jsonxVars
  PROVE  JsonxTypes'
<1>0. ASSUME UNCHANGED jsonxVars
      PROVE  JsonxTypes'
  BY <1>0 DEF JsonxTypes, jsonxVars
<1>1. ASSUME Keep, Inside(at)
      PROVE  out' \in Seq(Nat) /\ at' \in Nat \ {0}
  <2>1. at \in 1 .. Len(source) /\ source \in Seq(Nat)
    BY <1>1 DEF Inside, JsonxTypes
  <2>2. source[at] \in Nat
    BY <2>1
  <2> QED
    BY <1>1, <2>1, <2>2 DEF Keep, JsonxTypes
<1>2. CASE StringCharacter
  BY <1>1, <1>2 DEF StringCharacter, Scanning, JsonxTypes
<1>3. CASE OpenString
  BY <1>1, <1>3 DEF OpenString, Scanning, JsonxTypes
<1>4. CASE LineComment
  <2>1. PICK ends : /\ ends = {i \in Places : i >= at /\ Char(i) = Newline}
                    /\ at' = IF ends = {} THEN Len(source) + 1 ELSE Min(ends)
    BY <1>4 DEF LineComment
  <2>2. ends \in SUBSET (Nat \ {0}) /\ Len(source) \in Nat
    BY <2>1 DEF Places, JsonxTypes
  <2>3. ends # {} => Min(ends) \in ends
    BY <2>2, LeastIsMin
  <2>4. at' \in Nat \ {0}
    BY <2>1, <2>2, <2>3
  <2> QED
    BY <1>4, <2>4 DEF LineComment, Scanning, JsonxTypes
<1>5. CASE BlockComment
  BY <1>5, BlockSkipped
<1>6. CASE OtherCharacter
  BY <1>1, <1>6 DEF OtherCharacter, Scanning, JsonxTypes
<1>7. CASE NextScanner
  <2>1. /\ scan' = "commas" /\ source' = out /\ at' = 1 /\ in_string' = FALSE
        /\ escaped' = FALSE /\ out' = <<>> /\ text' = text
    BY <1>7 DEF NextScanner
  <2>2. text \in Seq(Characters) /\ out \in Seq(Nat)
    BY DEF JsonxTypes
  <2>3. out' \in Seq(Nat)
    BY <2>1, ListsNothing
  <2>4. at' \in Nat \ {0} /\ scan' \in {"comments", "commas", "over"}
    BY <2>1
  <2> QED
    BY <2>1, <2>2, <2>3, <2>4, Zenon DEF JsonxTypes
<1>8. CASE Commas
  BY <1>1, <1>8 DEF Commas, Scanning, JsonxTypes
<1>9. CASE Return
  BY <1>9 DEF Return, JsonxTypes
<1> QED
  BY <1>0, <1>2, <1>3, <1>4, <1>5, <1>6, <1>7, <1>8, <1>9 DEF JsonxNext

\* Once the second scanner has returned, the cut says what is left.
AllStripped == scan = "over" => Stripped

JsonxInv == JsonxTypes /\ CommentsLeft /\ CommasLeft /\ AllStripped

LEMMA JsonxStarts == JsonxInit => JsonxInv
<1> SUFFICES ASSUME NEW characters \in Texts, JsonxStart(characters)
             PROVE  JsonxInv
  BY DEF JsonxInit
<1>1. /\ text = characters /\ text \in Seq(Characters) /\ scan = "comments"
      /\ source = [i \in 1 .. Len(text) |-> i] /\ at = 1
      /\ in_string = FALSE /\ escaped = FALSE /\ out = <<>>
      /\ Len(text) \in Nat
  BY JsonxAssumption DEF JsonxStart
<1>2. source \in Seq(Nat)
  <2>1. source \in [1 .. Len(text) -> Nat]
    BY <1>1
  <2> QED
    BY <1>1, <2>1
<1>3. JsonxTypes
  <2>1. at \in Nat \ {0}
    BY <1>1
  <2>2. out \in Seq(Nat)
    BY <1>1, ListsNothing
  <2>3. scan \in {"comments", "commas", "over"}
    BY <1>1
  <2> QED
    BY <1>1, <1>2, <2>1, <2>2, <2>3, Zenon DEF JsonxTypes
<1>4. Outside
  <2>1. Here = 1
    BY <1>1 DEF Here
  <2>2. IsCutTo({1}, 1) /\ KeptIn({1}) = {}
    BY <1>1, CutStart
  <2> QED
    BY <1>1, <2>1, <2>2, ListsNothing DEF Outside
<1> QED
  BY <1>1, <1>3, <1>4 DEF JsonxInv, CommentsLeft, CommasLeft, AllStripped

\* A step that changes nothing.
LEMMA JsonxStutters ==
  ASSUME JsonxInv, UNCHANGED jsonxVars
  PROVE  CommentsLeft' /\ CommasLeft' /\ AllStripped'
<1>1. /\ text' = text /\ scan' = scan /\ source' = source /\ at' = at
      /\ in_string' = in_string /\ escaped' = escaped /\ out' = out
  BY DEF jsonxVars
<1>2. CommentsLeft'
  <2>1. Outside' <=> Outside
    BY <1>1, SameText, SameCut DEF Outside, Here, IsCutTo, Lists
  <2>2. Within' <=> Within
    BY <1>1, SameText, SameCut DEF Within, Lists
  <2> QED
    BY <1>1, <2>1, <2>2 DEF CommentsLeft, JsonxInv
<1>3. CommasLeft'
  <2>1. \A C : Tracks(C)' <=> Tracks(C)
    BY <1>1, SameText, SameCut, SameLists
       DEF Tracks, Attuned, Spans, Adjacent, Survivors, IsCutTo, Lists
  <2> QED
    BY <1>1, <2>1 DEF CommasLeft, JsonxInv
<1>4. AllStripped'
  <2>1. \A C : IsCutTo(C, Len(text) + 1)' <=> IsCutTo(C, Len(text) + 1)
    BY <1>1, SameText DEF IsCutTo
  <2>2. \A C : {i \in KeptIn(C) : ~ Dropped(C, i)}'
                = {i \in KeptIn(C) : ~ Dropped(C, i)}
    BY <1>1, SameCut, SameLists
  <2>3. Stripped' <=> Stripped
    BY <1>1, <2>1, <2>2 DEF Stripped, Lists
  <2> QED
    BY <1>1, <2>3 DEF AllStripped, JsonxInv
<1> QED
  BY <1>2, <1>3, <1>4

LEMMA JsonxSteps == JsonxInv /\ [JsonxNext]_jsonxVars => JsonxInv'
<1> SUFFICES ASSUME JsonxInv, [JsonxNext]_jsonxVars
             PROVE  JsonxInv'
  OBVIOUS
<1>1. JsonxTypes /\ CommentsLeft /\ CommasLeft
  BY DEF JsonxInv
<1>2. JsonxTypes'
  BY <1>1, JsonxTypesStep
<1>3. CommentsLeft' /\ CommasLeft' /\ AllStripped'
  <2>1. CASE UNCHANGED jsonxVars
    BY <2>1, JsonxStutters
  <2>2. CASE scan' = "comments" /\ CommentsLeft'
    BY <2>2 DEF CommasLeft, AllStripped
  <2>3. CASE scan' = "commas" /\ CommasLeft'
    BY <2>3 DEF CommentsLeft, AllStripped
  <2>4. CASE StringCharacter
    <3>1. scan' = scan /\ scan \in {"comments", "commas"}
      BY <1>1, <2>4 DEF StringCharacter, Scanning, JsonxTypes
    <3>2. scan = "comments" => CommentsLeft'
      BY <1>1, <2>4, StringRead
    <3>3. scan = "commas" => CommasLeft'
      BY <1>1, <2>4, StringPassed
    <3> QED
      BY <2>2, <2>3, <3>1, <3>2, <3>3
  <2>5. CASE OpenString
    <3>1. scan' = scan /\ scan \in {"comments", "commas"}
      BY <1>1, <2>5 DEF OpenString, Scanning, JsonxTypes
    <3>2. scan = "comments" => CommentsLeft'
      BY <1>1, <2>5, StringOpens
    <3>3. scan = "commas" => CommasLeft'
      BY <1>1, <2>5, StringEntered
    <3> QED
      BY <2>2, <2>3, <3>1, <3>2, <3>3
  <2>6. CASE LineComment
    <3>1. scan' = "comments"
      BY <2>6 DEF LineComment, Scanning
    <3> QED
      BY <1>1, <2>2, <2>6, <3>1, LineSkipped
  <2>7. CASE BlockComment
    <3>1. scan' = "comments"
      BY <2>7 DEF BlockComment, Scanning
    <3> QED
      BY <1>1, <2>2, <2>7, <3>1, BlockSkipped
  <2>8. CASE OtherCharacter
    <3>1. scan' = "comments"
      BY <2>8 DEF OtherCharacter, Scanning
    <3> QED
      BY <1>1, <2>2, <2>8, <3>1, CharacterRead
  <2>9. CASE NextScanner
    <3>1. scan' = "commas"
      BY <2>9 DEF NextScanner
    <3> QED
      BY <1>1, <2>3, <2>9, <3>1, CommasStart
  <2>10. CASE Commas
    <3>1. scan' = "commas" /\ scan = "commas"
      BY <2>10 DEF Commas, Scanning
    <3> QED
      BY <1>1, <2>3, <2>10, <3>1, CommasDropped
  <2>11. CASE Return
    <3>1. scan' = "over"
      BY <2>11 DEF Return
    <3>2. Stripped'
      BY <1>1, <2>11, CommasEnd
    <3> QED
      BY <3>1, <3>2 DEF CommentsLeft, CommasLeft, AllStripped
  <2> QED
    BY <2>1, <2>4, <2>5, <2>6, <2>7, <2>8, <2>9, <2>10, <2>11 DEF JsonxNext
<1> QED
  BY <1>2, <1>3 DEF JsonxInv

\* Of every text, json.loads gets exactly what the grammar of JSONX leaves:
\* comments are gone, strings are whole whatever stands in them, and the
\* commas that the second scanner drops are the forbidden ones.
THEOREM StrippedRight == JsonxSpec => []StrippedAsMeant
<1>1. JsonxInv => StrippedAsMeant
  BY StrippedMeans DEF JsonxInv, JsonxTypes, AllStripped, StrippedAsMeant
<1> QED
  BY <1>1, JsonxStarts, JsonxSteps, PTL DEF JsonxSpec
=============================================================================
