--------------------------- MODULE CovenantProofs ---------------------------
(***************************************************************************)
(* Proofs about the handshake of Covenant, for every group, every set of   *)
(* exponents and passwords, and whatever the connection does to a frame.   *)
(*                                                                         *)
(* That the ends authenticate each other needs no arithmetic: it is the    *)
(* fields the confirmations cover that make this true, and MACs that only  *)
(* the holder of the key can compute. That one password is accepted and    *)
(* two are refused does: that part of the module rests on the first, in    *)
(* which the group is worked out from GroupAssumption alone. The end is    *)
(* about the number of steps a handshake can take.                         *)
(***************************************************************************)
EXTENDS Covenant, SequenceTheorems, FiniteSetTheorems, WellFoundedInduction,
        TLAPS

-----------------------------------------------------------------------------
(***************************************************************************)
(* Numbers                                                                 *)
(***************************************************************************)

\* What // and % of one division have to do with each other.
LEMMA Division ==
  ASSUME NEW x \in Int, NEW n \in Nat \ {0}
  PROVE  /\ x \div n \in Int
         /\ x % n \in 0 .. n - 1
         /\ x = n * (x \div n) + (x % n)
  BY Z3

\* The remainder is the only number of its range at a multiple's distance.
LEMMA RemainderUnique ==
  ASSUME NEW x \in Int, NEW n \in Nat \ {0}, NEW k \in Int,
         NEW y \in 0 .. n - 1, x = n * k + y
  PROVE  x % n = y
<1>1. PICK q \in Int, z \in 0 .. n - 1 : x = n * q + z /\ x % n = z
  BY Division
<1>2. n * (q - k) = y - z
  BY <1>1
<1>3. q - k \in Int /\ y - z < n /\ y - z > -n
  BY <1>1
<1>4. CASE q - k >= 1
  <2>1. n * (q - k) >= n
    BY <1>3, <1>4
  <2> QED
    BY <1>2, <1>3, <2>1
<1>5. CASE q - k <= -1
  <2>1. n * (q - k) <= -n
    BY <1>3, <1>5
  <2> QED
    BY <1>2, <1>3, <2>1
<1>6. CASE q - k = 0
  BY <1>1, <1>2, <1>6
<1> QED
  BY <1>3, <1>4, <1>5, <1>6

\* A set of numbers has a least one, ...
LEMMA LeastNatural ==
  ASSUME NEW T \in SUBSET Nat, T # {}
  PROVE  \E x \in T : \A y \in T : x <= y
<1>1. PICK x \in T : \A y \in T : ~ (<<y, x>> \in OpToRel(<, Nat))
  BY NatLessThanWellFounded, WFMin
<1>2. \A y \in T : ~ (y < x)
  BY <1>1 DEF OpToRel
<1> QED
  BY <1>2

\* ... so one that holds 0 and every successor holds them all.
LEMMA Counting ==
  ASSUME NEW T \in SUBSET Nat, 0 \in T, \A n \in T : n + 1 \in T
  PROVE  T = Nat
<1> SUFFICES ASSUME Nat \ T # {}
             PROVE  FALSE
  OBVIOUS
<1>1. PICK n \in Nat \ T : \A k \in Nat \ T : n <= k
  BY LeastNatural
<1>2. n # 0 /\ n - 1 \in Nat
  BY <1>1
<1>3. n - 1 \in T
  BY <1>1, <1>2
<1> QED
  BY <1>1, <1>2, <1>3

-----------------------------------------------------------------------------
(***************************************************************************)
(* Multiplication modulo P                                                 *)
(***************************************************************************)

x ** y == (x * y) % P

Units == 1 .. P - 1

LEMMA Sizes ==
  /\ P \in Nat \ {0} /\ P > 4
  /\ 0 \in Elements /\ 1 \in Elements /\ 1 \in Units
  /\ Elements \subseteq Int /\ Units = Elements \ {0}
  BY CovenantAssumption DEF Elements, Units

LEMMA TimesType == \A x, y \in Int : x ** y \in Elements
  BY Division, Sizes DEF **, Elements

LEMMA TimesCommutes == \A x, y \in Int : x ** y = y ** x
<1>1. \A x, y \in Int : x * y = y * x
  BY Z3
<1> QED
  BY <1>1, Zenon DEF **

\* Numbers the same distance from multiples of P have the same products.
LEMMA Congruent ==
  ASSUME NEW x \in Int, NEW k \in Int, NEW z \in Int, z = P * k + x
  PROVE  z % P = x % P
<1>1. PICK q \in Int, r \in 0 .. P - 1 : x = P * q + r /\ x % P = r
  BY Division, Sizes
<1>2. k + q \in Int /\ P * (k + q) = P * k + P * q
  BY <1>1, Sizes
<1>3. z = P * (k + q) + r
  BY <1>1, <1>2, Sizes
<1>4. PICK m \in Int : z = P * m + r
  BY <1>2, <1>3, Zenon
<1>5. P \in Nat \ {0} /\ r \in 0 .. P - 1
  BY <1>1, Sizes
<1>6. z % P = r
  BY <1>4, <1>5, RemainderUnique
<1> QED
  BY <1>1, <1>6

LEMMA TimesReduced == \A x, y \in Int : (x % P) ** y = x ** y
<1> SUFFICES ASSUME NEW x \in Int, NEW y \in Int
             PROVE  (x % P) ** y = x ** y
  OBVIOUS
<1>1. PICK q \in Int, r \in 0 .. P - 1 : x = P * q + r /\ x % P = r
  BY Division, Sizes
<1>2. q * y \in Int /\ r * y \in Int /\ x * y = P * (q * y) + r * y
  BY <1>1, Sizes
<1> QED
  BY <1>1, <1>2, Congruent DEF **

LEMMA TimesAssociates == \A x, y, z \in Int : (x ** y) ** z = x ** (y ** z)
<1> SUFFICES ASSUME NEW x \in Int, NEW y \in Int, NEW z \in Int
             PROVE  (x ** y) ** z = x ** (y ** z)
  OBVIOUS
<1>1. x * y \in Int /\ y * z \in Int
  OBVIOUS
<1>2. (x ** y) ** z = (x * y) ** z /\ (y ** z) ** x = (y * z) ** x
  BY <1>1, TimesReduced DEF **
<1>3. (x * y) * z = (y * z) * x
  OBVIOUS
<1>4. (x * y) ** z = (y * z) ** x
  BY <1>3 DEF **
<1>5. y ** z \in Int
  BY TimesType, Sizes
<1> QED
  BY <1>2, <1>4, <1>5, TimesCommutes

LEMMA TimesOne == \A x \in Elements : 1 ** x = x /\ x ** 1 = x
<1> SUFFICES ASSUME NEW x \in Elements
             PROVE  1 ** x = x /\ x ** 1 = x
  OBVIOUS
<1>1. x = P * 0 + x /\ 1 * x = x /\ x * 1 = x
  BY Sizes
<1>2. x % P = x
  BY <1>1, RemainderUnique, Sizes DEF Elements
<1> QED
  BY <1>1, <1>2 DEF **

LEMMA TimesZero == \A x \in Elements : 0 ** x = 0
<1> SUFFICES ASSUME NEW x \in Elements
             PROVE  0 ** x = 0
  OBVIOUS
<1>1. 0 * x = P * 0 + 0 /\ 0 * x \in Int
  BY Sizes
<1>2. (0 * x) % P = 0
  BY <1>1, RemainderUnique, Sizes DEF Elements
<1> QED
  BY <1>2 DEF **
-----------------------------------------------------------------------------
(***************************************************************************)
(* Powers                                                                  *)
(***************************************************************************)

\* g holds the powers of x up to the n-th.
ArePowers(g, x, n) ==
  /\ g \in [0 .. n -> Elements] /\ g[0] = 1
  /\ \A k \in 1 .. n : g[k] = g[k - 1] ** x

LEMMA PowersExist ==
  ASSUME NEW x \in Elements, NEW n \in Nat
  PROVE  \E g : ArePowers(g, x, n)
<1> DEFINE T == {k \in Nat : \E g : ArePowers(g, x, k)}
<1>1. 0 \in T
  <2>1. ArePowers([k \in 0 .. 0 |-> 1], x, 0)
    BY Sizes DEF ArePowers
  <2> QED
    BY <2>1
<1>2. ASSUME NEW k \in T
      PROVE  k + 1 \in T
  <2>1. PICK g : ArePowers(g, x, k)
    OBVIOUS
  <2>2. PICK h : h = [i \in 0 .. k + 1 |-> IF i = k + 1 THEN g[k] ** x ELSE g[i]]
    OBVIOUS
  <2>3. k \in Nat /\ g[k] \in Elements /\ g[k] ** x \in Elements
    <3>1. k \in Nat /\ g[k] \in Elements
      BY <2>1 DEF ArePowers
    <3>2. g[k] \in Int /\ x \in Int
      BY <3>1, Sizes
    <3> QED
      BY <3>1, <3>2, TimesType, Zenon
  <2>4. h \in [0 .. k + 1 -> Elements] /\ h[0] = 1
    BY <2>1, <2>2, <2>3 DEF ArePowers
  <2>5. ASSUME NEW i \in 1 .. k + 1
        PROVE  h[i] = h[i - 1] ** x
    <3>1. i - 1 \in 0 .. k /\ h[i - 1] = g[i - 1]
      BY <2>2, <2>3
    <3>2. CASE i = k + 1
      BY <2>2, <2>3, <3>1, <3>2
    <3>3. CASE i # k + 1
      <4>1. i \in 1 .. k /\ h[i] = g[i]
        BY <2>2, <2>3, <3>3
      <4> QED
        BY <2>1, <3>1, <4>1 DEF ArePowers
    <3> QED
      BY <3>2, <3>3
  <2>6. ArePowers(h, x, k + 1)
    BY <2>4, <2>5 DEF ArePowers
  <2> QED
    BY <2>3, <2>6
<1>3. T = Nat
  <2> HIDE DEF T
  <2>1. T \in SUBSET Nat
    BY DEF T
  <2> QED
    BY <1>1, <1>2, <2>1, Counting
<1> QED
  BY <1>3

\* The recursive function in Power has values, and they are those powers.
LEMMA PowerIs ==
  ASSUME NEW x \in Elements, NEW n \in Nat, NEW g, ArePowers(g, x, n)
  PROVE  Power(x, n) = g[n]
<1> DEFINE Turn(f) == [k \in 0 .. n |-> IF k = 0 THEN 1 ELSE (f[k - 1] * x) % P]
           power == CHOOSE f : f = Turn(f)
<1>1. g = Turn(g)
  BY DEF ArePowers, **
<1>2. power = Turn(power)
  <2> HIDE DEF Turn
  <2> QED
    BY <1>1, Zenon
<1>3. Power(x, n) = power[n]
  BY DEF Power
<1> HIDE DEF power
<1> DEFINE T == {k \in Nat : k <= n => power[k] = g[k]}
<1>4. 0 \in T
  BY <1>1, <1>2
<1>5. ASSUME NEW k \in T
      PROVE  k + 1 \in T
  <2> SUFFICES ASSUME k + 1 <= n
               PROVE  power[k + 1] = g[k + 1]
    OBVIOUS
  <2>1. /\ power[k + 1] = (power[k] * x) % P
        /\ g[k + 1] = (g[k] * x) % P
    BY <1>1, <1>2
  <2> QED
    BY <2>1
<1>6. T = Nat
  <2> HIDE DEF T
  <2>1. T \in SUBSET Nat
    BY DEF T
  <2> QED
    BY <1>4, <1>5, <2>1, Counting
<1>7. power[n] = g[n]
  BY <1>6
<1> QED
  BY <1>3, <1>7

LEMMA PowerStep ==
  /\ \A x \in Elements : Power(x, 0) = 1
  /\ \A x \in Elements, n \in Nat :
       Power(x, n) \in Elements /\ Power(x, n + 1) = Power(x, n) ** x
<1>1. ASSUME NEW x \in Elements
      PROVE  Power(x, 0) = 1
  <2>1. PICK g : ArePowers(g, x, 0)
    BY PowersExist
  <2> QED
    BY <2>1, PowerIs DEF ArePowers
<1>2. ASSUME NEW x \in Elements, NEW n \in Nat
      PROVE  Power(x, n) \in Elements /\ Power(x, n + 1) = Power(x, n) ** x
  <2>1. PICK g : ArePowers(g, x, n + 1)
    BY PowersExist
  <2>2. PICK h : h = [k \in 0 .. n |-> g[k]]
    OBVIOUS
  <2>3. ArePowers(h, x, n)
    BY <2>1, <2>2 DEF ArePowers
  <2>4. Power(x, n) = g[n] /\ Power(x, n + 1) = g[n + 1]
    <3>1. Power(x, n) = h[n] /\ Power(x, n + 1) = g[n + 1]
      BY <2>1, <2>3, PowerIs
    <3> QED
      BY <2>2, <3>1
  <2>5. g[n] \in Elements /\ g[n + 1] = g[n] ** x
    BY <2>1 DEF ArePowers
  <2> QED
    BY <2>4, <2>5
<1> QED
  BY <1>1, <1>2

\* Every statement about all exponents is proved along these two.
LEMMA PowerTypes ==
  /\ \A x, y \in Elements : x ** y \in Elements /\ x ** y = y ** x
  /\ \A x, y, z \in Elements : (x ** y) ** z = x ** (y ** z)
<1>1. \A x \in Elements : x \in Int
  BY Sizes
<1>2. ASSUME NEW x \in Elements, NEW y \in Elements
      PROVE  x ** y \in Elements /\ x ** y = y ** x
  BY <1>1, TimesType, TimesCommutes, Zenon
<1>3. ASSUME NEW x \in Elements, NEW y \in Elements, NEW z \in Elements
      PROVE  (x ** y) ** z = x ** (y ** z)
  BY <1>1, TimesAssociates, Zenon
<1> QED
  BY <1>2, <1>3

\* (w x)(y z) = (w y)(x z)
LEMMA TimesCross ==
  ASSUME NEW w \in Elements, NEW x \in Elements, NEW y \in Elements,
         NEW z \in Elements
  PROVE  (w ** x) ** (y ** z) = (w ** y) ** (x ** z)
<1>1. x ** (y ** z) = y ** (x ** z)
  <2>1. x ** (y ** z) = (x ** y) ** z /\ (x ** y) ** z = (y ** x) ** z
    BY PowerTypes
  <2>2. (y ** x) ** z = y ** (x ** z)
    BY PowerTypes
  <2> QED
    BY <2>1, <2>2
<1>2. (w ** x) ** (y ** z) = w ** (x ** (y ** z))
  BY PowerTypes
<1>3. (w ** y) ** (x ** z) = w ** (y ** (x ** z))
  BY PowerTypes
<1> QED
  BY <1>1, <1>2, <1>3

LEMMA PowerOfOne == \A n \in Nat : Power(1, n) = 1
<1> DEFINE T == {n \in Nat : Power(1, n) = 1}
<1>1. 0 \in T
  BY PowerStep, Sizes
<1>2. ASSUME NEW n \in T
      PROVE  n + 1 \in T
  BY PowerStep, Sizes, TimesOne
<1>3. T \in SUBSET Nat
  OBVIOUS
<1> HIDE DEF T
<1>4. T = Nat
  BY <1>1, <1>2, <1>3, Counting
<1> QED
  BY <1>4 DEF T

LEMMA PowerTimes ==
  \A x, y \in Elements, n \in Nat : Power(x ** y, n) = Power(x, n) ** Power(y, n)
<1> SUFFICES ASSUME NEW x \in Elements, NEW y \in Elements
             PROVE  \A n \in Nat : Power(x ** y, n) = Power(x, n) ** Power(y, n)
  OBVIOUS
<1> DEFINE T == {n \in Nat : Power(x ** y, n) = Power(x, n) ** Power(y, n)}
<1>0. x ** y \in Elements
  BY PowerTypes
<1>1. 0 \in T
  BY <1>0, PowerStep, Sizes, TimesOne
<1>2. ASSUME NEW n \in T
      PROVE  n + 1 \in T
  <2>1. Power(x, n) \in Elements /\ Power(y, n) \in Elements
    BY PowerStep
  <2>2. Power(x ** y, n + 1) = (Power(x, n) ** Power(y, n)) ** (x ** y)
    BY <1>0, PowerStep
  <2>3. Power(x, n + 1) = Power(x, n) ** x /\ Power(y, n + 1) = Power(y, n) ** y
    BY PowerStep
  <2> QED
    BY <2>1, <2>2, <2>3, TimesCross
<1>3. T \in SUBSET Nat
  OBVIOUS
<1> HIDE DEF T
<1>4. T = Nat
  BY <1>1, <1>2, <1>3, Counting
<1> QED
  BY <1>4 DEF T

LEMMA PowerPlus ==
  \A x \in Elements, m, n \in Nat : Power(x, m + n) = Power(x, m) ** Power(x, n)
<1> SUFFICES ASSUME NEW x \in Elements, NEW m \in Nat
             PROVE  \A n \in Nat : Power(x, m + n) = Power(x, m) ** Power(x, n)
  OBVIOUS
<1> DEFINE T == {n \in Nat : Power(x, m + n) = Power(x, m) ** Power(x, n)}
<1>1. 0 \in T
  BY PowerStep, TimesOne
<1>2. ASSUME NEW n \in T
      PROVE  n + 1 \in T
  <2>1. m + n \in Nat /\ m + (n + 1) = (m + n) + 1
    OBVIOUS
  <2>2. /\ Power(x, m + (n + 1)) = (Power(x, m) ** Power(x, n)) ** x
        /\ Power(x, n + 1) = Power(x, n) ** x
    BY <2>1, PowerStep
  <2>3. Power(x, m) \in Elements /\ Power(x, n) \in Elements
    BY PowerStep
  <2> QED
    BY <2>2, <2>3, PowerTypes
<1>3. T \in SUBSET Nat
  OBVIOUS
<1> HIDE DEF T
<1>4. T = Nat
  BY <1>1, <1>2, <1>3, Counting
<1> QED
  BY <1>4 DEF T

\* The two ends raise in either order.
LEMMA PowerSwap ==
  \A x \in Elements, m, n \in Nat : Power(Power(x, m), n) = Power(Power(x, n), m)
<1> SUFFICES ASSUME NEW x \in Elements, NEW m \in Nat
             PROVE  \A n \in Nat : Power(Power(x, m), n) = Power(Power(x, n), m)
  OBVIOUS
<1> DEFINE T == {n \in Nat : Power(Power(x, m), n) = Power(Power(x, n), m)}
<1>0. Power(x, m) \in Elements
  BY PowerStep
<1>1. 0 \in T
  BY <1>0, PowerStep, PowerOfOne
<1>2. ASSUME NEW n \in T
      PROVE  n + 1 \in T
  <2>1. Power(x, n) \in Elements
    BY PowerStep
  <2>2. Power(Power(x, m), n + 1) = Power(Power(x, n), m) ** Power(x, m)
    BY <1>0, PowerStep
  <2>3. Power(Power(x, n + 1), m) = Power(Power(x, n), m) ** Power(x, m)
    <3>1. Power(x, n + 1) = Power(x, n) ** x
      BY PowerStep
    <3> QED
      BY <2>1, <3>1, PowerTimes
  <2> QED
    BY <2>2, <2>3
<1>3. T \in SUBSET Nat
  OBVIOUS
<1> HIDE DEF T
<1>4. T = Nat
  BY <1>1, <1>2, <1>3, Counting
<1> QED
  BY <1>4 DEF T

-----------------------------------------------------------------------------
(***************************************************************************)
(* Inverses                                                                *)
(***************************************************************************)

\* The least product that x has with a unit divides P.
LEMMA Inverses == \A x \in Units : \E y \in Units : x ** y = 1
<1> SUFFICES ASSUME NEW x \in Units
             PROVE  \E y \in Units : x ** y = 1
  OBVIOUS
<1> DEFINE D == {n \in Units : \E y \in Units : x ** y = n}
<1>1. D \in SUBSET Nat /\ D # {}
  <2>1. x ** 1 = x
    BY Sizes, TimesOne
  <2> QED
    BY <2>1, Sizes DEF Units
<1>2. PICK d \in D : \A n \in D : d <= n
  <2> HIDE DEF D
  <2> QED
    BY <1>1, LeastNatural
<1>3. PICK y \in Units : x ** y = d
  BY <1>2
<1>4. x \in Int /\ y \in Int /\ d \in Nat \ {0} /\ d < P
  BY <1>2, Sizes DEF Units
<1>5. PICK q \in Int, r \in 0 .. d - 1 : P = d * q + r /\ P % d = r
  <2>1. P \in Int /\ d \in Nat \ {0}
    BY <1>4, Sizes
  <2>2. P \div d \in Int /\ P % d \in 0 .. d - 1 /\ P = d * (P \div d) + (P % d)
    BY <2>1, Division, Zenon
  <2> QED
    BY <2>2, Zenon
<1>6. PICK k \in Int : x * y = P * k + d
  <2>1. x * y \in Int
    BY <1>4
  <2> QED
    BY <1>3, <2>1, Division, Sizes DEF **
<1>7. CASE r # 0
  <2>1. PICK z \in Int : z = -(q * y)
    BY <1>4
  <2>2. x * z = P * (-(q * k) - 1) + r
    <3>1. x * z = -(q * (x * y))
      BY <2>1, <1>4
    <3>2. q * (x * y) = P * (q * k) + q * d
      BY <1>4, <1>6, Sizes
    <3>3. q * d = P - r /\ q * k \in Int
      BY <1>4, <1>5, Sizes
    <3>4. P * (-(q * k) - 1) = -(P * (q * k)) - P
      BY <3>3, Sizes
    <3> QED
      BY <1>5, <3>1, <3>2, <3>3, <3>4, Sizes
  <2>3. x ** z = r
    <3>1. r \in 0 .. P - 1 /\ x * z \in Int /\ -(q * k) - 1 \in Int
      BY <1>4, <1>5, <2>1, Sizes
    <3> QED
      BY <2>2, <3>1, RemainderUnique, Sizes DEF **
  <2>4. (z % P) ** x = z ** x /\ z % P \in Elements
    BY <1>4, TimesReduced, Division, Sizes DEF Elements
  <2>5. x ** (z % P) = r
    BY <1>4, <2>3, <2>4, TimesCommutes, Sizes
  <2>6. z % P # 0
    <3> SUFFICES ASSUME z % P = 0
                 PROVE  r = 0
      BY <1>7
    <3>1. x ** 0 = 0 ** x /\ x \in Elements
      BY <1>4, TimesCommutes, Sizes
    <3> QED
      BY <2>5, <3>1, TimesZero
  <2>7. z % P \in Units /\ r \in Units
    BY <1>4, <1>5, <1>7, <2>4, <2>6, Sizes DEF Units
  <2>8. r \in D /\ r < d
    BY <1>4, <1>5, <2>5, <2>7
  <2> QED
    BY <1>2, <1>4, <1>5, <2>8
<1>8. CASE r = 0
  <2>1. d \notin 2 .. P - 1
    BY <1>5, <1>8, GroupAssumption DEF Prime
  <2>2. d = 1
    BY <1>4, <2>1, Sizes
  <2> QED
    BY <1>3, <2>2
<1> QED
  BY <1>7, <1>8

LEMMA ModInvIs == \A x \in Units : ModInv(x) \in Units /\ x ** ModInv(x) = 1
<1> SUFFICES ASSUME NEW x \in Units
             PROVE  ModInv(x) \in Units /\ x ** ModInv(x) = 1
  OBVIOUS
<1>1. \E y \in 1 .. P - 1 : (x * y) % P = 1
  BY Inverses DEF Units, **
<1>2. ModInv(x) \in 1 .. P - 1 /\ (x * ModInv(x)) % P = 1
  BY <1>1, Zenon DEF ModInv
<1> QED
  BY <1>2 DEF Units, **

LEMMA Cancel ==
  \A x \in Units, y, z \in Elements : x ** y = x ** z => y = z
<1> SUFFICES ASSUME NEW x \in Units, NEW y \in Elements, NEW z \in Elements,
                    x ** y = x ** z
             PROVE  y = z
  OBVIOUS
<1>1. PICK i \in Units : x ** i = 1
  BY Inverses
<1>2. x \in Elements /\ i \in Elements
  BY Sizes
<1>3. i ** x = 1
  BY <1>1, <1>2, PowerTypes
<1>4. (i ** x) ** y = i ** (x ** y) /\ (i ** x) ** z = i ** (x ** z)
  BY <1>2, PowerTypes
<1>5. 1 ** y = 1 ** z
  BY <1>3, <1>4
<1> QED
  BY <1>5, TimesOne

LEMMA UnitsClosed == \A x, y \in Units : x ** y \in Units
<1> SUFFICES ASSUME NEW x \in Units, NEW y \in Units, x ** y = 0
             PROVE  FALSE
  BY PowerTypes, Sizes
<1>1. x ** 0 = 0
  BY TimesZero, PowerTypes, Sizes
<1>2. y = 0
  BY <1>1, Cancel, Sizes
<1> QED
  BY <1>2, Sizes

LEMMA PowerUnit == \A x \in Units, n \in Nat : Power(x, n) \in Units
<1> SUFFICES ASSUME NEW x \in Units
             PROVE  \A n \in Nat : Power(x, n) \in Units
  OBVIOUS
<1> DEFINE T == {n \in Nat : Power(x, n) \in Units}
<1>1. 0 \in T
  BY PowerStep, Sizes
<1>2. ASSUME NEW n \in T
      PROVE  n + 1 \in T
  <2>1. Power(x, n) \in Units /\ x \in Elements
    BY Sizes
  <2>2. Power(x, n + 1) = Power(x, n) ** x
    BY <2>1, PowerStep
  <2> QED
    BY <2>1, <2>2, UnitsClosed
<1>3. T \in SUBSET Nat
  OBVIOUS
<1> HIDE DEF T
<1>4. T = Nat
  BY <1>1, <1>2, <1>3, Counting
<1> QED
  BY <1>4 DEF T

-----------------------------------------------------------------------------
(***************************************************************************)
(* Squares                                                                 *)
(***************************************************************************)

Squares == {p ** p : p \in 1 .. Half}

LEMMA HalfIs == Half \in Nat /\ Half > 1 /\ P = 2 * Half + 1 /\ 1 .. Half \subseteq Units
<1>1. P % 2 # 0
  BY GroupAssumption, Sizes DEF Prime
<1>2. P % 2 = 1 /\ P = 2 * (P \div 2) + (P % 2) /\ P \div 2 \in Int
  BY <1>1, Division, Sizes
<1>3. Half = P \div 2
  BY <1>2, Sizes DEF Half
<1> QED
  BY <1>2, <1>3, Sizes DEF Units

\* x^2 and y^2 differ by (x - y)(x + y), and neither factor is 0.
LEMMA SquaresApart == \A x, y \in 1 .. Half : x ** x = y ** y => x = y
<1>1. ASSUME NEW x \in 1 .. Half, NEW y \in 1 .. Half, x > y
      PROVE  x ** x # y ** y
  <2>1. x - y \in Units /\ x + y \in Units
    BY <1>1, HalfIs, Sizes DEF Units
  <2>2. (x - y) ** (x + y) \in Units
    BY <2>1, UnitsClosed
  <2> SUFFICES ASSUME x ** x = y ** y
               PROVE  (x - y) ** (x + y) = 0
    BY <2>2, Sizes
  <2>3. x * x \in Int /\ y * y \in Int /\ x \in Int /\ y \in Int
    BY <1>1, HalfIs
  <2>4. PICK k \in Int, l \in Int, r \in Int :
          x * x = P * k + r /\ y * y = P * l + r
    <3>1. /\ x * x = P * ((x * x) \div P) + x ** x /\ (x * x) \div P \in Int
          /\ x ** x \in Int
      BY <2>3, Division, TimesType, Sizes DEF **
    <3>2. y * y = P * ((y * y) \div P) + y ** y /\ (y * y) \div P \in Int
      BY <2>3, Division, Sizes DEF **
    <3> QED
      BY <3>1, <3>2
  <2>5. (x - y) * (x + y) = x * x - y * y
    BY <2>3
  <2>6. (x - y) * (x + y) = P * (k - l) + 0
    BY <2>4, <2>5, Sizes
  <2> QED
    BY <2>3, <2>4, <2>6, RemainderUnique, Sizes DEF **
<1> SUFFICES ASSUME NEW x \in 1 .. Half, NEW y \in 1 .. Half, x ** x = y ** y
             PROVE  x = y
  OBVIOUS
<1>2. ~ (x > y) /\ ~ (y > x)
  BY <1>1
<1> QED
  BY <1>2, HalfIs

\* The square of any unit is one of them, since x^2 = (P - x)^2.
LEMMA SquareIs == \A x \in Units : x ** x \in Squares
<1> SUFFICES ASSUME NEW x \in Units, x > Half
             PROVE  x ** x \in Squares
  BY HalfIs DEF Squares, Units
<1>1. P - x \in 1 .. Half /\ x \in Int
  BY HalfIs, Sizes DEF Units
<1>2. (P - x) * (P - x) = P * (P - 2 * x) + x * x
  BY <1>1, Sizes
<1>3. (P - x) ** (P - x) = x ** x
  <2>1. x * x \in Int /\ (P - x) * (P - x) \in Int /\ P - 2 * x \in Int
    BY <1>1, Sizes
  <2> QED
    BY <1>2, <2>1, Congruent DEF **
<1> QED
  BY <1>1, <1>3 DEF Squares

LEMMA SquaresClosed ==
  /\ Squares \subseteq Units /\ 1 \in Squares
  /\ \A x, y \in Squares : x ** y \in Squares
<1>1. Squares \subseteq Units
  BY HalfIs, UnitsClosed DEF Squares
<1>2. 1 \in Squares
  BY SquareIs, TimesOne, Sizes
<1>3. ASSUME NEW x \in Squares, NEW y \in Squares
      PROVE  x ** y \in Squares
  <2>1. PICK p \in Units, r \in Units : x = p ** p /\ y = r ** r
    BY HalfIs DEF Squares
  <2>2. x ** y = (p ** r) ** (p ** r)
    BY <2>1, TimesCross, Sizes
  <2> QED
    BY <2>1, <2>2, UnitsClosed, SquareIs
<1> QED
  BY <1>1, <1>2, <1>3

LEMMA SquaresCount == IsFiniteSet(Squares) /\ Cardinality(Squares) = Half
<1> DEFINE f == [p \in 1 .. Half |-> p ** p]
<1>1. IsFiniteSet(1 .. Half) /\ Cardinality(1 .. Half) = Half
  BY FS_Interval, HalfIs
<1>2. f \in Surjection(1 .. Half, Squares)
  BY DEF Surjection, Squares
<1>3. f \in Injection(1 .. Half, Squares)
  BY <1>2, SquaresApart DEF Injection, IsInjective, Surjection
<1> QED
  BY <1>1, <1>2, <1>3, FS_Surjection

-----------------------------------------------------------------------------
(***************************************************************************)
(* Orders                                                                  *)
(***************************************************************************)

\* n is the order of u.
IsOrder(u, n) ==
  /\ n \in Nat \ {0} /\ Power(u, n) = 1
  /\ \A i \in 1 .. n - 1 : Power(u, i) # 1

Orbit(u, n, y) == {y ** Power(u, i) : i \in 0 .. n - 1}

Stable(u, T) == T \in SUBSET Units /\ \A y \in T : y ** u \in T

LEMMA OrbitSize ==
  ASSUME NEW u \in Units, NEW n, IsOrder(u, n), NEW y \in Units
  PROVE  IsFiniteSet(Orbit(u, n, y)) /\ Cardinality(Orbit(u, n, y)) = n
<1>0. n \in Nat \ {0}
  BY DEF IsOrder
<1>1. ASSUME NEW i \in 0 .. n - 1, NEW j \in 0 .. n - 1, i < j
      PROVE  y ** Power(u, i) # y ** Power(u, j)
  <2> SUFFICES ASSUME y ** Power(u, i) = y ** Power(u, j)
               PROVE  FALSE
    OBVIOUS
  <2>0. i \in Nat /\ j - i \in Nat /\ j = i + (j - i) /\ j - i \in 1 .. n - 1
    BY <1>0, <1>1
  <2>1. Power(u, i) \in Units /\ Power(u, j) \in Units /\ Power(u, j - i) \in Units
    BY <1>0, <2>0, PowerUnit
  <2>2. Power(u, i) = Power(u, j)
    BY <2>1, Cancel, Sizes
  <2>3. Power(u, j) = Power(u, i) ** Power(u, j - i)
    BY <2>0, PowerPlus, Sizes
  <2>4. Power(u, i) ** 1 = Power(u, i)
    BY <2>1, TimesOne, Sizes
  <2>5. Power(u, j - i) = 1
    BY <2>1, <2>2, <2>3, <2>4, Cancel, Sizes
  <2> QED
    BY <2>0, <2>5 DEF IsOrder
<1> DEFINE f == [i \in 0 .. n - 1 |-> y ** Power(u, i)]
<1>2. f \in Surjection(0 .. n - 1, Orbit(u, n, y))
  BY DEF Surjection, Orbit
<1>3. f \in Injection(0 .. n - 1, Orbit(u, n, y))
  <2>1. ASSUME NEW i \in 0 .. n - 1, NEW j \in 0 .. n - 1, f[i] = f[j]
        PROVE  i = j
    <3>1. ~ (i < j) /\ ~ (j < i)
      BY <1>1, <2>1
    <3> QED
      BY <1>0, <3>1
  <2> QED
    BY <1>2, <2>1 DEF Injection, IsInjective, Surjection
<1>4. IsFiniteSet(0 .. n - 1) /\ Cardinality(0 .. n - 1) = n
  BY <1>0, FS_Interval
<1> QED
  BY <1>2, <1>3, <1>4, FS_Surjection

LEMMA OrbitStays ==
  ASSUME NEW u \in Units, NEW n, IsOrder(u, n),
         NEW T, Stable(u, T), NEW y \in T
  PROVE  Orbit(u, n, y) \subseteq T
<1> DEFINE I == {i \in Nat : y ** Power(u, i) \in T}
<1>0. y \in Elements /\ u \in Elements
  BY Sizes DEF Stable
<1>1. 0 \in I
  BY <1>0, PowerStep, TimesOne
<1>2. ASSUME NEW i \in I
      PROVE  i + 1 \in I
  <2>1. Power(u, i) \in Elements /\ Power(u, i + 1) = Power(u, i) ** u
    BY <1>0, PowerStep
  <2>2. y ** Power(u, i + 1) = (y ** Power(u, i)) ** u
    BY <1>0, <2>1, PowerTypes
  <2> QED
    BY <2>2 DEF Stable
<1>3. I \in SUBSET Nat
  OBVIOUS
<1> HIDE DEF I
<1>4. I = Nat
  BY <1>1, <1>2, <1>3, Counting
<1>5. \A i \in 0 .. n - 1 : i \in Nat
  BY DEF IsOrder
<1> QED
  BY <1>4, <1>5 DEF I, Orbit

\* u moves nothing into an orbit that was not in it.
LEMMA RestStable ==
  ASSUME NEW u \in Units, NEW n, IsOrder(u, n),
         NEW T, Stable(u, T), NEW y \in T
  PROVE  Stable(u, T \ Orbit(u, n, y))
<1> SUFFICES ASSUME NEW z \in T, z ** u \in Orbit(u, n, y)
             PROVE  z \in Orbit(u, n, y)
  BY DEF Stable
<1>0. y \in Elements /\ z \in Elements /\ u \in Elements /\ n \in Nat \ {0}
  BY Sizes DEF Stable, IsOrder
<1>1. ASSUME NEW i \in 0 .. n - 1, z ** u = y ** Power(u, i + 1)
      PROVE  z \in Orbit(u, n, y)
  <2>0. i \in Nat
    BY <1>0
  <2>1. Power(u, i) \in Elements /\ Power(u, i + 1) = Power(u, i) ** u
    BY <1>0, <2>0, PowerStep
  <2>2. y ** Power(u, i) \in Elements
    BY <1>0, <2>1, PowerTypes
  <2>3. z ** u = (y ** Power(u, i)) ** u
    BY <1>0, <1>1, <2>1, PowerTypes
  <2>4. u ** z = u ** (y ** Power(u, i))
    BY <1>0, <2>2, <2>3, PowerTypes
  <2>5. z = y ** Power(u, i)
    BY <1>0, <2>2, <2>4, Cancel
  <2> QED
    BY <2>5 DEF Orbit
<1>2. PICK i \in 0 .. n - 1 : z ** u = y ** Power(u, i)
  BY DEF Orbit
<1>3. CASE i = 0
  <2>1. Power(u, i) = Power(u, (n - 1) + 1)
    BY <1>0, <1>3, PowerStep DEF IsOrder
  <2>2. n - 1 \in 0 .. n - 1
    BY <1>0
  <2> QED
    BY <1>1, <1>2, <2>1, <2>2
<1>4. CASE i # 0
  <2>1. i - 1 \in 0 .. n - 1 /\ (i - 1) + 1 = i
    BY <1>0, <1>4
  <2> QED
    BY <1>1, <1>2, <2>1
<1> QED
  BY <1>3, <1>4

\* A finite set is cut into orbits of one size.
LEMMA OrderDivides ==
  ASSUME NEW u \in Units, NEW n, IsOrder(u, n),
         NEW T, Stable(u, T), IsFiniteSet(T)
  PROVE  \E c \in Nat : Cardinality(T) = c * n
<1> DEFINE Counted(U) == \E c \in Nat : Cardinality(U) = c * n
           Bad == {m \in Nat : \E U \in SUBSET T : /\ Stable(u, U)
                                                 /\ Cardinality(U) = m
                                                 /\ ~ Counted(U)}
<1>0. n \in Nat \ {0}
  BY DEF IsOrder
<1>1. ASSUME NEW U \in SUBSET T
      PROVE  IsFiniteSet(U) /\ Cardinality(U) \in Nat
  BY FS_Subset, FS_CardinalityType
<1> SUFFICES ASSUME ~ Counted(T)
             PROVE  FALSE
  OBVIOUS
<1>2. Bad \in SUBSET Nat /\ Bad # {}
  BY <1>1
<1>3. PICK m \in Bad : \A k \in Bad : m <= k
  <2> HIDE DEF Bad
  <2> QED
    BY <1>2, LeastNatural
<1>4. PICK U \in SUBSET T : Stable(u, U) /\ Cardinality(U) = m /\ ~ Counted(U)
  BY <1>3
<1>5. U # {}
  <2>1. 0 = 0 * n
    BY <1>0
  <2> QED
    BY <1>4, <2>1, FS_EmptySet
<1>6. PICK y \in U : TRUE
  BY <1>5
<1> DEFINE V == U \ Orbit(u, n, y)
<1>7. Stable(u, V) /\ V \in SUBSET T
  BY <1>4, RestStable
<1>8. Cardinality(U) = Cardinality(V) + n
  <2>1. y \in Units /\ Orbit(u, n, y) \subseteq U
    BY <1>4, OrbitStays DEF Stable
  <2>2. IsFiniteSet(Orbit(u, n, y)) /\ Cardinality(Orbit(u, n, y)) = n
    BY <2>1, OrbitSize
  <2>3. U \cap Orbit(u, n, y) = Orbit(u, n, y)
    BY <2>1
  <2>4. Cardinality(V) = Cardinality(U) - n
    <3>1. IsFiniteSet(U)
      BY <1>1
    <3>2. Cardinality(V) = Cardinality(U) - Cardinality(U \cap Orbit(u, n, y))
      BY <3>1, FS_Difference, Zenon
    <3> QED
      BY <2>2, <2>3, <3>2
  <2>5. Cardinality(U) \in Nat
    BY <1>1
  <2> QED
    BY <1>0, <2>4, <2>5
<1>9. IsFiniteSet(V) /\ Cardinality(V) \in Nat
  BY <1>1, <1>7
<1> HIDE DEF V
<1>10. ~ Counted(V)
  <2> SUFFICES ASSUME NEW c \in Nat, Cardinality(V) = c * n
               PROVE  Counted(U)
    BY <1>4
  <2>1. c + 1 \in Nat /\ (c + 1) * n = c * n + n
    BY <1>0
  <2> QED
    BY <1>8, <2>1
<1>11. Cardinality(V) \in Bad
  BY <1>7, <1>9, <1>10
<1>12. Cardinality(V) < m
  BY <1>0, <1>4, <1>8, <1>9
<1> QED
  BY <1>3, <1>9, <1>11, <1>12

\* The order of a square divides Half, and that is prime: every square but 1
\* has this order, and its powers are all squares.
LEMMA SquareOrder ==
  ASSUME NEW u \in Squares, u # 1, NEW a \in 1 .. P - 2, Power(u, a) = 1
  PROVE  a = Half /\ \A y \in Squares : Power(y, Half) = 1
<1> DEFINE N == {i \in Nat : i # 0 /\ Power(u, i) = 1}
<1>0. u \in Units /\ u \in Elements /\ Half \in Nat /\ P = 2 * Half + 1 /\ Half > 1
  BY SquaresClosed, HalfIs, Sizes
<1>1. N \in SUBSET Nat /\ a \in N
  OBVIOUS
<1>2. PICK n \in N : \A i \in N : n <= i
  <2> HIDE DEF N
  <2> QED
    BY <1>1, LeastNatural
<1>3. IsOrder(u, n)
  <2>1. n \in Nat \ {0} /\ Power(u, n) = 1
    BY <1>2
  <2>2. ASSUME NEW i \in 1 .. n - 1
        PROVE  Power(u, i) # 1
    <3>1. i \in Nat /\ i # 0 /\ ~ (n <= i)
      BY <2>1
    <3> QED
      BY <1>2, <3>1
  <2> QED
    BY <2>1, <2>2 DEF IsOrder
<1>4. Stable(u, Squares)
  BY SquaresClosed DEF Stable
<1>5. PICK c \in Nat : Half = c * n
  BY <1>0, <1>3, <1>4, OrderDivides, SquaresCount
<1>6. n \in Nat \ {0}
  BY <1>2
<1>7. n # 1
  <2>1. Power(u, 0) = 1 /\ Power(u, 0 + 1) = Power(u, 0) ** u
    BY <1>0, PowerStep
  <2>2. Power(u, 1) = u
    BY <1>0, <2>1, TimesOne
  <2> QED
    BY <1>2, <2>2
<1>8. n = Half
  <2>1. c # 0
    BY <1>0, <1>5, <1>6
  <2>2. n <= Half
    BY <1>5, <1>6, <2>1
  <2>3. Half % n = 0
    BY <1>0, <1>5, <1>6, RemainderUnique
  <2>4. n \notin 2 .. Half - 1
    BY <2>3, GroupAssumption DEF Prime
  <2> QED
    BY <1>0, <1>6, <1>7, <2>2, <2>4
<1>9. a = Half
  <2>1. n <= a /\ a \in Nat
    BY <1>1, <1>2
  <2> SUFFICES ASSUME a > Half
               PROVE  FALSE
    BY <1>0, <1>8, <2>1
  <2>2. a - Half \in Nat /\ a - Half # 0 /\ a - Half < n /\ a = Half + (a - Half)
    BY <1>0, <1>8
  <2>3. Power(u, a) = Power(u, Half) ** Power(u, a - Half)
    BY <1>0, <2>2, PowerPlus
  <2>4. Power(u, Half) = 1 /\ Power(u, a - Half) \in Elements
    BY <1>0, <1>2, <1>8, <2>2, PowerStep
  <2>5. Power(u, a - Half) = 1
    BY <2>3, <2>4, TimesOne
  <2>6. a - Half \in N
    BY <2>2, <2>5
  <2>7. n <= a - Half
    BY <1>2, <2>6
  <2> QED
    BY <1>6, <2>2, <2>7
<1>10. ASSUME NEW y \in Squares
       PROVE  Power(y, Half) = 1
  <2>1. Orbit(u, n, 1) \subseteq Squares
    BY <1>0, <1>3, <1>4, OrbitStays, SquaresClosed
  <2>2. Cardinality(Orbit(u, n, 1)) = Half
    BY <1>0, <1>3, <1>8, OrbitSize, Sizes
  <2>3. Orbit(u, n, 1) = Squares
    BY <2>1, <2>2, SquaresCount, FS_Subset
  <2>4. PICK i \in 0 .. n - 1 : y = 1 ** Power(u, i)
    BY <2>3 DEF Orbit
  <2>5. i \in Nat
    BY <1>6
  <2>6. y = Power(u, i)
    BY <1>0, <2>4, <2>5, PowerStep, TimesOne
  <2>7. Power(Power(u, i), Half) = Power(Power(u, Half), i)
    BY <1>0, <2>5, PowerSwap
  <2>8. Power(u, Half) = 1
    BY <1>2, <1>8
  <2> QED
    BY <2>5, <2>6, <2>7, <2>8, PowerOfOne
<1> QED
  BY <1>9, <1>10

-----------------------------------------------------------------------------
(***************************************************************************)
(* What the handshake computes                                             *)
(***************************************************************************)

LEMMA Parameters ==
  /\ G \in Squares /\ G \in Elements /\ G \in Units
  /\ \A a \in Exponents : a \in Nat /\ a \in 1 .. P - 2
  /\ \A p \in Passwords : /\ p \in 1 .. Half
                         /\ SecretToElement(p) = p ** p
                         /\ SecretToElement(p) \in Squares
                         /\ SecretToElement(p) \in Units
<1>1. G \in Squares
  BY GroupAssumption DEF Squares, **
<1>2. ASSUME NEW p \in Passwords
      PROVE  /\ p \in 1 .. Half
             /\ SecretToElement(p) = p ** p
             /\ SecretToElement(p) \in Squares
  BY CovenantAssumption DEF SecretToElement, Squares, **
<1>3. Squares \subseteq Units /\ Units \subseteq Elements
  BY SquaresClosed, Sizes
<1>4. \A a \in Exponents : a \in Nat /\ a \in 1 .. P - 2
  BY CovenantAssumption
<1> QED
  BY <1>1, <1>2, <1>3, <1>4

LEMMA MaskIs ==
  /\ \A x, e : Mask(x, e) = x ** e
  /\ \A x, e : Unmask(x, e) = x ** ModInv(e)
  /\ \A x : PublicElement(x) = Power(G, x)
  /\ \A x, n : SharedSecret(x, n) = Power(x, n)
  BY DEF Mask, Unmask, PublicElement, SharedSecret, **

\* Neither a public element nor a masked one nor a secret is 0.
LEMMA NothingIsZero ==
  /\ \A n \in Nat : PublicElement(n) \in Units
  /\ \A x \in Units, n \in Nat : SharedSecret(x, n) \in Units
  /\ \A x \in Units, p \in Passwords :
       /\ Mask(x, SecretToElement(p)) \in Units
       /\ Unmask(x, SecretToElement(p)) \in Units
<1>1. ASSUME NEW x \in Units, NEW p \in Passwords
      PROVE  /\ x ** SecretToElement(p) \in Units
             /\ x ** ModInv(SecretToElement(p)) \in Units
  BY Parameters, ModInvIs, UnitsClosed
<1> QED
  BY <1>1, MaskIs, Parameters, PowerUnit

\* One password: the client recovers the server's element, and the two ends
\* compute one secret.
LEMMA RightArithmetic ==
  ASSUME NEW a \in Exponents, NEW b \in Exponents, NEW p \in Passwords
  PROVE  /\ Unmask(Mask(PublicElement(b), SecretToElement(p)),
                   SecretToElement(p)) = PublicElement(b)
         /\ SharedSecret(PublicElement(b), a) = SharedSecret(PublicElement(a), b)
<1>1. a \in Nat /\ b \in Nat /\ G \in Elements
  BY Parameters
<1>2. SharedSecret(PublicElement(b), a) = SharedSecret(PublicElement(a), b)
  BY <1>1, MaskIs, PowerSwap
<1>3. PICK e \in Units : e = SecretToElement(p)
  BY Parameters
<1>4. PICK x \in Elements : x = PublicElement(b)
  BY <1>1, NothingIsZero, Sizes
<1>5. ModInv(e) \in Elements /\ e ** ModInv(e) = 1 /\ e \in Elements
  BY ModInvIs, Sizes
<1>6. (x ** e) ** ModInv(e) = x ** (e ** ModInv(e))
  BY <1>5, PowerTypes
<1>7. (x ** e) ** ModInv(e) = x
  BY <1>5, <1>6, TimesOne
<1> QED
  BY <1>2, <1>3, <1>4, <1>7, MaskIs

\* Two passwords: the client is off by a square other than 1, which no
\* exponent removes but Half, and that makes the client's element 1.
LEMMA WrongArithmetic ==
  ASSUME NEW a \in Exponents, NEW b \in Exponents, InRange(PublicElement(a)),
         NEW p \in Passwords, NEW q \in Passwords, p # q
  PROVE  SharedSecret(Unmask(Mask(PublicElement(b), SecretToElement(p)),
                             SecretToElement(q)), a)
           # SharedSecret(PublicElement(a), b)
<1>1. a \in Nat /\ b \in Nat /\ G \in Elements /\ a \in 1 .. P - 2
  BY Parameters
<1>2. PICK d \in Squares : d = SecretToElement(p)
  BY Parameters
<1>3. PICK e \in Units : e = SecretToElement(q) /\ e = q ** q
  BY Parameters
<1>4. PICK x \in Units : x = PublicElement(b)
  BY <1>1, NothingIsZero
<1>5. PICK i \in Units : i = ModInv(q) /\ q ** i = 1
  BY Parameters, HalfIs, ModInvIs
<1>6. PICK j \in Units : j = ModInv(e) /\ e ** j = 1
  BY ModInvIs
<1>7. /\ Units \subseteq Elements /\ Squares \subseteq Units /\ q \in Units
      /\ 1 \in Elements
  BY Parameters, HalfIs, SquaresClosed, Sizes
<1>8. j \in Squares
  <2>1. (q ** q) ** (i ** i) = (q ** i) ** (q ** i)
    BY <1>7, TimesCross
  <2>2. e ** (i ** i) = 1
    BY <1>3, <1>5, <1>7, <2>1, TimesOne
  <2>3. j = i ** i
    BY <1>6, <1>7, <2>2, Cancel, UnitsClosed
  <2> QED
    BY <2>3, SquareIs
<1>9. PICK u \in Squares : u = d ** j
  BY <1>8, SquaresClosed
<1>10. u # 1
  <2> SUFFICES ASSUME d ** j = 1
               PROVE  FALSE
    BY <1>9
  <2>1. j ** d = 1 /\ j ** e = 1
    BY <1>6, <1>7, PowerTypes
  <2>2. d = e
    BY <1>7, <2>1, Cancel
  <2>3. p \in 1 .. Half /\ q \in 1 .. Half /\ p ** p = q ** q
    BY <1>2, <1>3, <2>2, Parameters
  <2> QED
    BY <2>3, SquaresApart
<1>11. (x ** d) ** j = x ** u
  BY <1>7, <1>9, PowerTypes
<1>12. Power(x ** u, a) = Power(x, a) ** Power(u, a)
  BY <1>1, <1>7, PowerTimes
<1>13. Power(x, a) = SharedSecret(PublicElement(a), b)
  BY <1>1, <1>4, MaskIs, PowerSwap
<1> SUFFICES ASSUME Power(x ** u, a) = Power(x, a)
             PROVE  FALSE
  BY <1>2, <1>3, <1>4, <1>6, <1>11, <1>13, MaskIs
<1>14. Power(u, a) = 1
  <2>1. Power(x, a) \in Units /\ Power(u, a) \in Elements
    BY <1>1, <1>7, PowerUnit, PowerStep
  <2>2. Power(x, a) ** 1 = Power(x, a)
    BY <1>7, <2>1, TimesOne
  <2> QED
    BY <1>7, <1>12, <2>1, <2>2, Cancel
<1>15. a = Half /\ Power(G, Half) = 1
  BY <1>1, <1>10, <1>14, SquareOrder, Parameters
<1> QED
  BY <1>15, MaskIs DEF InRange

-----------------------------------------------------------------------------
(***************************************************************************)
(* Authentication                                                          *)
(***************************************************************************)

\* A client in one of these places has sent its confirmation, or never will.
Confirmed == {"result", "ok", "failed"}

ClientMac ==
  ConfirmMac(client.shared, PublicElement(client.a), "client",
             PublicElement(client.a))

ServerMac ==
  ConfirmMac(server.shared, server.commit, "server", PublicElement(server.b))

Computed(mac) == mac \notin {NoMac, NonAsciiMac}

\* Values of the variables that proofs about their fields rely on. Elements
\* are not spoken of.
Shapes ==
  /\ DOMAIN client = {"at", "a", "public_b", "shared"}
  /\ DOMAIN server = {"at", "b", "commit", "shared"}
  /\ \E S : toServer \in Seq(S)
  /\ \E S : toClient \in Seq(S)

\* A MAC that somebody computed, on its way to the server, is the client's.
ConfirmsHonest ==
  \A i \in 1 .. Len(toServer) :
    (toServer[i].type = "covenant_confirm" /\ Computed(toServer[i].confirm_c)) =>
      client.at \in Confirmed /\ toServer[i].confirm_c = ClientMac

\* And on its way to the client, the server's.
VerdictsHonest ==
  \A i \in 1 .. Len(toClient) :
    (toClient[i].type = "auth_ok" /\ Computed(toClient[i].confirm_s)) =>
      server.at = "ok" /\ toClient[i].confirm_s = ServerMac

IInv ==
  /\ Shapes
  /\ ConfirmsHonest
  /\ VerdictsHonest
  /\ ServerAuthenticates
  /\ ClientAuthenticates

-----------------------------------------------------------------------------
LEMMA MacsDiffer ==
  /\ \A k, c, r, x : Computed(ConfirmMac(k, c, r, x))
  /\ \A k, c, r, x, l, d, s, y :
       ConfirmMac(k, c, r, x) = ConfirmMac(l, d, s, y) => k = l /\ c = d /\ x = y
  BY DEF Computed, ConfirmMac, NoMac, NonAsciiMac

LEMMA Sending ==
  ASSUME NEW s, NEW f, \E S : s \in Seq(S)
  PROVE  /\ \E S : Sent(s, f) \in Seq(S)
         /\ \A i \in 1 .. Len(Sent(s, f)) :
              Sent(s, f)[i] = f \/ \E j \in 1 .. Len(s) : Sent(s, f)[i] = s[j]
<1>1. PICK S : s \in Seq(S)
  OBVIOUS
<1>2. s \in Seq(S \cup {f})
  BY <1>1
<1>3. Append(s, f) \in Seq(S \cup {f}) /\ Len(Append(s, f)) = Len(s) + 1
  BY <1>2, AppendProperties
<1>4. \A i \in 1 .. Len(s) + 1 :
        Append(s, f)[i] = IF i = Len(s) + 1 THEN f ELSE s[i]
  BY <1>2, AppendProperties
<1>5. CASE link = "up"
  <2>1. Sent(s, f) = Append(s, f)
    BY <1>5 DEF Sent
  <2> QED
    BY <2>1, <1>2, <1>3, <1>4
<1>6. CASE link # "up"
  <2>1. Sent(s, f) = s
    BY <1>6 DEF Sent
  <2> QED
    BY <2>1, <1>1
<1> QED
  BY <1>5, <1>6

LEMMA Taking ==
  ASSUME NEW s, s # <<>>, \E S : s \in Seq(S)
  PROVE  /\ \E S : Tail(s) \in Seq(S)
         /\ 1 \in 1 .. Len(s) /\ Head(s) = s[1]
         /\ \A i \in 1 .. Len(Tail(s)) : \E j \in 1 .. Len(s) : Tail(s)[i] = s[j]
<1>1. PICK S : s \in Seq(S)
  OBVIOUS
<1>2. Len(s) \in Nat /\ Len(s) # 0
  BY <1>1, EmptySeq
<1>3. Tail(s) \in Seq(S) /\ Len(Tail(s)) = Len(s) - 1
  BY <1>1, HeadTailProperties
<1>4. \A i \in 1 .. Len(Tail(s)) : Tail(s)[i] = s[i + 1]
  BY <1>1, HeadTailProperties
<1>5. \A i \in 1 .. Len(Tail(s)) : i + 1 \in 1 .. Len(s)
  BY <1>2, <1>3
<1> QED
  BY <1>1, <1>2, <1>3, <1>4, <1>5

LEMMA Replacing ==
  ASSUME NEW s, NEW f, s # <<>>, \E S : s \in Seq(S)
  PROVE  /\ \E S : <<f>> \o Tail(s) \in Seq(S)
         /\ \A i \in 1 .. Len(<<f>> \o Tail(s)) :
              \/ (<<f>> \o Tail(s))[i] = f
              \/ \E j \in 1 .. Len(s) : (<<f>> \o Tail(s))[i] = s[j]
<1>1. PICK S : Tail(s) \in Seq(S)
  BY Taking
<1> DEFINE T == S \cup {f}
<1>2. Tail(s) \in Seq(T) /\ <<f>> \in Seq(T) /\ Len(<<f>>) = 1 /\ <<f>>[1] = f
  BY <1>1
<1>3. Len(Tail(s)) \in Nat
  BY <1>1
<1> HIDE DEF T
<1>4. /\ <<f>> \o Tail(s) \in Seq(T)
      /\ Len(<<f>> \o Tail(s)) = 1 + Len(Tail(s))
      /\ \A i \in 1 .. 1 + Len(Tail(s)) :
           (<<f>> \o Tail(s))[i] = IF i <= 1 THEN <<f>>[i] ELSE Tail(s)[i - 1]
  BY <1>2, ConcatProperties
<1>5. ASSUME NEW i \in 1 .. Len(<<f>> \o Tail(s)),
             (<<f>> \o Tail(s))[i] # f
      PROVE  \E j \in 1 .. Len(s) : (<<f>> \o Tail(s))[i] = s[j]
  <2>1. i # 1
    BY <1>5, <1>4, <1>2
  <2>2. i - 1 \in 1 .. Len(Tail(s)) /\ (<<f>> \o Tail(s))[i] = Tail(s)[i - 1]
    BY <2>1, <1>3, <1>4
  <2> QED
    BY <2>2, Taking
<1> QED
  BY <1>4, <1>5

-----------------------------------------------------------------------------
LEMMA InitIInv == Init => IInv
<1> SUFFICES ASSUME Init PROVE IInv
  OBVIOUS
<1>1. toServer = <<>> /\ toClient = <<>>
  BY DEF Init
<1>2. <<>> \in Seq({}) /\ Len(<<>>) = 0
  OBVIOUS
<1>3. Shapes
  BY <1>1, <1>2 DEF Init, Shapes
<1> QED
  BY <1>1, <1>2, <1>3
  DEF Init, IInv, ConfirmsHonest, VerdictsHonest, ServerAuthenticates,
      ClientAuthenticates

\* What a client has confirmed it does not change.
LEMMA ClientKeeps ==
  ASSUME IInv, [Next]_vars, client.at \in Confirmed
  PROVE  /\ client'.at \in Confirmed
         /\ client'.a = client.a /\ client'.shared = client.shared
         /\ client'.public_b = client.public_b
<1> USE DEF Confirmed
<1>1. DOMAIN client = {"at", "a", "public_b", "shared"}
  BY DEF IInv, Shapes
<1>2. CASE ClientStep
  BY <1>1, <1>2
  DEF ClientStep, ClientCommits, ClientConfirms, ClientRefusesChallenge,
      ClientAccepts, ClientRefusesResult, ClientDisconnected, ClientExits,
      ClientReceives
<1>3. CASE ServerStep \/ AlterToServer \/ AlterToClient \/ Disconnect
  <2>1. client' = client
    BY <1>3
    DEF ServerStep, ServerChallenges, ServerRefusesCommit, ServerAccepts,
        ServerRefusesConfirm, ServerCrashes, ServerDisconnected, ServerCloses,
        ServerReceives, AlterToServer, AlterToClient, Disconnect
  <2> QED
    BY <2>1
<1>4. CASE UNCHANGED vars
  BY <1>4 DEF vars
<1> QED
  BY <1>2, <1>3, <1>4 DEF Next

\* A server that has accepted is done.
LEMMA ServerKeeps ==
  ASSUME [Next]_vars, server.at = "ok"
  PROVE  server' = server
<1>1. CASE ServerStep
  BY <1>1
  DEF ServerStep, ServerChallenges, ServerRefusesCommit, ServerAccepts,
      ServerRefusesConfirm, ServerCrashes, ServerDisconnected, ServerCloses,
      ServerReceives
<1>2. CASE ClientStep \/ AlterToServer \/ AlterToClient \/ Disconnect
  BY <1>2
  DEF ClientStep, ClientCommits, ClientConfirms, ClientRefusesChallenge,
      ClientAccepts, ClientRefusesResult, ClientDisconnected, ClientExits,
      ClientReceives, AlterToServer, AlterToClient, Disconnect
<1>3. CASE UNCHANGED vars
  BY <1>3 DEF vars
<1> QED
  BY <1>1, <1>2, <1>3 DEF Next

LEMMA NextShapes == IInv /\ [Next]_vars => Shapes'
<1> SUFFICES ASSUME IInv, [Next]_vars PROVE Shapes'
  OBVIOUS
<1>1. Shapes
  BY DEF IInv
<1>2. DOMAIN client' = {"at", "a", "public_b", "shared"}
  BY <1>1
  DEF Shapes, Next, vars, ClientStep, ClientCommits, ClientConfirms,
      ClientRefusesChallenge, ClientAccepts, ClientRefusesResult,
      ClientDisconnected, ClientExits, ClientReceives, ServerStep,
      ServerChallenges, ServerRefusesCommit, ServerAccepts,
      ServerRefusesConfirm, ServerCrashes, ServerDisconnected, ServerCloses,
      ServerReceives, AlterToServer, AlterToClient, Disconnect
<1>3. DOMAIN server' = {"at", "b", "commit", "shared"}
  BY <1>1
  DEF Shapes, Next, vars, ClientStep, ClientCommits, ClientConfirms,
      ClientRefusesChallenge, ClientAccepts, ClientRefusesResult,
      ClientDisconnected, ClientExits, ClientReceives, ServerStep,
      ServerChallenges, ServerRefusesCommit, ServerAccepts, Fail,
      ServerRefusesConfirm, ServerCrashes, ServerDisconnected, ServerCloses,
      ServerReceives, AlterToServer, AlterToClient, Disconnect
<1>4. \/ toServer' = toServer
      \/ \E f : toServer' = Sent(toServer, f)
      \/ toServer # <<>> /\ toServer' = Tail(toServer)
      \/ toServer # <<>> /\ \E f : toServer' = <<f>> \o Tail(toServer)
  BY DEF Next, vars, ClientStep, ClientCommits, ClientConfirms,
      ClientRefusesChallenge, ClientAccepts, ClientRefusesResult,
      ClientDisconnected, ClientExits, ClientReceives, ServerStep,
      ServerChallenges, ServerRefusesCommit, ServerAccepts,
      ServerRefusesConfirm, ServerCrashes, ServerDisconnected, ServerCloses,
      ServerReceives, AlterToServer, AlterToClient, Disconnect
<1>5. \/ toClient' = toClient
      \/ \E f : toClient' = Sent(toClient, f)
      \/ toClient # <<>> /\ toClient' = Tail(toClient)
      \/ toClient # <<>> /\ \E f : toClient' = <<f>> \o Tail(toClient)
  BY DEF Next, vars, ClientStep, ClientCommits, ClientConfirms,
      ClientRefusesChallenge, ClientAccepts, ClientRefusesResult,
      ClientDisconnected, ClientExits, ClientReceives, ServerStep,
      ServerChallenges, ServerRefusesCommit, ServerAccepts, Fail,
      ServerRefusesConfirm, ServerCrashes, ServerDisconnected, ServerCloses,
      ServerReceives, AlterToServer, AlterToClient, Disconnect
<1>6. /\ \E S : toServer \in Seq(S)
      /\ \E S : toClient \in Seq(S)
  BY <1>1 DEF Shapes
<1>7. ASSUME NEW s, NEW t, \E S : s \in Seq(S),
             \/ t = s
             \/ \E f : t = Sent(s, f)
             \/ s # <<>> /\ t = Tail(s)
             \/ s # <<>> /\ \E f : t = <<f>> \o Tail(s)
      PROVE  \E S : t \in Seq(S)
  <2>1. CASE t = s
    BY <1>7, <2>1
  <2>2. CASE \E f : t = Sent(s, f)
    BY <1>7, <2>2, Sending
  <2>3. CASE s # <<>> /\ t = Tail(s)
    BY <1>7, <2>3, Taking
  <2>4. CASE s # <<>> /\ \E f : t = <<f>> \o Tail(s)
    <3>1. PICK f : t = <<f>> \o Tail(s)
      BY <2>4
    <3>2. \E S : <<f>> \o Tail(s) \in Seq(S)
      BY <1>7, <2>4, Replacing
    <3> QED
      BY <3>1, <3>2
  <2> QED
    BY <1>7, <2>1, <2>2, <2>3, <2>4
<1>8. (\E S : toServer' \in Seq(S)) /\ (\E S : toClient' \in Seq(S))
  <2>1. \E S : toServer' \in Seq(S)
    BY <1>4, <1>6, <1>7
  <2>2. \E S : toClient' \in Seq(S)
    BY <1>5, <1>6, <1>7
  <2> QED
    BY <2>1, <2>2
<1> QED
  BY <1>2, <1>3, <1>8 DEF Shapes

-----------------------------------------------------------------------------
\* What may become of a confirmation on its way: nobody but the client makes
\* one whose MAC somebody computed.
LEMMA ConfirmationsSpoiled ==
  ASSUME NEW f, NEW g \in Altered(f), g.type = "covenant_confirm",
         Computed(g.confirm_c)
  PROVE  f.type = "covenant_confirm" /\ g.confirm_c = f.confirm_c
  BY DEF Altered, OtherFrame, Malformed, AuthFailFrame, CommitFrame,
         ChallengeFrame, ConfirmFrame, AuthOkFrame, Computed

LEMMA VerdictsSpoiled ==
  ASSUME NEW f, NEW g \in Altered(f), g.type = "auth_ok",
         Computed(g.confirm_s)
  PROVE  f.type = "auth_ok" /\ g.confirm_s = f.confirm_s
  BY DEF Altered, OtherFrame, Malformed, AuthFailFrame, CommitFrame,
         ChallengeFrame, ConfirmFrame, AuthOkFrame, Computed

LEMMA NextConfirmsHonest == IInv /\ [Next]_vars => ConfirmsHonest'
<1> SUFFICES ASSUME IInv, [Next]_vars,
                    NEW i \in 1 .. Len(toServer'),
                    toServer'[i].type = "covenant_confirm",
                    Computed(toServer'[i].confirm_c)
             PROVE  /\ client'.at \in Confirmed
                    /\ toServer'[i].confirm_c = ClientMac'
  BY DEF ConfirmsHonest
<1>1. \E S : toServer \in Seq(S)
  BY DEF IInv, Shapes
<1>2. ASSUME NEW j \in 1 .. Len(toServer),
             toServer[j].type = "covenant_confirm",
             toServer'[i].confirm_c = toServer[j].confirm_c
      PROVE  /\ client'.at \in Confirmed
             /\ toServer'[i].confirm_c = ClientMac'
  <2>1. client.at \in Confirmed /\ toServer[j].confirm_c = ClientMac
    BY <1>2 DEF IInv, ConfirmsHonest
  <2>2. client'.at \in Confirmed /\ ClientMac' = ClientMac
    BY <2>1, ClientKeeps DEF ClientMac
  <2> QED
    BY <1>2, <2>1, <2>2
<1>3. CASE ClientCommits
  <2>1. PICK x : toServer' = Sent(toServer, CommitFrame(x))
    BY <1>3 DEF ClientCommits
  <2>2. toServer'[i] # CommitFrame(x)
    BY DEF CommitFrame
  <2> QED
    BY <1>1, <1>2, <2>1, <2>2, Sending
<1>4. CASE ClientConfirms
  <2> DEFINE K == SharedSecret(Unmask(Head(toClient).masked_b,
                                      SecretToElement(password["client"])),
                               client.a)
             A == PublicElement(client.a)
             F == ConfirmFrame(A, ConfirmMac(K, A, "client", A))
  <2>1. toServer' = Sent(toServer, F)
    BY <1>4 DEF ClientConfirms
  <2>2. client'.at = "result" /\ client'.a = client.a /\ client'.shared = K
    BY <1>4 DEF ClientConfirms, IInv, Shapes
  <2>3. F.confirm_c = ClientMac'
    BY <2>2 DEF ClientMac, ConfirmFrame
  <2>4. CASE toServer'[i] = F
    BY <2>2, <2>3, <2>4 DEF Confirmed
  <2>5. CASE toServer'[i] # F
    <3> HIDE DEF F
    <3> QED
      BY <1>1, <1>2, <2>1, <2>5, Sending
  <2> QED
    BY <2>4, <2>5
<1>5. CASE ServerStep
  <2>1. CASE UNCHANGED toServer
    BY <1>2, <2>1
  <2>2. CASE toServer # <<>> /\ toServer' = Tail(toServer)
    BY <1>1, <1>2, <2>2, Taking
  <2> QED
    BY <1>5, <2>1, <2>2
    DEF ServerStep, ServerChallenges, ServerRefusesCommit, ServerAccepts,
        ServerRefusesConfirm, ServerCrashes, ServerDisconnected, ServerCloses,
        ServerReceives
<1>6. CASE AlterToServer
  <2>1. PICK f \in Altered(Head(toServer)) :
          toServer # <<>> /\ toServer' = <<f>> \o Tail(toServer)
    BY <1>6 DEF AlterToServer
  <2>2. CASE toServer'[i] = f
    <3>1. /\ Head(toServer).type = "covenant_confirm"
          /\ f.confirm_c = Head(toServer).confirm_c
      BY <2>1, <2>2, ConfirmationsSpoiled
    <3>2. 1 \in 1 .. Len(toServer) /\ Head(toServer) = toServer[1]
      BY <1>1, <2>1, Taking
    <3> QED
      BY <1>2, <2>2, <3>1, <3>2
  <2>3. CASE toServer'[i] # f
    BY <1>1, <1>2, <2>1, <2>3, Replacing
  <2> QED
    BY <2>2, <2>3
<1>7. CASE /\ ClientRefusesChallenge \/ ClientAccepts \/ ClientRefusesResult
              \/ ClientDisconnected \/ ClientExits \/ AlterToClient
              \/ Disconnect \/ UNCHANGED vars
  <2>1. toServer' = toServer
    BY <1>7
    DEF ClientRefusesChallenge, ClientAccepts, ClientRefusesResult,
        ClientDisconnected, ClientExits, AlterToClient, Disconnect, vars
  <2> QED
    BY <1>2, <2>1
<1> QED
  BY <1>3, <1>4, <1>5, <1>6, <1>7 DEF Next, ClientStep

LEMMA NextVerdictsHonest == IInv /\ [Next]_vars => VerdictsHonest'
<1> SUFFICES ASSUME IInv, [Next]_vars,
                    NEW i \in 1 .. Len(toClient'),
                    toClient'[i].type = "auth_ok",
                    Computed(toClient'[i].confirm_s)
             PROVE  server'.at = "ok" /\ toClient'[i].confirm_s = ServerMac'
  BY DEF VerdictsHonest
<1>1. \E S : toClient \in Seq(S)
  BY DEF IInv, Shapes
<1>2. ASSUME NEW j \in 1 .. Len(toClient),
             toClient[j].type = "auth_ok",
             toClient'[i].confirm_s = toClient[j].confirm_s
      PROVE  server'.at = "ok" /\ toClient'[i].confirm_s = ServerMac'
  <2>1. server.at = "ok" /\ toClient[j].confirm_s = ServerMac
    BY <1>2 DEF IInv, VerdictsHonest
  <2>2. server' = server
    BY <2>1, ServerKeeps
  <2> QED
    BY <1>2, <2>1, <2>2 DEF ServerMac
<1>3. ASSUME NEW f, toClient' = Sent(toClient, f), f.type # "auth_ok"
      PROVE  server'.at = "ok" /\ toClient'[i].confirm_s = ServerMac'
  BY <1>1, <1>2, <1>3, Sending
<1>4. CASE ServerChallenges
  <2>1. PICK x : toClient' = Sent(toClient, ChallengeFrame(x))
    BY <1>4 DEF ServerChallenges
  <2> QED
    BY <1>3, <2>1 DEF ChallengeFrame
<1>5. CASE ServerRefusesCommit \/ ServerRefusesConfirm
  <2>1. toClient' = Sent(toClient, AuthFailFrame)
    BY <1>5 DEF ServerRefusesCommit, ServerRefusesConfirm, Fail
  <2> QED
    BY <1>3, <2>1 DEF AuthFailFrame
<1>6. CASE ServerAccepts
  <2> DEFINE K == SharedSecret(Head(toServer).a, server.b)
             F == AuthOkFrame(ConfirmMac(K, server.commit, "server",
                                         PublicElement(server.b)))
  <2>1. toClient' = Sent(toClient, F)
    BY <1>6 DEF ServerAccepts
  <2>2. /\ server'.at = "ok" /\ server'.b = server.b
        /\ server'.commit = server.commit /\ server'.shared = K
    BY <1>6 DEF ServerAccepts, IInv, Shapes
  <2>3. F.confirm_s = ServerMac'
    BY <2>2 DEF ServerMac, AuthOkFrame
  <2>4. CASE toClient'[i] = F
    BY <2>2, <2>3, <2>4
  <2>5. CASE toClient'[i] # F
    <3> HIDE DEF F
    <3> QED
      BY <1>1, <1>2, <2>1, <2>5, Sending
  <2> QED
    BY <2>4, <2>5
<1>7. CASE ClientStep
  <2>1. CASE UNCHANGED toClient
    BY <1>2, <2>1
  <2>2. CASE toClient # <<>> /\ toClient' = Tail(toClient)
    BY <1>1, <1>2, <2>2, Taking
  <2> QED
    BY <1>7, <2>1, <2>2
    DEF ClientStep, ClientCommits, ClientConfirms, ClientRefusesChallenge,
        ClientAccepts, ClientRefusesResult, ClientDisconnected, ClientExits,
        ClientReceives
<1>8. CASE AlterToClient
  <2>1. PICK f \in Altered(Head(toClient)) :
          toClient # <<>> /\ toClient' = <<f>> \o Tail(toClient)
    BY <1>8 DEF AlterToClient
  <2>2. CASE toClient'[i] = f
    <3>1. /\ Head(toClient).type = "auth_ok"
          /\ f.confirm_s = Head(toClient).confirm_s
      BY <2>1, <2>2, VerdictsSpoiled
    <3>2. 1 \in 1 .. Len(toClient) /\ Head(toClient) = toClient[1]
      BY <1>1, <2>1, Taking
    <3> QED
      BY <1>2, <2>2, <3>1, <3>2
  <2>3. CASE toClient'[i] # f
    BY <1>1, <1>2, <2>1, <2>3, Replacing
  <2> QED
    BY <2>2, <2>3
<1>9. CASE ServerCrashes \/ ServerDisconnected \/ ServerCloses
             \/ AlterToServer \/ Disconnect \/ UNCHANGED vars
  <2>1. toClient' = toClient
    BY <1>9
    DEF ServerCrashes, ServerDisconnected, ServerCloses, AlterToServer,
        Disconnect, vars
  <2> QED
    BY <1>2, <2>1
<1> QED
  BY <1>4, <1>5, <1>6, <1>7, <1>8, <1>9 DEF Next, ServerStep

-----------------------------------------------------------------------------
\* The three checks on the confirm frame, with the frame's MAC the client's.
LEMMA NextServerAuthenticates == IInv /\ [Next]_vars => ServerAuthenticates'
<1> SUFFICES ASSUME IInv, [Next]_vars, server'.at = "ok"
             PROVE  /\ client'.at \in Confirmed
                    /\ client'.shared = server'.shared
                    /\ PublicElement(client'.a) = server'.commit
  BY DEF ServerAuthenticates, Confirmed
<1>1. CASE server.at = "ok"
  <2>1. server' = server
    BY <1>1, ServerKeeps
  <2>2. /\ client.at \in Confirmed
        /\ client.shared = server.shared
        /\ PublicElement(client.a) = server.commit
    BY <1>1 DEF IInv, ServerAuthenticates, Confirmed
  <2> QED
    BY <2>1, <2>2, ClientKeeps
<1>2. CASE server.at # "ok"
  <2>1. ServerAccepts
    BY <1>2
    DEF IInv, Shapes, Next, ClientStep, ClientCommits, ClientConfirms,
        ClientRefusesChallenge, ClientAccepts, ClientRefusesResult,
        ClientDisconnected, ClientExits, ClientReceives, ServerStep,
        ServerChallenges, ServerRefusesCommit, ServerRefusesConfirm, Fail,
        ServerCrashes, ServerDisconnected, ServerCloses, AlterToServer,
        AlterToClient, Disconnect, vars
  <2> DEFINE f == Head(toServer)
             K == SharedSecret(f.a, server.b)
  <2>2. /\ toServer # <<>> /\ client' = client
        /\ f.type = "covenant_confirm" /\ f.a = server.commit
        /\ f.confirm_c = ConfirmMac(K, server.commit, "client", f.a)
    BY <2>1 DEF ServerAccepts, ServerReceives, ConfirmVerifies, KeepsCommitment
  <2>3. server'.commit = server.commit /\ server'.shared = K
    BY <2>1 DEF ServerAccepts, IInv, Shapes
  <2>4. 1 \in 1 .. Len(toServer) /\ f = toServer[1]
    BY <2>2, Taking DEF IInv, Shapes
  <2>5. client.at \in Confirmed /\ f.confirm_c = ClientMac
    BY <2>2, <2>4, MacsDiffer DEF IInv, ConfirmsHonest
  <2>6. K = client.shared /\ server.commit = PublicElement(client.a)
    BY <2>2, <2>5, MacsDiffer DEF ClientMac
  <2> QED
    BY <2>2, <2>3, <2>5, <2>6
<1> QED
  BY <1>1, <1>2

LEMMA NextClientAuthenticates == IInv /\ [Next]_vars => ClientAuthenticates'
<1> SUFFICES ASSUME IInv, [Next]_vars, client'.at = "ok"
             PROVE  /\ server'.at = "ok"
                    /\ client'.shared = server'.shared
                    /\ client'.public_b = PublicElement(server'.b)
  BY DEF ClientAuthenticates
<1>1. CASE client.at = "ok"
  <2>1. /\ server.at = "ok"
        /\ client.shared = server.shared
        /\ client.public_b = PublicElement(server.b)
    BY <1>1 DEF IInv, ClientAuthenticates
  <2> QED
    BY <1>1, <2>1, ClientKeeps, ServerKeeps DEF Confirmed
<1>2. CASE client.at # "ok"
  <2>1. ClientAccepts
    BY <1>2
    DEF IInv, Shapes, Next, ClientStep, ClientCommits, ClientConfirms,
        ClientRefusesChallenge, ClientRefusesResult, ClientDisconnected,
        ClientExits, ServerReceives, ServerStep, ServerChallenges,
        ServerRefusesCommit, ServerAccepts, ServerRefusesConfirm,
        ServerCrashes, ServerDisconnected, ServerCloses, AlterToServer,
        AlterToClient, Disconnect, vars
  <2>2. /\ toClient # <<>> /\ server' = server
        /\ Head(toClient).type = "auth_ok"
        /\ Head(toClient).confirm_s = ServerProof
    BY <2>1 DEF ClientAccepts, ClientReceives
  <2>3. client'.shared = client.shared /\ client'.public_b = client.public_b
    BY <2>1 DEF ClientAccepts, IInv, Shapes
  <2>4. 1 \in 1 .. Len(toClient) /\ Head(toClient) = toClient[1]
    BY <2>2, Taking DEF IInv, Shapes
  <2>5. server.at = "ok" /\ ServerProof = ServerMac
    BY <2>2, <2>4, MacsDiffer DEF IInv, VerdictsHonest, ServerProof
  <2>6. /\ client.shared = server.shared
        /\ client.public_b = PublicElement(server.b)
    BY <2>5, MacsDiffer DEF ServerProof, ServerMac
  <2> QED
    BY <2>2, <2>3, <2>5, <2>6
<1> QED
  BY <1>1, <1>2

LEMMA Invariance == Spec => []IInv
<1>1. Init => IInv
  BY InitIInv
<1>2. IInv /\ [Next]_vars => IInv'
  <2> SUFFICES ASSUME IInv, [Next]_vars PROVE IInv'
    OBVIOUS
  <2>1. Shapes'
    BY NextShapes
  <2>2. ConfirmsHonest' /\ VerdictsHonest'
    BY NextConfirmsHonest, NextVerdictsHonest
  <2>3. ServerAuthenticates' /\ ClientAuthenticates'
    BY NextServerAuthenticates, NextClientAuthenticates
  <2> QED
    BY <2>1, <2>2, <2>3 DEF IInv
<1> QED
  BY <1>1, <1>2, PTL DEF Spec

\* run_server accepts only a client that holds the same secret and the element
\* it committed to first, in every group and with any exponents.
THEOREM ServerSure == Spec => []ServerAuthenticates
<1>1. IInv => ServerAuthenticates
  BY DEF IInv
<1> QED
  BY <1>1, Invariance, PTL

\* run_client accepts only a server that has accepted, holds the same secret
\* and sent the element the client has recovered.
THEOREM ClientSure == Spec => []ClientAuthenticates
<1>1. IInv => ClientAuthenticates
  BY DEF IInv
<1> QED
  BY <1>1, Invariance, PTL

-----------------------------------------------------------------------------
(***************************************************************************)
(* Types                                                                   *)
(***************************************************************************)

LEMMA SentTyped ==
  ASSUME NEW s \in Seq(Frames), NEW f \in Frames
  PROVE  /\ Sent(s, f) \in Seq(Frames)
         /\ s # <<>> => /\ Head(s) \in Frames /\ Tail(s) \in Seq(Frames)
                        /\ <<f>> \o Tail(s) \in Seq(Frames)
  BY DEF Sent

\* What the frames carry, and what altering one makes of it.
LEMMA FrameFields ==
  ASSUME NEW f \in Frames
  PROVE  /\ f.type = "covenant_commit" => f.commit \in Elements
         /\ f.type = "covenant_confirm" => f.confirm_c \in Macs /\ f.a \in -1 .. P
  BY DEF Frames, OtherFrame, Malformed, AuthFailFrame

LEMMA FramesTyped ==
  /\ OtherFrame \in Frames /\ Malformed \in Frames /\ AuthFailFrame \in Frames
  /\ \A x \in Elements : CommitFrame(x) \in Frames
  /\ \A x \in -1 .. P : ChallengeFrame(x) \in Frames
  /\ \A x \in -1 .. P, mac \in Macs : ConfirmFrame(x, mac) \in Frames
  /\ \A mac \in Macs : AuthOkFrame(mac) \in Frames
  /\ NoMac \in Macs /\ NonAsciiMac \in Macs
  /\ \A k, c, x \in Elements, e \in {"client", "server"} :
       ConfirmMac(k, c, e, x) \in Macs
  BY DEF Frames, CommitFrame, ChallengeFrame, ConfirmFrame, AuthOkFrame, Macs,
         ConfirmMac

LEMMA AlteredTyped ==
  ASSUME NEW f \in Frames, NEW g \in Altered(f)
  PROVE  g \in Frames
<1>1. CASE g \in {OtherFrame, Malformed, AuthFailFrame}
  BY <1>1, FramesTyped
<1>2. CASE \E c \in Elements : g = CommitFrame(c)
  BY <1>2, FramesTyped
<1>3. CASE \E x \in -1 .. P : g = ChallengeFrame(x)
  BY <1>3, FramesTyped
<1>4. CASE f.type = "covenant_confirm" /\ \E x \in -1 .. P : g = ConfirmFrame(x, f.confirm_c)
  BY <1>4, FramesTyped, FrameFields
<1>5. CASE f.type = "covenant_confirm" /\ \E mac \in {NoMac, NonAsciiMac} : g = ConfirmFrame(f.a, mac)
  BY <1>5, FramesTyped, FrameFields
<1>6. CASE \E mac \in {NoMac, NonAsciiMac} : g = AuthOkFrame(mac)
  BY <1>6, FramesTyped
<1> QED
  BY <1>1, <1>2, <1>3, <1>4, <1>5, <1>6 DEF Altered, Elements

\* What the arithmetic of the code's two ends returns.
LEMMA ArithmeticTyped ==
  /\ \A n \in {0} \cup Exponents : PublicElement(n) \in Elements /\ n \in Nat
  /\ \A x \in Elements, n \in {0} \cup Exponents : SharedSecret(x, n) \in Elements
  /\ \A x \in Elements, p \in Passwords :
       /\ Mask(x, SecretToElement(p)) \in Elements
       /\ Unmask(x, SecretToElement(p)) \in Elements
  /\ \A x : InRange(x) /\ x \in -1 .. P => x \in Units
  /\ Elements \subseteq -1 .. P /\ Units \subseteq Elements /\ 0 \in Elements
<1>1. \A n \in {0} \cup Exponents : n \in Nat
  BY Parameters
<1>2. ASSUME NEW x \in Elements, NEW p \in Passwords
      PROVE  /\ Mask(x, SecretToElement(p)) \in Elements
             /\ Unmask(x, SecretToElement(p)) \in Elements
  <2>1. SecretToElement(p) \in Elements /\ ModInv(SecretToElement(p)) \in Elements
    BY Parameters, ModInvIs, Sizes
  <2> QED
    BY <2>1, MaskIs, PowerTypes
<1>3. \A x : InRange(x) /\ x \in -1 .. P => x \in Units
  BY Sizes DEF InRange, Units
<1>4. Elements \subseteq -1 .. P
  BY Sizes DEF Elements
<1> QED
  BY <1>1, <1>2, <1>3, <1>4, MaskIs, PowerStep, Parameters, Sizes

LEMMA InitTypeOK == Init => TypeOK
<1> SUFFICES ASSUME Init PROVE TypeOK
  OBVIOUS
<1>1. <<>> \in Seq(Frames) /\ 0 \in Elements
  BY Sizes
<1> QED
  BY <1>1 DEF Init, TypeOK

LEMMA ClientStepTypeOK == TypeOK /\ ClientStep => TypeOK'
<1> SUFFICES ASSUME TypeOK, ClientStep PROVE TypeOK'
  OBVIOUS
<1> USE DEF TypeOK
<1>1. CASE ClientCommits
  <2>1. PICK a \in Exponents :
          /\ client' = [client EXCEPT !.at = "challenge", !.a = a]
          /\ toServer' = Sent(toServer, CommitFrame(PublicElement(a)))
    BY <1>1 DEF ClientCommits
  <2>2. toServer' \in Seq(Frames)
    BY <2>1, ArithmeticTyped, FramesTyped, SentTyped
  <2>3. UNCHANGED <<password, server, toClient, closed, link, altered, told>>
    BY <1>1 DEF ClientCommits
  <2> QED
    BY <2>1, <2>2, <2>3
<1>2. ASSUME NEW stage, ClientReceives(stage)
      PROVE  /\ toClient' \in Seq(Frames) /\ Head(toClient) \in Frames
             /\ UNCHANGED <<password, server, closed, link, altered, told>>
  BY <1>2, SentTyped, FramesTyped DEF ClientReceives
<1>3. CASE ClientConfirms
  <2> DEFINE f == Head(toClient)
             A == PublicElement(client.a)
             B == Unmask(f.masked_b, SecretToElement(password["client"]))
             K == SharedSecret(B, client.a)
  <2>1. /\ ClientReceives("challenge") /\ f.type = "covenant_challenge"
        /\ InRange(f.masked_b)
        /\ client' = [client EXCEPT !.at = "result", !.public_b = B, !.shared = K]
        /\ toServer' = Sent(toServer, ConfirmFrame(A, ConfirmMac(K, A, "client", A)))
    BY <1>3 DEF ClientConfirms
  <2>2. f \in Frames /\ client.a \in {0} \cup Exponents
        /\ password["client"] \in Passwords
    BY <1>2, <2>1
  <2>3. f.masked_b \in -1 .. P
    BY <2>1, <2>2 DEF Frames, OtherFrame, Malformed, AuthFailFrame
  <2>4. f.masked_b \in Elements
    BY <2>1, <2>3, ArithmeticTyped
  <2> HIDE DEF f
  <2>5. A \in Elements /\ B \in Elements /\ K \in Elements
    BY <2>2, <2>4, ArithmeticTyped
  <2> HIDE DEF A, B, K
  <2>6. ConfirmFrame(A, ConfirmMac(K, A, "client", A)) \in Frames
    BY <2>5, ArithmeticTyped, FramesTyped
  <2>7. toServer' \in Seq(Frames)
    BY <2>1, <2>6, SentTyped
  <2>8. client' \in [at : {"start", "challenge", "result", "ok", "failed"},
                     a : {0} \cup Exponents, public_b : Elements,
                     shared : Elements]
    BY <2>1, <2>5
  <2> QED
    BY <1>2, <2>1, <2>7, <2>8
<1>4. CASE ClientRefusesChallenge
  BY <1>2, <1>4 DEF ClientRefusesChallenge
<1>5. CASE ClientAccepts
  BY <1>2, <1>5 DEF ClientAccepts
<1>6. CASE ClientRefusesResult
  BY <1>2, <1>6 DEF ClientRefusesResult
<1>7. CASE ClientDisconnected
  BY <1>7 DEF ClientDisconnected
<1>8. CASE ClientExits
  BY <1>8 DEF ClientExits
<1> QED
  BY <1>1, <1>3, <1>4, <1>5, <1>6, <1>7, <1>8 DEF ClientStep

LEMMA ServerStepTypeOK == TypeOK /\ ServerStep => TypeOK'
<1> SUFFICES ASSUME TypeOK, ServerStep PROVE TypeOK'
  OBVIOUS
<1> USE DEF TypeOK
<1>1. ASSUME NEW stage, ServerReceives(stage)
      PROVE  /\ toServer' \in Seq(Frames) /\ Head(toServer) \in Frames
             /\ UNCHANGED <<password, client, closed, link, altered>>
  BY <1>1, SentTyped, FramesTyped DEF ServerReceives
<1>2. ASSUME Fail
      PROVE  /\ toClient' \in Seq(Frames) /\ told' \in BOOLEAN
             /\ server' = [server EXCEPT !.at = "failed"]
  BY <1>2, SentTyped, FramesTyped DEF Fail
<1>3. CASE ServerChallenges
  <2>1. PICK b \in Exponents :
          /\ server' = [server EXCEPT !.at = "confirm", !.b = b,
                                      !.commit = Head(toServer).commit]
          /\ toClient' = Sent(toClient,
               ChallengeFrame(Mask(PublicElement(b),
                                   SecretToElement(password["server"]))))
    BY <1>3 DEF ServerChallenges
  <2>2. Head(toServer).commit \in Elements
    BY <1>1, <1>3, FrameFields DEF ServerChallenges
  <2>3. toClient' \in Seq(Frames)
    <3>1. password["server"] \in Passwords /\ PublicElement(b) \in Elements
      BY ArithmeticTyped
    <3>2. Mask(PublicElement(b), SecretToElement(password["server"])) \in -1 .. P
      BY <3>1, ArithmeticTyped
    <3> QED
      BY <2>1, <3>2, FramesTyped, SentTyped
  <2>4. server' \in [at : {"commit", "confirm", "ok", "failed", "crashed", "gone"},
                     b : {0} \cup Exponents, commit : Elements, shared : Elements]
    BY <2>1, <2>2
  <2> QED
    BY <1>1, <1>3, <2>3, <2>4 DEF ServerChallenges
<1>4. CASE ServerAccepts
  <2> DEFINE f == Head(toServer)
             K == SharedSecret(f.a, server.b)
             F == AuthOkFrame(ConfirmMac(K, server.commit, "server",
                                         PublicElement(server.b)))
  <2>1. /\ ServerReceives("confirm") /\ ConfirmVerifies(f)
        /\ server' = [server EXCEPT !.at = "ok", !.shared = K]
        /\ toClient' = Sent(toClient, F) /\ UNCHANGED told
    BY <1>4 DEF ServerAccepts
  <2>2. f.a \in Elements
    BY <1>1, <2>1, FrameFields, ArithmeticTyped DEF ConfirmVerifies, KeepsCommitment
  <2> HIDE DEF f
  <2>3. K \in Elements /\ PublicElement(server.b) \in Elements
    BY <2>2, ArithmeticTyped
  <2> HIDE DEF K
  <2>4. F \in Frames
    BY <2>3, ArithmeticTyped, FramesTyped
  <2> HIDE DEF F
  <2>5. toClient' \in Seq(Frames)
    BY <2>1, <2>4, SentTyped
  <2>6. server' \in [at : {"commit", "confirm", "ok", "failed", "crashed", "gone"},
                     b : {0} \cup Exponents, commit : Elements, shared : Elements]
    BY <2>1, <2>3
  <2> QED
    BY <1>1, <2>1, <2>5, <2>6
<1>5. CASE ServerRefusesCommit
  BY <1>1, <1>2, <1>5 DEF ServerRefusesCommit
<1>6. CASE ServerRefusesConfirm
  BY <1>1, <1>2, <1>6 DEF ServerRefusesConfirm
<1>7. CASE ServerCrashes
  BY <1>1, <1>7 DEF ServerCrashes
<1>8. CASE ServerDisconnected
  BY <1>8 DEF ServerDisconnected
<1>9. CASE ServerCloses
  BY <1>9 DEF ServerCloses
<1> QED
  BY <1>3, <1>4, <1>5, <1>6, <1>7, <1>8, <1>9 DEF ServerStep

LEMMA NextTypeOK == TypeOK /\ [Next]_vars => TypeOK'
<1> SUFFICES ASSUME TypeOK, [Next]_vars PROVE TypeOK'
  OBVIOUS
<1>1. CASE AlterToServer
  <2>1. PICK f \in Altered(Head(toServer)) :
          /\ toServer # <<>> /\ toServer' = <<f>> \o Tail(toServer)
          /\ altered' = TRUE
          /\ UNCHANGED <<password, client, server, toClient, closed, link, told>>
    BY <1>1 DEF AlterToServer
  <2>2. Head(toServer) \in Frames
    BY <2>1, SentTyped, FramesTyped DEF TypeOK
  <2>3. toServer' \in Seq(Frames)
    BY <2>1, <2>2, AlteredTyped, SentTyped DEF TypeOK
  <2> QED
    BY <2>1, <2>3 DEF TypeOK
<1>2. CASE AlterToClient
  <2>1. PICK f \in Altered(Head(toClient)) :
          /\ toClient # <<>> /\ toClient' = <<f>> \o Tail(toClient)
          /\ altered' = TRUE
          /\ UNCHANGED <<password, client, server, toServer, closed, link, told>>
    BY <1>2 DEF AlterToClient
  <2>2. Head(toClient) \in Frames
    BY <2>1, SentTyped, FramesTyped DEF TypeOK
  <2>3. toClient' \in Seq(Frames)
    BY <2>1, <2>2, AlteredTyped, SentTyped DEF TypeOK
  <2> QED
    BY <2>1, <2>3 DEF TypeOK
<1>3. CASE Disconnect
  BY <1>3 DEF Disconnect, TypeOK
<1>4. CASE UNCHANGED vars
  BY <1>4 DEF vars, TypeOK
<1> QED
  BY <1>1, <1>2, <1>3, <1>4, ClientStepTypeOK, ServerStepTypeOK DEF Next

\* The variables of both ends, elements and frames included, have the values
\* the code gives them: run_client's and run_server's arithmetic stays in the
\* group for every group, and unmask always has an inverse to multiply by.
THEOREM TypeCorrect == Spec => []TypeOK
  BY InitTypeOK, NextTypeOK, PTL DEF Spec

-----------------------------------------------------------------------------
(***************************************************************************)
(* Two passwords                                                           *)
(***************************************************************************)

\* The challenge of this run, and what the client makes of it.
MaskedB == Mask(PublicElement(server.b), SecretToElement(password["server"]))

RecoveredB == Unmask(MaskedB, SecretToElement(password["client"]))

\* Each exponent is drawn once, when its end leaves its first place.
Drawn ==
  /\ client.at = "start" <=> client.a = 0
  /\ server.at = "commit" => server.b = 0
  /\ server.at \in {"confirm", "ok"} => server.b # 0
  /\ client.at \in {"start", "challenge"} => client.shared = 0

\* A challenge that nobody altered is the server's.
ChallengeHonest ==
  ~ altered =>
    \A i \in 1 .. Len(toClient) :
      toClient[i].type = "covenant_challenge" =>
        server.b # 0 /\ toClient[i].masked_b = MaskedB

\* The client's secret comes from that challenge, if it got that far.
SecretHonest ==
  (~ altered /\ client.at \in Confirmed) =>
    \/ client.shared = 0
    \/ server.b # 0 /\ client.shared = SharedSecret(RecoveredB, client.a)

\* The server's secret comes from an element it has checked.
SecretChecked ==
  server.at = "ok" =>
    /\ InRange(server.commit)
    /\ server.shared = SharedSecret(server.commit, server.b)

Secrets == Drawn /\ ChallengeHonest /\ SecretHonest /\ SecretChecked

LEMMA InitSecrets == Init => Secrets
  BY DEF Init, Secrets, Drawn, ChallengeHonest, SecretHonest, SecretChecked,
         Confirmed

\* The two passwords stay, what is altered stays so, and a server that has
\* drawn its exponent keeps it.
LEMMA Lasting ==
  ASSUME TypeOK, Drawn, [Next]_vars
  PROVE  /\ password' = password /\ (~ altered' => ~ altered)
         /\ server.b # 0 => server'.b = server.b
         /\ client.a # 0 => client'.a = client.a
         /\ link' = "up" => link = "up"
<1>1. CASE ClientStep
  BY <1>1
  DEF TypeOK, Drawn, ClientStep, ClientCommits, ClientConfirms,
      ClientRefusesChallenge, ClientAccepts, ClientRefusesResult,
      ClientDisconnected, ClientExits, ClientReceives
<1>2. CASE ServerStep
  BY <1>2
  DEF TypeOK, Drawn, ServerStep, ServerChallenges, ServerRefusesCommit,
      ServerAccepts, ServerRefusesConfirm, Fail, ServerCrashes,
      ServerDisconnected, ServerCloses, ServerReceives
<1>3. CASE AlterToServer \/ AlterToClient \/ Disconnect \/ UNCHANGED vars
  BY <1>3 DEF AlterToServer, AlterToClient, Disconnect, vars
<1> QED
  BY <1>1, <1>2, <1>3 DEF Next

LEMMA NextDrawn == TypeOK /\ Drawn /\ [Next]_vars => Drawn'
<1> SUFFICES ASSUME TypeOK, Drawn, [Next]_vars PROVE Drawn'
  OBVIOUS
<1>0. \A a \in Exponents : a # 0
  BY CovenantAssumption
<1>1. CASE ClientStep
  <2>1. ClientCommits => Drawn'
    BY <1>0 DEF TypeOK, Drawn, ClientCommits
  <2>2. ClientConfirms => Drawn'
    BY DEF TypeOK, Drawn, ClientConfirms, ClientReceives
  <2>3. ClientRefusesChallenge \/ ClientAccepts \/ ClientRefusesResult => Drawn'
    BY DEF TypeOK, Drawn, ClientRefusesChallenge, ClientAccepts,
           ClientRefusesResult, ClientReceives
  <2>4. ClientDisconnected \/ ClientExits => Drawn'
    BY DEF TypeOK, Drawn, ClientDisconnected, ClientExits
  <2> QED
    BY <1>1, <2>1, <2>2, <2>3, <2>4 DEF ClientStep
<1>2. CASE ServerStep
  <2>1. ServerChallenges => Drawn'
    BY <1>0 DEF TypeOK, Drawn, ServerChallenges, ServerReceives
  <2>2. ServerRefusesCommit \/ ServerRefusesConfirm => Drawn'
    BY DEF TypeOK, Drawn, ServerRefusesCommit, ServerRefusesConfirm, Fail,
           ServerReceives
  <2>3. ServerAccepts => Drawn'
    BY DEF TypeOK, Drawn, ServerAccepts, ServerReceives
  <2>4. ServerCrashes \/ ServerDisconnected \/ ServerCloses => Drawn'
    BY DEF TypeOK, Drawn, ServerCrashes, ServerDisconnected, ServerCloses,
           ServerReceives
  <2> QED
    BY <1>2, <2>1, <2>2, <2>3, <2>4 DEF ServerStep
<1>3. CASE AlterToServer \/ AlterToClient \/ Disconnect \/ UNCHANGED vars
  BY <1>3 DEF AlterToServer, AlterToClient, Disconnect, vars, Drawn
<1> QED
  BY <1>1, <1>2, <1>3 DEF Next

LEMMA NextChallengeHonest ==
  TypeOK /\ Secrets /\ [Next]_vars => ChallengeHonest'
<1> SUFFICES ASSUME TypeOK, Secrets, [Next]_vars, ~ altered',
                    NEW i \in 1 .. Len(toClient'),
                    toClient'[i].type = "covenant_challenge"
             PROVE  server'.b # 0 /\ toClient'[i].masked_b = MaskedB'
  BY DEF ChallengeHonest
<1>1. /\ password' = password /\ ~ altered
      /\ server.b # 0 => server'.b = server.b
  BY Lasting DEF Secrets
<1>2. ASSUME server.b # 0
      PROVE  MaskedB' = MaskedB
  BY <1>1, <1>2 DEF MaskedB
<1>3. \E S : toClient \in Seq(S)
  BY DEF TypeOK
<1>4. ASSUME NEW j \in 1 .. Len(toClient), toClient'[i] = toClient[j]
      PROVE  server'.b # 0 /\ toClient'[i].masked_b = MaskedB'
  <2>1. server.b # 0 /\ toClient[j].masked_b = MaskedB
    BY <1>1, <1>4 DEF Secrets, ChallengeHonest
  <2> QED
    BY <1>1, <1>2, <1>4, <2>1
<1>5. CASE UNCHANGED toClient
  BY <1>4, <1>5
<1>6. CASE toClient # <<>> /\ toClient' = Tail(toClient)
  BY <1>3, <1>4, <1>6, Taking
<1>7. ASSUME NEW f, toClient' = Sent(toClient, f),
             f.type = "covenant_challenge" =>
               server'.b # 0 /\ f.masked_b = MaskedB'
      PROVE  server'.b # 0 /\ toClient'[i].masked_b = MaskedB'
  BY <1>3, <1>4, <1>7, Sending
<1>8. CASE ClientStep
  BY <1>5, <1>6, <1>8
  DEF ClientStep, ClientCommits, ClientConfirms, ClientRefusesChallenge,
      ClientAccepts, ClientRefusesResult, ClientDisconnected, ClientExits,
      ClientReceives
<1>9. CASE ServerChallenges
  <2>1. PICK b \in Exponents :
          /\ server' = [server EXCEPT !.at = "confirm", !.b = b,
                                      !.commit = Head(toServer).commit]
          /\ toClient' = Sent(toClient,
               ChallengeFrame(Mask(PublicElement(b),
                                   SecretToElement(password["server"]))))
    BY <1>9 DEF ServerChallenges
  <2>2. server'.b = b /\ b # 0
    BY <2>1, CovenantAssumption DEF TypeOK
  <2>3. MaskedB' = Mask(PublicElement(b), SecretToElement(password["server"]))
    BY <1>1, <2>2 DEF MaskedB
  <2> QED
    BY <1>7, <2>1, <2>2, <2>3 DEF ChallengeFrame
<1>10. CASE ServerAccepts
  <2>1. PICK mac : toClient' = Sent(toClient, AuthOkFrame(mac))
    BY <1>10 DEF ServerAccepts
  <2> QED
    BY <1>7, <2>1 DEF AuthOkFrame
<1>11. CASE ServerRefusesCommit \/ ServerRefusesConfirm
  <2>1. toClient' = Sent(toClient, AuthFailFrame)
    BY <1>11 DEF ServerRefusesCommit, ServerRefusesConfirm, Fail
  <2> QED
    BY <1>7, <2>1 DEF AuthFailFrame
<1>12. CASE \/ ServerCrashes \/ ServerDisconnected \/ ServerCloses
            \/ AlterToServer \/ Disconnect \/ UNCHANGED vars
  BY <1>5, <1>12
  DEF ServerCrashes, ServerDisconnected, ServerCloses, AlterToServer,
      Disconnect, vars
<1>13. CASE AlterToClient
  BY <1>13 DEF AlterToClient
<1> QED
  BY <1>8, <1>9, <1>10, <1>11, <1>12, <1>13 DEF Next, ServerStep

LEMMA NextSecretHonest ==
  TypeOK /\ Secrets /\ [Next]_vars => SecretHonest'
<1> SUFFICES ASSUME TypeOK, Secrets, [Next]_vars, ~ altered',
                    client'.at \in Confirmed
             PROVE  \/ client'.shared = 0
                    \/ /\ server'.b # 0
                       /\ client'.shared = SharedSecret(RecoveredB', client'.a)
  BY DEF SecretHonest
<1>1. /\ password' = password /\ ~ altered
      /\ server.b # 0 => server'.b = server.b
      /\ client.a # 0 => client'.a = client.a
  BY Lasting DEF Secrets
<1>2. ASSUME server.b # 0
      PROVE  RecoveredB' = RecoveredB
  BY <1>1, <1>2 DEF RecoveredB, MaskedB
<1>3. client'.at # "start" /\ client.at = "start" <=> client.a = 0
  BY DEF Confirmed, Secrets, Drawn
<1>4. ASSUME client.at # "start", client'.shared = client.shared
      PROVE  \/ client'.shared = 0
             \/ /\ server'.b # 0
                /\ client'.shared = SharedSecret(RecoveredB', client'.a)
  <2>1. CASE client.at \in Confirmed
    BY <1>1, <1>2, <1>4, <2>1 DEF Secrets, SecretHonest, Drawn
  <2>2. CASE client.at \notin Confirmed
    <3>1. client.at = "challenge"
      BY <1>4, <2>2 DEF TypeOK, Confirmed
    <3> QED
      BY <1>4, <3>1 DEF Secrets, Drawn
  <2> QED
    BY <2>1, <2>2
<1>5. CASE ClientConfirms
  <2>1. 1 \in 1 .. Len(toClient) /\ Head(toClient) = toClient[1]
    BY <1>5, Taking DEF ClientConfirms, ClientReceives, TypeOK
  <2>2. server.b # 0 /\ Head(toClient).masked_b = MaskedB
    BY <1>1, <1>5, <2>1 DEF ClientConfirms, Secrets, ChallengeHonest
  <2>3. /\ client'.shared = SharedSecret(RecoveredB, client.a)
        /\ client'.a = client.a
    BY <1>5, <2>2 DEF ClientConfirms, RecoveredB, TypeOK
  <2> QED
    BY <1>1, <1>2, <2>2, <2>3
<1>6. CASE ClientCommits
  BY <1>6 DEF ClientCommits, TypeOK, Confirmed
<1>7. CASE \/ ClientRefusesChallenge \/ ClientAccepts \/ ClientRefusesResult
           \/ ClientDisconnected \/ ClientExits
  <2>1. client.at # "start" /\ client'.shared = client.shared
    BY <1>7
    DEF ClientRefusesChallenge, ClientAccepts, ClientRefusesResult,
        ClientDisconnected, ClientExits, ClientReceives, TypeOK
  <2> QED
    BY <1>4, <2>1
<1>8. CASE ServerStep \/ AlterToServer \/ AlterToClient \/ Disconnect \/ UNCHANGED vars
  <2>1. client' = client
    BY <1>8
    DEF ServerStep, ServerChallenges, ServerRefusesCommit, ServerAccepts,
        ServerRefusesConfirm, ServerCrashes, ServerDisconnected, ServerCloses,
        ServerReceives, AlterToServer, AlterToClient, Disconnect, vars
  <2> QED
    BY <1>4, <2>1 DEF Confirmed
<1> QED
  BY <1>5, <1>6, <1>7, <1>8 DEF Next, ClientStep

LEMMA NextSecretChecked ==
  TypeOK /\ Secrets /\ [Next]_vars => SecretChecked'
<1> SUFFICES ASSUME TypeOK, Secrets, [Next]_vars, server'.at = "ok"
             PROVE  /\ InRange(server'.commit)
                    /\ server'.shared = SharedSecret(server'.commit, server'.b)
  BY DEF SecretChecked
<1>1. CASE server.at = "ok"
  <2>1. server' = server
    BY <1>1, ServerKeeps
  <2> QED
    BY <1>1, <2>1 DEF Secrets, SecretChecked
<1>2. CASE server.at # "ok"
  <2>1. ServerAccepts
    BY <1>2
    DEF TypeOK, Next, ClientStep, ClientCommits, ClientConfirms,
        ClientRefusesChallenge, ClientAccepts, ClientRefusesResult,
        ClientDisconnected, ClientExits, ClientReceives, ServerStep,
        ServerChallenges, ServerRefusesCommit, ServerRefusesConfirm, Fail,
        ServerCrashes, ServerDisconnected, ServerCloses, AlterToServer,
        AlterToClient, Disconnect, vars
  <2>2. /\ InRange(Head(toServer).a) /\ Head(toServer).a = server.commit
        /\ server'.commit = server.commit /\ server'.b = server.b
        /\ server'.shared = SharedSecret(Head(toServer).a, server.b)
    BY <2>1 DEF ServerAccepts, ConfirmVerifies, KeepsCommitment, TypeOK
  <2> QED
    BY <2>2
<1> QED
  BY <1>1, <1>2

LEMMA SecretsInvariance == Spec => [](TypeOK /\ Secrets)
<1>1. Init => TypeOK /\ Secrets
  BY InitTypeOK, InitSecrets
<1>2. TypeOK /\ Secrets /\ [Next]_vars => (TypeOK /\ Secrets)'
  BY NextTypeOK, NextDrawn, NextChallengeHonest, NextSecretHonest,
     NextSecretChecked DEF Secrets
<1> QED
  BY <1>1, <1>2, PTL DEF Spec

\* A server that has accepted holds the client's secret, of the client's
\* element; a client with another password cannot have computed it.
LEMMA SecretsDiffer ==
  TypeOK /\ Secrets /\ ServerAuthenticates /\ ClientAuthenticates
    => WrongPasswordRefused
<1> SUFFICES ASSUME TypeOK, Secrets, ServerAuthenticates,
                    password["client"] # password["server"], ~ altered,
                    server.at = "ok"
             PROVE  FALSE
  BY DEF WrongPasswordRefused, ClientAuthenticates
<1>1. /\ client.at \in Confirmed /\ client.shared = server.shared
      /\ PublicElement(client.a) = server.commit
  BY DEF ServerAuthenticates, Confirmed
<1>2. /\ InRange(server.commit) /\ server.b # 0
      /\ server.shared = SharedSecret(server.commit, server.b)
      /\ client.a # 0
  BY <1>1 DEF Secrets, SecretChecked, Drawn, Confirmed
<1>3. client.a \in Exponents /\ server.b \in Exponents
  BY <1>2 DEF TypeOK
<1>4. password["client"] \in Passwords /\ password["server"] \in Passwords
  BY DEF TypeOK
<1>5. CASE client.shared = 0
  <2>1. server.shared \in Units
    BY <1>1, <1>2, <1>3, NothingIsZero, Parameters
  <2> QED
    BY <1>1, <1>5, <2>1, Sizes
<1>6. CASE client.shared = SharedSecret(RecoveredB, client.a)
  <2>1. SharedSecret(RecoveredB, client.a) # SharedSecret(PublicElement(client.a), server.b)
    BY <1>1, <1>2, <1>3, <1>4, WrongArithmetic DEF RecoveredB, MaskedB
  <2> QED
    BY <1>1, <1>2, <1>6, <2>1
<1> QED
  BY <1>1, <1>5, <1>6 DEF Secrets, SecretHonest

\* With two passwords and unaltered frames neither end accepts, for every safe
\* prime, any exponents and whenever the connection is lost: unmasking with the wrong element
\* leaves the client with a secret that the server never computes.
THEOREM WrongRefused == Spec => []WrongPasswordRefused
<1>1. IInv => ServerAuthenticates /\ ClientAuthenticates
  BY DEF IInv
<1> QED
  BY <1>1, Invariance, SecretsInvariance, SecretsDiffer, PTL

-----------------------------------------------------------------------------
(***************************************************************************)
(* One password                                                            *)
(***************************************************************************)

\* An exponent yields an element that the other end has to refuse.
Degenerate ==
  \/ client.a # 0 /\ ~ InRange(PublicElement(client.a))
  \/ server.b # 0 /\ ~ InRange(MaskedB)

Places(c, s) == client.at = c /\ server.at = s

\* The handshake, frame by frame.
Fresh == Places("start", "commit") /\ toServer = <<>> /\ toClient = <<>>

Committed ==
  /\ Places("challenge", "commit")
  /\ toServer = <<CommitFrame(PublicElement(client.a))>> /\ toClient = <<>>

Challenged ==
  /\ Places("challenge", "confirm") /\ server.commit = PublicElement(client.a)
  /\ toServer = <<>> /\ toClient = <<ChallengeFrame(MaskedB)>>

\* Both know both elements, and the client the secret.
Agreed ==
  /\ server.commit = PublicElement(client.a)
  /\ client.public_b = PublicElement(server.b)
  /\ client.shared = SharedSecret(PublicElement(client.a), server.b)

Confirming ==
  /\ Places("result", "confirm") /\ Agreed
  /\ toServer = <<ConfirmFrame(PublicElement(client.a), ClientMac)>>
  /\ toClient = <<>>

Verdict ==
  /\ Places("result", "ok") /\ Agreed /\ server.shared = client.shared
  /\ toServer = <<>> /\ toClient = <<AuthOkFrame(ServerMac)>>

Finished == Places("ok", "ok") /\ toServer = <<>> /\ toClient = <<>>

\* With one password, nothing altered and the connection up, the two ends go
\* through these places and no others.
Undisturbed ==
  password["client"] = password["server"] /\ ~ altered /\ link = "up"

Lockstep ==
  Undisturbed =>
    \/ Degenerate
    \/ /\ closed = {}
       /\ Fresh \/ Committed \/ Challenged \/ Confirming \/ Verdict \/ Finished

LEMMA OneFrame ==
  \A f : /\ <<f>> # <<>> /\ Head(<<f>>) = f /\ Tail(<<f>>) = <<>>
         /\ link = "up" => Sent(<<>>, f) = <<f>>
  BY DEF Sent

\* Nothing but the two ends moves while nothing disturbs them, and neither end
\* leaves or sees the other leave.
LEMMA Moves ==
  ASSUME TypeOK, Drawn, [Next]_vars, Undisturbed, Undisturbed', closed = {},
         client.at # "failed", server.at \in {"commit", "confirm", "ok"}
  PROVE  \/ UNCHANGED vars
         \/ ClientCommits \/ ClientConfirms \/ ClientRefusesChallenge
         \/ ClientAccepts \/ ClientRefusesResult
         \/ ServerChallenges \/ ServerRefusesCommit \/ ServerAccepts
         \/ ServerRefusesConfirm \/ ServerCrashes
<1>1. ~ AlterToServer /\ ~ AlterToClient /\ ~ Disconnect
  BY DEF Undisturbed, AlterToServer, AlterToClient, Disconnect
<1>2. ~ ClientDisconnected /\ ~ ServerDisconnected
  BY DEF Undisturbed, ClientDisconnected, ServerDisconnected
<1>3. ~ ClientExits /\ ~ ServerCloses
  BY DEF ClientExits, ServerCloses
<1> QED
  BY <1>1, <1>2, <1>3 DEF Next, ClientStep, ServerStep

LEMMA FromFresh ==
  ASSUME TypeOK, Drawn, [Next]_vars, Undisturbed, Undisturbed', closed = {}, Fresh
  PROVE  (Fresh \/ Committed)' /\ closed' = {}
<1> USE DEF Fresh, Places
<1>1. ClientCommits \/ UNCHANGED vars
  BY Moves
  DEF ClientConfirms, ClientRefusesChallenge, ClientAccepts,
      ClientRefusesResult, ClientReceives, ServerChallenges,
      ServerRefusesCommit, ServerAccepts, ServerRefusesConfirm, ServerCrashes,
      ServerReceives
<1>2. CASE ClientCommits
  <2>1. PICK a \in Exponents :
          /\ client' = [client EXCEPT !.at = "challenge", !.a = a]
          /\ toServer' = Sent(toServer, CommitFrame(PublicElement(a)))
    BY <1>2 DEF ClientCommits
  <2>2. client'.at = "challenge" /\ client'.a = a
    BY <2>1 DEF TypeOK
  <2>3. toServer' = <<CommitFrame(PublicElement(a))>>
    BY <2>1, OneFrame DEF Undisturbed
  <2>4. UNCHANGED <<server, toClient, closed>>
    BY <1>2 DEF ClientCommits
  <2> QED
    BY <2>2, <2>3, <2>4 DEF Committed
<1>3. CASE UNCHANGED vars
  BY <1>3 DEF vars
<1> QED
  BY <1>1, <1>2, <1>3

LEMMA FromCommitted ==
  ASSUME TypeOK, Drawn, [Next]_vars, Undisturbed, Undisturbed', closed = {},
         Committed
  PROVE  (Committed \/ Challenged)' /\ closed' = {}
<1> USE DEF Committed, Places
<1> DEFINE f == CommitFrame(PublicElement(client.a))
<1>0. toServer # <<>> /\ Head(toServer) = f /\ Tail(toServer) = <<>>
  BY OneFrame
<1>1. f.type = "covenant_commit" /\ f.commit = PublicElement(client.a)
  BY DEF CommitFrame
<1>2. f.commit # 0
  BY <1>1, NothingIsZero, ArithmeticTyped, Sizes DEF TypeOK
<1> HIDE DEF f
<1>3. ServerChallenges \/ UNCHANGED vars
  <2>1. ~ ServerRefusesCommit
    BY <1>0, <1>1, <1>2 DEF ServerRefusesCommit
  <2>2. ~ ServerCrashes
    BY <1>0, <1>1 DEF ServerCrashes, Crashing
  <2> QED
    BY <2>1, <2>2, Moves
    DEF ClientCommits, ClientConfirms, ClientRefusesChallenge, ClientAccepts,
        ClientRefusesResult, ClientReceives, ServerAccepts,
        ServerRefusesConfirm, ServerReceives
<1>4. CASE ServerChallenges
  <2>1. PICK b \in Exponents :
          /\ server' = [server EXCEPT !.at = "confirm", !.b = b,
                                      !.commit = Head(toServer).commit]
          /\ toClient' = Sent(toClient,
               ChallengeFrame(Mask(PublicElement(b),
                                   SecretToElement(password["server"]))))
    BY <1>4 DEF ServerChallenges
  <2>2. /\ server'.at = "confirm" /\ server'.b = b
        /\ server'.commit = PublicElement(client.a)
    BY <1>0, <1>1, <2>1 DEF TypeOK
  <2>3. UNCHANGED <<password, client, closed>> /\ toServer' = <<>>
    BY <1>0, <1>4 DEF ServerChallenges, ServerReceives
  <2>4. MaskedB' = Mask(PublicElement(b), SecretToElement(password["server"]))
    BY <2>2, <2>3 DEF MaskedB
  <2>5. toClient' = <<ChallengeFrame(MaskedB')>>
    BY <2>1, <2>4, OneFrame DEF Undisturbed
  <2> QED
    BY <2>2, <2>3, <2>5 DEF Challenged
<1>5. CASE UNCHANGED vars
  BY <1>5 DEF vars
<1> QED
  BY <1>3, <1>4, <1>5

LEMMA FromChallenged ==
  ASSUME TypeOK, Drawn, [Next]_vars, Undisturbed, Undisturbed', closed = {},
         ~ Degenerate, Challenged
  PROVE  (Challenged \/ Confirming)' /\ closed' = {}
<1> USE DEF Challenged, Places
<1> DEFINE f == ChallengeFrame(MaskedB)
           A == PublicElement(client.a)
           B == Unmask(f.masked_b, SecretToElement(password["client"]))
           K == SharedSecret(B, client.a)
<1>0. toClient # <<>> /\ Head(toClient) = f /\ Tail(toClient) = <<>>
  BY OneFrame
<1>1. f.type = "covenant_challenge" /\ f.masked_b = MaskedB
  BY DEF ChallengeFrame
<1>2. client.a # 0 /\ server.b # 0
  BY DEF Drawn
<1>3. client.a \in Exponents /\ server.b \in Exponents
      /\ password["client"] \in Passwords
  BY <1>2 DEF TypeOK
<1>4. InRange(MaskedB)
  BY <1>2 DEF Degenerate
<1>5. B = PublicElement(server.b) /\ K = SharedSecret(A, server.b)
  <2>1. B = PublicElement(server.b)
    BY <1>1, <1>3, RightArithmetic DEF MaskedB, Undisturbed
  <2> QED
    BY <1>3, <2>1, RightArithmetic
<1> HIDE DEF f
<1>6. ClientConfirms \/ UNCHANGED vars
  <2>1. ~ ClientRefusesChallenge
    BY <1>0, <1>1, <1>4 DEF ClientRefusesChallenge
  <2> QED
    BY <2>1, Moves
    DEF ClientCommits, ClientAccepts, ClientRefusesResult, ClientReceives,
        ServerChallenges, ServerRefusesCommit, ServerAccepts,
        ServerRefusesConfirm, ServerCrashes, ServerReceives
<1>7. CASE ClientConfirms
  <2>1. /\ client' = [client EXCEPT !.at = "result", !.public_b = B, !.shared = K]
        /\ toServer' = Sent(toServer, ConfirmFrame(A, ConfirmMac(K, A, "client", A)))
        /\ toClient' = <<>> /\ UNCHANGED <<password, server, closed>>
    BY <1>0, <1>7 DEF ClientConfirms, ClientReceives
  <2> HIDE DEF B, K
  <2>2. /\ client'.at = "result" /\ client'.a = client.a
        /\ client'.public_b = B /\ client'.shared = K
    BY <2>1 DEF TypeOK
  <2>3. ClientMac' = ConfirmMac(K, A, "client", A)
    BY <2>2 DEF ClientMac
  <2>4. toServer' = <<ConfirmFrame(A, ClientMac')>>
    BY <2>1, <2>3, OneFrame DEF Undisturbed
  <2>5. Agreed'
    BY <1>5, <2>1, <2>2 DEF Agreed
  <2> QED
    BY <2>1, <2>2, <2>4, <2>5 DEF Confirming
<1>8. CASE UNCHANGED vars
  BY <1>8 DEF vars, MaskedB
<1> QED
  BY <1>6, <1>7, <1>8

LEMMA FromConfirming ==
  ASSUME TypeOK, Drawn, [Next]_vars, Undisturbed, Undisturbed', closed = {},
         ~ Degenerate, Confirming
  PROVE  (Confirming \/ Verdict)' /\ closed' = {}
<1> USE DEF Confirming, Places
<1> DEFINE A == PublicElement(client.a)
           f == ConfirmFrame(A, ClientMac)
<1>0. toServer # <<>> /\ Head(toServer) = f /\ Tail(toServer) = <<>>
  BY OneFrame
<1>1. f.type = "covenant_confirm" /\ f.a = A /\ f.confirm_c = ClientMac
  BY DEF ConfirmFrame
<1>2. InRange(A)
  BY DEF Drawn, Degenerate
<1> HIDE DEF f
<1>3. ConfirmVerifies(f)
  <2>1. server.commit = A /\ client.shared = SharedSecret(A, server.b)
    BY DEF Agreed
  <2>2. ClientMac = ConfirmMac(SharedSecret(A, server.b), server.commit, "client", A)
    BY <2>1 DEF ClientMac
  <2> QED
    BY <1>1, <1>2, <2>1, <2>2 DEF ConfirmVerifies, KeepsCommitment
<1>4. ServerAccepts \/ UNCHANGED vars
  <2>1. ~ ServerRefusesConfirm
    BY <1>0, <1>3 DEF ServerRefusesConfirm
  <2>2. ~ ServerCrashes
    <3>1. ClientMac # NonAsciiMac
      BY MacsDiffer DEF ClientMac, Computed
    <3> QED
      BY <1>0, <1>1, <3>1 DEF ServerCrashes, Crashing
  <2> QED
    BY <2>1, <2>2, Moves
    DEF ClientCommits, ClientConfirms, ClientRefusesChallenge, ClientAccepts,
        ClientRefusesResult, ClientReceives, ServerChallenges,
        ServerRefusesCommit, ServerReceives
<1>5. CASE ServerAccepts
  <2> DEFINE K == SharedSecret(f.a, server.b)
  <2>1. /\ server' = [server EXCEPT !.at = "ok", !.shared = K]
        /\ toClient' = Sent(toClient,
             AuthOkFrame(ConfirmMac(K, server.commit, "server",
                                    PublicElement(server.b))))
        /\ toServer' = <<>> /\ UNCHANGED <<password, client, closed>>
    BY <1>0, <1>5 DEF ServerAccepts, ServerReceives
  <2>2. K = client.shared
    BY <1>1 DEF Agreed
  <2> HIDE DEF K
  <2>3. /\ server'.at = "ok" /\ server'.b = server.b
        /\ server'.commit = server.commit /\ server'.shared = K
    BY <2>1 DEF TypeOK
  <2>4. ServerMac' = ConfirmMac(K, server.commit, "server", PublicElement(server.b))
    BY <2>3 DEF ServerMac
  <2>5. toClient' = <<AuthOkFrame(ServerMac')>>
    BY <2>1, <2>4, OneFrame DEF Undisturbed
  <2>6. Agreed'
    BY <2>1, <2>3 DEF Agreed
  <2> QED
    BY <2>1, <2>2, <2>3, <2>5, <2>6 DEF Verdict
<1>6. CASE UNCHANGED vars
  BY <1>6 DEF vars, Agreed, ClientMac
<1> QED
  BY <1>4, <1>5, <1>6

LEMMA FromVerdict ==
  ASSUME TypeOK, Drawn, [Next]_vars, Undisturbed, Undisturbed', closed = {},
         Verdict
  PROVE  (Verdict \/ Finished)' /\ closed' = {}
<1> USE DEF Verdict, Places
<1> DEFINE f == AuthOkFrame(ServerMac)
<1>0. toClient # <<>> /\ Head(toClient) = f /\ Tail(toClient) = <<>>
  BY OneFrame
<1>1. f.type = "auth_ok" /\ f.confirm_s = ServerProof
  BY DEF AuthOkFrame, ServerMac, ServerProof, Agreed
<1> HIDE DEF f
<1>2. ClientAccepts \/ UNCHANGED vars
  <2>1. ~ ClientRefusesResult
    BY <1>0, <1>1 DEF ClientRefusesResult
  <2> QED
    BY <2>1, Moves
    DEF ClientCommits, ClientConfirms, ClientRefusesChallenge, ClientReceives,
        ServerChallenges, ServerRefusesCommit, ServerAccepts,
        ServerRefusesConfirm, ServerCrashes, ServerReceives
<1>3. CASE ClientAccepts
  BY <1>0, <1>3 DEF ClientAccepts, ClientReceives, Finished, TypeOK
<1>4. CASE UNCHANGED vars
  BY <1>4 DEF vars, Agreed, ServerMac
<1> QED
  BY <1>2, <1>3, <1>4

LEMMA FromFinished ==
  ASSUME TypeOK, Drawn, [Next]_vars, Undisturbed, Undisturbed', closed = {},
         Finished
  PROVE  Finished' /\ closed' = {}
<1> USE DEF Finished, Places
<1>1. UNCHANGED vars
  BY Moves
  DEF ClientCommits, ClientConfirms, ClientRefusesChallenge, ClientAccepts,
      ClientRefusesResult, ClientReceives, ServerChallenges,
      ServerRefusesCommit, ServerAccepts, ServerRefusesConfirm, ServerCrashes,
      ServerReceives
<1> QED
  BY <1>1 DEF vars

LEMMA NextLockstep == TypeOK /\ Drawn /\ Lockstep /\ [Next]_vars => Lockstep'
<1> SUFFICES ASSUME TypeOK, Drawn, Lockstep, [Next]_vars, Undisturbed',
                    ~ Degenerate'
             PROVE  /\ closed' = {}
                    /\ (Fresh \/ Committed \/ Challenged \/ Confirming
                          \/ Verdict \/ Finished)'
  BY DEF Lockstep
<1>1. /\ password' = password /\ (~ altered' => ~ altered)
      /\ server.b # 0 => server'.b = server.b
      /\ client.a # 0 => client'.a = client.a
      /\ link' = "up" => link = "up"
  BY Lasting
<1>2. Undisturbed
  BY <1>1 DEF Undisturbed
<1>3. ~ Degenerate
  BY <1>1 DEF Degenerate, MaskedB
<1>4. closed = {}
  BY <1>2, <1>3 DEF Lockstep
<1>5. CASE Fresh
  BY <1>2, <1>4, <1>5, FromFresh
<1>6. CASE Committed
  BY <1>2, <1>4, <1>6, FromCommitted
<1>7. CASE Challenged
  BY <1>2, <1>3, <1>4, <1>7, FromChallenged
<1>8. CASE Confirming
  BY <1>2, <1>3, <1>4, <1>8, FromConfirming
<1>9. CASE Verdict
  BY <1>2, <1>4, <1>9, FromVerdict
<1>10. CASE Finished
  BY <1>2, <1>4, <1>10, FromFinished
<1> QED
  BY <1>2, <1>3, <1>5, <1>6, <1>7, <1>8, <1>9, <1>10 DEF Lockstep

LEMMA LockstepInvariance == Spec => []Lockstep
<1>1. Init => TypeOK /\ Drawn /\ Lockstep
  <2>1. Init => Lockstep
    BY DEF Init, Lockstep, Fresh, Places
  <2> QED
    BY <2>1, InitTypeOK, InitSecrets DEF Secrets
<1>2. TypeOK /\ Drawn /\ Lockstep /\ [Next]_vars => (TypeOK /\ Drawn /\ Lockstep)'
  BY NextTypeOK, NextDrawn, NextLockstep
<1> QED
  BY <1>1, <1>2, PTL DEF Spec

\* With one password, an undisturbed connection and exponents that yield no
\* degenerate element, neither end fails, for every safe prime: the client
\* undoes the server's mask and both compute one secret.
THEOREM RightAccepted == Spec => []RightPasswordAccepted
<1>1. Lockstep => RightPasswordAccepted
  <2> SUFFICES ASSUME Lockstep, Undisturbed,
                      client.at = "failed" \/ server.at \in {"failed", "crashed", "gone"}
               PROVE  \/ ~ InRange(PublicElement(client.a))
                      \/ server.b # 0 /\ ~ InRange(MaskedB)
    BY DEF RightPasswordAccepted, Undisturbed, MaskedB
  <2>1. ~ (Fresh \/ Committed \/ Challenged \/ Confirming \/ Verdict \/ Finished)
    BY DEF Fresh, Committed, Challenged, Confirming, Verdict, Finished, Places
  <2> QED
    BY <2>1 DEF Lockstep, Degenerate
<1> QED
  BY <1>1, LockstepInvariance, PTL

-----------------------------------------------------------------------------
(***************************************************************************)
(* No handshake goes on for ever                                           *)
(***************************************************************************)

\* What is ahead of the client, the server and the connection at the most.
ClientAhead ==
  IF client.at = "start" THEN 3 ELSE
  IF client.at = "challenge" THEN 2 ELSE IF client.at = "result" THEN 1 ELSE 0

ServerAhead ==
  IF server.at = "commit" THEN 2 ELSE IF server.at = "confirm" THEN 1 ELSE 0

MayClose(e) == IF e \in closed THEN 0 ELSE 1
MayDrop == IF link = "up" THEN 1 ELSE 0
MayAlter == IF altered THEN 0 ELSE 1

StepsLeft ==
  ClientAhead + ServerAhead + MayClose("client") + MayClose("server")
    + MayDrop + MayAlter

LEMMA AheadTypes ==
  /\ ClientAhead \in 0 .. 3 /\ ServerAhead \in 0 .. 2
  /\ MayClose("client") \in 0 .. 1 /\ MayClose("server") \in 0 .. 1
  /\ MayDrop \in 0 .. 1 /\ MayAlter \in 0 .. 1
  BY DEF ClientAhead, ServerAhead, MayClose, MayDrop, MayAlter

LEMMA ClientStepShortens ==
  TypeOK /\ ClientStep => StepsLeft' < StepsLeft
<1> SUFFICES ASSUME TypeOK, ClientStep
             PROVE  StepsLeft' < StepsLeft
  OBVIOUS
<1>1. server' = server /\ link' = link /\ altered' = altered
  BY DEF ClientStep, ClientCommits, ClientReceives, ClientConfirms,
         ClientRefusesChallenge, ClientAccepts, ClientRefusesResult,
         ClientDisconnected, ClientExits
<1>2. /\ ServerAhead' = ServerAhead /\ MayDrop' = MayDrop
      /\ MayAlter' = MayAlter
  BY <1>1 DEF ServerAhead, MayDrop, MayAlter
<1>3. CASE ClientExits
  <2>1. /\ client' = client /\ "client" \notin closed
        /\ closed' = closed \cup {"client"}
    BY <1>3 DEF ClientExits
  <2>2. /\ ClientAhead' = ClientAhead
        /\ MayClose("server")' = MayClose("server")
        /\ MayClose("client")' = 0 /\ MayClose("client") = 1
    BY <2>1 DEF ClientAhead, MayClose
  <2> QED
    BY <1>2, <2>2, AheadTypes DEF StepsLeft
<1>4. CASE ~ ClientExits
  <2>1. closed' = closed
    BY <1>4 DEF ClientStep, ClientCommits, ClientReceives, ClientConfirms,
             ClientRefusesChallenge, ClientAccepts, ClientRefusesResult,
             ClientDisconnected
  <2>2. \/ client.at = "start" /\ client'.at = "challenge"
        \/ client.at = "challenge" /\ client'.at \in {"result", "failed"}
        \/ client.at = "result" /\ client'.at \in {"ok", "failed"}
    BY <1>4 DEF TypeOK, ClientStep, ClientCommits, ClientReceives,
             ClientConfirms, ClientRefusesChallenge, ClientAccepts,
             ClientRefusesResult, ClientDisconnected
  <2>3. ClientAhead' < ClientAhead
    BY <2>2 DEF ClientAhead
  <2>4. /\ MayClose("server")' = MayClose("server")
        /\ MayClose("client")' = MayClose("client")
    BY <2>1 DEF MayClose
  <2>5. ClientAhead' \in 0 .. 3
    BY DEF ClientAhead
  <2> QED
    BY <1>2, <2>3, <2>4, <2>5, AheadTypes DEF StepsLeft
<1> QED
  BY <1>3, <1>4

LEMMA ServerStepShortens ==
  TypeOK /\ ServerStep => StepsLeft' < StepsLeft
<1> SUFFICES ASSUME TypeOK, ServerStep
             PROVE  StepsLeft' < StepsLeft
  OBVIOUS
<1>1. client' = client /\ link' = link /\ altered' = altered
  BY DEF ServerStep, ServerReceives, ServerChallenges, ServerRefusesCommit,
         ServerAccepts, ServerRefusesConfirm, ServerCrashes,
         ServerDisconnected, ServerCloses
<1>2. /\ ClientAhead' = ClientAhead /\ MayDrop' = MayDrop
      /\ MayAlter' = MayAlter
  BY <1>1 DEF ClientAhead, MayDrop, MayAlter
<1>3. CASE ServerCloses
  <2>1. /\ server' = server /\ "server" \notin closed
        /\ closed' = closed \cup {"server"}
    BY <1>3 DEF ServerCloses
  <2>2. /\ ServerAhead' = ServerAhead
        /\ MayClose("client")' = MayClose("client")
        /\ MayClose("server")' = 0 /\ MayClose("server") = 1
    BY <2>1 DEF ServerAhead, MayClose
  <2> QED
    BY <1>2, <2>2, AheadTypes DEF StepsLeft
<1>4. CASE ~ ServerCloses
  <2>1. closed' = closed
    BY <1>4 DEF ServerStep, ServerReceives, ServerChallenges,
             ServerRefusesCommit, ServerAccepts, ServerRefusesConfirm,
             ServerCrashes, ServerDisconnected
  <2>2. \/ server.at = "commit" /\ server'.at = "confirm"
        \/ /\ server.at \in {"commit", "confirm"}
           /\ server'.at \in {"ok", "failed", "crashed", "gone"}
    BY <1>4 DEF TypeOK, ServerStep, ServerReceives, ServerChallenges,
             ServerRefusesCommit, ServerAccepts, ServerRefusesConfirm,
             ServerCrashes, ServerDisconnected, Fail
  <2>3. ServerAhead' < ServerAhead
    BY <2>2 DEF ServerAhead
  <2>4. /\ MayClose("server")' = MayClose("server")
        /\ MayClose("client")' = MayClose("client")
    BY <2>1 DEF MayClose
  <2>5. ServerAhead' \in 0 .. 2
    BY DEF ServerAhead
  <2> QED
    BY <1>2, <2>3, <2>4, <2>5, AheadTypes DEF StepsLeft
<1> QED
  BY <1>3, <1>4

LEMMA LinkShortens ==
  AlterToServer \/ AlterToClient \/ Disconnect => StepsLeft' < StepsLeft
<1> SUFFICES ASSUME AlterToServer \/ AlterToClient \/ Disconnect
             PROVE  StepsLeft' < StepsLeft
  OBVIOUS
<1>1. client' = client /\ server' = server /\ closed' = closed
  BY DEF AlterToServer, AlterToClient, Disconnect
<1>2. \/ link' = link /\ ~ altered /\ altered' = TRUE
      \/ altered' = altered /\ link = "up" /\ link' = "down"
  BY DEF AlterToServer, AlterToClient, Disconnect
<1>3. /\ ClientAhead' = ClientAhead /\ ServerAhead' = ServerAhead
      /\ MayClose("client")' = MayClose("client")
      /\ MayClose("server")' = MayClose("server")
  BY <1>1 DEF ClientAhead, ServerAhead, MayClose
<1>4. \/ MayDrop' = MayDrop /\ MayAlter = 1 /\ MayAlter' = 0
      \/ MayAlter' = MayAlter /\ MayDrop = 1 /\ MayDrop' = 0
  BY <1>2 DEF MayDrop, MayAlter
<1> QED
  BY <1>3, <1>4, AheadTypes DEF StepsLeft

\* Whatever is altered or lost, and with no fairness: every step of either
\* program or of the connection lowers a number that is at most 9 at first. No
\* end can be kept in a handshake by answers, only by silence.
THEOREM NoEndlessHandshake ==
  Spec => [](StepsLeft \in 0 .. 9) /\ [][StepsLeft' < StepsLeft]_vars
<1>1. StepsLeft \in 0 .. 9
  BY AheadTypes DEF StepsLeft
<1>2. TypeOK /\ [Next]_vars => [StepsLeft' < StepsLeft]_vars
  BY ClientStepShortens, ServerStepShortens, LinkShortens DEF Next
<1> QED
  BY <1>1, <1>2, TypeCorrect, PTL DEF Spec
=============================================================================
