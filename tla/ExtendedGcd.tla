----------------------------- MODULE ExtendedGcd -----------------------------
(***************************************************************************)
(* extended_gcd of crypto/covenant.py as modinv calls it: the loop behind  *)
(* the inverse with which the client takes the mask off the server's       *)
(* element. A step is one turn of the loop. Integers are unbounded, as     *)
(* Python's are. egcd of ui/covenant.js is the same loop.                  *)
(*                                                                         *)
(* Names carry the prefix Gcd, since a module that runs several algorithms *)
(* extends this one.                                                       *)
(*                                                                         *)
(* Definitions introduced by "Slip" are wrong variants of the definition   *)
(* that follows. Nothing uses them; put in its place, each makes a         *)
(* property fail, which shows that the property can.                       *)
(***************************************************************************)
EXTENDS Integers

CONSTANTS
  Numbers,  \* first arguments of modinv to consider
  Moduli    \* second arguments

ASSUME GcdAssumption ==
  /\ Numbers \subseteq Int
  /\ Moduli \subseteq Nat \ {0}

VARIABLES
  a, m,      \* the arguments of modinv
  old_r, r,  \* the remainders
  old_s, s,  \* the coefficients of a % m ...
  old_t, t   \* ... and of m

gcdVars == <<a, m, old_r, r, old_s, s, old_t, t>>

-----------------------------------------------------------------------------
\* modinv(x, n) has called extended_gcd.
GcdStart(x, n) ==
  /\ a = x /\ m = n
  /\ old_r = x % n /\ r = n
  /\ old_s = 1 /\ s = 0
  /\ old_t = 0 /\ t = 1

GcdInit == \E x \in Numbers, n \in Moduli : GcdStart(x, n)

\* Slip: the two assignments to old_s and s are made one after the other.
SequentialGcdStep ==
  LET q == old_r \div r
  IN  /\ r # 0
      /\ old_r' = r /\ r' = old_r - q * r
      /\ old_s' = s /\ s' = old_s' - q * s
      /\ old_t' = t /\ t' = old_t - q * t
      /\ UNCHANGED <<a, m>>

GcdStep ==
  LET q == old_r \div r
  IN  /\ r # 0
      /\ old_r' = r /\ r' = old_r - q * r
      /\ old_s' = s /\ s' = old_s - q * s
      /\ old_t' = t /\ t' = old_t - q * t
      /\ UNCHANGED <<a, m>>

GcdSpec == GcdInit /\ [][GcdStep]_gcdVars

\* What modinv returns when extended_gcd has; it raises if old_r is not 1.
ModInverse == old_s % m

-----------------------------------------------------------------------------
Divides(d, n) == \E k \in Int : n = d * k

CommonDivisor(d) == Divides(d, a % m) /\ Divides(d, m)

\* Types; remainders are never negative, coefficients may be.
GcdTypeOK ==
  /\ a \in Int /\ m \in Nat \ {0}
  /\ old_r \in Nat /\ r \in Nat
  /\ old_s \in Int /\ s \in Int
  /\ old_t \in Int /\ t \in Int

\* extended_gcd's docstring, at every turn and not only at the end: both
\* remainders are the combinations of the arguments that the coefficients say.
Bezout ==
  /\ old_r = (a % m) * old_s + m * old_t
  /\ r = (a % m) * s + m * t

\* What modinv returns is the inverse of its argument, and it raises only if
\* there is none. The client's unmask is right exactly because of this.
InverseCorrect ==
  r = 0 =>
    IF old_r = 1
      THEN ModInverse \in 0 .. m - 1 /\ (a * ModInverse) % m = 1 % m
      ELSE \A x \in 0 .. m - 1 : (a * x) % m # 1 % m

\* The loop ends: each remainder is smaller than the one before.
RemaindersFall == [][0 <= r' /\ r' < r]_gcdVars
=============================================================================
