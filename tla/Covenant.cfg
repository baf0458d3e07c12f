\* 2 has order 11 modulo 23. Among the exponents, 11 yields the element 1,
\* 12 and 17 yield the elements of 1 and 6, and the element of 6 masked with
\* the password 3 is 1.
CONSTANTS
  P = 23
  G = 2
  Exponents = {1, 6, 11, 12, 17}
  Passwords = {3, 4}
SPECIFICATION Spec
CHECK_DEADLOCK FALSE
INVARIANTS
  TypeOK
  ServerAuthenticates
  ClientAuthenticates
  WrongPasswordRefused
  RightPasswordAccepted
PROPERTIES
  Termination
