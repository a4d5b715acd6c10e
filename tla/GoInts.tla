------------------------------- MODULE GoInts -------------------------------
(* The ints of Go: as many negative as not, and operators that wrap around. *)
EXTENDS Integers

CONSTANT
  MaxInt       \* the largest int

ASSUME IntAssumption == MaxInt \in Nat \ {0}

GoInt == -MaxInt - 1 .. MaxInt

\* The int that a sum of two ints becomes.
Sum(a, b) ==
  IF a + b > MaxInt THEN a + b - 2 * MaxInt - 2
  ELSE IF a + b < -MaxInt - 1 THEN a + b + 2 * MaxInt + 2
  ELSE a + b

\* The int that any integer becomes.
Wrapped(n) == ((n + MaxInt + 1) % (2 * MaxInt + 2)) - MaxInt - 1

Undef == [is |-> "undef"]
Crash == [is |-> "crash"]
=============================================================================
