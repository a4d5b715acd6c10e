------------------------------- MODULE Access -------------------------------
(***************************************************************************)
(* Access of an array or a string with one or two keys:                    *)
(* accessIndexedValue of src/evaluator/access.go, with the machine's ints. *)
(* Elements are their indexes.                                             *)
(***************************************************************************)
EXTENDS GoInts, Sequences

CONSTANT
  MaxLen       \* bound: length of a list

ASSUME LengthAssumption == MaxLen \in 0 .. MaxInt

VARIABLES
  len,         \* lhs.Len()
  keys,        \* the evaluated keys, or <<>> when they have no access yet
  result       \* what the access returns, or that it panics

vars == <<len, keys, result>>

LowerOf(a, b) == IF a < b THEN a ELSE b
HigherOf(a, b) == IF a > b THEN a ELSE b

Empty == [is |-> "slice", from |-> 0, to |-> 0]
IllegalArgumentCount == [is |-> "error"]

\* indexArg
IndexArg(n, key) == LowerOf(IF key < 0 THEN n + key ELSE key, n)

\* Faulty variant: the end that a negative count gives is not in the slice.
CountArgExclusive(n, count, start) ==
  LET left == IF start < 0 /\ count > 0 THEN HigherOf(count + start, 0) ELSE count
      from == HigherOf(start, 0)
  IN  CASE left < 0 -> HigherOf(n + left - from, 0)
        [] left >= 0 /\ Sum(from, left) > n -> n - from
        [] OTHER -> left

\* countArg: what lies before the list is not counted; a negative count gives
\* the end; a count beyond the end of the list is cut.
CountArg(n, count, start) ==
  LET left == IF start < 0 /\ count > 0 THEN HigherOf(count + start, 0) ELSE count
      from == HigherOf(start, 0)
  IN  CASE left < 0 -> HigherOf(1 + (n + left) - from, 0)
        [] left >= 0 /\ Sum(from, left) > n -> n - from
        [] OTHER -> left

\* lhs.Slice, which panics like the slice expression of Go.
Slice(n, from, to) ==
  IF 0 <= from /\ from <= to /\ to <= n THEN [is |-> "slice", from |-> from, to |-> to]
  ELSE Crash

TwoKeys(n, first, second) ==
  LET start == IndexArg(n, first)
      count == CountArg(n, second, start)
      from == HigherOf(start, 0)
  IN  IF from = n \/ count = 0 THEN Empty ELSE Slice(n, from, Sum(from, count))

\* Faulty variant: the index behind the last element is one of the list.
OneKeyBehind(n, key) ==
  LET pos == IF key < 0 THEN n + key ELSE key
  IN  IF pos < 0 \/ pos > n THEN Undef ELSE [is |-> "element", at |-> pos]

OneKey(n, key) ==
  LET pos == IF key < 0 THEN n + key ELSE key
  IN  IF pos < 0 \/ pos >= n THEN Undef ELSE [is |-> "element", at |-> pos]

AccessIndexedValue(n, ks) ==
  CASE Len(ks) = 1 -> OneKey(n, ks[1])
    [] Len(ks) = 2 -> TwoKeys(n, ks[1], ks[2])
    [] OTHER -> IllegalArgumentCount

-----------------------------------------------------------------------------

Init == len \in 0 .. MaxLen /\ keys = <<>> /\ result = Undef

Access(ks) ==
  /\ keys = <<>>
  /\ keys' = ks /\ result' = AccessIndexedValue(len, ks)
  /\ UNCHANGED len

Next ==
  \/ \E key \in GoInt : Access(<<key>>)
  \/ \E first, second \in GoInt : Access(<<first, second>>)
  \/ Access(<<0, 0, 0>>)

Spec == Init /\ [][Next]_vars

-----------------------------------------------------------------------------
(* Properties. *)

\* The indexes that two keys select in unbounded integers: from the first key,
\* which counts from the end when it is negative, as many as the second key
\* says, or up to the one that it gives from the end.
First(n, first) == IF first < 0 THEN n + first ELSE first
Last(n, first, second) ==
  IF second < 0 THEN n + second ELSE First(n, first) + second - 1
Selects(n, first, second, i) == First(n, first) <= i /\ i <= Last(n, first, second)

\* A slice is the part of the list that its keys select, whichever of them lie
\* before or behind the list; only where the sum of the start in the list and
\* the count exceeds the ints the access may panic.
SliceSelects(n, first, second, slice) ==
  IF slice.is = "slice"
  THEN \A i \in 0 .. n - 1 :
         Selects(n, first, second, i) <=> slice.from <= i /\ i < slice.to
  ELSE First(n, first) < n /\ First(n, first) + second > MaxInt

SliceIsSelected ==
  Len(keys) = 2 => SliceSelects(len, keys[1], keys[2], result)

\* An index and a slice of one element agree: the element is the only one of the
\* slice, and undef where the slice is empty.
IndexAgreesWithSlice ==
  Len(keys) = 1 /\ len < MaxInt =>
    LET slice == TwoKeys(len, keys[1], 1)
    IN  CASE result = Undef -> slice.is = "slice" /\ slice.from = slice.to
          [] OTHER -> slice = [is |-> "slice", from |-> result.at, to |-> result.at + 1]
=============================================================================
