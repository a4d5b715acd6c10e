---------------------------- MODULE Expressions ----------------------------
(***************************************************************************)
(* The expressions without effects: one access, calculation or comparison, *)
(* of operands that are evaluated.                                         *)
(***************************************************************************)
EXTENDS Access, Numbers

CONSTANT
  Operands     \* values that operands may have

IsList(s) == s = [i \in 1 .. Len(s) |-> s[i]] /\ Len(s) \in Nat

\* Each kind of value has what the operators look at.
IsValue(v) ==
  /\ v.is = "int" => v = IntOf(v.int) /\ v.int \in GoInt
  /\ v.is = "float" => v = FloatOf(v.float) /\ v.float \in Int
  /\ v.is = "infinity" => v = Infinity
  /\ v.is = "nan" => v = NaN
  /\ v.is = "string" => /\ v.letter \in 1 .. 2 * Letters
                        /\ v.number.is = "int" => v.number.int \in GoInt
  /\ v.is = "array" => IsList(v.elements)
  /\ v.is = "hash" => IsList(v.entries)
  /\ v.is = "version" => v = [is |-> "version", version |-> v.version] /\ v.version \in Int
  /\ v.is = "type" => v = [is |-> "type", type |-> v.type] /\ IsAssignable(v, v)

ASSUME OperandsAssumption == Letters \in Nat /\ \A v \in Operands : IsValue(v)

VARIABLE
  calc         \* an operator, its operands and what it gives, or None

expressionVars == <<vars, calc>>

None == [op |-> "none"]

ArithmeticOperators == {"+", "-", "*", "/", "%", "<<", ">>"}
ComparisonOperators == {"==", "!=", "<", "<=", ">", ">="}

Applied(op, left, right, value) == [op |-> op, left |-> left, right |-> right, value |-> value]

\* evalArithmeticExpression
Arithmetic(op, left, right) ==
  calc' = Applied(op, left, right, Calculate(op, left, right)) /\ UNCHANGED vars

\* evalComparisonExpression
Comparison(op, left, right) ==
  calc' = Applied(op, left, right, Compare(op, left, right)) /\ UNCHANGED vars

\* Operators do not depend on the list of the access, which is left empty.
ExpressionsInit == Init /\ calc = None

ExpressionsNext ==
  /\ calc = None /\ keys = <<>>
  /\ \/ Next /\ UNCHANGED calc
     \/ len = 0 /\ \E left, right \in Operands :
          \/ \E op \in ArithmeticOperators : Arithmetic(op, left, right)
          \/ \E op \in ComparisonOperators : Comparison(op, left, right)

ExpressionsSpec == ExpressionsInit /\ [][ExpressionsNext]_expressionVars

-----------------------------------------------------------------------------
(* Properties. *)

NumberIn(v) == IF v.is = "string" THEN v.number ELSE v

\* What the operators of ints owe each other: + and - undo each other even when
\* they wrap around, * does not mind the order of its operands, / and % give the
\* dividend back (also that of the smallest int by -1), the remainder has the
\* sign of the dividend, a shift multiplies or divides by a power of two, and
\* one by a negative count or by more bits than there are leaves only the sign.
\* Nothing panics but a division by zero.
IntegerLaw(op, left, right, value) ==
  LET a == NumberIn(left).int
      b == NumberIn(right).int
  IN  /\ value = Crash <=> op \in {"/", "%"} /\ b = 0
      /\ op = "+" => Calculate("-", value, right) = IntOf(a)
      /\ op = "-" => Calculate("+", value, right) = IntOf(a)
      /\ op = "*" => Calculate("*", right, left) = value
      /\ op = "/" /\ b # 0 =>
           Calculate("+", Calculate("*", value, right), Calculate("%", left, right)) = IntOf(a)
      /\ op = "%" /\ b # 0 =>
           /\ Magnitude(value.int) < Magnitude(b)
           /\ value.int # 0 => (value.int < 0 <=> a < 0)
      /\ op = "<<" /\ b \in 0 .. Width - 1 =>
           value = Calculate("*", left, IntOf(Wrapped(TwoTo[b])))
      /\ op = ">>" /\ b \in 0 .. Width - 1 =>
           value.int * TwoTo[b] <= a /\ a < (value.int + 1) * TwoTo[b]
      /\ op = "<<" /\ b \notin 0 .. Width - 1 => value.int = 0
      /\ op = ">>" /\ b \notin 0 .. Width - 1 => value.int = IF a < 0 THEN -1 ELSE 0

IntegerLaws ==
  calc.op \in ArithmeticOperators /\ NumberIn(calc.left).is = "int" /\ NumberIn(calc.right).is = "int" =>
    IntegerLaw(calc.op, calc.left, calc.right, calc.value)

\* What is added to a collection, one element or many, is gone when it is
\* subtracted again, and nothing else is: the two operators agree on what they
\* take their right operand for.  Only an array on a hash is read differently:
\* as pairs by +, as keys by -.
MinusUndoesPlus ==
  calc.op \in {"+", "<<"} /\ IsCollection(calc.left) =>
    /\ calc.op = "+" /\ calc.value.is # "error" /\ (calc.left.is = "hash" => calc.right.is = "hash") =>
         Calculate("-", calc.value, calc.right) = Calculate("-", calc.left, calc.right)
    /\ calc.op = "<<" /\ calc.left.is = "array" =>
         Calculate("-", calc.value, ArrayOf(<<calc.right>>)) =
           Calculate("-", calc.left, ArrayOf(<<calc.right>>))

\* The comparisons are one order, "<" and ">", "<=" and ">=" mirror each other and
\* agree with "==", save for exactly three kinds of pairs.  Of two ints that differ
\* and share a float64 neither is less, both are "<=", and "==" tells them apart:
\* that takes an int beyond what a float64 has exactly.  Infinity is equal to
\* itself and not "<=".  Of two types that differ and are assignable to each other
\* each is less than the other.
Holds(op, a, b) == Compare(op, a, b) = Bool(TRUE)
Comparable(a, b) == CompareMagnitude("<", a, b).is = "boolean"

ShareFloat(a, b) ==
  a.is = "int" /\ b.is = "int" /\ a # b /\ Rounded[a.int] = Rounded[b.int]
BothInfinite(a, b) == a = Infinity /\ b = Infinity
Synonyms(a, b) ==
  a.is = "type" /\ b.is = "type" /\ a # b /\ IsAssignable(a, b) /\ IsAssignable(b, a)

Mirrored(a, b) ==
  /\ Comparable(a, b) <=> Comparable(b, a)
  /\ Holds("<", a, b) <=> Holds(">", b, a)
  /\ Holds("<=", a, b) <=> Holds(">=", b, a)
  /\ Holds("<", a, b) =>
       /\ Holds("<=", a, b) /\ Holds("!=", a, b)
       /\ a.is = "int" /\ b.is = "int" => a.int < b.int
  /\ Holds("<", a, b) /\ Holds("<", b, a) <=> Synonyms(a, b)

AgreesWithEquals(a, b) ==
  Comparable(a, b) =>
    /\ (Holds("<=", a, b) <=> Holds("<", a, b) \/ Holds("==", a, b))
         <=> ~(ShareFloat(a, b) \/ BothInfinite(a, b))
    /\ (Holds("<=", a, b) /\ Holds(">=", a, b) <=> Holds("==", a, b))
         <=> ~(ShareFloat(a, b) \/ BothInfinite(a, b) \/ Synonyms(a, b))
    /\ ShareFloat(a, b) => ~({a.int, b.int} \subseteq -Exact .. Exact)

OrderIsCoherent ==
  calc.op = "<" => Mirrored(calc.left, calc.right) /\ AgreesWithEquals(calc.left, calc.right)
=============================================================================
