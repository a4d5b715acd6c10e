------------------------------ MODULE Numbers ------------------------------
(***************************************************************************)
(* The arithmetic and comparison operators of src/evaluator/arithmetic.go  *)
(* and src/evaluator/comparison.go.  A value is a record; "is" tells its   *)
(* kind.  Strings know the number that strconv reads in them, if any.      *)
(***************************************************************************)
EXTENDS GoInts, Sequences

CONSTANTS
  Width,       \* number of bits of an int
  Rounded,     \* the float64 that is nearest to each int
  Exact,       \* ints up to this one, and down to its negative, are float64s
  Letters,     \* letters: 1 .. Letters are capital, Letters + 1 .. 2 * Letters small
  Assignables  \* the pairs of a type and one that is assignable to it

\* 2 ^ b
TwoTo[b \in 0 .. Width] == IF b = 0 THEN 1 ELSE 2 * TwoTo[b - 1]

ASSUME WidthAssumption == Width \in Nat \ {0} /\ TwoTo[Width] = 2 * MaxInt + 2

ASSUME FloatAssumption ==
  /\ Rounded \in [GoInt -> Int]
  /\ Exact \in 1 .. MaxInt
  /\ \A i, j \in GoInt : i <= j => Rounded[i] <= Rounded[j]
  /\ \A i \in -Exact .. Exact : Rounded[i] = i

IntOf(i) == [is |-> "int", int |-> i]
FloatOf(f) == [is |-> "float", float |-> f]
Infinity == [is |-> "infinity"]
NaN == [is |-> "nan"]
Bool(truth) == [is |-> "boolean", truth |-> truth]
ArrayOf(elements) == [is |-> "array", elements |-> elements]
HashOf(entries) == [is |-> "hash", entries |-> entries]
Uri == [is |-> "uri"]
Error(code) == [is |-> "error", code |-> code]

NotNumeric == Error("NOT_NUMERIC")
OperatorNotApplicable == Error("OPERATOR_NOT_APPLICABLE")
OperatorNotApplicableWhen == Error("OPERATOR_NOT_APPLICABLE_WHEN")

IsFloat(v) == v.is \in {"float", "infinity", "nan"}
IsNumber(v) == v.is = "int" \/ IsFloat(v)

-----------------------------------------------------------------------------
(* Arithmetic. *)

Magnitude(i) == IF i < 0 THEN -i ELSE i

\* Go cuts a quotient towards zero.
Quotient(a, b) ==
  LET size == Magnitude(a) \div Magnitude(b)
  IN  Wrapped(IF (a < 0) = (b < 0) THEN size ELSE -size)

\* Faulty variant: the remainder is never negative.
RemainderFloored(a, b) == a % Magnitude(b)

Remainder(a, b) == a - b * (IF (a < 0) = (b < 0) THEN 1 ELSE -1) * (Magnitude(a) \div Magnitude(b))

\* uint(b): what a shift takes of its count; all bits are gone after Width.
Bits(b) == IF b < 0 \/ b > Width THEN Width ELSE b

ShiftLeft(a, b) == Wrapped(a * TwoTo[Bits(b)])
ShiftRight(a, b) == a \div TwoTo[Bits(b)]

\* intArithmetic
IntArithmetic(op, a, b) ==
  CASE op = "+" -> IntOf(Sum(a, b))
    [] op = "-" -> IntOf(Wrapped(a - b))
    [] op = "*" -> IntOf(Wrapped(a * b))
    [] op \in {"/", "%"} /\ b = 0 -> Crash
    [] op = "/" /\ b # 0 -> IntOf(Quotient(a, b))
    [] op = "%" /\ b # 0 -> IntOf(Remainder(a, b))
    [] op = "<<" -> IntOf(ShiftLeft(a, b))
    [] op = ">>" -> IntOf(ShiftRight(a, b))

\* floatArithmetic: what the machine computes of two floats is kept as it is.
FloatArithmetic(op, a, b) ==
  IF op \in {"+", "-", "*", "/"} THEN [is |-> "calculated", op |-> op, of |-> <<a, b>>]
  ELSE OperatorNotApplicable

ToFloat(v) == IF v.is = "int" THEN FloatOf(Rounded[v.int]) ELSE v

\* What the right operand of a number is read as, or an error.
RightNumber(b) ==
  CASE IsNumber(b) -> b
    [] b.is = "string" -> b.number
    [] OTHER -> OperatorNotApplicableWhen

\* lhsIntArithmetic
LhsIntArithmetic(op, a, b) ==
  LET right == RightNumber(b)
  IN  CASE right.is = "int" -> IntArithmetic(op, a, right.int)
        [] IsFloat(right) -> FloatArithmetic(op, ToFloat(IntOf(a)), right)
        [] right = Undef -> NotNumeric
        [] OTHER -> right

\* lhsFloatArithmetic
LhsFloatArithmetic(op, a, b) ==
  LET right == RightNumber(b)
  IN  CASE IsNumber(right) -> FloatArithmetic(op, a, ToFloat(right))
        [] right = Undef -> NotNumeric
        [] OTHER -> right

-----------------------------------------------------------------------------
(* Collections. *)

IsCollection(v) == v.is \in {"array", "hash"}

Pair(entry) == ArrayOf(<<entry.key, entry.value>>)

\* The elements of an array or a hash as a list.
AsList(v) ==
  IF v.is = "array" THEN v.elements ELSE [i \in DOMAIN v.entries |-> Pair(v.entries[i])]

\* The members of a list that are at these places.
Picked(list, places) ==
  LET upTo[i \in 0 .. Len(list)] ==
        IF i = 0 THEN <<>>
        ELSE IF i \in places THEN Append(upTo[i - 1], list[i]) ELSE upTo[i - 1]
  IN  upTo[Len(list)]

InList(list, v) == \E i \in DOMAIN list : list[i] = v
Keys(hash) == [i \in DOMAIN hash.entries |-> hash.entries[i].key]

\* Hash.Merge: the entries of h, with the values of g for the keys of both,
\* and those that only g has.
Merge(h, g) ==
  LET Latest(entry) == IF InList(Keys(g), entry.key)
                       THEN CHOOSE e \in {g.entries[i] : i \in DOMAIN g.entries} : e.key = entry.key
                       ELSE entry
  IN  HashOf([i \in DOMAIN h.entries |-> Latest(h.entries[i])]
             \o Picked(g.entries, {i \in DOMAIN g.entries : ~InList(Keys(h), g.entries[i].key)}))

\* Array.DeleteAll and Hash.DeleteAll
WithoutElements(list, gone) == Picked(list, {i \in DOMAIN list : ~InList(gone, list[i])})
WithoutKeys(hash, gone) ==
  HashOf(Picked(hash.entries, {i \in DOMAIN hash.entries : ~InList(gone, hash.entries[i].key)}))

\* WrapHashFromArray, of pairs that have different keys.
HashFromPairs(array) ==
  IF \A i \in DOMAIN array.elements :
       array.elements[i].is = "array" /\ Len(array.elements[i].elements) = 2
  THEN HashOf([i \in DOMAIN array.elements |->
                [key |-> array.elements[i].elements[1], value |-> array.elements[i].elements[2]]])
  ELSE Error("ILLEGAL_ARGUMENT")

\* concatenate
Concatenate(a, b) ==
  CASE a.is = "array" -> ArrayOf(a.elements \o IF IsCollection(b) THEN AsList(b) ELSE <<b>>)
    [] a.is = "hash" /\ b.is = "hash" -> Merge(a, b)
    [] a.is = "hash" /\ b.is = "array" ->
         LET pairs == HashFromPairs(b) IN IF pairs.is = "hash" THEN Merge(a, pairs) ELSE pairs
    [] a.is = "uri" /\ b.is \in {"string", "uri"} -> Uri
    [] OTHER -> OperatorNotApplicableWhen

\* Faulty variant: a hash on the right gives its entries, not its keys.
CollectionDeleteEntries(a, b) ==
  CASE a.is = "array" -> ArrayOf(WithoutElements(a.elements, IF IsCollection(b) THEN AsList(b) ELSE <<b>>))
    [] a.is = "hash" -> WithoutKeys(a, IF IsCollection(b) THEN AsList(b) ELSE <<b>>)
    [] OTHER -> OperatorNotApplicable

\* collectionDelete: of a hash, the keys that are elements of an array.
CollectionDelete(a, b) ==
  CASE a.is = "array" -> ArrayOf(WithoutElements(a.elements, IF IsCollection(b) THEN AsList(b) ELSE <<b>>))
    [] a.is = "hash" -> WithoutKeys(a, IF b.is = "array" THEN b.elements
                                       ELSE IF b.is = "hash" THEN Keys(b) ELSE <<b>>)
    [] OTHER -> OperatorNotApplicable

\* calculate
Calculate(op, a, b) ==
  CASE a.is \in {"array", "hash", "uri"} /\ op = "+" -> Concatenate(a, b)
    [] a.is \in {"array", "hash", "uri"} /\ op = "-" -> CollectionDelete(a, b)
    [] a.is = "array" /\ op = "<<" -> ArrayOf(Append(a.elements, b))
    [] IsFloat(a) -> LhsFloatArithmetic(op, a, b)
    [] a.is = "int" -> LhsIntArithmetic(op, a.int, b)
    [] a.is = "string" /\ a.number.is = "int" -> LhsIntArithmetic(op, a.number.int, b)
    [] a.is = "string" /\ IsFloat(a.number) -> LhsFloatArithmetic(op, a.number, b)
    [] a.is = "string" /\ a.number = Undef -> NotNumeric
    [] OTHER -> OperatorNotApplicable

-----------------------------------------------------------------------------
(* Comparison. *)

\* strings.ToLower, of strings of one letter.
ToLower(letter) == IF letter <= Letters THEN letter + Letters ELSE letter

Ordered(op, a, b) ==
  CASE op = "<" -> a < b [] op = "<=" -> a <= b [] op = ">" -> a > b [] op = ">=" -> a >= b

\* The sign of the difference of two floats, as the operators take it: no
\* operator holds of the difference that is not a number.
FloatsOrdered(op, a, b) ==
  CASE a = NaN \/ b = NaN \/ (a = Infinity /\ b = Infinity) -> FALSE
    [] a = Infinity /\ b.is = "float" -> Ordered(op, 1, 0)
    [] a.is = "float" /\ b = Infinity -> Ordered(op, 0, 1)
    [] a.is = "float" /\ b.is = "float" -> Ordered(op, a.float, b.float)

\* px.IsAssignable(to, from), a relation of its own: two types may be assignable to
\* each other and not be Equal, as an alias and the type that it stands for.
IsAssignable(to, from) == <<to.type, from.type>> \in Assignables

\* `a # b` is !left.Equals(b, nil).
TypesOrdered(op, a, b) ==
  CASE op = "<" -> IsAssignable(b, a) /\ a # b
    [] op = "<=" -> IsAssignable(b, a)
    [] op = ">" -> IsAssignable(a, b) /\ a # b
    [] op = ">=" -> IsAssignable(a, b)

\* Faulty variant: the case of letters tells strings apart.
CompareMagnitudeCased(op, a, b) ==
  CASE a.is = "type" /\ b.is = "type" -> Bool(TypesOrdered(op, a, b))
    [] a.is = "string" /\ b.is = "string" -> Bool(Ordered(op, a.letter, b.letter))
    [] a.is = "version" /\ b.is = "version" -> Bool(Ordered(op, a.version, b.version))
    [] IsNumber(a) /\ IsNumber(b) -> Bool(FloatsOrdered(op, ToFloat(a), ToFloat(b)))
    [] OTHER -> OperatorNotApplicableWhen

\* compareMagnitude
CompareMagnitude(op, a, b) ==
  CASE a.is = "type" /\ b.is = "type" -> Bool(TypesOrdered(op, a, b))
    [] a.is = "string" /\ b.is = "string" -> Bool(Ordered(op, ToLower(a.letter), ToLower(b.letter)))
    [] a.is = "version" /\ b.is = "version" -> Bool(Ordered(op, a.version, b.version))
    [] IsNumber(a) /\ IsNumber(b) -> Bool(FloatsOrdered(op, ToFloat(a), ToFloat(b)))
    [] a.is \notin {"type", "string", "version"} /\ ~IsNumber(a) -> OperatorNotApplicable
    [] OTHER -> OperatorNotApplicableWhen

\* px.PuppetEquals: ints as ints, other numbers as floats, strings by letter.
PuppetEquals(a, b) ==
  CASE a.is = "string" /\ b.is = "string" -> ToLower(a.letter) = ToLower(b.letter)
    [] IsNumber(a) /\ IsNumber(b) /\ (IsFloat(a) \/ IsFloat(b)) ->
         ToFloat(a) = ToFloat(b) /\ ToFloat(a) # NaN
    [] OTHER -> a = b

\* compare
Compare(op, a, b) ==
  CASE op = "==" -> Bool(PuppetEquals(a, b))
    [] op = "!=" -> Bool(~PuppetEquals(a, b))
    [] OTHER -> CompareMagnitude(op, a, b)
=============================================================================
