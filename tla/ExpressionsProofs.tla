------------------------- MODULE ExpressionsProofs -------------------------
(***************************************************************************)
(* Theorems about accesses and operators, for every width of the ints,     *)
(* every float64 the machine may round an int to, and all operands: slices *)
(* select what they mean, the comparisons are one order, the arithmetic of *)
(* ints obeys its laws where it wraps around, and what is subtracted from  *)
(* a collection is what was added to it.                                   *)
(***************************************************************************)
EXTENDS Expressions, RecursionProofs

-----------------------------------------------------------------------------
(* Slices and indexes. *)

\* IndexArg, without its LET and its helpers: a start at most at the end.
LEMMA Starts ==
  ASSUME NEW n \in 0 .. MaxInt, NEW first \in GoInt
  PROVE  /\ IndexArg(n, first) \in GoInt
         /\ IndexArg(n, first) <= n
         /\ IndexArg(n, first) = First(n, first) \/ (IndexArg(n, first) = n /\ First(n, first) > n)
  BY IntAssumption DEF IndexArg, LowerOf, First, GoInt

\* CountArg: the elements from the start on that are counted.
LEMMA Counts ==
  ASSUME NEW n \in 0 .. MaxInt, NEW start \in GoInt, start <= n, NEW count \in GoInt
  PROVE  LET from == IF start > 0 THEN start ELSE 0
             left == CountArg(n, count, start)
         IN  /\ left \in 0 .. MaxInt
             /\ start + count > MaxInt => start > 0 /\ left = count
             /\ start + count <= MaxInt => from + left <= n
             /\ count >= 0 /\ start + count <= n =>
                  from + left = (IF start + count > from THEN start + count ELSE from)
             /\ count >= 0 /\ start + count > n /\ start + count <= MaxInt => from + left = n
             /\ count < 0 =>
                  from + left = (IF n + count + 1 > from THEN n + count + 1 ELSE from)
  BY IntAssumption DEF CountArg, HigherOf, Sum, GoInt

\* Two keys select their slice, or there is an overflow.
LEMMA TwoKeysSelect ==
  ASSUME NEW n \in 0 .. MaxInt, NEW first \in GoInt, NEW second \in GoInt
  PROVE  SliceSelects(n, first, second, TwoKeys(n, first, second))
<1> DEFINE start == IndexArg(n, first)
           count == CountArg(n, second, start)
           from == IF start > 0 THEN start ELSE 0
<1>1. /\ start \in GoInt /\ start <= n
      /\ start = First(n, first) \/ (start = n /\ First(n, first) > n)
  BY Starts
<1>2. /\ count \in 0 .. MaxInt
      /\ start + second > MaxInt => start > 0 /\ count = second
      /\ start + second <= MaxInt => from + count <= n
      /\ second >= 0 /\ start + second <= n =>
           from + count = (IF start + second > from THEN start + second ELSE from)
      /\ second >= 0 /\ start + second > n /\ start + second <= MaxInt => from + count = n
      /\ second < 0 =>
           from + count = (IF n + second + 1 > from THEN n + second + 1 ELSE from)
  BY <1>1, Counts
<1>3. TwoKeys(n, first, second) =
        IF from = n \/ count = 0 THEN Empty ELSE Slice(n, from, Sum(from, count))
  BY <1>1, IntAssumption DEF TwoKeys, HigherOf, GoInt
<1>4. First(n, first) \in Int
  BY IntAssumption DEF First, GoInt
<1> HIDE DEF start, count
<1>5. CASE from = n \/ count = 0
  <2>1. TwoKeys(n, first, second) = [is |-> "slice", from |-> 0, to |-> 0]
    BY <1>3, <1>5 DEF Empty
  <2>2. ASSUME NEW i \in 0 .. n - 1 PROVE ~Selects(n, first, second, i)
    <3>1. CASE second < 0
      BY <1>1, <1>2, <1>4, <1>5, <3>1, IntAssumption DEF Selects, Last, GoInt
    <3>2. CASE second >= 0 /\ start = First(n, first)
      BY <1>1, <1>2, <1>4, <1>5, <3>2, IntAssumption DEF Selects, Last, GoInt
    <3>3. CASE start = n /\ First(n, first) > n
      BY <1>4, <3>3, IntAssumption DEF Selects, GoInt
    <3> QED
      BY <1>1, <3>1, <3>2, <3>3, IntAssumption DEF GoInt
  <2> QED
    BY <2>1, <2>2 DEF SliceSelects
<1>6. CASE ~(from = n \/ count = 0) /\ from + count <= n
  <2>1. TwoKeys(n, first, second) = [is |-> "slice", from |-> from, to |-> from + count]
    BY <1>1, <1>2, <1>3, <1>6, IntAssumption DEF Slice, Sum, GoInt
  <2>2. start = First(n, first)
    BY <1>1, <1>6, IntAssumption DEF GoInt
  <2>3. ASSUME NEW i \in 0 .. n - 1
        PROVE  Selects(n, first, second, i) <=> from <= i /\ i < from + count
    <3>1. CASE second < 0
      BY <1>1, <1>2, <1>4, <1>6, <2>2, <3>1, IntAssumption DEF Selects, Last, GoInt
    <3>2. CASE second >= 0
      BY <1>1, <1>2, <1>4, <1>6, <2>2, <3>2, IntAssumption DEF Selects, Last, GoInt
    <3> QED
      BY <3>1, <3>2, IntAssumption DEF GoInt
  <2> QED
    BY <2>1, <2>3 DEF SliceSelects
<1>7. CASE ~(from = n \/ count = 0) /\ ~(from + count <= n)
  <2>1. start > 0 /\ start + second > MaxInt /\ count = second
    BY <1>1, <1>2, <1>7, IntAssumption DEF GoInt
  <2>2. TwoKeys(n, first, second) = Crash
    BY <1>1, <1>2, <1>3, <1>7, <2>1, IntAssumption DEF Slice, Sum, GoInt
  <2>3. First(n, first) < n /\ First(n, first) + second > MaxInt
    BY <1>1, <1>4, <1>7, <2>1, IntAssumption DEF GoInt
  <2> QED
    BY <2>2, <2>3 DEF SliceSelects, Crash
<1> QED
  BY <1>5, <1>6, <1>7

\* The inductive invariant: the result is the one that the keys have.
Accessed ==
  /\ len \in 0 .. MaxLen
  /\ keys \in Seq(GoInt)
  /\ keys # <<>> => result = AccessIndexedValue(len, keys)

LEMMA AccessedInvariant == Spec => []Accessed
<1>1. Init => Accessed
  BY DEF Init, Accessed
<1>2. Accessed /\ [Next]_vars => Accessed'
  <2> SUFFICES ASSUME Accessed, [Next]_vars PROVE Accessed'
    OBVIOUS
  <2>1. ASSUME NEW key \in GoInt, Access(<<key>>) PROVE Accessed'
    <3>1. <<key>> \in Seq(GoInt)
      OBVIOUS
    <3> QED
      BY <2>1, <3>1 DEF Access, Accessed
  <2>2. ASSUME NEW first \in GoInt, NEW second \in GoInt, Access(<<first, second>>)
        PROVE Accessed'
    <3>1. <<first, second>> \in Seq(GoInt)
      OBVIOUS
    <3> QED
      BY <2>2, <3>1 DEF Access, Accessed
  <2>3. ASSUME Access(<<0, 0, 0>>) PROVE Accessed'
    <3>1. <<0, 0, 0>> \in Seq(GoInt)
      BY IntAssumption DEF GoInt
    <3> QED
      BY <2>3, <3>1 DEF Access, Accessed
  <2>4. ASSUME UNCHANGED vars PROVE Accessed'
    BY <2>4 DEF vars, Accessed
  <2> QED
    BY <2>1, <2>2, <2>3, <2>4 DEF Next
<1> QED
  BY <1>1, <1>2, PTL DEF Spec

\* An access with two keys returns the part of the list that the keys select,
\* for every length and every two ints; it panics only when its start and its
\* count add up to more than an int.
THEOREM SlicesCorrect == Spec => []SliceIsSelected
<1>1. Accessed => SliceIsSelected
  <2> SUFFICES ASSUME Accessed, Len(keys) = 2
               PROVE  SliceSelects(len, keys[1], keys[2], result)
    BY DEF SliceIsSelected
  <2>1. len \in 0 .. MaxInt /\ keys[1] \in GoInt /\ keys[2] \in GoInt
    BY IntAssumption, LengthAssumption DEF Accessed
  <2>2. keys # <<>> /\ result = TwoKeys(len, keys[1], keys[2])
    BY DEF Accessed, AccessIndexedValue
  <2> QED
    BY <2>1, <2>2, TwoKeysSelect
<1> QED
  BY <1>1, AccessedInvariant, PTL

\* An index finds the only element of the slice of one element at that index,
\* and undef where the slice is empty, for every list shorter than the ints.
THEOREM IndexesAgree == Spec => []IndexAgreesWithSlice
<1>1. Accessed => IndexAgreesWithSlice
  <2> SUFFICES ASSUME Accessed, Len(keys) = 1, len < MaxInt
               PROVE  LET slice == TwoKeys(len, keys[1], 1)
                      IN  CASE result = Undef -> slice.is = "slice" /\ slice.from = slice.to
                            [] OTHER -> slice = [is |-> "slice", from |-> result.at, to |-> result.at + 1]
    BY DEF IndexAgreesWithSlice
  <2> DEFINE key == keys[1]
             pos == IF key < 0 THEN len + key ELSE key
  <2>1. len \in 0 .. MaxInt - 1 /\ key \in GoInt
    <3>1. len \in 0 .. MaxLen /\ keys \in Seq(GoInt)
      BY DEF Accessed
    <3>2. key \in GoInt
      BY <3>1
    <3> QED
      BY <3>1, <3>2, IntAssumption, LengthAssumption
  <2>2. result = OneKey(len, key)
    <3>1. keys # <<>>
      OBVIOUS
    <3> QED
      BY <3>1 DEF Accessed, AccessIndexedValue
  <2> HIDE DEF key
  <2>3. CASE pos < 0 \/ pos >= len
    <3>1. result = Undef
      BY <2>2, <2>3 DEF OneKey
    <3>2. TwoKeys(len, key, 1) = Empty
      BY <2>1, <2>3, IntAssumption
      DEF TwoKeys, IndexArg, CountArg, LowerOf, HigherOf, Sum, GoInt
    <3> QED
      BY <3>1, <3>2 DEF Empty, key
  <2>4. CASE ~(pos < 0 \/ pos >= len)
    <3>1. result = [is |-> "element", at |-> pos]
      BY <2>2, <2>4 DEF OneKey
    <3>2. TwoKeys(len, key, 1) = [is |-> "slice", from |-> pos, to |-> pos + 1]
      <4>1. pos \in 0 .. len - 1 /\ len \in 0 .. MaxInt - 1
        BY <2>1, <2>4, IntAssumption DEF GoInt
      <4>2. IndexArg(len, key) = pos
        BY <2>1, <4>1, IntAssumption DEF IndexArg, LowerOf, GoInt
      <4> HIDE DEF pos
      <4>3. HigherOf(pos, 0) = pos /\ Sum(pos, 1) = pos + 1
        BY <4>1, IntAssumption DEF HigherOf, Sum
      <4>4. CountArg(len, 1, pos) = 1
        BY <4>1, <4>3, IntAssumption DEF CountArg
      <4>5. TwoKeys(len, key, 1) = Slice(len, pos, pos + 1)
        BY <4>1, <4>2, <4>3, <4>4 DEF TwoKeys
      <4> QED
        BY <4>1, <4>5 DEF Slice
    <3> QED
      BY <3>1, <3>2 DEF Undef, key
  <2> QED
    BY <2>3, <2>4
<1> QED
  BY <1>1, AccessedInvariant, PTL

-----------------------------------------------------------------------------
(* Comparisons. *)


LEMMA HoldsIsTruth ==
  ASSUME NEW truth \in BOOLEAN
  PROVE  /\ Bool(truth) = Bool(TRUE) <=> truth
         /\ Bool(truth).is = "boolean"
  BY DEF Bool

LEMMA OrderedIs ==
  ASSUME NEW i \in Int, NEW j \in Int
  PROVE  /\ Ordered("<", i, j) = (i < j)
         /\ Ordered("<=", i, j) = (i <= j)
         /\ Ordered(">", i, j) = (i > j)
         /\ Ordered(">=", i, j) = (i >= j)
<1>1. Ordered("<", i, j) = (i < j)
  BY DEF Ordered
<1>2. Ordered("<=", i, j) = (i <= j)
  BY DEF Ordered
<1>3. Ordered(">", i, j) = (i > j)
  BY DEF Ordered
<1>4. Ordered(">=", i, j) = (i >= j)
  BY DEF Ordered
<1> QED
  BY <1>1, <1>2, <1>3, <1>4

\* The magnitude operators on values of one kind.
LEMMA VersionsCompared ==
  ASSUME NEW a, NEW b, a.is = "version", b.is = "version", NEW op
  PROVE  CompareMagnitude(op, a, b) = Bool(Ordered(op, a.version, b.version))
  BY DEF CompareMagnitude, IsNumber, IsFloat

LEMMA StringsCompared ==
  ASSUME NEW a, NEW b, a.is = "string", b.is = "string", NEW op
  PROVE  CompareMagnitude(op, a, b) = Bool(Ordered(op, ToLower(a.letter), ToLower(b.letter)))
  BY DEF CompareMagnitude, IsNumber, IsFloat

LEMMA TypesCompared ==
  ASSUME NEW a, NEW b, a.is = "type", b.is = "type", NEW op
  PROVE  CompareMagnitude(op, a, b) = Bool(TypesOrdered(op, a, b))
  BY DEF CompareMagnitude, IsNumber, IsFloat

LEMMA NumbersCompared ==
  ASSUME NEW a, NEW b, IsNumber(a), IsNumber(b), NEW op
  PROVE  CompareMagnitude(op, a, b) = Bool(FloatsOrdered(op, ToFloat(a), ToFloat(b)))
  BY DEF CompareMagnitude, IsNumber, IsFloat

\* Two values of different kinds are not compared.
LEMMA OthersNotCompared ==
  ASSUME NEW a, NEW b, NEW op,
         ~(a.is = "type" /\ b.is = "type"), ~(a.is = "string" /\ b.is = "string"),
         ~(a.is = "version" /\ b.is = "version"), ~(IsNumber(a) /\ IsNumber(b))
  PROVE  CompareMagnitude(op, a, b).is = "error"
<1>1. CASE a.is \notin {"string", "type", "version"} /\ ~IsNumber(a)
  <2>1. CompareMagnitude(op, a, b) = OperatorNotApplicable
    BY <1>1 DEF CompareMagnitude
  <2> QED
    BY <2>1 DEF OperatorNotApplicable, Error
<1>2. CASE ~(a.is \notin {"string", "type", "version"} /\ ~IsNumber(a))
  <2>1. CompareMagnitude(op, a, b) = OperatorNotApplicableWhen
    BY <1>2 DEF CompareMagnitude
  <2> QED
    BY <2>1 DEF OperatorNotApplicableWhen, Error
<1> QED
  BY <1>1, <1>2

-----------------------------------------------------------------------------
(* Two values that are ordered through integers. *)

\* What the four operators say of two values whose order is that of i and j.
OrderedAs(a, b, i, j) ==
  /\ Comparable(a, b)
  /\ Holds("<", a, b) <=> i < j
  /\ Holds("<=", a, b) <=> i <= j
  /\ Holds(">", a, b) <=> i > j
  /\ Holds(">=", a, b) <=> i >= j

LEMMA EqualityHolds ==
  ASSUME NEW a, NEW b
  PROVE  /\ Holds("==", a, b) <=> PuppetEquals(a, b)
         /\ Holds("!=", a, b) <=> ~PuppetEquals(a, b)
  BY DEF Holds, Compare, Bool

LEMMA TruthHolds ==
  ASSUME NEW op \in {"<", "<=", ">", ">="}, NEW a, NEW b, NEW truth \in BOOLEAN,
         CompareMagnitude(op, a, b) = Bool(truth)
  PROVE  /\ Holds(op, a, b) <=> truth
         /\ CompareMagnitude(op, a, b).is = "boolean"
<1>1. Compare(op, a, b) = Bool(truth)
  BY DEF Compare
<1> QED
  BY <1>1, HoldsIsTruth DEF Holds

LEMMA OrderedThroughIntegers ==
  ASSUME NEW a, NEW b, NEW i \in Int, NEW j \in Int,
         \A op : CompareMagnitude(op, a, b) = Bool(Ordered(op, i, j))
  PROVE  OrderedAs(a, b, i, j)
<1>1. /\ Holds("<", a, b) <=> i < j
      /\ Comparable(a, b)
  <2> DEFINE truth == i < j
  <2>1. truth \in BOOLEAN /\ CompareMagnitude("<", a, b) = Bool(truth)
    BY OrderedIs
  <2> HIDE DEF truth
  <2>2. (Holds("<", a, b) <=> truth) /\ Comparable(a, b)
    BY <2>1, TruthHolds DEF Comparable
  <2> QED
    BY <2>2 DEF truth
<1>2. Holds("<=", a, b) <=> i <= j
  <2> DEFINE truth == i <= j
  <2>1. truth \in BOOLEAN /\ CompareMagnitude("<=", a, b) = Bool(truth)
    BY OrderedIs
  <2> HIDE DEF truth
  <2>2. Holds("<=", a, b) <=> truth
    BY <2>1, TruthHolds
  <2> QED
    BY <2>2 DEF truth
<1>3. Holds(">", a, b) <=> i > j
  <2> DEFINE truth == i > j
  <2>1. truth \in BOOLEAN /\ CompareMagnitude(">", a, b) = Bool(truth)
    BY OrderedIs
  <2> HIDE DEF truth
  <2>2. Holds(">", a, b) <=> truth
    BY <2>1, TruthHolds
  <2> QED
    BY <2>2 DEF truth
<1>4. Holds(">=", a, b) <=> i >= j
  <2> DEFINE truth == i >= j
  <2>1. truth \in BOOLEAN /\ CompareMagnitude(">=", a, b) = Bool(truth)
    BY OrderedIs
  <2> HIDE DEF truth
  <2>2. Holds(">=", a, b) <=> truth
    BY <2>1, TruthHolds
  <2> QED
    BY <2>2 DEF truth
<1> QED
  BY <1>1, <1>2, <1>3, <1>4 DEF OrderedAs

\* Such values have the properties, if equal integers mean equal values.
LEMMA CoherentThroughIntegers ==
  ASSUME NEW a, NEW b, NEW i \in Int, NEW j \in Int,
         OrderedAs(a, b, i, j), OrderedAs(b, a, j, i),
         PuppetEquals(a, b) => i = j,
         i = j /\ ~PuppetEquals(a, b) <=> ShareFloat(a, b),
         ShareFloat(a, b) => ~({a.int, b.int} \subseteq -Exact .. Exact),
         ~BothInfinite(a, b), ~Synonyms(a, b),
         a.is = "int" /\ b.is = "int" /\ i < j => a.int < b.int
  PROVE  Mirrored(a, b) /\ AgreesWithEquals(a, b)
<1>1. Mirrored(a, b)
  BY EqualityHolds DEF OrderedAs, Mirrored
<1>2. AgreesWithEquals(a, b)
  BY EqualityHolds DEF OrderedAs, AgreesWithEquals
<1> QED
  BY <1>1, <1>2

LEMMA VersionsCoherent ==
  ASSUME NEW a, NEW b, IsValue(a), IsValue(b), a.is = "version", b.is = "version"
  PROVE  Mirrored(a, b) /\ AgreesWithEquals(a, b)
<1>1. a.version \in Int /\ b.version \in Int
  BY DEF IsValue
<1>2. OrderedAs(a, b, a.version, b.version) /\ OrderedAs(b, a, b.version, a.version)
  BY <1>1, VersionsCompared, OrderedThroughIntegers
<1>3. PuppetEquals(a, b) <=> a.version = b.version
  BY DEF PuppetEquals, IsValue, IsNumber, IsFloat
<1>4. ~ShareFloat(a, b) /\ ~BothInfinite(a, b) /\ ~Synonyms(a, b)
  BY DEF ShareFloat, BothInfinite, Synonyms, Infinity
<1> QED
  BY <1>1, <1>2, <1>3, <1>4, CoherentThroughIntegers

LEMMA StringsCoherent ==
  ASSUME NEW a, NEW b, IsValue(a), IsValue(b), a.is = "string", b.is = "string"
  PROVE  Mirrored(a, b) /\ AgreesWithEquals(a, b)
<1> DEFINE i == ToLower(a.letter)
           j == ToLower(b.letter)
<1>1. i \in Int /\ j \in Int
  BY OperandsAssumption DEF IsValue, ToLower
<1>2. OrderedAs(a, b, i, j) /\ OrderedAs(b, a, j, i)
  <2> HIDE DEF i, j
  <2>1. \A op : CompareMagnitude(op, a, b) = Bool(Ordered(op, i, j))
    BY StringsCompared DEF i, j
  <2>2. \A op : CompareMagnitude(op, b, a) = Bool(Ordered(op, j, i))
    BY StringsCompared DEF i, j
  <2> QED
    BY <1>1, <2>1, <2>2, OrderedThroughIntegers
<1>3. PuppetEquals(a, b) <=> i = j
  BY DEF PuppetEquals, IsNumber, IsFloat
<1>4. ~ShareFloat(a, b) /\ ~BothInfinite(a, b) /\ ~Synonyms(a, b)
  BY DEF ShareFloat, BothInfinite, Synonyms, Infinity
<1> HIDE DEF i, j
<1> QED
  BY <1>1, <1>2, <1>3, <1>4, CoherentThroughIntegers

LEMMA TypesCoherent ==
  ASSUME NEW a, NEW b, IsValue(a), IsValue(b), a.is = "type", b.is = "type"
  PROVE  Mirrored(a, b) /\ AgreesWithEquals(a, b)
<1>1. ASSUME NEW c, NEW d, c.is = "type", d.is = "type"
      PROVE  /\ Comparable(c, d)
             /\ Holds("<", c, d) <=> IsAssignable(d, c) /\ c # d
             /\ Holds("<=", c, d) <=> IsAssignable(d, c)
             /\ Holds(">", c, d) <=> IsAssignable(c, d) /\ c # d
             /\ Holds(">=", c, d) <=> IsAssignable(c, d)
  <2> DEFINE up == IsAssignable(d, c)
             down == IsAssignable(c, d)
  <2>1. up \in BOOLEAN /\ down \in BOOLEAN
    BY DEF IsAssignable
  <2> HIDE DEF up, down
  <2>2. CompareMagnitude("<", c, d) = Bool(up /\ c # d)
    BY <1>1, TypesCompared DEF TypesOrdered, up
  <2>3. CompareMagnitude("<=", c, d) = Bool(up)
    BY <1>1, TypesCompared DEF TypesOrdered, up
  <2>4. CompareMagnitude(">", c, d) = Bool(down /\ c # d)
    BY <1>1, TypesCompared DEF TypesOrdered, down
  <2>5. CompareMagnitude(">=", c, d) = Bool(down)
    BY <1>1, TypesCompared DEF TypesOrdered, down
  <2>6. Comparable(c, d) /\ (Holds("<", c, d) <=> up /\ c # d)
    <3> DEFINE truth == up /\ c # d
    <3>1. truth \in BOOLEAN /\ CompareMagnitude("<", c, d) = Bool(truth)
      BY <2>2
    <3> HIDE DEF truth
    <3>2. (Holds("<", c, d) <=> truth) /\ Comparable(c, d)
      BY <3>1, TruthHolds DEF Comparable
    <3> QED
      BY <3>2 DEF truth
  <2>7. Holds(">", c, d) <=> down /\ c # d
    <3> DEFINE truth == down /\ c # d
    <3>1. truth \in BOOLEAN /\ CompareMagnitude(">", c, d) = Bool(truth)
      BY <2>4
    <3> HIDE DEF truth
    <3>2. Holds(">", c, d) <=> truth
      BY <3>1, TruthHolds
    <3> QED
      BY <3>2 DEF truth
  <2>8. (Holds("<=", c, d) <=> up) /\ (Holds(">=", c, d) <=> down)
    BY <2>1, <2>3, <2>5, TruthHolds
  <2> QED
    BY <2>6, <2>7, <2>8 DEF up, down
<1>2. /\ a = b => IsAssignable(a, b) /\ IsAssignable(b, a)
      /\ Synonyms(a, b) <=> a # b /\ IsAssignable(a, b) /\ IsAssignable(b, a)
      /\ ~ShareFloat(a, b) /\ ~BothInfinite(a, b)
      /\ a.is # "int"
  <2>1. IsAssignable(a, a)
    BY DEF IsValue
  <2> QED
    BY <2>1 DEF Synonyms, ShareFloat, BothInfinite, Infinity
<1>3. PuppetEquals(a, b) <=> a = b
  BY DEF PuppetEquals, IsNumber, IsFloat
<1>4. Mirrored(a, b)
  BY <1>1, <1>2, <1>3, EqualityHolds DEF Mirrored
<1>5. AgreesWithEquals(a, b)
  BY <1>1, <1>2, <1>3, EqualityHolds DEF AgreesWithEquals
<1> QED
  BY <1>4, <1>5

-----------------------------------------------------------------------------
(* Numbers: through their floats. *)

LEMMA NumberKinds ==
  ASSUME NEW v, IsValue(v), IsNumber(v)
  PROVE  \/ v.is = "int" /\ ToFloat(v) = FloatOf(Rounded[v.int]) /\ Rounded[v.int] \in Int
         \/ v.is = "float" /\ ToFloat(v) = FloatOf(v.float) /\ v.float \in Int
         \/ v = Infinity /\ ToFloat(v) = Infinity
         \/ v = NaN /\ ToFloat(v) = NaN
  BY FloatAssumption DEF IsValue, IsNumber, IsFloat, ToFloat, Infinity, NaN

LEMMA FiniteOrdered ==
  ASSUME NEW f \in Int, NEW g \in Int, NEW op
  PROVE  FloatsOrdered(op, FloatOf(f), FloatOf(g)) = Ordered(op, f, g)
  BY DEF FloatsOrdered, FloatOf, Infinity, NaN

LEMMA InfinityOrdered ==
  ASSUME NEW f \in Int, NEW op
  PROVE  /\ FloatsOrdered(op, Infinity, FloatOf(f)) = Ordered(op, 1, 0)
         /\ FloatsOrdered(op, FloatOf(f), Infinity) = Ordered(op, 0, 1)
  BY DEF FloatsOrdered, FloatOf, Infinity, NaN

\* Values whose difference is not a number.
LEMMA UnorderedCoherent ==
  ASSUME NEW a, NEW b, IsNumber(a), IsNumber(b),
         ToFloat(a) = NaN \/ ToFloat(b) = NaN \/ (ToFloat(a) = Infinity /\ ToFloat(b) = Infinity),
         PuppetEquals(a, b) <=> BothInfinite(a, b), ~ShareFloat(a, b)
  PROVE  Mirrored(a, b) /\ AgreesWithEquals(a, b)
<1>1. ASSUME NEW op \in {"<", "<=", ">", ">="}
      PROVE  ~Holds(op, a, b) /\ ~Holds(op, b, a)
  <2>1. CompareMagnitude(op, a, b) = Bool(FALSE) /\ CompareMagnitude(op, b, a) = Bool(FALSE)
    <3>1. ASSUME NEW x, NEW y, x = NaN \/ y = NaN \/ (x = Infinity /\ y = Infinity)
          PROVE  FloatsOrdered(op, x, y) = FALSE
      <4>1. NaN.is = "nan" /\ Infinity.is = "infinity" /\ NaN # Infinity
        BY DEF NaN, Infinity
      <4>2. CASE x = NaN
        BY <4>1, <4>2 DEF FloatsOrdered
      <4>3. CASE y = NaN
        BY <4>1, <4>3 DEF FloatsOrdered
      <4>4. CASE x = Infinity /\ y = Infinity
        BY <4>1, <4>4 DEF FloatsOrdered
      <4> QED
        BY <3>1, <4>2, <4>3, <4>4
    <3>2. FloatsOrdered(op, ToFloat(a), ToFloat(b)) = FALSE
      BY <3>1
    <3>3. FloatsOrdered(op, ToFloat(b), ToFloat(a)) = FALSE
      BY <3>1
    <3> QED
      BY <3>2, <3>3, NumbersCompared
  <2> QED
    BY <2>1, TruthHolds
<1>2. Comparable(a, b) /\ Comparable(b, a)
  BY NumbersCompared DEF Comparable, Bool
<1>3. ~Synonyms(a, b)
  BY DEF Synonyms, IsNumber, IsFloat
<1>4. Mirrored(a, b)
  BY <1>1, <1>2, <1>3 DEF Mirrored
<1>5. AgreesWithEquals(a, b)
  BY <1>1, <1>3, EqualityHolds DEF AgreesWithEquals
<1> QED
  BY <1>4, <1>5

\* Two numbers with finite floats: rounding keeps the order of ints, and within
\* the precision it keeps them apart.
LEMMA FiniteCoherent ==
  ASSUME NEW a, NEW b, IsValue(a), IsValue(b), IsNumber(a), IsNumber(b),
         NEW f \in Int, NEW g \in Int, ToFloat(a) = FloatOf(f), ToFloat(b) = FloatOf(g)
  PROVE  Mirrored(a, b) /\ AgreesWithEquals(a, b)
<1>1. OrderedAs(a, b, f, g) /\ OrderedAs(b, a, g, f)
  <2>1. \A op : CompareMagnitude(op, a, b) = Bool(Ordered(op, f, g))
    BY NumbersCompared, FiniteOrdered
  <2>2. \A op : CompareMagnitude(op, b, a) = Bool(Ordered(op, g, f))
    BY NumbersCompared, FiniteOrdered
  <2> QED
    BY <2>1, <2>2, OrderedThroughIntegers
<1>2. FloatOf(f) = FloatOf(g) <=> f = g
  BY DEF FloatOf
<1>3. ~BothInfinite(a, b) /\ ~Synonyms(a, b)
  BY DEF BothInfinite, Synonyms, IsNumber, IsFloat, ToFloat, Infinity, FloatOf
<1>4. CASE a.is = "int" /\ b.is = "int"
  <2>1. /\ a = IntOf(a.int) /\ b = IntOf(b.int) /\ a.int \in GoInt /\ b.int \in GoInt
        /\ f = Rounded[a.int] /\ g = Rounded[b.int]
    <3>1. FloatOf(Rounded[a.int]) = FloatOf(f) /\ FloatOf(Rounded[b.int]) = FloatOf(g)
      BY <1>4 DEF ToFloat
    <3> QED
      BY <1>4, <3>1 DEF FloatOf, IsValue
  <2>2. PuppetEquals(a, b) <=> a.int = b.int
    BY <1>4, <2>1 DEF PuppetEquals, IsNumber, IsFloat
  <2>3. f < g => a.int < b.int
    BY <2>1, FloatAssumption, IntAssumption DEF GoInt
  <2>4. a = b <=> a.int = b.int
    BY <2>1 DEF IntOf
  <2>5. f = g /\ ~PuppetEquals(a, b) <=> ShareFloat(a, b)
    BY <1>4, <2>1, <2>2, <2>4 DEF ShareFloat
  <2>6. ShareFloat(a, b) => ~({a.int, b.int} \subseteq -Exact .. Exact)
    <3>1. SUFFICES ASSUME a.int \in -Exact .. Exact, b.int \in -Exact .. Exact, f = g
                   PROVE  a.int = b.int
      BY <2>1, <2>4 DEF ShareFloat
    <3> QED
      BY <2>1, <3>1, FloatAssumption
  <2>7. PuppetEquals(a, b) => f = g
    BY <2>1, <2>2
  <2> QED
    BY <1>1, <1>3, <2>3, <2>5, <2>6, <2>7, CoherentThroughIntegers
<1>5. CASE ~(a.is = "int" /\ b.is = "int")
  <2>1. FloatOf(f) # NaN
    BY DEF FloatOf, NaN
  <2>2. PuppetEquals(a, b) <=> f = g
    BY <1>2, <1>5, <2>1 DEF PuppetEquals, IsNumber, IsFloat
  <2>3. ~ShareFloat(a, b)
    BY <1>5 DEF ShareFloat
  <2> QED
    BY <1>1, <1>5, <1>3, <2>2, <2>3, CoherentThroughIntegers
<1> QED
  BY <1>4, <1>5

LEMMA NumbersCoherent ==
  ASSUME NEW a, NEW b, IsValue(a), IsValue(b), IsNumber(a), IsNumber(b)
  PROVE  Mirrored(a, b) /\ AgreesWithEquals(a, b)
<1> DEFINE Finite(v) == \E f \in Int : ToFloat(v) = FloatOf(f)
<1>1. ASSUME NEW v, IsValue(v), IsNumber(v)
      PROVE  Finite(v) \/ (v = Infinity /\ ToFloat(v) = Infinity) \/ (v = NaN /\ ToFloat(v) = NaN)
  BY <1>1, NumberKinds
<1>2. CASE Finite(a) /\ Finite(b)
  BY <1>2, FiniteCoherent
<1>3. CASE Finite(a) /\ b = Infinity /\ ToFloat(b) = Infinity
  <2>1. PICK f \in Int : ToFloat(a) = FloatOf(f)
    BY <1>3
  <2>2. OrderedAs(a, b, 0, 1) /\ OrderedAs(b, a, 1, 0)
    <3>1. \A op : CompareMagnitude(op, a, b) = Bool(Ordered(op, 0, 1))
      BY <1>3, <2>1, NumbersCompared, InfinityOrdered
    <3>2. \A op : CompareMagnitude(op, b, a) = Bool(Ordered(op, 1, 0))
      BY <1>3, <2>1, NumbersCompared, InfinityOrdered
    <3> QED
      BY <3>1, <3>2, OrderedThroughIntegers
  <2>3. ~PuppetEquals(a, b) /\ b.is # "int"
    BY <1>3, <2>1 DEF PuppetEquals, IsNumber, IsFloat, Infinity, FloatOf
  <2>4. ~ShareFloat(a, b) /\ ~BothInfinite(a, b) /\ ~Synonyms(a, b)
    BY <1>3, <2>1 DEF ShareFloat, BothInfinite, Synonyms, Infinity, ToFloat, FloatOf
  <2> QED
    BY <2>2, <2>3, <2>4, CoherentThroughIntegers
<1>4. CASE Finite(b) /\ a = Infinity /\ ToFloat(a) = Infinity
  <2>1. PICK f \in Int : ToFloat(b) = FloatOf(f)
    BY <1>4
  <2>2. OrderedAs(a, b, 1, 0) /\ OrderedAs(b, a, 0, 1)
    <3>1. \A op : CompareMagnitude(op, a, b) = Bool(Ordered(op, 1, 0))
      BY <1>4, <2>1, NumbersCompared, InfinityOrdered
    <3>2. \A op : CompareMagnitude(op, b, a) = Bool(Ordered(op, 0, 1))
      BY <1>4, <2>1, NumbersCompared, InfinityOrdered
    <3> QED
      BY <3>1, <3>2, OrderedThroughIntegers
  <2>3. ~PuppetEquals(a, b) /\ a.is # "int"
    BY <1>4, <2>1 DEF PuppetEquals, IsNumber, IsFloat, Infinity, FloatOf
  <2>4. ~ShareFloat(a, b) /\ ~BothInfinite(a, b) /\ ~Synonyms(a, b)
    BY <1>4, <2>1 DEF ShareFloat, BothInfinite, Synonyms, Infinity, ToFloat, FloatOf
  <2> QED
    BY <2>2, <2>3, <2>4, CoherentThroughIntegers
<1>5. CASE a = Infinity /\ ToFloat(a) = Infinity /\ b = Infinity /\ ToFloat(b) = Infinity
  <2>1. PuppetEquals(a, b) /\ BothInfinite(a, b) /\ ~ShareFloat(a, b)
    BY <1>5 DEF PuppetEquals, IsNumber, IsFloat, Infinity, NaN, BothInfinite, ShareFloat
  <2> QED
    BY <1>5, <2>1, UnorderedCoherent
<1>6. CASE a = NaN /\ ToFloat(a) = NaN
  <2>1. ~PuppetEquals(a, b) /\ ~ShareFloat(a, b) /\ ~BothInfinite(a, b)
    BY <1>6 DEF PuppetEquals, IsNumber, IsFloat, NaN, Infinity, ShareFloat, BothInfinite
  <2> QED
    BY <1>6, <2>1, UnorderedCoherent
<1>7. CASE b = NaN /\ ToFloat(b) = NaN
  <2>1. ~PuppetEquals(a, b) /\ ~ShareFloat(a, b) /\ ~BothInfinite(a, b)
    BY <1>7 DEF PuppetEquals, IsNumber, IsFloat, NaN, Infinity, ShareFloat, BothInfinite
  <2> QED
    BY <1>7, <2>1, UnorderedCoherent
<1> HIDE DEF Finite
<1> QED
  BY <1>1, <1>2, <1>3, <1>4, <1>5, <1>6, <1>7

\* Any two values.
LEMMA Coherent ==
  ASSUME NEW a, NEW b, IsValue(a), IsValue(b)
  PROVE  Mirrored(a, b) /\ AgreesWithEquals(a, b)
<1>1. CASE \/ a.is = "type" /\ b.is = "type"
           \/ a.is = "string" /\ b.is = "string"
           \/ a.is = "version" /\ b.is = "version"
           \/ IsNumber(a) /\ IsNumber(b)
  BY <1>1, TypesCoherent, StringsCoherent, VersionsCoherent, NumbersCoherent
<1>2. CASE /\ ~(a.is = "type" /\ b.is = "type")
           /\ ~(a.is = "string" /\ b.is = "string")
           /\ ~(a.is = "version" /\ b.is = "version")
           /\ ~(IsNumber(a) /\ IsNumber(b))
  <2>1. ASSUME NEW op \in {"<", "<=", ">", ">="}
        PROVE  /\ CompareMagnitude(op, a, b).is = "error" /\ CompareMagnitude(op, b, a).is = "error"
               /\ ~Holds(op, a, b) /\ ~Holds(op, b, a)
    <3>1. CompareMagnitude(op, a, b).is = "error" /\ CompareMagnitude(op, b, a).is = "error"
      BY <1>2, OthersNotCompared
    <3>2. Compare(op, a, b) = CompareMagnitude(op, a, b) /\ Compare(op, b, a) = CompareMagnitude(op, b, a)
      BY DEF Compare
    <3> QED
      BY <3>1, <3>2, HoldsIsTruth DEF Holds
  <2>2. ~Comparable(a, b) /\ ~Comparable(b, a)
    BY <2>1 DEF Comparable
  <2>3. ~Synonyms(a, b)
    BY <1>2 DEF Synonyms
  <2> QED
    BY <2>1, <2>2, <2>3 DEF Mirrored, AgreesWithEquals
<1> QED
  BY <1>1, <1>2

-----------------------------------------------------------------------------

\* An operator has been applied to operands.
AppliedToOperands ==
  \/ calc = None
  \/ /\ calc.left \in Operands /\ calc.right \in Operands
     /\ \/ /\ calc.op \in ArithmeticOperators
           /\ calc.value = Calculate(calc.op, calc.left, calc.right)
        \/ /\ calc.op \in ComparisonOperators
           /\ calc.value = Compare(calc.op, calc.left, calc.right)

LEMMA AppliedInvariant == ExpressionsSpec => []AppliedToOperands
<1>1. ExpressionsInit => AppliedToOperands
  BY DEF ExpressionsInit, AppliedToOperands
<1>2. AppliedToOperands /\ [ExpressionsNext]_expressionVars => AppliedToOperands'
  <2> SUFFICES ASSUME AppliedToOperands, [ExpressionsNext]_expressionVars
               PROVE  AppliedToOperands'
    OBVIOUS
  <2>1. CASE UNCHANGED calc
    BY <2>1 DEF AppliedToOperands
  <2>2. ASSUME NEW left \in Operands, NEW right \in Operands, NEW op \in ArithmeticOperators,
               Arithmetic(op, left, right)
        PROVE  AppliedToOperands'
    BY <2>2 DEF Arithmetic, Applied, AppliedToOperands
  <2>3. ASSUME NEW left \in Operands, NEW right \in Operands, NEW op \in ComparisonOperators,
               Comparison(op, left, right)
        PROVE  AppliedToOperands'
    BY <2>3 DEF Comparison, Applied, AppliedToOperands
  <2> QED
    BY <2>1, <2>2, <2>3 DEF ExpressionsNext, expressionVars
<1> QED
  BY <1>1, <1>2, PTL DEF ExpressionsSpec

\* compareMagnitude and PuppetEquals make one order of the values that can be
\* compared, whatever floats the machine has and whichever types are assignable to
\* each other, save for exactly the pairs that OrderIsCoherent names.
THEOREM ComparisonsCoherent == ExpressionsSpec => []OrderIsCoherent
<1>1. AppliedToOperands => OrderIsCoherent
  BY OperandsAssumption, Coherent DEF AppliedToOperands, OrderIsCoherent, None
<1> QED
  BY <1>1, AppliedInvariant, PTL

\* An access among the other expressions is an access.
THEOREM AccessesInExpressions == ExpressionsSpec => Spec
<1>1. ExpressionsInit => Init
  BY DEF ExpressionsInit
<1>2. [ExpressionsNext]_expressionVars => [Next]_vars
  BY DEF ExpressionsNext, Arithmetic, Comparison, expressionVars
<1> QED
  BY <1>1, <1>2, PTL DEF ExpressionsSpec, Spec

\* So accesses among other expressions select the right slices.
THEOREM SlicesInExpressions == ExpressionsSpec => []SliceIsSelected /\ []IndexAgreesWithSlice
  BY AccessesInExpressions, SlicesCorrect, IndexesAgree, PTL

-----------------------------------------------------------------------------
(* The integers modulo the number of the ints. *)

LEMMA Divides ==
  ASSUME NEW d \in Nat \ {0}, NEW n \in Int
  PROVE  \E q \in Int, r \in 0 .. d - 1 : n \div d = q /\ n % d = r /\ n = d * q + r
<1>1. PICK q \in Int : q = n \div d
  OBVIOUS
<1>2. PICK r \in 0 .. d - 1 : r = n % d
  OBVIOUS
<1>3. n = d * q + r
  BY <1>1, <1>2
<1> QED
  BY <1>1, <1>2, <1>3

LEMMA OneQuotient ==
  ASSUME NEW d \in Nat \ {0}, NEW q \in Int, NEW r \in 0 .. d - 1,
         NEW q2 \in Int, NEW r2 \in 0 .. d - 1, d * q + r = d * q2 + r2
  PROVE  q = q2 /\ r = r2
OBVIOUS

LEMMA DividesOnce ==
  ASSUME NEW d \in Nat \ {0}, NEW n \in Int, NEW q \in Int, NEW r \in 0 .. d - 1, n = d * q + r
  PROVE  n \div d = q /\ n % d = r
BY Divides, OneQuotient

Modulus == 2 * MaxInt + 2

\* Two integers that are the same int.
Same(m, n) == \E k \in Int : m = n + Modulus * k

LEMMA WrappedIsSame ==
  ASSUME NEW n \in Int
  PROVE  Wrapped(n) \in GoInt /\ Same(Wrapped(n), n)
<1>1. Modulus \in Nat \ {0} /\ MaxInt \in Nat /\ n + MaxInt + 1 \in Int
  BY IntAssumption DEF Modulus
<1>2. PICK q \in Int, r \in 0 .. Modulus - 1 :
        (n + MaxInt + 1) % Modulus = r /\ n + MaxInt + 1 = Modulus * q + r
  BY <1>1, Divides
<1>3. Wrapped(n) = r - MaxInt - 1
  BY <1>2 DEF Wrapped, Modulus
<1>4. r - MaxInt - 1 \in GoInt
  BY <1>1, <1>2 DEF GoInt, Modulus
<1>5. r - MaxInt - 1 = n + Modulus * (-q) /\ -q \in Int
  BY <1>1, <1>2
<1> QED
  BY <1>3, <1>4, <1>5 DEF Same

LEMMA SameInt ==
  ASSUME NEW i \in GoInt, NEW j \in GoInt, Same(i, j)
  PROVE  i = j
<1>1. Modulus \in Nat \ {0} /\ MaxInt \in Nat
  BY IntAssumption DEF Modulus
<1>2. PICK k \in Int : i = j + Modulus * k
  BY DEF Same
<1>3. i \in Int /\ j \in Int /\ i - j < Modulus /\ j - i < Modulus
  BY <1>1 DEF GoInt, Modulus
<1>4. k = 0
  <2>1. CASE k >= 1
    <3>1. Modulus * k >= Modulus
      BY <1>1, <2>1
    <3> QED
      BY <1>1, <1>2, <1>3, <3>1
  <2>2. CASE k <= -1
    <3>1. Modulus * k <= -Modulus
      BY <1>1, <2>2
    <3> QED
      BY <1>1, <1>2, <1>3, <3>1
  <2> QED
    BY <2>1, <2>2
<1> QED
  BY <1>1, <1>2, <1>3, <1>4

LEMMA SameArithmetic ==
  ASSUME NEW m \in Int, NEW n \in Int, Same(m, n), NEW x \in Int
  PROVE  /\ Same(n, m) /\ Same(m + x, n + x) /\ Same(m * x, n * x) /\ Same(m, m)
         /\ \A y \in Int : Same(n, y) => Same(m, y)
<1>1. Modulus \in Int
  BY IntAssumption DEF Modulus
<1>2. PICK k \in Int : m = n + Modulus * k
  BY DEF Same
<1>3. Same(n, m)
  <2>1. n = m + Modulus * (-k) /\ -k \in Int
    BY <1>1, <1>2
  <2> QED
    BY <2>1 DEF Same
<1>4. Same(m + x, n + x)
  <2>1. m + x = (n + x) + Modulus * k
    BY <1>1, <1>2
  <2> QED
    BY <2>1 DEF Same
<1>5. Same(m * x, n * x)
  <2>1. m * x = (n * x) + Modulus * (k * x) /\ k * x \in Int
    BY <1>1, <1>2
  <2> QED
    BY <2>1 DEF Same
<1>6. ASSUME NEW y \in Int, Same(n, y) PROVE Same(m, y)
  <2>1. PICK l \in Int : n = y + Modulus * l
    BY <1>6 DEF Same
  <2>2. m = y + Modulus * (k + l) /\ k + l \in Int
    BY <1>1, <1>2, <2>1
  <2> QED
    BY <2>2 DEF Same
<1>7. Same(m, m)
  <2>1. m = m + Modulus * 0
    BY <1>1
  <2> QED
    BY <2>1 DEF Same
<1> QED
  BY <1>3, <1>4, <1>5, <1>6, <1>7

\* An int is what the integers that are the same wrap around to.
LEMMA WrapsTo ==
  ASSUME NEW n \in Int, NEW i \in GoInt, Same(n, i)
  PROVE  Wrapped(n) = i
<1>1. i \in Int /\ GoInt \subseteq Int
  BY IntAssumption DEF GoInt
<1>2. Wrapped(n) \in GoInt /\ Same(Wrapped(n), n)
  BY WrappedIsSame
<1>3. Same(Wrapped(n), i)
  BY <1>1, <1>2, SameArithmetic
<1> QED
  BY <1>2, <1>3, SameInt

\* Sum is what a sum wraps around to.
LEMMA SumWraps ==
  ASSUME NEW i \in GoInt, NEW j \in GoInt
  PROVE  Sum(i, j) = Wrapped(i + j) /\ Sum(i, j) \in GoInt /\ Same(Sum(i, j), i + j)
<1>1. MaxInt \in Nat /\ i \in Int /\ j \in Int /\ Modulus \in Int
  BY IntAssumption DEF GoInt, Modulus
<1>2. Sum(i, j) \in GoInt
  BY <1>1 DEF GoInt, Sum
<1>3. Same(i + j, Sum(i, j))
  <2>1. \/ i + j = Sum(i, j) + Modulus * 1
        \/ i + j = Sum(i, j) + Modulus * 0
        \/ i + j = Sum(i, j) + Modulus * (-1)
    BY <1>1 DEF Sum, Modulus
  <2> QED
    BY <2>1 DEF Same
<1>4. Sum(i, j) = Wrapped(i + j)
  <2>1. i + j \in Int
    BY <1>1
  <2> QED
    BY <1>2, <1>3, <2>1, WrapsTo
<1>5. Same(Sum(i, j), i + j)
  BY <1>1, <1>4, WrappedIsSame
<1> QED
  BY <1>2, <1>4, <1>5

-----------------------------------------------------------------------------
(* The powers of two. *)

LEMMA TwoToUnfolds ==
  /\ TwoTo \in [0 .. Width -> Nat] /\ TwoTo[0] = 1
  /\ \A b \in 1 .. Width : TwoTo[b] = 2 * TwoTo[b - 1]
<1> DEFINE step == [b \in 1 .. Width |-> [v \in Nat |-> 2 * v]]
<1>1. Width \in Nat /\ 1 \in Nat /\ step \in [1 .. Width -> [Nat -> Nat]]
  BY WidthAssumption
<1>2. PICK f \in [0 .. Width -> Nat] : StartsAt(f, Width, 1, step)
  <2> HIDE DEF step
  <2> QED
    BY <1>1, RecursionOver
<1>3. f[0] = 1 /\ \A b \in 1 .. Width : f[b] = 2 * f[b - 1]
  <2>1. \A b \in 1 .. Width : f[b - 1] \in Nat
    BY <1>1
  <2>2. \A b \in 1 .. Width : f[b] = step[b][f[b - 1]]
    BY <1>2 DEF StartsAt
  <2>3. f[0] = 1
    BY <1>2 DEF StartsAt
  <2> QED
    BY <2>1, <2>2, <2>3
<1>4. f = [b \in 0 .. Width |-> IF b = 0 THEN 1 ELSE 2 * f[b - 1]]
  <2>1. \A b \in 0 .. Width : f[b] = IF b = 0 THEN 1 ELSE 2 * f[b - 1]
    BY <1>1, <1>3
  <2> QED
    BY <2>1
<1>5. TwoTo = [b \in 0 .. Width |-> IF b = 0 THEN 1 ELSE 2 * TwoTo[b - 1]]
  BY <1>4 DEF TwoTo
<1>6. DOMAIN TwoTo = 0 .. Width /\ TwoTo[0] = 1
  <2>1. 0 \in 0 .. Width
    BY <1>1
  <2> QED
    BY <1>5, <2>1
<1>7. \A b \in 1 .. Width : TwoTo[b] = 2 * TwoTo[b - 1]
  <2>1. \A b \in 1 .. Width : b \in 0 .. Width /\ b # 0
    BY <1>1
  <2> QED
    BY <1>5, <2>1
<1>8. \A b \in 0 .. Width : TwoTo[b] \in Nat
  <2> DEFINE T == {b \in 0 .. Width : TwoTo[b] \in Nat}
  <2>1. 0 \in T
    BY <1>1, <1>6
  <2>2. ASSUME NEW b \in 1 .. Width, b - 1 \in T PROVE b \in T
    <3>1. TwoTo[b - 1] \in Nat /\ b \in 0 .. Width
      BY <1>1, <2>2
    <3> QED
      BY <1>7, <3>1
  <2>3. T \in SUBSET (0 .. Width)
    OBVIOUS
  <2>4. T = 0 .. Width
    <3> HIDE DEF T
    <3> QED
      BY <1>1, <2>1, <2>2, <2>3, AllUpTo
  <2> QED
    BY <2>4
<1> QED
  BY <1>5, <1>6, <1>7, <1>8

\* A power of two below the last is at least 1 and at most half of the last.
LEMMA TwoToBounds ==
  ASSUME NEW b \in 0 .. Width - 1
  PROVE  TwoTo[b] \in 1 .. MaxInt + 1
<1>0. Width \in Nat \ {0} /\ MaxInt \in Nat /\ TwoTo[Width] = 2 * MaxInt + 2
  BY WidthAssumption, IntAssumption
<1> DEFINE T == {c \in 0 .. Width : TwoTo[c] >= 1}
           U == {c \in 0 .. Width - 1 : TwoTo[Width - 1 - c] <= MaxInt + 1}
<1>1. 0 \in T
  BY <1>0, TwoToUnfolds
<1>2. ASSUME NEW c \in 1 .. Width, c - 1 \in T PROVE c \in T
  <2>1. TwoTo[c - 1] \in Nat /\ c \in 0 .. Width /\ TwoTo[c - 1] >= 1
    BY <1>0, <1>2, TwoToUnfolds
  <2> QED
    BY <2>1, TwoToUnfolds
<1>3. T = 0 .. Width
  <2>1. T \in SUBSET (0 .. Width)
    OBVIOUS
  <2> HIDE DEF T
  <2> QED
    BY <1>0, <1>1, <1>2, <2>1, AllUpTo
<1>4. 0 \in U
  <2>1. TwoTo[Width] = 2 * TwoTo[Width - 1] /\ TwoTo[Width - 1] \in Nat
    <3>1. Width \in 1 .. Width /\ Width - 1 \in 0 .. Width
      BY <1>0
    <3> QED
      BY <3>1, TwoToUnfolds
  <2>2. TwoTo[Width - 1] <= MaxInt + 1
    BY <1>0, <2>1
  <2>3. Width - 1 - 0 = Width - 1 /\ 0 \in 0 .. Width - 1
    BY <1>0
  <2> QED
    BY <2>2, <2>3
<1>5. ASSUME NEW c \in 1 .. Width - 1, c - 1 \in U PROVE c \in U
  <2>1. PICK d \in 1 .. Width - 1 : d = Width - c
    BY <1>0
  <2>2. Width - 1 - c = d - 1 /\ Width - 1 - (c - 1) = d /\ c \in 0 .. Width - 1
    BY <1>0, <2>1
  <2>3. TwoTo[d] <= MaxInt + 1
    BY <1>5, <2>2
  <2>4. TwoTo[d] = 2 * TwoTo[d - 1] /\ TwoTo[d - 1] \in Nat
    <3>1. d \in 1 .. Width /\ d - 1 \in 0 .. Width
      BY <1>0
    <3> QED
      BY <3>1, TwoToUnfolds
  <2>5. TwoTo[d - 1] <= MaxInt + 1
    BY <1>0, <2>3, <2>4
  <2> QED
    BY <2>2, <2>5
<1>6. U = 0 .. Width - 1
  <2>1. U \in SUBSET (0 .. Width - 1) /\ Width - 1 \in Nat
    BY <1>0
  <2> HIDE DEF U
  <2> QED
    BY <1>4, <1>5, <2>1, AllUpTo
<1>7. TwoTo[b] >= 1 /\ TwoTo[b] \in Nat
  <2>1. b \in 0 .. Width
    BY <1>0
  <2> QED
    BY <1>3, <2>1, TwoToUnfolds
<1>8. TwoTo[b] <= MaxInt + 1
  <2>1. PICK c \in 0 .. Width - 1 : Width - 1 - c = b
    <3>1. Width - 1 - b \in 0 .. Width - 1 /\ Width - 1 - (Width - 1 - b) = b
      BY <1>0
    <3> QED
      BY <3>1
  <2>2. c \in U
    BY <1>6
  <2> QED
    BY <2>1, <2>2
<1> QED
  BY <1>0, <1>7, <1>8

-----------------------------------------------------------------------------
(* The operators of ints. *)

LEMMA IntsAre ==
  /\ MaxInt \in Nat /\ Modulus \in Nat \ {0} /\ GoInt \subseteq Int
  /\ \A i \in GoInt : -MaxInt - 1 <= i /\ i <= MaxInt
  /\ \A i \in Int : -MaxInt - 1 <= i /\ i <= MaxInt => i \in GoInt
  /\ 0 \in GoInt /\ -1 \in GoInt /\ Modulus = 2 * MaxInt + 2
BY IntAssumption DEF GoInt, Modulus

LEMMA MinusUndoesSum ==
  ASSUME NEW a \in GoInt, NEW b \in GoInt
  PROVE  Wrapped(Sum(a, b) - b) = a
<1>1. a \in Int /\ b \in Int /\ -b \in Int /\ a + b \in Int
  BY IntsAre
<1>2. Sum(a, b) \in Int /\ Same(Sum(a, b), a + b)
  BY SumWraps, IntsAre
<1>3. Same(Sum(a, b) + (-b), (a + b) + (-b))
  BY <1>1, <1>2, SameArithmetic
<1>4. (a + b) + (-b) = a /\ Sum(a, b) + (-b) = Sum(a, b) - b /\ Sum(a, b) - b \in Int
  BY <1>1, <1>2
<1> QED
  BY <1>3, <1>4, WrapsTo

LEMMA SumUndoesMinus ==
  ASSUME NEW a \in GoInt, NEW b \in GoInt
  PROVE  Sum(Wrapped(a - b), b) = a
<1>1. a \in Int /\ b \in Int /\ a - b \in Int
  BY IntsAre
<1>2. PICK d \in GoInt : d = Wrapped(a - b) /\ Same(d, a - b)
  BY <1>1, WrappedIsSame
<1>3. d \in Int /\ d + b \in Int /\ (a - b) + b = a
  BY <1>1, <1>2, IntsAre
<1>4. Same(d + b, (a - b) + b)
  BY <1>1, <1>2, <1>3, SameArithmetic
<1>5. Wrapped(d + b) = a
  BY <1>3, <1>4, WrapsTo
<1> QED
  BY <1>2, <1>5, SumWraps

\* Of the magnitudes, with the signs put back.
LEMMA Magnitudes ==
  ASSUME NEW a \in GoInt, NEW b \in GoInt, b # 0
  PROVE  \E q \in Int, r \in Int :
           /\ Quotient(a, b) = Wrapped(q) /\ Remainder(a, b) = r /\ a = q * b + r
           /\ Magnitude(r) < Magnitude(b) /\ (r # 0 => (r < 0 <=> a < 0))
           /\ Magnitude(b) \in 1 .. MaxInt + 1 /\ r \in GoInt
<1>1. a \in Int /\ b \in Int /\ -MaxInt - 1 <= b /\ b <= MaxInt /\ MaxInt \in Nat
  BY IntsAre
<1>2. PICK m \in Nat : m = Magnitude(a) /\ (a = m \/ (a = -m /\ a < 0)) /\ (a < 0 => a = -m)
  <2>1. Magnitude(a) \in Nat
    BY <1>1 DEF Magnitude
  <2> QED
    BY <1>1, <2>1 DEF Magnitude
<1>3. PICK n \in Nat \ {0} : n = Magnitude(b) /\ (b < 0 => b = -n) /\ (~(b < 0) => b = n)
  <2>1. Magnitude(b) \in Nat \ {0}
    BY <1>1 DEF Magnitude
  <2> QED
    BY <1>1, <2>1 DEF Magnitude
<1>4. PICK k \in Int, s \in 0 .. n - 1 : m \div n = k /\ m = n * k + s
  BY Divides
<1>5. n \in 1 .. MaxInt + 1
  BY <1>1, <1>3
<1> DEFINE q == IF (a < 0) = (b < 0) THEN k ELSE -k
           r == IF a < 0 THEN -s ELSE s
<1>6. q \in Int /\ r \in Int
  OBVIOUS
<1>7. Quotient(a, b) = Wrapped(q)
  BY <1>2, <1>3, <1>4 DEF Quotient
<1>8. a - b * (IF (a < 0) = (b < 0) THEN 1 ELSE -1) * k = r
  <2>1. CASE a < 0 /\ b < 0
    <3>1. a = -(n * k + s) /\ b = -n
      BY <1>2, <1>3, <1>4, <2>1
    <3> QED
      BY <1>4, <2>1, <3>1
  <2>2. CASE a < 0 /\ ~(b < 0)
    <3>1. a = -(n * k + s) /\ b = n
      BY <1>2, <1>3, <1>4, <2>2
    <3> QED
      BY <1>4, <2>2, <3>1
  <2>3. CASE ~(a < 0) /\ b < 0
    <3>1. a = n * k + s /\ b = -n
      BY <1>2, <1>3, <1>4, <2>3
    <3> QED
      BY <1>4, <2>3, <3>1
  <2>4. CASE ~(a < 0) /\ ~(b < 0)
    <3>1. a = n * k + s /\ b = n
      BY <1>2, <1>3, <1>4, <2>4
    <3> QED
      BY <1>4, <2>4, <3>1
  <2> QED
    BY <2>1, <2>2, <2>3, <2>4
<1>9. Remainder(a, b) = r
  BY <1>2, <1>3, <1>4, <1>8 DEF Remainder
<1>10. a = q * b + r
  <2>1. b * (IF (a < 0) = (b < 0) THEN 1 ELSE -1) * k = q * b
    BY <1>1, <1>4
  <2> QED
    BY <1>1, <1>6, <1>8, <2>1
<1>11. Magnitude(r) < Magnitude(b) /\ (r # 0 => (r < 0 <=> a < 0))
  <2>1. Magnitude(r) = s
    BY <1>4 DEF Magnitude
  <2> HIDE DEF r
  <2>2. Magnitude(r) < Magnitude(b)
    BY <1>3, <1>4, <2>1
  <2>3. r # 0 => (r < 0 <=> a < 0)
    BY <1>4 DEF r
  <2> QED
    BY <2>2, <2>3
<1>12. r \in GoInt
  <2>1. -MaxInt - 1 <= r /\ r <= MaxInt
    BY <1>1, <1>4, <1>5
  <2> HIDE DEF r
  <2> QED
    BY <1>6, <2>1, IntsAre
<1>13. Magnitude(b) \in 1 .. MaxInt + 1
  BY <1>3, <1>5
<1> HIDE DEF q, r
<1> QED
  BY <1>6, <1>7, <1>9, <1>10, <1>11, <1>12, <1>13

LEMMA DividendBack ==
  ASSUME NEW a \in GoInt, NEW b \in GoInt, b # 0
  PROVE  Sum(Wrapped(Quotient(a, b) * b), Remainder(a, b)) = a
<1>1. PICK q \in Int, r \in GoInt :
        Quotient(a, b) = Wrapped(q) /\ Remainder(a, b) = r /\ a = q * b + r
  BY Magnitudes
<1>2. a \in Int /\ b \in Int /\ r \in Int /\ q * b \in Int
  BY IntsAre
<1>3. PICK p \in GoInt : p = Wrapped(q) /\ Same(p, q)
  BY WrappedIsSame
<1>4. p \in Int /\ p * b \in Int
  BY <1>2, IntsAre
<1>5. Same(p * b, q * b)
  BY <1>2, <1>3, <1>4, SameArithmetic
<1>6. PICK m \in GoInt : m = Wrapped(p * b) /\ Same(m, p * b)
  BY <1>4, WrappedIsSame
<1>7. m \in Int
  BY IntsAre
<1>8. Same(m, q * b)
  BY <1>2, <1>4, <1>5, <1>6, <1>7, SameArithmetic
<1>9. Same(m + r, q * b + r) /\ m + r \in Int
  BY <1>2, <1>7, <1>8, SameArithmetic
<1>10. Wrapped(m + r) = a
  BY <1>1, <1>9, WrapsTo
<1> QED
  BY <1>1, <1>3, <1>6, <1>10, SumWraps

LEMMA Shifts ==
  ASSUME NEW a \in GoInt, NEW b \in GoInt
  PROVE  /\ b \in 0 .. Width - 1 =>
              /\ ShiftLeft(a, b) = Wrapped(a * Wrapped(TwoTo[b]))
              /\ ShiftRight(a, b) * TwoTo[b] <= a /\ a < (ShiftRight(a, b) + 1) * TwoTo[b]
         /\ b \notin 0 .. Width - 1 =>
              ShiftLeft(a, b) = 0 /\ ShiftRight(a, b) = IF a < 0 THEN -1 ELSE 0
<1>1. a \in Int /\ b \in Int /\ Width \in Nat /\ -MaxInt - 1 <= a /\ a <= MaxInt
  BY IntsAre, WidthAssumption
<1>2. ASSUME b \in 0 .. Width - 1
      PROVE  /\ ShiftLeft(a, b) = Wrapped(a * Wrapped(TwoTo[b]))
             /\ ShiftRight(a, b) * TwoTo[b] <= a /\ a < (ShiftRight(a, b) + 1) * TwoTo[b]
  <2>1. Bits(b) = b
    BY <1>1, <1>2 DEF Bits
  <2>2. PICK t \in Nat \ {0} : t = TwoTo[b]
    BY <1>2, TwoToBounds, IntsAre
  <2>3. PICK w \in GoInt : w = Wrapped(t) /\ Same(w, t)
    BY WrappedIsSame
  <2>4. w \in Int /\ w * a \in Int /\ t * a \in Int /\ w * a = a * w /\ t * a = a * t
    BY <1>1, IntsAre
  <2>5. Same(w * a, t * a)
    BY <1>1, <2>3, <2>4, SameArithmetic
  <2>6. PICK v \in GoInt : v = Wrapped(t * a) /\ Same(v, t * a)
    BY <2>4, WrappedIsSame
  <2>7. Same(w * a, v)
    <3>1. Same(t * a, v) /\ v \in Int
      BY <2>4, <2>6, SameArithmetic, IntsAre
    <3> QED
      BY <1>1, <2>4, <2>5, <3>1, SameArithmetic
  <2>8. Wrapped(w * a) = v
    BY <2>4, <2>7, WrapsTo
  <2>9. ShiftLeft(a, b) = Wrapped(a * Wrapped(TwoTo[b]))
    BY <2>1, <2>2, <2>3, <2>4, <2>6, <2>8 DEF ShiftLeft
  <2>10. PICK k \in Int, s \in 0 .. t - 1 : a \div t = k /\ a = t * k + s
    BY <1>1, Divides
  <2>11. k * t <= a /\ a < (k + 1) * t
    BY <2>10
  <2> QED
    BY <2>1, <2>2, <2>9, <2>10, <2>11 DEF ShiftRight
<1>3. ASSUME b \notin 0 .. Width - 1
      PROVE  ShiftLeft(a, b) = 0 /\ ShiftRight(a, b) = IF a < 0 THEN -1 ELSE 0
  <2>1. TwoTo[Bits(b)] = Modulus
    <3>1. Bits(b) = Width
      BY <1>1, <1>3 DEF Bits
    <3> QED
      BY <3>1, WidthAssumption DEF Modulus
  <2>2. PICK d \in Nat \ {0} : d = Modulus /\ d > a /\ -d < a
    BY <1>1, IntsAre
  <2>3. Same(a * d, 0)
    <3>1. a * d = 0 + Modulus * a
      BY <1>1, <2>2
    <3> QED
      BY <1>1, <3>1 DEF Same
  <2>4. Wrapped(a * d) = 0
    <3>1. a * d \in Int
      BY <1>1
    <3> QED
      BY <2>3, <3>1, WrapsTo, IntsAre
  <2>5. a \div d = IF a < 0 THEN -1 ELSE 0
    <3>1. CASE a < 0
      <4>1. a = d * (-1) + (a + d) /\ a + d \in 0 .. d - 1
        BY <1>1, <2>2, <3>1
      <4> QED
        BY <1>1, <3>1, <4>1, DividesOnce
    <3>2. CASE ~(a < 0)
      <4>1. a = d * 0 + a /\ a \in 0 .. d - 1
        BY <1>1, <2>2, <3>2
      <4> QED
        BY <1>1, <3>2, <4>1, DividesOnce
    <3> QED
      BY <3>1, <3>2
  <2> QED
    BY <2>1, <2>2, <2>4, <2>5 DEF ShiftLeft, ShiftRight
<1> QED
  BY <1>2, <1>3

\* An int, or a string that is one.
IsInt(v) == (v.is = "int" /\ v.int \in GoInt) \/ (v.is = "string" /\ v.number.is = "int" /\ v.number.int \in GoInt)

LEMMA IntOperand ==
  ASSUME NEW v, IsValue(v), NumberIn(v).is = "int"
  PROVE  IsInt(v) /\ NumberIn(v).int \in GoInt
BY DEF IsValue, NumberIn, IsInt

LEMMA IntIsInt ==
  ASSUME NEW i \in GoInt
  PROVE  IsInt(IntOf(i)) /\ NumberIn(IntOf(i)).int = i /\ IntOf(i).int = i
BY DEF IntOf, IsInt, NumberIn

LEMMA CalculatesInts ==
  ASSUME NEW left, NEW right, IsInt(left), IsInt(right), NEW op \in ArithmeticOperators
  PROVE  Calculate(op, left, right) = IntArithmetic(op, NumberIn(left).int, NumberIn(right).int)
<1>1. RightNumber(right).is = "int" /\ RightNumber(right).int = NumberIn(right).int
  BY DEF IsInt, RightNumber, IsNumber, IsFloat, NumberIn
<1>2. LhsIntArithmetic(op, NumberIn(left).int, right) = IntArithmetic(op, NumberIn(left).int, NumberIn(right).int)
  BY <1>1 DEF LhsIntArithmetic, IsFloat, Undef
<1>3. CASE left.is = "int"
  <2>1. Calculate(op, left, right) = LhsIntArithmetic(op, left.int, right)
    BY <1>3 DEF Calculate, IsFloat, Undef
  <2> QED
    BY <1>2, <1>3, <2>1 DEF NumberIn
<1>4. CASE left.is = "string" /\ left.number.is = "int"
  <2>1. Calculate(op, left, right) = LhsIntArithmetic(op, left.number.int, right)
    BY <1>4 DEF Calculate, IsFloat, Undef
  <2> QED
    BY <1>2, <1>4, <2>1 DEF NumberIn
<1> QED
  BY <1>3, <1>4 DEF IsInt

LEMMA IntResults ==
  ASSUME NEW a \in GoInt, NEW b \in GoInt
  PROVE  /\ IntArithmetic("+", a, b) = IntOf(Sum(a, b))
         /\ IntArithmetic("-", a, b) = IntOf(Wrapped(a - b))
         /\ IntArithmetic("*", a, b) = IntOf(Wrapped(a * b))
         /\ b # 0 => /\ IntArithmetic("/", a, b) = IntOf(Quotient(a, b))
                     /\ IntArithmetic("%", a, b) = IntOf(Remainder(a, b))
         /\ b = 0 => IntArithmetic("/", a, b) = Crash /\ IntArithmetic("%", a, b) = Crash
         /\ IntArithmetic("<<", a, b) = IntOf(ShiftLeft(a, b))
         /\ IntArithmetic(">>", a, b) = IntOf(ShiftRight(a, b))
<1>1. IntArithmetic("+", a, b) = IntOf(Sum(a, b))
  BY DEF IntArithmetic
<1>2. IntArithmetic("-", a, b) = IntOf(Wrapped(a - b))
  BY DEF IntArithmetic
<1>3. IntArithmetic("*", a, b) = IntOf(Wrapped(a * b))
  BY DEF IntArithmetic
<1>4. b # 0 => IntArithmetic("/", a, b) = IntOf(Quotient(a, b))
  BY DEF IntArithmetic
<1>5. b # 0 => IntArithmetic("%", a, b) = IntOf(Remainder(a, b))
  BY DEF IntArithmetic
<1>6. b = 0 => IntArithmetic("/", a, b) = Crash /\ IntArithmetic("%", a, b) = Crash
  BY DEF IntArithmetic
<1>7. IntArithmetic("<<", a, b) = IntOf(ShiftLeft(a, b))
  BY DEF IntArithmetic
<1>8. IntArithmetic(">>", a, b) = IntOf(ShiftRight(a, b))
  BY DEF IntArithmetic
<1> QED
  BY <1>1, <1>2, <1>3, <1>4, <1>5, <1>6, <1>7, <1>8

LEMMA IntsCalculated ==
  ASSUME NEW i \in GoInt, NEW j \in GoInt, NEW op \in ArithmeticOperators
  PROVE  Calculate(op, IntOf(i), IntOf(j)) = IntArithmetic(op, i, j)
BY IntIsInt, CalculatesInts

LEMMA NoCrash == \A i : IntOf(i) # Crash
BY DEF IntOf, Crash

\* The laws, one operator at a time.
LEMMA LawsOfInts ==
  ASSUME NEW left, NEW right, IsInt(left), IsInt(right), NEW op \in ArithmeticOperators
  PROVE  IntegerLaw(op, left, right, Calculate(op, left, right))
<1> DEFINE a == NumberIn(left).int
           b == NumberIn(right).int
           value == Calculate(op, left, right)
<1>0. /\ {"+", "-", "*", "/", "%", "<<", ">>"} = ArithmeticOperators
      /\ a \in GoInt /\ b \in GoInt /\ NumberIn(right).is = "int" /\ NumberIn(left).is = "int"
  BY DEF ArithmeticOperators, IsInt, NumberIn
<1>1. value = IntArithmetic(op, a, b)
  BY CalculatesInts
<1>2. ASSUME NEW i \in GoInt
      PROVE  /\ Calculate("-", IntOf(i), right) = IntOf(Wrapped(i - b))
             /\ Calculate("+", IntOf(i), right) = IntOf(Sum(i, b))
             /\ Calculate("*", IntOf(i), right) = IntOf(Wrapped(i * b))
  <2>1. \A o \in ArithmeticOperators : Calculate(o, IntOf(i), right) = IntArithmetic(o, i, b)
    BY IntIsInt, CalculatesInts
  <2> HIDE DEF b
  <2> QED
    BY <1>0, <2>1, IntResults
<1>3. Calculate("*", right, left) = IntOf(Wrapped(b * a))
  <2>1. Calculate("*", right, left) = IntArithmetic("*", b, a)
    BY <1>0, CalculatesInts
  <2> HIDE DEF a, b
  <2> QED
    BY <1>0, <2>1, IntResults
<1>4. ASSUME NEW j \in GoInt PROVE Calculate("*", left, IntOf(j)) = IntOf(Wrapped(a * j))
  <2>1. Calculate("*", left, IntOf(j)) = IntArithmetic("*", a, j)
    BY <1>0, IntIsInt, CalculatesInts
  <2> HIDE DEF a
  <2> QED
    BY <1>0, <2>1, IntResults
<1>5. b # 0 => Calculate("%", left, right) = IntOf(Remainder(a, b))
  <2>1. Calculate("%", left, right) = IntArithmetic("%", a, b)
    BY <1>0, CalculatesInts
  <2> HIDE DEF a, b
  <2> QED
    BY <1>0, <2>1, IntResults
<1> SUFFICES /\ value = Crash <=> op \in {"/", "%"} /\ b = 0
             /\ op = "+" => Calculate("-", value, right) = IntOf(a)
             /\ op = "-" => Calculate("+", value, right) = IntOf(a)
             /\ op = "*" => Calculate("*", right, left) = value
             /\ op = "/" /\ b # 0 =>
                  Calculate("+", Calculate("*", value, right), Calculate("%", left, right)) = IntOf(a)
             /\ op = "%" /\ b # 0 =>
                  /\ Magnitude(value.int) < Magnitude(b)
                  /\ value.int # 0 => (value.int < 0 <=> a < 0)
             /\ op = "<<" /\ b \in 0 .. Width - 1 =>
                  value = Calculate("*", left, IntOf(Wrapped(TwoTo[b])))
             /\ op = ">>" /\ b \in 0 .. Width - 1 =>
                  value.int * TwoTo[b] <= a /\ a < (value.int + 1) * TwoTo[b]
             /\ op = "<<" /\ b \notin 0 .. Width - 1 => value.int = 0
             /\ op = ">>" /\ b \notin 0 .. Width - 1 => value.int = IF a < 0 THEN -1 ELSE 0
  BY DEF IntegerLaw
<1> HIDE DEF a, b, value
<1>6. \A i : IntOf(i).int = i
  BY DEF IntOf
<1>7. CASE op = "+"
  <2>1. value = IntOf(Sum(a, b)) /\ Sum(a, b) \in GoInt
    BY <1>0, <1>1, <1>7, IntResults, SumWraps
  <2>2. Calculate("-", value, right) = IntOf(a)
    BY <1>0, <1>2, <2>1, MinusUndoesSum
  <2> QED
    BY <1>7, <2>1, <2>2, NoCrash
<1>8. CASE op = "-"
  <2>1. value = IntOf(Wrapped(a - b)) /\ Wrapped(a - b) \in GoInt
    <3>1. a - b \in Int
      BY <1>0, IntsAre
    <3> QED
      BY <1>0, <1>1, <1>8, <3>1, IntResults, WrappedIsSame
  <2>2. Calculate("+", value, right) = IntOf(a)
    BY <1>0, <1>2, <2>1, SumUndoesMinus
  <2> QED
    BY <1>8, <2>1, <2>2, NoCrash
<1>9. CASE op = "*"
  <2>1. value = IntOf(Wrapped(a * b))
    BY <1>0, <1>1, <1>9, IntResults
  <2>2. a * b = b * a
    BY <1>0, IntsAre
  <2> QED
    BY <1>3, <1>9, <2>1, <2>2, NoCrash
<1>10. CASE op = "/"
  <2>1. CASE b = 0
    <3>1. value = Crash
      BY <1>0, <1>1, <1>10, <2>1, IntResults
    <3> QED
      BY <1>10, <2>1, <3>1
  <2>2. CASE b # 0
    <3>1. value = IntOf(Quotient(a, b))
      BY <1>0, <1>1, <1>10, <2>2, IntResults
    <3>2. PICK q \in Int, r \in GoInt : Quotient(a, b) = Wrapped(q) /\ Remainder(a, b) = r
      BY <1>0, <2>2, Magnitudes
    <3>3. Quotient(a, b) \in GoInt
      BY <3>2, WrappedIsSame
    <3>4. Calculate("*", value, right) = IntOf(Wrapped(Quotient(a, b) * b))
      BY <1>2, <3>1, <3>3
    <3>5. PICK p \in GoInt : p = Wrapped(Quotient(a, b) * b)
      <4>1. PICK k \in Int : k = Quotient(a, b)
        BY <3>3, IntsAre
      <4>2. k * b \in Int
        BY <1>0, IntsAre
      <4> QED
        BY <4>1, <4>2, WrappedIsSame
    <3>6. Calculate("+", IntOf(p), IntOf(r)) = IntOf(Sum(p, r))
      BY <1>0, IntsCalculated, IntResults
    <3>7. Sum(p, r) = a
      BY <1>0, <2>2, <3>2, <3>5, DividendBack
    <3> QED
      BY <1>5, <1>10, <2>2, <3>1, <3>2, <3>4, <3>5, <3>6, <3>7, NoCrash
  <2> QED
    BY <2>1, <2>2
<1>11. CASE op = "%"
  <2>1. CASE b = 0
    <3>1. value = Crash
      BY <1>0, <1>1, <1>11, <2>1, IntResults
    <3> QED
      BY <1>11, <2>1, <3>1
  <2>2. CASE b # 0
    <3>1. value = IntOf(Remainder(a, b)) /\ value.int = Remainder(a, b)
      BY <1>0, <1>1, <1>6, <1>11, <2>2, IntResults
    <3>2. PICK r \in Int : /\ Remainder(a, b) = r /\ Magnitude(r) < Magnitude(b)
                           /\ r # 0 => (r < 0 <=> a < 0)
      BY <1>0, <2>2, Magnitudes
    <3> QED
      BY <1>11, <2>2, <3>1, <3>2, NoCrash
  <2> QED
    BY <2>1, <2>2
<1>12. CASE op = "<<"
  <2>1. value = IntOf(ShiftLeft(a, b)) /\ value.int = ShiftLeft(a, b)
    BY <1>0, <1>1, <1>6, <1>12, IntResults
  <2>2. ASSUME b \in 0 .. Width - 1 PROVE value = Calculate("*", left, IntOf(Wrapped(TwoTo[b])))
    <3>1. TwoTo[b] \in Int
      BY <2>2, TwoToBounds, IntsAre
    <3>2. Wrapped(TwoTo[b]) \in GoInt
      BY <3>1, WrappedIsSame
    <3>3. Calculate("*", left, IntOf(Wrapped(TwoTo[b]))) = IntOf(Wrapped(a * Wrapped(TwoTo[b])))
      BY <1>4, <3>2
    <3>4. ShiftLeft(a, b) = Wrapped(a * Wrapped(TwoTo[b]))
      BY <1>0, <2>2, Shifts
    <3> QED
      BY <2>1, <3>3, <3>4
  <2>3. b \notin 0 .. Width - 1 => value.int = 0
    BY <1>0, <2>1, Shifts
  <2> QED
    BY <1>12, <2>1, <2>2, <2>3, NoCrash
<1>13. CASE op = ">>"
  <2>1. value = IntOf(ShiftRight(a, b)) /\ value.int = ShiftRight(a, b)
    BY <1>0, <1>1, <1>6, <1>13, IntResults
  <2>2. b \in 0 .. Width - 1 => value.int * TwoTo[b] <= a /\ a < (value.int + 1) * TwoTo[b]
    BY <1>0, <2>1, Shifts
  <2>3. b \notin 0 .. Width - 1 => value.int = IF a < 0 THEN -1 ELSE 0
    BY <1>0, <2>1, Shifts
  <2> QED
    BY <1>13, <2>1, <2>2, <2>3, NoCrash
<1> QED
  BY <1>0, <1>7, <1>8, <1>9, <1>10, <1>11, <1>12, <1>13

\* What a calculation gives.
Calculated ==
  calc.op \in ArithmeticOperators =>
    /\ calc.left \in Operands /\ calc.right \in Operands
    /\ calc.value = Calculate(calc.op, calc.left, calc.right)

LEMMA CalculatedInvariant == ExpressionsSpec => []Calculated
<1>1. AppliedToOperands => Calculated
  BY DEF AppliedToOperands, Calculated, None, ArithmeticOperators, ComparisonOperators
<1> QED
  BY <1>1, AppliedInvariant, PTL

\* The operators of ints obey their laws at every width: also where they wrap
\* around, at the smallest int, and for shifts by any count.
THEOREM IntegersObeyLaws == ExpressionsSpec => []IntegerLaws
<1>1. Calculated => IntegerLaws
  <2> SUFFICES ASSUME Calculated, calc.op \in ArithmeticOperators,
                      NumberIn(calc.left).is = "int", NumberIn(calc.right).is = "int"
               PROVE  IntegerLaw(calc.op, calc.left, calc.right, calc.value)
    BY DEF IntegerLaws
  <2>1. IsInt(calc.left) /\ IsInt(calc.right)
    BY OperandsAssumption, IntOperand DEF Calculated
  <2>2. IntegerLaw(calc.op, calc.left, calc.right, Calculate(calc.op, calc.left, calc.right))
    BY <2>1, LawsOfInts
  <2> QED
    BY <2>2 DEF Calculated
<1> QED
  BY <1>1, CalculatedInvariant, PTL

-----------------------------------------------------------------------------
(* Collections. *)

\* Picked goes through the list once.
Goes(f, list, places, n) ==
  /\ f[0] = <<>>
  /\ \A i \in 1 .. n : f[i] = IF i \in places THEN Append(f[i - 1], list[i]) ELSE f[i - 1]

LEMMA PickedGoes ==
  ASSUME NEW list, IsList(list), NEW places
  PROVE  LET all == Seq({list[i] : i \in 1 .. Len(list)})
         IN  \E f \in [0 .. Len(list) -> all] :
               Goes(f, list, places, Len(list)) /\ Picked(list, places) = f[Len(list)]
<1> DEFINE n == Len(list)
           S == {list[i] : i \in 1 .. n}
           all == Seq(S)
           step == [i \in 1 .. n |-> [v \in all |-> IF i \in places THEN Append(v, list[i]) ELSE v]]
           upTo == CHOOSE f : f = [i \in 0 .. n |-> IF i = 0 THEN <<>>
                                                    ELSE IF i \in places THEN Append(f[i - 1], list[i])
                                                    ELSE f[i - 1]]
<1>1. n \in Nat
  BY DEF IsList
<1>2. step \in [1 .. n -> [all -> all]]
  <2>1. ASSUME NEW i \in 1 .. n, NEW v \in all PROVE Append(v, list[i]) \in all
    <3>1. list[i] \in S
      OBVIOUS
    <3> HIDE DEF S
    <3> QED
      BY <3>1
  <2> HIDE DEF all
  <2> QED
    BY <2>1
<1>3. <<>> \in all
  OBVIOUS
<1>4. PICK f \in [0 .. n -> all] : StartsAt(f, n, <<>>, step)
  <2> HIDE DEF all, step, n
  <2> QED
    BY <1>1, <1>2, <1>3, RecursionOver
<1>5. Goes(f, list, places, n)
  <2>1. f[0] = <<>>
    BY <1>4 DEF StartsAt
  <2>2. ASSUME NEW i \in 1 .. n PROVE f[i] = IF i \in places THEN Append(f[i - 1], list[i]) ELSE f[i - 1]
    <3>1. i - 1 \in 0 .. n
      BY <1>1
    <3>2. f[i - 1] \in all
      <4> HIDE DEF all, n
      <4> QED
        BY <3>1
    <3>3. f[i] = step[i][f[i - 1]]
      BY <1>4 DEF StartsAt
    <3>4. step[i][f[i - 1]] = IF i \in places THEN Append(f[i - 1], list[i]) ELSE f[i - 1]
      <4> HIDE DEF all, n
      <4> QED
        BY <3>2
    <3> QED
      BY <3>3, <3>4
  <2> QED
    BY <2>1, <2>2 DEF Goes
<1> HIDE DEF all, step
<1>6. f = [i \in 0 .. n |-> IF i = 0 THEN <<>>
                            ELSE IF i \in places THEN Append(f[i - 1], list[i]) ELSE f[i - 1]]
  <2>1. \A i \in 0 .. n : f[i] = IF i = 0 THEN <<>>
                                 ELSE IF i \in places THEN Append(f[i - 1], list[i]) ELSE f[i - 1]
    <3>1. \A i \in 0 .. n : i # 0 => i \in 1 .. n
      BY <1>1
    <3> QED
      BY <1>5, <3>1 DEF Goes
  <2>2. f = [i \in 0 .. n |-> f[i]]
    OBVIOUS
  <2> QED
    BY <2>1, <2>2
<1>7. upTo = [i \in 0 .. n |-> IF i = 0 THEN <<>>
                               ELSE IF i \in places THEN Append(upTo[i - 1], list[i]) ELSE upTo[i - 1]]
  BY <1>6
<1>8. Picked(list, places) = upTo[n]
  BY DEF Picked
<1> HIDE DEF upTo
<1>9. ASSUME NEW i \in 0 .. n
      PROVE  upTo[i] = IF i = 0 THEN <<>>
                       ELSE IF i \in places THEN Append(upTo[i - 1], list[i]) ELSE upTo[i - 1]
  BY <1>7
<1>10. \A i \in 0 .. n : upTo[i] = f[i]
  <2> DEFINE T == {i \in 0 .. n : upTo[i] = f[i]}
  <2>1. 0 \in T
    <3>1. 0 \in 0 .. n
      BY <1>1
    <3>2. upTo[0] = <<>>
      BY <1>9, <3>1
    <3>3. f[0] = <<>>
      BY <1>5 DEF Goes
    <3> QED
      BY <3>1, <3>2, <3>3
  <2>2. ASSUME NEW i \in 1 .. n, i - 1 \in T PROVE i \in T
    <3>1. i \in 0 .. n /\ i # 0 /\ upTo[i - 1] = f[i - 1]
      BY <1>1, <2>2
    <3>2. upTo[i] = IF i \in places THEN Append(upTo[i - 1], list[i]) ELSE upTo[i - 1]
      BY <1>9, <3>1
    <3>3. f[i] = IF i \in places THEN Append(f[i - 1], list[i]) ELSE f[i - 1]
      BY <1>5 DEF Goes
    <3> QED
      BY <3>1, <3>2, <3>3
  <2>3. T = 0 .. n
    <3>1. T \in SUBSET (0 .. n)
      OBVIOUS
    <3> HIDE DEF T, n
    <3> QED
      BY <1>1, <2>1, <2>2, <3>1, AllUpTo
  <2> QED
    BY <2>3
<1>11. n \in 0 .. n
  BY <1>1
<1>12. Goes(f, list, places, n) /\ Picked(list, places) = f[n]
  BY <1>5, <1>8, <1>10, <1>11
<1> QED
  BY <1>12 DEF all

LEMMA ListIsSeq ==
  ASSUME NEW list, IsList(list)
  PROVE  list \in Seq({list[i] : i \in 1 .. Len(list)}) /\ DOMAIN list = 1 .. Len(list) /\ Len(list) \in Nat
<1> DEFINE S == {list[i] : i \in 1 .. Len(list)}
<1>1. list = [i \in 1 .. Len(list) |-> list[i]] /\ Len(list) \in Nat
  BY DEF IsList
<1>2. PICK n \in Nat : n = Len(list)
  BY <1>1
<1>3. [i \in 1 .. n |-> list[i]] \in Seq(S)
  <2>1. \A i \in 1 .. n : list[i] \in S
    BY <1>2
  <2> HIDE DEF S
  <2> QED
    BY <2>1
<1> QED
  BY <1>1, <1>2, <1>3

LEMMA SeqIsList ==
  ASSUME NEW S, NEW list \in Seq(S)
  PROVE  IsList(list) /\ \A i \in 1 .. Len(list) : list[i] \in S
BY DEF IsList

LEMMA ListsJoined ==
  ASSUME NEW a, IsList(a), NEW b, IsList(b)
  PROVE  /\ IsList(a \o b) /\ Len(a \o b) = Len(a) + Len(b)
         /\ \A i \in 1 .. Len(a) : (a \o b)[i] = a[i]
         /\ \A i \in 1 .. Len(a) + Len(b) :
              i \notin 1 .. Len(a) => i - Len(a) \in 1 .. Len(b) /\ (a \o b)[i] = b[i - Len(a)]
<1> DEFINE S == {a[i] : i \in 1 .. Len(a)} \cup {b[i] : i \in 1 .. Len(b)}
<1>1. Len(a) \in Nat /\ Len(b) \in Nat
  BY DEF IsList
<1>2. a \in Seq(S)
  <2>1. a = [i \in 1 .. Len(a) |-> a[i]]
    BY DEF IsList
  <2>2. \A i \in 1 .. Len(a) : a[i] \in S
    OBVIOUS
  <2>3. PICK n \in Nat : n = Len(a)
    BY <1>1
  <2>4. [i \in 1 .. n |-> a[i]] \in Seq(S)
    <3> HIDE DEF S
    <3> QED
      BY <2>2, <2>3
  <2> QED
    BY <2>1, <2>3, <2>4
<1>3. b \in Seq(S)
  <2>1. b = [i \in 1 .. Len(b) |-> b[i]]
    BY DEF IsList
  <2>2. \A i \in 1 .. Len(b) : b[i] \in S
    OBVIOUS
  <2>3. PICK n \in Nat : n = Len(b)
    BY <1>1
  <2>4. [i \in 1 .. n |-> b[i]] \in Seq(S)
    <3> HIDE DEF S
    <3> QED
      BY <2>2, <2>3
  <2> QED
    BY <2>1, <2>3, <2>4
<1> HIDE DEF S
<1>4. a \o b \in Seq(S) /\ Len(a \o b) = Len(a) + Len(b)
  BY <1>2, <1>3
<1>5. IsList(a \o b)
  BY <1>4, SeqIsList
<1>6. \A i \in 1 .. Len(a) : (a \o b)[i] = a[i]
  BY <1>2, <1>3
<1>7. \A i \in 1 .. Len(a) + Len(b) :
        i \notin 1 .. Len(a) => i - Len(a) \in 1 .. Len(b) /\ (a \o b)[i] = b[i - Len(a)]
  BY <1>1, <1>2, <1>3
<1> QED
  BY <1>4, <1>5, <1>6, <1>7

\* What is picked of a list are members of it.
LEMMA PickedIsList ==
  ASSUME NEW list, IsList(list), NEW places
  PROVE  /\ IsList(Picked(list, places))
         /\ \A i \in 1 .. Len(Picked(list, places)) :
              \E j \in 1 .. Len(list) : Picked(list, places)[i] = list[j]
<1> DEFINE S == {list[i] : i \in 1 .. Len(list)}
<1>1. Picked(list, places) \in Seq(S)
  <2>1. PICK f \in [0 .. Len(list) -> Seq(S)] : Picked(list, places) = f[Len(list)]
    BY PickedGoes
  <2>2. Len(list) \in 0 .. Len(list)
    BY DEF IsList
  <2> HIDE DEF S
  <2> QED
    BY <2>1, <2>2
<1>2. \A x \in S : \E j \in 1 .. Len(list) : x = list[j]
  OBVIOUS
<1> HIDE DEF S
<1> QED
  BY <1>1, <1>2, SeqIsList

\* The same is picked of a list and of a longer one that is like it at the places.
LEMMA PickedAlike ==
  ASSUME NEW a, IsList(a), NEW x, IsList(x), Len(a) <= Len(x),
         NEW places \in SUBSET (1 .. Len(a)), \A i \in places : x[i] = a[i]
  PROVE  Picked(x, places) = Picked(a, places)
<1> DEFINE m == Len(a)
           n == Len(x)
<1>1. m \in Nat /\ n \in Nat /\ m <= n
  BY DEF IsList
<1>2. PICK f : Goes(f, a, places, m) /\ Picked(a, places) = f[m]
  BY PickedGoes
<1>3. PICK g : Goes(g, x, places, n) /\ Picked(x, places) = g[n]
  BY PickedGoes
<1>4. places \in SUBSET (1 .. m)
  OBVIOUS
<1> HIDE DEF m, n
<1> DEFINE T == {i \in 0 .. n : g[i] = IF i <= m THEN f[i] ELSE f[m]}
<1>5. 0 \in T
  BY <1>1, <1>2, <1>3 DEF Goes
<1>6. ASSUME NEW i \in 1 .. n, i - 1 \in T PROVE i \in T
  <2>1. /\ g[i - 1] = IF i - 1 <= m THEN f[i - 1] ELSE f[m]
        /\ g[i] = IF i \in places THEN Append(g[i - 1], x[i]) ELSE g[i - 1]
    BY <1>3, <1>6 DEF Goes
  <2>2. CASE i <= m
    <3>1. f[i] = IF i \in places THEN Append(f[i - 1], a[i]) ELSE f[i - 1]
      BY <1>1, <1>2, <2>2 DEF Goes
    <3>2. i - 1 <= m
      BY <1>1, <2>2
    <3>3. i \in places => x[i] = a[i]
      OBVIOUS
    <3>4. g[i] = f[i]
      BY <2>1, <3>1, <3>2, <3>3
    <3> QED
      BY <1>1, <2>2, <3>4
  <2>3. CASE ~(i <= m)
    <3>1. i \notin places /\ (i - 1 <= m => i - 1 = m)
      BY <1>1, <1>4, <2>3
    <3>2. g[i] = f[m]
      BY <2>1, <3>1
    <3> QED
      BY <1>1, <2>3, <3>2
  <2> QED
    BY <2>2, <2>3
<1>7. n \in T
  <2>1. T \in SUBSET (0 .. n)
    OBVIOUS
  <2>2. n \in 0 .. n
    BY <1>1
  <2> HIDE DEF T
  <2>3. T = 0 .. n
    BY <1>1, <1>5, <1>6, <2>1, AllUpTo
  <2> QED
    BY <2>2, <2>3
<1>8. g[n] = f[m]
  BY <1>1, <1>7
<1> QED
  BY <1>2, <1>3, <1>8

\* What + takes its right operand for, on an array.
Added(b) == IF IsCollection(b) THEN AsList(b) ELSE <<b>>

LEMMA AddedIsList ==
  ASSUME NEW b, IsValue(b)
  PROVE  IsList(Added(b))
<1>1. CASE b.is = "array"
  BY <1>1 DEF Added, AsList, IsCollection, IsValue
<1>2. CASE b.is = "hash"
  <2>1. IsList(b.entries)
    BY <1>2 DEF IsValue
  <2>2. PICK n \in Nat : n = Len(b.entries) /\ DOMAIN b.entries = 1 .. n
    BY <2>1, ListIsSeq
  <2>3. Added(b) = [i \in 1 .. n |-> Pair(b.entries[i])]
    BY <1>2, <2>2 DEF Added, AsList, IsCollection
  <2> QED
    BY <2>2, <2>3 DEF IsList
<1>3. CASE b.is \notin {"array", "hash"}
  <2>1. Added(b) = <<b>>
    BY <1>3 DEF Added, IsCollection
  <2> QED
    BY <2>1 DEF IsList
<1> QED
  BY <1>1, <1>2, <1>3

\* Without the members of b it does not matter whether b has been added.
LEMMA AddedIsGone ==
  ASSUME NEW a, IsList(a), NEW b, IsList(b)
  PROVE  WithoutElements(a \o b, b) = WithoutElements(a, b)
<1> DEFINE x == a \o b
           places == {i \in DOMAIN a : ~InList(b, a[i])}
<1>1. /\ IsList(x) /\ Len(x) = Len(a) + Len(b)
      /\ \A i \in 1 .. Len(a) : x[i] = a[i]
      /\ \A i \in 1 .. Len(a) + Len(b) :
           i \notin 1 .. Len(a) => i - Len(a) \in 1 .. Len(b) /\ x[i] = b[i - Len(a)]
  BY ListsJoined
<1>2. /\ DOMAIN a = 1 .. Len(a) /\ Len(a) \in Nat /\ DOMAIN b = 1 .. Len(b) /\ Len(b) \in Nat
      /\ DOMAIN x = 1 .. Len(x)
  BY <1>1, ListIsSeq
<1> HIDE DEF x
<1>3. {i \in DOMAIN x : ~InList(b, x[i])} = places
  <2>1. ASSUME NEW i \in DOMAIN x, ~InList(b, x[i]) PROVE i \in places
    <3>1. i \in 1 .. Len(a)
      <4>1. CASE i \notin 1 .. Len(a)
        <5>1. i - Len(a) \in DOMAIN b /\ x[i] = b[i - Len(a)]
          BY <1>1, <1>2, <4>1
        <5> QED
          BY <2>1, <5>1 DEF InList
      <4> QED
        BY <4>1
    <3> QED
      BY <1>1, <1>2, <2>1, <3>1
  <2>2. ASSUME NEW i \in places PROVE i \in DOMAIN x /\ ~InList(b, x[i])
    <3>1. i \in 1 .. Len(a) /\ i \in 1 .. Len(x) /\ x[i] = a[i]
      BY <1>1, <1>2
    <3> QED
      BY <1>2, <3>1
  <2> QED
    BY <2>1, <2>2
<1>4. Picked(x, places) = Picked(a, places)
  <2>1. places \in SUBSET (1 .. Len(a)) /\ Len(a) <= Len(x) /\ \A i \in places : x[i] = a[i]
    BY <1>1, <1>2
  <2> HIDE DEF places
  <2> QED
    BY <1>1, <2>1, PickedAlike
<1> QED
  BY <1>3, <1>4 DEF WithoutElements, x

LEMMA ArrayMinus ==
  ASSUME NEW list, NEW b
  PROVE  Calculate("-", ArrayOf(list), b) = ArrayOf(WithoutElements(list, Added(b)))
<1>1. ArrayOf(list).is = "array" /\ ArrayOf(list).elements = list
  BY DEF ArrayOf
<1>2. Calculate("-", ArrayOf(list), b) = CollectionDelete(ArrayOf(list), b)
  BY <1>1 DEF Calculate, IsFloat
<1> QED
  BY <1>1, <1>2 DEF CollectionDelete, Added

LEMMA ArrayOperand ==
  ASSUME NEW a, a.is = "array", NEW b
  PROVE  /\ Calculate("-", a, b) = ArrayOf(WithoutElements(a.elements, Added(b)))
         /\ Calculate("+", a, b) = ArrayOf(a.elements \o Added(b))
         /\ Calculate("<<", a, b) = ArrayOf(Append(a.elements, b))
<1>1. Calculate("-", a, b) = CollectionDelete(a, b)
  BY DEF Calculate, IsFloat
<1>2. Calculate("+", a, b) = Concatenate(a, b)
  BY DEF Calculate, IsFloat
<1>3. Calculate("<<", a, b) = ArrayOf(Append(a.elements, b))
  BY DEF Calculate, IsFloat
<1>4. CollectionDelete(a, b) = ArrayOf(WithoutElements(a.elements, Added(b)))
  BY DEF CollectionDelete, Added
<1>5. Concatenate(a, b) = ArrayOf(a.elements \o Added(b))
  BY DEF Concatenate, Added
<1> QED
  BY <1>1, <1>2, <1>3, <1>4, <1>5

LEMMA AppendJoins ==
  ASSUME NEW list, IsList(list), NEW b
  PROVE  Append(list, b) = list \o <<b>>
<1> DEFINE S == {list[i] : i \in 1 .. Len(list)} \cup {b}
<1>1. PICK n \in Nat : n = Len(list)
  BY DEF IsList
<1>2. [i \in 1 .. n |-> list[i]] \in Seq(S)
  <2>1. \A i \in 1 .. n : list[i] \in S
    BY <1>1
  <2> HIDE DEF S
  <2> QED
    BY <2>1
<1>3. b \in S
  OBVIOUS
<1>4. list \in Seq(S)
  BY <1>1, <1>2 DEF IsList
<1> HIDE DEF S
<1> QED
  BY <1>3, <1>4

\* An array is what it was when what has been added is subtracted.
LEMMA ArrayBack ==
  ASSUME NEW a, IsValue(a), a.is = "array", NEW b, IsValue(b)
  PROVE  /\ Calculate("-", Calculate("+", a, b), b) = Calculate("-", a, b)
         /\ Calculate("-", Calculate("<<", a, b), ArrayOf(<<b>>)) = Calculate("-", a, ArrayOf(<<b>>))
<1>1. IsList(a.elements) /\ IsList(Added(b))
  BY AddedIsList DEF IsValue
<1>2. Calculate("-", Calculate("+", a, b), b) = Calculate("-", a, b)
  BY <1>1, AddedIsGone, ArrayMinus, ArrayOperand
<1>3. Added(ArrayOf(<<b>>)) = <<b>> /\ IsList(<<b>>)
  BY DEF Added, IsCollection, AsList, ArrayOf, IsList
<1>4. Append(a.elements, b) = a.elements \o <<b>>
  BY <1>1, AppendJoins
<1>5. Calculate("-", Calculate("<<", a, b), ArrayOf(<<b>>)) = Calculate("-", a, ArrayOf(<<b>>))
  <2>1. WithoutElements(a.elements \o <<b>>, <<b>>) = WithoutElements(a.elements, <<b>>)
    BY <1>1, <1>3, AddedIsGone
  <2> DEFINE gone == ArrayOf(<<b>>)
             c == Calculate("<<", a, b)
  <2>2. Added(gone) = <<b>>
    BY <1>3
  <2> HIDE DEF gone
  <2>3. Calculate("-", a, gone) = ArrayOf(WithoutElements(a.elements, <<b>>))
    <3>1. Calculate("-", a, gone) = ArrayOf(WithoutElements(a.elements, Added(gone)))
      BY ArrayOperand
    <3> QED
      BY <2>2, <3>1
  <2>4. c = ArrayOf(a.elements \o <<b>>)
    BY <1>4, ArrayOperand
  <2> HIDE DEF c
  <2>5. Calculate("-", c, gone) = ArrayOf(WithoutElements(a.elements \o <<b>>, <<b>>))
    <3>1. Calculate("-", ArrayOf(a.elements \o <<b>>), gone)
            = ArrayOf(WithoutElements(a.elements \o <<b>>, Added(gone)))
      BY ArrayMinus
    <3> QED
      BY <2>2, <2>4, <3>1
  <2> QED
    BY <2>1, <2>3, <2>5 DEF gone, c
<1> QED
  BY <1>2, <1>5

\* The entry that Merge keeps of the two hashes.
Kept(g, entry) ==
  IF InList(Keys(g), entry.key)
  THEN CHOOSE e \in {g.entries[i] : i \in DOMAIN g.entries} : e.key = entry.key
  ELSE entry

LEMMA KeyOfKept ==
  ASSUME NEW g, NEW entry
  PROVE  /\ InList(Keys(g), Kept(g, entry).key) <=> InList(Keys(g), entry.key)
         /\ ~InList(Keys(g), entry.key) => Kept(g, entry) = entry
<1>1. CASE InList(Keys(g), entry.key)
  <2> DEFINE S == {g.entries[i] : i \in DOMAIN g.entries}
  <2>1. \E e \in S : e.key = entry.key
    BY <1>1 DEF InList, Keys
  <2>2. Kept(g, entry) = CHOOSE e \in S : e.key = entry.key
    BY <1>1 DEF Kept
  <2> HIDE DEF S
  <2>3. Kept(g, entry).key = entry.key
    BY <2>1, <2>2
  <2> QED
    BY <1>1, <2>3
<1>2. CASE ~InList(Keys(g), entry.key)
  BY <1>2 DEF Kept
<1> QED
  BY <1>1, <1>2

\* What a hash has that is in the list of its entries is in the list of its keys.
LEMMA EntryHasKey ==
  ASSUME NEW g, NEW i \in DOMAIN g.entries
  PROVE  InList(Keys(g), g.entries[i].key)
BY DEF InList, Keys

\* Without the keys of b it does not matter whether b has been merged.
LEMMA MergedIsGone ==
  ASSUME NEW a, a.is = "hash", IsValue(a), NEW b, b.is = "hash", IsValue(b)
  PROVE  WithoutKeys(Merge(a, b), Keys(b)) = WithoutKeys(a, Keys(b))
<1> DEFINE s == a.entries
           E == [i \in DOMAIN s |-> Kept(b, s[i])]
           G == Picked(b.entries, {i \in DOMAIN b.entries : ~InList(Keys(a), b.entries[i].key)})
           x == E \o G
           places == {i \in DOMAIN s : ~InList(Keys(b), s[i].key)}
<1>1. Merge(a, b) = HashOf(x)
  BY DEF Merge, Kept
<1>2. IsList(s) /\ IsList(b.entries)
  BY DEF IsValue
<1>3. /\ DOMAIN s = 1 .. Len(s) /\ Len(s) \in Nat
      /\ DOMAIN b.entries = 1 .. Len(b.entries) /\ Len(b.entries) \in Nat
  BY <1>2, ListIsSeq
<1>4. IsList(E) /\ Len(E) = Len(s)
  <2>1. PICK n \in Nat : n = Len(s)
    BY <1>3
  <2>2. E = [i \in 1 .. n |-> Kept(b, s[i])]
    BY <1>3, <2>1
  <2> HIDE DEF E
  <2>3. Len(E) = n
    BY <2>2
  <2> QED
    BY <2>1, <2>2, <2>3 DEF IsList
<1>5. /\ IsList(G)
      /\ \A i \in 1 .. Len(G) : InList(Keys(b), G[i].key)
  <2>1. /\ IsList(G)
        /\ \A i \in 1 .. Len(G) : \E j \in 1 .. Len(b.entries) : G[i] = b.entries[j]
    <3> DEFINE P == {i \in DOMAIN b.entries : ~InList(Keys(a), b.entries[i].key)}
               list == b.entries
    <3>1. G = Picked(list, P) /\ IsList(list)
      BY <1>2
    <3> HIDE DEF P, list, G
    <3>2. /\ IsList(G)
          /\ \A i \in 1 .. Len(G) : \E j \in 1 .. Len(list) : G[i] = list[j]
      BY <3>1, PickedIsList
    <3> QED
      BY <3>2 DEF list
  <2> HIDE DEF G
  <2> QED
    BY <1>3, <2>1, EntryHasKey
<1>6. \A i \in DOMAIN s : /\ InList(Keys(b), E[i].key) <=> InList(Keys(b), s[i].key)
                          /\ ~InList(Keys(b), s[i].key) => E[i] = s[i]
  BY KeyOfKept
<1> HIDE DEF s, E, G
<1>7. /\ IsList(x) /\ Len(x) = Len(s) + Len(G)
      /\ \A i \in 1 .. Len(s) : x[i] = E[i]
      /\ \A i \in 1 .. Len(s) + Len(G) :
           i \notin 1 .. Len(s) => i - Len(s) \in 1 .. Len(G) /\ x[i] = G[i - Len(s)]
  <2>1. /\ IsList(x) /\ Len(x) = Len(E) + Len(G)
        /\ \A i \in 1 .. Len(E) : x[i] = E[i]
        /\ \A i \in 1 .. Len(E) + Len(G) :
             i \notin 1 .. Len(E) => i - Len(E) \in 1 .. Len(G) /\ x[i] = G[i - Len(E)]
    BY <1>4, <1>5, ListsJoined
  <2> HIDE DEF x
  <2> QED
    BY <1>4, <2>1
<1>8. DOMAIN x = 1 .. Len(x) /\ Len(G) \in Nat
  BY <1>5, <1>7, ListIsSeq
<1> HIDE DEF x
<1>9. {i \in DOMAIN x : ~InList(Keys(b), x[i].key)} = places
  <2>1. ASSUME NEW i \in DOMAIN x, ~InList(Keys(b), x[i].key) PROVE i \in places
    <3>1. i \in 1 .. Len(s)
      <4>1. CASE i \notin 1 .. Len(s)
        <5>1. i - Len(s) \in 1 .. Len(G) /\ x[i] = G[i - Len(s)]
          BY <1>7, <1>8, <4>1
        <5> QED
          BY <1>5, <2>1, <5>1
      <4> QED
        BY <4>1
    <3>2. i \in DOMAIN s /\ x[i] = E[i]
      BY <1>3, <1>7, <3>1
    <3> QED
      BY <1>6, <2>1, <3>2
  <2>2. ASSUME NEW i \in places PROVE i \in DOMAIN x /\ ~InList(Keys(b), x[i].key)
    <3>1. i \in 1 .. Len(s) /\ i \in 1 .. Len(x) /\ x[i] = E[i]
      BY <1>3, <1>7, <1>8
    <3> QED
      BY <1>6, <1>8, <3>1
  <2> QED
    BY <2>1, <2>2
<1>10. Picked(x, places) = Picked(s, places)
  <2>1. /\ places \in SUBSET (1 .. Len(s)) /\ Len(s) <= Len(x)
        /\ \A i \in places : x[i] = s[i]
    BY <1>3, <1>6, <1>7, <1>8
  <2>2. IsList(s)
    BY <1>2 DEF s
  <2> HIDE DEF places
  <2> QED
    BY <1>7, <2>1, <2>2, PickedAlike
<1>11. WithoutKeys(HashOf(x), Keys(b)) = HashOf(Picked(x, places))
  BY <1>9 DEF WithoutKeys, HashOf
<1>12. WithoutKeys(a, Keys(b)) = HashOf(Picked(s, places))
  BY DEF WithoutKeys, s
<1> QED
  BY <1>1, <1>10, <1>11, <1>12

LEMMA HashBack ==
  ASSUME NEW a, a.is = "hash", IsValue(a), NEW b, b.is = "hash", IsValue(b)
  PROVE  Calculate("-", Calculate("+", a, b), b) = Calculate("-", a, b)
<1>1. Calculate("+", a, b) = Merge(a, b)
  <2>1. Calculate("+", a, b) = Concatenate(a, b)
    BY DEF Calculate, IsFloat
  <2> QED
    BY <2>1 DEF Concatenate
<1>2. ASSUME NEW h, h.is = "hash"
      PROVE Calculate("-", h, b) = WithoutKeys(h, Keys(b))
  <2>1. Calculate("-", h, b) = CollectionDelete(h, b)
    BY <1>2 DEF Calculate, IsFloat
  <2> QED
    BY <1>2, <2>1 DEF CollectionDelete
<1>3. Merge(a, b).is = "hash"
  BY DEF Merge, HashOf
<1> QED
  BY <1>1, <1>2, <1>3, MergedIsGone

\* The calculations with collections that have been carried out (arithmetic.go:
\* concatenate, collectionDelete): what is subtracted again is all that has been
\* added, from an array as from a hash, whichever collection or element it is.
THEOREM MinusTakesPlusBack == ExpressionsSpec => []MinusUndoesPlus
<1>1. Calculated => MinusUndoesPlus
  <2> SUFFICES ASSUME Calculated, calc.op \in {"+", "<<"}, IsCollection(calc.left)
               PROVE  /\ calc.op = "+" /\ (calc.left.is = "hash" => calc.right.is = "hash") =>
                           Calculate("-", calc.value, calc.right) = Calculate("-", calc.left, calc.right)
                      /\ calc.op = "<<" /\ calc.left.is = "array" =>
                           Calculate("-", calc.value, ArrayOf(<<calc.right>>)) =
                             Calculate("-", calc.left, ArrayOf(<<calc.right>>))
    BY DEF MinusUndoesPlus
  <2> DEFINE a == calc.left
             b == calc.right
             v == calc.value
  <2>1. IsValue(a) /\ IsValue(b) /\ a.is \in {"array", "hash"}
    BY OperandsAssumption DEF Calculated, ArithmeticOperators, IsCollection
  <2>2. v = Calculate(calc.op, a, b)
    BY DEF Calculated, ArithmeticOperators
  <2> HIDE DEF a, b, v
  <2>3. ASSUME calc.op = "+", a.is = "hash" => b.is = "hash"
        PROVE  Calculate("-", v, b) = Calculate("-", a, b)
    <3>1. v = Calculate("+", a, b)
      BY <2>2, <2>3
    <3>2. CASE a.is = "array"
      <4>1. Calculate("-", Calculate("+", a, b), b) = Calculate("-", a, b)
        BY <2>1, <3>2, ArrayBack
      <4> QED
        BY <3>1, <4>1
    <3>3. CASE a.is = "hash"
      <4>1. Calculate("-", Calculate("+", a, b), b) = Calculate("-", a, b)
        BY <2>1, <2>3, <3>3, HashBack
      <4> QED
        BY <3>1, <4>1
    <3> QED
      BY <2>1, <3>2, <3>3
  <2>4. ASSUME calc.op = "<<", a.is = "array"
        PROVE  Calculate("-", v, ArrayOf(<<b>>)) = Calculate("-", a, ArrayOf(<<b>>))
    BY <2>1, <2>2, <2>4, ArrayBack
  <2> QED
    BY <2>3, <2>4 DEF a, b, v
<1> QED
  BY <1>1, CalculatedInvariant, PTL
=============================================================================
