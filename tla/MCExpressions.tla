--------------------------- MODULE MCExpressions ---------------------------
(* Expressions for TLC: ints of five bits, floats with three significant ones. *)
EXTENDS Expressions, TLC

\* The nearest number with three significant bits, ties to the even one.
NearestFloat(i) ==
  LET size == Magnitude(i)
      unit == CHOOSE u \in {1, 2, 4} : size < 8 * u /\ (u = 1 \/ size >= 4 * u)
      down == (size \div unit) * unit
      up == down + unit
      nearest == CASE size - down < up - size -> down
                   [] size - down > up - size -> up
                   [] OTHER -> IF (down \div unit) % 2 = 0 THEN down ELSE up
  IN  IF i < 0 THEN -nearest ELSE nearest

MCRounded == [i \in GoInt |-> NearestFloat(i)]

Text(letter, number) == [is |-> "string", letter |-> letter, number |-> number]
Entry(key, value) == [key |-> IntOf(key), value |-> IntOf(value)]

Numerals == {IntOf(i) : i \in GoInt} \cup {FloatOf(f) : f \in {-16, -3, 0, 2, 14}} \cup {Infinity, NaN}
Texts == {Text(l, Undef) : l \in 1 .. 4} \cup
         {Text(1, IntOf(i)) : i \in {-16, -1, 0, 3, 15}} \cup {Text(1, FloatOf(2))}
Arrays == {ArrayOf(<<>>), ArrayOf(<<IntOf(1)>>), ArrayOf(<<IntOf(2), IntOf(1)>>),
           ArrayOf(<<Pair(Entry(1, 2))>>), ArrayOf(<<Pair(Entry(2, 1)), Pair(Entry(1, 1))>>)}
Hashes == {HashOf(<<>>), HashOf(<<Entry(1, 2)>>), HashOf(<<Entry(2, 2), Entry(1, 1)>>)}
\* Two types without relation, one above all, and an alias of the first.
Types == {[is |-> "type", type |-> t] : t \in {"Integer", "String", "Any", "Alias"}}
MCAssignables ==
  {<<t, t>> : t \in {"Integer", "String", "Any", "Alias"}}
  \cup {<<"Any", t>> : t \in {"Integer", "String", "Alias"}}
  \cup {<<"Integer", "Alias">>, <<"Alias", "Integer">>}
Versions == {[is |-> "version", version |-> v] : v \in 1 .. 2}

MCOperands == Numerals \cup Texts \cup Arrays \cup Hashes \cup Types \cup Versions \cup {Uri, Undef}
=============================================================================
