---------------------------- MODULE MCStatements ----------------------------
(* Statements for TLC: some of each kind. *)
EXTENDS AssignmentMeaning, TLC

CONSTANTS current, outer, outermost, x, y, m1

ThreeScopes == {current, outer, outermost}
TwoNames == {x, y}
OneMatch == {m1}
One == [is |-> "atom", name |-> "one"]
UndefAtom == [is |-> "atom", name |-> "undef"]
TwoAtoms == {One, UndefAtom}

\* A parent for each scope of the domain of `up`, a second frame for those in
\* `deep`, and a value for each name in a frame of a scope in `cells`.
Origin(up, deep, cells) ==
  LET exists == {current} \cup DOMAIN up \cup Range(up)
  IN  [parent |-> [s \in ThreeScopes |-> IF s \in DOMAIN up THEN up[s] ELSE None],
       depth |-> [s \in ThreeScopes |-> IF s \notin exists THEN 0
                                       ELSE IF s \in deep THEN 2 ELSE 1],
       maps |-> [m \in MapIds |-> [k \in Keys |-> IF <<m, k>> \in cells THEN One ELSE Absent]]]

\* A new context, one that is forked from a context with globals, and one that is
\* forked inside of a local scope with $x, in a fork of a context with $::y.
SomeOrigins ==
  {Origin(<<>>, {}, {}),
   Origin(current :> outer, {}, {<<<<outer, 1>>, x>>, <<<<outer, 1>>, y>>}),
   Origin(current :> outer @@ outer :> outermost, {outer},
          {<<<<outer, 2>>, x>>, <<<<outermost, 1>>, y>>})}

Local(n) == [global |-> FALSE, name |-> n]
Global(n) == [global |-> TRUE, name |-> n]
Name(r) == [is |-> "name", ref |-> r]
List(s) == [is |-> "list", of |-> s]
Array(s) == [is |-> "array", of |-> s]
X == Name(Local(x))
Y == Name(Local(y))

Pair == Array(<<One, UndefAtom>>)
Hash(lefts) == [is |-> "hash", of |-> [l \in lefts |-> One]]
\* {'y' => one, ['x'] => {'x' => one}}
NestedHash == [is |-> "hash", of |-> (Y :> One @@ List(<<X>>) :> Hash({X}))]
To(left, right) == [left |-> left, right |-> right]

\* To a name with and without prefix, to all of a list, and to lists that fail
\* at once, after a variable, and for one that they bind twice.
SomeAssignments ==
  {To(X, One), To(Name(Global(x)), UndefAtom), To(List(<<X, Y>>), Pair),
   To(List(<<Y, List(<<X>>)>>), Array(<<One, Array(<<UndefAtom>>)>>)),
   To(List(<<X, Y>>), Hash({Y, X})), To(List(<<Y, X>>), Hash({Y})),
   To(List(<<Y, List(<<X>>)>>), NestedHash),
   To(List(<<X, List(<<Y>>)>>), Pair), To(List(<<X, X>>), Pair), To(List(<<X>>), Pair)}
SomeLefts ==
  {X, Y, Name(Global(x)), List(<<X>>), List(<<Y>>), List(<<X, Y>>), List(<<Y, X>>),
   List(<<X, X>>), List(<<X, List(<<Y>>)>>), List(<<Y, List(<<X>>)>>)}
SomeRights ==
  TwoAtoms \cup {Pair, Array(<<UndefAtom>>), Array(<<One, Array(<<UndefAtom>>)>>),
                Hash({Y}), Hash({Y, X}), NestedHash, Hash({X})}
SomeValues == SomeRights

SomeCases == {<<<<"value", "value">>, <<"value">>>>}
SomeSelectors == {<<"default", "value">>}

SomeArguments == {<<>>, <<One>>, <<UndefAtom>>, <<One, UndefAtom>>}

P(n, type, default) == [name |-> n, type |-> type, default |-> default, rest |-> FALSE]
NoValue == [is |-> "none"]
SomeCallables ==
  {[parameters |-> ps, returns |-> TwoAtoms, lambda |-> FALSE] : ps \in
     {<<P(x, {One}, NoValue)>>,
      <<P(x, TwoAtoms, NoValue), P(y, TwoAtoms, [is |-> "variable", ref |-> Local(x)])>>,
      <<P(x, {One}, [is |-> "code"]), P(y, {One}, [is |-> "variable", ref |-> Local(x)])>>,
      <<[P(x, {One}, [is |-> "value", value |-> One]) EXCEPT !.rest = TRUE]>>}}
  \cup {[parameters |-> <<>>, returns |-> {One}, lambda |-> TRUE]}
=============================================================================
