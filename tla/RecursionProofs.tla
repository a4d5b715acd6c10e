-------------------------- MODULE RecursionProofs --------------------------
(***************************************************************************)
(* Functions that are defined by recursion exist and are the only ones     *)
(* that solve their equations: along parents that end, up to a number, and *)
(* over trees.                                                             *)
(* The argument is everywhere that of the least counterexample.            *)
(***************************************************************************)
EXTENDS Integers, Sequences, WellFoundedInduction, TLAPS

\* The natural numbers are well ordered.
LEMMA LeastNumber ==
  ASSUME NEW T \in SUBSET Nat, T # {}
  PROVE  \E n \in T : \A m \in T : n <= m
<1> DEFINE R == OpToRel(<, Nat)
<1>1. IsWellFoundedOn(R, Nat)
  BY NatLessThanWellFounded
<1>2. \A m, n \in Nat : m < n => <<m, n>> \in R
  BY DEF OpToRel
<1> HIDE DEF R
<1>3. PICK n \in T : \A m \in T : ~(<<m, n>> \in R)
  <2>1. T \subseteq Nat
    OBVIOUS
  <2> QED
    BY <1>1, <2>1, WFMin, Zenon
<1>4. ASSUME NEW m \in T PROVE n <= m
  <2>1. ~(m < n)
    BY <1>2, <1>3
  <2> QED
    BY <2>1
<1> QED
  BY <1>4

-----------------------------------------------------------------------------
(* Along parents. *)

\* Nothing of S is above itself: in every set of its members there is one whose
\* parent is not in the set.
Grounded(S, up) == \A T \in SUBSET S : T # {} => \E t \in T : up[t] \notin T

\* Sets of pairs that are closed under the equations of a function on S which
\* has the value base[t] where t stops and follows from that for up[t] elsewhere.
ClosedUnder(Q, S, up, stop, base, step) ==
  \A t \in S :
    /\ t \in stop => <<t, base[t]>> \in Q
    /\ t \notin stop => \A q \in Q : q[1] = up[t] => <<t, step[t][q[2]]>> \in Q
Graph(S, V, up, stop, base, step) ==
  {p \in S \X V : \A Q \in SUBSET (S \X V) :
                    ClosedUnder(Q, S, up, stop, base, step) => p \in Q}

\* The equations of such a function, with values in V.
Recursive(S, V, up, stop, base, step) ==
  /\ Grounded(S, up)
  /\ base \in [S -> V] /\ step \in [S -> [V -> V]]
  /\ \A t \in S \ stop : up[t] \in S
Solves(g, S, V, up, stop, base, step) ==
  /\ g \in [S -> V]
  /\ \A t \in S : g[t] = IF t \in stop THEN base[t] ELSE step[t][g[up[t]]]

\* A function that is defined along the parents exists, where they end.
LEMMA RecursionUp ==
  ASSUME NEW S, NEW V, NEW up, NEW stop, NEW base, NEW step,
         Recursive(S, V, up, stop, base, step)
  PROVE  \E g : Solves(g, S, V, up, stop, base, step)
<1>0. /\ Grounded(S, up) /\ base \in [S -> V] /\ step \in [S -> [V -> V]]
      /\ \A t \in S \ stop : up[t] \in S
  BY DEF Recursive
<1> USE <1>0
<1> DEFINE Closed(Q) == ClosedUnder(Q, S, up, stop, base, step)
           G == Graph(S, V, up, stop, base, step)
           One(t) == \E v \in V : <<t, v>> \in G /\ \A w \in V : <<t, w>> \in G => w = v
           Bad == {t \in S : ~One(t)}
<1>1. G \in SUBSET (S \X V) /\ Closed(G)
  <2>1. G \in SUBSET (S \X V)
    BY DEF Graph
  <2>2. ASSUME NEW t \in S, t \in stop PROVE <<t, base[t]>> \in G
    BY <2>2 DEF Graph, ClosedUnder
  <2>3. ASSUME NEW t \in S, t \notin stop, NEW q \in G, q[1] = up[t]
        PROVE  <<t, step[t][q[2]]>> \in G
    <3>1. q \in S \X V /\ step[t][q[2]] \in V
      BY <2>1
    <3>2. ASSUME NEW Q \in SUBSET (S \X V), Closed(Q) PROVE <<t, step[t][q[2]]>> \in Q
      <4>1. q \in Q
        BY <3>2 DEF Graph
      <4> QED
        BY <2>3, <3>2, <4>1 DEF ClosedUnder
    <3> QED
      BY <3>1, <3>2 DEF Graph
  <2> QED
    BY <2>1, <2>2, <2>3 DEF ClosedUnder
<1>2. ASSUME NEW Q \in SUBSET (S \X V), Closed(Q) PROVE G \subseteq Q
  BY <1>2 DEF Graph
<1>3. ASSUME NEW t \in S, t \notin stop => One(up[t]) PROVE One(t)
  <2>1. PICK v \in V : /\ <<t, v>> \in G
                       /\ t \in stop => v = base[t]
                       /\ t \notin stop => \A q \in G : q[1] = up[t] => step[t][q[2]] = v
    <3>1. CASE t \in stop
      <4>1. <<t, base[t]>> \in G /\ base[t] \in V
        BY <1>1, <3>1 DEF ClosedUnder
      <4> QED
        BY <3>1, <4>1
    <3>2. CASE t \notin stop
      <4>1. PICK u \in V : <<up[t], u>> \in G /\ \A w \in V : <<up[t], w>> \in G => w = u
        BY <1>3, <3>2
      <4>2. <<t, step[t][u]>> \in G /\ step[t][u] \in V
        <5> DEFINE q == <<up[t], u>>
        <5>1. q \in G /\ q[1] = up[t] /\ q[2] = u
          BY <4>1
        <5>2. Closed(G)
          BY <1>1
        <5> HIDE DEF G, q
        <5>3. <<t, step[t][q[2]]>> \in G
          BY <3>2, <5>1, <5>2 DEF ClosedUnder
        <5>4. step[t][u] \in V
          BY <4>1
        <5> QED
          BY <5>1, <5>3, <5>4
      <4>3. ASSUME NEW q \in G, q[1] = up[t] PROVE q[2] = u
        <5>1. q[2] \in V /\ q = <<up[t], q[2]>>
          BY <1>1, <4>3
        <5> QED
          BY <4>1, <5>1
      <4> QED
        BY <3>2, <4>2, <4>3
    <3> QED
      BY <3>1, <3>2
  <2> DEFINE Q == {q \in G : q[1] = t => q[2] = v}
  <2>2. Closed(Q)
    <3>1. ASSUME NEW x \in S, x \in stop PROVE <<x, base[x]>> \in Q
      <4>1. <<x, base[x]>> \in G
        BY <1>1, <3>1 DEF ClosedUnder
      <4>2. <<x, base[x]>>[1] = x /\ <<x, base[x]>>[2] = base[x]
        OBVIOUS
      <4>3. x = t => base[x] = v
        BY <2>1, <3>1
      <4> HIDE DEF G
      <4> QED
        BY <4>1, <4>2, <4>3
    <3>2. ASSUME NEW x \in S, x \notin stop, NEW q \in Q, q[1] = up[x]
          PROVE  <<x, step[x][q[2]]>> \in Q
      <4>1. <<x, step[x][q[2]]>> \in G
        BY <1>1, <3>2 DEF ClosedUnder
      <4>2. x = t => step[x][q[2]] = v
        BY <2>1, <3>2
      <4> HIDE DEF G
      <4> QED
        BY <4>1, <4>2
    <3> HIDE DEF Q
    <3> QED
      BY <3>1, <3>2 DEF ClosedUnder
  <2>3. Q \in SUBSET (S \X V)
    BY <1>1
  <2>4. G \subseteq Q
    <3> HIDE DEF Q, G
    <3> QED
      BY <1>2, <2>2, <2>3
  <2>5. ASSUME NEW w \in V, <<t, w>> \in G PROVE w = v
    BY <2>4, <2>5
  <2> QED
    BY <2>1, <2>5
<1>4. Bad = {}
  <2> SUFFICES ASSUME Bad # {} PROVE FALSE
    OBVIOUS
  <2>1. PICK t \in Bad : up[t] \notin Bad
    <3>1. Bad \in SUBSET S
      OBVIOUS
    <3> HIDE DEF Bad
    <3> QED
      BY <3>1 DEF Grounded
  <2>2. t \in S /\ (t \notin stop => One(up[t]))
    <3> HIDE DEF One
    <3> QED
      BY <2>1
  <2>3. One(t)
    <3> HIDE DEF One
    <3> QED
      BY <1>3, <2>2
  <2> QED
    BY <2>1, <2>3
<1> DEFINE g == [t \in S |-> CHOOSE v \in V : <<t, v>> \in G]
<1>5. \A t \in S : One(t)
  BY <1>4
<1>6. ASSUME NEW t \in S PROVE g[t] \in V /\ <<t, g[t]>> \in G /\ \A w \in V : <<t, w>> \in G => w = g[t]
  <2> HIDE DEF G
  <2> QED
    BY <1>5
<1>7. ASSUME NEW t \in S PROVE g[t] = IF t \in stop THEN base[t] ELSE step[t][g[up[t]]]
  <2> HIDE DEF G, g
  <2>1. CASE t \in stop
    BY <1>1, <1>6, <2>1 DEF ClosedUnder
  <2>2. CASE t \notin stop
    <3>1. up[t] \in S /\ <<up[t], g[up[t]]>> \in G /\ g[up[t]] \in V
      BY <1>6, <2>2
    <3>2. <<t, step[t][<<up[t], g[up[t]]>>[2]]>> \in G
      <4> DEFINE q == <<up[t], g[up[t]]>>
      <4>1. q \in G /\ q[1] = up[t]
        BY <3>1
      <4> HIDE DEF q
      <4>2. <<t, step[t][q[2]]>> \in G
        BY <1>1, <2>2, <4>1 DEF ClosedUnder
      <4> QED
        BY <4>2 DEF q
    <3>3. step[t][g[up[t]]] \in V
      BY <3>1
    <3> QED
      BY <1>6, <2>2, <3>1, <3>2, <3>3
  <2> QED
    BY <2>1, <2>2
<1>8. g \in [S -> V]
  <2> HIDE DEF G
  <2> QED
    BY <1>5
<1> HIDE DEF g
<1> QED
  BY <1>7, <1>8 DEF Solves

-----------------------------------------------------------------------------
(* Up to a number. *)

\* What holds of 0, and of each number up to n if it holds of the one before,
\* holds of all of them.
LEMMA AllUpTo ==
  ASSUME NEW n \in Nat, NEW T \in SUBSET (0 .. n), 0 \in T,
         \A i \in 1 .. n : i - 1 \in T => i \in T
  PROVE  T = 0 .. n
<1> DEFINE Rest == {i \in 0 .. n : i \notin T}
<1>1. Rest \in SUBSET Nat
  OBVIOUS
<1>2. ASSUME Rest # {} PROVE FALSE
  <2>1. PICK i \in Rest : \A j \in Rest : i <= j
    <3> HIDE DEF Rest
    <3> QED
      BY <1>1, <1>2, LeastNumber
  <2>2. i \in 1 .. n /\ i - 1 \notin T
    OBVIOUS
  <2>3. i - 1 \in Rest
    BY <2>2
  <2> QED
    BY <2>1, <2>2, <2>3
<1> QED
  BY <1>2

\* The equations of a function on 0 .. n.
StartsAt(f, n, first, step) ==
  /\ f[0] = first
  /\ \A i \in 1 .. n : f[i] = step[i][f[i - 1]]

LEMMA RecursionOver ==
  ASSUME NEW n \in Nat, NEW V, NEW first \in V, NEW step \in [1 .. n -> [V -> V]]
  PROVE  \E f \in [0 .. n -> V] : StartsAt(f, n, first, step)
<1> DEFINE S == 0 .. n
           up == [i \in S |-> i - 1]
           base == [i \in S |-> first]
           steps == [i \in S |-> IF i = 0 THEN [v \in V |-> v] ELSE step[i]]
<1>1. Grounded(S, up)
  <2> SUFFICES ASSUME NEW T \in SUBSET S, T # {} PROVE \E t \in T : up[t] \notin T
    BY DEF Grounded
  <2>1. T \in SUBSET Nat
    OBVIOUS
  <2>2. PICK t \in T : \A i \in T : t <= i
    BY <2>1, LeastNumber
  <2>3. t \in Int /\ up[t] = t - 1
    OBVIOUS
  <2> QED
    BY <2>2, <2>3
<1>2. \A i \in S : i # 0 => i \in 1 .. n /\ up[i] = i - 1 /\ up[i] \in S
  OBVIOUS
<1>3. steps \in [S -> [V -> V]]
  BY <1>2
<1>4. Recursive(S, V, up, {0}, base, steps)
  <2>1. \A i \in S \ {0} : up[i] \in S
    BY <1>2
  <2> QED
    BY <1>1, <1>3, <2>1 DEF Recursive
<1>5. PICK f : Solves(f, S, V, up, {0}, base, steps)
  <2> HIDE DEF S, up, base, steps
  <2> QED
    BY <1>4, RecursionUp
<1>6. f \in [S -> V] /\ \A i \in S : f[i] = IF i \in {0} THEN base[i] ELSE steps[i][f[up[i]]]
  BY <1>5 DEF Solves
<1>7. 0 \in S /\ f[0] = first
  BY <1>6
<1>8. ASSUME NEW i \in 1 .. n PROVE f[i] = step[i][f[i - 1]]
  <2>1. i \in S /\ i # 0 /\ up[i] = i - 1 /\ steps[i] = step[i]
    OBVIOUS
  <2> QED
    BY <1>6, <2>1
<1> QED
  BY <1>6, <1>7, <1>8 DEF StartsAt

-----------------------------------------------------------------------------
(* Over trees. *)

\* No member of S is below itself: in every set of them there is one that has
\* none of its parts in the set.
Founded(S, parts) ==
  \A T \in SUBSET S : T # {} => \E t \in T : \A i \in 1 .. Len(parts[t]) : parts[t][i] \notin T

\* The values of the parts of t are those in the pairs Q.
OfParts(Q, parts, t, s) ==
  Len(s) = Len(parts[t]) /\ \A i \in 1 .. Len(parts[t]) : <<parts[t][i], s[i]>> \in Q
ClosedUnderParts(Q, S, V, parts, make) ==
  \A t \in S : \A s \in Seq(V) : OfParts(Q, parts, t, s) => <<t, make[t][s]>> \in Q
GraphOver(S, V, parts, make) ==
  {p \in S \X V : \A Q \in SUBSET (S \X V) : ClosedUnderParts(Q, S, V, parts, make) => p \in Q}

\* The equations of a function on S that is made of the values of the parts.
MadeOfParts(g, S, parts, make) ==
  \A t \in S : g[t] = make[t][[i \in 1 .. Len(parts[t]) |-> g[parts[t][i]]]]

LEMMA SameSequence ==
  ASSUME NEW V, NEW q \in Seq(V), NEW s \in Seq(V), Len(q) = Len(s),
         \A i \in 1 .. Len(s) : q[i] = s[i]
  PROVE  q = s
OBVIOUS

\* A function that is made of the values of the parts exists, where all trees end.
LEMMA RecursionOverParts ==
  ASSUME NEW S, NEW V, NEW parts \in [S -> Seq(S)], NEW make \in [S -> [Seq(V) -> V]],
         Founded(S, parts)
  PROVE  \E g \in [S -> V] : MadeOfParts(g, S, parts, make)
<1> DEFINE Closed(Q) == ClosedUnderParts(Q, S, V, parts, make)
           G == GraphOver(S, V, parts, make)
           One(t) == \E v \in V : <<t, v>> \in G /\ \A w \in V : <<t, w>> \in G => w = v
           Bad == {t \in S : ~One(t)}
<1>1. G \in SUBSET (S \X V)
  BY DEF GraphOver
<1>2. ASSUME NEW Q \in SUBSET (S \X V), Closed(Q) PROVE G \subseteq Q
  BY <1>2 DEF GraphOver
<1>3. ASSUME NEW t \in S, NEW s \in Seq(V), OfParts(G, parts, t, s)
      PROVE  <<t, make[t][s]>> \in G
  <2>1. <<t, make[t][s]>> \in S \X V
    OBVIOUS
  <2>2. ASSUME NEW Q \in SUBSET (S \X V), Closed(Q) PROVE <<t, make[t][s]>> \in Q
    <3>1. G \subseteq Q
      BY <1>2, <2>2
    <3> HIDE DEF G
    <3>2. OfParts(Q, parts, t, s)
      BY <1>3, <3>1 DEF OfParts
    <3> QED
      BY <2>2, <3>2 DEF ClosedUnderParts
  <2> QED
    BY <2>1, <2>2 DEF GraphOver
\* Nothing is in the graph but for its parts.
<1>4. ASSUME NEW t \in S, NEW v \in V, <<t, v>> \in G
      PROVE  \E s \in Seq(V) : OfParts(G, parts, t, s) /\ v = make[t][s]
  <2> SUFFICES ASSUME ~\E s \in Seq(V) : OfParts(G, parts, t, s) /\ v = make[t][s]
               PROVE  FALSE
    OBVIOUS
  <2> DEFINE Q == G \ {<<t, v>>}
  <2> HIDE DEF G
  <2>1. Q \in SUBSET (S \X V) /\ Q \subseteq G /\ <<t, v>> \notin Q
    BY <1>1
  <2>2. ASSUME NEW x \in S, NEW s \in Seq(V), OfParts(Q, parts, x, s)
        PROVE  <<x, make[x][s]>> \in Q
    <3>1. OfParts(G, parts, x, s)
      BY <2>1, <2>2 DEF OfParts
    <3>2. <<x, make[x][s]>> \in G
      BY <1>3, <3>1
    <3>3. <<x, make[x][s]>> # <<t, v>>
      BY <3>1
    <3> QED
      BY <3>2, <3>3
  <2> HIDE DEF Q
  <2>3. Closed(Q)
    BY <2>2 DEF ClosedUnderParts
  <2> QED
    BY <1>2, <1>4, <2>1, <2>3
<1> HIDE DEF G
<1>5. ASSUME NEW t \in S, \A i \in 1 .. Len(parts[t]) : One(parts[t][i]) PROVE One(t)
  <2> DEFINE n == Len(parts[t])
             value(x) == CHOOSE v \in V : <<x, v>> \in G
             s == [i \in 1 .. n |-> value(parts[t][i])]
  <2>1. parts[t] \in Seq(S) /\ n \in Nat /\ \A i \in 1 .. n : parts[t][i] \in S
    OBVIOUS
  <2>2. \A i \in 1 .. n : /\ value(parts[t][i]) \in V /\ <<parts[t][i], value(parts[t][i])>> \in G
                          /\ \A w \in V : <<parts[t][i], w>> \in G => w = value(parts[t][i])
    BY <1>5
  <2> HIDE DEF n, value
  <2>3. s \in Seq(V) /\ Len(s) = n /\ \A i \in 1 .. n : s[i] = value(parts[t][i])
    <3> DEFINE kid(i) == value(parts[t][i])
    <3>1. \A i \in 1 .. n : kid(i) \in V
      BY <2>2
    <3>2. s = [i \in 1 .. n |-> kid(i)]
      OBVIOUS
    <3> HIDE DEF kid, s
    <3>3. s \in Seq(V) /\ Len(s) = n /\ \A i \in 1 .. n : s[i] = kid(i)
      BY <2>1, <3>1, <3>2
    <3> QED
      BY <3>3 DEF kid
  <2> HIDE DEF s
  <2>4. OfParts(G, parts, t, s)
    BY <2>2, <2>3 DEF OfParts, n
  <2>5. <<t, make[t][s]>> \in G /\ make[t][s] \in V
    BY <1>3, <2>3, <2>4
  <2>6. ASSUME NEW w \in V, <<t, w>> \in G PROVE w = make[t][s]
    <3>1. PICK q \in Seq(V) : OfParts(G, parts, t, q) /\ w = make[t][q]
      BY <1>4, <2>6
    <3>2. Len(q) = n /\ \A i \in 1 .. n : <<parts[t][i], q[i]>> \in G
      BY <3>1 DEF OfParts, n
    <3>3. \A i \in 1 .. n : q[i] = s[i]
      <4>1. \A i \in 1 .. n : q[i] \in V
        BY <3>2
      <4> QED
        BY <2>2, <2>3, <3>2, <4>1
    <3>4. q = s
      BY <2>3, <3>2, <3>3, SameSequence
    <3> QED
      BY <3>1, <3>4
  <2> QED
    BY <2>5, <2>6
<1>6. Bad = {}
  <2> SUFFICES ASSUME Bad # {} PROVE FALSE
    OBVIOUS
  <2>1. PICK t \in Bad : \A i \in 1 .. Len(parts[t]) : parts[t][i] \notin Bad
    <3>1. Bad \in SUBSET S
      OBVIOUS
    <3> HIDE DEF Bad
    <3> QED
      BY <3>1 DEF Founded
  <2>2. t \in S /\ \A i \in 1 .. Len(parts[t]) : parts[t][i] \in S
    OBVIOUS
  <2> HIDE DEF One
  <2>3. \A i \in 1 .. Len(parts[t]) : One(parts[t][i])
    BY <2>1, <2>2
  <2>4. One(t)
    BY <1>5, <2>2, <2>3
  <2> QED
    BY <2>4
<1> DEFINE g == [t \in S |-> CHOOSE v \in V : <<t, v>> \in G]
<1>7. \A t \in S : One(t)
  BY <1>6
<1>8. g \in [S -> V]
  BY <1>7
<1>9. ASSUME NEW t \in S PROVE <<t, g[t]>> \in G /\ \A w \in V : <<t, w>> \in G => w = g[t]
  BY <1>7
<1> HIDE DEF g, One
<1>10. ASSUME NEW t \in S PROVE g[t] = make[t][[i \in 1 .. Len(parts[t]) |-> g[parts[t][i]]]]
  <2> DEFINE n == Len(parts[t])
             s == [i \in 1 .. n |-> g[parts[t][i]]]
  <2>1. n \in Nat /\ \A i \in 1 .. n : parts[t][i] \in S
    OBVIOUS
  <2>2. s \in Seq(V) /\ Len(s) = n
    <3>1. \A i \in 1 .. n : g[parts[t][i]] \in V
      BY <1>8, <2>1
    <3> HIDE DEF n
    <3> QED
      BY <2>1, <3>1
  <2>3. OfParts(G, parts, t, s)
    BY <1>9, <2>1, <2>2 DEF OfParts
  <2> HIDE DEF s
  <2>4. <<t, make[t][s]>> \in G /\ make[t][s] \in V
    BY <1>3, <2>2, <2>3
  <2>5. make[t][s] = g[t]
    BY <1>9, <2>4
  <2> QED
    BY <2>5 DEF s
<1> QED
  BY <1>8, <1>10 DEF MadeOfParts
=============================================================================
