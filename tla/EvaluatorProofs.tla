-------------------------- MODULE EvaluatorProofs --------------------------
(***************************************************************************)
(* Theorems about Evaluator, for every bound on nesting and evaluations.   *)
(*                                                                         *)
(* What IInv says of the activations is a property of a sequence and of    *)
(* the scope, locations and flag that go with it.  Two lemmas show that it *)
(* is kept by beginning an activation and by ending one; every step of the *)
(* evaluator does one of these, or only raises a signal.                   *)
(***************************************************************************)
EXTENDS Evaluator, SequenceTheorems, FiniteSetTheorems, WellFoundedInduction, TLAPS

Nested(q, d, st, p, f) ==
  /\ ScopesNest(q, d)
  /\ LocationsNest(q, st, p)
  /\ TypesNest(q, f)
  /\ Shape(q)

\* The sequence with one element more, and the one with one element less.
LEMMA Extended ==
  ASSUME NEW S, NEW q \in Seq(S), NEW a \in S
  PROVE  /\ Append(q, a) \in Seq(S)
         /\ Len(q) \in Nat
         /\ Len(Append(q, a)) = Len(q) + 1
         /\ Append(q, a)[Len(q) + 1] = a
         /\ \A i \in 1 .. Len(q) : Append(q, a)[i] = q[i]
OBVIOUS

LEMMA Shortened ==
  ASSUME NEW S, NEW q \in Seq(S), q # <<>>
  PROVE  /\ Len(q) \in Nat \ {0}
         /\ q[Len(q)] \in S
         /\ SubSeq(q, 1, Len(q) - 1) \in Seq(S)
         /\ Len(SubSeq(q, 1, Len(q) - 1)) = Len(q) - 1
         /\ \A i \in 1 .. Len(q) - 1 : SubSeq(q, 1, Len(q) - 1)[i] = q[i]
<1>1. Len(q) \in Nat \ {0}
  OBVIOUS
<1>2. q[Len(q)] \in S
  BY <1>1
<1>3. ASSUME NEW k \in Nat, k <= Len(q)
      PROVE  /\ SubSeq(q, 1, k) \in Seq(S)
             /\ Len(SubSeq(q, 1, k)) = k
             /\ \A i \in 1 .. k : SubSeq(q, 1, k)[i] = q[i]
  BY <1>3
<1>4. Len(q) - 1 \in Nat /\ Len(q) - 1 <= Len(q)
  BY <1>1
<1> QED
  BY <1>1, <1>2, <1>3, <1>4

\* The locations an activation has pushed are below the top of the stack.
LEMMA LocationsBelow ==
  ASSUME NEW q \in Seq(Activation), NEW st \in Seq(Kinds), NEW p \in Nat,
         LocationsNest(q, st, p), Grows(q), NEW i \in 1 .. Len(q)
  PROVE  q[i].locs \in Nat /\ LocsIn(q[i]) <= Len(st) /\ Len(st) \in Nat
<1>1. q[i] \in Activation /\ q[Len(q)] \in Activation /\ Len(q) \in Nat
  OBVIOUS
<1>2. q[i].locs \in Nat /\ q[Len(q)].locs \in Nat
  BY <1>1 DEF Activation
<1>3. Len(st) = LocsIn(q[Len(q)]) /\ Len(st) \in Nat
  BY DEF LocationsNest
<1>4. CASE i = Len(q)
  BY <1>2, <1>3, <1>4 DEF LocsIn
<1>5. CASE i # Len(q)
  <2>1. LocsIn(q[i]) <= q[Len(q)].locs
    BY <1>1, <1>5 DEF Grows
  <2> QED
    BY <1>2, <1>3, <2>1 DEF LocsIn
<1> QED
  BY <1>4, <1>5

\* Beginning an activation that remembers what it finds.
LEMMA BeginNests ==
  ASSUME NEW q \in Seq(Activation), NEW a \in Activation, NEW d \in Nat,
         NEW st \in Seq(Kinds), NEW p \in Nat, NEW f \in BOOLEAN,
         Nested(q, d, st, p, f),
         a.epCount = d, a.locs = Len(st),
         a.kind = "static" => a.wasStatic = f,
         a.kind = "top" <=> q = <<>>,
         a.kind = "static" \/ ~f,
         q = <<>> => Len(st) = p
  PROVE  Nested(Append(q, a), DepthIn(a),
                IF a.kind \in Pushed THEN Append(st, a.kind) ELSE st, p,
                f \/ a.kind = "static")
<1> DEFINE r == Append(q, a)
           n == Len(q)
           u == IF a.kind \in Pushed THEN Append(st, a.kind) ELSE st
<1>1. /\ r \in Seq(Activation) /\ n \in Nat /\ Len(r) = n + 1 /\ r[n + 1] = a
      /\ \A i \in 1 .. n : r[i] = q[i]
  BY Extended
<1>2. /\ a.kind \in Kinds /\ a.locs \in Nat /\ a.epCount \in Nat
      /\ \A i \in 1 .. n : q[i] \in Activation
  <2>1. \A i \in 1 .. n : q[i] \in Activation
    OBVIOUS
  <2> QED
    BY <2>1 DEF Activation
<1>3. /\ Len(st) \in Nat
      /\ Len(u) = LocsIn(a)
      /\ \A k \in 1 .. Len(st) : u[k] = st[k]
      /\ a.kind \in Pushed => u[Len(st) + 1] = a.kind
  BY <1>2, Extended DEF LocsIn
<1>4. q = <<>> <=> n = 0
  OBVIOUS
<1>6. \A i \in 1 .. n + 1 : i = n + 1 \/ i \in 1 .. n
  BY <1>1
<1> HIDE DEF r, n, u
<1>5. r # <<>>
  BY <1>1
<1>7. ScopesNest(r, DepthIn(a))
  <2>1. ASSUME NEW i \in 1 .. n + 1
        PROVE  r[i].epCount = IF i = 1 THEN 1 ELSE DepthIn(r[i - 1])
    <3>1. CASE i \in 1 .. n
      <4>1. r[i] = q[i] /\ (i # 1 => r[i - 1] = q[i - 1])
        BY <1>1, <3>1
      <4>2. q[i].epCount = IF i = 1 THEN 1 ELSE DepthIn(q[i - 1])
        BY <3>1 DEF Nested, ScopesNest, n
      <4> QED
        BY <4>1, <4>2
    <3>2. CASE i = n + 1 /\ n = 0
      BY <1>1, <1>4, <3>2 DEF Nested, ScopesNest
    <3>3. CASE i = n + 1 /\ n # 0
      <4>1. r[i - 1] = q[n] /\ r[i] = a
        BY <1>1, <3>3
      <4>2. d = DepthIn(q[n])
        BY <1>4, <3>3 DEF Nested, ScopesNest, n
      <4> QED
        BY <1>1, <3>3, <4>1, <4>2
    <3> QED
      BY <1>6, <3>1, <3>2, <3>3
  <2> QED
    BY <1>1, <1>5, <2>1 DEF ScopesNest
<1>8. \A i \in 1 .. n : q[i].locs \in Nat /\ LocsIn(q[i]) <= Len(st)
  BY LocationsBelow DEF Nested, Shape, n
<1>9. LocationsNest(r, u, p)
  <2>1. ASSUME NEW i \in 1 .. n + 1
        PROVE  r[i].locs = IF i = 1 THEN p ELSE LocsIn(r[i - 1])
    <3>1. CASE i \in 1 .. n
      <4>1. r[i] = q[i] /\ (i # 1 => r[i - 1] = q[i - 1])
        BY <1>1, <3>1
      <4>2. q[i].locs = IF i = 1 THEN p ELSE LocsIn(q[i - 1])
        BY <3>1 DEF Nested, LocationsNest, n
      <4> QED
        BY <4>1, <4>2
    <3>2. CASE i = n + 1 /\ n = 0
      BY <1>1, <1>4, <3>2
    <3>3. CASE i = n + 1 /\ n # 0
      <4>1. r[i - 1] = q[n] /\ r[i] = a
        BY <1>1, <3>3
      <4>2. Len(st) = LocsIn(q[n])
        BY <1>4, <3>3 DEF Nested, LocationsNest, n
      <4> QED
        BY <1>1, <3>3, <4>1, <4>2
    <3> QED
      BY <1>6, <3>1, <3>2, <3>3
  <2>2. ASSUME NEW i \in 1 .. n + 1, r[i].kind \in Pushed
        PROVE  u[r[i].locs + 1] = r[i].kind
    <3>1. CASE i \in 1 .. n
      <4>1. r[i] = q[i] /\ q[i].kind \in Pushed
        BY <1>1, <2>2, <3>1
      <4>2. q[i].locs + 1 \in 1 .. Len(st)
        BY <1>3, <1>8, <3>1, <4>1 DEF LocsIn
      <4>3. st[q[i].locs + 1] = q[i].kind
        BY <3>1, <4>1 DEF Nested, LocationsNest, n
      <4> QED
        BY <1>3, <4>1, <4>2, <4>3
    <3>2. CASE i = n + 1
      BY <1>1, <1>3, <2>2, <3>2
    <3> QED
      BY <1>6, <3>1, <3>2
  <2> QED
    BY <1>1, <1>3, <1>5, <2>1, <2>2 DEF LocationsNest
<1>10. TypesNest(r, f \/ a.kind = "static")
  <2>1. (f \/ a.kind = "static") <=> \E i \in 1 .. n + 1 : r[i].kind = "static"
    <3>1. f <=> \E i \in 1 .. n : q[i].kind = "static"
      BY DEF Nested, TypesNest, n
    <3>2. \A i \in 1 .. n : i \in 1 .. n + 1
      BY <1>1
    <3>3. n + 1 \in 1 .. n + 1
      BY <1>1
    <3> QED
      BY <1>1, <1>6, <3>1, <3>2, <3>3
  <2>2. ASSUME NEW i \in 1 .. n + 1, NEW j \in 1 .. n + 1,
               i < j, r[i].kind = "static"
        PROVE  r[j].kind = "static"
    <3>1. i \in 1 .. n
      BY <1>1, <2>2
    <3>2. q[i].kind = "static"
      BY <1>1, <2>2, <3>1
    <3>3. CASE j \in 1 .. n
      <4>1. q[j].kind = "static"
        BY <2>2, <3>1, <3>2, <3>3 DEF Nested, TypesNest, n
      <4> QED
        BY <1>1, <3>3, <4>1
    <3>4. CASE j = n + 1
      <4>1. f
        BY <3>1, <3>2 DEF Nested, TypesNest, n
      <4> QED
        BY <1>1, <3>4, <4>1
    <3> QED
      BY <1>6, <3>3, <3>4
  <2> QED
    BY <1>1, <2>1, <2>2 DEF TypesNest
<1>11. Shape(r)
  <2>1. ASSUME NEW i \in 1 .. n + 1
        PROVE  r[i].kind = "top" <=> i = 1
    <3>1. CASE i \in 1 .. n
      <4>1. q[i].kind = "top" <=> i = 1
        BY <3>1 DEF Nested, Shape, n
      <4> QED
        BY <1>1, <3>1, <4>1
    <3>2. CASE i = n + 1
      BY <1>1, <1>4, <3>2
    <3> QED
      BY <1>6, <3>1, <3>2
  <2>2. ASSUME NEW i \in 1 .. n + 1, NEW j \in 1 .. n + 1, i < j
        PROVE  LocsIn(r[i]) <= r[j].locs
    <3>1. i \in 1 .. n /\ r[i] = q[i]
      BY <1>1, <2>2
    <3>2. CASE j \in 1 .. n
      BY <1>1, <2>2, <3>1, <3>2 DEF Nested, Shape, Grows, n
    <3>3. CASE j = n + 1
      BY <1>1, <1>8, <3>1, <3>3
    <3> QED
      BY <1>6, <3>2, <3>3
  <2>3. ASSUME NEW i \in 1 .. n + 1, r[i].kind = "static"
        PROVE  r[i].wasStatic <=> \E j \in 1 .. i - 1 : r[j].kind = "static"
    <3>1. \A j \in 1 .. i - 1 : j \in 1 .. n /\ r[j] = q[j]
      BY <1>1
    <3>2. CASE i \in 1 .. n
      <4>1. r[i] = q[i]
        BY <1>1, <3>2
      <4>2. q[i].wasStatic <=> \E j \in 1 .. i - 1 : q[j].kind = "static"
        BY <2>3, <3>2, <4>1 DEF Nested, Shape, n
      <4> QED
        BY <3>1, <4>1, <4>2
    <3>3. CASE i = n + 1
      <4>1. i - 1 = n /\ r[i] = a
        BY <1>1, <3>3
      <4>2. f <=> \E j \in 1 .. n : q[j].kind = "static"
        BY DEF Nested, TypesNest, n
      <4> QED
        BY <2>3, <3>1, <4>1, <4>2
    <3> QED
      BY <1>6, <3>2, <3>3
  <2> QED
    BY <1>1, <2>1, <2>2, <2>3 DEF Shape, Grows
<1> QED
  BY <1>7, <1>9, <1>10, <1>11 DEF Nested, r, u

\* What the deferred functions of an activation make of scope, locations, flag.
Undoes(a, d, st, f, d1, u, f1) ==
  /\ d1 = IF a.kind \in Scoped THEN a.epCount ELSE d
  /\ u = IF a.kind \in Pushed THEN SubSeq(st, 1, Len(st) - 1) ELSE st
  /\ f1 \in BOOLEAN
  /\ f1 <=> f /\ (a.kind = "static" => a.wasStatic)

\* They leave what the activation has found.
Restored(a, st, d1, u) ==
  /\ d1 \in Nat /\ d1 = a.epCount
  /\ u \in Seq(Kinds) /\ Len(u) = a.locs
  /\ \A k \in 1 .. a.locs : u[k] = st[k]

LEMMA EndRestores ==
  ASSUME NEW a \in Activation, NEW d, NEW st \in Seq(Kinds), NEW f,
         d = DepthIn(a), Len(st) = LocsIn(a),
         NEW d1, NEW u, NEW f1, Undoes(a, d, st, f, d1, u, f1)
  PROVE  Restored(a, st, d1, u)
<1>1. a.locs \in Nat /\ a.epCount \in Nat
  BY DEF Activation
<1>2. d1 = a.epCount
  BY DEF DepthIn, Undoes
<1>3. CASE a.kind \in Pushed
  <2>1. Len(st) = a.locs + 1
    BY <1>3 DEF LocsIn
  <2>2. st # <<>>
    BY <1>1, <2>1
  <2>3. Len(st) - 1 = a.locs
    BY <1>1, <2>1
  <2>4. u = SubSeq(st, 1, Len(st) - 1)
    BY <1>3 DEF Undoes
  <2> QED
    BY <1>1, <1>2, <2>2, <2>3, <2>4, Shortened DEF Restored
<1>4. CASE a.kind \notin Pushed
  BY <1>1, <1>2, <1>4 DEF LocsIn, Undoes, Restored
<1> QED
  BY <1>3, <1>4

\* Ending the last activation with its deferred functions.
LEMMA EndNests ==
  ASSUME NEW q \in Seq(Activation), q # <<>>, NEW a \in Activation, a = q[Len(q)],
         NEW d \in Nat,
         NEW st \in Seq(Kinds), NEW p \in Nat, NEW f \in BOOLEAN,
         Nested(q, d, st, p, f),
         NEW d1, NEW u, NEW f1, Undoes(a, d, st, f, d1, u, f1)
  PROVE  Nested(SubSeq(q, 1, Len(q) - 1), d1, u, p, f1)
<1> DEFINE r == SubSeq(q, 1, Len(q) - 1)
           n == Len(q) - 1
<1>1. /\ r \in Seq(Activation) /\ n \in Nat /\ Len(r) = n /\ Len(q) = n + 1
      /\ a \in Activation
      /\ \A i \in 1 .. n : r[i] = q[i]
  BY Shortened
<1>2. a.locs \in Nat /\ a.epCount \in Nat /\ a.wasStatic \in BOOLEAN
  BY <1>1 DEF Activation
<1>3. Len(st) = LocsIn(a) /\ d = DepthIn(a)
  BY DEF Nested, ScopesNest, LocationsNest
<1>4. /\ d1 = a.epCount
      /\ u \in Seq(Kinds) /\ Len(u) = a.locs /\ \A k \in 1 .. a.locs : u[k] = st[k]
  <2>1. Restored(a, st, d1, u)
    BY <1>3, EndRestores
  <2> QED
    BY <2>1 DEF Restored
<1>7. q[n + 1] = a /\ \A i \in 1 .. n : i \in 1 .. n + 1
  BY <1>1
<1> HIDE DEF r, n
<1>6. r = <<>> <=> n = 0
  BY <1>1
<1>8. ScopesNest(r, d1)
  <2>1. ASSUME NEW i \in 1 .. n + 1
        PROVE  q[i].epCount = IF i = 1 THEN 1 ELSE DepthIn(q[i - 1])
    BY <1>1 DEF Nested, ScopesNest
  <2>2. ASSUME NEW i \in 1 .. n
        PROVE  r[i].epCount = IF i = 1 THEN 1 ELSE DepthIn(r[i - 1])
    BY <1>1, <1>7, <2>1
  <2>3. d1 = IF n = 0 THEN 1 ELSE DepthIn(r[n])
    <3>1. n + 1 \in 1 .. n + 1 /\ (n # 0 => n \in 1 .. n)
      BY <1>1
    <3>2. a.epCount = IF n = 0 THEN 1 ELSE DepthIn(q[n])
      BY <1>1, <1>7, <2>1, <3>1
    <3> QED
      BY <1>1, <1>4, <3>1, <3>2
  <2> QED
    BY <1>1, <1>6, <2>2, <2>3 DEF ScopesNest
<1>9. ASSUME NEW i \in 1 .. n
      PROVE  q[i].locs \in Nat /\ LocsIn(q[i]) <= a.locs
  <2>1. q[i] \in Activation
    BY <1>1, <1>7
  <2>2. i < n + 1 /\ n + 1 \in 1 .. n + 1
    BY <1>1
  <2> QED
    BY <1>1, <1>7, <2>1, <2>2 DEF Activation, Nested, Shape, Grows
<1>10. LocationsNest(r, u, p)
  <2>1. ASSUME NEW i \in 1 .. n + 1
        PROVE  q[i].locs = IF i = 1 THEN p ELSE LocsIn(q[i - 1])
    BY <1>1 DEF Nested, LocationsNest
  <2>2. ASSUME NEW i \in 1 .. n
        PROVE  r[i].locs = IF i = 1 THEN p ELSE LocsIn(r[i - 1])
    BY <1>1, <1>7, <2>1
  <2>3. Len(u) = IF n = 0 THEN p ELSE LocsIn(r[n])
    <3>1. n + 1 \in 1 .. n + 1 /\ (n # 0 => n \in 1 .. n)
      BY <1>1
    <3>2. a.locs = IF n = 0 THEN p ELSE LocsIn(q[n])
      BY <1>1, <1>7, <2>1, <3>1
    <3> QED
      BY <1>1, <1>4, <3>1, <3>2
  <2>4. ASSUME NEW i \in 1 .. n, r[i].kind \in Pushed
        PROVE  u[r[i].locs + 1] = r[i].kind
    <3>1. r[i] = q[i] /\ q[i].kind \in Pushed
      BY <1>1, <2>4
    <3>2. q[i].locs + 1 \in 1 .. a.locs
      BY <1>2, <1>9, <3>1 DEF LocsIn
    <3>3. st[q[i].locs + 1] = q[i].kind
      BY <1>1, <1>7, <3>1 DEF Nested, LocationsNest
    <3> QED
      BY <1>4, <3>1, <3>2, <3>3
  <2> QED
    BY <1>1, <1>6, <2>2, <2>3, <2>4 DEF LocationsNest
<1>11. f <=> \E i \in 1 .. n + 1 : q[i].kind = "static"
  BY <1>1 DEF Nested, TypesNest
<1>12. \A i, j \in 1 .. n + 1 :
         i < j /\ q[i].kind = "static" => q[j].kind = "static"
  BY <1>1 DEF Nested, TypesNest
<1>13. TypesNest(r, f1)
  <2>1. f1 <=> \E i \in 1 .. n : q[i].kind = "static"
    <3>1. CASE a.kind = "static"
      <4>1. a.wasStatic <=> \E i \in 1 .. n : q[i].kind = "static"
        <5>1. \A i \in 1 .. n + 1 : q[i].kind = "static" =>
                (q[i].wasStatic <=> \E j \in 1 .. i - 1 : q[j].kind = "static")
          BY <1>1 DEF Nested, Shape
        <5>2. n + 1 \in 1 .. n + 1 /\ 1 .. (n + 1) - 1 = 1 .. n
          BY <1>1
        <5>3. a.wasStatic <=>
                \E j \in 1 .. (n + 1) - 1 : q[j].kind = "static"
          BY <1>7, <3>1, <5>1, <5>2
        <5> QED
          BY <5>2, <5>3
      <4>2. f
        <5>1. n + 1 \in 1 .. n + 1
          BY <1>1
        <5> QED
          BY <1>7, <1>11, <3>1, <5>1
      <4> QED
        BY <3>1, <4>1, <4>2 DEF Undoes
    <3>2. CASE a.kind # "static"
      <4>1. n + 1 \in 1 .. n + 1 /\ \A i \in 1 .. n : i < n + 1
        BY <1>1
      <4>2. \A i \in 1 .. n : q[i].kind # "static"
        BY <1>7, <1>12, <3>2, <4>1
      <4>3. \A i \in 1 .. n + 1 : i = n + 1 \/ i \in 1 .. n
        BY <1>1
      <4>4. ~f
        BY <1>7, <1>11, <3>2, <4>2, <4>3
      <4> QED
        BY <3>2, <4>2, <4>4 DEF Undoes
    <3> QED
      BY <3>1, <3>2
  <2> QED
    BY <1>1, <1>7, <1>12, <2>1 DEF TypesNest
<1>14. Shape(r)
  <2>1. ASSUME NEW i \in 1 .. n
        PROVE  r[i].kind = "top" <=> i = 1
    BY <1>1, <1>7 DEF Nested, Shape
  <2>2. ASSUME NEW i \in 1 .. n, NEW j \in 1 .. n, i < j
        PROVE  LocsIn(r[i]) <= r[j].locs
    BY <1>1, <1>7, <2>2 DEF Nested, Shape, Grows
  <2>3. ASSUME NEW i \in 1 .. n, r[i].kind = "static"
        PROVE  r[i].wasStatic <=> \E j \in 1 .. i - 1 : r[j].kind = "static"
    <3>1. \A j \in 1 .. i - 1 : j \in 1 .. n /\ r[j] = q[j]
      BY <1>1
    <3>2. r[i] = q[i] /\ i \in 1 .. Len(q)
      BY <1>1, <1>7
    <3>3. q[i].wasStatic <=> \E j \in 1 .. i - 1 : q[j].kind = "static"
      BY <2>3, <3>2 DEF Nested, Shape
    <3> QED
      BY <3>1, <3>2, <3>3
  <2> QED
    BY <1>1, <2>1, <2>2, <2>3 DEF Shape, Grows
<1> QED
  BY <1>8, <1>10, <1>13, <1>14 DEF Nested, r, n

\* Only what a type expression evaluates runs in static mode.
LEMMA NotStatic ==
  ASSUME NEW q \in Seq(Activation), q # <<>>, NEW f \in BOOLEAN, TypesNest(q, f),
         q[Len(q)].kind # "static"
  PROVE  ~f
<1>1. Len(q) \in Nat \ {0}
  BY Shortened
<1>2. ASSUME NEW i \in 1 .. Len(q)
      PROVE  q[i].kind # "static"
  <2>1. i = Len(q) \/ i < Len(q)
    BY <1>1
  <2>2. Len(q) \in 1 .. Len(q)
    BY <1>1
  <2> QED
    BY <2>1, <2>2 DEF TypesNest
<1> QED
  BY <1>2 DEF TypesNest

-----------------------------------------------------------------------------
(* Targets of signals. *)

LEMMA EndsAreCatches ==
  ASSUME NEW sig \in Jumps \cup {"error"}, NEW kind \in Kinds
  PROVE  kind \in Ends[sig] <=> sig \in Catches(kind)
<1>1. CASE sig = "break"
  BY <1>1 DEF Ends, Catches, Kinds
<1>2. CASE sig = "next"
  BY <1>2 DEF Ends, Catches, Kinds
<1>3. CASE sig = "return"
  BY <1>3 DEF Ends, Catches, Kinds
<1>4. CASE sig = "error"
  BY <1>4 DEF Ends, Catches, Kinds
<1> QED
  BY <1>1, <1>2, <1>3, <1>4 DEF Jumps

\* A set of activations, if there are any, has a last one.
LEMMA LastOne ==
  ASSUME NEW n \in Nat, NEW T \in SUBSET (1 .. n), T # {}
  PROVE  \E i \in T : \A j \in T : j <= i
<1> DEFINE R == StrictSubsetOrdering(1 .. n)
           U == {i .. n : i \in T}
<1>1. IsWellFoundedOn(R, SUBSET (1 .. n))
  <2>1. IsFiniteSet(1 .. n)
    BY FS_Interval
  <2>2. FiniteSubsetsOf(1 .. n) = SUBSET (1 .. n)
    BY <2>1, FS_FiniteSubsetsOfFinite
  <2> QED
    BY <2>2, FS_StrictSubsetOrderingWellFounded
<1>2. U \subseteq SUBSET (1 .. n)
  OBVIOUS
<1>3. U # {}
  OBVIOUS
<1> HIDE DEF R
<1>4. PICK x \in U : \A y \in U : <<y, x>> \notin R
  <2> HIDE DEF U
  <2> QED
    BY <1>1, <1>2, <1>3, WFMin
<1>5. PICK i \in T : x = i .. n
  OBVIOUS
<1>6. ASSUME NEW j \in T, j > i
      PROVE  FALSE
  <2>1. j .. n \in U /\ j .. n \in SUBSET (1 .. n) /\ x \in SUBSET (1 .. n)
    BY <1>2
  <2>2. j .. n \subseteq x /\ i \in x /\ i \notin j .. n
    BY <1>5, <1>6
  <2>3. <<j .. n, x>> \in R
    BY <2>1, <2>2 DEF R, StrictSubsetOrdering
  <2> QED
    BY <1>4, <2>1, <2>3
<1>7. i \in Nat /\ \A j \in T : j \in Nat
  OBVIOUS
<1> QED
  BY <1>6, <1>7

\* A signal is aimed at an activation that ends it, and so does none above it.
LEMMA TargetAimed ==
  ASSUME acts \in Seq(Activation), acts # <<>>, NEW sig \in Jumps \cup {"error"}
  PROVE  Aimed(acts, [kind |-> sig, target |-> Target(sig)])
<1> DEFINE T == {i \in 1 .. Height : acts[i].kind \in Ends[sig]}
           sg == [kind |-> sig, target |-> Target(sig)]
<1>1. Height \in Nat \ {0} /\ Height = Len(acts)
  BY Shortened DEF Height
<1>2. \A i \in 1 .. Height : acts[i].kind \in Kinds
  <2>1. \A i \in 1 .. Height : acts[i] \in Activation
    BY DEF Height
  <2> QED
    BY <2>1 DEF Activation
<1>3. sg.kind = sig /\ sg.target = Target(sig)
  OBVIOUS
<1>4. CASE T = {}
  <2>1. Target(sig) = 1
    BY <1>4 DEF Target
  <2>2. \A j \in 1 .. Height : sig \notin Catches(acts[j].kind)
    BY <1>2, <1>4, EndsAreCatches
  <2> QED
    BY <1>1, <2>1, <2>2 DEF Aimed
<1>5. CASE T # {}
  <2>1. Target(sig) = CHOOSE i \in T : \A j \in T : j <= i
    BY <1>5 DEF Target
  <2>2. \E i \in T : \A j \in T : j <= i
    <3>1. T \in SUBSET (1 .. Height)
      OBVIOUS
    <3> HIDE DEF T
    <3> QED
      BY <1>1, <1>5, <3>1, LastOne
  <2>3. Target(sig) \in T /\ \A j \in T : j <= Target(sig)
    <3> HIDE DEF T
    <3> QED
      BY <2>1, <2>2
  <2>4. sig \in Catches(acts[Target(sig)].kind)
    BY <1>2, <2>3, EndsAreCatches
  <2>5. ASSUME NEW j \in 1 .. Height, j > Target(sig)
        PROVE  sig \notin Catches(acts[j].kind)
    <3>1. j \notin T
      BY <1>1, <2>3, <2>5
    <3> QED
      BY <1>2, <3>1, EndsAreCatches
  <2> QED
    BY <1>1, <2>3, <2>4, <2>5 DEF Aimed
<1> QED
  BY <1>4, <1>5

\* A signal that the last activation does not end is aimed further down.
LEMMA StillAimed ==
  ASSUME NEW q \in Seq(Activation), q # <<>>, Shape(q), q[Len(q)].kind # "top",
         NEW sg \in [kind : Jumps \cup {"none", "error"}, target : Nat],
         Aimed(q, sg), sg.kind \notin Catches(q[Len(q)].kind)
  PROVE  Aimed(SubSeq(q, 1, Len(q) - 1), sg)
<1> DEFINE r == SubSeq(q, 1, Len(q) - 1)
           n == Len(q) - 1
<1>1. /\ n \in Nat /\ Len(r) = n /\ Len(q) = n + 1
      /\ \A i \in 1 .. n : r[i] = q[i]
  BY Shortened
<1> HIDE DEF r, n
<1>2. n # 0
  BY <1>1 DEF Shape
<1>3. sg.target # n + 1
  BY <1>1, <1>2 DEF Aimed
<1>4. sg.target \in 1 .. n
  BY <1>1, <1>3 DEF Aimed
<1>5. \A j \in 1 .. n : j > sg.target => sg.kind \notin Catches(r[j].kind)
  BY <1>1 DEF Aimed
<1>6. sg.target = 1 \/ sg.kind \in Catches(r[sg.target].kind)
  BY <1>1, <1>4 DEF Aimed
<1>7. Aimed(r, sg)
  BY <1>1, <1>4, <1>5, <1>6 DEF Aimed
<1> QED
  BY <1>7 DEF r

-----------------------------------------------------------------------------
(* The steps of the evaluator. *)

LEMMA IInvIsNested ==
  IInv <=> /\ TypeOK
           /\ Nested(acts, depth, stack, failures, static)
           /\ IF signal.kind = "none" THEN signal = NoSignal ELSE Aimed(acts, signal)
BY DEF IInv, Nested, ScopeFollowsCalls, LocationsFollowCalls, StaticFollowsTypes

LEMMA InitIInv == Init => IInv
<1> SUFFICES ASSUME Init PROVE IInv
  OBVIOUS
<1>1. TypeOK
  <2>1. acts \in Seq(Activation) /\ stack \in Seq(Kinds)
    BY DEF Init
  <2>2. signal \in [kind : Jumps \cup {"none", "error"}, target : Nat]
    BY DEF Init, NoSignal
  <2> QED
    BY <2>1, <2>2 DEF Init, TypeOK
<1>2. Len(acts) = 0 /\ 1 .. Len(acts) = {}
  BY DEF Init
<1>3. Nested(acts, depth, stack, failures, static)
  BY <1>2 DEF Init, Nested, ScopesNest, LocationsNest, TypesNest, Shape, Grows
<1> QED
  BY <1>1, <1>3, IInvIsNested DEF Init, NoSignal

\* An activation that remembers what it found.
LEMMA Begins ==
  ASSUME IInv, NEW kind \in Kinds, kind = "top" <=> acts = <<>>,
         kind = "static" \/ ~static
  PROVE  /\ Begin(kind) \in Activation
         /\ Begin(kind).kind = kind
         /\ Begin(kind).epCount = depth
         /\ Begin(kind).locs = Len(stack)
         /\ Append(acts, Begin(kind)) \in Seq(Activation)
         /\ Nested(Append(acts, Begin(kind)),
                   IF kind \in Scoped THEN depth + 1 ELSE depth,
                   IF kind \in Pushed THEN Append(stack, kind) ELSE stack,
                   failures, static \/ kind = "static")
<1> DEFINE a == Begin(kind)
<1>1. TypeOK /\ Nested(acts, depth, stack, failures, static)
  BY IInvIsNested
<1>2. /\ a \in Activation /\ a.kind = kind /\ a.epCount = depth
      /\ a.locs = Len(stack) /\ a.wasStatic = static
  BY <1>1 DEF TypeOK, Begin, Activation
<1>3. /\ acts \in Seq(Activation) /\ depth \in Nat /\ stack \in Seq(Kinds)
      /\ failures \in Nat /\ static \in BOOLEAN
  BY <1>1 DEF TypeOK
<1>4. acts = <<>> => Len(stack) = failures
  BY <1>1 DEF Nested, LocationsNest
<1>5. DepthIn(a) = IF kind \in Scoped THEN depth + 1 ELSE depth
  BY <1>2 DEF DepthIn
<1> HIDE DEF a
<1>6. Nested(Append(acts, a), DepthIn(a),
             IF a.kind \in Pushed THEN Append(stack, a.kind) ELSE stack,
             failures, static \/ a.kind = "static")
  BY <1>1, <1>2, <1>3, <1>4, BeginNests
<1>7. Append(acts, a) \in Seq(Activation)
  BY <1>2, <1>3
<1> QED
  BY <1>2, <1>5, <1>6, <1>7 DEF a

\* The activation that runs: outside of type expressions unless it is one.
LEMMA RunningTop ==
  ASSUME IInv, Running
  PROVE  /\ acts # <<>> /\ Height = Len(acts) /\ Height \in Nat \ {0}
         /\ Top = acts[Len(acts)] /\ Top \in Activation
         /\ Top.kind # "static" => ~static
<1>1. acts \in Seq(Activation) /\ static \in BOOLEAN
  BY DEF IInv, TypeOK
<1>2. acts # <<>>
  BY DEF Running, Height
<1>3. Height = Len(acts) /\ Height \in Nat \ {0} /\ Top = acts[Len(acts)] /\ Top \in Activation
  BY <1>1, <1>2, Shortened DEF Height, Top
<1>4. TypesNest(acts, static)
  BY IInvIsNested DEF Nested
<1>5. ASSUME Top.kind # "static" PROVE ~static
  BY <1>1, <1>2, <1>3, <1>4, <1>5, NotStatic
<1> QED
  BY <1>2, <1>3, <1>5

\* Ending the activation that runs.
LEMMA TopEnds ==
  ASSUME IInv, acts # <<>>, NEW d1, NEW u, NEW f1,
         Undoes(Top, depth, stack, static, d1, u, f1)
  PROVE  /\ SubSeq(acts, 1, Height - 1) \in Seq(Activation)
         /\ Len(SubSeq(acts, 1, Height - 1)) = Height - 1
         /\ Nested(SubSeq(acts, 1, Height - 1), d1, u, failures, f1)
         /\ u \in Seq(Kinds) /\ Len(u) = Top.locs
         /\ d1 \in Nat /\ d1 = Top.epCount
         /\ f1 \in BOOLEAN
<1>1. /\ acts \in Seq(Activation) /\ depth \in Nat /\ stack \in Seq(Kinds)
      /\ failures \in Nat /\ static \in BOOLEAN
  BY DEF IInv, TypeOK
<1>2. Nested(acts, depth, stack, failures, static)
  BY IInvIsNested
<1>3. Top \in Activation /\ Top = acts[Len(acts)] /\ Height = Len(acts)
  BY <1>1, Shortened DEF Top, Height
<1>4. Nested(SubSeq(acts, 1, Len(acts) - 1), d1, u, failures, f1)
  BY <1>1, <1>2, <1>3, EndNests
<1>6. Len(stack) = LocsIn(Top) /\ depth = DepthIn(Top)
  BY <1>2, <1>3 DEF Nested, ScopesNest, LocationsNest
<1>7. /\ u \in Seq(Kinds) /\ Len(u) = Top.locs
      /\ d1 \in Nat /\ d1 = Top.epCount
  <2>1. Restored(Top, stack, d1, u)
    BY <1>1, <1>3, <1>6, EndRestores
  <2> QED
    BY <2>1 DEF Restored
<1>5. f1 \in BOOLEAN
  BY DEF Undoes
<1> QED
  BY <1>1, <1>3, <1>4, <1>5, <1>7, Shortened

\* The block of a call, and the scope for its defaults.
LEMMA CallBlockNests ==
  ASSUME IInv, acts # <<>>, ~static, NEW kind \in {"fn", "lambda"},
         NEW withDefaults \in BOOLEAN, CallBlock(kind, withDefaults)
  PROVE  /\ acts' \in Seq(Activation) /\ depth' \in Nat
         /\ Nested(acts', depth', stack, failures, static)
<1> DEFINE block == Begin(kind)
           dflts == [block EXCEPT !.kind = "defaults", !.epCount = depth + 1]
           q == Append(acts, block)
<1>1. /\ depth \in Nat /\ stack \in Seq(Kinds) /\ failures \in Nat
      /\ static \in BOOLEAN
  BY DEF IInv, TypeOK
<1>2. kind \in Kinds /\ kind # "top" /\ kind # "static" /\ kind \in Scoped /\ kind \notin Pushed
  BY DEF Kinds, Scoped, Pushed
<1>3. /\ block \in Activation /\ block.locs = Len(stack)
      /\ q \in Seq(Activation) /\ Nested(q, depth + 1, stack, failures, static)
  BY <1>1, <1>2, Begins
<1>4. CASE ~withDefaults
  <2>1. acts' = q /\ depth' = depth + 1
    BY <1>4 DEF CallBlock
  <2> QED
    BY <1>1, <1>3, <2>1
<1>5. CASE withDefaults
  <2>1. acts' = Append(q, dflts) /\ depth' = depth + 2
    BY <1>5 DEF CallBlock
  <2>2. /\ dflts \in Activation /\ dflts.kind = "defaults" /\ dflts.epCount = depth + 1
        /\ dflts.locs = Len(stack)
    <3>1. ASSUME NEW b \in Activation, NEW e \in Nat
          PROVE  LET c == [b EXCEPT !.kind = "defaults", !.epCount = e]
                 IN  c \in Activation /\ c.kind = "defaults" /\ c.epCount = e
                     /\ c.locs = b.locs
      BY DEF Activation, Kinds
    <3>2. depth + 1 \in Nat
      BY <1>1
    <3> HIDE DEF block
    <3> QED
      BY <1>3, <3>1, <3>2
  <2>3. q # <<>>
    <3>1. Len(q) = Len(acts) + 1 /\ Len(acts) \in Nat
      BY <1>3, Extended DEF IInv, TypeOK
    <3> HIDE DEF q
    <3> QED
      BY <3>1
  <2>4. depth + 1 \in Nat /\ depth + 1 + 1 = depth + 2
    BY <1>1
  <2> HIDE DEF q, dflts
  <2>5. Nested(Append(q, dflts), DepthIn(dflts),
               IF dflts.kind \in Pushed THEN Append(stack, dflts.kind) ELSE stack,
               failures, static \/ dflts.kind = "static")
    BY <1>1, <1>3, <2>2, <2>3, <2>4, BeginNests
  <2>6. DepthIn(dflts) = depth + 2 /\ dflts.kind \notin Pushed /\ dflts.kind # "static"
    BY <2>2, <2>4 DEF DepthIn, Scoped, Pushed
  <2>7. Nested(Append(q, dflts), depth + 2, stack, failures, static)
    BY <1>1, <2>5, <2>6
  <2>8. Append(q, dflts) \in Seq(Activation)
    BY <1>3, <2>2
  <2> QED
    BY <1>1, <2>1, <2>7, <2>8
<1> QED
  BY <1>4, <1>5

\* call, from px.Load to the call of the function: the activation is replaced.
LEMMA PushCallNests ==
  ASSUME IInv, PushCall
  PROVE  /\ acts' \in Seq(Activation) /\ stack' \in Seq(Kinds)
         /\ Nested(acts', depth, stack', failures, static)
<1> DEFINE b == [Top EXCEPT !.kind = "call"]
           r == SubSeq(acts, 1, Len(acts) - 1)
<1>1. /\ acts \in Seq(Activation) /\ depth \in Nat /\ stack \in Seq(Kinds)
      /\ failures \in Nat /\ static \in BOOLEAN
  BY DEF IInv, TypeOK
<1>2. /\ acts # <<>> /\ Height = Len(acts) /\ Height \in Nat \ {0}
      /\ Top = acts[Len(acts)] /\ Top \in Activation /\ ~static
      /\ Top.kind = "load"
  BY RunningTop DEF PushCall
<1>3. Nested(acts, depth, stack, failures, static)
  BY IInvIsNested
<1>4. Top.kind \notin Scoped /\ Top.kind \notin Pushed /\ Top.kind # "static" /\ Top.kind # "top"
  BY <1>2 DEF Scoped, Pushed
<1>5. Nested(r, depth, stack, failures, static) /\ Len(stack) = Top.locs
  <2>1. Undoes(Top, depth, stack, static, depth, stack, static)
    BY <1>1, <1>4 DEF Undoes
  <2> QED
    BY <1>2, <2>1, TopEnds
<1>6. Top.epCount = depth
  BY <1>2, <1>3, <1>4 DEF Nested, ScopesNest, DepthIn
<1>7. /\ b \in Activation /\ b.kind = "call" /\ b.epCount = depth
      /\ b.locs = Len(stack)
  BY <1>2, <1>5, <1>6 DEF Activation, Kinds
<1>8. r \in Seq(Activation) /\ Len(r) = Height - 1 /\ \A i \in 1 .. Height - 1 : r[i] = acts[i]
  BY <1>1, <1>2, Shortened
<1>9. r # <<>>
  <2>1. Len(acts) # 1
    <3>1. acts[1].kind = "top" \/ 1 \notin 1 .. Len(acts)
      BY <1>3 DEF Nested, Shape
    <3> QED
      BY <1>2, <1>4, <3>1
  <2> HIDE DEF r
  <2> QED
    BY <1>2, <1>8, <2>1
<1> HIDE DEF r, b
<1>10. Nested(Append(r, b), DepthIn(b),
              IF b.kind \in Pushed THEN Append(stack, b.kind) ELSE stack,
              failures, static \/ b.kind = "static")
  BY <1>1, <1>2, <1>5, <1>7, <1>8, <1>9, BeginNests
<1>11. Nested(Append(r, b), depth, Append(stack, "call"), failures, static)
  <2>1. DepthIn(b) = depth /\ b.kind \in Pushed /\ b.kind # "static"
    BY <1>7 DEF DepthIn, Scoped, Pushed
  <2> QED
    BY <1>1, <1>7, <1>10, <2>1
<1>12. acts' = Append(r, b)
  <2> DEFINE q == [acts EXCEPT ![Height] = b]
             t == Append(r, b)
  <2>1. acts' = q
    BY DEF PushCall, b, Top
  <2>2. q \in Seq(Activation) /\ Len(q) = Height
    BY <1>1, <1>2, <1>7
  <2>3. t \in Seq(Activation) /\ Len(t) = Height /\ t[Height] = b
        /\ \A i \in 1 .. Height - 1 : t[i] = r[i]
    <3>1. Height - 1 + 1 = Height
      BY <1>2
    <3> QED
      BY <1>7, <1>8, <3>1, Extended
  <2>4. \A i \in 1 .. Height : q[i] = t[i]
    <3>1. \A i \in 1 .. Height : q[i] = IF i = Height THEN b ELSE acts[i]
      BY <1>1, <1>2
    <3>2. \A i \in 1 .. Height : i = Height \/ i \in 1 .. Height - 1
      BY <1>2
    <3> HIDE DEF q, t
    <3> QED
      BY <1>8, <2>3, <3>1, <3>2
  <2> HIDE DEF q, t
  <2>5. q = t
    BY <2>2, <2>3, <2>4, SeqEqual
  <2> QED
    BY <2>1, <2>5 DEF t
<1>13. stack' = Append(stack, "call")
  BY DEF PushCall
<1>14. Append(r, b) \in Seq(Activation) /\ Append(stack, "call") \in Seq(Kinds)
  BY <1>1, <1>7, <1>8 DEF Kinds
<1> QED
  BY <1>11, <1>12, <1>13, <1>14

\* A step that raises and ends no signal.
LEMMA NoSignalIInv ==
  ASSUME IInv, signal = NoSignal, signal' = NoSignal,
         tops' \in {tops, tops + 1}, failures' = failures,
         acts' \in Seq(Activation), depth' \in Nat, stack' \in Seq(Kinds),
         static' \in BOOLEAN,
         Nested(acts', depth', stack', failures', static')
  PROVE  IInv'
<1>1. TypeOK'
  <2>1. /\ tops' \in Nat /\ failures' \in Nat
        /\ signal' \in [kind : Jumps \cup {"none", "error"}, target : Nat]
    BY DEF IInv, TypeOK
  <2> QED
    BY <2>1 DEF TypeOK
<1>2. signal'.kind = "none"
  BY DEF NoSignal
<1> QED
  BY <1>1, <1>2
  DEF IInv, Nested, ScopeFollowsCalls, LocationsFollowCalls, StaticFollowsTypes, NoSignal

\* Steps that begin one activation.
LEMMA StartIInv ==
  ASSUME IInv,
         StartTop \/ StartProgram \/ StartLocal \/ StartCall \/ StartIteration \/ StartStatic
  PROVE  IInv'
<1>1. /\ depth \in Nat /\ stack \in Seq(Kinds) /\ static \in BOOLEAN
      /\ acts \in Seq(Activation) /\ Nested(acts, depth, stack, failures, static)
  BY IInvIsNested DEF TypeOK
<1>2. ASSUME NEW kind \in Kinds, Append(stack, kind) \notin Seq(Kinds)
      PROVE  FALSE
  BY <1>1, <1>2
<1>3. signal = NoSignal
  BY DEF StartTop, StartProgram, StartLocal, StartCall, StartIteration, StartStatic,
         Dynamic, Running
<1>4. CASE StartTop
  <2>1. acts = <<>>
    BY <1>1, <1>4 DEF StartTop, Height
  <2>2. ~static
    BY <1>1, <2>1 DEF Nested, TypesNest
  <2>3. acts' = Append(acts, Begin("top")) /\ stack' = Append(stack, "top")
    BY <1>4, <2>1 DEF StartTop
  <2>4. /\ Append(acts, Begin("top")) \in Seq(Activation)
        /\ Nested(Append(acts, Begin("top")), depth, Append(stack, "top"), failures, static)
    BY <1>1, <2>1, <2>2, Begins DEF Kinds, Scoped, Pushed
  <2>5. Append(stack, "top") \in Seq(Kinds)
    BY <1>2 DEF Kinds
  <2> QED
    BY <1>1, <1>3, <1>4, <2>3, <2>4, <2>5, NoSignalIInv DEF StartTop
<1>5. CASE StartProgram
  <2>1. acts # <<>> /\ ~static
    BY <1>5, RunningTop DEF StartProgram, Dynamic
  <2>2. /\ Append(acts, Begin("program")) \in Seq(Activation)
        /\ Nested(Append(acts, Begin("program")), depth, Append(stack, "program"),
                  failures, static)
    BY <1>1, <2>1, Begins DEF Kinds, Scoped, Pushed
  <2>3. Append(stack, "program") \in Seq(Kinds)
    BY <1>2 DEF Kinds
  <2> QED
    BY <1>1, <1>3, <1>5, <2>2, <2>3, NoSignalIInv DEF StartProgram
<1>6. CASE StartLocal
  <2>1. acts # <<>> /\ ~static
    BY <1>6, RunningTop DEF StartLocal, Dynamic
  <2>2. /\ Append(acts, Begin("local")) \in Seq(Activation)
        /\ Nested(Append(acts, Begin("local")), depth + 1, stack, failures, static)
    BY <1>1, <2>1, Begins DEF Kinds, Scoped, Pushed
  <2> QED
    BY <1>1, <1>3, <1>6, <2>2, NoSignalIInv DEF StartLocal
<1>7. CASE StartCall
  <2>1. acts # <<>> /\ ~static
    BY <1>7, RunningTop DEF StartCall, Dynamic
  <2>2. /\ Append(acts, Begin("load")) \in Seq(Activation)
        /\ Nested(Append(acts, Begin("load")), depth, stack, failures, static)
    BY <1>1, <2>1, Begins DEF Kinds, Scoped, Pushed
  <2> QED
    BY <1>1, <1>3, <1>7, <2>2, NoSignalIInv DEF StartCall
<1>8. CASE StartIteration
  <2>1. acts # <<>> /\ ~static
    BY <1>8, RunningTop DEF StartIteration
  <2>2. /\ Append(acts, Begin("iter")) \in Seq(Activation)
        /\ Nested(Append(acts, Begin("iter")), depth, stack, failures, static)
    BY <1>1, <2>1, Begins DEF Kinds, Scoped, Pushed
  <2> QED
    BY <1>1, <1>3, <1>8, <2>2, NoSignalIInv DEF StartIteration
<1>9. CASE StartStatic
  <2>1. acts # <<>>
    BY <1>9, RunningTop DEF StartStatic
  <2>2. /\ Append(acts, Begin("static")) \in Seq(Activation)
        /\ Nested(Append(acts, Begin("static")), depth, stack, failures, TRUE)
    BY <1>1, <2>1, Begins DEF Kinds, Scoped, Pushed
  <2> QED
    BY <1>1, <1>3, <1>9, <2>2, NoSignalIInv DEF StartStatic
<1> QED
  BY <1>4, <1>5, <1>6, <1>7, <1>8, <1>9

\* Steps of a call that has been started.
LEMMA CallIInv ==
  ASSUME IInv, NEW withDefaults \in BOOLEAN,
         \/ PushCall
         \/ \E kind \in {"fn", "lambda"} : Invoke(kind, withDefaults)
         \/ Iterate(withDefaults)
  PROVE  IInv'
<1>1. /\ depth \in Nat /\ stack \in Seq(Kinds) /\ static \in BOOLEAN
  BY IInvIsNested DEF TypeOK
<1>2. Running /\ signal = NoSignal
  BY DEF PushCall, Invoke, Iterate, Running
<1>3. CASE PushCall
  <2>1. /\ acts' \in Seq(Activation) /\ stack' \in Seq(Kinds)
        /\ Nested(acts', depth, stack', failures, static)
    BY <1>3, PushCallNests
  <2> QED
    BY <1>1, <1>2, <1>3, <2>1, NoSignalIInv DEF PushCall
<1>4. ASSUME NEW kind \in {"fn", "lambda"},
             CallBlock(kind, withDefaults), Top.kind # "static",
             UNCHANGED <<stack, static, signal, tops, failures>>
      PROVE  IInv'
  <2>1. acts # <<>> /\ ~static
    BY <1>2, <1>4, RunningTop
  <2>2. /\ acts' \in Seq(Activation) /\ depth' \in Nat
        /\ Nested(acts', depth', stack, failures, static)
    BY <1>4, <2>1, CallBlockNests
  <2> QED
    BY <1>1, <1>2, <1>4, <2>2, NoSignalIInv
<1> QED
  BY <1>3, <1>4 DEF Invoke, Iterate

\* Raising a signal.
LEMMA RaiseIInv ==
  ASSUME IInv, Running, NEW sig \in Jumps \cup {"error"}, RaiseSignal(sig)
  PROVE  IInv'
<1>1. acts # <<>> /\ acts \in Seq(Activation) /\ Height \in Nat
  BY RunningTop DEF IInv, TypeOK
<1>2. Aimed(acts, [kind |-> sig, target |-> Target(sig)])
  BY <1>1, TargetAimed
<1>3. signal' = [kind |-> sig, target |-> Target(sig)]
  BY DEF RaiseSignal
<1>4. Target(sig) \in Nat
  BY <1>1, <1>2 DEF Aimed
<1>5. signal' \in [kind : Jumps \cup {"none", "error"}, target : Nat]
  BY <1>3, <1>4
<1>6. signal'.kind # "none"
  BY <1>3 DEF Jumps
<1>7. TypeOK'
  BY <1>5 DEF IInv, TypeOK, RaiseSignal
<1>8. Aimed(acts', signal')
  BY <1>2, <1>3 DEF RaiseSignal
<1> QED
  BY <1>6, <1>7, <1>8
  DEF IInv, RaiseSignal, ScopeFollowsCalls, LocationsFollowCalls, StaticFollowsTypes

\* Ending an activation, unless a panic ends topEvaluate, undoes all it did.
LEMMA DeferredUndoes ==
  ASSUME IInv, acts # <<>>, NEW panicking \in BOOLEAN, RunDeferred(panicking),
         ~(panicking /\ Top.kind = "top")
  PROVE  Undoes(Top, depth, stack, static, depth', stack', static')
<1>1. static \in BOOLEAN
  BY DEF IInv, TypeOK
<1> QED
  BY <1>1 DEF RunDeferred, Undoes

LEMMA ReturnIInv ==
  ASSUME IInv, Return
  PROVE  IInv'
<1>1. signal = NoSignal /\ Running
  BY DEF Return, Running
<1>2. acts # <<>>
  BY <1>1, RunningTop
<1>3. Undoes(Top, depth, stack, static, depth', stack', static')
  BY <1>2, DeferredUndoes DEF Return
<1>4. /\ SubSeq(acts, 1, Height - 1) \in Seq(Activation)
      /\ Nested(SubSeq(acts, 1, Height - 1), depth', stack', failures, static')
      /\ stack' \in Seq(Kinds) /\ depth' \in Nat /\ static' \in BOOLEAN
  BY <1>2, <1>3, TopEnds
<1> QED
  BY <1>1, <1>4, NoSignalIInv DEF Return

\* A signal in flight, and the activation it finds.
LEMMA SignalTop ==
  ASSUME IInv, signal # NoSignal
  PROVE  /\ Aimed(acts, signal) /\ acts # <<>>
         /\ Height = Len(acts) /\ Height \in Nat \ {0}
         /\ Top = acts[Len(acts)] /\ Top \in Activation
         /\ signal.target \in 1 .. Height
<1>1. Aimed(acts, signal)
  BY DEF IInv
<1>2. acts \in Seq(Activation)
  BY DEF IInv, TypeOK
<1>3. acts # <<>>
  BY <1>1, <1>2 DEF Aimed
<1> QED
  BY <1>1, <1>2, <1>3, Shortened DEF Height, Top, Aimed

LEMMA UnwindIInv ==
  ASSUME IInv, Unwind
  PROVE  IInv'
<1>1. /\ Aimed(acts, signal) /\ acts # <<>> /\ Height = Len(acts)
      /\ Top = acts[Len(acts)] /\ Top.kind # "top"
  BY SignalTop DEF Unwind
<1>2. Undoes(Top, depth, stack, static, depth', stack', static')
  BY <1>1, DeferredUndoes DEF Unwind
<1>3. /\ SubSeq(acts, 1, Height - 1) \in Seq(Activation)
      /\ Nested(SubSeq(acts, 1, Height - 1), depth', stack', failures, static')
      /\ stack' \in Seq(Kinds) /\ depth' \in Nat /\ static' \in BOOLEAN
  BY <1>1, <1>2, TopEnds
<1>4. /\ acts' = SubSeq(acts, 1, Height - 1) /\ failures' = failures
      /\ tops' = tops
      /\ signal' = IF signal.kind \in Catches(Top.kind) THEN NoSignal ELSE signal
  BY DEF Unwind
<1>5. TypeOK'
  <2>1. signal' \in [kind : Jumps \cup {"none", "error"}, target : Nat]
    BY <1>4 DEF IInv, TypeOK, NoSignal
  <2> QED
    BY <1>3, <1>4, <2>1 DEF IInv, TypeOK
<1>6. IF signal'.kind = "none" THEN signal' = NoSignal ELSE Aimed(acts', signal')
  <2>1. CASE signal.kind \in Catches(Top.kind)
    BY <1>4, <2>1 DEF NoSignal
  <2>2. CASE signal.kind \notin Catches(Top.kind)
    <3>1. /\ acts \in Seq(Activation) /\ Shape(acts)
          /\ signal \in [kind : Jumps \cup {"none", "error"}, target : Nat]
      BY DEF IInv, TypeOK
    <3>2. Aimed(SubSeq(acts, 1, Len(acts) - 1), signal)
      BY <1>1, <2>2, <3>1, StillAimed
    <3>3. Aimed(acts', signal')
      BY <1>1, <1>4, <2>2, <3>2
    <3>4. signal.kind # "none"
      BY DEF IInv, Unwind
    <3> QED
      BY <1>4, <2>2, <3>3, <3>4
  <2> QED
    BY <2>1, <2>2
<1>7. Nested(acts', depth', stack', failures', static')
  BY <1>3, <1>4
<1> QED
  BY <1>5, <1>6, <1>7
  DEF IInv, Nested, ScopeFollowsCalls, LocationsFollowCalls, StaticFollowsTypes

\* topEvaluate panics: its location stays on the stack.
LEMMA UnwindTopIInv ==
  ASSUME IInv, UnwindTop
  PROVE  IInv'
<1>1. /\ acts # <<>> /\ Len(acts) = 1 /\ Top = acts[1] /\ Top.kind = "top"
  BY SignalTop DEF UnwindTop
<1>2. /\ depth \in Nat /\ stack \in Seq(Kinds) /\ static \in BOOLEAN
      /\ failures \in Nat /\ tops \in Nat
      /\ Nested(acts, depth, stack, failures, static)
  BY IInvIsNested DEF TypeOK
<1>3. /\ acts' = <<>> /\ depth' = depth /\ stack' = stack /\ static' = static
      /\ signal' = NoSignal /\ failures' = failures + 1
      /\ tops' = tops
  BY <1>1 DEF UnwindTop, RunDeferred, Scoped
<1>4. Len(<<>>) = 0 /\ 1 .. 0 = {}
  OBVIOUS
<1>5. depth = 1
  BY <1>1, <1>2 DEF Nested, ScopesNest, DepthIn, Scoped
<1>6. Len(stack) = failures + 1
  BY <1>1, <1>2 DEF Nested, LocationsNest, LocsIn, Pushed
<1>7. static = FALSE
  <2>1. \A i \in 1 .. Len(acts) : acts[i].kind # "static"
    BY <1>1
  <2> QED
    BY <1>2, <2>1 DEF Nested, TypesNest
<1>8. ScopesNest(acts', depth') /\ LocationsNest(acts', stack', failures')
  BY <1>3, <1>4, <1>5, <1>6 DEF ScopesNest, LocationsNest
<1>9. TypesNest(acts', static') /\ Shape(acts')
  BY <1>3, <1>4, <1>7 DEF TypesNest, Shape, Grows
<1>10. TypeOK'
  <2>1. signal' \in [kind : Jumps \cup {"none", "error"}, target : Nat]
    BY <1>3 DEF NoSignal
  <2>2. acts' \in Seq(Activation)
    BY <1>3
  <2> QED
    BY <1>2, <1>3, <2>1, <2>2 DEF TypeOK
<1>11. signal'.kind = "none"
  BY <1>3 DEF NoSignal
<1> QED
  BY <1>3, <1>8, <1>9, <1>10, <1>11
  DEF IInv, ScopeFollowsCalls, LocationsFollowCalls, StaticFollowsTypes

LEMMA NextIInv == IInv /\ [Next]_vars => IInv'
<1> SUFFICES ASSUME IInv, [Next]_vars PROVE IInv'
  OBVIOUS
<1>1. CASE StartTop \/ StartProgram \/ StartLocal \/ StartCall \/ StartIteration \/ StartStatic
  BY <1>1, StartIInv
<1>2. ASSUME NEW withDefaults \in BOOLEAN,
             \/ PushCall
             \/ \E kind \in {"fn", "lambda"} : Invoke(kind, withDefaults)
             \/ Iterate(withDefaults)
      PROVE  IInv'
  BY <1>2, CallIInv
<1>3. CASE (\E sig \in Jumps : Jump(sig)) \/ Fail
  <2>1. ASSUME NEW sig \in Jumps, Jump(sig) PROVE IInv'
    BY <2>1, RaiseIInv DEF Jump
  <2>2. CASE Fail
    BY <2>2, RaiseIInv DEF Fail
  <2> QED
    BY <1>3, <2>1, <2>2
<1>4. CASE Return
  BY <1>4, ReturnIInv
<1>5. CASE Unwind
  BY <1>5, UnwindIInv
<1>6. CASE UnwindTop
  BY <1>6, UnwindTopIInv
<1>7. CASE UNCHANGED vars
  <2>1. /\ acts' = acts /\ depth' = depth /\ stack' = stack /\ static' = static
        /\ signal' = signal /\ tops' = tops /\ failures' = failures
    BY <1>7 DEF vars
  <2> QED
    BY <2>1 DEF IInv, TypeOK, ScopeFollowsCalls, LocationsFollowCalls,
                StaticFollowsTypes
<1> QED
  BY <1>1, <1>2, <1>3, <1>4, <1>5, <1>6, <1>7 DEF Next

THEOREM Inductive == Spec => []IInv
BY InitIInv, NextIInv, PTL DEF Spec

-----------------------------------------------------------------------------
(* What the runs check on nine activations. *)

\* The state keeps its types however deep the calls nest: no deferred function
\* ever leaves a negative depth or pops an empty location stack.
THEOREM TypeCorrect == Spec => []TypeOK
<1>1. IInv => TypeOK
  BY DEF IInv
<1> QED
  BY Inductive, <1>1, PTL

\* The scope has exactly the frames of the activations that still run.
THEOREM ScopeBalanced == Spec => []ScopeFollowsCalls
<1>1. IInv => ScopeFollowsCalls
  BY DEF IInv
<1> QED
  BY Inductive, <1>1, PTL

\* Every StackPop pops what its own StackPush has pushed, and each topEvaluate
\* that panics leaves exactly one location.
THEOREM LocationsBalanced == Spec => []LocationsFollowCalls
<1>1. IInv => LocationsFollowCalls
  BY DEF IInv
<1> QED
  BY Inductive, <1>1, PTL

\* The static flag is set exactly while a type expression is evaluated.
THEOREM StaticOnlyInTypes == Spec => []StaticFollowsTypes
<1>1. IInv => StaticFollowsTypes
  BY DEF IInv
<1> QED
  BY Inductive, <1>1, PTL

\* Every signal ends the activation it was meant for and no other.
THEOREM SignalsEndTheirTarget == Spec => SignalReachesTarget
<1> DEFINE Reaches ==
      signal # NoSignal =>
        /\ Height >= signal.target
        /\ signal' # signal => Len(acts') = signal.target - 1
<1>1. IInv /\ [Next]_vars => [Reaches]_vars
  <2> SUFFICES ASSUME IInv, Next, signal # NoSignal
               PROVE  /\ Height >= signal.target
                      /\ signal' # signal => Len(acts') = signal.target - 1
    OBVIOUS
  <2>1. /\ Aimed(acts, signal) /\ acts # <<>>
        /\ Height = Len(acts) /\ Height \in Nat \ {0}
        /\ Top = acts[Len(acts)] /\ signal.target \in 1 .. Height
    BY SignalTop
  <2>2. CASE Unwind
    <3>1. ASSUME signal' # signal PROVE Len(acts') = signal.target - 1
      <4>1. signal.kind \in Catches(Top.kind)
        BY <2>2, <3>1 DEF Unwind
      <4>2. signal.target = Height
        BY <2>1, <4>1 DEF Aimed
      <4>3. Len(acts') = Height - 1
        BY <2>1, <2>2, Shortened DEF Unwind, IInv, TypeOK
      <4> QED
        BY <4>2, <4>3
    <3> QED
      BY <2>1, <3>1
  <2>3. CASE UnwindTop
    <3>1. signal.target = 1 /\ acts' = <<>>
      BY <2>1, <2>3 DEF UnwindTop
    <3> QED
      BY <2>1, <3>1
  <2>4. Unwind \/ UnwindTop
    BY DEF Next, StartTop, StartProgram, StartLocal, StartStatic, StartCall, PushCall,
           StartIteration, Invoke, Iterate, Jump, Fail, Return, Dynamic, Running
  <2> QED
    BY <2>2, <2>3, <2>4
<1>2. SignalReachesTarget <=> [][Reaches]_vars
  BY DEF SignalReachesTarget
<1> HIDE DEF Reaches
<1> QED
  BY Inductive, <1>1, <1>2, PTL DEF Spec
=============================================================================
