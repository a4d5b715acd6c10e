------------------------- MODULE DefinitionsProofs -------------------------
(***************************************************************************)
(* Theorems about Definitions, for any contexts and definitions.           *)
(*                                                                         *)
(* Arrays only grow and are only written behind what has been filled, so   *)
(* that slices go on fitting, shared or not (Grown).  When contexts are    *)
(* derived with nothing pending nothing is shared: each list of pending    *)
(* definitions and each active ResolveDefinitions is a holder with an      *)
(* array of its own, no definition is in two of them, and a function that  *)
(* has parameters is only in the one that works on it (Tidy).  The books   *)
(* then balance: what the holders have still open is what has been entered *)
(* and neither resolved nor dropped, each definition once (Accounted).     *)
(***************************************************************************)
EXTENDS Definitions, FiniteSetTheorems, TLAPS

Callables == Functions \cup FromFile
Filled == Definitions \cup {None}

\* TypeOK, with the slices of an arbitrary list of arrays.
FitsIn(a, slice) ==
  IF slice.array = 0 THEN slice.len = 0
  ELSE /\ slice.len \in 1 .. Len(a[slice.array])
       /\ \A i \in 1 .. slice.len : a[slice.array][i] \in Definitions
Slices(a) == {s \in [array : 0 .. Len(a), len : Nat] : FitsIn(a, s)}
Batches(a) ==
  {b \in [slice : Slices(a), next : Nat \ {0}, types : SUBSET Types,
          function : Callables \cup {None}, busy : {"no", "parameters", "return"}] :
     b.busy # "no" => b.function \in Callables}

\* What an evaluation relies on.
UpToDate ==
  \A c \in Contexts :
    /\ mode[c] \in {"resolving", "eval"} => pending[c] = Nil
    /\ batches[c] # <<>> => mode[c] \in {"resolving", "eval"}

SimpleTypes ==
  /\ careful \in Hosts
  /\ mode \in [Contexts -> Modes]
  /\ sees \in [Contexts -> SUBSET Contexts]
  /\ home \in [Contexts -> Contexts]
  /\ entry \in [Definitions -> Contexts \cup {None}]
  /\ parametered \subseteq Callables
  /\ resolved \subseteq Definitions /\ dropped \subseteq Definitions
  /\ again \subseteq Callables

IInv ==
  /\ SimpleTypes
  /\ arrays \in Seq(Seq(Filled))
  /\ pending \in [Contexts -> Slices(arrays)]
  /\ batches \in [Contexts -> Seq(Batches(arrays))]
  /\ UpToDate

-----------------------------------------------------------------------------
(* Sequences and slices. *)

LEMMA ElementOf ==
  ASSUME NEW S, NEW q \in Seq(S), NEW i \in 1 .. Len(q)
  PROVE  q[i] \in S
OBVIOUS

LEMMA SequenceIn ==
  ASSUME NEW S, NEW T, S \subseteq T, NEW q \in Seq(S)
  PROVE  q \in Seq(T)
<1>1. q = [i \in 1 .. Len(q) |-> q[i]] /\ Len(q) \in Nat
  OBVIOUS
<1>2. \A i \in 1 .. Len(q) : q[i] \in T
  BY ElementOf
<1> QED
  BY <1>1, <1>2

LEMMA Replaced ==
  ASSUME NEW S, NEW q \in Seq(S), NEW i \in 1 .. Len(q), NEW e \in S
  PROVE  [q EXCEPT ![i] = e] \in Seq(S) /\ Len([q EXCEPT ![i] = e]) = Len(q)
OBVIOUS

LEMMA Shortened ==
  ASSUME NEW S, NEW q \in Seq(S), NEW k \in 0 .. Len(q)
  PROVE  /\ SubSeq(q, 1, k) \in Seq(S) /\ Len(SubSeq(q, 1, k)) = k
         /\ \A i \in 1 .. k : SubSeq(q, 1, k)[i] = q[i]
OBVIOUS

LEMMA Extended ==
  ASSUME NEW S, NEW q \in Seq(S), NEW e \in S
  PROVE  /\ Append(q, e) \in Seq(S) /\ Len(Append(q, e)) = Len(q) + 1
         /\ Append(q, e)[Len(q) + 1] = e
         /\ \A i \in 1 .. Len(q) : Append(q, e)[i] = q[i]
OBVIOUS

\* What an append leaves: all other slices still fit, although it may have
\* written into an array that they share.
Grown(a, b) == Slices(a) \subseteq Slices(b)

LEMMA GrownBatches ==
  ASSUME NEW a, NEW b, Grown(a, b)
  PROVE  Batches(a) \subseteq Batches(b)
BY DEF Grown, Batches

LEMMA AnotherArray ==
  ASSUME NEW a \in Seq(Seq(Filled)), NEW q \in Seq(Filled), NEW n \in 1 .. Len(q),
         \A i \in 1 .. n : q[i] \in Definitions
  PROVE  /\ Append(a, q) \in Seq(Seq(Filled))
         /\ [array |-> Len(a) + 1, len |-> n] \in Slices(Append(a, q))
         /\ Grown(a, Append(a, q))
<1> DEFINE b == Append(a, q)
<1>1. /\ b \in Seq(Seq(Filled)) /\ Len(b) = Len(a) + 1 /\ Len(a) \in Nat
      /\ b[Len(a) + 1] = q /\ \A i \in 1 .. Len(a) : b[i] = a[i]
  BY Extended
<1> HIDE DEF b
<1>2. [array |-> Len(a) + 1, len |-> n] \in Slices(b)
  BY <1>1 DEF Slices, FitsIn
<1>3. ASSUME NEW s \in Slices(a) PROVE s \in Slices(b)
  <2>1. s \in [array : 0 .. Len(a), len : Nat] /\ FitsIn(a, s)
    BY DEF Slices
  <2>2. s \in [array : 0 .. Len(b), len : Nat]
    BY <1>1, <2>1
  <2>3. FitsIn(b, s)
    BY <1>1, <2>1 DEF FitsIn
  <2> QED
    BY <2>2, <2>3 DEF Slices
<1> QED
  BY <1>1, <1>2, <1>3 DEF b, Grown

LEMMA WrittenArray ==
  ASSUME NEW a \in Seq(Seq(Filled)), NEW k \in 1 .. Len(a), NEW n \in 1 .. Len(a[k]),
         NEW d \in Definitions
  PROVE  LET b == [a EXCEPT ![k][n] = d]
         IN  /\ b \in Seq(Seq(Filled)) /\ Len(b) = Len(a)
             /\ \A i \in 1 .. Len(a) : Len(b[i]) = Len(a[i])
             /\ \A i \in 1 .. Len(a) : \A j \in 1 .. Len(a[i]) :
                  b[i][j] = IF i = k /\ j = n THEN d ELSE a[i][j]
<1> DEFINE q == [a[k] EXCEPT ![n] = d]
<1>1. a[k] \in Seq(Filled) /\ d \in Filled
  BY ElementOf DEF Filled
<1>2. q \in Seq(Filled) /\ Len(q) = Len(a[k])
      /\ \A j \in 1 .. Len(a[k]) : q[j] = IF j = n THEN d ELSE a[k][j]
  BY <1>1
<1>3. [a EXCEPT ![k][n] = d] = [a EXCEPT ![k] = q]
  OBVIOUS
<1> HIDE DEF q
<1>4. [a EXCEPT ![k] = q] \in Seq(Seq(Filled)) /\ Len([a EXCEPT ![k] = q]) = Len(a)
  BY <1>2, Replaced
<1>5. \A i \in 1 .. Len(a) : [a EXCEPT ![k] = q][i] = IF i = k THEN q ELSE a[i]
  OBVIOUS
<1> QED
  BY <1>2, <1>3, <1>4, <1>5

LEMMA WrittenFits ==
  ASSUME NEW a \in Seq(Seq(Filled)), NEW slice \in Slices(a), slice.array # 0,
         slice.len < Len(a[slice.array]), NEW d \in Definitions
  PROVE  LET b == [a EXCEPT ![slice.array][slice.len + 1] = d]
         IN  /\ b \in Seq(Seq(Filled)) /\ Grown(a, b)
             /\ [array |-> slice.array, len |-> slice.len + 1] \in Slices(b)
<1> DEFINE b == [a EXCEPT ![slice.array][slice.len + 1] = d]
<1>1. /\ slice \in [array : 0 .. Len(a), len : Nat] /\ FitsIn(a, slice)
      /\ slice.array \in 1 .. Len(a) /\ slice.len \in Nat /\ Len(a) \in Nat
  BY DEF Slices
<1>2. a[slice.array] \in Seq(Filled) /\ Len(a[slice.array]) \in Nat
  BY <1>1, ElementOf
<1>3. slice.len + 1 \in 1 .. Len(a[slice.array])
  BY <1>1, <1>2
<1>4. /\ b \in Seq(Seq(Filled)) /\ Len(b) = Len(a)
      /\ \A i \in 1 .. Len(a) : Len(b[i]) = Len(a[i])
      /\ \A i \in 1 .. Len(a) : \A j \in 1 .. Len(a[i]) :
           b[i][j] = IF i = slice.array /\ j = slice.len + 1 THEN d ELSE a[i][j]
  BY <1>1, <1>3, WrittenArray
<1> HIDE DEF b
<1>5. \A i \in 1 .. Len(a) : Len(a[i]) \in Nat
  BY ElementOf
<1>6. ASSUME NEW s \in Slices(a) PROVE s \in Slices(b)
  <2>1. s \in [array : 0 .. Len(a), len : Nat] /\ FitsIn(a, s)
    BY DEF Slices
  <2>2. CASE s.array = 0
    BY <1>4, <2>1, <2>2 DEF Slices, FitsIn
  <2>3. CASE s.array # 0
    <3>1. /\ s.array \in 1 .. Len(a) /\ s.len \in 1 .. Len(a[s.array])
          /\ \A i \in 1 .. s.len : a[s.array][i] \in Definitions
      BY <1>1, <2>1, <2>3 DEF FitsIn
    <3>2. s.len \in 1 .. Len(b[s.array])
      BY <1>4, <3>1
    <3>3. \A i \in 1 .. s.len : i \in 1 .. Len(a[s.array])
      BY <1>5, <3>1
    <3>4. \A i \in 1 .. s.len : b[s.array][i] \in Definitions
      BY <1>4, <3>1, <3>3
    <3> QED
      BY <1>4, <2>1, <2>3, <3>2, <3>4 DEF Slices, FitsIn
  <2> QED
    BY <2>2, <2>3
<1>7. [array |-> slice.array, len |-> slice.len + 1] \in Slices(b)
  <2>1. \A i \in 1 .. slice.len + 1 : i \in 1 .. slice.len \/ i = slice.len + 1
    BY <1>1
  <2>2. \A i \in 1 .. slice.len : a[slice.array][i] \in Definitions /\ i \in 1 .. Len(a[slice.array])
    BY <1>1, <1>2 DEF FitsIn
  <2>3. \A i \in 1 .. slice.len + 1 : b[slice.array][i] \in Definitions
    BY <1>1, <1>3, <1>4, <2>1, <2>2
  <2> QED
    BY <1>1, <1>3, <1>4, <2>3 DEF Slices, FitsIn
<1> QED
  BY <1>4, <1>6, <1>7 DEF b, Grown

LEMMA AppendedFits ==
  ASSUME arrays \in Seq(Seq(Filled)), NEW slice \in Slices(arrays), NEW d \in Definitions
  PROVE  LET after == Appended(slice, d)
         IN  /\ after.arrays \in Seq(Seq(Filled)) /\ Grown(arrays, after.arrays)
             /\ after.slice \in Slices(after.arrays)
<1> DEFINE array == arrays[slice.array]
           twice == [i \in 1 .. 2 * slice.len |->
                       IF i <= slice.len THEN array[i] ELSE IF i = slice.len + 1 THEN d ELSE None]
           fresh == [array |-> Len(arrays) + 1, len |-> slice.len + 1]
<1>1. /\ slice \in [array : 0 .. Len(arrays), len : Nat] /\ FitsIn(arrays, slice)
      /\ slice.len \in Nat /\ Len(arrays) \in Nat
  BY DEF Slices
<1>2. CASE slice.array = 0
  <2>1. slice.len = 0
    BY <1>1, <1>2 DEF FitsIn
  <2>2. Appended(slice, d) = [arrays |-> Append(arrays, <<d>>), slice |-> fresh]
    BY <1>2 DEF Appended
  <2> DEFINE q == <<d>>
  <2>3. q \in Seq(Filled) /\ Len(q) = 1 /\ q[1] = d
    BY DEF Filled
  <2>4. 1 \in 1 .. Len(q) /\ \A i \in 1 .. 1 : q[i] \in Definitions
    BY <2>3
  <2>5. Appended(slice, d).arrays = Append(arrays, q)
    BY <2>2
  <2>6. Appended(slice, d).slice = [array |-> Len(arrays) + 1, len |-> 1]
    BY <1>1, <2>1, <2>2
  <2> HIDE DEF q
  <2>7. /\ Append(arrays, q) \in Seq(Seq(Filled)) /\ Grown(arrays, Append(arrays, q))
        /\ [array |-> Len(arrays) + 1, len |-> 1] \in Slices(Append(arrays, q))
    BY <2>3, <2>4, AnotherArray
  <2> QED
    BY <2>5, <2>6, <2>7
<1>3. CASE slice.array # 0 /\ slice.len < Len(array)
  <2>1. Appended(slice, d).arrays = [arrays EXCEPT ![slice.array][slice.len + 1] = d]
    BY <1>3 DEF Appended
  <2>2. Appended(slice, d).slice = [slice EXCEPT !.len = @ + 1]
    BY <1>3 DEF Appended
  <2>3. [slice EXCEPT !.len = @ + 1] = [array |-> slice.array, len |-> slice.len + 1]
    BY <1>1
  <2>4. LET b == [arrays EXCEPT ![slice.array][slice.len + 1] = d]
        IN  /\ b \in Seq(Seq(Filled)) /\ Grown(arrays, b)
            /\ [array |-> slice.array, len |-> slice.len + 1] \in Slices(b)
    BY <1>3, WrittenFits
  <2> QED
    BY <2>1, <2>2, <2>3, <2>4
<1>4. CASE slice.array # 0 /\ ~(slice.len < Len(array))
  <2>1. Appended(slice, d) = [arrays |-> Append(arrays, twice), slice |-> fresh]
    BY <1>4 DEF Appended
  <2>2. slice.len \in 1 .. Len(array) /\ \A i \in 1 .. slice.len : array[i] \in Definitions
    BY <1>1, <1>4 DEF FitsIn
  <2>3. twice \in Seq(Filled) /\ Len(twice) = 2 * slice.len
    <3>1. \A i \in 1 .. 2 * slice.len :
            (IF i <= slice.len THEN array[i] ELSE IF i = slice.len + 1 THEN d ELSE None) \in Filled
      BY <1>1, <2>2 DEF Filled
    <3>2. twice \in [1 .. 2 * slice.len -> Filled] /\ 2 * slice.len \in Nat
      BY <1>1, <3>1
    <3> HIDE DEF twice
    <3> QED
      BY <3>2
  <2>4. slice.len + 1 \in 1 .. Len(twice)
    BY <1>1, <2>2, <2>3
  <2>5. \A i \in 1 .. slice.len + 1 : twice[i] \in Definitions
    BY <1>1, <2>2
  <2> HIDE DEF twice
  <2> QED
    BY <2>1, <2>3, <2>4, <2>5, AnotherArray
<1> QED
  BY <1>2, <1>3, <1>4

-----------------------------------------------------------------------------
(* Types. *)

LEMMA BatchesOf ==
  ASSUME IInv, NEW c \in Contexts
  PROVE  /\ batches[c] \in Seq(Batches(arrays)) /\ Depth(c) = Len(batches[c]) /\ Depth(c) \in Nat
         /\ \A i \in 1 .. Depth(c) : batches[c][i] \in Batches(arrays)
         /\ batches[c] # <<>> => /\ Depth(c) \in 1 .. Len(batches[c])
                                 /\ Innermost(c) \in Batches(arrays)
<1>1. batches[c] \in Seq(Batches(arrays))
  BY DEF IInv
<1>2. \A i \in 1 .. Len(batches[c]) : batches[c][i] \in Batches(arrays)
  BY <1>1, ElementOf
<1>3. batches[c] # <<>> => Len(batches[c]) \in 1 .. Len(batches[c])
  BY <1>1
<1> QED
  BY <1>1, <1>2, <1>3 DEF Depth, Innermost

\* The element at the index of a call that has not come to its end.
LEMMA CurrentIs ==
  ASSUME IInv, NEW c \in Contexts, batches[c] # <<>>, ~AtEnd(Innermost(c))
  PROVE  Current(Innermost(c)) \in Definitions
<1> DEFINE b == Innermost(c)
<1>1. b \in Batches(arrays)
  BY BatchesOf
<1>2. b.slice \in [array : 0 .. Len(arrays), len : Nat] /\ FitsIn(arrays, b.slice)
      /\ b.next \in Nat \ {0}
  BY <1>1 DEF Batches, Slices
<1>3. b.next \in 1 .. b.slice.len
  BY <1>2 DEF AtEnd
<1>4. b.slice.array # 0
  BY <1>2, <1>3 DEF FitsIn
<1> QED
  BY <1>2, <1>3, <1>4 DEF FitsIn, Current

LEMMA RemainingIs ==
  ASSUME IInv, NEW c \in Contexts, NEW i \in 1 .. Depth(c)
  PROVE  Remaining(batches[c][i]) \subseteq Definitions
<1> DEFINE b == batches[c][i]
<1>1. b \in Batches(arrays)
  BY BatchesOf
<1>2. /\ b.slice \in [array : 0 .. Len(arrays), len : Nat] /\ FitsIn(arrays, b.slice)
      /\ b.next \in Nat \ {0} /\ b.types \subseteq Types
  BY <1>1 DEF Batches, Slices
<1>3. ASSUME NEW j \in b.next .. b.slice.len PROVE Elements(b.slice)[j] \in Definitions
  <2>1. j \in 1 .. b.slice.len /\ b.slice.array # 0
    BY <1>2, <1>3 DEF FitsIn
  <2>2. Elements(b.slice)[j] = arrays[b.slice.array][j]
    <3>1. arrays[b.slice.array] \in Seq(Filled) /\ b.slice.len \in 0 .. Len(arrays[b.slice.array])
      BY <1>2, <2>1, ElementOf DEF IInv, FitsIn
    <3> QED
      BY <2>1, <3>1, Shortened DEF Elements
  <2> QED
    BY <1>2, <2>1, <2>2 DEF FitsIn
<1> QED
  BY <1>2, <1>3 DEF Remaining, Definitions

\* A step that changes the calls of one context and no slice of a context.
LEMMA CallsKept ==
  ASSUME IInv, NEW c \in Contexts, NEW q, q \in Seq(Batches(arrays)),
         batches' = [batches EXCEPT ![c] = q],
         mode' = mode \/ (q = <<>> /\ mode' \in [Contexts -> Modes]
                           /\ (\A e \in Contexts \ {c} : mode'[e] = mode[e])
                           /\ (mode'[c] = "host" \/ mode'[c] = mode[c]
                                \/ (mode'[c] = "eval" /\ mode[c] \in {"resolving", "eval"}))),
         q # <<>> => mode[c] \in {"resolving", "eval"},
         UNCHANGED <<arrays, pending>>, SimpleTypes'
  PROVE  IInv'
<1>1. \A e \in Contexts : batches'[e] = IF e = c THEN q ELSE batches[e]
  BY DEF IInv
<1>2. batches' \in [Contexts -> Seq(Batches(arrays))]
  BY DEF IInv
<1>3. UpToDate'
  <2> SUFFICES ASSUME NEW e \in Contexts
               PROVE  /\ mode'[e] \in {"resolving", "eval"} => pending'[e] = Nil
                      /\ batches'[e] # <<>> => mode'[e] \in {"resolving", "eval"}
    BY DEF UpToDate, Nil
  <2>1. /\ mode[e] \in {"resolving", "eval"} => pending[e] = Nil
        /\ batches[e] # <<>> => mode[e] \in {"resolving", "eval"}
    BY DEF IInv, UpToDate
  <2>2. CASE e = c
    BY <1>1, <2>1, <2>2
  <2>3. CASE e # c
    BY <1>1, <2>1, <2>3
  <2> QED
    BY <2>2, <2>3
<1> QED
  BY <1>2, <1>3 DEF IInv

LEMMA PanicKept ==
  ASSUME IInv, NEW c \in Contexts, Panic(c), again' \subseteq Callables
  PROVE  IInv'
<1> PICK keep \in 0 .. Depth(c) :
    /\ keep = Depth(c) => keep = 0
    /\ batches' = [batches EXCEPT ![c] = SubSeq(@, 1, keep)]
    /\ dropped' = dropped \cup (Unfinished(c, keep) \ resolved)
    /\ \/ keep > 0 /\ UNCHANGED mode
       \/ keep = 0 /\ mode[c] = "eval" /\ UNCHANGED mode
       \/ keep = 0 /\ mode' = [mode EXCEPT ![c] = "host"]
    /\ UNCHANGED <<careful, arrays, pending, sees, home, entry, parametered, resolved>>
  BY DEF Panic
<1> DEFINE q == SubSeq(batches[c], 1, keep)
<1>1. batches[c] \in Seq(Batches(arrays)) /\ Depth(c) = Len(batches[c]) /\ Depth(c) \in Nat
  BY BatchesOf
<1>2. q \in Seq(Batches(arrays)) /\ Len(q) = keep
  BY <1>1, Shortened
<1>3. keep = 0 => q = <<>>
  BY <1>2
<1>4. batches' = [batches EXCEPT ![c] = q]
  OBVIOUS
<1> HIDE DEF q
<1>5. keep > 0 => mode[c] \in {"resolving", "eval"}
  <2>1. keep > 0 => batches[c] # <<>>
    BY <1>1
  <2> QED
    BY <2>1 DEF IInv, UpToDate
<1>6. dropped' \subseteq Definitions
  <2>1. \A i \in keep + 1 .. Depth(c) : Remaining(batches[c][i]) \subseteq Definitions
    <3>1. \A i \in keep + 1 .. Depth(c) : i \in 1 .. Depth(c)
      BY <1>1
    <3> QED
      BY <3>1, RemainingIs
  <2>2. dropped \subseteq Definitions
    BY DEF IInv, SimpleTypes
  <2> QED
    BY <2>1, <2>2 DEF Unfinished
<1>7. mode' = mode \/ (keep = 0 /\ mode' = [mode EXCEPT ![c] = "host"])
  OBVIOUS
<1>8. SimpleTypes' /\ mode' \in [Contexts -> Modes]
  BY <1>6, <1>7 DEF IInv, SimpleTypes, Modes
<1>9. mode' = mode \/ (q = <<>> /\ mode' \in [Contexts -> Modes]
                           /\ (\A e \in Contexts \ {c} : mode'[e] = mode[e])
                           /\ (mode'[c] = "host" \/ mode'[c] = mode[c]
                                \/ (mode'[c] = "eval" /\ mode[c] \in {"resolving", "eval"})))
  BY <1>3, <1>7, <1>8 DEF IInv, SimpleTypes
<1>10. q # <<>> => mode[c] \in {"resolving", "eval"}
  BY <1>2, <1>3, <1>5
<1> QED
  BY <1>2, <1>4, <1>8, <1>9, <1>10, CallsKept

\* A step that changes the innermost call of a context.
LEMMA InnermostKept ==
  ASSUME IInv, NEW c \in Contexts, batches[c] # <<>>, NEW b, b \in Batches(arrays),
         batches' = [batches EXCEPT ![c][Depth(c)] = b],
         UNCHANGED <<arrays, pending, mode>>, SimpleTypes'
  PROVE  IInv'
<1> DEFINE q == [batches[c] EXCEPT ![Depth(c)] = b]
<1>1. /\ batches[c] \in Seq(Batches(arrays)) /\ Depth(c) \in 1 .. Len(batches[c])
  BY BatchesOf
<1>2. q \in Seq(Batches(arrays))
  BY <1>1, Replaced
<1>3. batches' = [batches EXCEPT ![c] = q]
  OBVIOUS
<1>4. mode[c] \in {"resolving", "eval"}
  BY DEF IInv, UpToDate
<1> HIDE DEF q
<1> QED
  BY <1>2, <1>3, <1>4, CallsKept

\* The fields of a call.
LEMMA FieldsOf ==
  ASSUME NEW b \in Batches(arrays)
  PROVE  /\ b \in [slice : Slices(arrays), next : Nat \ {0}, types : SUBSET Types,
                   function : Callables \cup {None}, busy : {"no", "parameters", "return"}]
         /\ b.busy # "no" => b.function \in Callables
BY DEF Batches

LEMMA FieldsChanged ==
  ASSUME NEW S, NEW N, NEW T, NEW F, NEW B,
         NEW b \in [slice : S, next : N, types : T, function : F, busy : B],
         NEW next \in N, NEW types \in T, None \in F, "no" \in B
  PROVE  /\ [b EXCEPT !.types = types, !.next = next]
              \in [slice : S, next : N, types : T, function : F, busy : B]
         /\ [b EXCEPT !.types = types, !.next = next].busy = b.busy
         /\ [b EXCEPT !.types = types, !.next = next].function = b.function
         /\ [b EXCEPT !.next = next, !.function = None, !.busy = "no"]
              \in [slice : S, next : N, types : T, function : F, busy : B]
         /\ [b EXCEPT !.next = next, !.function = None, !.busy = "no"].busy = "no"
OBVIOUS

LEMMA CollectTypeKept ==
  ASSUME IInv, NEW c \in Contexts, CollectType(c)
  PROVE  IInv'
<1> DEFINE b == Innermost(c)
           new == Collected(b)
<1>1. batches[c] # <<>> /\ b \in Batches(arrays) /\ Current(b) \in Types
  BY BatchesOf DEF CollectType, Resolving
<1>2. new \in Batches(arrays)
  <2>1. /\ b \in [slice : Slices(arrays), next : Nat \ {0}, types : SUBSET Types,
                  function : Callables \cup {None}, busy : {"no", "parameters", "return"}]
        /\ b.busy # "no" => b.function \in Callables
    BY <1>1, FieldsOf
  <2>2. b.next + 1 \in Nat \ {0} /\ b.types \cup {Current(b)} \in SUBSET Types
    BY <1>1, <2>1
  <2>3. /\ new \in [slice : Slices(arrays), next : Nat \ {0}, types : SUBSET Types,
                    function : Callables \cup {None}, busy : {"no", "parameters", "return"}]
        /\ new.busy = b.busy /\ new.function = b.function
    BY <2>1, <2>2, FieldsChanged DEF Collected
  <2> HIDE DEF new, b
  <2> QED
    BY <2>1, <2>2, <2>3 DEF Batches
<1>3. batches' = [batches EXCEPT ![c][Depth(c)] = new]
  BY DEF CollectType, Innermost
<1>4. SimpleTypes' /\ UNCHANGED <<arrays, pending, mode>>
  BY DEF CollectType, IInv, SimpleTypes
<1> HIDE DEF new
<1> QED
  BY <1>1, <1>2, <1>3, <1>4, InnermostKept

LEMMA BeginResolveKept ==
  ASSUME IInv, NEW c \in Contexts, BeginResolve(c)
  PROVE  IInv'
<1> DEFINE b == Innermost(c)
           new == [b EXCEPT !.busy = "parameters", !.function = Current(b)]
<1>1. batches[c] # <<>> /\ b \in Batches(arrays) /\ Current(b) \in Callables
  BY BatchesOf, CurrentIs DEF BeginResolve, Resolving, Definitions, Callables
<1>2. new \in Batches(arrays)
  BY <1>1, FieldsOf DEF Batches
<1>3. batches' = [batches EXCEPT ![c][Depth(c)] = new]
  BY DEF BeginResolve, Innermost
<1>4. SimpleTypes' /\ UNCHANGED <<arrays, pending, mode>>
  BY DEF BeginResolve, IInv, SimpleTypes
<1> HIDE DEF new
<1> QED
  BY <1>1, <1>2, <1>3, <1>4, InnermostKept

LEMMA SetParametersKept ==
  ASSUME IInv, NEW c \in Contexts, SetParameters(c)
  PROVE  IInv'
<1> DEFINE b == Innermost(c)
           new == [b EXCEPT !.busy = "return"]
<1>1. batches[c] # <<>> /\ b \in Batches(arrays) /\ b.function \in Callables
  BY BatchesOf, FieldsOf DEF SetParameters
<1>2. new \in Batches(arrays)
  BY <1>1, FieldsOf DEF Batches
<1>3. batches' = [batches EXCEPT ![c][Depth(c)] = new]
  BY DEF SetParameters, Innermost
<1>4. SimpleTypes' /\ UNCHANGED <<arrays, pending, mode>>
  BY <1>1 DEF SetParameters, IInv, SimpleTypes
<1> HIDE DEF new
<1> QED
  BY <1>1, <1>2, <1>3, <1>4, InnermostKept

LEMMA EndResolveKept ==
  ASSUME IInv, NEW c \in Contexts, EndResolve(c)
  PROVE  IInv'
<1> DEFINE b == Innermost(c)
           new == Advanced(b)
<1>1. batches[c] # <<>> /\ b \in Batches(arrays) /\ b.function \in Definitions
  BY BatchesOf, FieldsOf DEF EndResolve, Callables, Definitions
<1>2. new \in Batches(arrays)
  <2>1. b \in [slice : Slices(arrays), next : Nat \ {0}, types : SUBSET Types,
               function : Callables \cup {None}, busy : {"no", "parameters", "return"}]
    BY <1>1, FieldsOf
  <2>2. b.next + 1 \in Nat \ {0} /\ {} \in SUBSET Types
    BY <2>1
  <2>3. /\ new \in [slice : Slices(arrays), next : Nat \ {0}, types : SUBSET Types,
                    function : Callables \cup {None}, busy : {"no", "parameters", "return"}]
        /\ new.busy = "no"
    BY <2>1, <2>2, FieldsChanged DEF Advanced
  <2> HIDE DEF new, b
  <2> QED
    BY <2>3 DEF Batches
<1>3. batches' = [batches EXCEPT ![c][Depth(c)] = new]
  BY DEF EndResolve, Innermost
<1>4. SimpleTypes' /\ UNCHANGED <<arrays, pending, mode>>
  BY <1>1 DEF EndResolve, IInv, SimpleTypes
<1> HIDE DEF new
<1> QED
  BY <1>1, <1>2, <1>3, <1>4, InnermostKept

LEMMA EndBatchKept ==
  ASSUME IInv, NEW c \in Contexts, EndBatch(c)
  PROVE  IInv'
<1> DEFINE q == SubSeq(batches[c], 1, Depth(c) - 1)
<1>1. /\ batches[c] # <<>> /\ batches[c] \in Seq(Batches(arrays)) /\ Depth(c) = Len(batches[c])
      /\ Depth(c) \in 1 .. Len(batches[c]) /\ Innermost(c) \in Batches(arrays)
  BY BatchesOf DEF EndBatch, AtTypes
<1>2. q \in Seq(Batches(arrays)) /\ Len(q) = Depth(c) - 1
  BY <1>1, Shortened
<1>3. batches' = [batches EXCEPT ![c] = q] /\ UNCHANGED <<arrays, pending>>
  BY DEF EndBatch
<1>4. ResolveTypes(c) \subseteq Definitions
  BY <1>1, FieldsOf DEF ResolveTypes, Definitions
<1>5. mode[c] \in {"resolving", "eval"}
  BY <1>1 DEF IInv, UpToDate
<1>6. mode' = IF Depth(c) = 1 THEN [mode EXCEPT ![c] = "eval"] ELSE mode
  BY DEF EndBatch
<1>7. SimpleTypes' /\ mode' \in [Contexts -> Modes]
  BY <1>4, <1>6 DEF EndBatch, IInv, SimpleTypes, Modes
<1> HIDE DEF q
<1>8. Depth(c) = 1 => q = <<>>
  BY <1>2
<1>9. mode' = mode \/ (q = <<>> /\ mode' \in [Contexts -> Modes]
                           /\ (\A e \in Contexts \ {c} : mode'[e] = mode[e])
                           /\ (mode'[c] = "host" \/ mode'[c] = mode[c]
                                \/ (mode'[c] = "eval" /\ mode[c] \in {"resolving", "eval"})))
  BY <1>5, <1>6, <1>7, <1>8 DEF IInv, SimpleTypes
<1> QED
  BY <1>2, <1>3, <1>5, <1>7, <1>9, CallsKept

\* A slice is appended to, and taken by a call of ResolveDefinitions.
LEMMA DefineKept ==
  ASSUME IInv, NEW c \in Contexts, NEW d \in Definitions, Define(c, d)
  PROVE  IInv'
<1> DEFINE after == Appended(pending[c], d)
<1>1. /\ after.arrays \in Seq(Seq(Filled)) /\ Grown(arrays, after.arrays)
      /\ after.slice \in Slices(after.arrays)
  BY AppendedFits DEF IInv
<1>2. arrays' = after.arrays /\ pending' = [pending EXCEPT ![c] = after.slice]
      /\ UNCHANGED <<mode, batches>> /\ mode[c] = "host"
  BY DEF Define
<1>3. SimpleTypes'
  BY DEF Define, IInv, SimpleTypes
<1> HIDE DEF after
<1>4. pending' \in [Contexts -> Slices(arrays')]
  BY <1>1, <1>2 DEF IInv, Grown
<1>5. batches' \in [Contexts -> Seq(Batches(arrays'))]
  <2>1. Batches(arrays) \subseteq Batches(arrays')
    BY <1>1, <1>2, GrownBatches
  <2>2. \A e \in Contexts : batches[e] \in Seq(Batches(arrays'))
    BY <2>1, BatchesOf, SequenceIn
  <2> QED
    BY <1>2, <2>2 DEF IInv
<1>6. UpToDate'
  BY <1>2 DEF UpToDate, IInv, Nil
<1> QED
  BY <1>1, <1>2, <1>3, <1>4, <1>5, <1>6 DEF IInv

LEMMA BatchIs ==
  ASSUME NEW a, NEW slice \in Slices(a)
  PROVE  Batch(slice) \in Batches(a)
BY DEF Batch, Batches

LEMMA LoadKept ==
  ASSUME IInv, NEW c \in Contexts, NEW d \in Definitions, Load(c, d)
  PROVE  IInv'
<1> DEFINE after == Appended(pending[c], d)
           q == Append(batches[c], Batch(after.slice))
<1>1. /\ after.arrays \in Seq(Seq(Filled)) /\ Grown(arrays, after.arrays)
      /\ after.slice \in Slices(after.arrays)
  BY AppendedFits DEF IInv
<1>2. arrays' = after.arrays /\ pending' = [pending EXCEPT ![c] = Nil] /\ mode' = mode
      /\ batches' = [batches EXCEPT ![c] = q]
  BY DEF Load, Taken, LoadedBatches
<1>3. mode[c] \in {"resolving", "eval"}
  BY DEF Load, Runs, IInv, UpToDate
<1>4. SimpleTypes'
  BY ConstantsAssumption DEF Load, IInv, SimpleTypes
<1> HIDE DEF after
<1>5. Nil \in Slices(arrays')
  <2>1. Len(arrays') \in Nat
    BY <1>1, <1>2
  <2> QED
    BY <2>1 DEF Nil, Slices, FitsIn
<1>6. pending' \in [Contexts -> Slices(arrays')]
  BY <1>1, <1>2, <1>5 DEF IInv, Grown
<1>7. batches' \in [Contexts -> Seq(Batches(arrays'))]
  <2>1. Batches(arrays) \subseteq Batches(arrays')
    BY <1>1, <1>2, GrownBatches
  <2>2. \A e \in Contexts : batches[e] \in Seq(Batches(arrays'))
    BY <2>1, BatchesOf, SequenceIn
  <2>3. Batch(after.slice) \in Batches(arrays')
    BY <1>1, <1>2, BatchIs
  <2>4. q \in Seq(Batches(arrays'))
    BY <2>2, <2>3, Extended
  <2> HIDE DEF q
  <2> QED
    BY <1>2, <2>2, <2>4 DEF IInv
<1> HIDE DEF q
<1>8. UpToDate'
  BY <1>2, <1>3 DEF UpToDate, IInv, Nil
<1> QED
  BY <1>1, <1>2, <1>4, <1>6, <1>7, <1>8 DEF IInv

\* What a host does with a context, and the rest.
LEMMA DeriveKept ==
  ASSUME IInv, NEW c \in Contexts, NEW d \in Contexts, WithParent(c, d) \/ Fork(c, d)
  PROVE  IInv'
<1>1. Derive(c, d)
  BY DEF WithParent, Fork
<1>2. SimpleTypes'
  <2>1. sees' \in [Contexts -> SUBSET Contexts] /\ home' \in [Contexts -> Contexts]
    <3>1. sees \in [Contexts -> SUBSET Contexts] /\ home \in [Contexts -> Contexts]
      BY DEF IInv, SimpleTypes
    <3>2. CASE WithParent(c, d)
      BY <3>1, <3>2 DEF WithParent
    <3>3. CASE Fork(c, d)
      BY <3>1, <3>3 DEF Fork
    <3> QED
      BY <3>2, <3>3
  <2>2. mode' \in [Contexts -> Modes]
    BY <1>1 DEF Derive, IInv, SimpleTypes, Modes
  <2> QED
    BY <1>1, <2>1, <2>2 DEF Derive, IInv, SimpleTypes
<1>3. /\ mode' = [mode EXCEPT ![d] = "host"] /\ pending' = [pending EXCEPT ![d] = pending[c]]
      /\ mode[d] = "none" /\ UNCHANGED <<arrays, batches>>
  BY <1>1 DEF Derive
<1>4. UpToDate'
  <2> SUFFICES ASSUME NEW e \in Contexts
               PROVE  /\ mode'[e] \in {"resolving", "eval"} => pending'[e] = Nil
                      /\ batches'[e] # <<>> => mode'[e] \in {"resolving", "eval"}
    BY DEF UpToDate, Nil
  <2>1. /\ mode[e] \in {"resolving", "eval"} => pending[e] = Nil
        /\ batches[e] # <<>> => mode[e] \in {"resolving", "eval"}
    BY DEF IInv, UpToDate
  <2> QED
    BY <1>3, <2>1 DEF IInv, SimpleTypes
<1> QED
  BY <1>2, <1>3, <1>4 DEF IInv

LEMMA TopEvaluateKept ==
  ASSUME IInv, NEW c \in Contexts, TopEvaluate(c)
  PROVE  IInv'
<1>1. mode[c] = "host" /\ arrays' = arrays /\ SimpleTypes'
  BY DEF TopEvaluate, IInv, SimpleTypes, Modes
<1>2. batches[c] = <<>>
  BY <1>1 DEF IInv, UpToDate
<1>3. pending[c] \in Slices(arrays)
  BY DEF IInv
<1>4. CASE pending[c].len = 0
  <2>1. mode' = [mode EXCEPT ![c] = "eval"] /\ pending' = pending /\ batches' = batches
    BY <1>4 DEF TopEvaluate
  <2>2. pending[c] = Nil
    BY <1>3, <1>4 DEF Slices, FitsIn, Nil
  <2>3. UpToDate'
    BY <1>2, <2>1, <2>2 DEF IInv, UpToDate, SimpleTypes, Nil
  <2> QED
    BY <1>1, <2>1, <2>3 DEF IInv
<1>5. CASE pending[c].len # 0
  <2> DEFINE q == <<Batch(pending[c])>>
  <2>1. mode' = [mode EXCEPT ![c] = "resolving"] /\ pending' = [pending EXCEPT ![c] = Nil]
        /\ batches' = [batches EXCEPT ![c] = q]
    BY <1>5 DEF TopEvaluate, Taken
  <2>2. q \in Seq(Batches(arrays))
    BY <1>3, BatchIs
  <2> HIDE DEF q
  <2>3. UpToDate'
    BY <2>1 DEF IInv, UpToDate, SimpleTypes, Nil
  <2>4. Nil \in Slices(arrays)
    <3>1. Len(arrays) \in Nat
      BY DEF IInv
    <3> QED
      BY <3>1 DEF Nil, Slices, FitsIn
  <2> QED
    BY <1>1, <2>1, <2>2, <2>3, <2>4 DEF IInv
<1> QED
  BY <1>4, <1>5

LEMMA EndEvalKept ==
  ASSUME IInv, NEW c \in Contexts, EndEval(c)
  PROVE  IInv'
<1>1. mode' = [mode EXCEPT ![c] = "host"] /\ batches[c] = <<>>
      /\ UNCHANGED <<arrays, pending, batches>>
  BY DEF EndEval
<1>2. SimpleTypes'
  BY DEF EndEval, IInv, SimpleTypes, Modes
<1>3. UpToDate'
  BY <1>1 DEF IInv, UpToDate, SimpleTypes, Nil
<1> QED
  BY <1>1, <1>2, <1>3 DEF IInv

LEMMA PanicsKept ==
  ASSUME IInv, NEW c \in Contexts,
         AlreadyResolved(c) \/ Fail(c) \/ \E d \in Functions \cup FromFile : CallUnresolved(c, d)
  PROVE  IInv'
<1>1. Panic(c)
  BY DEF AlreadyResolved, Fail, CallUnresolved
<1>2. again' \subseteq Callables
  <2>1. again \subseteq Callables /\ parametered \subseteq Callables
    BY DEF IInv, SimpleTypes
  <2> QED
    BY <2>1 DEF AlreadyResolved, Fail, CallUnresolved
<1> QED
  BY <1>1, <1>2, PanicKept

LEMMA Kept ==
  ASSUME IInv, Next
  PROVE  IInv'
<1>1. PICK c \in Contexts :
    \/ \E d \in Contexts : WithParent(c, d) \/ Fork(c, d)
    \/ \E d \in Functions \cup Types : Define(c, d)
    \/ TopEvaluate(c) \/ EndEval(c)
    \/ CollectType(c) \/ BeginResolve(c) \/ AlreadyResolved(c)
    \/ SetParameters(c) \/ EndResolve(c) \/ EndBatch(c)
    \/ Fail(c)
    \/ \E d \in Functions \cup FromFile : CallUnresolved(c, d)
    \/ \E d \in FromFile : Load(c, d)
  BY DEF Next
<1>2. ASSUME NEW d \in Functions \cup Types, Define(c, d) PROVE IInv'
  BY <1>2, DefineKept DEF Definitions
<1>3. ASSUME NEW d \in FromFile, Load(c, d) PROVE IInv'
  BY <1>3, LoadKept DEF Definitions
<1> QED
  BY <1>1, <1>2, <1>3, DeriveKept, TopEvaluateKept, EndEvalKept, CollectTypeKept,
     BeginResolveKept, SetParametersKept, EndResolveKept, EndBatchKept, PanicsKept

LEMMA Initially == Init => IInv
<1> SUFFICES ASSUME Init PROVE IInv
  OBVIOUS
<1>1. arrays = <<>> /\ arrays \in Seq(Seq(Filled)) /\ Len(arrays) = 0
  BY DEF Init
<1>2. Nil \in Slices(arrays)
  BY <1>1 DEF Nil, Slices, FitsIn
<1>3. SimpleTypes
  BY ConstantsAssumption DEF Init, SimpleTypes, Modes
<1>4. UpToDate
  BY DEF Init, UpToDate, Nil
<1>5. pending \in [Contexts -> Slices(arrays)]
  BY <1>2 DEF Init
<1>6. batches \in [Contexts -> Seq(Batches(arrays))]
  BY DEF Init
<1> QED
  BY <1>1, <1>3, <1>4, <1>5, <1>6 DEF IInv

THEOREM Inductive == Spec => []IInv
<1>1. IInv /\ UNCHANGED vars => IInv'
  BY DEF IInv, SimpleTypes, UpToDate, vars, Nil
<1> QED
  BY <1>1, Initially, Kept, PTL DEF Spec

LEMMA Typed == IInv => TypeOK
<1> SUFFICES ASSUME IInv PROVE TypeOK
  OBVIOUS
<1>1. Slices(arrays) \subseteq Slice /\ \A s \in Slices(arrays) : Fits(s)
  BY DEF Slices, Slice, FitsIn, Fits
<1> DEFINE R == [slice : Slice, next : Nat \ {0}, types : SUBSET Types,
                 function : Functions \cup FromFile \cup {None},
                 busy : {"no", "parameters", "return"}]
<1>2. Batches(arrays) \subseteq R /\ \A b \in Batches(arrays) : Fits(b.slice)
  BY <1>1 DEF Batches, Callables
<1> HIDE DEF R
<1>3. \A c \in Contexts : batches[c] \in Seq(R)
  BY <1>2, BatchesOf, SequenceIn
<1>4. batches \in [Contexts -> Seq(R)]
  BY <1>3 DEF IInv
<1>5. \A c \in Contexts : Fits(pending[c]) /\ \A i \in 1 .. Depth(c) : Fits(batches[c][i].slice)
  BY <1>1, <1>2, BatchesOf DEF IInv
<1>6. pending \in [Contexts -> Slice]
  BY <1>1 DEF IInv
<1> QED
  BY <1>4, <1>5, <1>6 DEF R, IInv, SimpleTypes, TypeOK, Callables, Filled

\* Slices stay within their arrays and within what has been written to these,
\* whoever else appends to the same array, and only functions are resolved.
THEOREM TypeCorrect == Spec => []TypeOK
  BY Inductive, Typed, PTL

\* Nothing is pending in a context while it evaluates, for any host.
THEOREM UpToDateAtEval == Spec => []NonePendingAtEval
<1>1. IInv => NonePendingAtEval
  BY DEF IInv, UpToDate, NonePendingAtEval
<1> QED
  BY <1>1, Inductive, PTL

-----------------------------------------------------------------------------
(* Holders: the pending definitions of a context (a call that has not begun) *)
(* and its calls of ResolveDefinitions.  hold is a function from their names *)
(* to the calls, a the arrays, e the entries and p what has parameters.      *)

Part(b) == b.next .. b.slice.len
At(a, b, j) == a[b.slice.array][j]

OwnArrays(hold) ==
  \A g, h \in DOMAIN hold :
    hold[g].slice.array = hold[h].slice.array /\ hold[g].slice.array # 0 => g = h
HeldOnce(a, hold) ==
  \A g, h \in DOMAIN hold : \A i \in Part(hold[g]), j \in Part(hold[h]) :
    At(a, hold[g], i) = At(a, hold[h], j) => g = h /\ i = j
Unresolved(a, hold, e, p) ==
  \A h \in DOMAIN hold : \A j \in Part(hold[h]) :
    /\ e[At(a, hold[h], j)] # None
    /\ At(a, hold[h], j) \in p => j = hold[h].next /\ hold[h].busy = "return"
WorksOnCurrent(a, hold) ==
  \A h \in DOMAIN hold : hold[h].busy # "no" =>
    hold[h].next \in Part(hold[h]) /\ hold[h].function = At(a, hold[h], hold[h].next)

Tidy(a, hold, e, p) ==
  /\ \A h \in DOMAIN hold : hold[h] \in Batches(a)
  /\ OwnArrays(hold) /\ HeldOnce(a, hold) /\ Unresolved(a, hold, e, p) /\ WorksOnCurrent(a, hold)

\* A call that goes on: to the next definition, to Resolve, or not at all.
Follows(a, b, new) ==
  /\ new.slice = b.slice
  /\ \/ new.next = b.next /\ new.busy = b.busy /\ new.function = b.function
     \/ new.next = b.next + 1 /\ new.busy = "no"
     \/ /\ new.next = b.next /\ b.next \in Part(b) /\ b.busy = "no"
        /\ new.busy = "parameters" /\ new.function = At(a, b, b.next)

Moves(a, hold, new, m) ==
  /\ \A h \in DOMAIN new : new[h] \in Batches(a)
  /\ \A h \in DOMAIN new :
       new[h] = Batch(Nil) \/ (m[h] \in DOMAIN hold /\ Follows(a, hold[m[h]], new[h]))
  /\ \A g, h \in DOMAIN new :
       new[g] # Batch(Nil) /\ new[h] # Batch(Nil) /\ m[g] = m[h] => g = h

LEMMA CallTypes ==
  ASSUME NEW a, NEW b \in Batches(a)
  PROVE  b.next \in Nat \ {0} /\ b.slice.len \in Nat /\ b.slice.array \in Nat
BY DEF Batches, Slices

LEMMA EmptyCall ==
  /\ Batch(Nil).slice.array = 0 /\ Part(Batch(Nil)) = {} /\ Batch(Nil).busy = "no"
BY DEF Batch, Nil, Part

LEMMA MovesKeep ==
  ASSUME NEW a, NEW hold, NEW new, NEW m, NEW e, NEW p,
         Tidy(a, hold, e, p), Moves(a, hold, new, m)
  PROVE  Tidy(a, new, e, p)
<1>1. ASSUME NEW h \in DOMAIN new, new[h] # Batch(Nil)
      PROVE  /\ m[h] \in DOMAIN hold /\ new[h].slice = hold[m[h]].slice
             /\ Part(new[h]) \subseteq Part(hold[m[h]])
             /\ \A j \in Part(new[h]) : At(a, new[h], j) = At(a, hold[m[h]], j)
             /\ Follows(a, hold[m[h]], new[h])
  <2>1. m[h] \in DOMAIN hold /\ Follows(a, hold[m[h]], new[h])
    BY <1>1 DEF Moves
  <2>2. new[h] \in Batches(a) /\ hold[m[h]] \in Batches(a)
    BY <2>1 DEF Moves, Tidy
  <2>3. new[h].slice = hold[m[h]].slice /\ new[h].next \in {hold[m[h]].next, hold[m[h]].next + 1}
    BY <2>1 DEF Follows
  <2>4. Part(new[h]) \subseteq Part(hold[m[h]])
    BY <2>2, <2>3, CallTypes DEF Part
  <2> QED
    BY <2>1, <2>3, <2>4 DEF At
<1>2. \A h \in DOMAIN new : new[h] = Batch(Nil) =>
        new[h].slice.array = 0 /\ Part(new[h]) = {} /\ new[h].busy = "no"
  BY EmptyCall
<1>3. OwnArrays(new)
  BY <1>1, <1>2 DEF OwnArrays, Tidy, Moves
<1>4. HeldOnce(a, new)
  <2> SUFFICES ASSUME NEW g \in DOMAIN new, NEW h \in DOMAIN new,
                      NEW i \in Part(new[g]), NEW j \in Part(new[h]),
                      At(a, new[g], i) = At(a, new[h], j)
               PROVE  g = h /\ i = j
    BY DEF HeldOnce
  <2>1. new[g] # Batch(Nil) /\ new[h] # Batch(Nil)
    BY <1>2
  <2>2. m[g] = m[h] /\ i = j
    BY <1>1, <2>1 DEF Tidy, HeldOnce
  <2> QED
    BY <2>1, <2>2 DEF Moves
<1>5. Unresolved(a, new, e, p)
  <2> SUFFICES ASSUME NEW h \in DOMAIN new, NEW j \in Part(new[h])
               PROVE  /\ e[At(a, new[h], j)] # None
                      /\ At(a, new[h], j) \in p => j = new[h].next /\ new[h].busy = "return"
    BY DEF Unresolved
  <2>1. new[h] # Batch(Nil)
    BY <1>2
  <2>2. /\ e[At(a, new[h], j)] # None
        /\ At(a, new[h], j) \in p => j = hold[m[h]].next /\ hold[m[h]].busy = "return"
    BY <1>1, <2>1 DEF Tidy, Unresolved
  <2>3. new[h].next = hold[m[h]].next + 1 => j # hold[m[h]].next
    <3>1. hold[m[h]] \in Batches(a)
      BY <1>1, <2>1 DEF Tidy
    <3> QED
      BY <3>1, CallTypes DEF Part
  <2> QED
    BY <1>1, <2>1, <2>2, <2>3 DEF Follows
<1>6. WorksOnCurrent(a, new)
  <2> SUFFICES ASSUME NEW h \in DOMAIN new, new[h].busy # "no"
               PROVE  new[h].next \in Part(new[h]) /\ new[h].function = At(a, new[h], new[h].next)
    BY DEF WorksOnCurrent
  <2>1. new[h] # Batch(Nil)
    BY <1>2
  <2>2. new[h].slice = hold[m[h]].slice /\ new[h].next = hold[m[h]].next
    BY <1>1, <2>1 DEF Follows
  <2>3. Part(new[h]) = Part(hold[m[h]]) /\ \A j : At(a, new[h], j) = At(a, hold[m[h]], j)
    BY <2>2 DEF Part, At
  <2>4. hold[m[h]].busy # "no" =>
          /\ hold[m[h]].next \in Part(hold[m[h]])
          /\ hold[m[h]].function = At(a, hold[m[h]], hold[m[h]].next)
    BY <1>1, <2>1 DEF Tidy, WorksOnCurrent
  <2> QED
    BY <1>1, <2>1, <2>2, <2>3, <2>4 DEF Follows
<1> QED
  BY <1>3, <1>4, <1>5, <1>6 DEF Tidy, Moves

\* The function whose parameters are set had none, and is at no other place.
LEMMA ParametersKeep ==
  ASSUME NEW a, NEW hold, NEW new, NEW e, NEW p, Tidy(a, hold, e, p),
         NEW h \in DOMAIN hold, hold[h].busy = "parameters",
         DOMAIN new = DOMAIN hold, \A g \in DOMAIN hold : g # h => new[g] = hold[g],
         new[h] \in Batches(a), new[h].slice = hold[h].slice, new[h].next = hold[h].next,
         new[h].function = hold[h].function, new[h].busy = "return"
  PROVE  /\ Tidy(a, new, e, p \cup {hold[h].function})
         /\ hold[h].function \notin p /\ e[hold[h].function] # None
<1> DEFINE f == hold[h].function
<1>1. hold[h].next \in Part(hold[h]) /\ f = At(a, hold[h], hold[h].next)
  BY DEF Tidy, WorksOnCurrent
<1>2. f \notin p /\ e[f] # None
  BY <1>1 DEF Tidy, Unresolved
<1>3. \A g \in DOMAIN hold : /\ new[g].slice = hold[g].slice /\ new[g].next = hold[g].next
                             /\ new[g].function = hold[g].function
                             /\ g # h => new[g].busy = hold[g].busy
  OBVIOUS
<1>4. \A g \in DOMAIN hold : Part(new[g]) = Part(hold[g])
  BY <1>3 DEF Part
<1>5. \A g \in DOMAIN hold : \A j : At(a, new[g], j) = At(a, hold[g], j)
  BY <1>3 DEF At
<1>6. OwnArrays(new)
  BY <1>3 DEF Tidy, OwnArrays
<1>7. HeldOnce(a, new)
  BY <1>4, <1>5 DEF Tidy, HeldOnce
<1>8. WorksOnCurrent(a, new)
  BY <1>1, <1>3, <1>4, <1>5 DEF Tidy, WorksOnCurrent
<1>9. ASSUME NEW g \in DOMAIN new, NEW j \in Part(new[g])
      PROVE  /\ e[At(a, new[g], j)] # None
             /\ At(a, new[g], j) \in p \cup {f} => j = new[g].next /\ new[g].busy = "return"
  <2>1. j \in Part(hold[g]) /\ At(a, new[g], j) = At(a, hold[g], j)
    BY <1>4, <1>5
  <2>2. CASE At(a, hold[g], j) = f
    <3>1. g = h /\ j = hold[h].next
      BY <1>1, <2>1, <2>2 DEF Tidy, HeldOnce
    <3> QED
      BY <1>2, <2>1, <2>2, <3>1
  <2>3. CASE At(a, hold[g], j) # f
    BY <1>3, <2>1, <2>3 DEF Tidy, Unresolved
  <2> QED
    BY <2>2, <2>3
<1>10. \A g \in DOMAIN new : new[g] \in Batches(a)
  BY DEF Tidy
<1> QED
  BY <1>2, <1>6, <1>7, <1>8, <1>9, <1>10 DEF Tidy, Unresolved

\* What append does: b and t are the arrays a and the slice s with d behind it.
Written(a, s, d, b, t) ==
  /\ Grown(a, b) /\ t \in Slices(b) /\ t.len = s.len + 1 /\ b[t.array][t.len] = d
  /\ (t.array = s.array /\ s.array # 0) \/ t.array = Len(a) + 1
  /\ \A i \in 1 .. s.len : b[t.array][i] = a[s.array][i]
  /\ \A u \in Slices(a) : u.array \notin {0, s.array} =>
       \A i \in 1 .. u.len : b[u.array][i] = a[u.array][i]

LEMMA AppendKeeps ==
  ASSUME NEW a, Len(a) \in Nat, NEW hold, NEW e \in [Definitions -> Contexts \cup {None}], NEW p,
         Tidy(a, hold, e, p), NEW h \in DOMAIN hold, NEW s \in Slices(a), hold[h] = Batch(s),
         NEW d \in Definitions, e[d] = None, d \notin p, NEW v, v # None,
         NEW b, NEW t, Written(a, s, d, b, t)
  PROVE  Tidy(b, [hold EXCEPT ![h] = Batch(t)], [e EXCEPT ![d] = v], p)
<1> DEFINE new == [hold EXCEPT ![h] = Batch(t)]
<1>1. DOMAIN new = DOMAIN hold /\ new[h] = Batch(t) /\ \A g \in DOMAIN hold : g # h => new[g] = hold[g]
  OBVIOUS
<1> HIDE DEF new
<1>2. s.len \in Nat /\ s.array \in 0 .. Len(a)
  BY DEF Slices
<1>3. \A g \in DOMAIN new : new[g] \in Batches(b)
  <2>1. Batches(a) \subseteq Batches(b)
    BY GrownBatches DEF Written
  <2>2. Batch(t) \in Batches(b)
    BY BatchIs DEF Written
  <2> QED
    BY <1>1, <2>1, <2>2 DEF Tidy
<1>4. ASSUME NEW g \in DOMAIN hold, NEW j \in Part(hold[g])
      PROVE  /\ At(a, hold[g], j) # d /\ At(a, hold[g], j) \in Definitions
             /\ hold[g].slice.array # 0 /\ j \in 1 .. hold[g].slice.len
  <2>1. hold[g] \in Batches(a)
    BY DEF Tidy
  <2>2. hold[g].slice \in Slices(a) /\ hold[g].next \in Nat \ {0}
    BY <2>1 DEF Batches
  <2>3. j \in 1 .. hold[g].slice.len
    BY <2>2 DEF Part, Slices
  <2>4. hold[g].slice.array # 0 /\ At(a, hold[g], j) \in Definitions
    BY <2>2, <2>3 DEF Slices, FitsIn, At
  <2> QED
    BY <2>3, <2>4 DEF Tidy, Unresolved
<1>5. ASSUME NEW g \in DOMAIN hold, g # h, NEW j \in Part(hold[g])
      PROVE  At(b, new[g], j) = At(a, hold[g], j) /\ Part(new[g]) = Part(hold[g])
  <2>1. hold[g].slice \in Slices(a)
    BY DEF Tidy, Batches
  <2>2. hold[g].slice.array \notin {0, s.array} /\ j \in 1 .. hold[g].slice.len
    <3>1. hold[h].slice = s
      BY DEF Batch
    <3> QED
      BY <1>4, <1>5, <3>1 DEF Tidy, OwnArrays
  <2> QED
    BY <1>1, <1>5, <2>1, <2>2 DEF Written, At
<1>6. ASSUME NEW j \in Part(new[h])
      PROVE  \/ j = s.len + 1 /\ At(b, new[h], j) = d
             \/ j \in Part(hold[h]) /\ At(b, new[h], j) = At(a, hold[h], j)
  <2>1. j \in 1 .. t.len /\ hold[h].slice = s /\ hold[h].next = 1 /\ new[h].slice = t
    BY <1>1, <1>6 DEF Part, Batch
  <2>2. CASE j = t.len
    BY <2>1, <2>2 DEF Written, At
  <2>3. CASE j # t.len
    <3>1. j \in 1 .. s.len
      BY <1>2, <2>1, <2>3 DEF Written
    <3> QED
      BY <2>1, <3>1 DEF Written, At, Part
  <2> QED
    BY <2>2, <2>3
<1>7. OwnArrays(new)
  <2>1. \A g \in DOMAIN hold : hold[g].slice.array \in 0 .. Len(a)
    BY DEF Tidy, Batches, Slices
  <2>2. new[h].slice.array = s.array \/ new[h].slice.array = Len(a) + 1
    BY <1>1 DEF Written, Batch
  <2>3. hold[h].slice.array = s.array /\ \A i \in 0 .. Len(a) : i # Len(a) + 1
    BY DEF Batch
  <2> QED
    BY <1>1, <2>1, <2>2, <2>3 DEF Tidy, OwnArrays
<1>8. ASSUME NEW g \in DOMAIN new, NEW j \in Part(new[g])
      PROVE  \/ g = h /\ j = s.len + 1 /\ At(b, new[g], j) = d
             \/ j \in Part(hold[g]) /\ At(b, new[g], j) = At(a, hold[g], j)
                  /\ At(a, hold[g], j) # d
  <2>1. CASE g = h
    BY <1>4, <1>6, <1>8, <2>1
  <2>2. CASE g # h
    BY <1>1, <1>4, <1>5, <1>8, <2>2
  <2> QED
    BY <2>1, <2>2
<1>9. HeldOnce(b, new)
  <2> SUFFICES ASSUME NEW g \in DOMAIN new, NEW k \in DOMAIN new,
                      NEW i \in Part(new[g]), NEW j \in Part(new[k]),
                      At(b, new[g], i) = At(b, new[k], j)
               PROVE  g = k /\ i = j
    BY DEF HeldOnce
  <2>1. CASE At(b, new[g], i) = d
    <3>1. g = h /\ i = s.len + 1
      BY <1>8, <2>1
    <3>2. k = h /\ j = s.len + 1
      BY <1>8, <2>1
    <3> QED
      BY <3>1, <3>2
  <2>2. CASE At(b, new[g], i) # d
    <3>1. i \in Part(hold[g]) /\ j \in Part(hold[k]) /\ At(a, hold[g], i) = At(a, hold[k], j)
      BY <1>8, <2>2
    <3> QED
      BY <1>1, <3>1 DEF Tidy, HeldOnce
  <2> QED
    BY <2>1, <2>2
<1>10. Unresolved(b, new, [e EXCEPT ![d] = v], p)
  <2> SUFFICES ASSUME NEW g \in DOMAIN new, NEW j \in Part(new[g])
               PROVE  /\ [e EXCEPT ![d] = v][At(b, new[g], j)] # None
                      /\ At(b, new[g], j) \in p => j = new[g].next /\ new[g].busy = "return"
    BY DEF Unresolved
  <2>1. CASE At(b, new[g], j) = d
    BY <2>1
  <2>2. CASE At(b, new[g], j) # d
    <3>1. j \in Part(hold[g]) /\ At(b, new[g], j) = At(a, hold[g], j)
      BY <1>8, <2>2
    <3>2. At(a, hold[g], j) \in Definitions /\ e[At(a, hold[g], j)] # None
          /\ (At(a, hold[g], j) \in p => j = hold[g].next /\ hold[g].busy = "return")
      BY <1>1, <1>4, <3>1 DEF Tidy, Unresolved
    <3>3. hold[h].busy = "no"
      BY DEF Batch
    <3> QED
      BY <1>1, <2>2, <3>1, <3>2, <3>3
  <2> QED
    BY <2>1, <2>2
<1>11. WorksOnCurrent(b, new)
  <2> SUFFICES ASSUME NEW g \in DOMAIN new, new[g].busy # "no"
               PROVE  new[g].next \in Part(new[g]) /\ new[g].function = At(b, new[g], new[g].next)
    BY DEF WorksOnCurrent
  <2>1. g # h
    BY <1>1 DEF Batch
  <2>2. hold[g].next \in Part(hold[g]) /\ hold[g].function = At(a, hold[g], hold[g].next)
        /\ new[g] = hold[g]
    BY <1>1, <2>1 DEF Tidy, WorksOnCurrent
  <2> QED
    BY <1>1, <1>5, <2>1, <2>2
<1> QED
  BY <1>3, <1>7, <1>9, <1>10, <1>11 DEF Tidy, new

LEMMA AppendedWrites ==
  ASSUME arrays \in Seq(Seq(Filled)), NEW s \in Slices(arrays), NEW d \in Definitions
  PROVE  Written(arrays, s, d, Appended(s, d).arrays, Appended(s, d).slice)
<1> DEFINE array == arrays[s.array]
           b == Appended(s, d).arrays
           t == Appended(s, d).slice
<1> SUFFICES Written(arrays, s, d, b, t)
  OBVIOUS
<1>1. /\ s \in [array : 0 .. Len(arrays), len : Nat] /\ FitsIn(arrays, s)
      /\ s.len \in Nat /\ Len(arrays) \in Nat
  BY DEF Slices
<1>2. Grown(arrays, b) /\ t \in Slices(b)
  BY AppendedFits
<1> HIDE DEF b, t
<1>3. \A u \in Slices(arrays) : u.array \notin {0, s.array} =>
        u.array \in 1 .. Len(arrays) /\ u.array # s.array
  BY DEF Slices
<1>4. ASSUME NEW q, b = Append(arrays, q), t = [array |-> Len(arrays) + 1, len |-> s.len + 1],
             q[s.len + 1] = d, \A i \in 1 .. s.len : q[i] = array[i]
      PROVE  Written(arrays, s, d, b, t)
  <2>1. b[Len(arrays) + 1] = q /\ \A i \in 1 .. Len(arrays) : b[i] = arrays[i]
    BY <1>4
  <2> QED
    BY <1>2, <1>3, <1>4, <2>1 DEF Written
<1>5. CASE s.array = 0
  <2>1. s.len = 0
    BY <1>1, <1>5 DEF FitsIn
  <2>2. b = Append(arrays, <<d>>) /\ t = [array |-> Len(arrays) + 1, len |-> s.len + 1]
    BY <1>5 DEF Appended, b, t
  <2>3. <<d>>[s.len + 1] = d /\ \A i \in 1 .. s.len : <<d>>[i] = array[i]
    BY <2>1
  <2> QED
    BY <1>4, <2>2, <2>3
<1>6. CASE s.array # 0 /\ s.len < Len(array)
  <2>1. b = [arrays EXCEPT ![s.array][s.len + 1] = d] /\ t = [s EXCEPT !.len = @ + 1]
    BY <1>6 DEF Appended, b, t
  <2>2. t.array = s.array /\ t.len = s.len + 1
    BY <1>1, <2>1
  <2>3. s.array \in 1 .. Len(arrays) /\ array \in Seq(Filled)
    BY <1>1, <1>6, ElementOf
  <2>4. s.len + 1 \in 1 .. Len(array)
    BY <1>1, <1>6, <2>3
  <2>5. b[s.array] = [array EXCEPT ![s.len + 1] = d]
        /\ \A i \in 1 .. Len(arrays) : i # s.array => b[i] = arrays[i]
    BY <2>1, <2>3
  <2>6. b[s.array][s.len + 1] = d /\ \A i \in 1 .. s.len : b[s.array][i] = array[i]
    BY <1>1, <2>3, <2>4, <2>5
  <2> QED
    BY <1>2, <1>3, <1>6, <2>2, <2>5, <2>6 DEF Written
<1>7. CASE s.array # 0 /\ ~(s.len < Len(array))
  <2> DEFINE twice == [i \in 1 .. 2 * s.len |->
                         IF i <= s.len THEN array[i] ELSE IF i = s.len + 1 THEN d ELSE None]
  <2>1. b = Append(arrays, twice) /\ t = [array |-> Len(arrays) + 1, len |-> s.len + 1]
    BY <1>7 DEF Appended, b, t
  <2>2. s.len >= 1
    BY <1>1, <1>7 DEF FitsIn
  <2>3. twice[s.len + 1] = d /\ \A i \in 1 .. s.len : twice[i] = array[i]
    BY <1>1, <2>2
  <2> HIDE DEF twice
  <2> QED
    BY <1>4, <2>1, <2>3
<1> QED
  BY <1>5, <1>6, <1>7

-----------------------------------------------------------------------------
(* The holders of a state: <<c, 0>> has the pending definitions of c, and    *)
(* <<c, i>> is its i-th call of ResolveDefinitions.                          *)

Names(calls) == {h \in Contexts \X Nat : h[2] <= Len(calls[h[1]])}
Holding(calls, slices) ==
  [h \in Names(calls) |-> IF h[2] = 0 THEN Batch(slices[h[1]]) ELSE calls[h[1]][h[2]]]

Calls(a) == [Contexts -> Seq(Batches(a))]
Pendings(a) == [Contexts -> Slices(a)]

LEMMA PendingHeld ==
  ASSUME NEW a, NEW calls \in Calls(a), NEW slices, NEW c \in Contexts
  PROVE  /\ <<c, 0>> \in DOMAIN Holding(calls, slices)
         /\ Holding(calls, slices)[<<c, 0>>] = Batch(slices[c])
<1>1. Len(calls[c]) \in Nat
  BY DEF Calls
<1>2. <<c, 0>>[1] = c /\ <<c, 0>>[2] = 0
  OBVIOUS
<1>3. <<c, 0>> \in Names(calls)
  BY <1>1, <1>2 DEF Names
<1> QED
  BY <1>2, <1>3 DEF Holding

LEMMA CallHeld ==
  ASSUME NEW a, NEW calls \in Calls(a), NEW slices, NEW c \in Contexts,
         NEW i \in 1 .. Len(calls[c])
  PROVE  /\ <<c, i>> \in DOMAIN Holding(calls, slices)
         /\ Holding(calls, slices)[<<c, i>>] = calls[c][i]
<1>1. Len(calls[c]) \in Nat
  BY DEF Calls
<1>2. <<c, i>>[1] = c /\ <<c, i>>[2] = i /\ i # 0 /\ i \in Nat /\ i <= Len(calls[c])
  BY <1>1
<1>3. <<c, i>> \in Names(calls)
  BY <1>2 DEF Names
<1> QED
  BY <1>2, <1>3 DEF Holding

LEMMA HolderIs ==
  ASSUME NEW a, NEW calls \in Calls(a), NEW slices, NEW h \in DOMAIN Holding(calls, slices)
  PROVE  \E c \in Contexts :
           \/ h = <<c, 0>> /\ Holding(calls, slices)[h] = Batch(slices[c])
           \/ \E i \in 1 .. Len(calls[c]) :
                h = <<c, i>> /\ Holding(calls, slices)[h] = calls[c][i]
<1>1. h \in Contexts \X Nat /\ h[2] <= Len(calls[h[1]])
  BY DEF Holding, Names
<1>2. PICK c \in Contexts, i \in Nat : h = <<c, i>>
  BY <1>1
<1>3. Len(calls[c]) \in Nat /\ i <= Len(calls[c])
  BY <1>1, <1>2 DEF Calls
<1>4. CASE i = 0
  BY <1>2, <1>4, PendingHeld
<1>5. CASE i # 0
  <2>1. i \in 1 .. Len(calls[c])
    BY <1>3, <1>5
  <2> QED
    BY <1>2, <2>1, CallHeld
<1> QED
  BY <1>4, <1>5

LEMMA HoldingTypes ==
  ASSUME NEW a, NEW calls \in Calls(a), NEW slices \in Pendings(a),
         NEW h \in DOMAIN Holding(calls, slices)
  PROVE  Holding(calls, slices)[h] \in Batches(a)
<1>1. \A c \in Contexts : /\ Batch(slices[c]) \in Batches(a)
                          /\ \A i \in 1 .. Len(calls[c]) : calls[c][i] \in Batches(a)
  BY BatchIs, ElementOf DEF Calls, Pendings
<1> QED
  BY <1>1, HolderIs

\* The calls of ResolveDefinitions go on or end, and no slice is taken.
LEMMA GoingOn ==
  ASSUME NEW a, NEW calls \in Calls(a), NEW slices \in Pendings(a),
         NEW calls2 \in Calls(a), NEW slices2 \in Pendings(a), NEW e, NEW p,
         Tidy(a, Holding(calls, slices), e, p),
         \A c \in Contexts :
           /\ slices2[c] \in {slices[c], Nil}
           /\ Len(calls2[c]) <= Len(calls[c])
           /\ \A i \in 1 .. Len(calls2[c]) : Follows(a, calls[c][i], calls2[c][i])
  PROVE  Tidy(a, Holding(calls2, slices2), e, p)
<1> DEFINE hold == Holding(calls, slices)
           new == Holding(calls2, slices2)
           m == [h \in DOMAIN new |-> h]
<1>1. ASSUME NEW h \in DOMAIN new
      PROVE  new[h] = Batch(Nil) \/ (m[h] \in DOMAIN hold /\ Follows(a, hold[m[h]], new[h]))
  <2>1. PICK c \in Contexts :
          \/ h = <<c, 0>> /\ new[h] = Batch(slices2[c])
          \/ \E i \in 1 .. Len(calls2[c]) : h = <<c, i>> /\ new[h] = calls2[c][i]
    BY HolderIs
  <2>2. CASE h = <<c, 0>> /\ new[h] = Batch(slices2[c])
    <3>1. CASE slices2[c] = Nil
      BY <2>2, <3>1
    <3>2. CASE slices2[c] = slices[c]
      <4>1. h \in DOMAIN hold /\ hold[h] = Batch(slices[c])
        BY <2>2, PendingHeld
      <4>2. new[h] = hold[h]
        BY <2>2, <3>2, <4>1
      <4> HIDE DEF new, hold
      <4> QED
        BY <4>1, <4>2 DEF Follows
    <3> QED
      BY <3>1, <3>2
  <2>3. ASSUME NEW i \in 1 .. Len(calls2[c]), h = <<c, i>>, new[h] = calls2[c][i]
        PROVE  h \in DOMAIN hold /\ Follows(a, hold[h], new[h])
    <3>1. i \in 1 .. Len(calls[c])
      BY DEF Calls
    <3>2. h \in DOMAIN hold /\ hold[h] = calls[c][i]
      BY <2>3, <3>1, CallHeld
    <3> HIDE DEF new, hold
    <3> QED
      BY <2>3, <3>2
  <2> QED
    BY <2>1, <2>2, <2>3
<1>2. \A h \in DOMAIN new : new[h] \in Batches(a)
  BY HoldingTypes
<1>3. \A g, h \in DOMAIN new : m[g] = m[h] => g = h
  OBVIOUS
<1> HIDE DEF m, hold, new
<1>4. Moves(a, hold, new, m)
  BY <1>1, <1>2, <1>3 DEF Moves
<1> QED
  BY <1>4, MovesKeep DEF hold, new

\* What is pending in a context is taken by a call of ResolveDefinitions.
LEMMA Taking ==
  ASSUME NEW a, NEW calls \in Calls(a), NEW slices \in Pendings(a), NEW e, NEW p,
         NEW calls2 \in Calls(a), NEW slices2 \in Pendings(a),
         Tidy(a, Holding(calls, slices), e, p), NEW c \in Contexts,
         calls2[c] = Append(calls[c], Batch(slices[c])), slices2[c] = Nil,
         \A d \in Contexts : d # c => calls2[d] = calls[d] /\ slices2[d] = slices[d]
  PROVE  Tidy(a, Holding(calls2, slices2), e, p)
<1> DEFINE hold == Holding(calls, slices)
           new == Holding(calls2, slices2)
           last == <<c, Len(calls[c]) + 1>>
           m == [h \in DOMAIN new |-> IF h = last THEN <<c, 0>> ELSE h]
<1>1. /\ calls2[c] = Append(calls[c], Batch(slices[c])) /\ slices2[c] = Nil
      /\ \A d \in Contexts : d # c => calls2[d] = calls[d] /\ slices2[d] = slices[d]
  OBVIOUS
<1>2. /\ Len(calls2[c]) = Len(calls[c]) + 1 /\ Len(calls[c]) \in Nat
      /\ calls2[c][Len(calls[c]) + 1] = Batch(slices[c])
      /\ \A i \in 1 .. Len(calls[c]) : calls2[c][i] = calls[c][i]
  <2>1. calls[c] \in Seq(Batches(a)) /\ Batch(slices[c]) \in Batches(a)
    BY BatchIs DEF Calls, Pendings
  <2> QED
    BY <1>1, <2>1, Extended
<1>3. \A h \in DOMAIN new : new[h] \in Batches(a)
  BY HoldingTypes
<1>4. new[<<c, 0>>] = Batch(Nil)
  <2>1. new[<<c, 0>>] = Batch(slices2[c])
    BY PendingHeld
  <2> QED
    BY <1>1, <2>1
<1>5. hold[<<c, 0>>] = Batch(slices[c]) /\ <<c, 0>> \in DOMAIN hold
  BY PendingHeld
<1>6. ASSUME NEW h \in DOMAIN new
      PROVE  \/ h = <<c, 0>>
             \/ h = last /\ new[h] = Batch(slices[c])
             \/ h # last /\ h \in DOMAIN hold /\ new[h] = hold[h]
  <2>1. PICK d \in Contexts :
          \/ h = <<d, 0>> /\ new[h] = Batch(slices2[d])
          \/ \E i \in 1 .. Len(calls2[d]) : h = <<d, i>> /\ new[h] = calls2[d][i]
    BY HolderIs
  <2>2. CASE h = <<d, 0>> /\ new[h] = Batch(slices2[d])
    <3>1. CASE d = c
      BY <2>2, <3>1
    <3>2. CASE d # c
      <4>1. h # last
        BY <2>2, <3>2
      <4>2. h \in DOMAIN hold /\ hold[h] = Batch(slices[d])
        BY <2>2, PendingHeld
      <4> QED
        BY <1>1, <2>2, <3>2, <4>1, <4>2
    <3> QED
      BY <3>1, <3>2
  <2>3. ASSUME NEW i \in 1 .. Len(calls2[d]), h = <<d, i>>, new[h] = calls2[d][i]
        PROVE  \/ h = last /\ new[h] = Batch(slices[c])
               \/ h # last /\ h \in DOMAIN hold /\ new[h] = hold[h]
    <3>1. CASE d = c /\ i = Len(calls[c]) + 1
      BY <1>2, <2>3, <3>1
    <3>2. CASE ~(d = c /\ i = Len(calls[c]) + 1)
      <4>1. i \in 1 .. Len(calls[d]) /\ calls2[d][i] = calls[d][i]
        BY <1>1, <1>2, <3>2
      <4>2. h \in DOMAIN hold /\ hold[h] = calls[d][i]
        BY <2>3, <4>1, CallHeld
      <4>3. h # last
        BY <2>3, <3>2
      <4> QED
        BY <2>3, <4>1, <4>2, <4>3
    <3> QED
      BY <3>1, <3>2
  <2> QED
    BY <2>1, <2>2, <2>3
<1>7. last # <<c, 0>>
  BY <1>2
<1>8. \A h \in DOMAIN new : m[h] = IF h = last THEN <<c, 0>> ELSE h
  OBVIOUS
<1> HIDE DEF m, hold, new, last
<1>9. ASSUME NEW h \in DOMAIN new
      PROVE  new[h] = Batch(Nil) \/ (m[h] \in DOMAIN hold /\ Follows(a, hold[m[h]], new[h]))
  <2>1. CASE h = <<c, 0>>
    BY <1>4, <2>1
  <2>2. CASE h = last
    <3>1. m[h] = <<c, 0>> /\ new[h] = hold[m[h]] /\ m[h] \in DOMAIN hold
      BY <1>5, <1>6, <1>7, <1>8, <2>2
    <3> QED
      BY <3>1 DEF Follows
  <2>3. CASE h # <<c, 0>> /\ h # last
    <3>1. m[h] = h /\ new[h] = hold[h] /\ h \in DOMAIN hold
      BY <1>6, <1>8, <2>3
    <3> QED
      BY <3>1 DEF Follows
  <2> QED
    BY <2>1, <2>2, <2>3
<1>10. \A g, h \in DOMAIN new :
         new[g] # Batch(Nil) /\ new[h] # Batch(Nil) /\ m[g] = m[h] => g = h
  BY <1>4, <1>8
<1>11. Moves(a, hold, new, m)
  BY <1>3, <1>9, <1>10 DEF Moves
<1> QED
  BY <1>11, MovesKeep DEF hold, new

LEMMA PendingChanged ==
  ASSUME NEW a, NEW calls \in Calls(a), NEW slices \in Pendings(a), NEW c \in Contexts, NEW t
  PROVE  Holding(calls, [slices EXCEPT ![c] = t])
           = [Holding(calls, slices) EXCEPT ![<<c, 0>>] = Batch(t)]
<1> DEFINE hold == Holding(calls, slices)
           new == Holding(calls, [slices EXCEPT ![c] = t])
<1>1. new = [h \in Names(calls) |-> IF h = <<c, 0>> THEN Batch(t) ELSE hold[h]]
  <2>1. ASSUME NEW h \in Names(calls)
        PROVE  (IF h[2] = 0 THEN Batch([slices EXCEPT ![c] = t][h[1]]) ELSE calls[h[1]][h[2]])
                 = IF h = <<c, 0>> THEN Batch(t) ELSE hold[h]
    <3>1. h[1] \in Contexts /\ h = <<h[1], h[2]>>
      BY DEF Names
    <3>2. hold[h] = IF h[2] = 0 THEN Batch(slices[h[1]]) ELSE calls[h[1]][h[2]]
      BY DEF Holding
    <3>3. [slices EXCEPT ![c] = t][h[1]] = IF h[1] = c THEN t ELSE slices[h[1]]
      BY <3>1 DEF Pendings
    <3>4. h = <<c, 0>> <=> h[1] = c /\ h[2] = 0
      BY <3>1
    <3> HIDE DEF hold
    <3> QED
      BY <3>2, <3>3, <3>4
  <2> HIDE DEF hold
  <2> QED
    BY <2>1 DEF Holding
<1>2. hold = [h \in Names(calls) |-> hold[h]]
  BY DEF Holding
<1> HIDE DEF hold, new
<1> QED
  BY <1>1, <1>2 DEF hold, new

-----------------------------------------------------------------------------
(* Resolved once. *)

CInv ==
  careful => /\ Tidy(arrays, Holding(batches, pending), entry, parametered)
             /\ \A f \in parametered : entry[f] # None
             /\ again = {}

LEMMA FollowsItself ==
  ASSUME NEW a, NEW b
  PROVE  Follows(a, b, b)
BY DEF Follows

LEMMA ParametersKept ==
  ASSUME IInv, IInv', CInv, careful, NEW c \in Contexts, SetParameters(c)
  PROVE  CInv'
<1> DEFINE h == <<c, Depth(c)>>
           hold == Holding(batches, pending)
           new == Holding(batches', pending')
           b == Innermost(c)
<1>1. /\ batches \in Calls(arrays) /\ pending \in Pendings(arrays)
      /\ batches' \in Calls(arrays) /\ pending' = pending /\ arrays' = arrays
  BY DEF IInv, Calls, Pendings, SetParameters
<1>2. /\ batches[c] \in Seq(Batches(arrays)) /\ Depth(c) \in 1 .. Len(batches[c])
      /\ b = batches[c][Depth(c)] /\ b \in Batches(arrays) /\ b.busy = "parameters"
  BY BatchesOf DEF SetParameters, Innermost
<1>3. /\ batches'[c] = [batches[c] EXCEPT ![Depth(c)] = [b EXCEPT !.busy = "return"]]
      /\ \A d \in Contexts : d # c => batches'[d] = batches[d]
  BY <1>1, <1>2 DEF SetParameters, Calls
<1>4. /\ Len(batches'[c]) = Len(batches[c])
      /\ batches'[c][Depth(c)] = [b EXCEPT !.busy = "return"]
      /\ \A i \in 1 .. Len(batches[c]) : i # Depth(c) => batches'[c][i] = batches[c][i]
  BY <1>2, <1>3
<1>5. DOMAIN new = DOMAIN hold
  BY <1>3, <1>4 DEF Holding, Names
<1>6. h \in DOMAIN hold /\ hold[h] = b /\ new[h] = [b EXCEPT !.busy = "return"]
  BY <1>1, <1>2, <1>4, CallHeld
<1>7. ASSUME NEW g \in DOMAIN hold, g # h PROVE new[g] = hold[g]
  <2>1. PICK d \in Contexts :
          \/ g = <<d, 0>> /\ hold[g] = Batch(pending[d])
          \/ \E i \in 1 .. Len(batches[d]) : g = <<d, i>> /\ hold[g] = batches[d][i]
    BY <1>1, HolderIs
  <2>2. CASE g = <<d, 0>> /\ hold[g] = Batch(pending[d])
    BY <1>1, <2>2, PendingHeld
  <2>3. ASSUME NEW i \in 1 .. Len(batches[d]), g = <<d, i>>, hold[g] = batches[d][i]
        PROVE  new[g] = hold[g]
    <3>1. i \in 1 .. Len(batches'[d]) /\ batches'[d][i] = batches[d][i]
      BY <1>3, <1>4, <1>7, <2>3
    <3>2. new[g] = batches'[d][i]
      BY <1>1, <2>3, <3>1, CallHeld
    <3> QED
      BY <2>3, <3>1, <3>2
  <2> QED
    BY <2>1, <2>2, <2>3
<1>8. new[h] \in Batches(arrays)
  BY <1>1, <1>5, <1>6, HoldingTypes
<1>9. /\ new[h].slice = hold[h].slice /\ new[h].next = hold[h].next
      /\ new[h].function = hold[h].function /\ new[h].busy = "return"
  BY <1>2, <1>6, FieldsOf
<1>10. Tidy(arrays, hold, entry, parametered) /\ h \in DOMAIN hold /\ hold[h].busy = "parameters"
  BY <1>2, <1>6 DEF CInv
<1> HIDE DEF hold, new, h, b
<1>11. /\ Tidy(arrays, new, entry, parametered \cup {hold[h].function})
       /\ hold[h].function \notin parametered /\ entry[hold[h].function] # None
  BY <1>5, <1>7, <1>8, <1>9, <1>10, ParametersKeep
<1>12. parametered' = parametered \cup {b.function} /\ again' = again \cup (parametered \cap {b.function})
       /\ UNCHANGED <<arrays, entry, careful>>
  BY DEF SetParameters, b
<1> QED
  BY <1>6, <1>11, <1>12 DEF CInv, new

\* A step after which the calls of ResolveDefinitions have gone on or ended.
LEMMA GoingOnKept ==
  ASSUME IInv, IInv', CInv, careful, UNCHANGED <<arrays, entry, parametered, again, careful>>,
         \A c \in Contexts :
           /\ pending'[c] \in {pending[c], Nil}
           /\ Len(batches'[c]) <= Len(batches[c])
           /\ \A i \in 1 .. Len(batches'[c]) : Follows(arrays, batches[c][i], batches'[c][i])
  PROVE  CInv'
<1>1. /\ batches \in Calls(arrays) /\ pending \in Pendings(arrays)
      /\ batches' \in Calls(arrays) /\ pending' \in Pendings(arrays)
  BY DEF IInv, Calls, Pendings
<1>2. Tidy(arrays, Holding(batches', pending'), entry, parametered)
  BY <1>1, GoingOn DEF CInv
<1> QED
  BY <1>2 DEF CInv

\* ... which is the case when only the innermost call of c goes on.
LEMMA InnermostGoesOn ==
  ASSUME IInv, IInv', CInv, careful, NEW c \in Contexts, batches[c] # <<>>, NEW b,
         batches' = [batches EXCEPT ![c][Depth(c)] = b], Follows(arrays, Innermost(c), b),
         UNCHANGED <<pending, arrays, entry, parametered, again, careful>>
  PROVE  CInv'
<1>1. /\ batches[c] \in Seq(Batches(arrays)) /\ Depth(c) \in 1 .. Len(batches[c])
      /\ Innermost(c) = batches[c][Depth(c)]
  BY BatchesOf DEF Innermost
<1>2. /\ batches'[c] = [batches[c] EXCEPT ![Depth(c)] = b]
      /\ \A d \in Contexts : d # c => batches'[d] = batches[d]
  BY DEF IInv
<1>3. Len(batches'[c]) = Len(batches[c]) /\ Len(batches[c]) \in Nat
      /\ \A i \in 1 .. Len(batches[c]) :
           batches'[c][i] = IF i = Depth(c) THEN b ELSE batches[c][i]
  BY <1>1, <1>2
<1>4. \A d \in Contexts : Len(batches[d]) \in Nat
  BY BatchesOf
<1>5. \A d \in Contexts :
        /\ pending'[d] \in {pending[d], Nil}
        /\ Len(batches'[d]) <= Len(batches[d])
        /\ \A i \in 1 .. Len(batches'[d]) : Follows(arrays, batches[d][i], batches'[d][i])
  BY <1>1, <1>2, <1>3, <1>4, FollowsItself
<1> QED
  BY <1>5, GoingOnKept

\* ... and when the calls of c from some one on end.
LEMMA InnermostEnd ==
  ASSUME IInv, IInv', CInv, careful, NEW c \in Contexts, NEW keep \in 0 .. Depth(c),
         batches' = [batches EXCEPT ![c] = SubSeq(batches[c], 1, keep)],
         UNCHANGED <<pending, arrays, entry, parametered, again, careful>>
  PROVE  CInv'
<1>1. batches[c] \in Seq(Batches(arrays)) /\ Depth(c) = Len(batches[c]) /\ Depth(c) \in Nat
  BY BatchesOf
<1>2. /\ batches'[c] = SubSeq(batches[c], 1, keep)
      /\ \A d \in Contexts : d # c => batches'[d] = batches[d]
  BY DEF IInv
<1>3. Len(batches'[c]) = keep /\ \A i \in 1 .. keep : batches'[c][i] = batches[c][i]
  BY <1>1, <1>2, Shortened
<1>4. \A d \in Contexts : Len(batches[d]) \in Nat
  BY BatchesOf
<1>5. \A d \in Contexts :
        /\ pending'[d] \in {pending[d], Nil}
        /\ Len(batches'[d]) <= Len(batches[d])
        /\ \A i \in 1 .. Len(batches'[d]) : Follows(arrays, batches[d][i], batches'[d][i])
  BY <1>1, <1>2, <1>3, <1>4, FollowsItself
<1> QED
  BY <1>5, GoingOnKept

LEMMA SameKept ==
  ASSUME IInv, IInv', CInv, careful,
         UNCHANGED <<batches, pending, arrays, entry, parametered, again, careful>>
  PROVE  CInv'
<1>1. \A c \in Contexts : Len(batches[c]) \in Nat
  BY BatchesOf
<1>2. \A c \in Contexts :
        /\ pending'[c] \in {pending[c], Nil}
        /\ Len(batches'[c]) <= Len(batches[c])
        /\ \A i \in 1 .. Len(batches'[c]) : Follows(arrays, batches[c][i], batches'[c][i])
  BY <1>1, FollowsItself
<1> QED
  BY <1>2, GoingOnKept

\* The current definition of a call, if it has one, is at its index.
LEMMA CurrentAt ==
  ASSUME IInv, NEW c \in Contexts, Resolving(c)
  PROVE  LET b == Innermost(c)
         IN  /\ batches[c] # <<>> /\ b.busy = "no" /\ b.next \in Part(b)
             /\ Current(b) = At(arrays, b, b.next)
<1>1. batches[c] # <<>> /\ Innermost(c).busy = "no" /\ ~AtEnd(Innermost(c))
  BY DEF Resolving
<1>2. Innermost(c) \in Batches(arrays)
  BY <1>1, BatchesOf
<1>3. Innermost(c).next \in Part(Innermost(c))
  BY <1>1, <1>2, CallTypes DEF AtEnd, Part
<1> QED
  BY <1>1, <1>3 DEF Current, At

LEMMA NeverAlreadyResolved ==
  ASSUME IInv, CInv, careful, NEW c \in Contexts, AlreadyResolved(c)
  PROVE  FALSE
<1> DEFINE b == Innermost(c)
           hold == Holding(batches, pending)
<1>1. /\ batches[c] # <<>> /\ b.busy = "no" /\ b.next \in Part(b)
      /\ At(arrays, b, b.next) \in parametered
  BY CurrentAt DEF AlreadyResolved
<1>2. <<c, Depth(c)>> \in DOMAIN hold /\ hold[<<c, Depth(c)>>] = b
  <2>1. batches \in Calls(arrays) /\ Depth(c) \in 1 .. Len(batches[c]) /\ b = batches[c][Depth(c)]
    BY <1>1, BatchesOf DEF IInv, Calls, Innermost
  <2> HIDE DEF b
  <2> QED
    BY <2>1, CallHeld
<1> HIDE DEF b, hold
<1>3. Unresolved(arrays, hold, entry, parametered)
  BY DEF CInv, Tidy, hold
<1> QED
  BY <1>1, <1>2, <1>3 DEF Unresolved

LEMMA ResolvingKept ==
  ASSUME IInv, IInv', CInv, careful, NEW c \in Contexts,
         CollectType(c) \/ BeginResolve(c) \/ EndResolve(c)
  PROVE  CInv'
<1> DEFINE b == Innermost(c)
<1>1. CASE CollectType(c)
  <2>1. b \in Batches(arrays) /\ b.busy = "no" /\ batches[c] # <<>>
    BY <1>1, CurrentAt, BatchesOf DEF CollectType
  <2>2. Follows(arrays, b, Collected(b))
    <3>1. /\ Collected(b).slice = b.slice /\ Collected(b).busy = b.busy
          /\ Collected(b).next = b.next + 1
      BY <2>1, FieldsOf DEF Collected
    <3> QED
      BY <2>1, <3>1 DEF Follows
  <2>3. batches' = [batches EXCEPT ![c][Depth(c)] = Collected(b)]
    BY <1>1 DEF CollectType, Innermost
  <2>4. UNCHANGED <<pending, arrays, entry, parametered, again, careful>>
    BY <1>1 DEF CollectType
  <2> QED
    BY <2>1, <2>2, <2>3, <2>4, InnermostGoesOn
<1>2. CASE BeginResolve(c)
  <2> DEFINE new == [b EXCEPT !.busy = "parameters", !.function = Current(b)]
  <2>1. /\ batches[c] # <<>> /\ b.busy = "no" /\ b.next \in Part(b)
        /\ Current(b) = At(arrays, b, b.next)
    BY <1>2, CurrentAt DEF BeginResolve
  <2>2. b \in Batches(arrays)
    BY <2>1, BatchesOf
  <2>3. Follows(arrays, b, new)
    <3>1. /\ new.slice = b.slice /\ new.busy = "parameters" /\ new.next = b.next
          /\ new.function = Current(b)
      BY <2>2, FieldsOf
    <3> HIDE DEF new, b
    <3> QED
      BY <2>1, <3>1 DEF Follows
  <2>4. batches' = [batches EXCEPT ![c][Depth(c)] = new]
    BY <1>2 DEF BeginResolve, Innermost
  <2>5. UNCHANGED <<pending, arrays, entry, parametered, again, careful>>
    BY <1>2 DEF BeginResolve
  <2> HIDE DEF new
  <2> QED
    BY <2>1, <2>3, <2>4, <2>5, InnermostGoesOn
<1>3. CASE EndResolve(c)
  <2>1. batches[c] # <<>> /\ b \in Batches(arrays)
    BY <1>3, BatchesOf DEF EndResolve
  <2>2. Follows(arrays, b, Advanced(b))
    <3>1. /\ Advanced(b).slice = b.slice /\ Advanced(b).busy = "no"
          /\ Advanced(b).next = b.next + 1
      BY <2>1, FieldsOf DEF Advanced
    <3> QED
      BY <3>1 DEF Follows
  <2>3. batches' = [batches EXCEPT ![c][Depth(c)] = Advanced(b)]
    BY <1>3 DEF EndResolve, Innermost
  <2>4. UNCHANGED <<pending, arrays, entry, parametered, again, careful>>
    BY <1>3 DEF EndResolve
  <2> QED
    BY <2>1, <2>2, <2>3, <2>4, InnermostGoesOn
<1> QED
  BY <1>1, <1>2, <1>3

LEMMA EndingKept ==
  ASSUME IInv, IInv', CInv, careful, NEW c \in Contexts,
         EndBatch(c) \/ Fail(c) \/ \E d \in Functions \cup FromFile : CallUnresolved(c, d)
  PROVE  CInv'
<1>1. CASE EndBatch(c)
  <2>1. batches[c] # <<>> /\ batches' = [batches EXCEPT ![c] = SubSeq(batches[c], 1, Depth(c) - 1)]
        /\ UNCHANGED <<pending, arrays, entry, parametered, again, careful>>
    BY <1>1 DEF EndBatch, AtTypes
  <2>2. Depth(c) - 1 \in 0 .. Depth(c)
    BY <2>1, BatchesOf
  <2> QED
    BY <2>1, <2>2, InnermostEnd
<1>2. CASE Fail(c) \/ \E d \in Functions \cup FromFile : CallUnresolved(c, d)
  <2>1. Panic(c) /\ again' = again
    BY <1>2 DEF Fail, CallUnresolved
  <2>2. PICK keep \in 0 .. Depth(c) : batches' = [batches EXCEPT ![c] = SubSeq(@, 1, keep)]
    BY <2>1 DEF Panic
  <2>3. batches' = [batches EXCEPT ![c] = SubSeq(batches[c], 1, keep)]
    BY <2>2
  <2>4. UNCHANGED <<pending, arrays, entry, parametered, again, careful>>
    BY <2>1 DEF Panic
  <2> QED
    BY <2>3, <2>4, InnermostEnd
<1> QED
  BY <1>1, <1>2

LEMMA HostKept ==
  ASSUME IInv, IInv', CInv, careful, NEW c \in Contexts,
         EndEval(c) \/ \E d \in Contexts : WithParent(c, d) \/ Fork(c, d)
  PROVE  CInv'
<1>1. CASE EndEval(c)
  BY <1>1, SameKept DEF EndEval
<1>2. ASSUME NEW d \in Contexts, WithParent(c, d) \/ Fork(c, d) PROVE CInv'
  <2>1. Derive(c, d)
    BY <1>2 DEF WithParent, Fork
  <2>2. /\ pending' = [pending EXCEPT ![d] = Nil] /\ batches' = batches
        /\ UNCHANGED <<arrays, entry, parametered, again, careful>>
    BY <2>1 DEF Derive
  <2>3. \A e \in Contexts : pending'[e] \in {pending[e], Nil}
    BY <2>2 DEF IInv
  <2>4. \A e \in Contexts : Len(batches[e]) \in Nat
    BY BatchesOf
  <2>5. \A e \in Contexts :
          /\ pending'[e] \in {pending[e], Nil}
          /\ Len(batches'[e]) <= Len(batches[e])
          /\ \A i \in 1 .. Len(batches'[e]) : Follows(arrays, batches[e][i], batches'[e][i])
    BY <2>2, <2>3, <2>4, FollowsItself
  <2> QED
    BY <2>2, <2>5, GoingOnKept
<1> QED
  BY <1>1, <1>2

\* A step that takes what is pending.
LEMMA TakingKept ==
  ASSUME IInv, IInv', CInv, careful, NEW c \in Contexts, TopEvaluate(c)
  PROVE  CInv'
<1>1. UNCHANGED <<arrays, entry, parametered, again, careful>>
  BY DEF TopEvaluate
<1>2. CASE pending[c].len = 0
  BY <1>1, <1>2, SameKept DEF TopEvaluate
<1>3. CASE pending[c].len # 0
  <2>1. batches[c] = <<>>
    BY DEF TopEvaluate, IInv, UpToDate
  <2>2. /\ batches \in Calls(arrays) /\ pending \in Pendings(arrays)
        /\ batches' \in Calls(arrays) /\ pending' \in Pendings(arrays)
    BY <1>1 DEF IInv, Calls, Pendings
  <2>3. /\ pending' = [pending EXCEPT ![c] = Nil]
        /\ batches' = [batches EXCEPT ![c] = <<Batch(pending[c])>>]
    BY <1>3 DEF TopEvaluate, Taken
  <2>4. <<Batch(pending[c])>> = Append(batches[c], Batch(pending[c]))
    BY <2>1
  <2>5. /\ batches'[c] = Append(batches[c], Batch(pending[c])) /\ pending'[c] = Nil
        /\ \A d \in Contexts : d # c => batches'[d] = batches[d] /\ pending'[d] = pending[d]
    BY <2>2, <2>3, <2>4 DEF Calls, Pendings
  <2>6. Tidy(arrays, Holding(batches', pending'), entry, parametered)
    BY <2>2, <2>5, Taking DEF CInv
  <2> QED
    BY <1>1, <2>6 DEF CInv
<1> QED
  BY <1>2, <1>3

\* A step that appends: the definition is not entered yet, hence held nowhere.
LEMMA Appending ==
  ASSUME IInv, CInv, careful, NEW c \in Contexts, NEW d \in Definitions, entry[d] = None,
         NEW v, v \in Contexts
  PROVE  LET after == Appended(pending[c], d)
             slices == [pending EXCEPT ![c] = after.slice]
         IN  /\ Tidy(after.arrays, Holding(batches, slices), [entry EXCEPT ![d] = v], parametered)
             /\ batches \in Calls(after.arrays) /\ slices \in Pendings(after.arrays)
<1> DEFINE after == Appended(pending[c], d)
           hold == Holding(batches, pending)
           b == after.arrays
           t == after.slice
           slices == [pending EXCEPT ![c] = t]
<1>1. /\ batches \in Calls(arrays) /\ pending \in Pendings(arrays) /\ arrays \in Seq(Seq(Filled))
      /\ pending[c] \in Slices(arrays) /\ entry \in [Definitions -> Contexts \cup {None}]
  BY DEF IInv, SimpleTypes, Calls, Pendings
<1>2. <<c, 0>> \in DOMAIN hold /\ hold[<<c, 0>>] = Batch(pending[c])
  BY <1>1, PendingHeld
<1>3. Written(arrays, pending[c], d, b, t)
  BY <1>1, AppendedWrites
<1>4. Tidy(arrays, hold, entry, parametered)
  BY DEF CInv
<1>10. d \notin parametered
  BY DEF CInv
<1>11. Len(arrays) \in Nat
  BY <1>1
<1>12. v # None
  BY ConstantsAssumption
<1>5. Holding(batches, slices) = [hold EXCEPT ![<<c, 0>>] = Batch(t)]
  <2>1. batches \in Calls(arrays) /\ pending \in Pendings(arrays)
    BY <1>1
  <2> HIDE DEF t, b, after
  <2>2. Holding(batches, [pending EXCEPT ![c] = t])
          = [Holding(batches, pending) EXCEPT ![<<c, 0>>] = Batch(t)]
    BY <2>1, PendingChanged
  <2> QED
    BY <2>2
<1>6. Grown(arrays, b) /\ t \in Slices(b)
  BY <1>3 DEF Written
<1>7. slices \in Pendings(b)
  BY <1>1, <1>6 DEF Pendings, Grown
<1>8. batches \in Calls(b)
  <2>1. Batches(arrays) \subseteq Batches(b)
    BY <1>6, GrownBatches
  <2>2. \A e \in Contexts : batches[e] \in Seq(Batches(b))
    BY <2>1, BatchesOf, SequenceIn
  <2> QED
    BY <1>1, <2>2 DEF Calls
<1> HIDE DEF after, hold, b, t
<1>9. Tidy(b, [hold EXCEPT ![<<c, 0>>] = Batch(t)], [entry EXCEPT ![d] = v], parametered)
  BY <1>1, <1>2, <1>3, <1>4, <1>10, <1>11, <1>12, AppendKeeps
<1> QED
  BY <1>5, <1>7, <1>8, <1>9 DEF b, t, after

LEMMA AppendingKept ==
  ASSUME IInv, IInv', CInv, careful, NEW c \in Contexts, NEW d \in Definitions,
         Define(c, d) \/ Load(c, d)
  PROVE  CInv'
<1> DEFINE after == Appended(pending[c], d)
           slices == [pending EXCEPT ![c] = after.slice]
<1>1. PICK v \in Contexts : entry' = [entry EXCEPT ![d] = v]
  BY ConstantsAssumption DEF Define, Load, IInv, SimpleTypes
<1>2. /\ entry[d] = None /\ arrays' = after.arrays
      /\ UNCHANGED <<parametered, again, careful>>
  BY DEF Define, Load
<1>3. /\ Tidy(after.arrays, Holding(batches, slices), entry', parametered)
      /\ batches \in Calls(after.arrays) /\ slices \in Pendings(after.arrays)
  BY <1>1, <1>2, Appending
<1>4. \A f \in parametered' : entry'[f] # None
  <2>1. v # None /\ entry \in [Definitions -> Contexts \cup {None}] /\ parametered \subseteq Definitions
    BY ConstantsAssumption DEF IInv, SimpleTypes, Callables, Definitions
  <2> QED
    BY <1>1, <1>2, <2>1 DEF CInv
<1>5. CASE Define(c, d)
  <2>1. pending' = slices /\ batches' = batches
    BY <1>5 DEF Define
  <2> QED
    BY <1>2, <1>3, <1>4, <2>1 DEF CInv
<1>6. CASE Load(c, d)
  <2>1. /\ pending' = [pending EXCEPT ![c] = Nil]
        /\ batches' = [batches EXCEPT ![c] = Append(batches[c], Batch(after.slice))]
    BY <1>6 DEF Load, Taken, LoadedBatches
  <2>2. /\ slices[c] = after.slice /\ pending'[c] = Nil
        /\ batches'[c] = Append(batches[c], Batch(slices[c]))
        /\ \A e \in Contexts : e # c => batches'[e] = batches[e] /\ pending'[e] = slices[e]
    BY <2>1 DEF IInv
  <2>3. batches' \in Calls(after.arrays) /\ pending' \in Pendings(after.arrays)
    BY <1>2 DEF IInv, Calls, Pendings
  <2> HIDE DEF after, slices
  <2>4. Tidy(after.arrays, Holding(batches', pending'), entry', parametered)
    BY <1>3, <2>2, <2>3, Taking
  <2> QED
    BY <1>2, <1>4, <2>4 DEF CInv
<1> QED
  BY <1>5, <1>6

LEMMA CarefulKept ==
  ASSUME IInv, Next, CInv
  PROVE  CInv'
<1>1. PICK c \in Contexts :
    \/ \E d \in Contexts : WithParent(c, d) \/ Fork(c, d)
    \/ \E d \in Functions \cup Types : Define(c, d)
    \/ TopEvaluate(c) \/ EndEval(c)
    \/ CollectType(c) \/ BeginResolve(c) \/ AlreadyResolved(c)
    \/ SetParameters(c) \/ EndResolve(c) \/ EndBatch(c)
    \/ Fail(c)
    \/ \E d \in Functions \cup FromFile : CallUnresolved(c, d)
    \/ \E d \in FromFile : Load(c, d)
  BY DEF Next
<1>2. careful' = careful
  BY <1>1 DEF WithParent, Fork, Derive, Define, TopEvaluate, EndEval, CollectType, BeginResolve,
              AlreadyResolved, SetParameters, EndResolve, EndBatch, Fail, CallUnresolved, Load, Panic
<1>3. CASE ~careful
  BY <1>2, <1>3 DEF CInv
<1>4. CASE careful
  <2>1. IInv'
    BY Kept
  <2>2. ASSUME NEW d \in Functions \cup Types, Define(c, d) PROVE CInv'
    BY <1>4, <2>1, <2>2, AppendingKept DEF Definitions
  <2>3. ASSUME NEW d \in FromFile, Load(c, d) PROVE CInv'
    BY <1>4, <2>1, <2>3, AppendingKept DEF Definitions
  <2> QED
    BY <1>1, <1>4, <2>1, <2>2, <2>3, HostKept, TakingKept, ResolvingKept, EndingKept,
       ParametersKept, NeverAlreadyResolved
<1> QED
  BY <1>3, <1>4

LEMMA CarefulInitially == Init => CInv
<1> SUFFICES ASSUME Init PROVE CInv
  OBVIOUS
<1>1. IInv
  BY Initially
<1>2. batches \in Calls(arrays) /\ pending \in Pendings(arrays)
  BY <1>1 DEF IInv, Calls, Pendings
<1>3. \A h \in DOMAIN Holding(batches, pending) : Holding(batches, pending)[h] = Batch(Nil)
  <2>1. \A c \in Contexts : pending[c] = Nil /\ batches[c] = <<>>
    BY DEF Init
  <2>2. \A c \in Contexts : 1 .. Len(batches[c]) = {}
    BY <2>1
  <2> QED
    BY <1>2, <2>1, <2>2, HolderIs
<1>4. \A h \in DOMAIN Holding(batches, pending) : Holding(batches, pending)[h] \in Batches(arrays)
  BY <1>2, HoldingTypes
<1>5. Tidy(arrays, Holding(batches, pending), entry, parametered)
  BY <1>3, <1>4, EmptyCall DEF Tidy, OwnArrays, HeldOnce, Unresolved, WorksOnCurrent
<1> QED
  BY <1>5 DEF CInv, Init

\* When the host derives contexts with nothing pending, no function is resolved
\* twice: every definition waits in one place, of which no other context and no
\* other call of ResolveDefinitions knows.
THEOREM EachResolvedOnce == Spec => []ResolvedOnceIfCareful
<1>1. CInv /\ UNCHANGED vars => CInv'
  BY DEF CInv, vars
<1>2. CInv => ResolvedOnceIfCareful
  BY DEF CInv, ResolvedOnceIfCareful, ResolvedOnce
<1>3. IInv /\ CInv /\ [Next]_vars => CInv'
  BY <1>1, CarefulKept
<1> QED
  BY <1>2, <1>3, CarefulInitially, Inductive, PTL DEF Spec

-----------------------------------------------------------------------------
(* Nothing is lost: what the holders hold, each in one place, is what has    *)
(* been entered and is not gone, resolved or dropped.                        *)

Open(a, b) == b.types \cup {At(a, b, j) : j \in Part(b)}

Apart(a, hold) ==
  \A g, h \in DOMAIN hold : g # h => Open(a, hold[g]) \cap Open(a, hold[h]) = {}
Somewhere(a, hold, d) == \E h \in DOMAIN hold : d \in Open(a, hold[h])

Accounted(a, hold, e, gone) ==
  /\ Apart(a, hold)
  /\ \A h \in DOMAIN hold : Open(a, hold[h]) \subseteq Definitions
  /\ \A d \in Definitions : Somewhere(a, hold, d) <=> e[d] # None /\ d \notin gone
  /\ gone \subseteq Definitions /\ \A d \in gone : e[d] # None

\* What a holder that has begun nothing holds, and one without definitions.
LEMMA OpenBatch ==
  ASSUME NEW a, NEW s
  PROVE  Open(a, Batch(s)) = {a[s.array][j] : j \in 1 .. s.len}
BY DEF Open, Batch, At, Part

LEMMA OpenNil ==
  ASSUME NEW a
  PROVE  Open(a, Batch(Nil)) = {}
BY OpenBatch DEF Nil

\* A step that takes s from the holders, and only hands the rest around.
LEMMA HandedOn ==
  ASSUME NEW a, NEW hold, NEW new, NEW e, NEW gone, NEW s, Accounted(a, hold, e, gone),
         Apart(a, new),
         \A d \in s : Somewhere(a, hold, d),
         \A h \in DOMAIN new : \A d \in Open(a, new[h]) : d \notin s /\ Somewhere(a, hold, d),
         \A g \in DOMAIN hold : \A d \in Open(a, hold[g]) : d \in s \/ Somewhere(a, new, d)
  PROVE  Accounted(a, new, e, gone \cup s)
<1>1. \A d : Somewhere(a, hold, d) => d \in Definitions
  BY DEF Accounted, Somewhere
<1>2. s \subseteq Definitions /\ \A d \in s : e[d] # None
  BY <1>1 DEF Accounted
<1>3. ASSUME NEW d \in Definitions
      PROVE  Somewhere(a, new, d) <=> e[d] # None /\ d \notin gone \cup s
  <2>1. Somewhere(a, new, d) => d \notin s /\ Somewhere(a, hold, d)
    BY DEF Somewhere
  <2>2. Somewhere(a, hold, d) => d \in s \/ Somewhere(a, new, d)
    BY DEF Somewhere
  <2> QED
    BY <2>1, <2>2 DEF Accounted
<1>4. \A h \in DOMAIN new : Open(a, new[h]) \subseteq Definitions
  BY <1>1
<1> QED
  BY <1>2, <1>3, <1>4 DEF Accounted

\* One holder has done with s.
LEMMA OneGoesOn ==
  ASSUME NEW a, NEW hold, NEW new, NEW e, NEW gone, NEW s, Accounted(a, hold, e, gone),
         DOMAIN new = DOMAIN hold, NEW h \in DOMAIN hold,
         \A g \in DOMAIN hold : g # h => new[g] = hold[g],
         s \subseteq Open(a, hold[h]), Open(a, new[h]) = Open(a, hold[h]) \ s
  PROVE  Accounted(a, new, e, gone \cup s)
<1>1. \A g \in DOMAIN hold : Open(a, new[g]) \subseteq Open(a, hold[g])
  BY Zenon
<1>2. Apart(a, new)
  BY <1>1 DEF Accounted, Apart
<1>3. \A d \in s : Somewhere(a, hold, d)
  BY DEF Somewhere
<1>4. ASSUME NEW g \in DOMAIN new, NEW d \in Open(a, new[g])
      PROVE  d \notin s /\ Somewhere(a, hold, d)
  <2>1. d \in Open(a, hold[g])
    BY <1>1, <1>4
  <2>2. CASE g = h
    BY <2>1, <2>2, <1>4 DEF Somewhere
  <2>3. CASE g # h
    BY <2>1, <2>3 DEF Somewhere, Accounted, Apart
  <2> QED
    BY <2>2, <2>3
<1>5. ASSUME NEW g \in DOMAIN hold, NEW d \in Open(a, hold[g])
      PROVE  d \in s \/ Somewhere(a, new, d)
  <2>1. g # h => d \in Open(a, new[g])
    BY <1>5
  <2>2. g = h => d \in s \/ d \in Open(a, new[g])
    BY <1>5
  <2> QED
    BY <2>1, <2>2 DEF Somewhere
<1> QED
  BY <1>2, <1>3, <1>4, <1>5, HandedOn

\* Some holders end.
LEMMA SomeEnd ==
  ASSUME NEW a, NEW hold, NEW new, NEW e, NEW gone, NEW s, Accounted(a, hold, e, gone),
         DOMAIN new \subseteq DOMAIN hold, \A g \in DOMAIN new : new[g] = hold[g],
         \A g \in DOMAIN hold : g \notin DOMAIN new => Open(a, hold[g]) \subseteq s,
         \A d \in s : \E g \in DOMAIN hold : g \notin DOMAIN new /\ d \in Open(a, hold[g])
  PROVE  Accounted(a, new, e, gone \cup s)
<1>1. Apart(a, new)
  BY DEF Accounted, Apart
<1>2. \A d \in s : Somewhere(a, hold, d)
  BY DEF Somewhere
<1>3. ASSUME NEW h \in DOMAIN new, NEW d \in Open(a, new[h])
      PROVE  d \notin s /\ Somewhere(a, hold, d)
  <2>1. h \in DOMAIN hold /\ d \in Open(a, hold[h])
    BY <1>3
  <2>2. \A g \in DOMAIN hold : d \in Open(a, hold[g]) => g = h
    BY <2>1 DEF Accounted, Apart
  <2> QED
    BY <2>1, <2>2 DEF Somewhere
<1>4. ASSUME NEW g \in DOMAIN hold, NEW d \in Open(a, hold[g])
      PROVE  d \in s \/ Somewhere(a, new, d)
  BY <1>4 DEF Somewhere
<1> QED
  BY <1>1, <1>2, <1>3, <1>4, HandedOn

\* What k holds is taken by a new holder.
Takes(hold, new, k, last) ==
  /\ k \in DOMAIN hold /\ last \notin DOMAIN hold /\ DOMAIN new = DOMAIN hold \cup {last}
  /\ new[k] = Batch(Nil) /\ new[last] = hold[k]
  /\ \A g \in DOMAIN hold : g # k => new[g] = hold[g]

LEMMA OneTakes ==
  ASSUME NEW a, NEW hold, NEW new, NEW e, NEW gone, Accounted(a, hold, e, gone),
         NEW k, NEW last, Takes(hold, new, k, last)
  PROVE  Accounted(a, new, e, gone)
<1>0. /\ Open(a, new[k]) = {} /\ Open(a, new[last]) = Open(a, hold[k])
      /\ DOMAIN new = DOMAIN hold \cup {last} /\ k \in DOMAIN hold /\ last \notin DOMAIN hold
      /\ \A g \in DOMAIN hold : g # k => new[g] = hold[g]
  BY OpenNil DEF Takes
<1>1. Apart(a, new)
  <2> SUFFICES ASSUME NEW g \in DOMAIN new, NEW h \in DOMAIN new, g # h,
                      NEW d \in Open(a, new[g]), d \in Open(a, new[h])
               PROVE  FALSE
    BY DEF Apart
  <2> DEFINE from(x) == IF x = last THEN k ELSE x
  <2>1. from(g) \in DOMAIN hold /\ d \in Open(a, hold[from(g)]) /\ g # k
    BY <1>0
  <2>2. from(h) \in DOMAIN hold /\ d \in Open(a, hold[from(h)]) /\ h # k
    BY <1>0
  <2>3. from(g) # from(h)
    BY <2>1, <2>2
  <2> QED
    BY <2>1, <2>2, <2>3 DEF Accounted, Apart
<1>2. \A h \in DOMAIN new : \A d \in Open(a, new[h]) : d \notin {} /\ Somewhere(a, hold, d)
  BY <1>0 DEF Somewhere
<1>3. ASSUME NEW g \in DOMAIN hold, NEW d \in Open(a, hold[g])
      PROVE  d \in {} \/ Somewhere(a, new, d)
  <2>1. g = k => d \in Open(a, new[last])
    BY <1>0, <1>3
  <2>2. g # k => d \in Open(a, new[g])
    BY <1>0, <1>3
  <2> QED
    BY <1>0, <2>1, <2>2 DEF Somewhere
<1>4. Accounted(a, new, e, gone \cup {})
  BY <1>1, <1>2, <1>3, HandedOn
<1> QED
  BY <1>4

\* One more definition is held when it is appended, and the others still are.
LEMMA OneMore ==
  ASSUME NEW a, Len(a) \in Nat, NEW hold, NEW e \in [Definitions -> Contexts \cup {None}],
         NEW p, NEW gone, Tidy(a, hold, e, p), Accounted(a, hold, e, gone),
         NEW h \in DOMAIN hold, NEW s \in Slices(a), hold[h] = Batch(s),
         NEW d \in Definitions, e[d] = None, NEW v, v # None,
         NEW b, NEW t, Written(a, s, d, b, t)
  PROVE  Accounted(b, [hold EXCEPT ![h] = Batch(t)], [e EXCEPT ![d] = v], gone)
<1> DEFINE new == [hold EXCEPT ![h] = Batch(t)]
<1>1. DOMAIN new = DOMAIN hold /\ new[h] = Batch(t) /\ \A g \in DOMAIN hold : g # h => new[g] = hold[g]
  OBVIOUS
<1> HIDE DEF new
<1>2. s.len \in Nat /\ s.array \in 0 .. Len(a) /\ hold[h].slice = s
  BY DEF Slices, Batch
<1>3. ASSUME NEW g \in DOMAIN hold, g # h
      PROVE  Open(b, new[g]) = Open(a, hold[g])
  <2>1. hold[g].slice \in Slices(a) /\ hold[g].next \in Nat \ {0}
    BY DEF Tidy, Batches
  <2>2. ASSUME NEW j \in Part(hold[g]) PROVE At(b, hold[g], j) = At(a, hold[g], j)
    <3>1. j \in 1 .. hold[g].slice.len
      BY <2>1 DEF Part, Slices
    <3>2. hold[g].slice.array # 0
      BY <2>1, <3>1 DEF Slices, FitsIn
    <3>3. hold[g].slice.array # s.array
      BY <1>2, <1>3, <3>2 DEF Tidy, OwnArrays
    <3> QED
      BY <2>1, <3>1, <3>2, <3>3 DEF Written, At
  <2> QED
    BY <1>1, <1>3, <2>2 DEF Open
<1>4. Open(b, new[h]) = Open(a, hold[h]) \cup {d}
  <2>1. Open(b, new[h]) = {b[t.array][j] : j \in 1 .. t.len}
    BY <1>1, OpenBatch
  <2>2. Open(a, hold[h]) = {a[s.array][j] : j \in 1 .. s.len}
    BY OpenBatch
  <2>3. /\ t.len = s.len + 1 /\ b[t.array][t.len] = d
        /\ \A i \in 1 .. s.len : b[t.array][i] = a[s.array][i]
    BY DEF Written
  <2> QED
    BY <1>2, <2>1, <2>2, <2>3
<1>5. \A g \in DOMAIN hold : d \notin Open(a, hold[g])
  BY DEF Accounted, Somewhere
<1>6. Apart(b, new)
  BY <1>1, <1>3, <1>4, <1>5 DEF Accounted, Apart
<1>7. \A g \in DOMAIN new : Open(b, new[g]) \subseteq Definitions
  BY <1>1, <1>3, <1>4 DEF Accounted
<1>8. ASSUME NEW x \in Definitions
      PROVE  Somewhere(b, new, x) <=> [e EXCEPT ![d] = v][x] # None /\ x \notin gone
  <2>1. CASE x = d
    BY <1>1, <1>4, <2>1 DEF Somewhere, Accounted
  <2>2. CASE x # d
    <3>1. Somewhere(b, new, x) <=> Somewhere(a, hold, x)
      BY <1>1, <1>3, <1>4, <2>2 DEF Somewhere
    <3> QED
      BY <2>2, <3>1 DEF Accounted
  <2> QED
    BY <2>1, <2>2
<1>9. gone \subseteq Definitions /\ \A x \in gone : [e EXCEPT ![d] = v][x] # None
  BY DEF Accounted
<1> QED
  BY <1>6, <1>7, <1>8, <1>9 DEF Accounted, new

-----------------------------------------------------------------------------
(* The holders of the next state. *)

\* Calls of c have ended, others of c may have gone on.
Ended(c, calls, calls2) == {<<c, i>> : i \in Len(calls2[c]) + 1 .. Len(calls[c])}
Fewer(hold, new, c, calls, calls2) ==
  /\ DOMAIN new = DOMAIN hold \ Ended(c, calls, calls2)
  /\ \A g \in DOMAIN new :
       \/ new[g] = hold[g]
       \/ \E i \in 1 .. Len(calls2[c]) : g = <<c, i>> /\ calls2[c][i] # calls[c][i]
  /\ \A i \in 1 .. Len(calls2[c]) : new[<<c, i>>] = calls2[c][i]

\* No call begins, and what is pending stays.
LEMMA HoldersSame ==
  ASSUME NEW a, NEW calls \in Calls(a), NEW slices, NEW calls2 \in Calls(a), NEW slices2,
         slices2 = slices, NEW c \in Contexts, Len(calls2[c]) <= Len(calls[c]),
         \A d \in Contexts : d # c => calls2[d] = calls[d]
  PROVE  Fewer(Holding(calls, slices), Holding(calls2, slices2), c, calls, calls2)
<1> DEFINE hold == Holding(calls, slices)
           new == Holding(calls2, slices2)
<1>1. \A d \in Contexts : Len(calls[d]) \in Nat /\ Len(calls2[d]) \in Nat
  BY DEF Calls
<1>2. DOMAIN new = DOMAIN hold \ Ended(c, calls, calls2)
  <2>1. ASSUME NEW d \in Contexts, NEW i \in Nat
        PROVE  <<d, i>> \in DOMAIN new <=>
                 <<d, i>> \in DOMAIN hold /\ ~(d = c /\ i \in Len(calls2[c]) + 1 .. Len(calls[c]))
    <3>1. <<d, i>> \in DOMAIN new <=> i <= Len(calls2[d])
      BY DEF Holding, Names
    <3>2. <<d, i>> \in DOMAIN hold <=> i <= Len(calls[d])
      BY DEF Holding, Names
    <3> HIDE DEF new, hold
    <3>3. d # c => Len(calls2[d]) = Len(calls[d])
      OBVIOUS
    <3> QED
      BY <1>1, <3>1, <3>2, <3>3
  <2>2. DOMAIN new \subseteq Contexts \X Nat /\ DOMAIN hold \subseteq Contexts \X Nat
    BY DEF Holding, Names
  <2> HIDE DEF new, hold
  <2>3. ASSUME NEW g \in Contexts \X Nat
        PROVE  g \in DOMAIN new <=>
                 g \in DOMAIN hold \ Ended(c, calls, calls2)
    <3>1. PICK d \in Contexts, i \in Nat : g = <<d, i>>
      OBVIOUS
    <3>2. g \in Ended(c, calls, calls2) <=> d = c /\ i \in Len(calls2[c]) + 1 .. Len(calls[c])
      BY <3>1 DEF Ended
    <3> QED
      BY <2>1, <3>1, <3>2
  <2> QED
    BY <2>2, <2>3
<1>3. ASSUME NEW g \in DOMAIN new
      PROVE  \/ new[g] = hold[g]
             \/ \E i \in 1 .. Len(calls2[c]) : g = <<c, i>> /\ calls2[c][i] # calls[c][i]
  <2>1. PICK d \in Contexts :
          \/ g = <<d, 0>> /\ new[g] = Batch(slices2[d])
          \/ \E i \in 1 .. Len(calls2[d]) : g = <<d, i>> /\ new[g] = calls2[d][i]
    BY HolderIs
  <2>2. CASE g = <<d, 0>> /\ new[g] = Batch(slices2[d])
    BY <2>2, PendingHeld
  <2>3. ASSUME NEW i \in 1 .. Len(calls2[d]), g = <<d, i>>, new[g] = calls2[d][i],
               d # c \/ calls2[d][i] = calls[d][i]
        PROVE  new[g] = hold[g]
    <3>1. i \in 1 .. Len(calls[d]) /\ calls2[d][i] = calls[d][i]
      BY <1>1, <2>3
    <3>2. hold[g] = calls[d][i]
      BY <2>3, <3>1, CallHeld
    <3> QED
      BY <2>3, <3>1, <3>2
  <2> QED
    BY <2>1, <2>2, <2>3
<1>4. \A i \in 1 .. Len(calls2[c]) : new[<<c, i>>] = calls2[c][i]
  BY CallHeld
<1> QED
  BY <1>2, <1>3, <1>4 DEF Fewer

\* A call begins, with what is pending.
LEMMA HoldersMore ==
  ASSUME NEW a, NEW calls \in Calls(a), NEW slices \in Pendings(a),
         NEW calls2 \in Calls(a), NEW slices2 \in Pendings(a), NEW c \in Contexts,
         calls2[c] = Append(calls[c], Batch(slices[c])), slices2[c] = Nil,
         \A d \in Contexts : d # c => calls2[d] = calls[d] /\ slices2[d] = slices[d]
  PROVE  \E k, last : Takes(Holding(calls, slices), Holding(calls2, slices2), k, last)
<1> DEFINE hold == Holding(calls, slices)
           new == Holding(calls2, slices2)
           last == <<c, Len(calls[c]) + 1>>
<1> SUFFICES Takes(hold, new, <<c, 0>>, last)
  OBVIOUS
<1>1. \A d \in Contexts : Len(calls[d]) \in Nat
  BY DEF Calls
<1>2. calls[c] \in Seq(Batches(a))
  BY DEF Calls
<1>3. /\ Len(calls2[c]) = Len(calls[c]) + 1 /\ calls2[c][Len(calls[c]) + 1] = Batch(slices[c])
      /\ \A i \in 1 .. Len(calls[c]) : calls2[c][i] = calls[c][i]
  <2>1. slices[c] \in Slices(a)
    BY DEF Pendings
  <2>2. Batch(slices[c]) \in Batches(a)
    BY <2>1, BatchIs
  <2> QED
    BY <1>2, <2>2, Extended
<1>4. ASSUME NEW d \in Contexts, NEW i \in Nat
      PROVE  /\ <<d, i>> \in DOMAIN new <=> <<d, i>> \in DOMAIN hold \/ <<d, i>> = last
             /\ <<d, i>> = last => <<d, i>> \notin DOMAIN hold
  <2>1. <<d, i>> \in DOMAIN new <=> i <= Len(calls2[d])
    BY DEF Holding, Names
  <2>2. <<d, i>> \in DOMAIN hold <=> i <= Len(calls[d])
    BY DEF Holding, Names
  <2>3. <<d, i>> = last <=> d = c /\ i = Len(calls[c]) + 1
    OBVIOUS
  <2>4. d # c => Len(calls2[d]) = Len(calls[d])
    OBVIOUS
  <2> QED
    BY <1>1, <1>3, <2>1, <2>2, <2>3, <2>4
<1>5. DOMAIN new \subseteq Contexts \X Nat /\ DOMAIN hold \subseteq Contexts \X Nat
  BY DEF Holding, Names
<1>6. last \in Contexts \X Nat
  BY <1>1
<1>7. last \notin DOMAIN hold /\ DOMAIN new = DOMAIN hold \cup {last}
  <2>1. \A g \in Contexts \X Nat : /\ g \in DOMAIN new <=> g \in DOMAIN hold \/ g = last
                                   /\ g = last => g \notin DOMAIN hold
    BY <1>4
  <2> QED
    BY <1>5, <1>6, <2>1
<1>8. /\ <<c, 0>> \in DOMAIN hold /\ hold[<<c, 0>>] = Batch(slices[c])
      /\ new[<<c, 0>>] = Batch(Nil)
  BY PendingHeld
<1>9. new[last] = Batch(slices[c])
  <2>1. Len(calls[c]) + 1 \in 1 .. Len(calls2[c])
    BY <1>1, <1>3
  <2> QED
    BY <1>3, <2>1, CallHeld
<1>10. ASSUME NEW g \in DOMAIN hold, g # <<c, 0>> PROVE new[g] = hold[g]
  <2>1. PICK d \in Contexts :
          \/ g = <<d, 0>> /\ hold[g] = Batch(slices[d])
          \/ \E i \in 1 .. Len(calls[d]) : g = <<d, i>> /\ hold[g] = calls[d][i]
    BY HolderIs
  <2>2. CASE g = <<d, 0>> /\ hold[g] = Batch(slices[d])
    <3>1. d # c
      BY <1>10, <2>2
    <3> QED
      BY <2>2, <3>1, PendingHeld
  <2>3. ASSUME NEW i \in 1 .. Len(calls[d]), g = <<d, i>>, hold[g] = calls[d][i]
        PROVE  new[g] = hold[g]
    <3>1. i \in 1 .. Len(calls2[d]) /\ calls2[d][i] = calls[d][i]
      <4>1. CASE d = c
        BY <1>1, <1>3, <4>1
      <4>2. CASE d # c
        BY <4>2
      <4> QED
        BY <4>1, <4>2
    <3>2. new[g] = calls2[d][i]
      BY <2>3, <3>1, CallHeld
    <3> QED
      BY <2>3, <3>1, <3>2
  <2> QED
    BY <2>1, <2>2, <2>3
<1> QED
  BY <1>7, <1>8, <1>9, <1>10 DEF Takes

-----------------------------------------------------------------------------
(* The books of a state. *)

Books == Accounted(arrays, Holding(batches, pending), entry, resolved \cup dropped)

LEMMA OpenIs ==
  ASSUME arrays \in Seq(Seq(Filled)), NEW b \in Batches(arrays)
  PROVE  Remaining(b) = Open(arrays, b)
<1>1. b.slice \in Slices(arrays) /\ b.next \in Nat \ {0}
  BY DEF Batches
<1>2. ASSUME NEW j \in Part(b) PROVE Elements(b.slice)[j] = At(arrays, b, j)
  <2>1. j \in 1 .. b.slice.len
    BY <1>1, <1>2 DEF Part, Slices
  <2>2. b.slice.array \in 1 .. Len(arrays) /\ b.slice.len \in 1 .. Len(arrays[b.slice.array])
    BY <1>1, <2>1 DEF Slices, FitsIn
  <2>3. arrays[b.slice.array] \in Seq(Filled) /\ b.slice.len \in 0 .. Len(arrays[b.slice.array])
    BY <2>2, ElementOf
  <2> QED
    BY <2>1, <2>2, <2>3, Shortened DEF Elements, At
<1> QED
  BY <1>2 DEF Remaining, Open, Part

\* The innermost call goes on and has done with s.
LEMMA InnermostBooks ==
  ASSUME IInv, IInv', Books, NEW c \in Contexts, batches[c] # <<>>, NEW b, NEW s,
         batches' = [batches EXCEPT ![c][Depth(c)] = b],
         s \subseteq Open(arrays, Innermost(c)), Open(arrays, b) = Open(arrays, Innermost(c)) \ s,
         UNCHANGED <<pending, arrays, entry>>,
         resolved' \cup dropped' = (resolved \cup dropped) \cup s
  PROVE  Books'
<1> DEFINE hold == Holding(batches, pending)
           new == Holding(batches', pending')
           h == <<c, Depth(c)>>
<1>1. /\ batches \in Calls(arrays) /\ pending \in Pendings(arrays)
      /\ batches' \in Calls(arrays) /\ pending' \in Pendings(arrays) /\ pending' = pending
  BY DEF IInv, Calls, Pendings
<1>2. /\ batches[c] \in Seq(Batches(arrays)) /\ Depth(c) \in 1 .. Len(batches[c])
      /\ Innermost(c) = batches[c][Depth(c)] /\ Len(batches[c]) \in Nat
  BY BatchesOf DEF Innermost
<1>3. /\ batches'[c] = [batches[c] EXCEPT ![Depth(c)] = b]
      /\ \A d \in Contexts : d # c => batches'[d] = batches[d]
  BY <1>1 DEF Calls
<1>4. /\ Len(batches'[c]) = Len(batches[c]) /\ batches'[c][Depth(c)] = b
      /\ \A i \in 1 .. Len(batches[c]) : i # Depth(c) => batches'[c][i] = batches[c][i]
  BY <1>2, <1>3
<1>5. Len(batches[c]) \in 0 .. Len(batches[c]) /\ Len(batches[c]) + 1 .. Len(batches[c]) = {}
  BY <1>2
<1>6. Fewer(hold, new, c, batches, batches')
  <2>1. Len(batches'[c]) <= Len(batches[c])
    BY <1>2, <1>4
  <2> QED
    BY <1>1, <1>3, <2>1, HoldersSame
<1>7. h \in DOMAIN hold /\ hold[h] = Innermost(c)
  BY <1>1, <1>2, CallHeld
<1> HIDE DEF hold, new
<1>8. /\ DOMAIN new = DOMAIN hold /\ new[h] = b
      /\ \A g \in DOMAIN hold : g # h => new[g] = hold[g]
  BY <1>2, <1>4, <1>5, <1>6 DEF Fewer, Ended
<1> HIDE DEF hold, new, h
<1>9. Accounted(arrays, new, entry, (resolved \cup dropped) \cup s)
  BY <1>7, <1>8, OneGoesOn DEF Books, hold
<1> QED
  BY <1>1, <1>9 DEF Books, new

\* The calls of c behind some one end, with what they have not resolved.
LEMMA EndedBooks ==
  ASSUME IInv, IInv', Books, NEW c \in Contexts, NEW keep \in 0 .. Depth(c), NEW s,
         batches' = [batches EXCEPT ![c] = SubSeq(batches[c], 1, keep)],
         UNCHANGED <<pending, arrays, entry>>,
         s = UNION {Open(arrays, batches[c][i]) : i \in keep + 1 .. Depth(c)},
         resolved' \cup dropped' = (resolved \cup dropped) \cup s
  PROVE  Books'
<1> DEFINE hold == Holding(batches, pending)
           new == Holding(batches', pending')
<1>1. /\ batches \in Calls(arrays) /\ pending \in Pendings(arrays)
      /\ batches' \in Calls(arrays) /\ pending' \in Pendings(arrays) /\ pending' = pending
  BY DEF IInv, Calls, Pendings
<1>2. batches[c] \in Seq(Batches(arrays)) /\ Depth(c) = Len(batches[c]) /\ Depth(c) \in Nat
  BY BatchesOf
<1>3. /\ batches'[c] = SubSeq(batches[c], 1, keep)
      /\ \A d \in Contexts : d # c => batches'[d] = batches[d]
  BY <1>1 DEF Calls
<1>4. Len(batches'[c]) = keep /\ \A i \in 1 .. keep : batches'[c][i] = batches[c][i]
  BY <1>2, <1>3, Shortened
<1>5. /\ DOMAIN new = DOMAIN hold \ {<<c, i>> : i \in keep + 1 .. Len(batches[c])}
      /\ \A g \in DOMAIN new : new[g] = hold[g]
  <2>1. Len(batches'[c]) <= Len(batches[c])
    BY <1>2, <1>4
  <2>2. Fewer(hold, new, c, batches, batches')
    BY <1>1, <1>3, <2>1, HoldersSame
  <2> HIDE DEF hold, new
  <2> QED
    BY <1>4, <2>2 DEF Fewer, Ended
<1>7. \A i \in keep + 1 .. Len(batches[c]) : <<c, i>> \in DOMAIN hold /\ hold[<<c, i>>] = batches[c][i]
  <2>1. \A i \in keep + 1 .. Len(batches[c]) : i \in 1 .. Len(batches[c])
    BY <1>2
  <2> QED
    BY <1>1, <2>1, CallHeld
<1> HIDE DEF hold, new
<1>8. DOMAIN hold \ DOMAIN new = {<<c, i>> : i \in keep + 1 .. Len(batches[c])}
  BY <1>5, <1>7
<1>9. /\ \A g \in DOMAIN hold : g \notin DOMAIN new => Open(arrays, hold[g]) \subseteq s
      /\ \A d \in s : \E g \in DOMAIN hold : g \notin DOMAIN new /\ d \in Open(arrays, hold[g])
  BY <1>2, <1>7, <1>8
<1>10. DOMAIN new \subseteq DOMAIN hold /\ \A g \in DOMAIN new : new[g] = hold[g]
  BY <1>5
<1>11. Accounted(arrays, new, entry, (resolved \cup dropped) \cup s)
  BY <1>9, <1>10, SomeEnd DEF Books, hold
<1> QED
  BY <1>1, <1>11 DEF Books, new

LEMMA SameBooks ==
  ASSUME Books, UNCHANGED <<batches, pending, arrays, entry, resolved, dropped>>
  PROVE  Books'
BY DEF Books

\* What is pending in a context is taken by a new call.
LEMMA TakenBooks ==
  ASSUME NEW a, NEW calls \in Calls(a), NEW slices \in Pendings(a), NEW e, NEW gone,
         NEW calls2 \in Calls(a), NEW slices2 \in Pendings(a), NEW c \in Contexts,
         Accounted(a, Holding(calls, slices), e, gone),
         calls2[c] = Append(calls[c], Batch(slices[c])), slices2[c] = Nil,
         \A d \in Contexts : d # c => calls2[d] = calls[d] /\ slices2[d] = slices[d]
  PROVE  Accounted(a, Holding(calls2, slices2), e, gone)
BY HoldersMore, OneTakes

\* What a context that does not exist yet has, and the books for careful hosts.
Unborn == \A c \in Contexts : mode[c] = "none" => pending[c] = Nil
Accounts == Unborn /\ (careful => Books)

LEMMA UnbornKept ==
  ASSUME IInv, Unborn, Next
  PROVE  Unborn'
<1>1. PICK c \in Contexts :
    \/ \E d \in Contexts : WithParent(c, d) \/ Fork(c, d)
    \/ \E d \in Functions \cup Types : Define(c, d)
    \/ TopEvaluate(c) \/ EndEval(c)
    \/ CollectType(c) \/ BeginResolve(c) \/ AlreadyResolved(c)
    \/ SetParameters(c) \/ EndResolve(c) \/ EndBatch(c)
    \/ Fail(c)
    \/ \E d \in Functions \cup FromFile : CallUnresolved(c, d)
    \/ \E d \in FromFile : Load(c, d)
  BY DEF Next
<1>2. mode \in [Contexts -> Modes] /\ pending \in [Contexts -> Slices(arrays)]
  BY DEF IInv, SimpleTypes
<1>3. CASE mode' = mode /\ pending' = pending
  BY <1>3 DEF Unborn, Nil
<1>4. ASSUME NEW d \in Contexts, WithParent(c, d) \/ Fork(c, d) PROVE Unborn'
  BY <1>2, <1>4 DEF WithParent, Fork, Derive, Unborn, Nil
<1>5. ASSUME NEW d, Define(c, d) PROVE Unborn'
  BY <1>2, <1>5 DEF Define, Unborn, Nil
<1>6. CASE TopEvaluate(c)
  BY <1>2, <1>6 DEF TopEvaluate, Unborn, Nil
<1>7. CASE EndEval(c)
  BY <1>2, <1>7 DEF EndEval, Unborn, Nil
<1>8. CASE EndBatch(c)
  BY <1>2, <1>8 DEF EndBatch, Unborn, Nil
<1>9. CASE Panic(c)
  BY <1>2, <1>9 DEF Panic, Unborn, Nil
<1>10. ASSUME NEW d, Load(c, d) PROVE Unborn'
  BY <1>2, <1>10 DEF Load, Taken, Unborn, Nil
<1> QED
  BY <1>1, <1>3, <1>4, <1>5, <1>6, <1>7, <1>8, <1>9, <1>10
     DEF CollectType, BeginResolve, AlreadyResolved, SetParameters, EndResolve, Fail, CallUnresolved

\* Steps of the innermost call of c.
LEMMA ResolvingBooks ==
  ASSUME IInv, IInv', Books, NEW c \in Contexts,
         CollectType(c) \/ BeginResolve(c) \/ SetParameters(c)
  PROVE  Books'
<1> DEFINE b == Innermost(c)
<1>1. batches[c] # <<>>
  BY CurrentAt DEF CollectType, BeginResolve, SetParameters
<1>2. b \in Batches(arrays)
  BY <1>1, BatchesOf
<1>3. PICK new : /\ batches' = [batches EXCEPT ![c][Depth(c)] = new]
                 /\ Open(arrays, new) = Open(arrays, b)
  <2>1. CASE CollectType(c)
    <3>1. b.next \in Part(b) /\ Current(b) = At(arrays, b, b.next)
      BY <2>1, CurrentAt DEF CollectType
    <3>2. /\ Collected(b).slice = b.slice /\ Collected(b).next = b.next + 1
          /\ Collected(b).types = b.types \cup {Current(b)}
      BY <1>2, FieldsOf DEF Collected
    <3>3. b.next \in Nat /\ b.slice.len \in Nat
      BY <1>2, CallTypes
    <3>4. Part(b) = Part(Collected(b)) \cup {b.next}
      BY <3>1, <3>2, <3>3 DEF Part
    <3>5. \A j : At(arrays, Collected(b), j) = At(arrays, b, j)
      BY <3>2 DEF At
    <3>6. Open(arrays, Collected(b)) = Open(arrays, b)
      BY <3>1, <3>2, <3>4, <3>5 DEF Open
    <3>7. batches' = [batches EXCEPT ![c][Depth(c)] = Collected(b)]
      BY <2>1 DEF CollectType, Innermost
    <3> QED
      BY <3>6, <3>7
  <2>2. CASE BeginResolve(c)
    <3> DEFINE new == [b EXCEPT !.busy = "parameters", !.function = Current(b)]
    <3>1. new.slice = b.slice /\ new.next = b.next /\ new.types = b.types
      BY <1>2, FieldsOf
    <3>2. batches' = [batches EXCEPT ![c][Depth(c)] = new]
      BY <2>2 DEF BeginResolve, Innermost
    <3> HIDE DEF new, b
    <3>3. Open(arrays, new) = Open(arrays, b)
      BY <3>1 DEF Open, Part, At
    <3> QED
      BY <3>2, <3>3
  <2>3. CASE SetParameters(c)
    <3> DEFINE new == [b EXCEPT !.busy = "return"]
    <3>1. new.slice = b.slice /\ new.next = b.next /\ new.types = b.types
      BY <1>2, FieldsOf
    <3>2. batches' = [batches EXCEPT ![c][Depth(c)] = new]
      BY <2>3 DEF SetParameters, Innermost
    <3> HIDE DEF new, b
    <3>3. Open(arrays, new) = Open(arrays, b)
      BY <3>1 DEF Open, Part, At
    <3> QED
      BY <3>2, <3>3
  <2> QED
    BY <2>1, <2>2, <2>3
<1>4. UNCHANGED <<pending, arrays, entry, resolved, dropped>>
  BY DEF CollectType, BeginResolve, SetParameters
<1>5. PICK s : s = {}
  OBVIOUS
<1>6. /\ s \subseteq Open(arrays, b) /\ Open(arrays, new) = Open(arrays, b) \ s
      /\ resolved' \cup dropped' = (resolved \cup dropped) \cup s
  BY <1>3, <1>4, <1>5
<1> QED
  BY <1>1, <1>3, <1>4, <1>6, InnermostBooks

\* The function that is resolved was at one place, the current one.
LEMMA ResolvedBooks ==
  ASSUME IInv, IInv', CInv, careful, Books, NEW c \in Contexts, EndResolve(c)
  PROVE  Books'
<1> DEFINE b == Innermost(c)
           new == Advanced(b)
           hold == Holding(batches, pending)
           h == <<c, Depth(c)>>
<1>1. batches[c] # <<>> /\ b.busy = "return"
  BY DEF EndResolve
<1>2. b \in Batches(arrays)
  BY <1>1, BatchesOf
<1>3. h \in DOMAIN hold /\ hold[h] = b
  <2>1. batches \in Calls(arrays) /\ Depth(c) \in 1 .. Len(batches[c]) /\ b = batches[c][Depth(c)]
    BY <1>1, BatchesOf DEF IInv, Calls, Innermost
  <2> HIDE DEF b
  <2> QED
    BY <2>1, CallHeld
<1>4. /\ new.slice = b.slice /\ new.next = b.next + 1 /\ new.types = b.types
  BY <1>2, FieldsOf DEF Advanced
<1>5. b.next \in Nat /\ b.slice.len \in Nat
  BY <1>2, CallTypes
<1>6. b.types \subseteq Types /\ b.function \in Callables
  BY <1>1, <1>2 DEF Batches
<1>7. batches' = [batches EXCEPT ![c][Depth(c)] = new]
  BY DEF EndResolve, Innermost
<1>8. /\ resolved' = resolved \cup {b.function} /\ dropped' = dropped
      /\ UNCHANGED <<pending, arrays, entry>>
  BY DEF EndResolve
<1> HIDE DEF b, new, hold, h
<1>9. b.next \in Part(b) /\ b.function = At(arrays, b, b.next)
  BY <1>1, <1>3 DEF CInv, Tidy, WorksOnCurrent, hold
<1>10. \A j \in Part(b) : At(arrays, b, j) = b.function => j = b.next
  BY <1>3, <1>9 DEF CInv, Tidy, HeldOnce, hold
<1>11. b.function \notin b.types
  BY <1>6, ConstantsAssumption DEF Callables
<1>12. Part(new) = Part(b) \ {b.next}
  BY <1>4, <1>5, <1>9 DEF Part
<1>13. \A j : At(arrays, new, j) = At(arrays, b, j)
  BY <1>4 DEF At
<1>14. Open(arrays, new) = Open(arrays, b) \ {b.function} /\ {b.function} \subseteq Open(arrays, b)
  BY <1>4, <1>9, <1>10, <1>11, <1>12, <1>13 DEF Open
<1>15. resolved' \cup dropped' = (resolved \cup dropped) \cup {b.function}
  BY <1>8
<1> QED
  BY <1>1, <1>7, <1>8, <1>14, <1>15, InnermostBooks DEF b

\* A call ends with its types resolved, or calls end with a panic.
LEMMA EndingBooks ==
  ASSUME IInv, IInv', Books, NEW c \in Contexts, EndBatch(c) \/ Panic(c)
  PROVE  Books'
<1>1. CASE EndBatch(c)
  <2> DEFINE b == Innermost(c)
             keep == Depth(c) - 1
  <2>1. batches[c] # <<>> /\ AtEnd(b)
    BY <1>1 DEF EndBatch, AtTypes
  <2>2. b \in Batches(arrays) /\ b = batches[c][Depth(c)] /\ Depth(c) \in Nat \ {0}
    BY <2>1, BatchesOf DEF Innermost
  <2>3. Open(arrays, b) = b.types
    <3>1. Part(b) = {}
      BY <2>1, <2>2, CallTypes DEF AtEnd, Part
    <3> QED
      BY <3>1 DEF Open
  <2>4. keep \in 0 .. Depth(c) /\ keep + 1 .. Depth(c) = {Depth(c)}
    BY <2>2
  <2>5. b.types = UNION {Open(arrays, batches[c][i]) : i \in keep + 1 .. Depth(c)}
    BY <2>2, <2>3, <2>4
  <2>6. /\ batches' = [batches EXCEPT ![c] = SubSeq(batches[c], 1, keep)]
        /\ UNCHANGED <<pending, arrays, entry>>
        /\ resolved' \cup dropped' = (resolved \cup dropped) \cup b.types
    BY <1>1 DEF EndBatch, ResolveTypes
  <2> HIDE DEF b, keep
  <2> QED
    BY <2>4, <2>5, <2>6, EndedBooks
<1>2. CASE Panic(c)
  <2>1. PICK keep \in 0 .. Depth(c) :
          /\ batches' = [batches EXCEPT ![c] = SubSeq(batches[c], 1, keep)]
          /\ dropped' = dropped \cup (Unfinished(c, keep) \ resolved)
    BY <1>2 DEF Panic
  <2> DEFINE s == UNION {Open(arrays, batches[c][i]) : i \in keep + 1 .. Depth(c)}
  <2>2. \A i \in keep + 1 .. Depth(c) : Remaining(batches[c][i]) = Open(arrays, batches[c][i])
    <3>1. \A i \in keep + 1 .. Depth(c) : batches[c][i] \in Batches(arrays)
      BY BatchesOf
    <3> QED
      BY <3>1, OpenIs DEF IInv
  <2>3. Unfinished(c, keep) = s
    BY <2>2 DEF Unfinished
  <2>4. UNCHANGED <<pending, arrays, entry, resolved>>
    BY <1>2 DEF Panic
  <2>5. PICK gone : gone = s
    OBVIOUS
  <2>6. resolved' \cup dropped' = (resolved \cup dropped) \cup gone
    <3> HIDE DEF s
    <3> QED
      BY <2>1, <2>3, <2>4, <2>5
  <2> QED
    BY <2>1, <2>4, <2>5, <2>6, EndedBooks
<1> QED
  BY <1>1, <1>2

\* Steps of the host that neither add nor take definitions.
LEMMA HostBooks ==
  ASSUME IInv, Unborn, careful, Books, NEW c \in Contexts,
         EndEval(c) \/ \E d \in Contexts : WithParent(c, d) \/ Fork(c, d)
  PROVE  Books'
<1>1. CASE EndEval(c)
  BY <1>1, SameBooks DEF EndEval
<1>2. ASSUME NEW d \in Contexts, WithParent(c, d) \/ Fork(c, d) PROVE Books'
  <2>1. Derive(c, d)
    BY <1>2 DEF WithParent, Fork
  <2>2. pending[c] = Nil /\ pending[d] = Nil
    BY <2>1 DEF Derive, Unborn
  <2>3. pending' = pending
    <3>1. pending \in [Contexts -> Slices(arrays)] /\ pending' = [pending EXCEPT ![d] = Nil]
      BY <2>1, <2>2 DEF Derive, IInv
    <3> QED
      BY <2>2, <3>1
  <2> QED
    BY <2>1, <2>3, SameBooks DEF Derive
<1> QED
  BY <1>1, <1>2

\* What is pending is taken, or nothing is.
LEMMA TopBooks ==
  ASSUME IInv, IInv', Books, NEW c \in Contexts, TopEvaluate(c)
  PROVE  Books'
<1>1. UNCHANGED <<arrays, entry, resolved, dropped>>
  BY DEF TopEvaluate
<1>2. CASE pending[c].len = 0
  BY <1>1, <1>2, SameBooks DEF TopEvaluate
<1>3. CASE pending[c].len # 0
  <2>1. batches[c] = <<>>
    BY DEF TopEvaluate, IInv, UpToDate
  <2>2. /\ batches \in Calls(arrays) /\ pending \in Pendings(arrays)
        /\ batches' \in Calls(arrays) /\ pending' \in Pendings(arrays)
    BY <1>1 DEF IInv, Calls, Pendings
  <2>3. /\ pending' = [pending EXCEPT ![c] = Nil]
        /\ batches' = [batches EXCEPT ![c] = <<Batch(pending[c])>>]
    BY <1>3 DEF TopEvaluate, Taken
  <2>4. <<Batch(pending[c])>> = Append(batches[c], Batch(pending[c]))
    BY <2>1
  <2>5. /\ batches'[c] = Append(batches[c], Batch(pending[c])) /\ pending'[c] = Nil
        /\ \A d \in Contexts : d # c => batches'[d] = batches[d] /\ pending'[d] = pending[d]
    BY <2>2, <2>3, <2>4 DEF Calls, Pendings
  <2>6. Accounted(arrays, Holding(batches', pending'), entry, resolved \cup dropped)
    BY <2>2, <2>5, TakenBooks DEF Books
  <2> QED
    BY <1>1, <2>6 DEF Books
<1> QED
  BY <1>2, <1>3

\* A definition is appended to what is pending.
LEMMA AppendedBooks ==
  ASSUME IInv, CInv, careful, Books, NEW c \in Contexts, NEW d \in Definitions, entry[d] = None,
         NEW v, v \in Contexts
  PROVE  LET after == Appended(pending[c], d)
             slices == [pending EXCEPT ![c] = after.slice]
         IN  Accounted(after.arrays, Holding(batches, slices), [entry EXCEPT ![d] = v],
                       resolved \cup dropped)
<1> DEFINE after == Appended(pending[c], d)
           hold == Holding(batches, pending)
           b == after.arrays
           t == after.slice
           slices == [pending EXCEPT ![c] = t]
           h == <<c, 0>>
<1>1. /\ batches \in Calls(arrays) /\ pending \in Pendings(arrays) /\ arrays \in Seq(Seq(Filled))
      /\ pending[c] \in Slices(arrays) /\ entry \in [Definitions -> Contexts \cup {None}]
  BY DEF IInv, SimpleTypes, Calls, Pendings
<1>2. h \in DOMAIN hold /\ hold[h] = Batch(pending[c])
  BY <1>1, PendingHeld
<1>3. Written(arrays, pending[c], d, b, t)
  BY <1>1, AppendedWrites
<1>4. Tidy(arrays, hold, entry, parametered) /\ Accounted(arrays, hold, entry, resolved \cup dropped)
  BY DEF CInv, Books
<1>5. Len(arrays) \in Nat /\ v # None
  BY <1>1, ConstantsAssumption
<1>6. Holding(batches, slices) = [hold EXCEPT ![h] = Batch(t)]
  <2>1. batches \in Calls(arrays) /\ pending \in Pendings(arrays)
    BY <1>1
  <2> HIDE DEF t, b, after
  <2>2. Holding(batches, [pending EXCEPT ![c] = t])
          = [Holding(batches, pending) EXCEPT ![<<c, 0>>] = Batch(t)]
    BY <2>1, PendingChanged
  <2> QED
    BY <2>2
<1> HIDE DEF after, hold, b, t, h
<1>7. Accounted(b, [hold EXCEPT ![h] = Batch(t)], [entry EXCEPT ![d] = v], resolved \cup dropped)
  BY <1>1, <1>2, <1>3, <1>4, <1>5, OneMore
<1> QED
  BY <1>6, <1>7 DEF b, t, after

LEMMA AddingBooks ==
  ASSUME IInv, IInv', CInv, careful, Books, NEW c \in Contexts, NEW d \in Definitions,
         Define(c, d) \/ Load(c, d)
  PROVE  Books'
<1> DEFINE after == Appended(pending[c], d)
           slices == [pending EXCEPT ![c] = after.slice]
<1>1. PICK v \in Contexts : entry' = [entry EXCEPT ![d] = v]
  BY ConstantsAssumption DEF Define, Load, IInv, SimpleTypes
<1>2. entry[d] = None /\ arrays' = after.arrays /\ UNCHANGED <<resolved, dropped>>
  BY DEF Define, Load
<1>3. Accounted(after.arrays, Holding(batches, slices), entry', resolved \cup dropped)
  BY <1>1, <1>2, AppendedBooks
<1>4. batches \in Calls(after.arrays) /\ slices \in Pendings(after.arrays)
  BY <1>1, <1>2, Appending
<1>5. CASE Define(c, d)
  <2>1. pending' = slices /\ batches' = batches
    BY <1>5 DEF Define
  <2> QED
    BY <1>2, <1>3, <2>1 DEF Books
<1>6. CASE Load(c, d)
  <2>1. /\ pending' = [pending EXCEPT ![c] = Nil]
        /\ batches' = [batches EXCEPT ![c] = Append(batches[c], Batch(after.slice))]
    BY <1>6 DEF Load, Taken, LoadedBatches
  <2>2. /\ slices[c] = after.slice /\ pending'[c] = Nil
        /\ batches'[c] = Append(batches[c], Batch(slices[c]))
        /\ \A e \in Contexts : e # c => batches'[e] = batches[e] /\ pending'[e] = slices[e]
    BY <2>1 DEF IInv
  <2>3. batches' \in Calls(after.arrays) /\ pending' \in Pendings(after.arrays)
    BY <1>2 DEF IInv, Calls, Pendings
  <2> HIDE DEF after, slices
  <2>4. Accounted(after.arrays, Holding(batches', pending'), entry', resolved \cup dropped)
    BY <1>3, <1>4, <2>2, <2>3, TakenBooks
  <2> QED
    BY <1>2, <2>4 DEF Books
<1> QED
  BY <1>5, <1>6

LEMMA BooksKept ==
  ASSUME IInv, CInv, Accounts, Next
  PROVE  Accounts'
<1>1. PICK c \in Contexts :
    \/ \E d \in Contexts : WithParent(c, d) \/ Fork(c, d)
    \/ \E d \in Functions \cup Types : Define(c, d)
    \/ TopEvaluate(c) \/ EndEval(c)
    \/ CollectType(c) \/ BeginResolve(c) \/ AlreadyResolved(c)
    \/ SetParameters(c) \/ EndResolve(c) \/ EndBatch(c)
    \/ Fail(c)
    \/ \E d \in Functions \cup FromFile : CallUnresolved(c, d)
    \/ \E d \in FromFile : Load(c, d)
  BY DEF Next
<1>2. careful' = careful
  BY <1>1 DEF WithParent, Fork, Derive, Define, TopEvaluate, EndEval, CollectType, BeginResolve,
              AlreadyResolved, SetParameters, EndResolve, EndBatch, Fail, CallUnresolved, Load, Panic
<1>3. Unborn'
  BY UnbornKept DEF Accounts
<1>4. ASSUME careful PROVE Books'
  <2>1. IInv' /\ Unborn /\ Books
    BY <1>4, Kept DEF Accounts
  <2>2. ASSUME NEW d \in Functions \cup Types, Define(c, d) PROVE Books'
    BY <1>4, <2>1, <2>2, AddingBooks DEF Definitions
  <2>3. ASSUME NEW d \in FromFile, Load(c, d) PROVE Books'
    BY <1>4, <2>1, <2>3, AddingBooks DEF Definitions
  <2>4. CASE Fail(c) \/ \E d \in Functions \cup FromFile : CallUnresolved(c, d)
    <3>1. Panic(c)
      BY <2>4 DEF Fail, CallUnresolved
    <3> QED
      BY <2>1, <3>1, EndingBooks
  <2> QED
    BY <1>1, <1>4, <2>1, <2>2, <2>3, <2>4, HostBooks, TopBooks, ResolvingBooks, ResolvedBooks,
       EndingBooks, NeverAlreadyResolved
<1> QED
  BY <1>2, <1>3, <1>4 DEF Accounts

LEMMA BooksInitially == Init => Accounts
<1> SUFFICES ASSUME Init PROVE Accounts
  OBVIOUS
<1>1. batches \in Calls(arrays) /\ pending \in Pendings(arrays)
  BY Initially DEF IInv, Calls, Pendings
<1> DEFINE hold == Holding(batches, pending)
<1>2. \A h \in DOMAIN hold : hold[h] = Batch(Nil)
  <2>1. \A c \in Contexts : pending[c] = Nil /\ batches[c] = <<>>
    BY DEF Init
  <2>2. \A c \in Contexts : 1 .. Len(batches[c]) = {}
    BY <2>1
  <2> QED
    BY <1>1, <2>1, <2>2, HolderIs
<1> HIDE DEF hold
<1>3. \A h \in DOMAIN hold : Open(arrays, hold[h]) = {}
  BY <1>2, OpenNil
<1>4. resolved \cup dropped = {} /\ \A d \in Definitions : entry[d] = None
  BY DEF Init
<1>5. Accounted(arrays, hold, entry, resolved \cup dropped)
  BY <1>3, <1>4 DEF Accounted, Apart, Somewhere
<1>6. Unborn
  BY DEF Unborn, Init
<1> QED
  BY <1>5, <1>6 DEF Accounts, Books, hold

LEMMA AlwaysAccounted == Spec => [](IInv /\ CInv /\ Accounts)
<1>1. (CInv /\ Accounts) /\ UNCHANGED vars => (CInv /\ Accounts)'
  BY DEF CInv, Accounts, Unborn, Books, vars
<1>2. IInv /\ (CInv /\ Accounts) /\ [Next]_vars => (CInv /\ Accounts)'
  BY <1>1, CarefulKept, BooksKept
<1> QED
  BY <1>2, BooksInitially, CarefulInitially, Inductive, PTL DEF Spec

-----------------------------------------------------------------------------
(* What the books say of Holders. *)

LEMMA HoldersAre ==
  ASSUME IInv, NEW d
  PROVE  \A h : h \in Holders(d) <=>
           /\ h \in DOMAIN Holding(batches, pending)
           /\ d \in Open(arrays, Holding(batches, pending)[h])
<1> DEFINE hold == Holding(batches, pending)
<1>1. /\ batches \in Calls(arrays) /\ pending \in Pendings(arrays)
      /\ arrays \in Seq(Seq(Filled)) /\ \A c \in Contexts : Depth(c) = Len(batches[c])
  BY BatchesOf DEF IInv, Calls, Pendings
<1>2. ASSUME NEW c \in Contexts
      PROVE  (\E i \in 1 .. pending[c].len : Elements(pending[c])[i] = d)
               <=> d \in Open(arrays, Batch(pending[c]))
  <2>1. Batch(pending[c]) \in Batches(arrays)
    BY <1>1, BatchIs DEF Pendings
  <2>2. Remaining(Batch(pending[c])) = Open(arrays, Batch(pending[c]))
    BY <1>1, <2>1, OpenIs
  <2>3. /\ Batch(pending[c]).types = {} /\ Batch(pending[c]).slice = pending[c]
        /\ Batch(pending[c]).next = 1
    BY DEF Batch
  <2>4. d \in Remaining(Batch(pending[c]))
          <=> \E i \in 1 .. pending[c].len : Elements(pending[c])[i] = d
    BY <2>3 DEF Remaining
  <2> QED
    BY <2>2, <2>4
<1>3. ASSUME NEW c \in Contexts, NEW i \in 1 .. Depth(c)
      PROVE  Remaining(batches[c][i]) = Open(arrays, batches[c][i])
  BY <1>1, <1>3, BatchesOf, OpenIs
<1>4. \A h : h \in Holders(d) <=>
        \E c \in Contexts :
          \/ h = <<c, 0>> /\ d \in Open(arrays, Batch(pending[c]))
          \/ \E i \in 1 .. Depth(c) : h = <<c, i>> /\ d \in Open(arrays, batches[c][i])
  <2> DEFINE waits(c) == \E i \in 1 .. pending[c].len : Elements(pending[c])[i] = d
             first == {<<c, 0>> : c \in {e \in Contexts : waits(e)}}
             rest(c) == {<<c, i>> : i \in {j \in 1 .. Depth(c) : d \in Remaining(batches[c][j])}}
  <2>1. Holders(d) = first \cup UNION {rest(c) : c \in Contexts}
    BY DEF Holders
  <2>2. \A h : h \in first <=> \E c \in Contexts : h = <<c, 0>> /\ waits(c)
    <3> HIDE DEF waits
    <3> QED
      OBVIOUS
  <2>3. ASSUME NEW c \in Contexts, NEW h
        PROVE  h \in rest(c) <=>
                 \E i \in 1 .. Depth(c) : h = <<c, i>> /\ d \in Remaining(batches[c][i])
    OBVIOUS
  <2>4. \A h : h \in UNION {rest(c) : c \in Contexts} <=> \E c \in Contexts : h \in rest(c)
    <3> HIDE DEF rest
    <3> QED
      OBVIOUS
  <2>5. \A h : h \in Holders(d) <=>
          \E c \in Contexts :
            \/ h = <<c, 0>> /\ waits(c)
            \/ \E i \in 1 .. Depth(c) : h = <<c, i>> /\ d \in Remaining(batches[c][i])
    <3> HIDE DEF waits, first, rest
    <3> QED
      BY <2>1, <2>2, <2>3, <2>4
  <2> QED
    BY <1>2, <1>3, <2>5
<1>5. ASSUME NEW h \in Holders(d) PROVE h \in DOMAIN hold /\ d \in Open(arrays, hold[h])
  <2>1. PICK c \in Contexts :
          \/ h = <<c, 0>> /\ d \in Open(arrays, Batch(pending[c]))
          \/ \E i \in 1 .. Depth(c) : h = <<c, i>> /\ d \in Open(arrays, batches[c][i])
    BY <1>4, <1>5
  <2>2. CASE h = <<c, 0>> /\ d \in Open(arrays, Batch(pending[c]))
    BY <1>1, <2>2, PendingHeld
  <2>3. ASSUME NEW i \in 1 .. Depth(c), h = <<c, i>>, d \in Open(arrays, batches[c][i])
        PROVE  h \in DOMAIN hold /\ d \in Open(arrays, hold[h])
    BY <1>1, <2>3, CallHeld
  <2> QED
    BY <2>1, <2>2, <2>3
<1>6. ASSUME NEW h \in DOMAIN hold, d \in Open(arrays, hold[h]) PROVE h \in Holders(d)
  <2>1. PICK c \in Contexts :
          \/ h = <<c, 0>> /\ hold[h] = Batch(pending[c])
          \/ \E i \in 1 .. Len(batches[c]) : h = <<c, i>> /\ hold[h] = batches[c][i]
    BY <1>1, HolderIs
  <2> HIDE DEF hold
  <2> QED
    BY <1>1, <1>4, <1>6, <2>1
<1> QED
  BY <1>5, <1>6

\* A definition that is entered and not gone has one holder, one that is gone none.
LEMMA OneHolder ==
  ASSUME IInv, Books, NEW d \in Definitions, entry[d] # None
  PROVE  /\ d \in resolved \cup dropped => Holders(d) = {}
         /\ d \notin resolved \cup dropped => \E h : Holders(d) = {h}
<1> DEFINE hold == Holding(batches, pending)
<1>1. \A h : h \in Holders(d) <=> h \in DOMAIN hold /\ d \in Open(arrays, hold[h])
  BY HoldersAre
<1>2. Accounted(arrays, hold, entry, resolved \cup dropped)
  BY DEF Books
<1> HIDE DEF hold
<1>3. Somewhere(arrays, hold, d) <=> d \notin resolved \cup dropped
  BY <1>2 DEF Accounted
<1>4. ASSUME d \in resolved \cup dropped PROVE Holders(d) = {}
  BY <1>1, <1>3, <1>4 DEF Somewhere
<1>5. ASSUME d \notin resolved \cup dropped PROVE \E h : Holders(d) = {h}
  <2>1. PICK h \in DOMAIN hold : d \in Open(arrays, hold[h])
    BY <1>3, <1>5 DEF Somewhere
  <2>2. \A g \in DOMAIN hold : d \in Open(arrays, hold[g]) => g = h
    BY <1>2, <2>1 DEF Accounted, Apart
  <2>3. Holders(d) = {h}
    BY <1>1, <2>1, <2>2
  <2> QED
    BY <2>3
<1> QED
  BY <1>4, <1>5

\* When the host derives contexts with nothing pending, a definition that has
\* been entered waits in one place, until it is resolved or until a panic takes
\* it, whatever is loaded, and whatever other contexts do, meanwhile.
THEOREM NothingLost == Spec => []NoneLost
<1>1. IInv /\ CInv /\ Accounts => NoneLost
  <2> SUFFICES ASSUME IInv, Books, NEW d \in Definitions, entry[d] # None
               PROVE  Cardinality(Holders(d)) = IF d \in resolved \cup dropped THEN 0 ELSE 1
    BY DEF NoneLost, Accounts
  <2>1. CASE d \in resolved \cup dropped
    BY <2>1, OneHolder, FS_EmptySet
  <2>2. CASE d \notin resolved \cup dropped
    BY <2>2, OneHolder, FS_Singleton
  <2> QED
    BY <2>1, <2>2
<1> QED
  BY <1>1, AlwaysAccounted, PTL

\* A function with parameters and without a signature is the current one of its
\* holder, which is at the type of its result, or its Resolve has panicked.
THEOREM NoneHalfResolved == Spec => []HalfResolvedIsHeld
<1>1. IInv /\ CInv /\ Accounts => HalfResolvedIsHeld
  <2> SUFFICES ASSUME IInv, CInv, Books, careful, NEW d \in parametered, d \notin resolved,
                      d \notin dropped
               PROVE  \E c \in Contexts : \E i \in 1 .. Depth(c) :
                        /\ batches[c][i].busy = "return" /\ batches[c][i].function = d
                        /\ Holders(d) = {<<c, i>>}
    BY DEF HalfResolvedIsHeld, Accounts
  <2> DEFINE hold == Holding(batches, pending)
  <2>1. d \in Callables /\ d \in Definitions /\ d \notin Types /\ entry[d] # None
    BY ConstantsAssumption DEF IInv, SimpleTypes, Callables, Definitions, CInv
  <2>2. PICK h : Holders(d) = {h}
    BY <2>1, OneHolder
  <2>3. h \in DOMAIN hold /\ d \in Open(arrays, hold[h])
    BY <2>2, HoldersAre
  <2>10. batches \in Calls(arrays)
    BY DEF IInv, Calls
  <2>4. PICK c \in Contexts :
          \/ h = <<c, 0>> /\ hold[h] = Batch(pending[c])
          \/ \E i \in 1 .. Len(batches[c]) : h = <<c, i>> /\ hold[h] = batches[c][i]
    BY <2>10, <2>3, HolderIs
  <2>5. Tidy(arrays, hold, entry, parametered)
    BY DEF CInv
  <2> HIDE DEF hold
  <2>6. PICK j \in Part(hold[h]) : d = At(arrays, hold[h], j)
    BY <2>1, <2>3, <2>5 DEF Open, Tidy, Batches
  <2>7. j = hold[h].next /\ hold[h].busy = "return"
    BY <2>3, <2>5, <2>6 DEF Tidy, Unresolved
  <2>8. hold[h].function = d
    BY <2>3, <2>5, <2>6, <2>7 DEF Tidy, WorksOnCurrent
  <2>9. Depth(c) = Len(batches[c])
    BY DEF Depth
  <2> QED
    BY <2>2, <2>4, <2>7, <2>8, <2>9 DEF Batch
<1> QED
  BY <1>1, AlwaysAccounted, PTL

\* What an evaluation finds unresolved waits in another context, or a panic has
\* taken it: nothing is pending in the context itself, and no call is active.
THEOREM ProgramsFindResolved == Spec => []EvalFindsResolved
<1>1. IInv /\ CInv /\ Accounts => EvalFindsResolved
  <2> SUFFICES ASSUME IInv, Books, NEW c \in Contexts, mode[c] = "eval", batches[c] = <<>>,
                      NEW d \in Definitions, entry[d] # None, d \notin resolved \cup dropped
               PROVE  \E h \in Holders(d) : h[1] # c
    BY DEF EvalFindsResolved, Accounts
  <2> DEFINE hold == Holding(batches, pending)
  <2>1. PICK h : h \in Holders(d)
    BY OneHolder
  <2>2. h \in DOMAIN hold /\ d \in Open(arrays, hold[h])
    BY <2>1, HoldersAre
  <2>10. batches \in Calls(arrays)
    BY DEF IInv, Calls
  <2>3. PICK e \in Contexts :
          \/ h = <<e, 0>> /\ hold[h] = Batch(pending[e])
          \/ \E i \in 1 .. Len(batches[e]) : h = <<e, i>> /\ hold[h] = batches[e][i]
    BY <2>10, <2>2, HolderIs
  <2> HIDE DEF hold
  <2>4. pending[c] = Nil /\ 1 .. Len(batches[c]) = {}
    BY DEF IInv, UpToDate
  <2>5. e # c
    BY <2>2, <2>3, <2>4, OpenNil
  <2> QED
    BY <2>1, <2>3, <2>5
<1> QED
  BY <1>1, AlwaysAccounted, PTL
=============================================================================
