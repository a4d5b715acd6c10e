---------------------------- MODULE ScopeProofs ----------------------------
(***************************************************************************)
(* Theorems about Scope, for every number of scopes, names and values and  *)
(* every depth of local scopes.                                            *)
(***************************************************************************)
EXTENDS ScopeRefinement, RecursionProofs, SequenceTheorems, FiniteSetTheorems

\* The ancestry of a scope contains it and the parents of its members.
LEMMA AncestryClosed ==
  ASSUME TypeOK, NEW s \in ScopeIds
  PROVE  /\ Ancestry(s) \subseteq ScopeIds
         /\ s \in Ancestry(s)
         /\ \A t \in Ancestry(s) : parent[t] # None => parent[t] \in Ancestry(s)
<1>1. Ancestry(s) \subseteq ScopeIds /\ s \in Ancestry(s)
  BY DEF Ancestry
<1>2. ASSUME NEW t \in Ancestry(s), parent[t] # None
      PROVE  parent[t] \in Ancestry(s)
  <2>1. parent[t] \in ScopeIds
    BY <1>1, <1>2 DEF TypeOK
  <2>2. ASSUME NEW A \in SUBSET ScopeIds, s \in A,
               \A u \in A : parent[u] # None => parent[u] \in A
        PROVE  parent[t] \in A
    <3>1. t \in A
      BY <2>2 DEF Ancestry
    <3> QED
      BY <1>2, <2>2, <3>1
  <2> QED
    BY <2>1, <2>2 DEF Ancestry
<1> QED
  BY <1>1, <1>2

\* The initial state satisfies the inductive invariant.
LEMMA InitIInv == Init => IInv
<1> SUFFICES ASSUME Init PROVE IInv
  OBVIOUS
<1>1. \A s \in ScopeIds : frames[s] = <<>> /\ eps[s] = <<>> /\ parent[s] = None
  BY DEF Init
<1>2. TypeOK
  <2>1. EmptyMap \in [Keys -> Cells]
    BY DEF EmptyMap, Cells
  <2> QED
    BY <2>1 DEF Init, TypeOK
<1>3. \A s \in ScopeIds : Depth(s) = 0 /\ ~Allocated(s) /\ Len(eps[s]) = 0
  BY <1>1 DEF Depth, Allocated
<1>4. PopsItsOwnFrame
  BY <1>3 DEF PopsItsOwnFrame
<1> QED
  BY <1>1, <1>2, <1>3, <1>4, MaxDepthAssumption DEF IInv

\* Writing one cell of a map of a scope keeps the heap well typed.
LEMMA WriteTyped ==
  ASSUME TypeOK, NEW m \in MapIds, NEW k \in Keys, NEW c \in Cells
  PROVE  [maps EXCEPT ![m][k] = c] \in [MapIds -> [Keys -> Cells]]
BY DEF TypeOK

\* The inductive invariant speaks of the maps only in their type, so a step
\* that writes to the heap alone preserves it.
LEMMA HeapStepIInv ==
  ASSUME IInv, maps' \in [MapIds -> [Keys -> Cells]],
         UNCHANGED <<frames, mutable, parent, eps>>
  PROVE  IInv'
BY DEF IInv, TypeOK, PopsItsOwnFrame, Depth, Allocated

\* The frames of a scope that exists are maps of the heap.
LEMMA FramesAreMaps ==
  ASSUME IInv, NEW s \in ScopeIds
  PROVE  /\ Depth(s) \in Nat
         /\ \A i \in 1 .. Depth(s) : frames[s][i] = <<s, i>> /\ frames[s][i] \in MapIds
         /\ Allocated(s) <=> Depth(s) > 0
         /\ Allocated(s) => 1 \in 1 .. Depth(s) /\ Depth(s) \in 1 .. Depth(s)
BY MaxDepthAssumption DEF IInv, TypeOK, Depth, MapIds, Allocated

-----------------------------------------------------------------------------
(* Each action preserves the inductive invariant. *)

\* Set writes one variable of a frame of the scope.
LEMMA SetIInv ==
  ASSUME IInv, NEW s \in ScopeIds, NEW r \in Refs, NEW v \in Values, Set(s, r, v)
  PROVE  IInv'
<1>1. frames[s][SetIdx(s, r)] \in MapIds
  <2>1. Allocated(s)
    BY DEF Set, Modifiable
  <2>2. SetIdx(s, r) \in 1 .. Depth(s)
    BY <2>1, FramesAreMaps DEF SetIdx
  <2> QED
    BY <2>2, FramesAreMaps
<1>2. r.name \in Keys /\ v \in Cells
  BY DEF Refs, Keys, Cells
<1>3. maps' \in [MapIds -> [Keys -> Cells]]
  BY <1>1, <1>2, WriteTyped DEF Set, IInv, TypeOK
<1> QED
  BY <1>3, HeapStepIInv DEF Set

\* RxSet writes the captures of the top frame.
LEMMA RxSetIInv ==
  ASSUME IInv, NEW s \in ScopeIds, NEW groups \in Matches, RxSet(s, groups)
  PROVE  IInv'
<1>1. frames[s][Depth(s)] \in MapIds
  <2>1. Allocated(s)
    BY DEF RxSet, Modifiable
  <2> QED
    BY <2>1, FramesAreMaps
<1>2. GroupKey \in Keys /\ groups \in Cells
  BY DEF Keys, Cells
<1>3. maps' \in [MapIds -> [Keys -> Cells]]
  BY <1>1, <1>2, WriteTyped DEF RxSet, IInv
<1> QED
  BY <1>3, HeapStepIInv DEF RxSet

\* The three constructors, which share Create.
LEMMA CreateIInv ==
  ASSUME IInv, NEW s \in ScopeIds, NEW contents \in [Keys -> Cells],
         NEW isMutable \in BOOLEAN, NEW p \in ScopeIds \cup {None},
         p # None => Allocated(p),
         Create(s, contents, isMutable, p)
  PROVE  IInv'
<1>1. <<s, 1>> \in MapIds
  BY MaxDepthAssumption DEF MapIds
<1>2. TypeOK'
  <2>1. maps' \in [MapIds -> [Keys -> Cells]]
    BY <1>1 DEF Create, IInv, TypeOK
  <2>2. frames' \in [ScopeIds -> Seq(MapIds)]
    BY <1>1 DEF Create, IInv, TypeOK
  <2> QED
    BY <2>1, <2>2 DEF Create, IInv, TypeOK
<1>3. /\ frames'[s] = <<<<s, 1>>>> /\ Depth(s)' = 1 /\ Allocated(s)'
      /\ \A t \in ScopeIds \ {s} : frames'[t] = frames[t] /\ parent'[t] = parent[t]
  BY DEF Create, IInv, TypeOK, Depth, Allocated
<1>4. eps[s] = <<>> /\ Len(eps[s]) = 0
  BY DEF Create, IInv, TypeOK, PopsItsOwnFrame, Allocated, Depth
<1>5. PopsItsOwnFrame'
  <2> SUFFICES ASSUME NEW t \in ScopeIds
               PROVE  (/\ Len(eps[t]) <= Depth(t)
                       /\ Allocated(t) => Len(eps[t]) < Depth(t)
                       /\ \A i \in 1 .. Len(eps[t]) :
                            eps[t][i] = Depth(t) - Len(eps[t]) + i - 1)'
    BY DEF PopsItsOwnFrame
  <2>1. CASE t = s
    BY <1>3, <1>4, <2>1 DEF Create
  <2>2. CASE t # s
    <3>1. frames'[t] = frames[t] /\ eps'[t] = eps[t]
      BY <1>3, <2>2 DEF Create, IInv, TypeOK
    <3> QED
      BY <3>1 DEF IInv, PopsItsOwnFrame, Depth, Allocated
  <2> QED
    BY <2>1, <2>2
<1>6. ASSUME NEW t \in ScopeIds
      PROVE  (/\ Depth(t) <= MaxDepth
              /\ \A i \in 1 .. Depth(t) : frames[t][i] = <<t, i>>
              /\ parent[t] # None => Allocated(t) /\ Allocated(parent[t]))'
  <2>1. CASE t = s
    <3>1. parent'[s] = p
      BY DEF Create, IInv, TypeOK
    <3>2. p # None => Allocated(p)'
      BY <1>3 DEF Allocated
    <3> QED
      BY <1>3, <2>1, <3>1, <3>2, MaxDepthAssumption
  <2>2. CASE t # s
    <3>1. parent'[t] # None => Allocated(parent[t])'
      <4> SUFFICES ASSUME parent'[t] # None PROVE frames'[parent'[t]] # <<>>
        BY DEF Allocated
      <4>1. parent'[t] = parent[t] /\ parent[t] \in ScopeIds
        BY <1>3, <2>2 DEF IInv, TypeOK
      <4>2. frames[parent[t]] # <<>>
        BY <4>1 DEF IInv, Allocated
      <4>3. parent[t] # s
        BY <4>2 DEF Create, Allocated
      <4> QED
        BY <1>3, <4>1, <4>2, <4>3
    <3> QED
      BY <1>3, <2>2, <3>1 DEF IInv, Depth, Allocated
  <2> QED
    BY <2>1, <2>2
<1> QED
  BY <1>2, <1>5, <1>6 DEF IInv

\* WithLocalScope: pushing the frame.
LEMMA EnterLocalIInv ==
  ASSUME IInv, NEW s \in ScopeIds, EnterLocal(s)
  PROVE  IInv'
<1>1. Depth(s) \in Nat /\ Depth(s) > 0 /\ <<s, Depth(s) + 1>> \in MapIds
  BY FramesAreMaps, MaxDepthAssumption DEF EnterLocal, Modifiable, MapIds
<1>2. TypeOK'
  <2>1. EmptyMap \in [Keys -> Cells]
    BY DEF EmptyMap, Cells
  <2> QED
    BY <1>1, <2>1 DEF EnterLocal, IInv, TypeOK
<1>3. /\ frames'[s] = Append(frames[s], <<s, Depth(s) + 1>>)
      /\ eps'[s] = Append(eps[s], Depth(s))
      /\ \A t \in ScopeIds \ {s} : frames'[t] = frames[t] /\ eps'[t] = eps[t]
      /\ parent' = parent
  BY DEF EnterLocal, IInv, TypeOK
<1>4. /\ Depth(s)' = Depth(s) + 1 /\ Len(eps[s])' = Len(eps[s]) + 1
      /\ Len(eps[s]) \in Nat
      /\ \A i \in 1 .. Depth(s) : frames'[s][i] = frames[s][i]
      /\ frames'[s][Depth(s) + 1] = <<s, Depth(s) + 1>>
      /\ \A i \in 1 .. Len(eps[s]) : eps'[s][i] = eps[s][i]
      /\ eps'[s][Len(eps[s]) + 1] = Depth(s)
  BY <1>1, <1>3 DEF Depth, IInv, TypeOK
<1>5. \A t \in ScopeIds : Allocated(t)' <=> Allocated(t)
  BY <1>2, <1>3, <1>4, <1>1 DEF Allocated, Depth
<1>6. PopsItsOwnFrame'
  <2> SUFFICES ASSUME NEW t \in ScopeIds
               PROVE  (/\ Len(eps[t]) <= Depth(t)
                       /\ Allocated(t) => Len(eps[t]) < Depth(t)
                       /\ \A i \in 1 .. Len(eps[t]) :
                            eps[t][i] = Depth(t) - Len(eps[t]) + i - 1)'
    BY DEF PopsItsOwnFrame
  <2>1. CASE t = s
    <3>1. Len(eps[s]) < Depth(s)
      BY DEF EnterLocal, Modifiable, IInv, PopsItsOwnFrame
    <3>2. \A i \in 1 .. Len(eps[s]) : eps[s][i] = Depth(s) - Len(eps[s]) + i - 1
      BY DEF IInv, PopsItsOwnFrame
    <3>3. ASSUME NEW i \in 1 .. Len(eps[s])'
          PROVE  eps'[s][i] = Depth(s)' - Len(eps[s])' + i - 1
      <4>1. CASE i \in 1 .. Len(eps[s])
        BY <1>1, <1>4, <3>2, <4>1
      <4>2. CASE i = Len(eps[s]) + 1
        <5>1. eps'[s][i] = Depth(s)
          BY <1>4, <4>2
        <5>2. Depth(s) = Depth(s)' - Len(eps[s])' + i - 1
          BY <1>1, <1>4, <4>2
        <5> QED
          BY <5>1, <5>2
      <4> QED
        BY <1>4, <3>3, <4>1, <4>2
    <3> QED
      BY <1>1, <1>4, <2>1, <3>1, <3>3
  <2>2. CASE t # s
    BY <1>3, <1>5, <2>2 DEF IInv, PopsItsOwnFrame, Depth
  <2> QED
    BY <2>1, <2>2
<1>7. ASSUME NEW t \in ScopeIds
      PROVE  (/\ Depth(t) <= MaxDepth
              /\ \A i \in 1 .. Depth(t) : frames[t][i] = <<t, i>>
              /\ parent[t] # None => Allocated(t) /\ Allocated(parent[t]))'
  <2>1. parent'[t] # None => Allocated(t)' /\ Allocated(parent[t])'
    BY <1>3, <1>5 DEF IInv, TypeOK, Allocated
  <2>2. CASE t = s
    <3>1. \A i \in 1 .. Depth(s)' : frames'[s][i] = <<s, i>>
      BY <1>1, <1>4 DEF IInv
    <3> QED
      BY <1>1, <1>4, <2>1, <2>2, <3>1, MaxDepthAssumption DEF EnterLocal
  <2>3. CASE t # s
    BY <1>3, <2>1, <2>3 DEF IInv, Depth
  <2> QED
    BY <2>2, <2>3
<1> QED
  BY <1>2, <1>6, <1>7 DEF IInv

\* The first elements of a sequence are the sequence's own.
LEMMA Prefix ==
  ASSUME NEW S, NEW q \in Seq(S), NEW k \in Nat, k <= Len(q)
  PROVE  /\ SubSeq(q, 1, k) \in Seq(S)
         /\ Len(SubSeq(q, 1, k)) = k
         /\ \A i \in 1 .. k : SubSeq(q, 1, k)[i] = q[i]
OBVIOUS

\* WithLocalScope: the deferred truncation, which pops exactly one frame.
LEMMA LeaveLocalIInv ==
  ASSUME IInv, NEW s \in ScopeIds, LeaveLocal(s)
  PROVE  IInv'
<1> DEFINE D == Depth(s)
           L == Len(eps[s])
<1>1. /\ D \in Nat /\ L \in Nat /\ L > 0 /\ L < D
      /\ eps[s][L] = D - 1
      /\ \A i \in 1 .. L : eps[s][i] = D - L + i - 1
  <2>1. D \in Nat
    BY FramesAreMaps
  <2>2. L \in Nat /\ L > 0
    BY DEF LeaveLocal, IInv, TypeOK
  <2>3. L < D /\ \A i \in 1 .. L : eps[s][i] = D - L + i - 1
    BY DEF LeaveLocal, Modifiable, IInv, PopsItsOwnFrame
  <2>4. eps[s][L] = D - L + L - 1
    BY <2>2, <2>3
  <2> HIDE DEF D, L
  <2>5. D - L + L - 1 = D - 1
    BY <2>1, <2>2
  <2> QED
    BY <2>1, <2>2, <2>3, <2>4, <2>5
<1>2. /\ frames'[s] = SubSeq(frames[s], 1, D - 1)
      /\ eps'[s] = SubSeq(eps[s], 1, L - 1)
      /\ \A t \in ScopeIds \ {s} : frames'[t] = frames[t] /\ eps'[t] = eps[t]
      /\ parent' = parent
  BY <1>1 DEF LeaveLocal, IInv, TypeOK
<1>3. /\ frames'[s] \in Seq(MapIds) /\ eps'[s] \in Seq(Nat)
      /\ Depth(s)' = D - 1 /\ Len(eps[s])' = L - 1
      /\ \A i \in 1 .. D - 1 : frames'[s][i] = frames[s][i]
      /\ \A i \in 1 .. L - 1 : eps'[s][i] = eps[s][i]
  <2>1. frames[s] \in Seq(MapIds) /\ Len(frames[s]) = D
    BY DEF IInv, TypeOK, Depth
  <2>2. eps[s] \in Seq(Nat)
    BY DEF IInv, TypeOK
  <2>3. D - 1 \in Nat /\ D - 1 <= Len(frames[s]) /\ L - 1 \in Nat /\ L - 1 <= Len(eps[s])
    BY <1>1, <2>1
  <2>4. /\ frames'[s] \in Seq(MapIds) /\ Len(frames'[s]) = D - 1
        /\ \A i \in 1 .. D - 1 : frames'[s][i] = frames[s][i]
    BY <1>2, <2>1, <2>3, Prefix
  <2>5. /\ eps'[s] \in Seq(Nat) /\ Len(eps'[s]) = L - 1
        /\ \A i \in 1 .. L - 1 : eps'[s][i] = eps[s][i]
    <3>1. ASSUME NEW k \in Nat, k <= Len(eps[s])
          PROVE  /\ SubSeq(eps[s], 1, k) \in Seq(Nat)
                 /\ Len(SubSeq(eps[s], 1, k)) = k
                 /\ \A i \in 1 .. k : SubSeq(eps[s], 1, k)[i] = eps[s][i]
      BY <2>2, <3>1, Prefix
    <3> HIDE DEF L
    <3> QED
      BY <1>2, <2>3, <3>1
  <2> QED
    BY <2>4, <2>5 DEF Depth
<1>4. \A t \in ScopeIds : Allocated(t)' <=> Allocated(t)
  <2>1. Allocated(s)' /\ Allocated(s)
    BY <1>1, <1>3, FramesAreMaps DEF Allocated, Depth
  <2> QED
    BY <1>2, <2>1 DEF Allocated
<1>5. TypeOK'
  <2>1. maps' \in [MapIds -> [Keys -> Cells]]
    <3>1. EmptyMap \in [Keys -> Cells]
      BY DEF EmptyMap, Cells
    <3> QED
      BY <3>1 DEF LeaveLocal, IInv, TypeOK
  <2>2. frames' \in [ScopeIds -> Seq(MapIds)] /\ eps' \in [ScopeIds -> Seq(Nat)]
    BY <1>1, <1>2, <1>3 DEF LeaveLocal, IInv, TypeOK
  <2> QED
    BY <2>1, <2>2 DEF LeaveLocal, IInv, TypeOK
<1>6. PopsItsOwnFrame'
  <2> SUFFICES ASSUME NEW t \in ScopeIds
               PROVE  (/\ Len(eps[t]) <= Depth(t)
                       /\ Allocated(t) => Len(eps[t]) < Depth(t)
                       /\ \A i \in 1 .. Len(eps[t]) :
                            eps[t][i] = Depth(t) - Len(eps[t]) + i - 1)'
    BY DEF PopsItsOwnFrame
  <2>1. CASE t = s
    <3>1. ASSUME NEW i \in 1 .. L - 1
          PROVE  eps'[s][i] = (D - 1) - (L - 1) + i - 1
      <4>1. eps'[s][i] = D - L + i - 1
        BY <1>1, <1>3
      <4> QED
        BY <1>1, <4>1
    <3>2. Len(eps[s])' = L - 1 /\ Depth(s)' = D - 1 /\ L - 1 < D - 1
      BY <1>1, <1>3
    <3>3. \A i \in 1 .. Len(eps[s])' : eps'[s][i] = Depth(s)' - Len(eps[s])' + i - 1
      BY <3>1, <3>2
    <3> HIDE DEF D, L
    <3> QED
      BY <1>1, <2>1, <3>2, <3>3
  <2>2. CASE t # s
    BY <1>2, <1>4, <2>2 DEF IInv, PopsItsOwnFrame, Depth
  <2> QED
    BY <2>1, <2>2
<1>7. ASSUME NEW t \in ScopeIds
      PROVE  (/\ Depth(t) <= MaxDepth
              /\ \A i \in 1 .. Depth(t) : frames[t][i] = <<t, i>>
              /\ parent[t] # None => Allocated(t) /\ Allocated(parent[t]))'
  <2>1. parent'[t] # None => Allocated(t)' /\ Allocated(parent[t])'
    BY <1>2, <1>4 DEF IInv, TypeOK, Allocated
  <2>2. CASE t = s
    <3>1. D <= MaxDepth /\ \A i \in 1 .. D : frames[s][i] = <<s, i>>
      BY DEF IInv
    <3> QED
      BY <1>1, <1>3, <2>1, <2>2, <3>1, MaxDepthAssumption
  <2>3. CASE t # s
    BY <1>2, <2>1, <2>3 DEF IInv, Depth
  <2> QED
    BY <2>2, <2>3
<1> QED
  BY <1>5, <1>6, <1>7 DEF IInv

\* Whatever is in the ancestry of a scope has been created.
LEMMA AncestryAllocated ==
  ASSUME IInv, NEW s \in ScopeIds, Allocated(s)
  PROVE  \A t \in Ancestry(s) : Allocated(t)
<1> DEFINE A == {t \in ScopeIds : Allocated(t)}
<1>1. A \in SUBSET ScopeIds /\ s \in A
  OBVIOUS
<1>2. \A u \in A : parent[u] # None => parent[u] \in A
  BY DEF IInv, TypeOK
<1> HIDE DEF A
<1>3. \A t \in Ancestry(s) : t \in A
  BY <1>1, <1>2 DEF Ancestry
<1> QED
  BY <1>3 DEF A

\* Fork: the clones are built in scopes that did not exist, out of new maps.
LEMMA ForkIInv ==
  ASSUME IInv, NEW s \in ScopeIds, Allocated(s),
         NEW copy \in [Ancestry(s) -> Free], ForkAs(s, copy)
  PROVE  IInv'
<1> DEFINE Clones == {copy[t] : t \in Ancestry(s)}
           Original(c) == CHOOSE t \in Ancestry(s) : copy[t] = c
<1>1. ASSUME NEW c \in Clones
      PROVE  /\ Original(c) \in Ancestry(s) /\ Original(c) \in ScopeIds
             /\ copy[Original(c)] = c
             /\ c \in ScopeIds /\ ~Allocated(c)
  BY AncestryClosed DEF IInv, Free
<1>2. ASSUME NEW c \in ScopeIds, c \in Clones
      PROVE  /\ frames'[c] = [i \in 1 .. Depth(Original(c)) |-> <<c, i>>]
             /\ mutable'[c] = mutable[Original(c)]
             /\ parent'[c] = IF parent[Original(c)] = None THEN None
                             ELSE copy[parent[Original(c)]]
  BY <1>2 DEF ForkAs, CopiedFrames
<1>3. ASSUME NEW c \in ScopeIds, c \notin Clones
      PROVE  frames'[c] = frames[c] /\ mutable'[c] = mutable[c] /\ parent'[c] = parent[c]
  BY <1>3 DEF ForkAs
<1>4. eps' = eps
  BY DEF ForkAs
<1>5. ASSUME NEW c \in Clones
      PROVE  /\ Depth(Original(c)) \in Nat
             /\ Depth(Original(c)) <= MaxDepth
             /\ frames'[c] \in Seq(MapIds)
             /\ Depth(c)' = Depth(Original(c))
             /\ \A i \in 1 .. Depth(c)' : frames'[c][i] = <<c, i>>
  <2>1. Depth(Original(c)) \in Nat /\ Depth(Original(c)) <= MaxDepth
    BY <1>1, <1>5, FramesAreMaps DEF IInv
  <2>2. \A i \in 1 .. Depth(Original(c)) : <<c, i>> \in MapIds
    BY <1>1, <1>5, <2>1, MaxDepthAssumption DEF MapIds
  <2>3. frames'[c] = [i \in 1 .. Depth(Original(c)) |-> <<c, i>>]
    BY <1>1, <1>2, <1>5
  <2> HIDE DEF Clones, Original
  <2>4. /\ frames'[c] \in Seq(MapIds)
        /\ Len(frames'[c]) = Depth(Original(c))
        /\ \A i \in 1 .. Depth(Original(c)) : frames'[c][i] = <<c, i>>
    BY <2>1, <2>2, <2>3
  <2> QED
    BY <2>1, <2>4 DEF Depth
<1>6. \A c \in ScopeIds : c \notin Clones => Depth(c)' = Depth(c)
  BY <1>3 DEF Depth
<1>7. TypeOK'
  <2>1. maps' \in [MapIds -> [Keys -> Cells]]
    <3>1. maps' = [m \in MapIds |->
                     IF m[1] \in Clones /\ m[2] <= Depth(Original(m[1]))
                     THEN Frame(Original(m[1]), m[2])
                     ELSE maps[m]]
      BY DEF ForkAs
    <3>2. ASSUME NEW m \in MapIds,
                 m[1] \in Clones, m[2] <= Depth(Original(m[1]))
          PROVE  Frame(Original(m[1]), m[2]) \in [Keys -> Cells]
      <4>1. m[2] \in 1 .. Depth(Original(m[1]))
        BY <3>2, <1>5, MaxDepthAssumption DEF MapIds
      <4> HIDE DEF Clones, Original
      <4>2. frames[Original(m[1])][m[2]] \in MapIds
        BY <1>1, <3>2, <4>1, FramesAreMaps
      <4> QED
        BY <4>2 DEF Frame, IInv, TypeOK
    <3> HIDE DEF Clones, Original
    <3> QED
      BY <3>1, <3>2 DEF IInv, TypeOK
  <2>2. frames' \in [ScopeIds -> Seq(MapIds)]
    <3>1. DOMAIN frames' = ScopeIds /\ frames' = [c \in ScopeIds |-> frames'[c]]
      BY DEF ForkAs
    <3>2. \A c \in ScopeIds : frames'[c] \in Seq(MapIds)
      BY <1>3, <1>5 DEF IInv, TypeOK
    <3> QED
      BY <3>1, <3>2
  <2>3. mutable' \in [ScopeIds -> BOOLEAN]
    <3>1. mutable' = [c \in ScopeIds |-> mutable'[c]]
      BY DEF ForkAs
    <3>2. ASSUME NEW c \in ScopeIds PROVE mutable'[c] \in BOOLEAN
      <4>1. CASE c \in Clones
        <5>1. mutable'[c] = mutable[Original(c)] /\ Original(c) \in ScopeIds
          BY <1>1, <1>2, <4>1
        <5> QED
          BY <5>1 DEF IInv, TypeOK
      <4>2. CASE c \notin Clones
        BY <1>3, <4>2 DEF IInv, TypeOK
      <4> QED
        BY <4>1, <4>2
    <3> QED
      BY <3>1, <3>2
  <2>4. parent' \in [ScopeIds -> ScopeIds \cup {None}]
    <3>1. parent' = [c \in ScopeIds |-> parent'[c]]
      BY DEF ForkAs
    <3>2. ASSUME NEW c \in ScopeIds PROVE parent'[c] \in ScopeIds \cup {None}
      <4>1. CASE c \in Clones
        <5>1. parent[Original(c)] # None => copy[parent[Original(c)]] \in ScopeIds
          BY <1>1, <4>1, AncestryClosed DEF IInv, Free
        <5> QED
          BY <1>2, <4>1, <5>1
      <4>2. CASE c \notin Clones
        BY <1>3, <4>2 DEF IInv, TypeOK
      <4> QED
        BY <4>1, <4>2
    <3> QED
      BY <3>1, <3>2
  <2> QED
    BY <1>4, <2>1, <2>2, <2>3, <2>4 DEF IInv, TypeOK
<1>8. ASSUME NEW c \in Clones PROVE Allocated(c)'
  <2>1. Depth(Original(c)) > 0
    BY <1>1, AncestryAllocated, FramesAreMaps
  <2>2. Depth(c)' > 0 /\ frames'[c] \in Seq(MapIds)
    BY <1>5, <2>1
  <2>3. Len(frames'[c]) > 0
    BY <2>2 DEF Depth
  <2> QED
    BY <2>2, <2>3 DEF Allocated
<1>9. \A c \in ScopeIds : c \notin Clones => (Allocated(c)' <=> Allocated(c))
  BY <1>3 DEF Allocated
<1>10. PopsItsOwnFrame'
  <2> SUFFICES ASSUME NEW c \in ScopeIds
               PROVE  (/\ Len(eps[c]) <= Depth(c)
                       /\ Allocated(c) => Len(eps[c]) < Depth(c)
                       /\ \A i \in 1 .. Len(eps[c]) :
                            eps[c][i] = Depth(c) - Len(eps[c]) + i - 1)'
    BY DEF PopsItsOwnFrame
  <2>1. CASE c \in Clones
    <3>1. Depth(c) = 0
      BY <1>1, <2>1, FramesAreMaps
    <3>2. Len(eps[c]) = 0
      BY <3>1 DEF IInv, PopsItsOwnFrame, TypeOK
    <3>3. Depth(c)' \in Nat /\ Depth(c)' > 0
      <4>1. Depth(Original(c)) > 0
        BY <1>1, <2>1, AncestryAllocated, FramesAreMaps
      <4> QED
        BY <1>5, <2>1, <4>1
    <3> QED
      BY <1>4, <3>2, <3>3
  <2>2. CASE c \notin Clones
    BY <1>3, <1>4, <1>6, <1>9, <2>2 DEF IInv, PopsItsOwnFrame
  <2> QED
    BY <2>1, <2>2
<1>11. ASSUME NEW c \in ScopeIds
       PROVE  (/\ Depth(c) <= MaxDepth
               /\ \A i \in 1 .. Depth(c) : frames[c][i] = <<c, i>>
               /\ parent[c] # None => Allocated(c) /\ Allocated(parent[c]))'
  <2>1. CASE c \in Clones
    <3>1. parent[Original(c)] # None => copy[parent[Original(c)]] \in Clones
      BY <1>1, <2>1, AncestryClosed DEF IInv
    <3>2. parent'[c] # None => parent'[c] \in Clones
      BY <1>1, <1>2, <2>1, <3>1
    <3>3. parent'[c] # None => Allocated(parent[c])'
      BY <1>8, <3>2 DEF Allocated
    <3> HIDE DEF Clones, Original
    <3> QED
      BY <1>5, <1>8, <2>1, <3>3
  <2>2. CASE c \notin Clones
    <3>1. /\ Depth(c)' = Depth(c) /\ frames'[c] = frames[c] /\ parent'[c] = parent[c]
          /\ Allocated(c)' <=> Allocated(c)
      BY <1>3, <1>6, <1>9, <2>2
    <3>2. parent[c] # None => parent[c] \in ScopeIds /\ Allocated(parent[c])
      BY DEF IInv, TypeOK
    <3>3. parent[c] # None => frames'[parent[c]] = frames[parent[c]]
      BY <1>1, <1>3, <3>2
    <3>4. parent'[c] # None => Allocated(parent[c])'
      BY <3>1, <3>2, <3>3 DEF Allocated
    <3> QED
      BY <3>1, <3>4 DEF IInv
  <2> QED
    BY <2>1, <2>2
<1> QED
  BY <1>7, <1>10, <1>11 DEF IInv

\* No action, and no stuttering step, leaves the inductive invariant.
LEMMA StepIInv == IInv /\ [Next]_vars => IInv'
<1> SUFFICES ASSUME IInv, [Next]_vars PROVE IInv'
  OBVIOUS
<1>1. CASE UNCHANGED vars
  <2>1. maps' \in [MapIds -> [Keys -> Cells]]
    BY <1>1 DEF vars, IInv, TypeOK
  <2> QED
    BY <1>1, <2>1, HeapStepIInv DEF vars
<1>2. CASE Next
  <2>1. PICK s \in ScopeIds :
          \/ \E isMutable \in MutableFlags :
               \/ NewScope(s, isMutable)
               \/ \E h \in [Names -> Values \cup {Absent}] : NewScope2(s, h, isMutable)
               \/ \E p \in ScopeIds : NewParentedScope(s, p, isMutable)
          \/ Fork(s)
          \/ EnterLocal(s)
          \/ LeaveLocal(s)
          \/ \E r \in Refs, v \in Values : Set(s, r, v)
          \/ \E groups \in Matches : RxSet(s, groups)
    BY <1>2 DEF Next
  <2>2. EmptyMap \in [Keys -> Cells] /\ MutableFlags \subseteq BOOLEAN
    BY MutableFlagsAssumption DEF EmptyMap, Cells
  <2>3. ASSUME NEW isMutable \in MutableFlags, NewScope(s, isMutable)
        PROVE  IInv'
    BY <2>2, <2>3, CreateIInv DEF NewScope
  <2>4. ASSUME NEW isMutable \in MutableFlags,
               NEW h \in [Names -> Values \cup {Absent}],
               NewScope2(s, h, isMutable)
        PROVE  IInv'
    <3>1. [k \in Keys |-> IF k = GroupKey THEN Absent ELSE h[k]] \in [Keys -> Cells]
      BY DEF Keys, Cells
    <3> QED
      BY <2>2, <2>4, <3>1, CreateIInv DEF NewScope2
  <2>5. ASSUME NEW isMutable \in MutableFlags, NEW p \in ScopeIds,
               NewParentedScope(s, p, isMutable)
        PROVE  IInv'
    BY <2>2, <2>5, CreateIInv DEF NewParentedScope
  <2>6. CASE Fork(s)
    BY <2>6, ForkIInv DEF Fork
  <2>7. CASE EnterLocal(s)
    BY <2>7, EnterLocalIInv
  <2>8. CASE LeaveLocal(s)
    BY <2>8, LeaveLocalIInv
  <2>9. ASSUME NEW r \in Refs, NEW v \in Values, Set(s, r, v)
        PROVE  IInv'
    BY <2>9, SetIInv
  <2>10. ASSUME NEW groups \in Matches, RxSet(s, groups)
         PROVE  IInv'
    BY <2>10, RxSetIInv
  <2> QED
    BY <2>1, <2>3, <2>4, <2>5, <2>6, <2>7, <2>8, <2>9, <2>10
<1> QED
  BY <1>1, <1>2

\* The inductive invariant holds in every reachable state.
THEOREM Inductive == Spec => []IInv
<1> QED
  BY InitIInv, StepIInv, PTL DEF Spec

\* Every variable of Scope keeps its type.
THEOREM TypeCorrect == Spec => []TypeOK
<1>1. IInv => TypeOK
  BY DEF IInv
<1> QED
  BY <1>1, Inductive, PTL

\* Frames of different scopes, and different frames of one, are different maps,
\* in particular after Fork.
THEOREM FramesNotShared == Spec => []NoSharedMaps
<1>1. IInv => NoSharedMaps
  BY DEF IInv, NoSharedMaps
<1> QED
  BY <1>1, Inductive, PTL

\* Calls of WithLocalScope are balanced: each pops the one frame it pushed.
THEOREM LocalScopesBalanced == Spec => []PopsItsOwnFrame
<1>1. IInv => PopsItsOwnFrame
  BY DEF IInv
<1> QED
  BY <1>1, Inductive, PTL

-----------------------------------------------------------------------------
(* What a step may do to the contents of a frame that exists. *)

\* What a step did if it changed the cell k of frame i of s.
Assigned(s, i, k) ==
  \E r \in Refs, v \in Values :
    Set(s, r, v) /\ MaySet(s, r) /\ i = SetIdx(s, r) /\ k = r.name
Captured(s, i, k) == i = Depth(s) /\ k = GroupKey

\* A frame that outlives the step is still the same map.
LEMMA FrameKept ==
  ASSUME IInv, IInv', NEW s \in ScopeIds, NEW i \in 1 .. Depth(s), i <= Depth(s)'
  PROVE  Frame(s, i) = maps[<<s, i>>] /\ Frame(s, i)' = maps'[<<s, i>>]
<1>1. frames[s][i] = <<s, i>>
  BY DEF IInv
<1>2. i \in 1 .. Depth(s)'
  <2>1. Depth(s) \in Nat
    BY FramesAreMaps
  <2>2. Depth(s)' \in Nat
    BY DEF IInv, TypeOK, Depth
  <2> QED
    BY <2>1, <2>2
<1>3. frames'[s][i] = <<s, i>>
  BY <1>2 DEF IInv
<1> QED
  BY <1>1, <1>3 DEF Frame

\* Only assigning a variable and matching change a frame that outlives the
\* step, and they change one cell.
LEMMA OneCell ==
  ASSUME IInv, Next, NEW s \in ScopeIds, NEW i \in 1 .. Depth(s),
         i <= Depth(s)', NEW k \in Keys
  PROVE  \/ maps'[<<s, i>>][k] = maps[<<s, i>>][k]
         \/ Assigned(s, i, k)
         \/ Captured(s, i, k)
<1>1. Depth(s) \in Nat /\ frames[s][i] = <<s, i>> /\ <<s, i>> \in MapIds /\ Allocated(s)
  BY FramesAreMaps
<1>2. maps \in [MapIds -> [Keys -> Cells]]
  BY DEF IInv, TypeOK
<1>3. PICK u \in ScopeIds :
        \/ \E isMutable \in MutableFlags :
             \/ NewScope(u, isMutable)
             \/ \E h \in [Names -> Values \cup {Absent}] : NewScope2(u, h, isMutable)
             \/ \E p \in ScopeIds : NewParentedScope(u, p, isMutable)
        \/ Fork(u)
        \/ EnterLocal(u)
        \/ LeaveLocal(u)
        \/ \E r \in Refs, v \in Values : Set(u, r, v)
        \/ \E groups \in Matches : RxSet(u, groups)
  BY DEF Next
<1>4. ASSUME NEW contents, NEW isMutable, NEW p, Create(u, contents, isMutable, p)
      PROVE  maps'[<<s, i>>] = maps[<<s, i>>]
  <2>1. u # s
    BY <1>1, <1>4 DEF Create
  <2> QED
    BY <1>1, <1>2, <1>4, <2>1 DEF Create
<1>5. CASE Fork(u)
  <2>1. PICK copy \in [Ancestry(u) -> Free] : ForkAs(u, copy)
    BY <1>5 DEF Fork
  <2>2. s \notin {copy[t] : t \in Ancestry(u)}
    BY <1>1 DEF Free
  <2>3. maps'[<<s, i>>] = maps[<<s, i>>]
    BY <1>1, <2>1, <2>2 DEF ForkAs
  <2> QED
    BY <2>3
<1>6. CASE EnterLocal(u)
  <2>1. <<u, Depth(u) + 1>> # <<s, i>>
    BY <1>1
  <2> QED
    BY <1>1, <1>2, <1>6, <2>1 DEF EnterLocal
<1>7. CASE LeaveLocal(u)
  <2>1. CASE u # s
    BY <1>1, <1>7, <2>1 DEF LeaveLocal
  <2>2. CASE u = s
    <3> DEFINE e == eps[s][Len(eps[s])]
    <3>1. e \in Nat /\ e <= Depth(s)
      <4>1. Len(eps[s]) \in Nat /\ Len(eps[s]) > 0 /\ eps[s] \in Seq(Nat)
        BY <1>7, <2>2 DEF LeaveLocal, IInv, TypeOK
      <4>2. Len(eps[s]) \in 1 .. Len(eps[s])
        BY <4>1
      <4>3. \A j \in 1 .. Len(eps[s]) : eps[s][j] = Depth(s) - Len(eps[s]) + j - 1
        BY DEF IInv, PopsItsOwnFrame
      <4>4. e = Depth(s) - Len(eps[s]) + Len(eps[s]) - 1
        BY <4>2, <4>3, Zenon
      <4>5. e \in Nat
        BY <4>1, <4>2
      <4>6. PICK d, n : d = Depth(s) /\ n = Len(eps[s])
        OBVIOUS
      <4>7. d \in Nat /\ n \in Nat /\ n > 0
        BY <4>1, <4>6 DEF IInv, TypeOK, Depth
      <4>8. e = d - n + n - 1
        BY <4>4, <4>6, Zenon
      <4> HIDE DEF e
      <4>9. e <= d
        BY <4>5, <4>7, <4>8
      <4> QED
        BY <4>5, <4>6, <4>9, Zenon
    <3>2. frames'[s] = SubSeq(frames[s], 1, e)
      BY <1>7, <2>2 DEF LeaveLocal, IInv, TypeOK
    <3>3. Depth(s)' = e
      <4>1. frames[s] \in Seq(MapIds) /\ Len(frames[s]) = Depth(s)
        BY DEF IInv, TypeOK, Depth
      <4> HIDE DEF e
      <4> QED
        BY <3>1, <3>2, <4>1, Prefix DEF Depth
    <3>4. ~(i > e)
      <4> HIDE DEF e
      <4> QED
        BY <1>1, <3>1, <3>3
    <3>5. maps'[<<s, i>>] = maps[<<s, i>>]
      BY <1>1, <1>7, <2>2, <3>4 DEF LeaveLocal
    <3> QED
      BY <3>5
  <2> QED
    BY <2>1, <2>2
<1>8. ASSUME NEW r \in Refs, NEW v \in Values, Set(u, r, v)
      PROVE  maps'[<<s, i>>][k] = maps[<<s, i>>][k] \/ Assigned(s, i, k)
  <2>1. SetIdx(u, r) \in 1 .. Depth(u) /\ frames[u][SetIdx(u, r)] = <<u, SetIdx(u, r)>>
    <3>1. Allocated(u)
      BY <1>8 DEF Set, Modifiable
    <3>2. SetIdx(u, r) \in 1 .. Depth(u)
      BY <3>1, FramesAreMaps DEF SetIdx
    <3> QED
      BY <3>2, FramesAreMaps
  <2>2. CASE u = s /\ i = SetIdx(s, r) /\ k = r.name /\ MaySet(s, r)
    BY <1>8, <2>2 DEF Assigned
  <2>3. CASE ~MaySet(u, r)
    BY <1>8, <2>3 DEF Set
  <2>4. CASE MaySet(u, r) /\ (<<u, SetIdx(u, r)>> # <<s, i>> \/ k # r.name)
    <3>1. maps' = [maps EXCEPT ![<<u, SetIdx(u, r)>>][r.name] = v]
      BY <1>8, <2>1, <2>4 DEF Set
    <3> QED
      BY <1>1, <1>2, <2>4, <3>1
  <2> QED
    BY <2>2, <2>3, <2>4
<1>9. ASSUME NEW groups \in Matches, RxSet(u, groups)
      PROVE  maps'[<<s, i>>][k] = maps[<<s, i>>][k] \/ Captured(s, i, k)
  <2>1. frames[u][Depth(u)] = <<u, Depth(u)>>
    <3>1. Allocated(u)
      BY <1>9 DEF RxSet, Modifiable
    <3> QED
      BY <3>1, FramesAreMaps
  <2>2. maps' = [maps EXCEPT ![<<u, Depth(u)>>][GroupKey] = groups]
    BY <1>9, <2>1 DEF RxSet
  <2> QED
    BY <1>1, <1>2, <2>2 DEF Captured
<1> QED
  BY <1>3, <1>4, <1>5, <1>6, <1>7, <1>8, <1>9
     DEF NewScope, NewScope2, NewParentedScope

\* No step pops more than one frame of a scope.
LEMMA PopsAtMostOne ==
  ASSUME IInv, Next, NEW s \in ScopeIds
  PROVE  Depth(s) - 1 <= Depth(s)'
<1>1. Depth(s) \in Nat /\ frames[s] \in Seq(MapIds)
  BY DEF IInv, TypeOK, Depth
<1>2. CASE frames'[s] = frames[s]
  BY <1>1, <1>2 DEF Depth
<1>3. CASE ~Allocated(s)
  <2>1. Depth(s) = 0
    BY <1>1, <1>3, FramesAreMaps
  <2>2. Depth(s)' \in Nat
    BY StepIInv DEF IInv, TypeOK, Depth
  <2> QED
    BY <2>1, <2>2
<1>4. CASE EnterLocal(s)
  <2>1. frames'[s] = Append(frames[s], <<s, Depth(s) + 1>>)
    BY <1>4 DEF EnterLocal, IInv, TypeOK
  <2> QED
    BY <1>1, <2>1 DEF Depth
<1>5. CASE LeaveLocal(s)
  <2> DEFINE e == eps[s][Len(eps[s])]
  <2>1. e = Depth(s) - 1 /\ e \in Nat
    <3>1. Len(eps[s]) \in Nat /\ Len(eps[s]) > 0 /\ eps[s] \in Seq(Nat)
      BY <1>5 DEF LeaveLocal, IInv, TypeOK
    <3>2. e = Depth(s) - Len(eps[s]) + Len(eps[s]) - 1
      BY <3>1 DEF IInv, PopsItsOwnFrame
    <3>3. e \in Nat
      BY <3>1
    <3> HIDE DEF e
    <3> QED
      BY <1>1, <3>1, <3>2, <3>3
  <2>2. frames'[s] = SubSeq(frames[s], 1, e)
    BY <1>5 DEF LeaveLocal, IInv, TypeOK
  <2> HIDE DEF e
  <2> QED
    BY <1>1, <2>1, <2>2, Prefix DEF Depth
<1>6. ASSUME Allocated(s), frames'[s] # frames[s]
      PROVE  EnterLocal(s) \/ LeaveLocal(s)
  <2>1. PICK u \in ScopeIds :
          \/ \E isMutable \in MutableFlags :
               \/ NewScope(u, isMutable)
               \/ \E h \in [Names -> Values \cup {Absent}] : NewScope2(u, h, isMutable)
               \/ \E p \in ScopeIds : NewParentedScope(u, p, isMutable)
          \/ Fork(u)
          \/ EnterLocal(u)
          \/ LeaveLocal(u)
          \/ \E r \in Refs, v \in Values : Set(u, r, v)
          \/ \E groups \in Matches : RxSet(u, groups)
    BY DEF Next
  <2>2. ASSUME NEW contents, NEW isMutable, NEW p, Create(u, contents, isMutable, p)
        PROVE  FALSE
    BY <1>6, <2>2 DEF Create, IInv, TypeOK, Allocated
  <2>3. ~Fork(u)
    <3> SUFFICES ASSUME NEW copy \in [Ancestry(u) -> Free], ForkAs(u, copy)
                 PROVE  FALSE
      BY DEF Fork
    <3>1. s \notin {copy[t] : t \in Ancestry(u)}
      BY <1>6 DEF Free
    <3> QED
      BY <1>6, <3>1 DEF ForkAs
  <2>4. CASE EnterLocal(u)
    BY <1>6, <2>4 DEF EnterLocal, IInv, TypeOK
  <2>5. CASE LeaveLocal(u)
    BY <1>6, <2>5 DEF LeaveLocal, IInv, TypeOK
  <2> QED
    BY <1>6, <2>1, <2>2, <2>3, <2>4, <2>5
       DEF NewScope, NewScope2, NewParentedScope, Set, RxSet
<1> QED
  BY <1>2, <1>3, <1>4, <1>5, <1>6

\* What a local scope covers is frozen until that scope is left, but for the
\* assignment of globals by their `::` names.
CoveredKept ==
  \A s \in ScopeIds : \A i \in 1 .. Depth(s) : \A k \in Keys :
    i < Depth(s) /\ (i > 1 \/ k = GroupKey) => Frame(s, i)'[k] = Frame(s, i)[k]

LEMMA CoveredStep == IInv /\ IInv' /\ [Next]_vars => [CoveredKept]_vars
<1> SUFFICES ASSUME IInv, IInv', Next,
                    NEW s \in ScopeIds, NEW i \in 1 .. Depth(s), NEW k \in Keys,
                    i < Depth(s), i > 1 \/ k = GroupKey
             PROVE  Frame(s, i)'[k] = Frame(s, i)[k]
  BY DEF CoveredKept
<1>1. Depth(s) \in Nat /\ Depth(s)' \in Nat
  BY DEF IInv, TypeOK, Depth
<1>2. i <= Depth(s)'
  BY <1>1, PopsAtMostOne
<1>3. ~Captured(s, i, k)
  BY <1>1 DEF Captured
<1>4. ~Assigned(s, i, k)
  <2> SUFFICES ASSUME NEW r \in Refs, i = SetIdx(s, r), k = r.name PROVE FALSE
    BY DEF Assigned
  <2>1. k \in Names /\ k # GroupKey
    BY GroupKeyAssumption DEF Refs
  <2> QED
    BY <1>1, <2>1 DEF SetIdx
<1>5. maps'[<<s, i>>][k] = maps[<<s, i>>][k]
  BY <1>2, <1>3, <1>4, OneCell
<1> QED
  BY <1>2, <1>5, FrameKept

\* No step changes a frame that a local scope covers, save through `::` names.
THEOREM CoveredFramesStay == Spec => CoveredFramesFrozen
<1>1. [][CoveredKept]_vars => CoveredFramesFrozen
  BY DEF CoveredKept, CoveredFramesFrozen
<1> QED
  BY <1>1, CoveredStep, Inductive, PTL DEF Spec

\* The globals of every scope, and all variables of a scope that is not
\* mutable, are bound once, whatever the parents bind.
BoundKept ==
  \A s \in ScopeIds : \A i \in 1 .. Depth(s) : \A n \in Names :
    /\ i = 1 \/ ~mutable[s]
    /\ Frame(s, i)[n] # Absent
    /\ i <= Depth(s)'
    /\ ~(i = 1 /\ n = Pnr /\ parent[s] # None)
    => Frame(s, i)'[n] = Frame(s, i)[n]

LEMMA BoundStep == IInv /\ IInv' /\ [Next]_vars => [BoundKept]_vars
<1> SUFFICES ASSUME IInv, IInv', Next,
                    NEW s \in ScopeIds, NEW i \in 1 .. Depth(s), NEW n \in Names,
                    i = 1 \/ ~mutable[s],
                    Frame(s, i)[n] # Absent,
                    i <= Depth(s)',
                    ~(i = 1 /\ n = Pnr /\ parent[s] # None)
             PROVE  Frame(s, i)'[n] = Frame(s, i)[n]
  BY DEF BoundKept
<1>1. n \in Keys /\ n # GroupKey
  BY GroupKeyAssumption DEF Keys
<1>2. ~Captured(s, i, n)
  BY <1>1 DEF Captured
<1>3. ~Assigned(s, i, n)
  <2> SUFFICES ASSUME NEW r \in Refs, MaySet(s, r), i = SetIdx(s, r), n = r.name
               PROVE  FALSE
    BY DEF Assigned
  <2>1. CASE OverridesGlobal(s, r)
    BY <2>1 DEF MaySet, OverridesGlobal
  <2>2. CASE ~OverridesGlobal(s, r)
    BY <2>2 DEF MaySet
  <2> QED
    BY <2>1, <2>2
<1>4. maps'[<<s, i>>][n] = maps[<<s, i>>][n]
  BY <1>1, <1>2, <1>3, OneCell
<1> QED
  BY <1>4, FrameKept

\* No step replaces the value of such a variable, but for $pnr in a child.
THEOREM VariablesBoundOnce == Spec => BoundOnce
<1>1. [][BoundKept]_vars => BoundOnce
  BY DEF BoundKept, BoundOnce
<1> QED
  BY <1>1, BoundStep, Inductive, PTL DEF Spec

\* A step leaves the frames of t and their contents as they are.
Undisturbed(t) ==
  /\ frames'[t] = frames[t]
  /\ \A i \in 1 .. Depth(t) : Frame(t, i)' = Frame(t, i)
Lasting(t) == parent'[t] = parent[t] /\ mutable'[t] = mutable[t] /\ frames'[t] # <<>>
\* Of the scopes that exist only u is disturbed, if it is one, and it is no parent.
Disturbs(u) ==
  /\ u \in ScopeIds => ~IsParent(u)
  /\ \A t \in ScopeIds : Allocated(t) => Lasting(t) /\ (t # u => Undisturbed(t))

\* Scopes that do not exist are no parents.
LEMMA FreeIsNoParent ==
  ASSUME IInv, NEW u \in ScopeIds, ~Allocated(u)
  PROVE  ~IsParent(u)
BY NoneAssumption DEF IInv, IsParent

LEMMA SameMaps ==
  ASSUME IInv, NEW t \in ScopeIds, frames'[t] = frames[t],
         \A i \in 1 .. Depth(t) : maps'[<<t, i>>] = maps[<<t, i>>]
  PROVE  Undisturbed(t)
BY FramesAreMaps DEF Undisturbed, Frame

LEMMA CreateDisturbs ==
  ASSUME IInv, NEW u \in ScopeIds, NEW contents, NEW isMutable, NEW p,
         Create(u, contents, isMutable, p)
  PROVE  Disturbs(u)
<1>1. ~IsParent(u)
  BY FreeIsNoParent DEF Create
<1>2. ASSUME NEW t \in ScopeIds, Allocated(t) PROVE Lasting(t) /\ Undisturbed(t)
  <2>1. t # u
    BY <1>2 DEF Create
  <2>2. frames'[t] = frames[t] /\ parent'[t] = parent[t] /\ mutable'[t] = mutable[t]
    BY <2>1 DEF Create, IInv, TypeOK
  <2>3. \A i \in 1 .. Depth(t) : maps'[<<t, i>>] = maps[<<t, i>>]
    BY <2>1, FramesAreMaps DEF Create, IInv, TypeOK
  <2> QED
    BY <1>2, <2>2, <2>3, SameMaps DEF Lasting, Allocated
<1> QED
  BY <1>1, <1>2 DEF Disturbs

LEMMA ForkDisturbs ==
  ASSUME IInv, NEW s \in ScopeIds, NEW copy \in [Ancestry(s) -> Free], ForkAs(s, copy)
  PROVE  Disturbs(copy[s])
<1> DEFINE Clones == {copy[t] : t \in Ancestry(s)}
<1>0. copy[s] \in Free
  BY AncestryClosed DEF IInv
<1>1. ~IsParent(copy[s])
  BY <1>0, FreeIsNoParent DEF Free
<1>2. ASSUME NEW t \in ScopeIds, Allocated(t) PROVE Lasting(t) /\ Undisturbed(t)
  <2>1. t \notin Clones
    BY <1>2 DEF Free
  <2>2. frames'[t] = frames[t] /\ parent'[t] = parent[t] /\ mutable'[t] = mutable[t]
    BY <2>1 DEF ForkAs
  <2>3. \A i \in 1 .. Depth(t) : maps'[<<t, i>>] = maps[<<t, i>>]
    BY <2>1, FramesAreMaps DEF ForkAs
  <2> QED
    BY <1>2, <2>2, <2>3, SameMaps DEF Lasting, Allocated
<1> QED
  BY <1>1, <1>2 DEF Disturbs

LEMMA HeapDisturbs ==
  ASSUME IInv, NEW u \in ScopeIds, ~IsParent(u), UNCHANGED <<frames, mutable, parent>>,
         \A t \in ScopeIds \ {u} : \A i \in 1 .. Depth(t) : maps'[<<t, i>>] = maps[<<t, i>>]
  PROVE  Disturbs(u)
<1> SUFFICES ASSUME NEW t \in ScopeIds, Allocated(t)
             PROVE  Lasting(t) /\ (t # u => Undisturbed(t))
  BY DEF Disturbs
<1> QED
  BY SameMaps DEF Lasting, Allocated

LEMMA SetDisturbs ==
  ASSUME IInv, NEW u \in ScopeIds, NEW r \in Refs, NEW v \in Values, Set(u, r, v)
  PROVE  Disturbs(u)
<1>1. Allocated(u) /\ ~IsParent(u) /\ UNCHANGED <<frames, mutable, parent>>
  BY DEF Set, Modifiable
<1>2. frames[u][SetIdx(u, r)] = <<u, SetIdx(u, r)>>
  BY <1>1, FramesAreMaps DEF SetIdx
<1>3. ASSUME NEW t \in ScopeIds \ {u}, NEW i \in 1 .. Depth(t)
      PROVE  maps'[<<t, i>>] = maps[<<t, i>>]
  <2>1. <<t, i>> \in MapIds
    BY FramesAreMaps
  <2> QED
    BY <1>2, <2>1 DEF Set, IInv, TypeOK
<1> QED
  BY <1>1, <1>3, HeapDisturbs

LEMMA RxSetDisturbs ==
  ASSUME IInv, NEW u \in ScopeIds, NEW groups \in Matches, RxSet(u, groups)
  PROVE  Disturbs(u)
<1>1. Allocated(u) /\ ~IsParent(u) /\ UNCHANGED <<frames, mutable, parent>>
  BY DEF RxSet, Modifiable
<1>2. frames[u][Depth(u)] = <<u, Depth(u)>>
  BY <1>1, FramesAreMaps
<1>3. ASSUME NEW t \in ScopeIds \ {u}, NEW i \in 1 .. Depth(t)
      PROVE  maps'[<<t, i>>] = maps[<<t, i>>]
  <2>1. <<t, i>> \in MapIds
    BY FramesAreMaps
  <2> QED
    BY <1>2, <2>1 DEF RxSet, IInv, TypeOK
<1> QED
  BY <1>1, <1>3, HeapDisturbs

LEMMA LocalDisturbs ==
  ASSUME IInv, IInv', NEW u \in ScopeIds, EnterLocal(u) \/ LeaveLocal(u)
  PROVE  Disturbs(u)
<1>1. Allocated(u) /\ ~IsParent(u) /\ UNCHANGED <<mutable, parent>>
  BY DEF EnterLocal, LeaveLocal, Modifiable
<1>2. ASSUME NEW t \in ScopeIds, t # u
      PROVE  Undisturbed(t) /\ frames'[t] = frames[t]
  <2>1. frames'[t] = frames[t]
    BY <1>2 DEF EnterLocal, LeaveLocal, IInv, TypeOK
  <2>2. ASSUME NEW i \in 1 .. Depth(t) PROVE maps'[<<t, i>>] = maps[<<t, i>>]
    <3>1. <<t, i>> \in MapIds /\ <<t, i>>[1] # u /\ <<u, Depth(u) + 1>> # <<t, i>>
      BY <1>2, FramesAreMaps
    <3>2. CASE EnterLocal(u)
      BY <3>1, <3>2 DEF EnterLocal, IInv, TypeOK
    <3>3. CASE LeaveLocal(u)
      BY <3>1, <3>3 DEF LeaveLocal
    <3> QED
      BY <3>2, <3>3
  <2> QED
    BY <2>1, <2>2, SameMaps
<1>3. frames'[u] # <<>>
  <2>1. CASE EnterLocal(u)
    <3>1. frames'[u] = Append(frames[u], <<u, Depth(u) + 1>>) /\ frames[u] \in Seq(MapIds)
      BY <2>1 DEF EnterLocal, IInv, TypeOK
    <3> QED
      BY <3>1
  <2>2. CASE LeaveLocal(u)
    <3>1. eps[u] # <<>> /\ eps[u] \in Seq(Nat) /\ Depth(u) \in Nat
      BY <2>2, FramesAreMaps DEF LeaveLocal, IInv, TypeOK
    <3>2. Len(eps[u]) < Depth(u) /\ Len(eps[u]) > 0
      BY <1>1, <3>1 DEF IInv, PopsItsOwnFrame
    <3>3. Depth(u) - 1 <= Depth(u)'
      <4>1. Next
        BY <2>2 DEF Next
      <4> QED
        BY <4>1, PopsAtMostOne
    <3>4. Depth(u)' \in Nat /\ Depth(u)' > 0
      BY <3>1, <3>2, <3>3 DEF IInv, TypeOK, Depth
    <3> QED
      BY <3>4 DEF Depth
  <2> QED
    BY <2>1, <2>2
<1> QED
  BY <1>1, <1>2, <1>3 DEF Disturbs, Lasting, Allocated

\* Each step disturbs one scope at most, and no parent.
LEMMA StepDisturbs ==
  ASSUME IInv, IInv', Next
  PROVE  \E u \in ScopeIds : Disturbs(u)
<1>1. PICK s \in ScopeIds :
        \/ \E isMutable \in MutableFlags :
             \/ NewScope(s, isMutable)
             \/ \E h \in [Names -> Values \cup {Absent}] : NewScope2(s, h, isMutable)
             \/ \E p \in ScopeIds : NewParentedScope(s, p, isMutable)
        \/ Fork(s)
        \/ EnterLocal(s)
        \/ LeaveLocal(s)
        \/ \E r \in Refs, v \in Values : Set(s, r, v)
        \/ \E groups \in Matches : RxSet(s, groups)
  BY DEF Next
<1>2. CASE \E isMutable \in MutableFlags :
             \/ NewScope(s, isMutable)
             \/ \E h \in [Names -> Values \cup {Absent}] : NewScope2(s, h, isMutable)
             \/ \E p \in ScopeIds : NewParentedScope(s, p, isMutable)
  BY <1>2, CreateDisturbs DEF NewScope, NewScope2, NewParentedScope
<1>3. CASE Fork(s)
  <2>1. PICK copy \in [Ancestry(s) -> Free] : ForkAs(s, copy)
    BY <1>3 DEF Fork
  <2>2. copy[s] \in ScopeIds
    BY AncestryClosed DEF IInv, Free
  <2> QED
    BY <2>1, <2>2, ForkDisturbs
<1>4. CASE EnterLocal(s) \/ LeaveLocal(s)
  BY <1>4, LocalDisturbs
<1>5. CASE \E r \in Refs, v \in Values : Set(s, r, v)
  BY <1>5, SetDisturbs
<1>6. CASE \E groups \in Matches : RxSet(s, groups)
  BY <1>6, RxSetDisturbs
<1> QED
  BY <1>1, <1>2, <1>3, <1>4, <1>5, <1>6

-----------------------------------------------------------------------------
(* Lookups end, and what they find. *)

\* No scope is an ancestor of itself.
ParentsEnd == Grounded(ScopeIds, parent)

LEMMA InitParentsEnd == Init => ParentsEnd
BY NoneAssumption DEF Init, ParentsEnd, Grounded

\* Fork makes a clone of each scope of the ancestry, with the same frames, below
\* the clone of its parent, and leaves the other scopes as they are.
CloneOf(t, c) ==
  /\ Depth(c)' = Depth(t) /\ mutable'[c] = mutable[t]
  /\ \A i \in 1 .. Depth(t) : Frame(c, i)' = Frame(t, i)

LEMMA ForkEffect ==
  ASSUME IInv, IInv', NEW s \in ScopeIds, Allocated(s),
         NEW copy \in [Ancestry(s) -> Free], IsInjective(copy), ForkAs(s, copy)
  PROVE  /\ \A t \in Ancestry(s) :
              /\ copy[t] \in ScopeIds /\ CloneOf(t, copy[t])
              /\ parent'[copy[t]] = IF parent[t] = None THEN None ELSE copy[parent[t]]
         /\ \A c \in ScopeIds : (\A t \in Ancestry(s) : copy[t] # c) =>
              parent'[c] = parent[c] /\ frames'[c] = frames[c]
<1> DEFINE Clones == {copy[t] : t \in Ancestry(s)}
           Original(c) == CHOOSE t \in Ancestry(s) : copy[t] = c
<1>1. ASSUME NEW t \in Ancestry(s)
      PROVE  /\ t \in ScopeIds /\ copy[t] \in ScopeIds /\ copy[t] \in Clones
             /\ Original(copy[t]) = t
  BY AncestryClosed DEF IInv, Free, IsInjective
<1>2. ASSUME NEW t \in Ancestry(s)
      PROVE  CloneOf(t, copy[t])
  <2>1. frames'[copy[t]] = [i \in 1 .. Depth(t) |-> <<copy[t], i>>]
    BY <1>1 DEF ForkAs, CopiedFrames
  <2>2. Depth(t) \in Nat /\ Depth(copy[t])' \in Nat
    <3>1. Depth(t) \in Nat
      BY <1>1, FramesAreMaps
    <3>2. frames' \in [ScopeIds -> Seq(MapIds)] /\ copy[t] \in ScopeIds
      BY <1>1 DEF IInv, TypeOK
    <3> QED
      BY <3>1, <3>2 DEF Depth
  <2>3. Depth(copy[t])' = Depth(t)
    BY <2>1, <2>2 DEF Depth
  <2>4. ASSUME NEW i \in 1 .. Depth(t) PROVE Frame(copy[t], i)' = Frame(t, i)
    <3>1. frames'[copy[t]][i] = <<copy[t], i>>
      BY <2>1
    <3>2. <<copy[t], i>> \in MapIds
      BY <1>1, FramesAreMaps DEF MapIds
    <3>3. maps' = [m \in MapIds |->
                     IF m[1] \in Clones /\ m[2] <= Depth(Original(m[1]))
                     THEN Frame(Original(m[1]), m[2])
                     ELSE maps[m]]
      BY DEF ForkAs
    <3>4. Original(copy[t]) = t /\ copy[t] \in Clones /\ i <= Depth(t)
      BY <1>1, <2>2
    <3> HIDE DEF Clones, Original
    <3>5. maps'[<<copy[t], i>>] = Frame(t, i)
      BY <3>2, <3>3, <3>4
    <3> QED
      BY <3>1, <3>5 DEF Frame
  <2>5. mutable'[copy[t]] = mutable[t]
    BY <1>1 DEF ForkAs
  <2> QED
    BY <2>3, <2>4, <2>5 DEF CloneOf
<1>3. ASSUME NEW t \in Ancestry(s)
      PROVE  parent'[copy[t]] = IF parent[t] = None THEN None ELSE copy[parent[t]]
  <2>1. parent' = [c \in ScopeIds |->
                      IF c \notin Clones THEN parent[c]
                      ELSE IF parent[Original(c)] = None THEN None
                      ELSE copy[parent[Original(c)]]]
    BY DEF ForkAs
  <2> HIDE DEF Clones, Original
  <2> QED
    BY <1>1, <2>1
<1>4. ASSUME NEW c \in ScopeIds, \A t \in Ancestry(s) : copy[t] # c
      PROVE  parent'[c] = parent[c] /\ frames'[c] = frames[c]
  BY <1>4 DEF ForkAs
<1> QED
  BY <1>1, <1>2, <1>3, <1>4

LEMMA CreateParentsEnd ==
  ASSUME IInv, ParentsEnd, NEW s \in ScopeIds, NEW contents, NEW isMutable,
         NEW p \in ScopeIds \cup {None}, p # None => Allocated(p), Create(s, contents, isMutable, p)
  PROVE  ParentsEnd'
<1> SUFFICES ASSUME NEW T \in SUBSET ScopeIds, T # {} PROVE \E t \in T : parent'[t] \notin T
  BY DEF ParentsEnd, Grounded
<1>1. ~Allocated(s) /\ parent' = [parent EXCEPT ![s] = p] /\ DOMAIN parent = ScopeIds
  BY DEF Create, IInv, TypeOK
<1>2. CASE T = {s}
  <2>1. parent'[s] = p /\ p # s
    BY <1>1, NoneAssumption
  <2> QED
    BY <1>2, <2>1
<1>3. CASE T # {s}
  <2>1. PICK t \in T \ {s} : parent[t] \notin T \ {s}
    BY <1>3 DEF ParentsEnd, Grounded
  <2>2. parent[t] # s
    BY <1>1, FreeIsNoParent DEF IsParent
  <2> QED
    BY <1>1, <2>1, <2>2
<1> QED
  BY <1>2, <1>3

LEMMA ForkParentsEnd ==
  ASSUME IInv, IInv', ParentsEnd, NEW s \in ScopeIds, Allocated(s),
         NEW copy \in [Ancestry(s) -> Free], IsInjective(copy), ForkAs(s, copy)
  PROVE  ParentsEnd'
<1> SUFFICES ASSUME NEW T \in SUBSET ScopeIds, T # {} PROVE \E t \in T : parent'[t] \notin T
  BY DEF ParentsEnd, Grounded
<1> DEFINE Clones == {copy[t] : t \in Ancestry(s)}
           Of == {t \in Ancestry(s) : copy[t] \in T}
<1>1. \A t \in Ancestry(s) : t \in ScopeIds /\ (parent[t] # None => parent[t] \in Ancestry(s))
  BY AncestryClosed DEF IInv
<1>2. CASE T \subseteq Clones
  <2>1. Of # {} /\ Of \in SUBSET ScopeIds
    BY <1>1, <1>2
  <2>2. PICK t \in Of : parent[t] \notin Of
    <3> HIDE DEF Of
    <3> QED
      BY <2>1 DEF ParentsEnd, Grounded
  <2>3. parent'[copy[t]] = IF parent[t] = None THEN None ELSE copy[parent[t]]
    BY <2>2, ForkEffect
  <2>4. parent'[copy[t]] \notin T
    BY <1>1, <2>2, <2>3, NoneAssumption
  <2> QED
    BY <2>2, <2>4
<1>3. CASE ~(T \subseteq Clones)
  <2>1. PICK t \in T \ Clones : parent[t] \notin T \ Clones
    BY <1>3 DEF ParentsEnd, Grounded
  <2>2. parent'[t] = parent[t]
    BY <2>1, ForkEffect
  <2>3. parent[t] \notin Clones
    BY FreeIsNoParent DEF IsParent, Free
  <2> QED
    BY <2>1, <2>2, <2>3
<1> QED
  BY <1>2, <1>3

LEMMA StepParentsEnd == IInv /\ IInv' /\ ParentsEnd /\ [Next]_vars => ParentsEnd'
<1> SUFFICES ASSUME IInv, IInv', ParentsEnd, [Next]_vars PROVE ParentsEnd'
  OBVIOUS
<1>1. CASE UNCHANGED vars
  BY <1>1 DEF vars, ParentsEnd, Grounded
<1>2. CASE Next
  <2>1. PICK s \in ScopeIds :
          \/ \E isMutable \in MutableFlags :
               \/ NewScope(s, isMutable)
               \/ \E h \in [Names -> Values \cup {Absent}] : NewScope2(s, h, isMutable)
               \/ \E p \in ScopeIds : NewParentedScope(s, p, isMutable)
          \/ Fork(s)
          \/ EnterLocal(s)
          \/ LeaveLocal(s)
          \/ \E r \in Refs, v \in Values : Set(s, r, v)
          \/ \E groups \in Matches : RxSet(s, groups)
    BY <1>2 DEF Next
  <2>2. CASE \E isMutable \in MutableFlags :
               \/ NewScope(s, isMutable)
               \/ \E h \in [Names -> Values \cup {Absent}] : NewScope2(s, h, isMutable)
               \/ \E p \in ScopeIds : NewParentedScope(s, p, isMutable)
    BY <2>2, CreateParentsEnd DEF NewScope, NewScope2, NewParentedScope
  <2>3. CASE Fork(s)
    BY <2>3, ForkParentsEnd DEF Fork
  <2>4. CASE UNCHANGED parent
    BY <2>4 DEF ParentsEnd, Grounded
  <2> QED
    BY <2>1, <2>2, <2>3, <2>4 DEF EnterLocal, LeaveLocal, Set, RxSet
<1> QED
  BY <1>1, <1>2

\* In no reachable state is a scope its own ancestor, so every lookup ends.
LEMMA ParentsAlwaysEnd == Spec => []ParentsEnd
BY InitParentsEnd, StepParentsEnd, Inductive, PTL DEF Spec

\* Get2 and State ask the parent when the scope itself has no answer.
Lookups ==
  \A s \in ScopeIds, p \in ScopeIds \cup {None}, r \in Refs : parent[s] = p =>
    /\ Get2(s, r) = IF BasicGet2(s, r) # Absent \/ p = None
                    THEN BasicGet2(s, r) ELSE Get2(p, r)
    /\ State(s, r) = IF BasicState(s, r) # "NotFound" \/ p = None
                     THEN BasicState(s, r) ELSE State(p, r)

\* g has the value base[t] where t answers, and elsewhere that of its parent.
AsksParent(g, answers, base) ==
  g = [t \in ScopeIds |-> IF t \in answers THEN base[t] ELSE g[parent[t]]]

LEMMA LookupsUnfold == IInv /\ ParentsEnd => Lookups
<1> SUFFICES ASSUME IInv, ParentsEnd, NEW s \in ScopeIds, NEW r \in Refs
             PROVE  /\ Get2(s, r) = IF BasicGet2(s, r) # Absent \/ parent[s] = None
                                    THEN BasicGet2(s, r) ELSE Get2(parent[s], r)
                    /\ State(s, r) = IF BasicState(s, r) # "NotFound" \/ parent[s] = None
                                     THEN BasicState(s, r) ELSE State(parent[s], r)
  BY DEF Lookups
<1>0. ASSUME NEW stop, NEW base, \A t \in ScopeIds : parent[t] = None => t \in stop
      PROVE  \E g : AsksParent(g, stop, base)
  <2> DEFINE V == {base[t] : t \in ScopeIds}
             b == [t \in ScopeIds |-> base[t]]
             step == [t \in ScopeIds |-> [v \in V |-> v]]
  <2>1. /\ b \in [ScopeIds -> V] /\ step \in [ScopeIds -> [V -> V]]
        /\ \A t \in ScopeIds \ stop : parent[t] \in ScopeIds
        /\ \A t \in ScopeIds : b[t] = base[t]
        /\ \A t \in ScopeIds, v \in V : step[t][v] = v
    BY <1>0 DEF IInv, TypeOK
  <2> HIDE DEF V, b, step
  <2>2. Recursive(ScopeIds, V, parent, stop, b, step)
    BY <2>1 DEF Recursive, ParentsEnd
  <2>3. PICK g : Solves(g, ScopeIds, V, parent, stop, b, step)
    BY <2>2, RecursionUp
  <2>4. /\ g \in [ScopeIds -> V]
        /\ \A t \in ScopeIds : g[t] = IF t \in stop THEN b[t] ELSE step[t][g[parent[t]]]
    BY <2>3 DEF Solves
  <2>5. \A t \in ScopeIds : g[t] = IF t \in stop THEN base[t] ELSE g[parent[t]]
    BY <2>1, <2>4
  <2> QED
    BY <2>4, <2>5 DEF AsksParent
<1>1. Get2(s, r) = IF BasicGet2(s, r) # Absent \/ parent[s] = None
                   THEN BasicGet2(s, r) ELSE Get2(parent[s], r)
  <2> DEFINE get == CHOOSE g : g = [t \in ScopeIds |-> IF BasicGet2(t, r) # Absent \/ parent[t] = None
                                                       THEN BasicGet2(t, r) ELSE g[parent[t]]]
             stop == {t \in ScopeIds : BasicGet2(t, r) # Absent \/ parent[t] = None}
             base == [t \in ScopeIds |-> BasicGet2(t, r)]
  <2>1. \A t \in ScopeIds : Get2(t, r) = get[t]
    BY DEF Get2
  <2>2. PICK g : AsksParent(g, stop, base)
    <3>1. \A t \in ScopeIds : parent[t] = None => t \in stop
      OBVIOUS
    <3> HIDE DEF stop, base
    <3> QED
      BY <1>0, <3>1
  <2>3. g = [t \in ScopeIds |-> IF BasicGet2(t, r) # Absent \/ parent[t] = None
                                THEN BasicGet2(t, r) ELSE g[parent[t]]]
    BY <2>2 DEF AsksParent
  <2>4. get = [t \in ScopeIds |-> IF BasicGet2(t, r) # Absent \/ parent[t] = None
                                  THEN BasicGet2(t, r) ELSE get[parent[t]]]
    BY <2>3
  <2> HIDE DEF get
  <2>5. get[s] = IF BasicGet2(s, r) # Absent \/ parent[s] = None
                 THEN BasicGet2(s, r) ELSE get[parent[s]]
    BY <2>4
  <2>6. parent[s] # None => parent[s] \in ScopeIds
    BY DEF IInv, TypeOK
  <2> QED
    BY <2>1, <2>5, <2>6
<1>2. State(s, r) = IF BasicState(s, r) # "NotFound" \/ parent[s] = None
                    THEN BasicState(s, r) ELSE State(parent[s], r)
  <2> DEFINE state == CHOOSE g : g = [t \in ScopeIds |-> IF BasicState(t, r) # "NotFound" \/ parent[t] = None
                                                         THEN BasicState(t, r) ELSE g[parent[t]]]
             stop == {t \in ScopeIds : BasicState(t, r) # "NotFound" \/ parent[t] = None}
             base == [t \in ScopeIds |-> BasicState(t, r)]
  <2>1. \A t \in ScopeIds : State(t, r) = state[t]
    BY DEF State
  <2>2. PICK g : AsksParent(g, stop, base)
    <3>1. \A t \in ScopeIds : parent[t] = None => t \in stop
      OBVIOUS
    <3> HIDE DEF stop, base
    <3> QED
      BY <1>0, <3>1
  <2>3. g = [t \in ScopeIds |-> IF BasicState(t, r) # "NotFound" \/ parent[t] = None
                                THEN BasicState(t, r) ELSE g[parent[t]]]
    BY <2>2 DEF AsksParent
  <2>4. state = [t \in ScopeIds |-> IF BasicState(t, r) # "NotFound" \/ parent[t] = None
                                    THEN BasicState(t, r) ELSE state[parent[t]]]
    BY <2>3
  <2> HIDE DEF state
  <2>5. state[s] = IF BasicState(s, r) # "NotFound" \/ parent[s] = None
                   THEN BasicState(s, r) ELSE state[parent[s]]
    BY <2>4
  <2>6. parent[s] # None => parent[s] \in ScopeIds
    BY DEF IInv, TypeOK
  <2> QED
    BY <2>1, <2>5, <2>6
<1> QED
  BY <1>1, <1>2

\* A set of numbers up to a limit has a greatest member.
LEMMA GreatestNumber ==
  ASSUME NEW n \in Nat, NEW T \in SUBSET (1 .. n), T # {}
  PROVE  Max(T) \in T /\ \A x \in T : Max(T) >= x
<1> DEFINE D == {d \in Nat : n - d \in T}
<1>1. \A x \in T : x \in Nat /\ n - x \in Nat /\ n - (n - x) = x
  OBVIOUS
<1>2. D # {} /\ D \in SUBSET Nat
  <2>1. PICK x \in T : TRUE
    OBVIOUS
  <2>2. n - x \in D
    BY <1>1
  <2> QED
    BY <2>2
<1>3. PICK d \in D : \A e \in D : d <= e
  <2> HIDE DEF D
  <2> QED
    BY <1>2, LeastNumber
<1>4. \A y \in T : n - y \in D
  BY <1>1
<1>5. \A y \in T : d <= n - y
  BY <1>3, <1>4
<1>6. n - d \in T /\ d \in Nat
  OBVIOUS
<1>7. \A y \in T : n - d >= y
  BY <1>1, <1>5, <1>6
<1> QED
  BY <1>6, <1>7 DEF Max

\* What a scope has itself, its two lookups find alike.
LEMMA BasicAgrees ==
  ASSUME IInv, NEW s \in ScopeIds, Allocated(s), NEW r \in Refs
  PROVE  BasicState(s, r) = "NotFound" <=> BasicGet2(s, r) = Absent
<1> DEFINE B == Binding(s, r.name)
<1>1. B \in SUBSET (1 .. Depth(s)) /\ Depth(s) \in Nat /\ 1 \in 1 .. Depth(s)
  BY FramesAreMaps DEF Binding
<1>2. B # {} => Frame(s, Max(B))[r.name] # Absent
  <2>1. B # {} => Max(B) \in B
    <3> HIDE DEF B
    <3> QED
      BY <1>1, GreatestNumber
  <2> QED
    BY <2>1 DEF Binding
<1>3. B \cap {1} = {} <=> Frame(s, 1)[r.name] = Absent
  BY <1>1 DEF Binding
<1>4. CASE r.global
  BY <1>3, <1>4 DEF BasicState, BasicGet2
<1>5. CASE ~r.global
  BY <1>2, <1>5 DEF BasicState, BasicGet2
<1> QED
  BY <1>4, <1>5 DEF Refs

\* Of the scopes in which the two disagree one would have a parent in which they
\* agree.
LookupAgrees(s, r) == State(s, r) = "NotFound" <=> Get2(s, r) = Absent

LEMMA LookupsAgree == IInv /\ ParentsEnd => StateAgreesWithGet
<1> SUFFICES ASSUME IInv, ParentsEnd, NEW r \in Refs
             PROVE  \A s \in ScopeIds : Allocated(s) => LookupAgrees(s, r)
  BY DEF StateAgreesWithGet, LookupAgrees
<1> DEFINE T == {s \in ScopeIds : Allocated(s) /\ ~LookupAgrees(s, r)}
<1>1. ASSUME NEW s \in T, parent[s] \notin T
      PROVE  FALSE
  <2>1. s \in ScopeIds /\ Allocated(s) /\ ~LookupAgrees(s, r)
    OBVIOUS
  <2>2. parent[s] # None => parent[s] \in ScopeIds /\ Allocated(parent[s])
    BY <2>1 DEF IInv, TypeOK
  <2>3. ASSUME NEW p \in ScopeIds, p = parent[s] PROVE LookupAgrees(p, r)
    BY <1>1, <2>2, <2>3, NoneAssumption
  <2>4. BasicState(s, r) = "NotFound" <=> BasicGet2(s, r) = Absent
    BY <2>1, BasicAgrees
  <2>5. Lookups
    BY LookupsUnfold
  <2>6. CASE parent[s] = None
    BY <2>1, <2>4, <2>5, <2>6 DEF Lookups, LookupAgrees
  <2>7. CASE parent[s] # None
    <3>1. PICK p \in ScopeIds : p = parent[s]
      BY <2>2, <2>7
    <3>2. LookupAgrees(p, r) /\ p # None
      BY <2>3, <3>1, NoneAssumption
    <3> QED
      BY <2>1, <2>4, <2>5, <3>1, <3>2 DEF Lookups, LookupAgrees
  <2> QED
    BY <2>6, <2>7
<1>2. T \in SUBSET ScopeIds
  OBVIOUS
<1>3. T = {}
  <2> HIDE DEF T
  <2> QED
    BY <1>1, <1>2 DEF ParentsEnd, Grounded
<1> QED
  BY <1>3

\* State reports a variable as found exactly when Get2 finds a value for it, along
\* any chain of parents.
THEOREM StateAgrees == Spec => []StateAgreesWithGet
BY LookupsAgree, ParentsAlwaysEnd, Inductive, PTL

-----------------------------------------------------------------------------
(* A step is seen in one scope. *)

\* What a scope shows comes from its own frames and those of its ancestors.
LEMMA BasicKept ==
  ASSUME NEW s \in ScopeIds, Undisturbed(s), NEW r \in Refs, Allocated(s), IInv
  PROVE  /\ BasicGet2(s, r)' = BasicGet2(s, r)
         /\ BasicState(s, r)' = BasicState(s, r)
         /\ RxGet(s)' = RxGet(s)
<1>1. Depth(s)' = Depth(s)
  BY DEF Undisturbed, Depth
<1>2. Depth(s) \in Nat /\ 1 \in 1 .. Depth(s) /\ Depth(s) \in 1 .. Depth(s)
  BY FramesAreMaps
<1>3. \A i \in 1 .. Depth(s) : Frame(s, i)' = Frame(s, i)
  BY DEF Undisturbed
<1>4. Binding(s, r.name)' = Binding(s, r.name)
  BY <1>1, <1>3 DEF Binding
<1>5. Binding(s, r.name) # {} => Max(Binding(s, r.name)) \in 1 .. Depth(s)
  <2>1. Binding(s, r.name) \in SUBSET (1 .. Depth(s))
    BY DEF Binding
  <2> QED
    BY <1>2, <2>1, GreatestNumber
<1>6. BasicGet2(s, r)' = BasicGet2(s, r)
  BY <1>2, <1>3, <1>4, <1>5 DEF BasicGet2
<1>7. BasicState(s, r)' = BasicState(s, r)
  BY <1>4 DEF BasicState
<1>8. RxGet(s)' = RxGet(s)
  BY <1>1, <1>2, <1>3 DEF RxGet
<1> QED
  BY <1>6, <1>7, <1>8

\* Scopes that exist and are not u show what they did.
SameLookup(t, r) == Get2(t, r)' = Get2(t, r) /\ State(t, r)' = State(t, r)
SeenOnlyIn(u) ==
  \A t \in ScopeIds : Allocated(t) /\ t # u =>
    /\ \A r \in Refs : SameLookup(t, r)
    /\ RxGet(t)' = RxGet(t)

LEMMA DisturbedIsSeen ==
  ASSUME IInv, ParentsEnd, Lookups, Lookups', NEW u, Disturbs(u)
  PROVE  SeenOnlyIn(u)
<1>1. ASSUME NEW t \in ScopeIds, Allocated(t), t # u PROVE RxGet(t)' = RxGet(t)
  BY <1>1, FramesAreMaps DEF Disturbs, Undisturbed, RxGet, Depth
<1>2. ASSUME NEW r \in Refs,
             NEW T, T = {t \in ScopeIds : Allocated(t) /\ t # u /\ ~SameLookup(t, r)}, T # {}
      PROVE  FALSE
  <2>1. PICK t \in T : parent[t] \notin T
    BY <1>2 DEF ParentsEnd, Grounded
  <2>2. t \in ScopeIds /\ Allocated(t) /\ t # u /\ ~SameLookup(t, r)
    BY <1>2
  <2>3. parent[t] # None => parent[t] \in ScopeIds /\ Allocated(parent[t]) /\ parent[t] # u
    BY <2>2 DEF IInv, TypeOK, Disturbs, IsParent
  <2>4. ASSUME NEW p \in ScopeIds, parent[t] = p PROVE SameLookup(p, r)
    <3>1. p \notin T /\ Allocated(p) /\ p # u
      BY <2>1, <2>3, <2>4, NoneAssumption
    <3> QED
      BY <1>2, <3>1
  <2>5. /\ BasicGet2(t, r)' = BasicGet2(t, r) /\ BasicState(t, r)' = BasicState(t, r)
        /\ parent'[t] = parent[t]
    BY <2>2, BasicKept DEF Disturbs, Lasting
  <2>6. SameLookup(t, r)
    <3>1. CASE parent[t] = None
      BY <2>2, <2>5, <3>1 DEF Lookups, SameLookup
    <3>2. ASSUME NEW p \in ScopeIds, parent[t] = p
          PROVE  SameLookup(t, r)
      BY <2>2, <2>4, <2>5, <3>2 DEF Lookups, SameLookup
    <3> QED
      BY <2>3, <3>1, <3>2
  <2> QED
    BY <2>2, <2>6
<1>3. ASSUME NEW t \in ScopeIds, Allocated(t), t # u, NEW r \in Refs PROVE SameLookup(t, r)
  <2> DEFINE T == {x \in ScopeIds : Allocated(x) /\ x # u /\ ~SameLookup(x, r)}
  <2>1. T = {}
    BY <1>2
  <2> QED
    BY <1>3, <2>1
<1> QED
  BY <1>1, <1>3 DEF SeenOnlyIn

OneView == Cardinality({s \in ScopeIds : Allocated(s) /\ View(s)' # View(s)}) <= 1

LEMMA OneViewStep ==
  IInv /\ IInv' /\ ParentsEnd /\ Lookups /\ Lookups' /\ [Next]_vars => [OneView]_vars
<1> SUFFICES ASSUME IInv, IInv', ParentsEnd, Lookups, Lookups', Next PROVE OneView
  OBVIOUS
<1>1. PICK u \in ScopeIds : Disturbs(u)
  BY StepDisturbs
<1>2. SeenOnlyIn(u)
  BY <1>1, DisturbedIsSeen
<1>3. ASSUME NEW t \in ScopeIds, Allocated(t), t # u PROVE View(t)' = View(t)
  <2>1. \A r \in Refs : Get2(t, r)' = Get2(t, r) /\ State(t, r)' = State(t, r)
    BY <1>2, <1>3 DEF SeenOnlyIn, SameLookup
  <2>2. RxGet(t)' = RxGet(t)
    BY <1>2, <1>3 DEF SeenOnlyIn
  <2> QED
    BY <2>1, <2>2 DEF View
<1>4. {s \in ScopeIds : Allocated(s) /\ View(s)' # View(s)} \subseteq {u}
  BY <1>3
<1>5. IsFiniteSet({u}) /\ Cardinality({u}) = 1
  BY FS_Singleton
<1> HIDE <1>3
<1> DEFINE Seen == {s \in ScopeIds : Allocated(s) /\ View(s)' # View(s)}
<1>6. Seen \subseteq {u}
  BY <1>4
<1> HIDE DEF Seen
<1>7. Cardinality(Seen) <= 1
  BY <1>5, <1>6, FS_Subset
<1> QED
  BY <1>7 DEF OneView, Seen

\* No step changes what two scopes show: not that of a parent and its child, and
\* not that of a fork and its original.
THEOREM StepsSeenOnce == Spec => OneViewPerStep
<1>1. [][OneView]_vars => OneViewPerStep
  BY DEF OneView, OneViewPerStep
<1> QED
  BY <1>1, OneViewStep, LookupsUnfold, ParentsAlwaysEnd, Inductive, PTL DEF Spec

-----------------------------------------------------------------------------
(* Globals of the parent. *)

\* The clones that Fork makes show what their originals do.
SameAs(t, c, r) == Get2(c, r)' = Get2(t, r) /\ State(c, r)' = State(t, r)

LEMMA CloneHasTheSame ==
  ASSUME IInv, NEW t \in ScopeIds, Allocated(t), NEW c \in ScopeIds, CloneOf(t, c), NEW r \in Refs
  PROVE  BasicGet2(c, r)' = BasicGet2(t, r) /\ BasicState(c, r)' = BasicState(t, r)
<1>1. Depth(t) \in Nat /\ 1 \in 1 .. Depth(t)
  BY FramesAreMaps
<1>2. Depth(c)' = Depth(t) /\ \A i \in 1 .. Depth(t) : Frame(c, i)' = Frame(t, i)
  BY DEF CloneOf
<1>3. Binding(c, r.name)' = Binding(t, r.name)
  BY <1>2 DEF Binding
<1>4. Binding(t, r.name) # {} => Max(Binding(t, r.name)) \in 1 .. Depth(t)
  <2>1. Binding(t, r.name) \in SUBSET (1 .. Depth(t))
    BY DEF Binding
  <2> QED
    BY <1>1, <2>1, GreatestNumber
<1>5. BasicGet2(c, r)' = BasicGet2(t, r)
  BY <1>1, <1>2, <1>3, <1>4 DEF BasicGet2
<1>6. BasicState(c, r)' = BasicState(t, r)
  BY <1>3 DEF BasicState
<1> QED
  BY <1>5, <1>6

LEMMA ForkShowsTheSame ==
  ASSUME IInv, IInv', ParentsEnd, Lookups, Lookups', NEW s \in ScopeIds, Allocated(s),
         NEW copy \in [Ancestry(s) -> Free], IsInjective(copy), ForkAs(s, copy)
  PROVE  \A t \in Ancestry(s), r \in Refs : SameAs(t, copy[t], r)
<1>1. ASSUME NEW r \in Refs, NEW T, T = {t \in Ancestry(s) : ~SameAs(t, copy[t], r)}, T # {}
      PROVE  FALSE
  <2>1. PICK t \in T : parent[t] \notin T
    <3>1. Ancestry(s) \subseteq ScopeIds
      BY AncestryClosed DEF IInv
    <3>2. T \in SUBSET ScopeIds
      BY <1>1, <3>1
    <3> QED
      BY <1>1, <3>2 DEF ParentsEnd, Grounded
  <2>2. t \in Ancestry(s) /\ ~SameAs(t, copy[t], r)
    BY <1>1
  <2>3. PICK c \in ScopeIds : c = copy[t] /\ CloneOf(t, c)
    BY <2>2, ForkEffect
  <2>4. t \in ScopeIds /\ Allocated(t)
    BY <2>2, AncestryClosed, AncestryAllocated DEF IInv
  <2>5. BasicGet2(c, r)' = BasicGet2(t, r) /\ BasicState(c, r)' = BasicState(t, r)
    BY <2>3, <2>4, CloneHasTheSame
  <2>6. CASE parent[t] = None
    <3>1. parent'[c] = None
      BY <2>2, <2>3, <2>6, ForkEffect
    <3>2. SameAs(t, c, r)
      BY <2>3, <2>4, <2>5, <2>6, <3>1 DEF Lookups, SameAs
    <3> QED
      BY <2>2, <2>3, <3>2
  <2>7. CASE parent[t] # None
    <3>1. PICK p \in Ancestry(s) : p = parent[t]
      BY <2>2, <2>7, AncestryClosed DEF IInv
    <3>2. PICK d \in ScopeIds : d = copy[p]
      BY <3>1, ForkEffect
    <3>3. SameAs(p, d, r)
      BY <1>1, <2>1, <3>1, <3>2
    <3>4. parent'[c] = d
      BY <2>2, <2>3, <2>7, <3>1, <3>2, ForkEffect
    <3>5. p \in ScopeIds /\ p # None
      BY <2>7, <3>1, AncestryClosed DEF IInv
    <3>6. SameAs(t, c, r)
      BY <2>3, <2>4, <2>5, <3>1, <3>3, <3>4, <3>5, NoneAssumption DEF Lookups, SameAs
    <3> QED
      BY <2>2, <2>3, <3>6
  <2> QED
    BY <2>6, <2>7
<1>2. ASSUME NEW t \in Ancestry(s), NEW r \in Refs PROVE SameAs(t, copy[t], r)
  <2> DEFINE T == {x \in Ancestry(s) : ~SameAs(x, copy[x], r)}
  <2>1. T = {}
    BY <1>1
  <2> QED
    BY <1>2, <2>1
<1> QED
  BY <1>2

\* A scope that exists keeps the rule: its parent shows what it did, and Set has
\* asked the parent.
LEMMA OverrideKept ==
  ASSUME IInv, IInv', ParentsEnd, Lookups, Lookups', Next, NoVisibleGlobalOverride,
         NEW s \in ScopeIds, Allocated(s), NEW n \in Names \ {Pnr},
         NEW p \in ScopeIds, parent'[s] = p, Frame(s, 1)'[n] # Absent
  PROVE  State(p, LocalRef(n))' # "Global"
<1>1. PICK u \in ScopeIds : Disturbs(u)
  BY StepDisturbs
<1>2. parent[s] = p /\ frames'[s] # <<>>
  BY <1>1 DEF Disturbs, Lasting
<1>3. Allocated(p) /\ p # u /\ p # None
  BY <1>1, <1>2, NoneAssumption DEF Disturbs, IsParent, IInv
<1>4. LocalRef(n) \in Refs
  BY DEF LocalRef, Refs
<1>5. State(p, LocalRef(n))' = State(p, LocalRef(n))
  <2>1. SameLookup(p, LocalRef(n))
    BY <1>1, <1>3, <1>4, DisturbedIsSeen DEF SeenOnlyIn
  <2> QED
    BY <2>1 DEF SameLookup
<1>6. 1 \in 1 .. Depth(s) /\ 1 <= Depth(s)'
  <2>1. Depth(s)' \in Nat /\ frames' \in [ScopeIds -> Seq(MapIds)]
    BY DEF IInv, TypeOK, Depth
  <2>2. Depth(s)' # 0
    BY <1>2, <2>1 DEF Depth
  <2> QED
    BY <2>1, <2>2, FramesAreMaps
<1>7. Frame(s, 1) = maps[<<s, 1>>] /\ Frame(s, 1)' = maps'[<<s, 1>>]
  BY <1>6, FrameKept
<1>8. n \in Keys /\ n # GroupKey
  BY GroupKeyAssumption DEF Keys
<1>9. CASE maps'[<<s, 1>>][n] = maps[<<s, 1>>][n]
  <2>1. Frame(s, 1)[n] # Absent
    BY <1>7, <1>9
  <2>2. State(p, LocalRef(n)) # "Global"
    BY <1>2, <1>3, <2>1 DEF NoVisibleGlobalOverride
  <2> QED
    BY <1>5, <2>2
<1>10. CASE Assigned(s, 1, n)
  <2>1. PICK r \in Refs : MaySet(s, r) /\ 1 = SetIdx(s, r) /\ n = r.name
    BY <1>10 DEF Assigned
  <2>2. ~OverridesGlobal(s, r)
    BY <2>1 DEF MaySet
  <2>3. State(p, LocalRef(n)) # "Global"
    BY <1>2, <1>3, <2>1, <2>2 DEF OverridesGlobal, LocalRef
  <2> QED
    BY <1>5, <2>3
<1> QED
  BY <1>6, <1>8, <1>9, <1>10, OneCell DEF Captured

\* A new scope keeps the rule: it has no globals, no parent, or it is a clone.
LEMMA OverrideNew ==
  ASSUME IInv, IInv', ParentsEnd, Lookups, Lookups', Next, NoVisibleGlobalOverride,
         NEW s \in ScopeIds, ~Allocated(s), Allocated(s)', NEW n \in Names \ {Pnr},
         NEW p \in ScopeIds, parent'[s] = p, Frame(s, 1)'[n] # Absent
  PROVE  State(p, LocalRef(n))' # "Global"
<1>1. PICK u \in ScopeIds :
        \/ \E isMutable \in MutableFlags :
             \/ NewScope(u, isMutable)
             \/ \E h \in [Names -> Values \cup {Absent}] : NewScope2(u, h, isMutable)
             \/ \E q \in ScopeIds : NewParentedScope(u, q, isMutable)
        \/ Fork(u)
        \/ EnterLocal(u)
        \/ LeaveLocal(u)
        \/ \E r \in Refs, v \in Values : Set(u, r, v)
        \/ \E groups \in Matches : RxSet(u, groups)
  BY DEF Next
<1>2. ASSUME frames'[s] = frames[s] PROVE FALSE
  BY <1>2 DEF Allocated
<1>3. ASSUME NEW contents, NEW isMutable, NEW q, Create(u, contents, isMutable, q)
      PROVE  q = p /\ contents = maps'[<<s, 1>>] /\ maps'[<<s, 1>>] = Frame(s, 1)'
  <2>1. s = u
    BY <1>2, <1>3 DEF Create, IInv, TypeOK
  <2>2. <<s, 1>> \in MapIds
    BY MaxDepthAssumption DEF MapIds
  <2> QED
    BY <1>3, <2>1, <2>2 DEF Create, IInv, TypeOK, Frame
<1>4. n \in Keys
  BY DEF Keys
<1>5. CASE \E isMutable \in MutableFlags :
             \/ NewScope(u, isMutable)
             \/ \E h \in [Names -> Values \cup {Absent}] : NewScope2(u, h, isMutable)
             \/ \E q \in ScopeIds : NewParentedScope(u, q, isMutable)
  <2>1. PICK isMutable \in MutableFlags :
             \/ NewScope(u, isMutable)
             \/ \E h \in [Names -> Values \cup {Absent}] : NewScope2(u, h, isMutable)
             \/ \E q \in ScopeIds : NewParentedScope(u, q, isMutable)
    BY <1>5
  <2>2. CASE NewScope(u, isMutable)
    BY <1>3, <2>2, NoneAssumption DEF NewScope
  <2>3. CASE \E h \in [Names -> Values \cup {Absent}] : NewScope2(u, h, isMutable)
    BY <1>3, <2>3, NoneAssumption DEF NewScope2
  <2>4. CASE \E q \in ScopeIds : NewParentedScope(u, q, isMutable)
    <3>1. Frame(s, 1)' = EmptyMap
      BY <1>3, <2>4 DEF NewParentedScope
    <3> QED
      BY <1>4, <3>1 DEF EmptyMap
  <2> QED
    BY <2>1, <2>2, <2>3, <2>4
<1>6. CASE Fork(u)
  <2>1. PICK copy \in [Ancestry(u) -> Free] : IsInjective(copy) /\ ForkAs(u, copy)
    BY <1>6 DEF Fork
  <2>2. Allocated(u)
    BY <1>6 DEF Fork
  <2>3. PICK t \in Ancestry(u) : copy[t] = s
    BY <1>2, <2>1, <2>2, ForkEffect
  <2>4. /\ CloneOf(t, s) /\ t \in ScopeIds /\ Allocated(t)
        /\ parent'[s] = IF parent[t] = None THEN None ELSE copy[parent[t]]
    BY <2>1, <2>2, <2>3, ForkEffect, AncestryClosed, AncestryAllocated DEF IInv
  <2>5. PICK q \in Ancestry(u) : q = parent[t] /\ copy[q] = p
    BY <2>3, <2>4, NoneAssumption, AncestryClosed DEF IInv
  <2>6. q # None
    BY <2>5, NoneAssumption, AncestryClosed DEF IInv
  <2>7. Frame(t, 1)[n] # Absent
    BY <2>4, FramesAreMaps DEF CloneOf
  <2>8. State(q, LocalRef(n)) # "Global"
    BY <2>4, <2>5, <2>6, <2>7 DEF NoVisibleGlobalOverride
  <2>9. SameAs(q, p, LocalRef(n))
    <3>1. LocalRef(n) \in Refs
      BY DEF LocalRef, Refs
    <3> QED
      BY <2>1, <2>2, <2>5, <3>1, ForkShowsTheSame
  <2> QED
    BY <2>8, <2>9 DEF SameAs
<1>7. CASE EnterLocal(u) \/ LeaveLocal(u)
  <2>1. u # s
    BY <1>7 DEF EnterLocal, LeaveLocal, Modifiable
  <2> QED
    BY <1>2, <1>7, <2>1 DEF EnterLocal, LeaveLocal, IInv, TypeOK
<1>8. CASE UNCHANGED frames
  BY <1>2, <1>8
<1> QED
  BY <1>1, <1>5, <1>6, <1>7, <1>8 DEF Set, RxSet

LEMMA OverrideStep ==
  IInv /\ IInv' /\ ParentsEnd /\ ParentsEnd' /\ Lookups /\ Lookups' /\ NoVisibleGlobalOverride /\ [Next]_vars
    => NoVisibleGlobalOverride'
<1> SUFFICES ASSUME IInv, IInv', ParentsEnd, ParentsEnd', Lookups, Lookups', NoVisibleGlobalOverride, [Next]_vars
             PROVE  NoVisibleGlobalOverride'
  OBVIOUS
<1>1. CASE UNCHANGED vars
  <2>1. Disturbs(None)
    <3> SUFFICES ASSUME NEW t \in ScopeIds, Allocated(t) PROVE Lasting(t) /\ Undisturbed(t)
      BY NoneAssumption DEF Disturbs
    <3>1. \A i \in 1 .. Depth(t) : maps'[<<t, i>>] = maps[<<t, i>>]
      BY <1>1 DEF vars
    <3> QED
      BY <1>1, <3>1, SameMaps DEF Lasting, Allocated, vars
  <2>2. \A t \in ScopeIds, r \in Refs : Allocated(t) => SameLookup(t, r)
    BY <2>1, DisturbedIsSeen, NoneAssumption DEF SeenOnlyIn
  <2> SUFFICES ASSUME NEW s \in ScopeIds, NEW n \in Names \ {Pnr}, NEW p \in ScopeIds,
                      Allocated(s)', parent'[s] = p, Frame(s, 1)'[n] # Absent
               PROVE  State(p, LocalRef(n))' # "Global"
    BY DEF NoVisibleGlobalOverride, IInv, TypeOK
  <2>3. Allocated(s) /\ parent[s] = p /\ Frame(s, 1)[n] # Absent
    BY <1>1 DEF vars, Allocated, Frame
  <2>4. p # None /\ Allocated(p) /\ LocalRef(n) \in Refs
    BY <2>3, NoneAssumption DEF IInv, LocalRef, Refs
  <2>5. State(p, LocalRef(n)) # "Global"
    BY <2>3, <2>4 DEF NoVisibleGlobalOverride
  <2> QED
    BY <2>2, <2>4, <2>5 DEF SameLookup
<1>2. CASE Next
  <2> SUFFICES ASSUME NEW s \in ScopeIds, NEW n \in Names \ {Pnr},
                      Allocated(s)', parent'[s] # None, Frame(s, 1)'[n] # Absent
               PROVE  State(parent[s], LocalRef(n))' # "Global"
    BY DEF NoVisibleGlobalOverride
  <2>1. PICK p \in ScopeIds : p = parent'[s]
    BY DEF IInv, TypeOK
  <2>2. State(p, LocalRef(n))' # "Global"
    BY <1>2, <2>1, OverrideKept, OverrideNew
  <2> QED
    BY <2>1, <2>2
<1> QED
  BY <1>1, <1>2

LEMMA InitOverride == Init => NoVisibleGlobalOverride
BY DEF Init, NoVisibleGlobalOverride, Allocated

\* Only for $pnr, or behind a local variable of the parent, does a child bind a
\* global that its parent has.
THEOREM GlobalsNotOverridden == Spec => []NoVisibleGlobalOverride
BY InitOverride, OverrideStep, LookupsUnfold, ParentsAlwaysEnd, Inductive, PTL DEF Spec

-----------------------------------------------------------------------------
(* The environments of ScopeRefinement. *)

Levels == [frames : Seq([Keys -> Cells]), mutable : BOOLEAN]

LEMMA LevelTyped ==
  ASSUME IInv, NEW t \in ScopeIds
  PROVE  LevelOf(t) \in Levels
<1>1. Depth(t) \in Nat
  BY FramesAreMaps
<1>2. \A i \in 1 .. Depth(t) : Frame(t, i) \in [Keys -> Cells]
  BY FramesAreMaps DEF IInv, TypeOK, Frame
<1>3. [i \in 1 .. Depth(t) |-> Frame(t, i)] \in Seq([Keys -> Cells])
  BY <1>1, <1>2
<1>4. mutable[t] \in BOOLEAN
  BY DEF IInv, TypeOK
<1> QED
  BY <1>3, <1>4 DEF LevelOf, Levels

\* The environment of a scope is its level above that of its parent.
Above(level, rest) == <<level>> \o rest
Environments ==
  \A s \in ScopeIds, p \in ScopeIds \cup {None} : Allocated(s) /\ parent[s] = p =>
    /\ EnvOf(s) = Above(LevelOf(s), IF p = None THEN <<>> ELSE EnvOf(p))
    /\ EnvOf(s) \in Seq(Levels)
    /\ EnvOf(s) # <<>>

\* envOf of ScopeRefinement
BuildsOn(g) ==
  g = [t \in ScopeIds |-> IF parent[t] = None THEN <<LevelOf(t)>> ELSE <<LevelOf(t)>> \o g[parent[t]]]

LEMMA EnvironmentExists ==
  ASSUME IInv, ParentsEnd
  PROVE  \E g \in [ScopeIds -> Seq(Levels)] : BuildsOn(g)
<1> DEFINE V == Seq(Levels)
           stop == {t \in ScopeIds : parent[t] = None}
           base == [t \in ScopeIds |-> <<LevelOf(t)>>]
           step == [t \in ScopeIds |-> [v \in V |-> <<LevelOf(t)>> \o v]]
<1>1. \A t \in ScopeIds : LevelOf(t) \in Levels
  BY LevelTyped
<1>2. base \in [ScopeIds -> V]
  BY <1>1
<1>3. \A t \in ScopeIds : \A v \in V : <<LevelOf(t)>> \o v \in V
  BY <1>1
<1>4. step \in [ScopeIds -> [V -> V]]
  BY <1>3
<1>5. /\ \A t \in ScopeIds \ stop : parent[t] \in ScopeIds
      /\ \A t \in ScopeIds : t \in stop <=> parent[t] = None
      /\ \A t \in ScopeIds : base[t] = <<LevelOf(t)>>
      /\ \A t \in ScopeIds : \A v \in V : step[t][v] = <<LevelOf(t)>> \o v
  BY DEF IInv, TypeOK
<1> HIDE DEF V, stop, base, step
<1>6. Recursive(ScopeIds, V, parent, stop, base, step)
  BY <1>2, <1>4, <1>5 DEF Recursive, ParentsEnd
<1>7. PICK g : Solves(g, ScopeIds, V, parent, stop, base, step)
  BY <1>6, RecursionUp
<1>8. /\ g \in [ScopeIds -> V]
      /\ \A t \in ScopeIds : g[t] = IF t \in stop THEN base[t] ELSE step[t][g[parent[t]]]
  BY <1>7 DEF Solves
<1>9. \A t \in ScopeIds : g[t] = IF parent[t] = None THEN <<LevelOf(t)>> ELSE <<LevelOf(t)>> \o g[parent[t]]
  BY <1>5, <1>8
<1>10. BuildsOn(g)
  BY <1>8, <1>9 DEF BuildsOn
<1> QED
  BY <1>8, <1>10 DEF V

\* Two such functions are equal: they cannot differ in a scope without differing
\* in its parent.
LEMMA EnvironmentUnique ==
  ASSUME IInv, ParentsEnd, NEW g, BuildsOn(g), NEW h, BuildsOn(h)
  PROVE  g = h
<1> DEFINE T == {t \in ScopeIds : g[t] # h[t]}
<1>1. /\ \A t \in ScopeIds : g[t] = IF parent[t] = None THEN <<LevelOf(t)>> ELSE <<LevelOf(t)>> \o g[parent[t]]
      /\ \A t \in ScopeIds : h[t] = IF parent[t] = None THEN <<LevelOf(t)>> ELSE <<LevelOf(t)>> \o h[parent[t]]
  BY DEF BuildsOn
<1>2. ASSUME NEW t \in T, parent[t] \notin T PROVE FALSE
  <2>1. parent[t] # None => g[parent[t]] = h[parent[t]]
    BY <1>2 DEF IInv, TypeOK
  <2>2. t \in ScopeIds /\ g[t] # h[t]
    OBVIOUS
  <2> QED
    BY <1>1, <2>1, <2>2
<1>3. T \in SUBSET ScopeIds
  OBVIOUS
<1>4. T = {}
  <2> HIDE DEF T
  <2> QED
    BY <1>2, <1>3 DEF ParentsEnd, Grounded
<1>5. g = [t \in ScopeIds |-> g[t]] /\ h = [t \in ScopeIds |-> h[t]]
  BY DEF BuildsOn
<1>6. \A t \in ScopeIds : g[t] = h[t]
  BY <1>4
<1> HIDE DEF T
<1> QED
  BY <1>5, <1>6

LEMMA EnvironmentsUnfold == IInv /\ ParentsEnd => Environments
<1> SUFFICES ASSUME IInv, ParentsEnd PROVE Environments
  OBVIOUS
<1> DEFINE envOf == CHOOSE g : g = [t \in ScopeIds |-> IF parent[t] = None THEN <<LevelOf(t)>>
                                                       ELSE <<LevelOf(t)>> \o g[parent[t]]]
<1>1. \A t \in ScopeIds : Allocated(t) => EnvOf(t) = envOf[t]
  BY DEF EnvOf
<1>2. PICK g \in [ScopeIds -> Seq(Levels)] : BuildsOn(g)
  BY EnvironmentExists
<1>3. BuildsOn(envOf)
  BY <1>2 DEF BuildsOn
<1> HIDE DEF envOf
<1>4. envOf = g
  BY <1>2, <1>3, EnvironmentUnique
<1>5. ASSUME NEW s \in ScopeIds, NEW p \in ScopeIds \cup {None}, Allocated(s), parent[s] = p
      PROVE  /\ EnvOf(s) = Above(LevelOf(s), IF p = None THEN <<>> ELSE EnvOf(p))
             /\ EnvOf(s) \in Seq(Levels)
             /\ EnvOf(s) # <<>>
  <2>1. EnvOf(s) = envOf[s] /\ EnvOf(s) \in Seq(Levels)
    BY <1>1, <1>2, <1>4, <1>5
  <2>2. envOf[s] = IF p = None THEN <<LevelOf(s)>> ELSE <<LevelOf(s)>> \o envOf[p]
    BY <1>3, <1>5 DEF BuildsOn
  <2>3. LevelOf(s) \in Levels
    BY LevelTyped
  <2>4. CASE p = None
    <3>1. <<LevelOf(s)>> = <<LevelOf(s)>> \o <<>> /\ <<LevelOf(s)>> # <<>>
      BY <2>3
    <3> QED
      BY <2>1, <2>2, <2>4, <3>1 DEF Above
  <2>5. CASE p # None
    <3>1. p \in ScopeIds /\ Allocated(p)
      BY <1>5, <2>5 DEF IInv
    <3>2. EnvOf(p) = envOf[p] /\ envOf[p] \in Seq(Levels)
      BY <1>1, <1>2, <1>4, <3>1
    <3>3. <<LevelOf(s)>> \o envOf[p] # <<>>
      BY <2>3, <3>2
    <3> QED
      BY <2>1, <2>2, <2>5, <3>2, <3>3 DEF Above
  <2> QED
    BY <2>4, <2>5
<1> QED
  BY <1>5 DEF Environments

\* The levels of a scope that exists: its own and, one further, its parent's.
LEMMA AboveLevels ==
  ASSUME NEW level \in Levels, NEW rest \in Seq(Levels)
  PROVE  /\ Above(level, rest) \in Seq(Levels)
         /\ Len(Above(level, rest)) = Len(rest) + 1
         /\ Above(level, rest)[1] = level
         /\ \A k \in 1 .. Len(rest) : Above(level, rest)[k + 1] = rest[k]
         /\ \A k \in 2 .. Len(rest) + 1 : Above(level, rest)[k] = rest[k - 1]
BY DEF Above

SameEnv(t) == EnvOf(t)' = EnvOf(t)

\* A scope that is not disturbed has the level that it had.
LEMMA LevelKept ==
  ASSUME NEW t \in ScopeIds, Undisturbed(t), Lasting(t)
  PROVE  LevelOf(t)' = LevelOf(t)
<1>1. Depth(t)' = Depth(t)
  BY DEF Undisturbed, Depth
<1>2. \A i \in 1 .. Depth(t) : Frame(t, i)' = Frame(t, i)
  BY DEF Undisturbed
<1>3. mutable'[t] = mutable[t]
  BY DEF Lasting
<1> QED
  BY <1>1, <1>2, <1>3 DEF LevelOf

\* The environments of scopes that are not disturbed stay.
LEMMA OthersKept ==
  ASSUME IInv, ParentsEnd, Environments, Environments', NEW u, Disturbs(u),
         NEW t \in ScopeIds, Allocated(t), t # u
  PROVE  SameEnv(t)
<1> DEFINE T == {x \in ScopeIds : Allocated(x) /\ x # u /\ ~SameEnv(x)}
<1>1. ASSUME NEW x \in T, parent[x] \notin T PROVE FALSE
  <2>1. x \in ScopeIds /\ Allocated(x) /\ x # u /\ ~SameEnv(x)
    OBVIOUS
  <2>2. Lasting(x) /\ Undisturbed(x) /\ parent'[x] = parent[x] /\ Allocated(x)'
    BY <2>1 DEF Disturbs, Lasting, Allocated
  <2>3. LevelOf(x)' = LevelOf(x)
    BY <2>1, <2>2, LevelKept
  <2>4. parent[x] # None => parent[x] \in ScopeIds /\ Allocated(parent[x]) /\ parent[x] # u
    BY <2>1 DEF IInv, TypeOK, Disturbs, IsParent
  <2>5. CASE parent[x] = None
    <3>1. EnvOf(x)' = EnvOf(x)
      BY <2>1, <2>2, <2>3, <2>5 DEF Environments
    <3> QED
      BY <2>1, <3>1 DEF SameEnv
  <2>6. CASE parent[x] # None
    <3>1. PICK p \in ScopeIds : p = parent[x] /\ Allocated(p) /\ p # u
      BY <2>4, <2>6
    <3>2. SameEnv(p)
      BY <1>1, <3>1
    <3>3. EnvOf(x)' = EnvOf(x)
      BY <2>1, <2>2, <2>3, <3>1, <3>2, NoneAssumption DEF Environments, SameEnv
    <3> QED
      BY <2>1, <3>3 DEF SameEnv
  <2> QED
    BY <2>5, <2>6
<1>2. T \in SUBSET ScopeIds
  OBVIOUS
<1>3. T = {}
  <2> HIDE DEF T
  <2> QED
    BY <1>1, <1>2 DEF ParentsEnd, Grounded
<1> QED
  BY <1>3

\* What is below the level of a scope that exists.
Rest(s) == IF parent[s] = None THEN <<>> ELSE EnvOf(parent[s])

LEMMA RestBelow ==
  ASSUME IInv, Environments, NEW s \in ScopeIds, Allocated(s)
  PROVE  /\ EnvOf(s) = Above(LevelOf(s), Rest(s))
         /\ LevelOf(s) \in Levels /\ Rest(s) \in Seq(Levels)
<1>1. LevelOf(s) \in Levels
  BY LevelTyped
<1>2. CASE parent[s] = None
  BY <1>1, <1>2 DEF Environments, Rest
<1>3. CASE parent[s] # None
  <2>1. PICK p \in ScopeIds : p = parent[s] /\ Allocated(p)
    BY <1>3 DEF IInv, TypeOK
  <2>2. EnvOf(s) = Above(LevelOf(s), EnvOf(p))
    BY <1>3, <2>1 DEF Environments
  <2>3. EnvOf(p) \in Seq(Levels)
    <3>1. parent[p] \in ScopeIds \cup {None}
      BY <2>1 DEF IInv, TypeOK
    <3> QED
      BY <2>1, <3>1 DEF Environments
  <2> QED
    BY <1>1, <1>3, <2>1, <2>2, <2>3 DEF Rest
<1> QED
  BY <1>2, <1>3

\* The scope that a step disturbs has a new level above what it had below.
LEMMA DisturbedEnv ==
  ASSUME IInv, IInv', ParentsEnd, Environments, Environments',
         NEW u \in ScopeIds, Allocated(u), Disturbs(u)
  PROVE  EnvOf(u)' = Above(LevelOf(u)', Rest(u)) /\ LevelOf(u)' \in Levels
<1>1. Lasting(u) /\ Allocated(u)'
  BY DEF Disturbs, Lasting, Allocated
<1>2. parent'[u] = parent[u] /\ parent[u] \in ScopeIds \cup {None}
  BY <1>1 DEF Lasting, IInv, TypeOK
<1>3. LevelOf(u)' \in Levels
  <2>1. Depth(u)' \in Nat
    BY DEF IInv, TypeOK, Depth
  <2>2. \A i \in 1 .. Depth(u)' : Frame(u, i)' \in [Keys -> Cells]
    <3> SUFFICES ASSUME NEW i \in 1 .. Depth(u)' PROVE Frame(u, i)' \in [Keys -> Cells]
      OBVIOUS
    <3>1. frames'[u] \in Seq(MapIds) /\ maps' \in [MapIds -> [Keys -> Cells]]
      BY DEF IInv, TypeOK
    <3>2. frames'[u][i] \in MapIds
      BY <3>1 DEF Depth
    <3> QED
      BY <3>1, <3>2 DEF Frame
  <2>3. [i \in 1 .. Depth(u)' |-> Frame(u, i)'] \in Seq([Keys -> Cells])
    BY <2>1, <2>2
  <2>4. mutable'[u] \in BOOLEAN
    BY DEF IInv, TypeOK
  <2> QED
    BY <2>3, <2>4 DEF LevelOf, Levels
<1>4. CASE parent[u] = None
  BY <1>1, <1>2, <1>3, <1>4 DEF Environments, Rest
<1>5. CASE parent[u] # None
  <2>1. PICK p \in ScopeIds : p = parent[u] /\ Allocated(p) /\ p # u
    BY <1>5 DEF IInv, TypeOK, Disturbs, IsParent
  <2>2. SameEnv(p)
    BY <2>1, OthersKept
  <2>3. EnvOf(u)' = Above(LevelOf(u)', EnvOf(p)')
    BY <1>1, <1>2, <1>5, <2>1 DEF Environments
  <2> QED
    BY <1>3, <1>5, <2>1, <2>2, <2>3 DEF SameEnv, Rest
<1> QED
  BY <1>2, <1>4, <1>5

\* A sequence that is one longer than another and agrees with it.
LEMMA Longer ==
  ASSUME NEW S, NEW q \in Seq(S), NEW x \in S, NEW d, d \in Nat, Len(q) = d,
         NEW new, new \in Seq(S), Len(new) = d + 1,
         \A i \in 1 .. d : new[i] = q[i], new[d + 1] = x
  PROVE  new = Append(q, x)
<1>1. \A i \in 1 .. d + 1 : new[i] = IF i = d + 1 THEN x ELSE q[i]
  <2> SUFFICES ASSUME NEW i \in 1 .. d + 1 PROVE new[i] = IF i = d + 1 THEN x ELSE q[i]
    OBVIOUS
  <2>1. i = d + 1 \/ i \in 1 .. d
    OBVIOUS
  <2>2. i \in 1 .. d => i # d + 1
    OBVIOUS
  <2> QED
    BY <2>1, <2>2
<1> DEFINE app == Append(q, x)
<1>2. /\ app \in Seq(S) /\ Len(app) = d + 1
      /\ \A i \in 1 .. d : app[i] = q[i]
      /\ app[d + 1] = x
  BY AppendProperties
<1> HIDE DEF app
<1>3. \A i \in 1 .. d + 1 : app[i] = new[i]
  <2> SUFFICES ASSUME NEW i \in 1 .. d + 1 PROVE app[i] = new[i]
    OBVIOUS
  <2>1. i = d + 1 \/ i \in 1 .. d
    OBVIOUS
  <2> QED
    BY <1>2, <2>1
<1>4. app = new
  BY <1>2, <1>3
<1> QED
  BY <1>4 DEF app

\* One that is shorter.
LEMMA Shorter ==
  ASSUME NEW S, NEW q \in Seq(S), NEW d \in Nat, d <= Len(q),
         NEW new, new = [i \in 1 .. d |-> new[i]], \A i \in 1 .. d : new[i] = q[i]
  PROVE  new = SubSeq(q, 1, d)
<1>1. SubSeq(q, 1, d) = [i \in 1 .. d |-> q[i]]
  OBVIOUS
<1> QED
  BY <1>1

\* What the abstract operators are about a scope that exists.
LEMMA OwnLevel ==
  ASSUME IInv, Environments, NEW s \in ScopeIds, Allocated(s)
  PROVE  /\ Env!Live(s)
         /\ Env!Own(s) = LevelOf(s).frames
         /\ LevelOf(s).frames = [i \in 1 .. Depth(s) |-> Frame(s, i)]
         /\ LevelOf(s).frames \in Seq([Keys -> Cells])
         /\ Len(LevelOf(s).frames) = Depth(s)
         /\ LevelOf(s).mutable = mutable[s]
         /\ EnvOf(s)[1] = LevelOf(s)
<1>1. EnvOf(s) = Above(LevelOf(s), Rest(s)) /\ LevelOf(s) \in Levels /\ Rest(s) \in Seq(Levels)
  BY RestBelow
<1>2. EnvOf(s)[1] = LevelOf(s) /\ EnvOf(s) # <<>>
  <2> DEFINE rest == Rest(s)
  <2>0. rest \in Seq(Levels)
    BY <1>1
  <2> HIDE DEF rest
  <2>2. Len(Above(LevelOf(s), rest)) = Len(rest) + 1 /\ Above(LevelOf(s), rest)[1] = LevelOf(s)
    BY <1>1, <2>0, AboveLevels
  <2>1. Len(EnvOf(s)) = Len(rest) + 1 /\ Len(rest) \in Nat /\ EnvOf(s)[1] = LevelOf(s)
    BY <1>1, <2>0, <2>2 DEF rest
  <2> QED
    BY <2>1
<1>3. Env!Live(s) /\ Env!Own(s) = LevelOf(s).frames
  BY <1>2 DEF Env!Live, Env!Own
<1>4. /\ LevelOf(s).frames = [i \in 1 .. Depth(s) |-> Frame(s, i)]
      /\ LevelOf(s).mutable = mutable[s]
  BY DEF LevelOf
<1>5. LevelOf(s).frames \in Seq([Keys -> Cells])
  BY <1>1 DEF Levels
<1>6. Depth(s) \in Nat
  BY FramesAreMaps
<1>7. Len(LevelOf(s).frames) = Depth(s)
  BY <1>4, <1>5, <1>6
<1> QED
  BY <1>2, <1>3, <1>4, <1>5, <1>7

LEMMA NoScopeNoEnv ==
  ASSUME NEW s \in ScopeIds, ~Allocated(s)
  PROVE  EnvOf(s) = <<>> /\ ~Env!Live(s)
BY DEF EnvOf, Env!Live

LEMMA NoEnv ==
  ASSUME NEW s \in ScopeIds
  PROVE  ~Allocated(s) => EnvOf(s) = <<>>
BY DEF EnvOf

LEMMA NoEnvNext ==
  ASSUME NEW s \in ScopeIds
  PROVE  (~Allocated(s) => EnvOf(s) = <<>>)'
BY NoEnv, PTL

\* Replacing the frames of the first level.
LEMMA NewFrames ==
  ASSUME NEW level \in Levels, NEW rest \in Seq(Levels), NEW fs
  PROVE  [Above(level, rest) EXCEPT ![1].frames = fs]
           = Above([frames |-> fs, mutable |-> level.mutable], rest)
<1>1. level = [frames |-> level.frames, mutable |-> level.mutable]
  BY DEF Levels
<1>2. [level EXCEPT !.frames = fs] = [frames |-> fs, mutable |-> level.mutable]
  BY <1>1
<1>3. Above(level, rest)[1] = level /\ DOMAIN Above(level, rest) = 1 .. Len(rest) + 1
  BY DEF Above
<1> DEFINE new == [frames |-> fs, mutable |-> level.mutable]
<1>4. [Above(level, rest) EXCEPT ![1].frames = fs] = [Above(level, rest) EXCEPT ![1] = new]
  BY <1>2, <1>3
<1> HIDE DEF new
<1>5. [Above(level, rest) EXCEPT ![1] = new] = Above(new, rest)
  <2>1. Len(rest) \in Nat
    OBVIOUS
  <2>2. /\ Above(new, rest) = [i \in 1 .. Len(rest) + 1 |-> IF i = 1 THEN new ELSE rest[i - 1]]
        /\ Above(level, rest) = [i \in 1 .. Len(rest) + 1 |-> IF i = 1 THEN level ELSE rest[i - 1]]
    BY <2>1 DEF Above
  <2> QED
    BY <2>2
<1> QED
  BY <1>4, <1>5 DEF new

\* A step that disturbs a scope and creates none sets the frames of its level.
LEMMA SetsOwn ==
  ASSUME IInv, IInv', ParentsEnd, Environments, Environments',
         NEW u \in ScopeIds, Allocated(u), Disturbs(u),
         \A t \in ScopeIds : ~Allocated(t) => ~Allocated(t)',
         NEW fs, LevelOf(u).frames' = fs
  PROVE  Env!SetOwn(u, fs)
<1>1. /\ EnvOf(u)' = Above(LevelOf(u)', Rest(u)) /\ EnvOf(u) = Above(LevelOf(u), Rest(u))
      /\ LevelOf(u) \in Levels /\ Rest(u) \in Seq(Levels) /\ LevelOf(u)' \in Levels
  BY DisturbedEnv, RestBelow
<1>2. LevelOf(u)' = [frames |-> fs, mutable |-> LevelOf(u).mutable]
  <2>1. mutable'[u] = mutable[u]
    BY DEF Disturbs, Lasting
  <2> QED
    BY <2>1 DEF LevelOf
<1>3. EnvOf(u)' = [EnvOf(u) EXCEPT ![1].frames = fs]
  <2> DEFINE rest == Rest(u)
  <2>1. /\ EnvOf(u)' = Above([frames |-> fs, mutable |-> LevelOf(u).mutable], rest)
        /\ EnvOf(u) = Above(LevelOf(u), rest) /\ rest \in Seq(Levels)
    BY <1>1, <1>2
  <2> HIDE DEF rest
  <2>2. [Above(LevelOf(u), rest) EXCEPT ![1].frames = fs] = Above([frames |-> fs, mutable |-> LevelOf(u).mutable], rest)
    BY <1>1, <2>1, NewFrames
  <2> QED
    BY <2>1, <2>2
<1>4. ASSUME NEW t \in ScopeIds, t # u PROVE EnvOf(t)' = EnvOf(t)
  <2>1. CASE Allocated(t)
    BY <1>4, <2>1, OthersKept DEF SameEnv
  <2>2. CASE ~Allocated(t)
    <3>1. ~Allocated(t)'
      BY <2>2
    <3> QED
      BY <2>2, <3>1, NoEnv, NoEnvNext
  <2> QED
    BY <2>1, <2>2
<1>5. [s \in ScopeIds |-> EnvOf(s)]' = [[s \in ScopeIds |-> EnvOf(s)] EXCEPT ![u][1].frames = fs]
  BY <1>3, <1>4
<1> QED
  BY <1>5 DEF Env!SetOwn

LEMMA SameAllocated ==
  ASSUME IInv, NEW u \in ScopeIds, EnterLocal(u) \/ LeaveLocal(u) \/ UNCHANGED frames
  PROVE  \A t \in ScopeIds : ~Allocated(t) => ~Allocated(t)'
<1> SUFFICES ASSUME NEW t \in ScopeIds, ~Allocated(t) PROVE frames'[t] = frames[t]
  BY DEF Allocated
<1>1. EnterLocal(u) \/ LeaveLocal(u) => t # u
  BY DEF EnterLocal, LeaveLocal, Modifiable
<1> QED
  BY <1>1 DEF EnterLocal, LeaveLocal, IInv, TypeOK

\* WithLocalScope pushes an empty frame.
LEMMA EnterLocalPushes ==
  ASSUME IInv, IInv', ParentsEnd, Environments, Environments', NEW u \in ScopeIds, EnterLocal(u)
  PROVE  Env!Push(u)
<1>1. Allocated(u) /\ Disturbs(u)
  BY LocalDisturbs DEF EnterLocal, Modifiable
<1>3. /\ frames'[u] = Append(frames[u], <<u, Depth(u) + 1>>)
      /\ maps' = [maps EXCEPT ![<<u, Depth(u) + 1>>] = EmptyMap]
  BY DEF EnterLocal, IInv, TypeOK
<1>4. /\ frames[u] \in Seq(MapIds) /\ Depth(u) \in Nat /\ <<u, Depth(u) + 1>> \in MapIds
      /\ \A i \in 1 .. Depth(u) : frames[u][i] = <<u, i>> /\ <<u, i>> \in MapIds
  BY <1>1, FramesAreMaps, MaxDepthAssumption DEF IInv, TypeOK, EnterLocal, MapIds
<1>5. Depth(u)' = Depth(u) + 1
  BY <1>3, <1>4 DEF Depth
<1>6. \A i \in 1 .. Depth(u) : Frame(u, i)' = Frame(u, i)
  <2> SUFFICES ASSUME NEW i \in 1 .. Depth(u) PROVE Frame(u, i)' = Frame(u, i)
    OBVIOUS
  <2>1. frames'[u][i] = <<u, i>> /\ frames[u][i] = <<u, i>>
    <3>1. i \in 1 .. Len(frames[u])
      BY DEF Depth
    <3>2. Append(frames[u], <<u, Depth(u) + 1>>)[i] = frames[u][i]
      BY <1>4, <3>1
    <3> QED
      BY <1>3, <1>4, <3>2
  <2>2. maps'[<<u, i>>] = maps[<<u, i>>]
    BY <1>3, <1>4 DEF IInv, TypeOK
  <2> QED
    BY <2>1, <2>2 DEF Frame
<1>7. maps'[frames'[u][Depth(u) + 1]] = EmptyMap
  <2>1. frames'[u][Depth(u) + 1] = <<u, Depth(u) + 1>>
    BY <1>3, <1>4 DEF Depth
  <2>2. maps'[<<u, Depth(u) + 1>>] = EmptyMap
    BY <1>3, <1>4 DEF IInv, TypeOK
  <2> QED
    BY <2>1, <2>2
<1>8. LevelOf(u).frames' = Append(LevelOf(u).frames, EmptyMap)
  <2> DEFINE old == LevelOf(u).frames
             new == LevelOf(u).frames'
  <2>1. new = [i \in 1 .. Depth(u) + 1 |-> Frame(u, i)']
    BY <1>5 DEF LevelOf
  <2>2. old = [i \in 1 .. Depth(u) |-> Frame(u, i)]
    BY DEF LevelOf
  <2>3. old \in Seq([Keys -> Cells]) /\ Len(old) = Depth(u)
    BY <1>1, OwnLevel
  <2>4. new[Depth(u) + 1] = EmptyMap
    <3>1. Depth(u) + 1 \in 1 .. Depth(u) + 1
      BY <1>4
    <3>2. [i \in 1 .. Depth(u) + 1 |-> Frame(u, i)'][Depth(u) + 1] = maps'[frames'[u][Depth(u) + 1]]
      BY <3>1 DEF Frame
    <3> QED
      BY <1>7, <2>1, <3>2
  <2>5. \A i \in 1 .. Depth(u) : new[i] = old[i]
    BY <1>4, <1>6, <2>1, <2>2
  <2>6. new \in Seq([Keys -> Cells]) /\ Len(new) = Depth(u) + 1
    <3>1. LevelOf(u)' \in Levels
      BY <1>1, DisturbedEnv
    <3>2. new \in Seq([Keys -> Cells])
      BY <3>1 DEF Levels
    <3> HIDE DEF new
    <3> QED
      BY <1>4, <2>1, <3>2
  <2>7. EmptyMap \in [Keys -> Cells]
    BY DEF EmptyMap, Cells
  <2> HIDE DEF old, new
  <2>8. new = Append(old, EmptyMap)
    <3> DEFINE d == Depth(u)
    <3>1. d \in Nat /\ Len(old) = d /\ old \in Seq([Keys -> Cells]) /\ EmptyMap \in [Keys -> Cells]
      BY <1>4, <2>3, <2>7
    <3>3. \A i \in 1 .. d : new[i] = old[i]
      BY <2>5
    <3>4. new \in Seq([Keys -> Cells]) /\ Len(new) = d + 1 /\ new[d + 1] = EmptyMap
      BY <2>4, <2>6
    <3> DEFINE S == [Keys -> Cells]
    <3>5. old \in Seq(S) /\ EmptyMap \in S /\ Len(old) = d /\ d \in Nat
      BY <3>1
    <3> HIDE DEF d, S
    <3> QED
      BY <3>3, <3>4, <3>5, Longer
  <2> QED
    BY <2>8 DEF old, new
<1>9. Env!Empty = EmptyMap
  BY DEF Env!Empty, EmptyMap, Keys
<1>10. Env!SetOwn(u, Append(LevelOf(u).frames, EmptyMap))
  BY <1>1, <1>8, SameAllocated, SetsOwn
<1> QED
  BY <1>1, <1>9, <1>10, OwnLevel DEF Env!Push

\* The deferred truncation pops one frame.
LEMMA LeaveLocalPops ==
  ASSUME IInv, IInv', ParentsEnd, Environments, Environments', NEW u \in ScopeIds, LeaveLocal(u)
  PROVE  Env!Pop(u)
<1>1. Allocated(u) /\ Disturbs(u)
  BY LocalDisturbs DEF LeaveLocal, Modifiable
<1>3. Depth(u) \in Nat /\ Depth(u)' \in Nat /\ Depth(u)' = Depth(u) - 1 /\ Depth(u) > 1
  <2> DEFINE e == eps[u][Len(eps[u])]
  <2>1. Len(eps[u]) \in Nat /\ Len(eps[u]) > 0 /\ eps[u] \in Seq(Nat) /\ Depth(u) \in Nat
    BY FramesAreMaps DEF LeaveLocal, IInv, TypeOK
  <2>2. Len(eps[u]) < Depth(u) /\ e = Depth(u) - Len(eps[u]) + Len(eps[u]) - 1
    <3>1. Len(eps[u]) < Depth(u)
      BY <1>1 DEF IInv, PopsItsOwnFrame
    <3>2. \A i \in 1 .. Len(eps[u]) : eps[u][i] = Depth(u) - Len(eps[u]) + i - 1
      BY DEF IInv, PopsItsOwnFrame
    <3>3. Len(eps[u]) \in 1 .. Len(eps[u])
      BY <2>1
    <3> QED
      BY <3>1, <3>2, <3>3
  <2>3. e = Depth(u) - 1 /\ e \in Nat
    <3> HIDE DEF e
    <3> QED
      BY <2>1, <2>2
  <2>4. frames'[u] = SubSeq(frames[u], 1, e)
    BY DEF LeaveLocal, IInv, TypeOK
  <2>5. frames[u] \in Seq(MapIds) /\ Len(frames[u]) = Depth(u)
    BY DEF IInv, TypeOK, Depth
  <2> HIDE DEF e
  <2>6. Depth(u)' = e
    BY <2>1, <2>3, <2>4, <2>5, Prefix DEF Depth
  <2> QED
    BY <2>1, <2>2, <2>3, <2>6
<1>4. \A i \in 1 .. Depth(u) - 1 : Frame(u, i)' = Frame(u, i)
  <2> SUFFICES ASSUME NEW i \in 1 .. Depth(u) - 1 PROVE Frame(u, i)' = Frame(u, i)
    OBVIOUS
  <2>1. i \in 1 .. Depth(u) /\ i <= Depth(u)' /\ i \in 1 .. Depth(u)'
    BY <1>3
  <2>2. Frame(u, i) = maps[<<u, i>>] /\ Frame(u, i)' = maps'[<<u, i>>]
    BY <2>1, FrameKept
  <2>3. maps'[<<u, i>>] = maps[<<u, i>>]
    <3>1. <<u, i>> \in MapIds
      BY <2>1, FramesAreMaps
    <3>2. eps[u][Len(eps[u])] = Depth(u) - 1
      <4>1. Len(eps[u]) \in Nat /\ Len(eps[u]) > 0 /\ eps[u] \in Seq(Nat)
        BY DEF LeaveLocal, IInv, TypeOK
      <4>2. eps[u][Len(eps[u])] = Depth(u) - Len(eps[u]) + Len(eps[u]) - 1
        BY <4>1 DEF IInv, PopsItsOwnFrame
      <4> QED
        BY <1>3, <4>1, <4>2
    <3>3. ~(i > Depth(u) - 1)
      BY <1>3
    <3> QED
      BY <3>1, <3>2, <3>3 DEF LeaveLocal
  <2> QED
    BY <2>2, <2>3
<1>5. LevelOf(u).frames' = SubSeq(LevelOf(u).frames, 1, Depth(u) - 1)
  <2> DEFINE old == LevelOf(u).frames
             new == LevelOf(u).frames'
             d == Depth(u) - 1
  <2>1. new = [i \in 1 .. d |-> Frame(u, i)']
    BY <1>3 DEF LevelOf
  <2>2. old = [i \in 1 .. Depth(u) |-> Frame(u, i)] /\ old \in Seq([Keys -> Cells]) /\ Len(old) = Depth(u)
    BY <1>1, OwnLevel
  <2>3. \A i \in 1 .. d : new[i] = old[i]
    BY <1>3, <1>4, <2>1, <2>2
  <2>4. new = [i \in 1 .. d |-> new[i]]
    BY <2>1
  <2>5. d \in Nat /\ d <= Len(old)
    BY <1>3, <2>2
  <2> HIDE DEF old, new, d
  <2>6. new = SubSeq(old, 1, d)
    BY <2>2, <2>3, <2>4, <2>5, Shorter
  <2> QED
    BY <2>6 DEF old, new, d
<1>6. Env!SetOwn(u, SubSeq(LevelOf(u).frames, 1, Depth(u) - 1))
  BY <1>1, <1>5, SameAllocated, SetsOwn
<1> QED
  BY <1>1, <1>3, <1>6, OwnLevel DEF Env!Pop

\* Among the levels of a sequence from some index on, the first that binds a name
\* binds it in its global frame only (InheritsGlobal of Environment).
OnlyGlobal(level, n) ==
  /\ level.frames[1][n] # Absent
  /\ \A i \in 2 .. Len(level.frames) : level.frames[i][n] = Absent
Lacks(level, n) == \A i \in 1 .. Len(level.frames) : level.frames[i][n] = Absent
ShowsGlobal(e, from, n) ==
  \E k \in from .. Len(e) : OnlyGlobal(e[k], n) /\ \A j \in from .. k - 1 : Lacks(e[j], n)

LEMMA ShowsAbove ==
  ASSUME NEW level \in Levels, NEW rest \in Seq(Levels), NEW n
  PROVE  /\ ShowsGlobal(Above(level, rest), 2, n) <=> ShowsGlobal(rest, 1, n)
         /\ ShowsGlobal(Above(level, rest), 1, n)
              <=> OnlyGlobal(level, n) \/ (Lacks(level, n) /\ ShowsGlobal(rest, 1, n))
<1> DEFINE e == Above(level, rest)
           m == Len(rest)
<1>1. /\ m \in Nat /\ Len(e) = m + 1 /\ e[1] = level
      /\ \A k \in 1 .. m : e[k + 1] = rest[k]
      /\ \A k \in 2 .. m + 1 : e[k] = rest[k - 1]
  <2>1. m \in Nat
    OBVIOUS
  <2>2. Len(e) = m + 1 /\ e[1] = level
    BY AboveLevels
  <2>3. \A k \in 1 .. m : e[k + 1] = rest[k]
    BY AboveLevels
  <2>4. \A k \in 2 .. m + 1 : e[k] = rest[k - 1]
    BY AboveLevels
  <2> QED
    BY <2>1, <2>2, <2>3, <2>4
<1> HIDE DEF e
<1>2. ASSUME ShowsGlobal(rest, 1, n) PROVE ShowsGlobal(e, 2, n)
  <2>1. PICK k \in 1 .. m : OnlyGlobal(rest[k], n) /\ \A j \in 1 .. k - 1 : Lacks(rest[j], n)
    BY <1>2 DEF ShowsGlobal
  <2>2. k + 1 \in 2 .. Len(e) /\ e[k + 1] = rest[k]
    BY <1>1, <2>1
  <2>3. ASSUME NEW j \in 2 .. (k + 1) - 1 PROVE Lacks(e[j], n)
    <3>1. j - 1 \in 1 .. k - 1 /\ j \in 2 .. m + 1
      BY <1>1, <2>1
    <3>2. e[j] = rest[j - 1]
      BY <1>1, <3>1
    <3> QED
      BY <2>1, <3>1, <3>2
  <2> QED
    BY <2>1, <2>2, <2>3 DEF ShowsGlobal
<1>3. ASSUME ShowsGlobal(e, 2, n) PROVE ShowsGlobal(rest, 1, n)
  <2>1. PICK k \in 2 .. m + 1 : OnlyGlobal(e[k], n) /\ \A j \in 2 .. k - 1 : Lacks(e[j], n)
    BY <1>1, <1>3 DEF ShowsGlobal
  <2>2. k - 1 \in 1 .. Len(rest) /\ e[k] = rest[k - 1]
    BY <1>1, <2>1
  <2>3. ASSUME NEW j \in 1 .. (k - 1) - 1 PROVE Lacks(rest[j], n)
    <3>1. j + 1 \in 2 .. k - 1 /\ j \in 1 .. m
      BY <1>1, <2>1
    <3>2. e[j + 1] = rest[j]
      BY <1>1, <3>1
    <3> QED
      BY <2>1, <3>1, <3>2
  <2> QED
    BY <2>1, <2>2, <2>3 DEF ShowsGlobal
<1>4. ASSUME ShowsGlobal(e, 1, n)
      PROVE  OnlyGlobal(level, n) \/ (Lacks(level, n) /\ ShowsGlobal(e, 2, n))
  <2>1. PICK k \in 1 .. m + 1 : OnlyGlobal(e[k], n) /\ \A j \in 1 .. k - 1 : Lacks(e[j], n)
    BY <1>1, <1>4 DEF ShowsGlobal
  <2>2. CASE k = 1
    BY <1>1, <2>1, <2>2
  <2>3. CASE k # 1
    <3>1. k \in 2 .. Len(e) /\ 1 \in 1 .. k - 1 /\ \A j \in 2 .. k - 1 : j \in 1 .. k - 1
      BY <1>1, <2>1, <2>3
    <3> QED
      BY <1>1, <2>1, <3>1 DEF ShowsGlobal
  <2> QED
    BY <2>2, <2>3
<1>5. OnlyGlobal(level, n) => ShowsGlobal(e, 1, n)
  <2>1. 1 \in 1 .. Len(e) /\ 1 .. 1 - 1 = {}
    BY <1>1
  <2> QED
    BY <1>1, <2>1 DEF ShowsGlobal
<1>6. ASSUME Lacks(level, n), ShowsGlobal(e, 2, n) PROVE ShowsGlobal(e, 1, n)
  <2>1. PICK k \in 2 .. Len(e) : OnlyGlobal(e[k], n) /\ \A j \in 2 .. k - 1 : Lacks(e[j], n)
    BY <1>6 DEF ShowsGlobal
  <2>2. k \in 1 .. Len(e) /\ \A j \in 1 .. k - 1 : j = 1 \/ j \in 2 .. k - 1
    BY <1>1, <2>1
  <2> QED
    BY <1>1, <1>6, <2>1, <2>2 DEF ShowsGlobal
<1> QED
  BY <1>2, <1>3, <1>4, <1>5, <1>6 DEF e

\* State of a scope itself, in terms of its level.
LEMMA BasicShows ==
  ASSUME IInv, Environments, NEW t \in ScopeIds, Allocated(t), NEW n \in Names
  PROVE  /\ BasicState(t, LocalRef(n)) = "Global" <=> OnlyGlobal(LevelOf(t), n)
         /\ BasicState(t, LocalRef(n)) = "NotFound" <=> Lacks(LevelOf(t), n)
<1> DEFINE d == Depth(t)
           B == Binding(t, n)
           fs == LevelOf(t).frames
<1>1. d \in Nat /\ d > 0 /\ 1 \in 1 .. d
  BY FramesAreMaps
<1>2. /\ Len(fs) = d /\ \A i \in 1 .. d : fs[i] = Frame(t, i)
  BY OwnLevel
<1>3. /\ B \in SUBSET (1 .. d)
      /\ \A i \in 1 .. d : i \in B <=> Frame(t, i)[n] # Absent
  BY DEF Binding
<1>4. B # {} => Max(B) \in B /\ \A x \in B : Max(B) >= x
  <2> HIDE DEF B, d
  <2> QED
    BY <1>1, <1>3, GreatestNumber
<1>5. BasicState(t, LocalRef(n)) = IF B = {} THEN "NotFound" ELSE IF Max(B) = 1 THEN "Global" ELSE "Local"
  BY DEF BasicState, LocalRef
<1>6. OnlyGlobal(LevelOf(t), n) <=> (1 \in B /\ \A i \in 2 .. d : i \notin B)
  BY <1>1, <1>2, <1>3 DEF OnlyGlobal
<1>7. Lacks(LevelOf(t), n) <=> B = {}
  BY <1>2, <1>3 DEF Lacks
<1> HIDE DEF B, d
<1>8. (1 \in B /\ \A i \in 2 .. d : i \notin B) <=> (B # {} /\ Max(B) = 1)
  <2>1. ASSUME 1 \in B, \A i \in 2 .. d : i \notin B PROVE Max(B) = 1
    <3>1. Max(B) \in B
      BY <1>4, <2>1
    <3>2. \A x \in 1 .. d : x = 1 \/ x \in 2 .. d
      BY <1>1
    <3> QED
      BY <1>3, <2>1, <3>1, <3>2
  <2>2. ASSUME B # {}, Max(B) = 1 PROVE 1 \in B /\ \A i \in 2 .. d : i \notin B
    <3>1. \A x \in B : 1 >= x
      BY <1>4, <2>2
    <3>2. \A i \in 2 .. d : ~(1 >= i)
      BY <1>1
    <3> QED
      BY <1>4, <2>2, <3>1, <3>2
  <2> QED
    BY <2>1, <2>2
<1> QED
  BY <1>5, <1>6, <1>7, <1>8

\* State tells of a global just when the levels show one: a scope in which the
\* two differ would have a parent in which they differ.
StateShows(t, n) == State(t, LocalRef(n)) = "Global" <=> ShowsGlobal(EnvOf(t), 1, n)

LEMMA StatesShow ==
  ASSUME IInv, ParentsEnd, Lookups, Environments, NEW n \in Names, NEW s \in ScopeIds, Allocated(s)
  PROVE  StateShows(s, n)
<1> DEFINE T == {t \in ScopeIds : Allocated(t) /\ ~StateShows(t, n)}
<1>1. ASSUME NEW t \in T, parent[t] \notin T PROVE FALSE
  <2>1. t \in ScopeIds /\ Allocated(t) /\ ~StateShows(t, n)
    OBVIOUS
  <2>2. LocalRef(n) \in Refs
    BY DEF LocalRef, Refs
  <2>3. EnvOf(t) = Above(LevelOf(t), Rest(t)) /\ LevelOf(t) \in Levels /\ Rest(t) \in Seq(Levels)
    BY <2>1, RestBelow
  <2>4. ShowsGlobal(EnvOf(t), 1, n)
          <=> OnlyGlobal(LevelOf(t), n) \/ (Lacks(LevelOf(t), n) /\ ShowsGlobal(Rest(t), 1, n))
    BY <2>3, ShowsAbove
  <2>5. /\ BasicState(t, LocalRef(n)) = "Global" <=> OnlyGlobal(LevelOf(t), n)
        /\ BasicState(t, LocalRef(n)) = "NotFound" <=> Lacks(LevelOf(t), n)
    BY <2>1, BasicShows
  <2>6. CASE parent[t] = None
    <3>1. State(t, LocalRef(n)) = BasicState(t, LocalRef(n))
      BY <2>1, <2>2, <2>6 DEF Lookups
    <3>2. ~ShowsGlobal(Rest(t), 1, n)
      BY <2>6 DEF Rest, ShowsGlobal
    <3> QED
      BY <2>1, <2>4, <2>5, <3>1, <3>2 DEF StateShows
  <2>7. CASE parent[t] # None
    <3>1. PICK p \in ScopeIds : p = parent[t] /\ Allocated(p)
      BY <2>1, <2>7 DEF IInv, TypeOK
    <3>2. StateShows(p, n)
      BY <1>1, <3>1
    <3>3. State(t, LocalRef(n)) = IF BasicState(t, LocalRef(n)) # "NotFound"
                                  THEN BasicState(t, LocalRef(n)) ELSE State(p, LocalRef(n))
      BY <2>1, <2>2, <2>7, <3>1 DEF Lookups
    <3>4. Rest(t) = EnvOf(p)
      BY <2>7, <3>1 DEF Rest
    <3> QED
      BY <2>1, <2>4, <2>5, <3>2, <3>3, <3>4 DEF StateShows
  <2> QED
    BY <2>6, <2>7
<1>2. T \in SUBSET ScopeIds
  OBVIOUS
<1>3. T = {}
  <2> HIDE DEF T
  <2> QED
    BY <1>1, <1>2 DEF ParentsEnd, Grounded
<1> QED
  BY <1>3

LEMMA Inherits ==
  ASSUME IInv, ParentsEnd, Lookups, Environments, NEW n \in Names, NEW s \in ScopeIds, Allocated(s)
  PROVE  Env!InheritsGlobal(s, n) <=> parent[s] # None /\ State(parent[s], LocalRef(n)) = "Global"
<1>1. Env!InheritsGlobal(s, n) <=> ShowsGlobal(EnvOf(s), 2, n)
  BY DEF Env!InheritsGlobal, ShowsGlobal, OnlyGlobal, Lacks
<1>2. EnvOf(s) = Above(LevelOf(s), Rest(s)) /\ LevelOf(s) \in Levels /\ Rest(s) \in Seq(Levels)
  BY RestBelow
<1>3. ShowsGlobal(EnvOf(s), 2, n) <=> ShowsGlobal(Rest(s), 1, n)
  BY <1>2, ShowsAbove
<1>4. CASE parent[s] = None
  BY <1>1, <1>3, <1>4 DEF Rest, ShowsGlobal
<1>5. CASE parent[s] # None
  <2>1. PICK p \in ScopeIds : p = parent[s] /\ Allocated(p)
    BY <1>5 DEF IInv, TypeOK
  <2>2. StateShows(p, n)
    BY <2>1, StatesShow
  <2> QED
    BY <1>1, <1>3, <1>5, <2>1, <2>2 DEF Rest, StateShows
<1> QED
  BY <1>4, <1>5

\* A step that writes one entry of one frame of a scope.
Writes(u, i, k, v) == maps' = [maps EXCEPT ![frames[u][i]][k] = v] /\ frames' = frames
LevelWritten(u, i, k, v) == LevelOf(u).frames' = [LevelOf(u).frames EXCEPT ![i][k] = v]

\* Writing one entry of a frame writes it in the level.
LEMMA WriteLevel ==
  ASSUME IInv, NEW u \in ScopeIds, Allocated(u), NEW i \in 1 .. Depth(u), NEW k \in Keys, NEW v, Writes(u, i, k, v)
  PROVE  LevelWritten(u, i, k, v)
<1> DEFINE d == Depth(u)
<1>1. /\ \A j \in 1 .. d : frames[u][j] = <<u, j>> /\ <<u, j>> \in MapIds
      /\ maps \in [MapIds -> [Keys -> Cells]]
  BY FramesAreMaps DEF IInv, TypeOK
<1>2. LevelOf(u).frames = [j \in 1 .. d |-> maps[<<u, j>>]]
  BY <1>1 DEF LevelOf, Frame
<1>3. LevelOf(u).frames' = [j \in 1 .. d |-> maps'[<<u, j>>]]
  BY <1>1 DEF LevelOf, Frame, Depth, Writes
<1>4. \A j \in 1 .. d : maps'[<<u, j>>] = IF j = i THEN [maps[<<u, j>>] EXCEPT ![k] = v] ELSE maps[<<u, j>>]
  <2> SUFFICES ASSUME NEW j \in 1 .. d
               PROVE  maps'[<<u, j>>] = IF j = i THEN [maps[<<u, j>>] EXCEPT ![k] = v] ELSE maps[<<u, j>>]
    OBVIOUS
  <2>1. maps' = [maps EXCEPT ![<<u, i>>] = [maps[<<u, i>>] EXCEPT ![k] = v]]
    BY <1>1 DEF Writes
  <2>2. j # i => <<u, j>> # <<u, i>>
    OBVIOUS
  <2> QED
    BY <1>1, <2>1, <2>2
<1>5. LevelOf(u).frames' = [j \in 1 .. d |-> IF j = i THEN [maps[<<u, j>>] EXCEPT ![k] = v] ELSE maps[<<u, j>>]]
  BY <1>3, <1>4
<1>6. i \in 1 .. d
  OBVIOUS
<1> HIDE DEF d
<1>7. [[j \in 1 .. d |-> maps[<<u, j>>]] EXCEPT ![i][k] = v]
        = [j \in 1 .. d |-> IF j = i THEN [maps[<<u, j>>] EXCEPT ![k] = v] ELSE maps[<<u, j>>]]
  BY <1>6
<1> QED
  BY <1>2, <1>5, <1>7 DEF LevelWritten

\* RxSet writes the captures of the top frame.
LEMMA RxSetCaptures ==
  ASSUME IInv, IInv', ParentsEnd, Environments, Environments',
         NEW u \in ScopeIds, NEW groups \in Matches, RxSet(u, groups)
  PROVE  Env!Capture(u)
<1>1. Allocated(u) /\ Disturbs(u) /\ UNCHANGED frames
  BY RxSetDisturbs DEF RxSet, Modifiable
<1>3. Depth(u) \in 1 .. Depth(u)
  BY <1>1, FramesAreMaps
<1>4. LevelOf(u).frames' = [LevelOf(u).frames EXCEPT ![Depth(u)][GroupKey] = groups]
  <2>1. GroupKey \in Keys
    BY DEF Keys
  <2> QED
    <3>1. Writes(u, Depth(u), GroupKey, groups)
      BY <1>1 DEF RxSet, Writes
    <3>2. LevelWritten(u, Depth(u), GroupKey, groups)
      BY <1>1, <1>3, <2>1, <3>1, WriteLevel
    <3> QED
      BY <3>2 DEF LevelWritten
<1>5. Env!Live(u) /\ Env!Own(u) = LevelOf(u).frames /\ Len(LevelOf(u).frames) = Depth(u)
  BY <1>1, OwnLevel
<1>6. \A t \in ScopeIds : ~Allocated(t) => ~Allocated(t)'
  BY <1>1, SameAllocated
<1>7. Env!SetOwn(u, [LevelOf(u).frames EXCEPT ![Depth(u)][GroupKey] = groups])
  BY <1>1, <1>4, <1>6, SetsOwn
<1> QED
  BY <1>5, <1>7 DEF Env!Capture

\* Nothing is seen of a step that changes nothing.
LEMMA NothingSeen ==
  ASSUME IInv, ParentsEnd, Environments, Environments', UNCHANGED vars
  PROVE  UNCHANGED [s \in ScopeIds |-> EnvOf(s)]
<1>1. Disturbs(None)
  <2> SUFFICES ASSUME NEW t \in ScopeIds, Allocated(t) PROVE Lasting(t) /\ Undisturbed(t)
    BY NoneAssumption DEF Disturbs
  <2>1. \A i \in 1 .. Depth(t) : maps'[<<t, i>>] = maps[<<t, i>>]
    BY DEF vars
  <2> QED
    BY <2>1, SameMaps DEF vars, Lasting, Allocated
<1>2. ASSUME NEW s \in ScopeIds PROVE EnvOf(s)' = EnvOf(s)
  <2>1. CASE Allocated(s)
    BY <1>1, <2>1, NoneAssumption, OthersKept DEF SameEnv
  <2>2. CASE ~Allocated(s)
    <3>1. ~Allocated(s)'
      BY <2>2 DEF vars, Allocated
    <3> QED
      BY <2>2, <3>1, NoEnv, NoEnvNext
  <2> QED
    BY <2>1, <2>2
<1> QED
  BY <1>2

\* Set assigns where it returns true, and otherwise changes nothing.
LEMMA SetAssigns ==
  ASSUME IInv, IInv', ParentsEnd, Lookups, Environments, Environments',
         NEW u \in ScopeIds, NEW r \in Refs, NEW v \in Values, Set(u, r, v)
  PROVE  Env!Assign(u) \/ UNCHANGED [s \in ScopeIds |-> EnvOf(s)]
<1> DEFINE n == r.name
           i == SetIdx(u, r)
<1>1. Allocated(u) /\ Disturbs(u) /\ UNCHANGED frames
  BY SetDisturbs DEF Set, Modifiable
<1>2. CASE ~MaySet(u, r)
  <2>1. UNCHANGED vars
    BY <1>2 DEF Set, vars
  <2> QED
    BY <2>1, NothingSeen
<1>3. CASE MaySet(u, r)
  <2>1. n \in Names /\ n \in Keys
    BY DEF Refs, Keys
  <2>2. i \in 1 .. Depth(u) /\ i \in {1, Depth(u)} /\ Depth(u) \in Nat
    BY <1>1, FramesAreMaps DEF SetIdx
  <2>3. Writes(u, i, n, v)
    BY <1>1, <1>3 DEF Set, Writes
  <2>4. LevelOf(u).frames' = [LevelOf(u).frames EXCEPT ![i][n] = v]
    <3>1. LevelWritten(u, i, n, v)
      BY <1>1, <2>1, <2>2, <2>3, WriteLevel
    <3> QED
      BY <3>1 DEF LevelWritten
  <2>5. Env!SetOwn(u, [LevelOf(u).frames EXCEPT ![i][n] = v])
    <3>1. \A t \in ScopeIds : ~Allocated(t) => ~Allocated(t)'
      BY <1>1, SameAllocated
    <3> QED
      BY <1>1, <2>4, <3>1, SetsOwn
  <2>6. /\ Env!Live(u) /\ Env!Own(u) = LevelOf(u).frames /\ Len(LevelOf(u).frames) = Depth(u)
        /\ EnvOf(u)[1].mutable = mutable[u]
        /\ LevelOf(u).frames[i] = Frame(u, i)
    BY <1>1, <2>2, OwnLevel
  <2>7. OverridesGlobal(u, r) <=> i = 1 /\ Env!InheritsGlobal(u, n)
    <3>1. Env!InheritsGlobal(u, n) <=> parent[u] # None /\ State(parent[u], LocalRef(n)) = "Global"
      BY <1>1, <2>1, Inherits
    <3> QED
      BY <3>1 DEF OverridesGlobal, LocalRef
  <2>8. \/ i = 1 /\ Env!InheritsGlobal(u, n) /\ n = Pnr
        \/ /\ ~(i = 1 /\ Env!InheritsGlobal(u, n))
           /\ \/ LevelOf(u).frames[i][n] = Absent
              \/ i > 1 /\ EnvOf(u)[1].mutable
    BY <1>3, <2>6, <2>7 DEF MaySet
  <2> HIDE DEF n, i
  <2>9. i \in {1, Len(Env!Own(u))} /\ Env!SetOwn(u, [Env!Own(u) EXCEPT ![i][n] = v])
    BY <2>2, <2>5, <2>6
  <2> QED
    BY <2>1, <2>6, <2>8, <2>9 DEF Env!Assign
<1> QED
  BY <1>2, <1>3

\* A new scope has one frame, above what its parent shows.
LEMMA CreateMakes ==
  ASSUME IInv, IInv', ParentsEnd, Environments, Environments',
         NEW s \in ScopeIds, NEW contents \in [Keys -> Cells], NEW isMutable \in BOOLEAN,
         NEW p \in ScopeIds \cup {None}, p # None => Allocated(p) /\ contents = EmptyMap,
         Create(s, contents, isMutable, p)
  PROVE  Env!Create(s)
<1> DEFINE rest == IF p = None THEN <<>> ELSE EnvOf(p)
           new == [frames |-> <<contents>>, mutable |-> isMutable]
<1>1. ~Allocated(s) /\ Disturbs(s) /\ p # s
  BY CreateDisturbs, NoneAssumption DEF Create
<1>2. /\ frames'[s] = <<<<s, 1>>>> /\ mutable'[s] = isMutable /\ parent'[s] = p
      /\ maps'[<<s, 1>>] = contents
  BY MaxDepthAssumption DEF Create, IInv, TypeOK, MapIds
<1>3. LevelOf(s)' = new
  <2>1. Depth(s)' = 1 /\ frames'[s][1] = <<s, 1>>
    BY <1>2 DEF Depth
  <2>2. [i \in 1 .. 1 |-> maps'[frames'[s][i]]] = <<contents>>
    BY <1>2, <2>1
  <2> QED
    BY <1>2, <2>1, <2>2 DEF LevelOf, Frame
<1>4. p # None => EnvOf(p)' = EnvOf(p)
  BY <1>1, OthersKept DEF SameEnv
<1>5. EnvOf(s)' = Above(new, rest)
  <2>1. Allocated(s)'
    BY <1>2 DEF Allocated
  <2>2. EnvOf(s)' = Above(LevelOf(s)', IF p = None THEN <<>> ELSE EnvOf(p)')
    BY <1>2, <2>1 DEF Environments
  <2> QED
    BY <1>3, <1>4, <2>2
<1>6. ASSUME NEW t \in ScopeIds, t # s PROVE EnvOf(t)' = EnvOf(t)
  <2>1. CASE Allocated(t)
    BY <1>1, <1>6, <2>1, OthersKept DEF SameEnv
  <2>2. CASE ~Allocated(t)
    <3>1. ~Allocated(t)'
      BY <1>6, <2>2 DEF Create, Allocated, IInv, TypeOK
    <3> QED
      BY <2>2, <3>1, NoEnv, NoEnvNext
  <2> QED
    BY <2>1, <2>2
<1>7. EnvOf(s) = <<>> /\ ~Env!Live(s)
  BY <1>1, NoScopeNoEnv
<1>8. rest \in {[t \in ScopeIds |-> EnvOf(t)][q] : q \in ScopeIds}
  <2>1. CASE p = None
    BY <1>7, <2>1
  <2>2. CASE p # None
    BY <2>2
  <2> QED
    BY <2>1, <2>2
<1>9. contents \in Env!Dict /\ (rest # <<>> => contents = Env!Empty)
  BY DEF Env!Dict, Env!Empty, EmptyMap, Keys, Cells
<1> HIDE DEF rest
<1>10. [t \in ScopeIds |-> EnvOf(t)]' = [[t \in ScopeIds |-> EnvOf(t)] EXCEPT ![s] = <<new>> \o rest]
  BY <1>5, <1>6 DEF Above
<1> QED
  BY <1>7, <1>8, <1>9, <1>10 DEF Env!Create

-----------------------------------------------------------------------------
(* A fork and the environments that it copies. *)

\* The ancestry of a scope is it and the ancestry of its parent.
LEMMA AncestryOfParent ==
  ASSUME IInv, NEW s \in ScopeIds
  PROVE  /\ parent[s] = None => Ancestry(s) = {s}
         /\ parent[s] # None => Ancestry(s) = {s} \cup Ancestry(parent[s])
<1>0. TypeOK
  BY DEF IInv
<1>1. Ancestry(s) \subseteq ScopeIds /\ s \in Ancestry(s)
  BY <1>0, AncestryClosed
<1>2. ASSUME NEW A \in SUBSET ScopeIds, s \in A, \A u \in A : parent[u] # None => parent[u] \in A
      PROVE  Ancestry(s) \subseteq A
  BY <1>2 DEF Ancestry
<1>3. CASE parent[s] = None
  BY <1>1, <1>2, <1>3
<1>4. CASE parent[s] # None
  <2>1. PICK p \in ScopeIds : p = parent[s]
    BY <1>4, <1>0 DEF TypeOK
  <2>2. /\ Ancestry(p) \subseteq ScopeIds /\ p \in Ancestry(p)
        /\ \A t \in Ancestry(p) : parent[t] # None => parent[t] \in Ancestry(p)
    BY <1>0, AncestryClosed
  <2>3. Ancestry(s) \subseteq {s} \cup Ancestry(p)
    <3> DEFINE A == {s} \cup Ancestry(p)
    <3>1. A \in SUBSET ScopeIds /\ s \in A /\ \A u \in A : parent[u] # None => parent[u] \in A
      BY <2>1, <2>2
    <3> HIDE DEF A
    <3>2. Ancestry(s) \subseteq A
      BY <1>2, <3>1
    <3> QED
      BY <3>2 DEF A
  <2>4. ASSUME NEW t \in Ancestry(p) PROVE t \in Ancestry(s)
    <3>1. ASSUME NEW A \in SUBSET ScopeIds, s \in A, \A u \in A : parent[u] # None => parent[u] \in A
          PROVE  t \in A
      <4>1. p \in A
        BY <1>4, <2>1, <3>1
      <4> QED
        BY <2>4, <3>1, <4>1 DEF Ancestry
    <3> QED
      BY <2>2, <3>1 DEF Ancestry
  <2> QED
    BY <1>1, <1>4, <2>1, <2>3, <2>4
<1> QED
  BY <1>3, <1>4

\* Each ancestor of a scope is found in its environment, at its own place.
Rank(t) == Len(EnvOf(t))
Ranked(s) ==
  /\ Rank(s) \in Nat /\ Rank(s) > 0
  /\ \A t \in Ancestry(s) : Rank(t) \in 1 .. Rank(s)
  /\ \A t \in Ancestry(s) : \A i \in 1 .. Rank(t) :
       EnvOf(t)[i] = EnvOf(s)[Rank(s) - Rank(t) + i]
  /\ \A k \in 1 .. Rank(s) : \E t \in Ancestry(s) : Rank(t) = k
  /\ \A t1, t2 \in Ancestry(s) : Rank(t1) = Rank(t2) => t1 = t2

LEMMA RankedAbove ==
  ASSUME IInv, Environments, NEW s \in ScopeIds, Allocated(s), NEW p \in ScopeIds,
         parent[s] = p, Ranked(p)
  PROVE  Ranked(s)
<1> DEFINE A == Ancestry(p)
           m == Rank(p)
<1>1. Ancestry(s) = {s} \cup A
  BY NoneAssumption, AncestryOfParent
<1>2. /\ m \in Nat /\ m > 0
      /\ \A t \in A : Rank(t) \in 1 .. m
      /\ \A t \in A : \A i \in 1 .. Rank(t) : EnvOf(t)[i] = EnvOf(p)[m - Rank(t) + i]
      /\ \A k \in 1 .. m : \E t \in A : Rank(t) = k
      /\ \A t1, t2 \in A : Rank(t1) = Rank(t2) => t1 = t2
  BY DEF Ranked
<1>3. /\ Rank(s) = m + 1
      /\ \A k \in 1 .. m : EnvOf(s)[k + 1] = EnvOf(p)[k]
  <2>1. EnvOf(s) = Above(LevelOf(s), EnvOf(p)) /\ LevelOf(s) \in Levels /\ EnvOf(p) \in Seq(Levels)
    BY NoneAssumption, RestBelow DEF Rest
  <2> DEFINE rest == EnvOf(p)
  <2>2. rest \in Seq(Levels) /\ EnvOf(s) = Above(LevelOf(s), rest)
    BY <2>1
  <2> HIDE DEF rest
  <2>3. /\ Len(Above(LevelOf(s), rest)) = Len(rest) + 1
        /\ \A k \in 1 .. Len(rest) : Above(LevelOf(s), rest)[k + 1] = rest[k]
    BY <2>1, <2>2, AboveLevels
  <2>4. m = Len(rest) /\ Rank(s) = Len(Above(LevelOf(s), rest))
    BY <2>2 DEF Rank, rest
  <2>5. EnvOf(p) = rest
    BY DEF rest
  <2> HIDE DEF m
  <2> QED
    BY <2>2, <2>3, <2>4, <2>5
<1> HIDE DEF A, m
<1>4. \A t \in Ancestry(s) : Rank(t) \in 1 .. Rank(s)
  <2>1. Rank(s) \in 1 .. Rank(s) /\ \A k \in 1 .. m : k \in 1 .. Rank(s)
    BY <1>2, <1>3
  <2> QED
    BY <1>1, <1>2, <2>1
<1>5. ASSUME NEW t \in Ancestry(s), NEW i \in 1 .. Rank(t)
      PROVE  EnvOf(t)[i] = EnvOf(s)[Rank(s) - Rank(t) + i]
  <2>1. CASE t = s
    <3>1. Rank(s) - Rank(s) + i = i
      BY <1>2, <1>3, <2>1
    <3> QED
      BY <2>1, <3>1
  <2>2. CASE t \in A
    <3>1. EnvOf(t)[i] = EnvOf(p)[m - Rank(t) + i]
      BY <1>2, <2>2
    <3>2. Rank(t) \in 1 .. m
      BY <1>2, <2>2
    <3>3. m - Rank(t) + i \in 1 .. m /\ (m - Rank(t) + i) + 1 = Rank(s) - Rank(t) + i
      <4> DEFINE r == Rank(t)
      <4>1. r \in Nat /\ r <= m /\ i \in Nat /\ 1 <= i /\ i <= r /\ m \in Nat
        BY <1>2, <3>2
      <4> HIDE DEF r
      <4>2. m - r + i \in 1 .. m /\ (m - r + i) + 1 = (m + 1) - r + i
        BY <4>1
      <4> QED
        BY <1>3, <4>2 DEF r
    <3> QED
      BY <1>3, <3>1, <3>3
  <2> QED
    BY <1>1, <2>1, <2>2
<1>6. ASSUME NEW k \in 1 .. Rank(s) PROVE \E t \in Ancestry(s) : Rank(t) = k
  <2>1. k = m + 1 \/ k \in 1 .. m
    BY <1>2, <1>3
  <2> QED
    BY <1>1, <1>2, <1>3, <2>1
<1>7. ASSUME NEW t1 \in Ancestry(s), NEW t2 \in Ancestry(s), Rank(t1) = Rank(t2) PROVE t1 = t2
  <2>1. \A t \in A : Rank(t) # Rank(s)
    BY <1>2, <1>3
  <2> QED
    BY <1>1, <1>2, <1>7, <2>1
<1>8. Rank(s) \in Nat /\ Rank(s) > 0
  BY <1>2, <1>3
<1> QED
  BY <1>4, <1>5, <1>6, <1>7, <1>8 DEF Ranked

LEMMA RankedAlone ==
  ASSUME IInv, Environments, NEW s \in ScopeIds, Allocated(s), parent[s] = None
  PROVE  Ranked(s)
<1>1. Ancestry(s) = {s}
  BY AncestryOfParent
<1>2. Rank(s) = 1
  <2>1. EnvOf(s) = Above(LevelOf(s), <<>>) /\ LevelOf(s) \in Levels
    BY RestBelow DEF Rest
  <2> QED
    BY <2>1 DEF Rank, Above
<1>3. \A i \in 1 .. 1 : 1 - 1 + i = i
  OBVIOUS
<1> QED
  BY <1>1, <1>2, <1>3 DEF Ranked

LEMMA AllRanked ==
  ASSUME IInv, ParentsEnd, Environments, NEW s \in ScopeIds, Allocated(s)
  PROVE  Ranked(s)
<1> DEFINE T == {t \in ScopeIds : Allocated(t) /\ ~Ranked(t)}
<1>1. ASSUME NEW t \in T, parent[t] \notin T PROVE FALSE
  <2>1. t \in ScopeIds /\ Allocated(t) /\ ~Ranked(t)
    OBVIOUS
  <2>2. CASE parent[t] = None
    BY <2>1, <2>2, RankedAlone
  <2>3. CASE parent[t] # None
    <3>1. PICK p \in ScopeIds : p = parent[t] /\ Allocated(p)
      BY <2>1, <2>3 DEF IInv, TypeOK
    <3>2. Ranked(p)
      BY <1>1, <3>1
    <3> QED
      BY <2>1, <3>1, <3>2, RankedAbove
  <2> QED
    BY <2>2, <2>3
<1>2. T \in SUBSET ScopeIds
  OBVIOUS
<1>3. T = {}
  <2> HIDE DEF T
  <2> QED
    BY <1>1, <1>2 DEF ParentsEnd, Grounded
<1> QED
  BY <1>3

\* The environment of an ancestor is what is left from its place on.
LEMMA AncestorEnv ==
  ASSUME IInv, ParentsEnd, Environments, NEW s \in ScopeIds, Allocated(s), NEW t \in Ancestry(s)
  PROVE  /\ EnvOf(t) = SubSeq(EnvOf(s), Rank(s) - Rank(t) + 1, Rank(s))
         /\ Rank(t) \in 1 .. Rank(s) /\ Rank(s) \in Nat
<1> DEFINE a == Rank(s) - Rank(t) + 1
           e == EnvOf(s)
           f == EnvOf(t)
<1>1. /\ Rank(s) \in Nat /\ Rank(t) \in 1 .. Rank(s)
      /\ \A i \in 1 .. Rank(t) : f[i] = e[Rank(s) - Rank(t) + i]
  BY AllRanked DEF Ranked
<1>2. e \in Seq(Levels) /\ f \in Seq(Levels)
  <2>1. ASSUME NEW x \in ScopeIds, Allocated(x) PROVE EnvOf(x) \in Seq(Levels)
    <3>1. parent[x] \in ScopeIds \cup {None}
      BY DEF IInv, TypeOK
    <3> QED
      BY <2>1, <3>1 DEF Environments
  <2>2. t \in ScopeIds /\ Allocated(t)
    <3>1. t \in ScopeIds
      BY AncestryClosed DEF IInv
    <3>2. Rank(t) > 0
      BY <1>1
    <3>3. EnvOf(t) # <<>>
      BY <3>2 DEF Rank
    <3> QED
      BY <3>1, <3>3, NoEnv
  <2> QED
    BY <2>1, <2>2
<1>3. Len(e) = Rank(s) /\ Len(f) = Rank(t)
  BY DEF Rank
<1> HIDE DEF e, f
<1>4. a \in 1 .. Rank(s) /\ Rank(s) - a + 1 = Rank(t)
  BY <1>1
<1> DEFINE g == SubSeq(e, a, Rank(s))
<1>5. /\ g \in Seq(Levels) /\ Len(g) = Rank(t)
      /\ \A i \in 1 .. Rank(t) : g[i] = e[Rank(s) - Rank(t) + i]
  <2>1. g = [i \in 1 .. Rank(t) |-> e[i + a - 1]]
    BY <1>1, <1>2, <1>3, <1>4
  <2>2. \A i \in 1 .. Rank(t) : i + a - 1 = Rank(s) - Rank(t) + i /\ i + a - 1 \in 1 .. Rank(s)
    BY <1>1
  <2>3. \A i \in 1 .. Rank(t) : e[i + a - 1] \in Levels
    BY <1>2, <1>3, <2>2
  <2> HIDE DEF g, a
  <2> QED
    BY <1>1, <2>1, <2>2, <2>3
<1> HIDE DEF g
<1>6. f = g
  BY <1>1, <1>2, <1>3, <1>5
<1> QED
  BY <1>1, <1>6 DEF e, f, g

\* Each scope of the ancestry has a clone with the environment that it has.
LEMMA ClonesEnv ==
  ASSUME IInv, IInv', ParentsEnd, Environments, Environments', NEW s \in ScopeIds, Allocated(s),
         NEW copy \in [Ancestry(s) -> Free], IsInjective(copy), ForkAs(s, copy),
         NEW t \in Ancestry(s)
  PROVE  EnvOf(copy[t])' = EnvOf(t)
<1> DEFINE T == {x \in Ancestry(s) : EnvOf(copy[x])' # EnvOf(x)}
<1>0. /\ Ancestry(s) \subseteq ScopeIds
      /\ \A x \in Ancestry(s) : parent[x] # None => parent[x] \in Ancestry(s)
  BY AncestryClosed DEF IInv
<1>1. ASSUME NEW x \in T, parent[x] \notin T PROVE FALSE
  <2> DEFINE c == copy[x]
  <2>1. x \in Ancestry(s) /\ x \in ScopeIds /\ EnvOf(c)' # EnvOf(x) /\ Allocated(x)
    BY <1>0, AncestryAllocated
  <2>2. /\ c \in ScopeIds /\ CloneOf(x, c)
        /\ parent'[c] = IF parent[x] = None THEN None ELSE copy[parent[x]]
    BY <2>1, ForkEffect
  <2> HIDE DEF c
  <2>3. LevelOf(c)' = LevelOf(x)
    BY <2>2 DEF CloneOf, LevelOf
  <2>4. Allocated(c)'
    <3>1. Depth(c)' = Depth(x) /\ Depth(x) > 0
      BY <2>1, <2>2, FramesAreMaps DEF CloneOf
    <3> QED
      BY <3>1 DEF Depth, Allocated
  <2>5. CASE parent[x] = None
    <3>1. EnvOf(c)' = Above(LevelOf(c)', <<>>)
      BY <2>2, <2>4, <2>5 DEF Environments
    <3>2. EnvOf(x) = Above(LevelOf(x), <<>>)
      BY <2>1, <2>5 DEF Environments
    <3> QED
      BY <2>1, <2>3, <3>1, <3>2
  <2>6. CASE parent[x] # None
    <3>1. PICK p \in Ancestry(s) : p = parent[x]
      BY <1>0, <2>1, <2>6
    <3>2. EnvOf(copy[p])' = EnvOf(p)
      BY <1>1, <3>1
    <3>3. p \in ScopeIds /\ p # None
      BY <1>0, <3>1, <2>6
    <3>4. PICK q \in ScopeIds : q = copy[p] /\ parent'[c] = q /\ q # None
      BY <2>2, <3>1, <3>3, NoneAssumption DEF Free
    <3>5. EnvOf(c)' = Above(LevelOf(c)', EnvOf(q)')
      BY <2>2, <2>4, <3>4 DEF Environments
    <3>6. EnvOf(x) = Above(LevelOf(x), EnvOf(p))
      BY <2>1, <3>1, <3>3 DEF Environments
    <3>7. EnvOf(q)' = EnvOf(p)
      BY <3>2, <3>4
    <3> QED
      BY <2>1, <2>3, <3>5, <3>6, <3>7
  <2> QED
    BY <2>5, <2>6
<1>2. T \in SUBSET ScopeIds
  BY <1>0
<1>3. T = {}
  <2> HIDE DEF T
  <2> QED
    BY <1>1, <1>2 DEF ParentsEnd, Grounded
<1> QED
  BY <1>3

\* Fork copies the environment of the scope and of its ancestors to new scopes.
LEMMA ForkCopies ==
  ASSUME IInv, IInv', ParentsEnd, Environments, Environments', NEW s \in ScopeIds, Fork(s)
  PROVE  Env!Fork(s)
<1>1. PICK copy \in [Ancestry(s) -> Free] : IsInjective(copy) /\ ForkAs(s, copy)
  BY DEF Fork
<1>2. Allocated(s)
  BY DEF Fork
<1> DEFINE n == Rank(s)
           at(k) == CHOOSE t \in Ancestry(s) : Rank(t) = n - k + 1
           clone == [k \in 1 .. n |-> copy[at(k)]]
<1>3. /\ n \in Nat
      /\ \A t \in Ancestry(s) : Rank(t) \in 1 .. n
      /\ \A k \in 1 .. n : \E t \in Ancestry(s) : Rank(t) = k
      /\ \A t1, t2 \in Ancestry(s) : Rank(t1) = Rank(t2) => t1 = t2
  BY <1>2, AllRanked DEF Ranked
<1> HIDE DEF n
<1>4. ASSUME NEW k \in 1 .. n PROVE at(k) \in Ancestry(s) /\ Rank(at(k)) = n - k + 1
  <2>1. n - k + 1 \in 1 .. n
    BY <1>3
  <2>2. \E t \in Ancestry(s) : Rank(t) = n - k + 1
    BY <1>3, <2>1
  <2> QED
    BY <2>2
<1>5. ASSUME NEW t \in Ancestry(s)
      PROVE  n - Rank(t) + 1 \in 1 .. n /\ at(n - Rank(t) + 1) = t
  <2> DEFINE k == n - Rank(t) + 1
  <2>1. k \in 1 .. n /\ n - k + 1 = Rank(t)
    BY <1>3
  <2> HIDE DEF k
  <2>2. at(k) \in Ancestry(s) /\ Rank(at(k)) = Rank(t)
    BY <1>4, <2>1
  <2>3. at(k) = t
    <3> HIDE DEF at
    <3> QED
      BY <1>3, <2>2
  <2> QED
    BY <2>1, <2>3 DEF k
<1> HIDE DEF at
<1>6. \A t \in Ancestry(s) : copy[t] \in ScopeIds /\ ~Allocated(copy[t])
  BY <1>1 DEF Free
<1>7. clone \in [1 .. Len(EnvOf(s)) -> {c \in ScopeIds : ~Env!Live(c)}]
  <2>1. \A k \in 1 .. n : clone[k] \in {c \in ScopeIds : ~Env!Live(c)}
    BY <1>4, <1>6, NoScopeNoEnv
  <2> QED
    BY <2>1 DEF n, Rank
<1>8. IsInjective(clone)
  <2> SUFFICES ASSUME NEW k1 \in 1 .. n, NEW k2 \in 1 .. n, clone[k1] = clone[k2] PROVE k1 = k2
    BY DEF IsInjective
  <2>1. copy[at(k1)] = copy[at(k2)] /\ at(k1) \in Ancestry(s) /\ at(k2) \in Ancestry(s)
    BY <1>4
  <2>2. at(k1) = at(k2)
    BY <1>1, <2>1 DEF IsInjective
  <2>3. n - k1 + 1 = n - k2 + 1
    BY <1>4, <2>2
  <2> QED
    BY <1>3, <2>3
<1> DEFINE first(c) == CHOOSE k \in DOMAIN clone : clone[k] = c
           image == [c \in ScopeIds |-> IF \E k \in DOMAIN clone : clone[k] = c
                                        THEN SubSeq(EnvOf(s), first(c), Len(EnvOf(s)))
                                        ELSE EnvOf(c)]
<1>9. ASSUME NEW t \in Ancestry(s)
      PROVE  EnvOf(copy[t])' = image[copy[t]]
  <2> DEFINE c == copy[t]
             k == n - Rank(t) + 1
  <2>1. k \in DOMAIN clone /\ clone[k] = c /\ c \in ScopeIds
    BY <1>5, <1>6
  <2>2. first(c) = k
    <3> HIDE DEF clone, k, c
    <3> QED
      BY <1>8, <2>1 DEF IsInjective
  <2>3. image[c] = SubSeq(EnvOf(s), k, n)
    <3>1. \E j \in DOMAIN clone : clone[j] = c
      BY <2>1
    <3> HIDE DEF clone, k, c, first
    <3> QED
      BY <2>1, <2>2, <3>1 DEF n, Rank
  <2>4. EnvOf(t) = SubSeq(EnvOf(s), k, n)
    BY <1>2, AncestorEnv DEF n
  <2>5. EnvOf(c)' = EnvOf(t)
    BY <1>1, <1>2, ClonesEnv
  <2> HIDE DEF image, k
  <2> QED
    BY <2>3, <2>4, <2>5
<1>10. ASSUME NEW c \in ScopeIds, \A t \in Ancestry(s) : copy[t] # c
       PROVE  EnvOf(c)' = image[c]
  <2>1. ~\E k \in DOMAIN clone : clone[k] = c
    BY <1>4, <1>10
  <2>2. image[c] = EnvOf(c)
    <3> HIDE DEF clone, first
    <3> QED
      BY <2>1
  <2>3. s \in Ancestry(s)
    BY AncestryClosed DEF IInv
  <2>4. Disturbs(copy[s]) /\ c # copy[s]
    BY <1>1, <1>10, <2>3, ForkDisturbs
  <2>5. frames'[c] = frames[c]
    BY <1>1, <1>2, <1>10, ForkEffect
  <2>6. CASE Allocated(c)
    BY <2>2, <2>4, <2>6, OthersKept DEF SameEnv
  <2>7. CASE ~Allocated(c)
    <3>1. ~Allocated(c)'
      BY <2>5, <2>7 DEF Allocated
    <3> HIDE DEF image
    <3> QED
      BY <2>2, <2>7, <3>1, NoEnv, NoEnvNext
  <2> QED
    BY <2>6, <2>7
<1>11. [c \in ScopeIds |-> EnvOf(c)]' = image
  <2>1. \A c \in ScopeIds : EnvOf(c)' = image[c]
    <3> HIDE DEF image
    <3> QED
      BY <1>9, <1>10
  <2>2. image = [c \in ScopeIds |-> image[c]]
    <3> HIDE DEF clone, first
    <3> QED
      OBVIOUS
  <2> HIDE DEF image
  <2> QED
    BY <2>1, <2>2
<1>12. Env!Live(s)
  BY <1>2, OwnLevel
<1> HIDE DEF clone
<1>13. [c \in ScopeIds |-> EnvOf(c)]' =
         [c \in ScopeIds |->
            IF \E k \in DOMAIN clone : clone[k] = c
            THEN SubSeq([t \in ScopeIds |-> EnvOf(t)][s], CHOOSE k \in DOMAIN clone : clone[k] = c,
                        Len([t \in ScopeIds |-> EnvOf(t)][s]))
            ELSE [t \in ScopeIds |-> EnvOf(t)][c]]
  BY <1>11
<1>14. Env!IsInjective(clone)
  BY <1>8 DEF Env!IsInjective, IsInjective
<1>15. clone \in [1 .. Len([t \in ScopeIds |-> EnvOf(t)][s]) -> {c \in ScopeIds : ~Env!Live(c)}]
  BY <1>7
<1> QED
  BY <1>12, <1>13, <1>14, <1>15, Zenon DEF Env!Fork

LEMMA InitEnv == Init => Env!Init
<1> SUFFICES ASSUME Init PROVE Env!Init
  OBVIOUS
<1>1. \A s \in ScopeIds : EnvOf(s) = <<>>
  BY DEF Init, EnvOf, Allocated
<1> QED
  BY <1>1 DEF Env!Init

\* Every step of the scopes is one of the environments, or is not seen in them.
EnvStep == Env!Next \/ UNCHANGED [s \in ScopeIds |-> EnvOf(s)]

LEMMA StepEnv ==
  IInv /\ IInv' /\ ParentsEnd /\ Lookups /\ Environments /\ Environments' /\ [Next]_vars => EnvStep
<1> SUFFICES ASSUME IInv, IInv', ParentsEnd, Lookups, Environments, Environments', [Next]_vars
             PROVE  EnvStep
  OBVIOUS
<1>1. CASE UNCHANGED vars
  BY <1>1, NothingSeen DEF EnvStep
<1>2. CASE Next
  <2> SUFFICES ASSUME NEW s \in ScopeIds,
                 \/ \E isMutable \in MutableFlags :
                      \/ NewScope(s, isMutable)
                      \/ \E h \in [Names -> Values \cup {Absent}] : NewScope2(s, h, isMutable)
                      \/ \E p \in ScopeIds : NewParentedScope(s, p, isMutable)
                 \/ Fork(s)
                 \/ EnterLocal(s)
                 \/ LeaveLocal(s)
                 \/ \E r \in Refs, v \in Values : Set(s, r, v)
                 \/ \E groups \in Matches : RxSet(s, groups)
               PROVE  EnvStep
    BY <1>2 DEF Next
  <2> SUFFICES ASSUME TRUE
               PROVE  \/ Env!Create(s) \/ Env!Fork(s) \/ Env!Push(s) \/ Env!Pop(s)
                      \/ Env!Assign(s) \/ Env!Capture(s)
                      \/ UNCHANGED [t \in ScopeIds |-> EnvOf(t)]
    BY DEF EnvStep, Env!Next
  <2>0. EmptyMap \in [Keys -> Cells]
    BY DEF EmptyMap, Cells
  <2>1. ASSUME NEW isMutable \in MutableFlags, NewScope(s, isMutable) PROVE Env!Create(s)
    <3>1. isMutable \in BOOLEAN /\ Create(s, EmptyMap, isMutable, None)
      BY <2>1, MutableFlagsAssumption DEF NewScope
    <3> QED
      BY <2>0, <3>1, CreateMakes
  <2>2. ASSUME NEW isMutable \in MutableFlags, NEW h \in [Names -> Values \cup {Absent}],
               NewScope2(s, h, isMutable)
        PROVE  Env!Create(s)
    <3> DEFINE contents == [k \in Keys |-> IF k = GroupKey THEN Absent ELSE h[k]]
    <3>1. isMutable \in BOOLEAN /\ Create(s, contents, isMutable, None)
      BY <2>2, MutableFlagsAssumption DEF NewScope2
    <3>2. contents \in [Keys -> Cells]
      BY DEF Keys, Cells
    <3> HIDE DEF contents
    <3> QED
      BY <3>1, <3>2, CreateMakes
  <2>3. ASSUME NEW isMutable \in MutableFlags, NEW p \in ScopeIds, NewParentedScope(s, p, isMutable)
        PROVE  Env!Create(s)
    <3>1. isMutable \in BOOLEAN /\ Create(s, EmptyMap, isMutable, p) /\ Allocated(p)
      BY <2>3, MutableFlagsAssumption DEF NewParentedScope
    <3> QED
      BY <2>0, <3>1, CreateMakes
  <2>4. Fork(s) => Env!Fork(s)
    BY ForkCopies
  <2>5. EnterLocal(s) => Env!Push(s)
    BY EnterLocalPushes
  <2>6. LeaveLocal(s) => Env!Pop(s)
    BY LeaveLocalPops
  <2>7. ASSUME NEW r \in Refs, NEW v \in Values, Set(s, r, v)
        PROVE  Env!Assign(s) \/ UNCHANGED [t \in ScopeIds |-> EnvOf(t)]
    BY <2>7, SetAssigns
  <2>8. ASSUME NEW groups \in Matches, RxSet(s, groups) PROVE Env!Capture(s)
    BY <2>8, RxSetCaptures
  <2> QED
    BY <2>1, <2>2, <2>3, <2>4, <2>5, <2>6, <2>7, <2>8
<1> QED
  BY <1>1, <1>2

\* Scope implements Environment: as long as rule 2 of pdsl.Scope is kept, maps that
\* a parent and its children share cannot be told from private copies of them, a
\* fork is a copy, and no step changes the environment of two scopes.
THEOREM ScopesAreEnvironments == Spec => ImplementsEnvironment
<1>1. IInv /\ ParentsEnd => Environments /\ Lookups
  BY EnvironmentsUnfold, LookupsUnfold
<1>2. EnvStep => [Env!Next]_([s \in ScopeIds |-> EnvOf(s)])
  BY DEF EnvStep
<1> QED
  BY InitEnv, StepEnv, <1>1, <1>2, ParentsAlwaysEnd, Inductive, PTL DEF Spec, ImplementsEnvironment, Env!Spec
=============================================================================
