------------------------------- MODULE Scope -------------------------------
(***************************************************************************)
(* The variable scopes of the evaluator: BasicScope and parentedScope of   *)
(* src/evaluator/scope.go, behind the interface of src/pdsl/scope.go.      *)
(*                                                                         *)
(* A scope is a stack of ephemeral frames.  Each frame is a Go map, a      *)
(* reference: whether two scopes share one matters, so frames are          *)
(* addresses into a heap, and copying a scope means allocating new maps.   *)
(* The map that is made for frame i of scope s has the address <<s, i>>.   *)
(* A variable name is a name and a flag, the flag telling whether it was   *)
(* written with the prefix `::`.                                           *)
(***************************************************************************)
EXTENDS Naturals, Sequences, FiniteSets, FiniteSetsExt, Functions

CONSTANTS
  ScopeIds,     \* the scope objects that may be created
  None,         \* the parent of a BasicScope
  Names,        \* variable names, without the prefix `::`
  Pnr,          \* the one name a child scope may override, `pnr`
  Values,       \* the values of variables
  GroupKey,     \* the key `::R` of the captures of a regular expression
  Matches,      \* arrays of captures
  Absent,       \* what a map holds under a key it does not have
  MutableFlags, \* the `mutable` arguments that callers pass; the evaluator: FALSE
  MaxDepth      \* bound: frames in one scope

ASSUME NoneAssumption == None \notin ScopeIds
ASSUME GroupKeyAssumption == GroupKey \notin Names
ASSUME AbsentAssumption == Absent \notin Values \cup Matches
ASSUME MutableFlagsAssumption == MutableFlags \subseteq BOOLEAN
ASSUME MaxDepthAssumption == MaxDepth \in Nat \ {0}

VARIABLES
  maps,         \* the heap: the contents of each map
  frames,       \* BasicScope.scopes, the stack of a scope; empty: no scope yet
  mutable,      \* BasicScope.mutable
  parent,       \* parentedScope.parent
  eps           \* the epCount of each WithLocalScope call that is running

vars == <<maps, frames, mutable, parent, eps>>

Keys == Names \cup {GroupKey}
Cells == Values \cup Matches \cup {Absent}
MapIds == ScopeIds \X (1 .. MaxDepth)
Refs == [global : BOOLEAN, name : Names]

TypeOK ==
  /\ maps \in [MapIds -> [Keys -> Cells]]
  /\ frames \in [ScopeIds -> Seq(MapIds)]
  /\ mutable \in [ScopeIds -> BOOLEAN]
  /\ parent \in [ScopeIds -> ScopeIds \cup {None}]
  /\ eps \in [ScopeIds -> Seq(Nat)]

EmptyMap == [k \in Keys |-> Absent]

Allocated(s) == frames[s] # <<>>
Free == {s \in ScopeIds : ~Allocated(s)}
IsParent(s) == \E t \in ScopeIds : parent[t] = s
Depth(s) == Len(frames[s])
Frame(s, i) == maps[frames[s][i]]

\* Faulty variant: callers that modify a scope they have shared.
ModifiableAlways(s) == Allocated(s)

\* Rule 2 of pdsl.Scope, which the callers keep: a scope that is the parent
\* of another is no longer modified.
Modifiable(s) == Allocated(s) /\ ~IsParent(s)

-----------------------------------------------------------------------------
(* Looking up a variable. *)

\* The frames of s, itself and not its parent, that bind the name.
Binding(s, name) == {i \in 1 .. Depth(s) : Frame(s, i)[name] # Absent}

\* BasicScope.Get2: the global frame for `::name`, else from the top frame down.
BasicGet2(s, r) ==
  IF r.global THEN Frame(s, 1)[r.name]
  ELSE IF Binding(s, r.name) = {} THEN Absent
  ELSE Frame(s, Max(Binding(s, r.name)))[r.name]

\* parentedScope.Get2: the parent is asked when this scope has no binding.
Get2(s, r) ==
  LET get[t \in ScopeIds] ==
        IF BasicGet2(t, r) # Absent \/ parent[t] = None
        THEN BasicGet2(t, r)
        ELSE get[parent[t]]
  IN  get[s]

BasicState(s, r) ==
  LET found == IF r.global THEN Binding(s, r.name) \cap {1}
                           ELSE Binding(s, r.name)
  IN  IF found = {} THEN "NotFound"
      ELSE IF Max(found) = 1 THEN "Global" ELSE "Local"

\* Faulty variant: the parent is not asked.
StateNoFallThrough(s, r) == BasicState(s, r)

State(s, r) ==
  LET state[t \in ScopeIds] ==
        IF BasicState(t, r) # "NotFound" \/ parent[t] = None
        THEN BasicState(t, r)
        ELSE state[parent[t]]
  IN  state[s]

\* RxGet: only the top frame is consulted, neither the frames under it nor
\* the parent.
RxGet(s) == Frame(s, Depth(s))[GroupKey]

-----------------------------------------------------------------------------
(* Assigning a variable. *)

SetIdx(s, r) == IF r.global THEN 1 ELSE Depth(s)

\* Faulty variant: only `::name` is checked, not a name used in the global frame.
OverridesGlobalByPrefix(s, r) ==
  /\ parent[s] # None
  /\ r.global
  /\ State(parent[s], [global |-> FALSE, name |-> r.name]) = "Global"

\* The name is a global of the parent and would be written in frame 0.  The
\* prefix has been removed from the name when the parent is asked.
OverridesGlobal(s, r) ==
  /\ parent[s] # None
  /\ SetIdx(s, r) = 1
  /\ State(parent[s], [global |-> FALSE, name |-> r.name]) = "Global"

\* Faulty variant: without the rule for globals of the parent.
MaySetNoPnrRule(s, r) ==
  \/ mutable[s] /\ SetIdx(s, r) > 1
  \/ Frame(s, SetIdx(s, r))[r.name] = Absent

\* Faulty variant: the globals of a mutable scope are mutable too.
MaySetMutableGlobals(s, r) ==
  IF OverridesGlobal(s, r) THEN r.name = Pnr
  ELSE mutable[s] \/ Frame(s, SetIdx(s, r))[r.name] = Absent

\* The boolean that Set returns.
MaySet(s, r) ==
  IF OverridesGlobal(s, r) THEN r.name = Pnr
  ELSE \/ mutable[s] /\ SetIdx(s, r) > 1
       \/ Frame(s, SetIdx(s, r))[r.name] = Absent

Set(s, r, v) ==
  /\ Modifiable(s)
  /\ maps' = IF MaySet(s, r)
             THEN [maps EXCEPT ![frames[s][SetIdx(s, r)]][r.name] = v]
             ELSE maps
  /\ UNCHANGED <<frames, mutable, parent, eps>>

\* Faulty variant: the captures are kept in the global frame.
RxSetGlobal(s, groups) ==
  /\ Modifiable(s)
  /\ maps' = [maps EXCEPT ![frames[s][1]][GroupKey] = groups]
  /\ UNCHANGED <<frames, mutable, parent, eps>>

\* RxSet: the captures replace those the top frame had.
RxSet(s, groups) ==
  /\ Modifiable(s)
  /\ maps' = [maps EXCEPT ![frames[s][Depth(s)]][GroupKey] = groups]
  /\ UNCHANGED <<frames, mutable, parent, eps>>

-----------------------------------------------------------------------------
(* Creating scopes. *)

Create(s, contents, isMutable, itsParent) ==
  /\ ~Allocated(s)
  /\ maps' = [maps EXCEPT ![<<s, 1>>] = contents]
  /\ frames' = [frames EXCEPT ![s] = <<<<s, 1>>>>]
  /\ mutable' = [mutable EXCEPT ![s] = isMutable]
  /\ parent' = [parent EXCEPT ![s] = itsParent]
  /\ UNCHANGED eps

NewScope(s, isMutable) == Create(s, EmptyMap, isMutable, None)

\* NewScope2: the global frame starts with the entries of a hash.
NewScope2(s, h, isMutable) ==
  Create(s, [k \in Keys |-> IF k = GroupKey THEN Absent ELSE h[k]],
         isMutable, None)

NewParentedScope(s, p, isMutable) ==
  /\ Allocated(p)
  /\ Create(s, EmptyMap, isMutable, p)

\* s, its parent, the parent of that, and so on: the least set that contains
\* s and the parent of each of its members.
Ancestry(s) ==
  {t \in ScopeIds :
     \A A \in SUBSET ScopeIds :
       /\ s \in A
       /\ \A u \in A : parent[u] # None => parent[u] \in A
       => t \in A}

\* Faulty variant: the slice is copied, the maps are not.
CopiedFramesShallow(from, to) == frames[from]

\* Faulty variant: the new maps are numbered from zero.
CopiedFramesFromZero(from, to) == [i \in 1 .. Depth(from) |-> <<to, i - 1>>]

\* copyFrom: a new slice of new maps with the same entries.
CopiedFrames(from, to) == [i \in 1 .. Depth(from) |-> <<to, i>>]

\* Fork of s, where copy[t] is the clone of t: the parents are forked too.
ForkAs(s, copy) ==
  LET Clones == {copy[t] : t \in Ancestry(s)}
      Original(c) == CHOOSE t \in Ancestry(s) : copy[t] = c
  IN  /\ frames' = [c \in ScopeIds |->
                      IF c \in Clones THEN CopiedFrames(Original(c), c)
                                      ELSE frames[c]]
      /\ maps' = [m \in MapIds |->
                      IF m[1] \in Clones /\ m[2] <= Depth(Original(m[1]))
                      THEN Frame(Original(m[1]), m[2])
                      ELSE maps[m]]
      /\ mutable' = [c \in ScopeIds |->
                      IF c \in Clones THEN mutable[Original(c)]
                                      ELSE mutable[c]]
      /\ parent' = [c \in ScopeIds |->
                      IF c \notin Clones THEN parent[c]
                      ELSE IF parent[Original(c)] = None THEN None
                      ELSE copy[parent[Original(c)]]]
      /\ UNCHANGED eps

Fork(s) ==
  /\ Allocated(s)
  /\ \E copy \in [Ancestry(s) -> Free] :
       /\ IsInjective(copy)
       /\ ForkAs(s, copy)

-----------------------------------------------------------------------------
(* WithLocalScope: the call pushes a frame, the producer runs, and the     *)
(* deferred function truncates the stack, however the producer ends.       *)

\* Faulty variant: the length is read when the frame has been pushed.
EnterLocalPushFirst(s) ==
  /\ Modifiable(s)
  /\ Depth(s) < MaxDepth
  /\ eps' = [eps EXCEPT ![s] = Append(@, Depth(s) + 1)]
  /\ frames' = [frames EXCEPT ![s] = Append(@, <<s, Depth(s) + 1>>)]
  /\ maps' = [maps EXCEPT ![<<s, Depth(s) + 1>>] = EmptyMap]
  /\ UNCHANGED <<mutable, parent>>

EnterLocal(s) ==
  /\ Modifiable(s)
  /\ Depth(s) < MaxDepth
  /\ eps' = [eps EXCEPT ![s] = Append(@, Depth(s))]
  /\ frames' = [frames EXCEPT ![s] = Append(@, <<s, Depth(s) + 1>>)]
  /\ maps' = [maps EXCEPT ![<<s, Depth(s) + 1>>] = EmptyMap]
  /\ UNCHANGED <<mutable, parent>>

\* The popped map is garbage; it is emptied so that states that differ in
\* garbage only are one state.
LeaveLocal(s) ==
  /\ Modifiable(s)
  /\ eps[s] # <<>>
  /\ LET epCount == eps[s][Len(eps[s])]
     IN  /\ frames' = [frames EXCEPT ![s] = SubSeq(@, 1, epCount)]
         /\ maps' = [m \in MapIds |-> IF m[1] = s /\ m[2] > epCount
                                      THEN EmptyMap ELSE maps[m]]
  /\ eps' = [eps EXCEPT ![s] = SubSeq(@, 1, Len(@) - 1)]
  /\ UNCHANGED <<mutable, parent>>

-----------------------------------------------------------------------------

Init ==
  /\ maps = [m \in MapIds |-> EmptyMap]
  /\ frames = [s \in ScopeIds |-> <<>>]
  /\ mutable = [s \in ScopeIds |-> FALSE]
  /\ parent = [s \in ScopeIds |-> None]
  /\ eps = [s \in ScopeIds |-> <<>>]

Next ==
  \E s \in ScopeIds :
    \/ \E isMutable \in MutableFlags :
         \/ NewScope(s, isMutable)
         \/ \E h \in [Names -> Values \cup {Absent}] : NewScope2(s, h, isMutable)
         \/ \E p \in ScopeIds : NewParentedScope(s, p, isMutable)
    \/ Fork(s)
    \/ EnterLocal(s)
    \/ LeaveLocal(s)
    \/ \E r \in Refs, v \in Values : Set(s, r, v)
    \/ \E groups \in Matches : RxSet(s, groups)

Spec == Init /\ [][Next]_vars

-----------------------------------------------------------------------------
(* Properties. *)

\* No two frames are one map: what is written through a frame of a scope is
\* seen through no other frame, of that scope or of another (Fork, copyFrom).
NoSharedMaps ==
  \A s, t \in ScopeIds : \A i \in 1 .. Depth(s), j \in 1 .. Depth(t) :
    frames[s][i] = frames[t][j] => s = t /\ i = j

\* Each running WithLocalScope call pops the frame that it pushed and no other,
\* and never the global frame, whatever the order of calls and forks.
PopsItsOwnFrame ==
  \A s \in ScopeIds :
    /\ Len(eps[s]) <= Depth(s)
    /\ Allocated(s) => Len(eps[s]) < Depth(s)
    /\ \A i \in 1 .. Len(eps[s]) :
         eps[s][i] = Depth(s) - Len(eps[s]) + i - 1

\* The two walks over the frames and the parents agree: State reports a
\* variable as found exactly when Get2 finds a value for it.
StateAgreesWithGet ==
  \A s \in ScopeIds : Allocated(s) =>
    \A r \in Refs : State(s, r) = "NotFound" <=> Get2(s, r) = Absent

\* All that a reader of the scope can observe.
View(s) == [vars |-> [r \in Refs |-> Get2(s, r)],
            state |-> [r \in Refs |-> State(s, r)],
            captures |-> RxGet(s)]

\* A step changes what one scope shows at most: neither a parent, a child, a
\* fork nor the original of a fork sees what is done to a scope (rules 1 and 2
\* of pdsl.Scope, "no modifications are ever propagated to the parent scope").
OneViewPerStep ==
  [][Cardinality({s \in ScopeIds : Allocated(s) /\ View(s)' # View(s)}) <= 1]_vars

\* While a frame is covered by a local one it keeps all it holds, captures
\* included, save that the variables of the global frame may be assigned by
\* their `::` names.  So leaving a local scope restores what was visible.
CoveredFramesFrozen ==
  [][\A s \in ScopeIds : \A i \in 1 .. Depth(s) : \A k \in Keys :
       i < Depth(s) /\ (i > 1 \/ k = GroupKey)
       => Frame(s, i)'[k] = Frame(s, i)[k]]_vars

\* A variable of a scope that is not mutable, and a global of any scope, is
\* bound once: as long as its frame lives no other value replaces it.  The
\* exception is $pnr where it overrides the one of a parent.
BoundOnce ==
  [][\A s \in ScopeIds : \A i \in 1 .. Depth(s) : \A n \in Names :
       /\ i = 1 \/ ~mutable[s]
       /\ Frame(s, i)[n] # Absent
       /\ i <= Depth(s)'
       /\ ~(i = 1 /\ n = Pnr /\ parent[s] # None)
       => Frame(s, i)'[n] = Frame(s, i)[n]]_vars

\* The frames of a scope are the maps made for it, and whatever is a parent has
\* been created.  With the two invariants it depends on it is inductive, and
\* the proofs in ScopeProofs rest on it.
IInv ==
  /\ TypeOK
  /\ PopsItsOwnFrame
  /\ \A s \in ScopeIds :
       /\ Depth(s) <= MaxDepth
       /\ \A i \in 1 .. Depth(s) : frames[s][i] = <<s, i>>
       /\ parent[s] # None => Allocated(s) /\ Allocated(parent[s])

GlobalRef(n) == [global |-> TRUE, name |-> n]
LocalRef(n) == [global |-> FALSE, name |-> n]

\* A child scope binds a global that its parent has too only for $pnr, or
\* when the parent hides that global behind a local variable of the name.
NoVisibleGlobalOverride ==
  \A s \in ScopeIds : \A n \in Names \ {Pnr} :
    /\ Allocated(s) /\ parent[s] # None
    /\ Frame(s, 1)[n] # Absent
    => State(parent[s], LocalRef(n)) # "Global"

\* The comment in parentedScope.Set: "Attempt to override global declared in
\* parent. Only $pnr can do that".  (It does not hold: State finds a local
\* variable of the parent first.)
OnlyPnrOverridesGlobal ==
  \A s \in ScopeIds : \A n \in Names \ {Pnr} :
    /\ Allocated(s) /\ parent[s] # None
    /\ Frame(s, 1)[n] # Absent
    => Get2(parent[s], GlobalRef(n)) = Absent

\* The captures of the frame nearest to the top that has some.
NearestCaptures(s) ==
  IF Binding(s, GroupKey) = {} THEN Absent
  ELSE Frame(s, Max(Binding(s, GroupKey)))[GroupKey]

\* The documentation of RxSet: the captures are "available until the current
\* ephemeral scope it is popped or a new call to RxSet replaces it".  (It does
\* not hold: RxGet finds none once a nested local scope has been pushed.)
CapturesAvailable ==
  \A s \in ScopeIds :
    Allocated(s) /\ NearestCaptures(s) # Absent => RxGet(s) # Absent
=============================================================================
