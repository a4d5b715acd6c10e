-------------------------- MODULE StatementsProofs --------------------------
(***************************************************************************)
(* Theorems about Statements, for any assignments, selections and calls,   *)
(* nested to any depth.                                                    *)
(*                                                                         *)
(* Each step pushes an activity, replaces the innermost one, ends it or    *)
(* raises a panic, and does to the scope what one operation of Scope does. *)
(***************************************************************************)
EXTENDS Statements, ScopeProofs

HasFields(a, fields) == a = [k \in fields |-> a[k]]

Pieces == Seq(Lefts \X (Rights \cup {Missing}))

IsAssign(a) ==
  /\ a.is = "assign"
  /\ HasFields(a, {"is", "phase", "frames", "base", "before", "left", "right", "todo", "bound"})
  /\ a.phase \in {"rhs", "assign"}
  /\ a.left \in Lefts /\ a.right \in Rights /\ a.todo \in Pieces
IsIf(a) ==
  /\ a.is = "if"
  /\ HasFields(a, {"is", "phase", "frames", "base", "before"})
  /\ a.phase \in {"test", "body"}
IsCase(a) ==
  /\ a.is = "case"
  /\ HasFields(a, {"is", "phase", "frames", "base", "before",
                   "all", "at", "default", "selected", "tried"})
  /\ a.phase \in {"test", "options", "value", "body"}
\* What is known of the arguments of a call when it is so far.
ArgumentsFit(phase, f, args) ==
  /\ phase = "default" => Len(args) < Len(f.parameters)
  /\ phase \in {"check", "bind"} => Len(args) >= Len(f.parameters)
  /\ phase = "bind" => \A i \in 1 .. Len(f.parameters) : args[i] \in f.parameters[i].type
IsCall(a) ==
  /\ a.is = "call"
  /\ HasFields(a, {"is", "phase", "frames", "base", "before", "f", "args", "given", "next"})
  /\ a.phase \in {"called", "defaults", "default", "check", "bind", "body"}
  /\ a.f \in Callables /\ a.args \in Seq(Values) /\ a.next \in Nat \ {0}
  /\ ArgumentsFit(a.phase, a.f, a.args)

Activity(a) ==
  /\ IsAssign(a) \/ IsIf(a) \/ IsCase(a) \/ IsCall(a)
  /\ a.base \in Nat \ {0} /\ a.frames \in Nat /\ a.frames <= FramesIn(a)

\* A stack of activities on a scope that is that deep.
IsSequence(st) == \E S : st \in Seq(S)
Level(st, i, what) ==
  /\ Activity(st[i])
  /\ st[i].base = IF i = 1 THEN 1 ELSE st[i - 1].base + st[i - 1].frames
  /\ i < Len(st) => st[i].phase \in CodePhases
  /\ what = "no" \/ i < Len(st) => st[i].frames = FramesIn(st[i])
Top(st) == IF st = <<>> THEN 1 ELSE st[Len(st)].base + st[Len(st)].frames
Built(st, depth, what) ==
  /\ IsSequence(st) /\ depth = Top(st)
  /\ \A i \in 1 .. Len(st) : Level(st, i, what)

SInv ==
  /\ IInv
  /\ Built(stack, Depth(Current), raised)
  /\ raised \in {"no", "error", "next", "return"}

-----------------------------------------------------------------------------
(* Stacks. *)

LEMMA Wider ==
  ASSUME NEW S, NEW T, S \subseteq T, NEW st \in Seq(S)
  PROVE  st \in Seq(T)
<1>1. Len(st) \in Nat /\ st \in [1 .. Len(st) -> T]
  OBVIOUS
<1> QED
  BY <1>1

LEMMA Frames ==
  ASSUME NEW a
  PROVE  FramesIn(a) \in 0 .. 2 \/ ~Activity(a)
BY DEF FramesIn, Activity, IsAssign, IsIf, IsCase, IsCall

LEMMA Pushed ==
  ASSUME NEW st, NEW depth, Built(st, depth, "no"), NEW a, Activity(a),
         st # <<>> => st[Len(st)].phase \in CodePhases,
         a.base = depth, a.frames = FramesIn(a)
  PROVE  Built(Append(st, a), depth + a.frames, "no")
<1> DEFINE new == Append(st, a)
<1>1. PICK S : st \in Seq(S)
  BY DEF Built, IsSequence
<1>2. st \in Seq(S \cup {a})
  BY <1>1, Wider
<1>3. /\ new \in Seq(S \cup {a}) /\ Len(new) = Len(st) + 1 /\ Len(st) \in Nat
      /\ new[Len(st) + 1] = a /\ \A i \in 1 .. Len(st) : new[i] = st[i]
      /\ new # <<>>
  BY <1>2
<1>4. st # <<>> <=> Len(st) # 0
  BY <1>1
<1> HIDE DEF new
<1>5. ASSUME NEW i \in 1 .. Len(new)
      PROVE  Level(new, i, "no")
  <2>1. CASE i = Len(st) + 1
    <3>1. new[i] = a
      BY <1>3, <2>1
    <3>2. CASE Len(st) = 0
      BY <1>3, <1>4, <2>1, <3>1, <3>2 DEF Built, Level, Top
    <3>3. CASE Len(st) # 0
      <4>1. i - 1 = Len(st) /\ i # 1 /\ new[i - 1] = st[Len(st)]
        BY <1>3, <2>1, <3>3
      <4>2. depth = st[Len(st)].base + st[Len(st)].frames
        BY <1>4, <3>3 DEF Built, Top
      <4> QED
        BY <1>3, <2>1, <3>1, <4>1, <4>2 DEF Level
    <3> QED
      BY <3>2, <3>3
  <2>2. CASE i # Len(st) + 1
    <3>1. i \in 1 .. Len(st) /\ new[i] = st[i] /\ (i # 1 => i - 1 \in 1 .. Len(st) /\ new[i - 1] = st[i - 1])
      BY <1>3, <2>2
    <3>2. CASE i = Len(st)
      BY <1>3, <1>4, <3>1, <3>2 DEF Built, Level
    <3>3. CASE i # Len(st)
      <4>1. i < Len(st)
        BY <1>3, <3>1, <3>3
      <4> QED
        BY <1>3, <3>1, <4>1 DEF Built, Level
    <3> QED
      BY <3>2, <3>3
  <2> QED
    BY <2>1, <2>2
<1>6. new[Len(new)] = a
  BY <1>3
<1>7. Top(new) = depth + a.frames
  BY <1>3, <1>6 DEF Top
<1>8. IsSequence(new)
  BY <1>3 DEF IsSequence
<1> QED
  BY <1>5, <1>7, <1>8 DEF Built, new

LEMMA Replaced ==
  ASSUME NEW st, NEW depth, NEW what, Built(st, depth, what), st # <<>>,
         NEW a, Activity(a), a.base = st[Len(st)].base, what = "no" => a.frames = FramesIn(a)
  PROVE  Built([st EXCEPT ![Len(st)] = a], a.base + a.frames, what)
<1> DEFINE new == [st EXCEPT ![Len(st)] = a]
<1>1. PICK S : st \in Seq(S)
  BY DEF Built, IsSequence
<1>2. st \in Seq(S \cup {a})
  BY <1>1, Wider
<1>3. Len(st) \in Nat \ {0}
  BY <1>1
<1>4. /\ new \in Seq(S \cup {a}) /\ Len(new) = Len(st)
      /\ new[Len(st)] = a /\ \A i \in 1 .. Len(st) - 1 : new[i] = st[i]
  BY <1>2, <1>3
<1>5. new # <<>>
  BY <1>3, <1>4
<1> HIDE DEF new
<1>6. ASSUME NEW i \in 1 .. Len(new)
      PROVE  Level(new, i, what)
  <2>1. Level(st, i, what)
    BY <1>4 DEF Built
  <2>2. i # 1 => new[i - 1] = st[i - 1]
    BY <1>3, <1>4
  <2>3. CASE i = Len(st)
    BY <1>3, <1>4, <2>1, <2>2, <2>3 DEF Level
  <2>4. CASE i # Len(st)
    <3>1. i < Len(st) /\ i \in 1 .. Len(st) - 1 /\ i \in 1 .. Len(st)
      BY <1>3, <1>4, <2>4
    <3>2. new[i] = st[i]
      BY <1>4, <3>1
    <3> QED
      BY <1>4, <2>1, <2>2, <3>1, <3>2 DEF Level
  <2> QED
    BY <2>3, <2>4
<1>7. Top(new) = a.base + a.frames
  BY <1>4, <1>5 DEF Top
<1>8. IsSequence(new)
  BY <1>4 DEF IsSequence
<1> QED
  BY <1>6, <1>7, <1>8 DEF Built, new

LEMMA Popped ==
  ASSUME NEW st, NEW depth, NEW what, Built(st, depth, what), st # <<>>, NEW then
  PROVE  Built(Front(st), st[Len(st)].base, then)
<1> DEFINE new == Front(st)
<1>1. PICK S : st \in Seq(S)
  BY DEF Built, IsSequence
<1>2. Len(st) \in Nat \ {0}
  BY <1>1
<1>3. /\ new \in Seq(S) /\ Len(new) = Len(st) - 1
      /\ \A i \in 1 .. Len(st) - 1 : new[i] = st[i]
  <2>1. Len(st) - 1 \in Nat /\ Len(st) - 1 <= Len(st)
    BY <1>2
  <2>2. new = SubSeq(st, 1, Len(st) - 1)
    BY DEF Front
  <2> HIDE DEF new
  <2> DEFINE k == Len(st) - 1
  <2>3. /\ SubSeq(st, 1, k) \in Seq(S) /\ Len(SubSeq(st, 1, k)) = k
        /\ \A i \in 1 .. k : SubSeq(st, 1, k)[i] = st[i]
    <3> HIDE DEF k
    <3> QED
      BY <1>1, <2>1, Prefix DEF k
  <2> QED
    BY <2>2, <2>3
<1>4. new = <<>> <=> Len(st) = 1
  BY <1>2, <1>3
<1> HIDE DEF new
<1>5. ASSUME NEW i \in 1 .. Len(new)
      PROVE  Level(new, i, then)
  <2>1. i < Len(st) /\ i \in 1 .. Len(st) /\ new[i] = st[i]
    BY <1>2, <1>3
  <2>2. i # 1 => new[i - 1] = st[i - 1]
    BY <1>2, <1>3
  <2>3. Level(st, i, what)
    BY <2>1 DEF Built
  <2> QED
    BY <2>1, <2>2, <2>3 DEF Level
<1>6. st[Len(st)].base = IF new = <<>> THEN 1 ELSE new[Len(new)].base + new[Len(new)].frames
  <2>1. st[Len(st)].base = IF Len(st) = 1 THEN 1 ELSE st[Len(st) - 1].base + st[Len(st) - 1].frames
    <3>1. Level(st, Len(st), what)
      BY <1>2 DEF Built
    <3> QED
      BY <3>1 DEF Level
  <2>2. CASE Len(st) = 1
    BY <1>4, <2>1, <2>2
  <2>3. CASE Len(st) # 1
    <3>1. new[Len(new)] = st[Len(st) - 1]
      BY <1>2, <1>3, <2>3
    <3> QED
      BY <1>4, <2>1, <2>3, <3>1
  <2> QED
    BY <2>2, <2>3
<1>7. Top(new) = st[Len(st)].base
  BY <1>6 DEF Top
<1>8. IsSequence(new)
  BY <1>3 DEF IsSequence
<1> QED
  BY <1>5, <1>7, <1>8 DEF Built, new

\* A panic does not care how many frames are left, and nothing is raised
\* further than to the end of the stack.
LEMMA Panicked ==
  ASSUME NEW st, NEW depth, NEW what, Built(st, depth, what), NEW then, then # "no" \/ st = <<>>
  PROVE  Built(st, depth, then)
<1>1. CASE then # "no"
  BY <1>1 DEF Built, Level
<1>2. CASE st = <<>>
  BY <1>2 DEF Built, Level
<1> QED
  BY <1>1, <1>2

-----------------------------------------------------------------------------
(* What the operations of Scope do to the frames of one scope. *)

SameFrames(s, n) == \A i \in 1 .. n : Frame(s, i)' = Frame(s, i)

LEMMA DepthOf ==
  ASSUME IInv, NEW s \in ScopeIds
  PROVE  /\ Depth(s) \in Nat /\ frames[s] \in Seq(MapIds) /\ maps \in [MapIds -> [Keys -> Cells]]
         /\ \A i \in 1 .. Depth(s) : frames[s][i] = <<s, i>> /\ <<s, i>> \in MapIds
<1>1. Depth(s) \in Nat /\ frames[s] \in Seq(MapIds) /\ maps \in [MapIds -> [Keys -> Cells]]
  BY DEF IInv, TypeOK, Depth
<1>2. ASSUME NEW i \in 1 .. Depth(s)
      PROVE  frames[s][i] = <<s, i>> /\ <<s, i>> \in MapIds
  <2>1. frames[s][i] = <<s, i>>
    BY <1>2 DEF IInv
  <2>2. frames[s][i] \in MapIds
    BY <1>1, <1>2 DEF Depth
  <2> QED
    BY <2>1, <2>2
<1> QED
  BY <1>1, <1>2

LEMMA EnterEffect ==
  ASSUME IInv, NEW s \in ScopeIds, EnterLocal(s)
  PROVE  /\ Depth(s)' = Depth(s) + 1 /\ SameFrames(s, Depth(s))
         /\ Frame(s, Depth(s))' = EmptyMap
<1>1. /\ Depth(s) \in Nat /\ frames[s] \in Seq(MapIds) /\ maps \in [MapIds -> [Keys -> Cells]]
      /\ \A i \in 1 .. Depth(s) : frames[s][i] = <<s, i>> /\ <<s, i>> \in MapIds
  BY DepthOf
<1> DEFINE m == <<s, Depth(s) + 1>>
<1>2. m \in MapIds
  BY <1>1, MaxDepthAssumption DEF EnterLocal, MapIds
<1>3. frames'[s] = Append(frames[s], m) /\ maps' = [maps EXCEPT ![m] = EmptyMap]
  BY DEF EnterLocal, IInv, TypeOK
<1>4. /\ Len(frames'[s]) = Len(frames[s]) + 1 /\ frames'[s][Depth(s) + 1] = m
      /\ \A i \in 1 .. Depth(s) : frames'[s][i] = frames[s][i]
  BY <1>1, <1>2, <1>3 DEF Depth
<1>5. ASSUME NEW i \in 1 .. Depth(s)
      PROVE  Frame(s, i)' = Frame(s, i)
  <2>1. <<s, i>> # m
    BY <1>1
  <2> QED
    BY <1>1, <1>2, <1>3, <1>4, <2>1 DEF Frame
<1>6. Depth(s)' = Depth(s) + 1
  BY <1>4 DEF Depth
<1>7. Frame(s, Depth(s))' = EmptyMap
  BY <1>1, <1>2, <1>3, <1>4, <1>6 DEF Frame
<1> QED
  BY <1>5, <1>6, <1>7 DEF SameFrames

LEMMA LeaveEffect ==
  ASSUME IInv, NEW s \in ScopeIds, LeaveLocal(s)
  PROVE  Depth(s)' = Depth(s) - 1 /\ SameFrames(s, Depth(s) - 1)
<1>1. /\ Depth(s) \in Nat /\ frames[s] \in Seq(MapIds) /\ maps \in [MapIds -> [Keys -> Cells]]
      /\ \A i \in 1 .. Depth(s) : frames[s][i] = <<s, i>> /\ <<s, i>> \in MapIds
  BY DepthOf
<1> DEFINE e == eps[s][Len(eps[s])]
<1>2. e = Depth(s) - 1 /\ e \in Nat
  <2>1. Len(eps[s]) \in Nat /\ Len(eps[s]) > 0 /\ eps[s] \in Seq(Nat)
    BY DEF LeaveLocal, IInv, TypeOK
  <2>2. e = Depth(s) - Len(eps[s]) + Len(eps[s]) - 1
    BY <2>1 DEF IInv, PopsItsOwnFrame
  <2>3. e \in Nat
    BY <2>1
  <2> HIDE DEF e
  <2> QED
    BY <1>1, <2>1, <2>2, <2>3
<1>3. /\ frames'[s] = SubSeq(frames[s], 1, e)
      /\ maps' = [m \in MapIds |-> IF m[1] = s /\ m[2] > e THEN EmptyMap ELSE maps[m]]
  BY DEF LeaveLocal, IInv, TypeOK
<1> HIDE DEF e
<1>4. Len(frames'[s]) = e /\ \A i \in 1 .. e : frames'[s][i] = frames[s][i]
  BY <1>1, <1>2, <1>3, Prefix DEF Depth
<1>5. ASSUME NEW i \in 1 .. e
      PROVE  Frame(s, i)' = Frame(s, i)
  <2>1. i \in 1 .. Depth(s) /\ ~(i > e)
    BY <1>1, <1>2
  <2>2. maps'[<<s, i>>] = maps[<<s, i>>]
    BY <1>1, <1>3, <2>1
  <2> QED
    BY <1>1, <1>4, <2>1, <2>2 DEF Frame
<1> QED
  BY <1>2, <1>4, <1>5 DEF Depth, SameFrames

\* Everything but WithLocalScope leaves the depth as it is.
LEMMA SameDepth ==
  ASSUME NEW s, UNCHANGED frames
  PROVE  Depth(s)' = Depth(s)
BY DEF Depth

-----------------------------------------------------------------------------
(* The steps of the stack. *)

LEMMA TheActive ==
  ASSUME SInv, stack # <<>>
  PROVE  /\ Len(stack) \in 1 .. Len(stack) /\ IsSequence(stack)
         /\ Activity(Active) /\ Active.base \in Nat \ {0} /\ Active.frames \in Nat
         /\ Depth(Current) = Active.base + Active.frames
         /\ raised = "no" => Active.frames = FramesIn(Active)
<1>1. PICK S : stack \in Seq(S)
  BY DEF SInv, Built, IsSequence
<1>2. Len(stack) \in 1 .. Len(stack)
  BY <1>1
<1>3. Level(stack, Len(stack), raised) /\ Depth(Current) = Top(stack) /\ IsSequence(stack)
  BY <1>2 DEF SInv, Built
<1> QED
  BY <1>2, <1>3 DEF Level, Top, Active, Activity

LEMMA Deep ==
  ASSUME SInv
  PROVE  Depth(Current) \in Nat \ {0}
<1>1. CASE stack = <<>>
  BY <1>1 DEF SInv, Built, Top
<1>2. CASE stack # <<>>
  BY <1>2, TheActive
<1> QED
  BY <1>1, <1>2

\* The innermost activity goes on, with the frames that it then has.
LEMMA Moved ==
  ASSUME SInv, stack # <<>>, NEW a, Goes(a), Activity(a), a.base = Active.base,
         a.frames = FramesIn(a), Depth(Current)' = a.base + a.frames
  PROVE  Built(stack, Depth(Current), raised)'
<1>1. Built([stack EXCEPT ![Len(stack)] = a], a.base + a.frames, raised)
  BY Replaced DEF SInv, Active
<1> QED
  BY <1>1 DEF Goes, Becomes

LEMMA GoesOn ==
  ASSUME SInv, stack # <<>>, raised = "no", NEW a, Goes(a), UNCHANGED frames,
         IsAssign(a) \/ IsIf(a) \/ IsCase(a) \/ IsCall(a),
         a.base = Active.base, a.frames = Active.frames, FramesIn(a) = FramesIn(Active)
  PROVE  Built(stack, Depth(Current), raised)'
<1>1. /\ Active.base \in Nat \ {0} /\ Active.frames \in Nat
      /\ Depth(Current) = Active.base + Active.frames /\ Active.frames = FramesIn(Active)
  BY TheActive
<1>2. Activity(a)
  BY <1>1 DEF Activity
<1>3. Depth(Current)' = a.base + a.frames
  BY <1>1, SameDepth
<1> QED
  BY <1>1, <1>2, <1>3, Moved

LEMMA Begun ==
  ASSUME SInv, NEW a, Begin(a), Activity(a), a.base = Depth(Current),
         a.frames = FramesIn(a), Depth(Current)' = Depth(Current) + a.frames
  PROVE  Built(stack, Depth(Current), raised)'
<1>1. Built(Append(stack, a), Depth(Current) + a.frames, "no")
  BY Pushed DEF SInv, Begin, CodeRuns, Active
<1> QED
  BY <1>1 DEF Begin, CodeRuns

LEMMA EndedOne ==
  ASSUME SInv, stack # <<>>, stack' = Front(stack), Depth(Current)' = Active.base
  PROVE  Built(stack, Depth(Current), raised)'
<1>1. Built(Front(stack), Active.base, raised')
  BY Popped DEF SInv, Active
<1> QED
  BY <1>1

LEMMA RaisedOne ==
  ASSUME SInv, NEW what, what # "no", Raise(what)
  PROVE  Built(stack, Depth(Current), raised)'
<1>1. Built(stack, Depth(Current), what)
  BY Panicked DEF SInv
<1>2. Depth(Current)' = Depth(Current)
  BY SameDepth DEF Raise, scopeVars, vars
<1> QED
  BY <1>1, <1>2 DEF Raise

-----------------------------------------------------------------------------
(* What every action keeps, and does to the scope. *)

Good ==
  /\ Built(stack, Depth(Current), raised)'
  /\ raised' \in {"no", "error", "next", "return"}
  /\ [Next]_scopeVars

LEMMA ScopeStep ==
  ASSUME \/ UNCHANGED scopeVars \/ EnterLocal(Current) \/ LeaveLocal(Current)
         \/ \E groups \in Matches : RxSet(Current, groups)
         \/ \E r \in Refs, v \in Values : Set(Current, r, v)
  PROVE  [Next]_scopeVars
BY CurrentAssumption DEF Next, scopeVars

LEMMA RaiseGood ==
  ASSUME SInv, NEW what \in {"error", "next", "return"}, Raise(what)
  PROVE  Good
<1>1. Built(stack, Depth(Current), raised)'
  BY RaisedOne
<1>2. UNCHANGED scopeVars /\ raised' = what
  BY DEF Raise
<1> QED
  BY <1>1, <1>2, ScopeStep DEF Good

LEMMA GoesOnGood ==
  ASSUME SInv, stack # <<>>, raised = "no", NEW a, Goes(a), UNCHANGED frames,
         IsAssign(a) \/ IsIf(a) \/ IsCase(a) \/ IsCall(a),
         a.base = Active.base, a.frames = Active.frames, FramesIn(a) = FramesIn(Active),
         [Next]_scopeVars
  PROVE  Good
<1>1. Built(stack, Depth(Current), raised)'
  BY GoesOn
<1> QED
  BY <1>1 DEF Good, Goes

LEMMA ActivitiesGood ==
  ASSUME SInv, ActivitiesNext
  PROVE  Good
<1>1. ASSUME NEW groups \in Matches, Match(groups)
      PROVE  Good
  <2>1. UNCHANGED frames /\ UNCHANGED <<stack, raised>>
    BY <1>1 DEF Match, RxSet
  <2>2. Depth(Current)' = Depth(Current)
    BY <2>1, SameDepth
  <2>3. [Next]_scopeVars
    BY <1>1, ScopeStep DEF Match
  <2> QED
    BY <2>1, <2>2, <2>3 DEF SInv, Good
<1>2. CASE Fail
  BY <1>2, RaiseGood DEF Fail
<1>3. CASE Unwind
  <2>1. /\ Activity(Active) /\ Active.base \in Nat \ {0} /\ Active.frames \in Nat
        /\ Depth(Current) = Active.base + Active.frames
    BY <1>3, TheActive DEF Unwind
  <2>2. CASE Active.frames > 0
    <3> DEFINE a == [Active EXCEPT !.frames = @ - 1]
    <3>1. LeaveLocal(Current) /\ Becomes(a) /\ UNCHANGED raised /\ raised # "no" /\ stack # <<>>
      BY <1>3, <2>2 DEF Unwind
    <3>2. a.base = Active.base /\ a.frames = Active.frames - 1 /\ Activity(a)
      <4>1. /\ a.base = Active.base /\ a.frames = Active.frames - 1
            /\ a.is = Active.is /\ a.phase = Active.phase
            /\ IsAssign(a) \/ IsIf(a) \/ IsCase(a) \/ IsCall(a)
        <5>1. CASE IsAssign(Active)
          BY <5>1 DEF IsAssign, HasFields
        <5>2. CASE IsIf(Active)
          BY <5>2 DEF IsIf, HasFields
        <5>3. CASE IsCase(Active)
          BY <5>3 DEF IsCase, HasFields
        <5>4. CASE IsCall(Active)
          BY <5>4 DEF IsCall, HasFields
        <5> QED
          BY <2>1, <5>1, <5>2, <5>3, <5>4 DEF Activity
      <4>2. FramesIn(a) = FramesIn(Active) /\ FramesIn(a) \in Nat
        BY <4>1 DEF FramesIn
      <4> HIDE DEF a
      <4>3. a.frames \in Nat /\ a.frames <= FramesIn(a)
        BY <2>1, <2>2, <4>1, <4>2 DEF Activity
      <4> QED
        BY <2>1, <4>1, <4>3 DEF Activity
    <3> HIDE DEF a
    <3>3. Depth(Current)' = a.base + a.frames
      <4>1. Depth(Current)' = Depth(Current) - 1
        BY <3>1, LeaveEffect, CurrentAssumption DEF SInv
      <4> QED
        BY <2>1, <3>2, <4>1
    <3>4. Built([stack EXCEPT ![Len(stack)] = a], a.base + a.frames, raised)
      BY <3>1, <3>2, Replaced DEF SInv, Active
    <3>5. Built(stack, Depth(Current), raised)'
      BY <3>1, <3>3, <3>4 DEF Becomes
    <3>6. [Next]_scopeVars
      BY <3>1, ScopeStep
    <3> QED
      BY <3>1, <3>5, <3>6 DEF Good, SInv
  <2>3. CASE ~(Active.frames > 0)
    <3>1. /\ stack # <<>> /\ stack' = Front(stack) /\ UNCHANGED scopeVars
          /\ raised' = "no" \/ UNCHANGED raised
      BY <1>3, <2>3 DEF Unwind, End
    <3>2. Depth(Current)' = Active.base
      <4>1. Depth(Current)' = Depth(Current)
        BY <3>1, SameDepth DEF scopeVars, vars
      <4> QED
        BY <2>1, <2>3, <4>1
    <3>3. Built(stack, Depth(Current), raised)'
      BY <3>1, <3>2, EndedOne
    <3> QED
      BY <3>1, <3>3, ScopeStep DEF Good, SInv
  <2> QED
    BY <2>2, <2>3
<1>4. CASE Recover
  <2>1. stack = <<>> /\ UNCHANGED <<scopeVars, stack>> /\ raised' = "no"
    BY <1>4 DEF Recover
  <2>2. Built(stack, Depth(Current), "no")
    BY <2>1, Panicked DEF SInv
  <2>3. Depth(Current)' = Depth(Current)
    BY <2>1, SameDepth DEF scopeVars, vars
  <2> QED
    BY <2>1, <2>2, <2>3, ScopeStep DEF Good
<1> QED
  BY <1>1, <1>2, <1>3, <1>4 DEF ActivitiesNext

LEMMA AssignmentGood ==
  ASSUME SInv, AssignmentNext
  PROVE  Good
<1>1. ASSUME NEW phase, In("assign", phase)
      PROVE  /\ stack # <<>> /\ raised = "no" /\ IsAssign(Active) /\ Active.phase = phase
             /\ Active.frames = 0 /\ Active.base \in Nat /\ FramesIn(Active) = 0
             /\ Depth(Current) = Active.base
  <2>1. stack # <<>> /\ raised = "no" /\ Active.is = "assign" /\ Active.phase = phase
    BY <1>1 DEF In
  <2>2. /\ Activity(Active) /\ Active.base \in Nat /\ Depth(Current) = Active.base + Active.frames
        /\ Active.frames = FramesIn(Active)
    BY <2>1, TheActive
  <2>3. IsAssign(Active)
    BY <2>1, <2>2 DEF Activity, IsIf, IsCase, IsCall
  <2>4. FramesIn(Active) = 0
    BY <2>1 DEF FramesIn
  <2> QED
    BY <2>1, <2>2, <2>3, <2>4
<1>2. ASSUME NEW assignment \in Assignments, BeginAssign(assignment)
      PROVE  Good
  <2> DEFINE a == [is |-> "assign", phase |-> "rhs", frames |-> 0, base |-> Depth(Current),
                   before |-> View(Current), left |-> assignment.left,
                   right |-> assignment.right, todo |-> <<>>, bound |-> <<>>]
  <2>1. assignment.left \in Lefts /\ assignment.right \in Rights
    BY AssignmentsAssumption
  <2>2. Depth(Current) \in Nat \ {0}
    BY Deep
  <2>3. IsAssign(a) /\ a.frames = 0 /\ a.base = Depth(Current)
    BY <2>1 DEF IsAssign, HasFields, Pieces
  <2>4. Begin(a) /\ UNCHANGED scopeVars
    BY <1>2 DEF BeginAssign
  <2> HIDE DEF a
  <2>5. FramesIn(a) = 0
    BY <2>3 DEF FramesIn, IsAssign
  <2>6. Activity(a)
    BY <2>2, <2>3, <2>5 DEF Activity
  <2>7. Depth(Current)' = Depth(Current) + a.frames
    BY <2>2, <2>3, <2>4, SameDepth DEF scopeVars, vars
  <2>8. Built(stack, Depth(Current), raised)'
    BY <2>3, <2>4, <2>5, <2>6, <2>7, Begun
  <2> QED
    BY <2>4, <2>8, ScopeStep DEF Good, Begin, SInv
<1>3. ASSUME NEW a, Goes(a), stack # <<>>, raised = "no", IsAssign(Active), FramesIn(Active) = 0,
             IsAssign(a), a.base = Active.base, a.frames = Active.frames,
             UNCHANGED frames, [Next]_scopeVars
      PROVE  Good
  <2>1. FramesIn(a) = 0
    BY <1>3 DEF FramesIn, IsAssign
  <2> QED
    BY <1>3, <2>1, GoesOnGood
<1>4. CASE RightEvaluated
  <2> DEFINE a == [Active EXCEPT !.phase = "assign",
                                 !.todo = <<<<Active.left, Active.right>>>>]
  <2>1. In("assign", "rhs") /\ Goes(a) /\ UNCHANGED scopeVars
    BY <1>4 DEF RightEvaluated
  <2>2. IsAssign(Active)
    BY <1>1, <2>1
  <2>3. a.base = Active.base /\ a.frames = Active.frames /\ IsAssign(a)
    <3> DEFINE todo == <<<<Active.left, Active.right>>>>
    <3>1. todo \in Pieces
      BY <2>2 DEF IsAssign, Pieces
    <3> HIDE DEF todo
    <3>2. a = [Active EXCEPT !.phase = "assign", !.todo = todo]
      BY DEF todo
    <3> HIDE DEF a
    <3> QED
      BY <2>2, <3>1, <3>2 DEF IsAssign, HasFields
  <2> HIDE DEF a
  <2>4. UNCHANGED frames /\ [Next]_scopeVars
    BY <2>1, ScopeStep DEF scopeVars, vars
  <2>5. stack # <<>> /\ raised = "no" /\ FramesIn(Active) = 0
    BY <1>1, <2>1
  <2> QED
    BY <1>3, <2>1, <2>2, <2>3, <2>4, <2>5
<1>5. ASSUME Assigning
      PROVE  /\ stack # <<>> /\ raised = "no" /\ IsAssign(Active) /\ FramesIn(Active) = 0
             /\ Active.todo \in Pieces /\ Active.todo # <<>>
             /\ Left \in Lefts /\ Right \in Rights \cup {Missing} /\ Tail(Active.todo) \in Pieces
             /\ Head(Active.todo) = <<Left, Right>>
  <2>1. In("assign", "assign") /\ Active.todo # <<>>
    BY <1>5 DEF Assigning
  <2>2. stack # <<>> /\ raised = "no" /\ IsAssign(Active) /\ FramesIn(Active) = 0
    BY <1>1, <2>1
  <2>3. Active.todo \in Pieces
    BY <2>2 DEF IsAssign
  <2>4. Head(Active.todo) \in Lefts \X (Rights \cup {Missing}) /\ Tail(Active.todo) \in Pieces
    BY <2>1, <2>3 DEF Pieces
  <2> QED
    BY <2>1, <2>2, <2>3, <2>4 DEF Left, Right
<1>6. ASSUME Assigning, NEW todo \in Pieces, NEW bound,
             Goes([Active EXCEPT !.todo = todo, !.bound = bound]),
             UNCHANGED frames, [Next]_scopeVars
      PROVE  Good
  <2> DEFINE a == [Active EXCEPT !.todo = todo, !.bound = bound]
  <2>1. stack # <<>> /\ raised = "no" /\ IsAssign(Active) /\ FramesIn(Active) = 0
    BY <1>5, <1>6
  <2>2. a.base = Active.base /\ a.frames = Active.frames /\ IsAssign(a)
    BY <2>1 DEF IsAssign, HasFields
  <2> HIDE DEF a
  <2> QED
    BY <1>3, <1>6, <2>1, <2>2 DEF a
<1>7. ASSUME Assigning, NEW todo \in Pieces,
             Goes([Active EXCEPT !.todo = todo]), UNCHANGED scopeVars
      PROVE  Good
  <2> DEFINE a == [Active EXCEPT !.todo = todo]
  <2>1. stack # <<>> /\ raised = "no" /\ IsAssign(Active) /\ FramesIn(Active) = 0
    BY <1>5, <1>7
  <2>2. a.base = Active.base /\ a.frames = Active.frames /\ IsAssign(a)
    BY <2>1 DEF IsAssign, HasFields
  <2>3. UNCHANGED frames /\ [Next]_scopeVars
    BY <1>7, ScopeStep DEF scopeVars, vars
  <2> HIDE DEF a
  <2> QED
    BY <1>3, <1>7, <2>1, <2>2, <2>3 DEF a
<1>8. ASSUME Raise("error")
      PROVE  Good
  BY <1>8, RaiseGood
<1>9. CASE AssignName
  <2>1. Assigning /\ Left.is = "name" /\ Right # Missing
    BY <1>9 DEF AssignName
  <2>2. CASE MaySet(Current, Left.ref)
    <3>1. Set(Current, Left.ref, Right) /\ Goes([Active EXCEPT !.todo = Tail(@), !.bound = Append(@, Head(Active.todo))])
      BY <1>9, <2>2 DEF AssignName
    <3>2. Left \in Lefts /\ Right \in Values /\ Tail(Active.todo) \in Pieces
      BY <1>5, <2>1, AssignmentsAssumption
    <3>3. Left.ref \in Refs
      BY <2>1, <3>2, AssignmentsAssumption
    <3>4. [Next]_scopeVars /\ UNCHANGED frames
      BY <3>1, <3>2, <3>3, ScopeStep DEF Set
    <3> QED
      BY <1>6, <2>1, <3>1, <3>2, <3>4
  <2>3. CASE ~MaySet(Current, Left.ref)
    BY <1>8, <1>9, <2>3 DEF AssignName
  <2> QED
    BY <2>2, <2>3
<1>10. ASSUME NEW lefts \in Seq(Lefts), NEW rights \in Seq(Rights \cup {Missing}),
              Len(lefts) = Len(rights), NEW rest \in Pieces
       PROVE  Zip(lefts, rights) \o rest \in Pieces
  <2>1. Zip(lefts, rights) = [i \in 1 .. Len(lefts) |-> <<lefts[i], rights[i]>>]
    BY <1>10 DEF Zip
  <2>2. Zip(lefts, rights) \in Pieces
    BY <1>10, <2>1 DEF Pieces
  <2> QED
    BY <2>2 DEF Pieces
<1>11. CASE AssignArray
  <2>1. Assigning /\ Left.is = "list" /\ Right.is = "array"
    BY <1>11 DEF AssignArray
  <2>2. Left \in Lefts /\ Right \in Rights \cup {Missing} /\ Tail(Active.todo) \in Pieces
    BY <1>5, <2>1
  <2>3. Right \in Rights
    BY <2>1, <2>2 DEF Missing
  <2>4. Left.of \in Seq(Lefts) /\ Right.of \in Seq(Rights)
    BY <2>1, <2>2, <2>3, AssignmentsAssumption
  <2>5. Right.of \in Seq(Rights \cup {Missing})
    BY <2>4, Wider
  <2>6. CASE Len(Left.of) = Len(Right.of)
    <3>1. Goes([Active EXCEPT !.todo = Zip(Left.of, Right.of) \o Tail(@)]) /\ UNCHANGED scopeVars
      BY <1>11, <2>6 DEF AssignArray
    <3>2. Zip(Left.of, Right.of) \o Tail(Active.todo) \in Pieces
      BY <1>10, <2>2, <2>4, <2>5, <2>6
    <3> QED
      BY <1>7, <2>1, <3>1, <3>2
  <2>7. CASE Len(Left.of) # Len(Right.of)
    BY <1>8, <1>11, <2>7 DEF AssignArray
  <2> QED
    BY <2>6, <2>7
<1>12. CASE AssignHash
  <2>1. Assigning /\ Left.is = "list" /\ Right.is = "hash"
    BY <1>12 DEF AssignHash
  <2>2. Left \in Lefts /\ Right \in Rights \cup {Missing} /\ Tail(Active.todo) \in Pieces
    BY <1>5, <2>1
  <2>3. Right \in Rights
    BY <2>1, <2>2 DEF Missing
  <2>4. Left.of \in Seq(Lefts) /\ \A k \in DOMAIN Right.of : Right.of[k] \in Rights
    BY <2>1, <2>2, <2>3, AssignmentsAssumption
  <2> DEFINE of == Left.of
             values == [i \in DOMAIN of |-> ValueFor(Right.of, of[i])]
  <2>5. values \in Seq(Rights \cup {Missing}) /\ Len(values) = Len(of)
    <3>1. \A i \in 1 .. Len(of) : ValueFor(Right.of, of[i]) \in Rights \cup {Missing}
      BY <2>4 DEF ValueFor
    <3>2. DOMAIN of = 1 .. Len(of) /\ Len(of) \in Nat
      BY <2>4
    <3> HIDE DEF of
    <3> QED
      BY <3>1, <3>2
  <2>6. Goes([Active EXCEPT !.todo = Zip(of, values) \o Tail(@)]) /\ UNCHANGED scopeVars
    BY <1>12 DEF AssignHash
  <2> HIDE DEF values
  <2>7. Zip(of, values) \o Tail(Active.todo) \in Pieces
    BY <1>10, <2>2, <2>4, <2>5
  <2> QED
    BY <1>7, <2>1, <2>6, <2>7
<1>13. CASE AssignFails
  BY <1>8, <1>13 DEF AssignFails
<1>14. CASE AssignEnds
  <2>1. In("assign", "assign") /\ stack' = Front(stack) /\ UNCHANGED raised /\ UNCHANGED scopeVars
    BY <1>14 DEF AssignEnds, End
  <2>2. stack # <<>> /\ Depth(Current) = Active.base
    BY <1>1, <2>1
  <2>3. Depth(Current)' = Active.base
    BY <2>1, <2>2, SameDepth DEF scopeVars, vars
  <2>4. Built(stack, Depth(Current), raised)'
    BY <2>1, <2>2, <2>3, EndedOne
  <2> QED
    BY <2>1, <2>4, ScopeStep DEF Good, SInv
<1> QED
  BY <1>2, <1>4, <1>9, <1>11, <1>12, <1>13, <1>14 DEF AssignmentNext


LEMMA SelectionGood ==
  ASSUME SInv, SelectionNext
  PROVE  Good
<1>1. ASSUME NEW is \in {"if", "case"}, NEW phase, In(is, phase)
      PROVE  /\ stack # <<>> /\ raised = "no" /\ Active.is = is /\ Active.phase = phase
             /\ is = "if" => IsIf(Active)
             /\ is = "case" => IsCase(Active)
             /\ Active.frames = 1 /\ FramesIn(Active) = 1
             /\ Active.base \in Nat /\ Depth(Current) = Active.base + 1
  <2>1. stack # <<>> /\ raised = "no" /\ Active.is = is /\ Active.phase = phase
    BY <1>1 DEF In
  <2>2. /\ Activity(Active) /\ Active.base \in Nat /\ Depth(Current) = Active.base + Active.frames
        /\ Active.frames = FramesIn(Active)
    BY <2>1, TheActive
  <2>3. IsIf(Active) \/ IsCase(Active)
    BY <2>1, <2>2 DEF Activity, IsAssign, IsCall
  <2>4. FramesIn(Active) = 1
    BY <2>1 DEF FramesIn
  <2> QED
    BY <2>1, <2>2, <2>3, <2>4 DEF IsIf, IsCase
<1>2. ASSUME NEW a, BeginSelection(a), IsIf(a) \/ IsCase(a),
             a.base = Depth(Current), a.frames = 1
      PROVE  Good
  <2>1. Begin(a) /\ EnterLocal(Current)
    BY <1>2 DEF BeginSelection
  <2>2. FramesIn(a) = 1
    BY <1>2 DEF FramesIn, IsIf, IsCase
  <2>3. Activity(a)
    BY <1>2, <2>2, Deep DEF Activity
  <2>4. Depth(Current)' = Depth(Current) + a.frames
    BY <1>2, <2>1, EnterEffect, CurrentAssumption DEF SInv
  <2>5. Built(stack, Depth(Current), raised)'
    BY <1>2, <2>1, <2>2, <2>3, <2>4, Begun
  <2> QED
    BY <2>1, <2>5, ScopeStep DEF Good, Begin, SInv
<1>3. CASE BeginIf
  <2> DEFINE a == [is |-> "if", phase |-> "test", frames |-> 1, base |-> Depth(Current),
                   before |-> View(Current)]
  <2>1. IsIf(a) /\ a.base = Depth(Current) /\ a.frames = 1
    BY DEF IsIf, HasFields
  <2>2. BeginSelection(a)
    BY <1>3 DEF BeginIf
  <2> HIDE DEF a
  <2> QED
    BY <1>2, <2>1, <2>2
<1>4. ASSUME NEW options, BeginSelection(Case(options))
      PROVE  Good
  <2>1. /\ IsCase(Case(options))
        /\ Case(options).base = Depth(Current) /\ Case(options).frames = 1
    BY DEF Case, IsCase, HasFields
  <2> QED
    BY <1>2, <1>4, <2>1
<1>5. ASSUME NEW a, Goes(a), NEW is \in {"if", "case"}, NEW phase, In(is, phase),
             is = "if" => IsIf(a), is = "case" => IsCase(a),
             a.base = Active.base, a.frames = Active.frames, UNCHANGED frames, [Next]_scopeVars
      PROVE  Good
  <2>1. stack # <<>> /\ raised = "no" /\ FramesIn(Active) = 1
    BY <1>1, <1>5
  <2>2. FramesIn(a) = 1 /\ (IsIf(a) \/ IsCase(a))
    BY <1>5 DEF FramesIn, IsIf, IsCase
  <2> QED
    BY <1>5, <2>1, <2>2, GoesOnGood
<1>6. UNCHANGED scopeVars => UNCHANGED frames /\ [Next]_scopeVars
  BY ScopeStep DEF scopeVars, vars
<1>7. CASE IfTested
  <2> DEFINE a == [Active EXCEPT !.phase = "body"]
  <2>1. In("if", "test") /\ Goes(a) /\ UNCHANGED scopeVars
    BY <1>7 DEF IfTested
  <2>2. IsIf(Active)
    BY <1>1, <2>1
  <2>3. a.base = Active.base /\ a.frames = Active.frames /\ IsIf(a)
    BY <2>2 DEF IsIf, HasFields
  <2> HIDE DEF a
  <2> QED
    BY <1>5, <1>6, <2>1, <2>3
<1>8. ASSUME NEW phase, In("case", phase)
      PROVE  IsCase(Active)
  BY <1>1, <1>8
<1>9. CASE CaseTested
  <2> DEFINE a == [Active EXCEPT !.phase = "options"]
  <2>1. In("case", "test") /\ Goes(a) /\ UNCHANGED scopeVars
    BY <1>9 DEF CaseTested
  <2>2. IsCase(Active)
    BY <1>8, <2>1
  <2>3. a.base = Active.base /\ a.frames = Active.frames /\ IsCase(a)
    BY <2>2 DEF IsCase, HasFields
  <2> HIDE DEF a
  <2> QED
    BY <1>5, <1>6, <2>1, <2>3
<1>10. CASE MeetDefault
  <2> DEFINE a == [Active EXCEPT !.default = Active.all[Active.at].option, !.at = @ + 1]
  <2>1. In("case", "options") /\ Goes(a) /\ UNCHANGED scopeVars
    BY <1>10 DEF MeetDefault, AtAlternative
  <2>2. IsCase(Active)
    BY <1>8, <2>1
  <2>3. a.base = Active.base /\ a.frames = Active.frames /\ IsCase(a)
    BY <2>2 DEF IsCase, HasFields
  <2> HIDE DEF a
  <2> QED
    BY <1>5, <1>6, <2>1, <2>3
<1>11. CASE MeetValue
  <2> DEFINE a == [Active EXCEPT !.phase = "value"]
  <2>1. In("case", "options") /\ Goes(a) /\ UNCHANGED scopeVars
    BY <1>11 DEF MeetValue, AtAlternative
  <2>2. IsCase(Active)
    BY <1>8, <2>1
  <2>3. a.base = Active.base /\ a.frames = Active.frames /\ IsCase(a)
    BY <2>2 DEF IsCase, HasFields
  <2> HIDE DEF a
  <2> QED
    BY <1>5, <1>6, <2>1, <2>3
<1>12. CASE NoMatch
  <2> DEFINE a == [Active EXCEPT !.phase = "options", !.at = @ + 1, !.tried = Tried("no")]
  <2>1. In("case", "value") /\ Goes(a) /\ UNCHANGED scopeVars
    BY <1>12 DEF NoMatch
  <2>2. IsCase(Active)
    BY <1>8, <2>1
  <2>3. a.base = Active.base /\ a.frames = Active.frames /\ IsCase(a)
    BY <2>2 DEF IsCase, HasFields
  <2> HIDE DEF a
  <2> QED
    BY <1>5, <1>6, <2>1, <2>3
<1>13. CASE PlainMatch
  <2> DEFINE a == [Active EXCEPT !.phase = "body", !.selected = Active.all[Active.at].option,
                                 !.tried = Tried("yes")]
  <2>1. In("case", "value") /\ Goes(a) /\ UNCHANGED scopeVars
    BY <1>13 DEF PlainMatch
  <2>2. IsCase(Active)
    BY <1>8, <2>1
  <2>3. a.base = Active.base /\ a.frames = Active.frames /\ IsCase(a)
    BY <2>2 DEF IsCase, HasFields
  <2> HIDE DEF a
  <2> QED
    BY <1>5, <1>6, <2>1, <2>3
<1>14. CASE SelectDefault
  <2> DEFINE a == [Active EXCEPT !.phase = "body", !.selected = Active.default]
  <2>1. In("case", "options") /\ Goes(a) /\ UNCHANGED scopeVars
    BY <1>14 DEF SelectDefault
  <2>2. IsCase(Active)
    BY <1>8, <2>1
  <2>3. a.base = Active.base /\ a.frames = Active.frames /\ IsCase(a)
    BY <2>2 DEF IsCase, HasFields
  <2> HIDE DEF a
  <2> QED
    BY <1>5, <1>6, <2>1, <2>3
<1>15. ASSUME NEW groups \in Matches, RegexpMatch(groups)
       PROVE  Good
  <2> DEFINE a == [Active EXCEPT !.phase = "body", !.selected = Active.all[Active.at].option,
                                 !.tried = Tried("yes")]
  <2>1. In("case", "value") /\ Goes(a) /\ RxSet(Current, groups)
    BY <1>15 DEF RegexpMatch
  <2>2. IsCase(Active)
    BY <1>8, <2>1
  <2>3. a.base = Active.base /\ a.frames = Active.frames /\ IsCase(a)
    BY <2>2 DEF IsCase, HasFields
  <2> HIDE DEF a
  <2>4. UNCHANGED frames /\ [Next]_scopeVars
    BY <2>1, ScopeStep DEF RxSet
  <2> QED
    BY <1>5, <2>1, <2>3, <2>4
<1>16. CASE SelectionEnds
  <2>1. PICK is \in {"if", "case"} : \E phase : In(is, phase)
    BY <1>16 DEF SelectionEnds
  <2>2. /\ LeaveLocal(Current) /\ stack' = Front(stack) /\ UNCHANGED raised
    BY <1>16 DEF SelectionEnds, End
  <2>3. stack # <<>> /\ Depth(Current) = Active.base + 1 /\ Active.base \in Nat
    BY <1>1, <2>1
  <2>4. Depth(Current)' = Active.base
    BY <2>2, <2>3, LeaveEffect, CurrentAssumption DEF SInv
  <2>5. Built(stack, Depth(Current), raised)'
    BY <2>2, <2>3, <2>4, EndedOne
  <2> QED
    BY <2>2, <2>5, ScopeStep DEF Good, SInv
<1> QED
  BY <1>3, <1>4, <1>7, <1>9, <1>10, <1>11, <1>12, <1>13, <1>14, <1>15, <1>16
     DEF SelectionNext, BeginCase, BeginSelector


LEMMA CallsGood ==
  ASSUME SInv, CallsNext
  PROVE  Good
<1>1. ASSUME NEW phase, In("call", phase)
      PROVE  /\ stack # <<>> /\ raised = "no" /\ IsCall(Active) /\ Active.phase = phase
             /\ Active.frames = FramesIn(Active) /\ Active.base \in Nat \ {0}
             /\ Depth(Current) = Active.base + Active.frames
  <2>1. stack # <<>> /\ raised = "no" /\ Active.is = "call" /\ Active.phase = phase
    BY <1>1 DEF In
  <2>2. /\ Activity(Active) /\ Active.base \in Nat \ {0}
        /\ Depth(Current) = Active.base + Active.frames /\ Active.frames = FramesIn(Active)
    BY <2>1, TheActive
  <2>3. IsCall(Active)
    BY <2>1, <2>2 DEF Activity, IsAssign, IsIf, IsCase
  <2> QED
    BY <2>1, <2>2, <2>3
<1>2. ASSUME NEW a, IsCall(a)
      PROVE  FramesIn(a) = IF a.phase \in {"defaults", "default"} THEN 2 ELSE 1
  BY <1>2 DEF IsCall, FramesIn
<1>3. UNCHANGED scopeVars => UNCHANGED frames /\ [Next]_scopeVars
  BY ScopeStep DEF scopeVars, vars
<1>4. ASSUME NEW a, Goes(a), NEW phase, In("call", phase), IsCall(a),
             phase \in {"defaults", "default"} <=> a.phase \in {"defaults", "default"},
             a.base = Active.base, a.frames = Active.frames, UNCHANGED frames, [Next]_scopeVars
      PROVE  Good
  <2>1. /\ stack # <<>> /\ raised = "no" /\ IsCall(Active) /\ Active.phase = phase
        /\ Active.frames = FramesIn(Active)
    BY <1>1, <1>4
  <2>2. FramesIn(a) = FramesIn(Active)
    BY <1>2, <1>4, <2>1
  <2> QED
    BY <1>4, <2>1, <2>2, GoesOnGood
<1>5. ASSUME NEW a, Goes(a), NEW phase, In("call", phase), IsCall(a),
             a.base = Active.base, a.frames = FramesIn(a),
             \/ EnterLocal(Current) /\ a.frames = Active.frames + 1
             \/ LeaveLocal(Current) /\ a.frames = Active.frames - 1
      PROVE  Good
  <2>1. /\ stack # <<>> /\ raised = "no" /\ Active.base \in Nat \ {0} /\ Active.frames \in Nat
        /\ Depth(Current) = Active.base + Active.frames
    BY <1>1, <1>5, TheActive
  <2>2. a.frames \in Nat
    BY <1>2, <1>5
  <2>3. Depth(Current)' = a.base + a.frames
    BY <1>5, <2>1, <2>2, EnterEffect, LeaveEffect, CurrentAssumption DEF SInv
  <2>4. Activity(a)
    BY <1>5, <2>1, <2>2 DEF Activity
  <2>5. Built(stack, Depth(Current), raised)'
    BY <1>5, <2>1, <2>3, <2>4, Moved
  <2> QED
    BY <1>5, <2>5, ScopeStep DEF Good, Goes, SInv
<1>6. ASSUME NEW f \in Callables, NEW args \in Arguments, BeginCall(f, args)
      PROVE  Good
  <2> DEFINE a == [is |-> "call", phase |-> "called", frames |-> 1, base |-> Depth(Current),
                   before |-> View(Current), f |-> f, args |-> args, given |-> Len(args),
                   next |-> 1]
  <2>1. IsCall(a) /\ a.base = Depth(Current) /\ a.frames = 1 /\ a.phase = "called"
    BY CallablesAssumption DEF IsCall, HasFields, ArgumentsFit
  <2>2. Begin(a) /\ EnterLocal(Current)
    BY <1>6 DEF BeginCall
  <2> HIDE DEF a
  <2>3. FramesIn(a) = 1
    BY <1>2, <2>1
  <2>4. Activity(a)
    BY <2>1, <2>3, Deep DEF Activity
  <2>5. Depth(Current)' = Depth(Current) + a.frames
    BY <2>1, <2>2, EnterEffect, CurrentAssumption DEF SInv
  <2>6. Built(stack, Depth(Current), raised)'
    BY <2>1, <2>2, <2>3, <2>4, <2>5, Begun
  <2> QED
    BY <2>2, <2>6, ScopeStep DEF Good, Begin, SInv
<1>7. CASE EnterDefaults
  <2> DEFINE a == [Active EXCEPT !.phase = "defaults", !.frames = 2]
  <2>1. In("call", "called") /\ Goes(a) /\ EnterLocal(Current)
    BY <1>7 DEF EnterDefaults
  <2>2. IsCall(Active) /\ Active.phase = "called" /\ Active.frames = 1
    BY <1>1, <1>2, <2>1
  <2>3. IsCall(a) /\ a.base = Active.base /\ a.frames = 2 /\ a.phase = "defaults"
    BY <2>2 DEF IsCall, HasFields, ArgumentsFit
  <2> HIDE DEF a
  <2>4. a.frames = FramesIn(a) /\ a.frames = Active.frames + 1
    BY <1>2, <2>2, <2>3
  <2> QED
    BY <1>5, <2>1, <2>3, <2>4
<1>8. CASE NoDefaults
  <2> DEFINE a == [Active EXCEPT !.phase = "check"]
  <2>1. In("call", "called") /\ Goes(a) /\ UNCHANGED scopeVars
    BY <1>8 DEF NoDefaults
  <2>2. IsCall(Active) /\ Wanted = Len(Active.f.parameters) /\ Wanted <= Len(Active.args)
    BY <1>1, <1>8, <2>1 DEF NoDefaults, Wanted
  <2>a. ArgumentsFit("check", Active.f, Active.args)
    BY <2>2, CallablesAssumption DEF ArgumentsFit, IsCall
  <2>3. IsCall(a) /\ a.base = Active.base /\ a.frames = Active.frames /\ a.phase = "check"
    BY <2>2, <2>a DEF IsCall, HasFields
  <2> HIDE DEF a
  <2> QED
    BY <1>3, <1>4, <2>1, <2>3
<1>9. ASSUME NEW phase \in {"defaults", "default"}, In("call", phase), NEW value \in Values,
             Goes(WithArgument(value)), UNCHANGED scopeVars
      PROVE  Good
  <2> DEFINE a == WithArgument(value)
  <2>1. IsCall(Active)
    BY <1>1, <1>9
  <2>2. IsCall(a) /\ a.base = Active.base /\ a.frames = Active.frames /\ a.phase = "defaults"
    <3> DEFINE args == Append(Active.args, value)
    <3>1. args \in Seq(Values)
      BY <2>1 DEF IsCall
    <3>2. a = [Active EXCEPT !.phase = "defaults", !.args = args]
      BY DEF WithArgument
    <3> HIDE DEF args, a
    <3>3. ArgumentsFit("defaults", Active.f, args)
      BY DEF ArgumentsFit
    <3> QED
      BY <2>1, <3>1, <3>2, <3>3 DEF IsCall, HasFields
  <2> HIDE DEF a
  <2> QED
    BY <1>3, <1>4, <1>9, <2>2 DEF a
<1>10. ASSUME Raise("error")
       PROVE  Good
  BY <1>10, RaiseGood
<1>11. ASSUME NEW phase \in {"defaults", "default"}, In("call", phase)
       PROVE  /\ Wanted = Len(Active.f.parameters) /\ Active.f.parameters \in Seq(Parameters)
              /\ Len(Active.args) \in Nat /\ Active.args \in Seq(Values)
  <2>1. IsCall(Active)
    BY <1>1, <1>11
  <2> QED
    BY <2>1, CallablesAssumption DEF IsCall, Wanted
<1>12. ASSUME NEW phase \in {"defaults", "default"}, In("call", phase),
              Len(Active.args) < Wanted, NEW value, Defaulted(value)
       PROVE  Good
  <2>1. NextParameter \in Parameters
    BY <1>11, <1>12 DEF NextParameter, Param
  <2>2. CASE value \in NextParameter.type
    <3>1. value \in Values
      BY <2>1, <2>2 DEF Parameters
    <3> QED
      BY <1>9, <1>12, <2>2, <3>1 DEF Defaulted
  <2>3. CASE value \notin NextParameter.type
    BY <1>10, <1>12, <2>3 DEF Defaulted
  <2> QED
    BY <2>2, <2>3
<1>13. DefaultNeeded => In("call", "defaults") /\ Len(Active.args) < Wanted
  BY DEF DefaultNeeded
<1>14. CASE NoDefault
  <2>1. In("call", "defaults") /\ Goes(WithArgument(Undef)) /\ UNCHANGED scopeVars
    BY <1>13, <1>14 DEF NoDefault
  <2> QED
    BY <1>9, <2>1, CallablesAssumption
<1>15. CASE ValueDefault
  BY <1>12, <1>13, <1>15 DEF ValueDefault
<1>16. CASE VariableDefault
  <2> DEFINE value == Get2(Current, NextParameter.default.ref)
  <2>1. In("call", "defaults") /\ Len(Active.args) < Wanted
    BY <1>13, <1>16 DEF VariableDefault
  <2>2. Raise("error") \/ Defaulted(value)
    BY <1>16 DEF VariableDefault
  <2> HIDE DEF value
  <2> QED
    BY <1>10, <1>12, <2>1, <2>2
<1>17. CASE CodeDefault
  <2> DEFINE a == [Active EXCEPT !.phase = "default"]
  <2>1. In("call", "defaults") /\ Goes(a) /\ UNCHANGED scopeVars
    BY <1>13, <1>17 DEF CodeDefault
  <2>2. IsCall(Active) /\ Wanted = Len(Active.f.parameters) /\ Len(Active.args) < Wanted
    BY <1>1, <1>13, <1>17, <2>1 DEF CodeDefault, Wanted
  <2>a. ArgumentsFit("default", Active.f, Active.args)
    BY <2>2 DEF ArgumentsFit
  <2>3. IsCall(a) /\ a.base = Active.base /\ a.frames = Active.frames /\ a.phase = "default"
    BY <2>2, <2>a DEF IsCall, HasFields
  <2> HIDE DEF a
  <2> QED
    BY <1>3, <1>4, <2>1, <2>3
<1>18. ASSUME NEW value \in Atoms, CodeDefaultEvaluated(value)
       PROVE  Good
  <2>1. In("call", "default") /\ Defaulted(value)
    BY <1>18 DEF CodeDefaultEvaluated
  <2>2. IsCall(Active) /\ Active.phase = "default" /\ Wanted = Len(Active.f.parameters)
    BY <1>1, <2>1 DEF Wanted
  <2>3. Len(Active.args) < Wanted
    BY <2>2 DEF IsCall, ArgumentsFit
  <2> QED
    BY <1>12, <2>1, <2>3
<1>19. CASE LeaveDefaults
  <2> DEFINE a == [Active EXCEPT !.phase = "check", !.frames = 1]
  <2>1. In("call", "defaults") /\ Len(Active.args) = Wanted /\ Goes(a) /\ LeaveLocal(Current)
    BY <1>19 DEF LeaveDefaults
  <2>2. /\ IsCall(Active) /\ Active.phase = "defaults" /\ Active.frames = 2
        /\ Wanted = Len(Active.f.parameters)
    BY <1>1, <1>2, <2>1 DEF Wanted
  <2>3. ArgumentsFit("check", Active.f, Active.args)
    BY <1>11, <2>1, <2>2 DEF ArgumentsFit
  <2>4. IsCall(a) /\ a.base = Active.base /\ a.frames = 1 /\ a.phase = "check"
    BY <2>2, <2>3 DEF IsCall, HasFields
  <2> HIDE DEF a
  <2>5. a.frames = FramesIn(a) /\ a.frames = Active.frames - 1
    BY <1>2, <2>2, <2>4
  <2> QED
    BY <1>5, <2>1, <2>4, <2>5
<1>20. CASE Check
  <2>1. In("call", "check")
    BY <1>20 DEF Check
  <2>2. IsCall(Active) /\ Active.phase = "check" /\ Wanted = Len(Active.f.parameters)
    BY <1>1, <2>1 DEF Wanted
  <2>3. CASE Checked
    <3> DEFINE a == [Active EXCEPT !.phase = "bind"]
    <3>1. Goes(a) /\ UNCHANGED scopeVars
      BY <1>20, <2>3 DEF Check
    <3>2. ArgumentsFit("bind", Active.f, Active.args)
      <4>1. /\ Len(Active.args) >= Wanted /\ Active.args \in Seq(Values) /\ Len(Active.args) \in Nat
            /\ Wanted \in Nat
        BY <2>2, CallablesAssumption DEF IsCall, ArgumentsFit
      <4>2. ASSUME NEW i \in 1 .. Wanted
            PROVE  Active.args[i] \in Active.f.parameters[i].type
        <5>1. i \in DOMAIN Active.args
          BY <4>1
        <5> QED
          BY <2>3, <4>1, <5>1 DEF Checked, Param
      <4> QED
        BY <2>2, <4>1, <4>2 DEF ArgumentsFit
    <3>3. IsCall(a) /\ a.base = Active.base /\ a.frames = Active.frames /\ a.phase = "bind"
      BY <2>2, <3>2 DEF IsCall, HasFields
    <3> HIDE DEF a
    <3> QED
      BY <1>3, <1>4, <2>1, <3>1, <3>3
  <2>4. CASE ~Checked
    BY <1>10, <1>20, <2>4 DEF Check
  <2> QED
    BY <2>3, <2>4
<1>21. CASE Bind
  <2> DEFINE a == [Active EXCEPT !.next = @ + 1]
             r == LocalName(Param(Active.next).name)
             v == Active.args[Active.next]
  <2>1. In("call", "bind") /\ Active.next <= Wanted /\ Goes(a) /\ Set(Current, r, v)
    BY <1>21 DEF Bind
  <2>2. IsCall(Active) /\ Active.phase = "bind" /\ Wanted = Len(Active.f.parameters)
    BY <1>1, <2>1 DEF Wanted
  <2>3. /\ Active.next \in 1 .. Wanted /\ Len(Active.args) >= Wanted /\ Active.args \in Seq(Values)
        /\ Active.f.parameters \in Seq(Parameters) /\ Len(Active.args) \in Nat /\ Wanted \in Nat
    BY <2>1, <2>2, CallablesAssumption DEF IsCall, ArgumentsFit
  <2>4. r \in Refs /\ v \in Values
    <3>1. Param(Active.next) \in Parameters /\ v \in Values
      BY <2>2, <2>3 DEF Param
    <3>2. Param(Active.next).name \in Names
      BY <3>1 DEF Parameters
    <3> QED
      BY <3>1, <3>2 DEF LocalName, Refs
  <2>5. IsCall(a) /\ a.base = Active.base /\ a.frames = Active.frames /\ a.phase = "bind"
    BY <2>2 DEF IsCall, HasFields
  <2> HIDE DEF a, r, v
  <2>6. UNCHANGED frames /\ [Next]_scopeVars
    BY <2>1, <2>4, ScopeStep DEF Set
  <2> QED
    BY <1>4, <2>1, <2>5, <2>6
<1>22. CASE EvaluateBody
  <2> DEFINE a == [Active EXCEPT !.phase = "body"]
  <2>1. In("call", "bind") /\ Goes(a) /\ UNCHANGED scopeVars
    BY <1>22 DEF EvaluateBody
  <2>2. IsCall(Active)
    BY <1>1, <2>1
  <2>3. IsCall(a) /\ a.base = Active.base /\ a.frames = Active.frames /\ a.phase = "body"
    <3>1. ArgumentsFit("body", Active.f, Active.args)
      BY DEF ArgumentsFit
    <3> QED
      BY <2>2, <3>1 DEF IsCall, HasFields
  <2> HIDE DEF a
  <2> QED
    BY <1>3, <1>4, <2>1, <2>3
<1>23. ASSUME NEW value \in Atoms, CallEnds(value)
       PROVE  Good
  <2>1. In("call", "body")
    BY <1>23 DEF CallEnds
  <2>2. CASE value \in Active.f.returns
    <3>1. LeaveLocal(Current) /\ stack' = Front(stack) /\ UNCHANGED raised
      BY <1>23, <2>2 DEF CallEnds, End
    <3>2. stack # <<>> /\ Depth(Current) = Active.base + 1 /\ Active.base \in Nat
      BY <1>1, <1>2, <2>1
    <3>3. Depth(Current)' = Active.base
      BY <3>1, <3>2, LeaveEffect, CurrentAssumption DEF SInv
    <3>4. Built(stack, Depth(Current), raised)'
      BY <3>1, <3>2, <3>3, EndedOne
    <3> QED
      BY <3>1, <3>4, ScopeStep DEF Good, SInv
  <2>3. CASE value \notin Active.f.returns
    BY <1>10, <1>23, <2>3 DEF CallEnds
  <2> QED
    BY <2>2, <2>3
<1> QED
  BY <1>6, <1>7, <1>8, <1>14, <1>15, <1>16, <1>17, <1>18, <1>19, <1>20, <1>21, <1>22, <1>23
     DEF CallsNext

-----------------------------------------------------------------------------
(* Theorems. *)

LEMMA StepGood ==
  ASSUME SInv, [StatementsNext]_allVars
  PROVE  Good
<1>1. CASE UNCHANGED allVars
  <2>1. UNCHANGED scopeVars /\ UNCHANGED <<stack, raised>>
    BY <1>1 DEF allVars, activityVars
  <2>2. Depth(Current)' = Depth(Current)
    BY <2>1, SameDepth DEF scopeVars, vars
  <2> QED
    BY <2>1, <2>2, ScopeStep DEF SInv, Good
<1>2. CASE StatementsNext
  BY <1>2, ActivitiesGood, AssignmentGood, SelectionGood, CallsGood DEF StatementsNext
<1> QED
  BY <1>1, <1>2

LEMMA StepSInv ==
  ASSUME SInv, [StatementsNext]_allVars
  PROVE  SInv'
<1>1. Good
  BY StepGood
<1>2. IInv'
  BY <1>1, StepIInv DEF SInv, Good, scopeVars
<1> QED
  BY <1>1, <1>2 DEF SInv, Good

LEMMA InitSInv ==
  ASSUME StatementsInit
  PROVE  SInv
<1>1. /\ mutable = [s \in ScopeIds |-> FALSE] /\ eps = [s \in ScopeIds |-> <<>>]
      /\ stack = <<>> /\ raised = "no"
  BY DEF StatementsInit, ActivitiesInit
<1>2. PICK o \in Origins :
        /\ parent = o.parent /\ maps = o.maps
        /\ frames = [s \in ScopeIds |-> [i \in 1 .. o.depth[s] |-> <<s, i>>]]
  BY DEF StatementsInit, ActivitiesInit
<1>3. /\ o.parent \in [ScopeIds -> ScopeIds \cup {None}] /\ o.maps \in [MapIds -> [Keys -> Cells]]
      /\ o.depth[Current] = 1 /\ Current \in ScopeIds
      /\ \A s \in ScopeIds : o.depth[s] \in 0 .. MaxDepth
      /\ \A s \in ScopeIds : o.parent[s] # None => o.depth[s] > 0 /\ o.depth[o.parent[s]] > 0
  BY OriginsAssumption, CurrentAssumption
<1>4. ASSUME NEW s \in ScopeIds
      PROVE  /\ Depth(s) = o.depth[s] /\ Depth(s) \in 0 .. MaxDepth
             /\ frames[s] \in Seq(MapIds) /\ (Allocated(s) <=> o.depth[s] > 0)
             /\ \A i \in 1 .. Depth(s) : frames[s][i] = <<s, i>>
  <2>1. PICK d \in 0 .. MaxDepth : d = o.depth[s]
    BY <1>3
  <2>2. frames[s] = [i \in 1 .. d |-> <<s, i>>] /\ d \in Nat
    BY <1>2, <2>1, MaxDepthAssumption
  <2>3. \A i \in 1 .. d : <<s, i>> \in MapIds
    BY MaxDepthAssumption DEF MapIds
  <2>4. frames[s] \in Seq(MapIds) /\ Len(frames[s]) = d
    <3> HIDE DEF MapIds
    <3> QED
      BY <2>2, <2>3
  <2>5. frames[s] = <<>> <=> d = 0
    BY <2>2, <2>4
  <2> QED
    BY <2>1, <2>2, <2>4, <2>5 DEF Depth, Allocated
<1>5. TypeOK
  <2>1. frames \in [ScopeIds -> Seq(MapIds)]
    BY <1>2, <1>4
  <2> QED
    BY <1>1, <1>2, <1>3, <2>1 DEF TypeOK
<1>6. PopsItsOwnFrame
  <2>1. ASSUME NEW s \in ScopeIds
        PROVE  Len(eps[s]) = 0 /\ Depth(s) \in Nat /\ (Allocated(s) => Depth(s) > 0)
    BY <1>1, <1>4, MaxDepthAssumption
  <2> QED
    BY <2>1 DEF PopsItsOwnFrame
<1>7. ASSUME NEW s \in ScopeIds
      PROVE  /\ Depth(s) <= MaxDepth
             /\ \A i \in 1 .. Depth(s) : frames[s][i] = <<s, i>>
             /\ parent[s] # None => Allocated(s) /\ Allocated(parent[s])
  <2>1. Depth(s) <= MaxDepth /\ \A i \in 1 .. Depth(s) : frames[s][i] = <<s, i>>
    BY <1>4, MaxDepthAssumption
  <2>2. parent[s] # None => parent[s] \in ScopeIds
    BY <1>2, <1>3
  <2> QED
    BY <1>2, <1>3, <1>4, <2>1, <2>2
<1>8. IInv
  BY <1>5, <1>6, <1>7 DEF IInv
<1>9. Built(stack, Depth(Current), raised)
  <2>1. IsSequence(<<>>) /\ Len(stack) = 0
    BY <1>1 DEF IsSequence
  <2>2. Depth(Current) = 1
    BY <1>3, <1>4
  <2> QED
    BY <1>1, <2>1, <2>2 DEF Built, Top
<1> QED
  BY <1>1, <1>8, <1>9 DEF SInv

LEMMA BuiltAlways == StatementsSpec => []SInv
<1>1. StatementsInit => SInv
  BY InitSInv
<1>2. SInv /\ [StatementsNext]_allVars => SInv'
  BY StepSInv
<1> QED
  BY <1>1, <1>2, PTL DEF StatementsSpec

\* Whatever assignments, selections and calls do to the scope, each step of them
\* is a step of the users that Scope describes.
THEOREM StatementsUseScope == StatementsSpec => UsesScope
<1>1. SInv /\ [StatementsNext]_allVars => [Next]_scopeVars
  BY StepGood DEF Good
<1>2. [][[Next]_scopeVars]_scopeVars => UsesScope
  BY PTL DEF UsesScope
<1>3. UNCHANGED allVars => UNCHANGED scopeVars
  BY DEF allVars
<1> QED
  BY <1>1, <1>3, BuiltAlways, PTL DEF StatementsSpec, UsesScope

\* The frames of the scope are those of the activities on the stack.
LEMMA BuiltFrames == SInv => StatementsTypeOK /\ FramesOfActivities
<1> SUFFICES ASSUME SInv
             PROVE  StatementsTypeOK /\ FramesOfActivities
  OBVIOUS
<1>1. PICK S : stack \in Seq(S)
  BY DEF SInv, Built, IsSequence
<1>2. DOMAIN stack = 1 .. Len(stack)
  BY <1>1
<1>3. ASSUME NEW i \in DOMAIN stack
      PROVE  Level(stack, i, raised)
  BY <1>2, <1>3 DEF SInv, Built
<1>4. ASSUME NEW i \in DOMAIN stack
      PROVE  /\ stack[i].is \in {"assign", "if", "case", "call"}
             /\ stack[i].frames <= FramesIn(stack[i])
  BY <1>3 DEF Level, Activity, IsAssign, IsIf, IsCase, IsCall
<1>5. StatementsTypeOK
  BY <1>3, <1>4 DEF StatementsTypeOK, SInv, IInv, Level
<1>6. Depth(Current) = IF stack = <<>> THEN 1 ELSE Active.base + Active.frames
  BY DEF SInv, Built, Top, Active
<1>7. FramesOfActivities
  BY <1>3, <1>6 DEF FramesOfActivities, Level
<1> QED
  BY <1>5, <1>7

\* The type invariant, for any constructs on the stack.
THEOREM StatementsTyped == StatementsSpec => []StatementsTypeOK
BY BuiltAlways, BuiltFrames, PTL

\* However activities end, with a value, a next, a return or a panic, the scope
\* is as deep as those that still run have made it.
THEOREM StatementsLeaveTheirFrames == StatementsSpec => []FramesOfActivities
BY BuiltAlways, BuiltFrames, PTL

\* What holds of every user of Scope holds of Puppet code: its variables are
\* bound once, and what a local scope covers is frozen.
THEOREM StatementsBindOnce == StatementsSpec => BoundOnce /\ CoveredFramesFrozen
<1>1. SInv /\ SInv' /\ [StatementsNext]_allVars => [BoundKept]_vars /\ [CoveredKept]_vars
  <2> SUFFICES ASSUME SInv, SInv', [StatementsNext]_allVars
               PROVE  [BoundKept]_vars /\ [CoveredKept]_vars
    OBVIOUS
  <2>1. IInv /\ IInv' /\ [Next]_vars
    BY StepGood DEF Good, SInv, scopeVars
  <2> QED
    BY <2>1, BoundStep, CoveredStep
<1>2. [][BoundKept]_vars => BoundOnce
  BY DEF BoundKept, BoundOnce
<1>3. [][CoveredKept]_vars => CoveredFramesFrozen
  BY DEF CoveredKept, CoveredFramesFrozen
<1>4. StatementsSpec => [][BoundKept]_vars /\ [][CoveredKept]_vars
  BY <1>1, BuiltAlways, PTL DEF StatementsSpec
<1> QED
  BY <1>2, <1>3, <1>4

\* No two scopes write to one frame, whatever Puppet code runs.
THEOREM StatementsKeepFramesApart == StatementsSpec => []NoSharedMaps
<1>1. SInv => NoSharedMaps
  BY DEF SInv, IInv, NoSharedMaps
<1> QED
  BY <1>1, BuiltAlways, PTL

-----------------------------------------------------------------------------
(* What a step does to the stack. *)

\* An activity of that kind begins, in a local scope unless it is an assignment.
Begins(is) ==
  \E a :
    /\ Begin(a) /\ a.is = is /\ a.base = Depth(Current) /\ a.before = View(Current)
    /\ IF is = "assign" THEN UNCHANGED scopeVars ELSE EnterLocal(Current)

\* The innermost activity goes on, and may write to the scope while it runs.
Continues(is) ==
  /\ stack # <<>> /\ Active.is = is
  /\ \E a : Becomes(a) /\ a.is = is /\ a.base = Active.base /\ a.before = Active.before
  /\ \/ UNCHANGED scopeVars \/ EnterLocal(Current) \/ LeaveLocal(Current)
     \/ /\ raised = "no"
        /\ \/ \E groups \in Matches : RxSet(Current, groups)
           \/ \E r \in Refs, v \in Values : Set(Current, r, v)

\* It ends, and pops the frame that it may still have.
Ends(is) ==
  /\ stack # <<>> /\ Active.is = is /\ \E what, value : End(what, value)
  /\ UNCHANGED scopeVars \/ LeaveLocal(Current)

Moves(is) == Begins(is) \/ Continues(is) \/ Ends(is) \/ \E what : what # "no" /\ Raise(what)

LEMMA GoesMoves ==
  ASSUME NEW is, NEW phase, In(is, phase), NEW a, Goes(a), a.is = Active.is, a.base = Active.base,
         a.before = Active.before,
         UNCHANGED scopeVars \/ EnterLocal(Current) \/ LeaveLocal(Current)
  PROVE  Moves(is)
<1>1. stack # <<>> /\ Active.is = is /\ Becomes(a)
  BY DEF In, Goes
<1> QED
  BY <1>1 DEF Moves, Continues

LEMMA WritesMoves ==
  ASSUME NEW is, NEW phase, In(is, phase), NEW a, Goes(a), a.is = Active.is,
         a.base = Active.base, a.before = Active.before,
         \/ \E groups \in Matches : RxSet(Current, groups)
         \/ \E r \in Refs, v \in Values : Set(Current, r, v)
  PROVE  Moves(is)
<1>1. stack # <<>> /\ Active.is = is /\ Becomes(a) /\ raised = "no"
  BY DEF In, Goes
<1> QED
  BY <1>1 DEF Moves, Continues

LEMMA RaiseMoves ==
  ASSUME NEW is, Raise("error")
  PROVE  Moves(is)
BY DEF Moves

LEMMA InAssign ==
  ASSUME SInv, NEW phase, In("assign", phase)
  PROVE  IsAssign(Active)
BY TheActive DEF In, Activity, IsIf, IsCase, IsCall
LEMMA InIf ==
  ASSUME SInv, NEW phase, In("if", phase)
  PROVE  IsIf(Active)
BY TheActive DEF In, Activity, IsAssign, IsCase, IsCall
LEMMA InCase ==
  ASSUME SInv, NEW phase, In("case", phase)
  PROVE  IsCase(Active)
BY TheActive DEF In, Activity, IsAssign, IsIf, IsCall
LEMMA InCall ==
  ASSUME SInv, NEW phase, In("call", phase)
  PROVE  IsCall(Active)
BY TheActive DEF In, Activity, IsAssign, IsIf, IsCase

LEMMA AssignmentMoves ==
  ASSUME SInv, AssignmentNext
  PROVE  Moves("assign")
<1>1. ASSUME NEW assignment \in Assignments, BeginAssign(assignment)
      PROVE  Moves("assign")
  <2> DEFINE a == [is |-> "assign", phase |-> "rhs", frames |-> 0, base |-> Depth(Current),
                   before |-> View(Current), left |-> assignment.left,
                   right |-> assignment.right, todo |-> <<>>, bound |-> <<>>]
  <2>1. /\ Begin(a) /\ UNCHANGED scopeVars
        /\ a.is = "assign" /\ a.base = Depth(Current) /\ a.before = View(Current)
    BY <1>1 DEF BeginAssign
  <2> HIDE DEF a
  <2> QED
    BY <2>1 DEF Moves, Begins
<1>2. CASE RightEvaluated
  <2> DEFINE a == [Active EXCEPT !.phase = "assign", !.todo = <<<<Active.left, Active.right>>>>]
  <2>1. In("assign", "rhs") /\ Goes(a) /\ UNCHANGED scopeVars
    BY <1>2 DEF RightEvaluated
  <2>2. a.is = Active.is /\ a.base = Active.base /\ a.before = Active.before
    BY <2>1, InAssign DEF IsAssign, HasFields
  <2> HIDE DEF a
  <2> QED
    BY <2>1, <2>2, GoesMoves
<1>3. ASSUME NEW todo, In("assign", "assign"), UNCHANGED scopeVars,
             Goes([Active EXCEPT !.todo = todo])
      PROVE  Moves("assign")
  <2> DEFINE a == [Active EXCEPT !.todo = todo]
  <2>1. a.is = Active.is /\ a.base = Active.base /\ a.before = Active.before
    BY <1>3, InAssign DEF IsAssign, HasFields
  <2>2. Goes(a)
    BY <1>3
  <2> HIDE DEF a
  <2> QED
    BY <1>3, <2>1, <2>2, GoesMoves
<1>4. Raise("error") => Moves("assign")
  BY RaiseMoves
<1>5. CASE AssignName
  <2>1. In("assign", "assign") /\ Active.todo # <<>> /\ Left.is = "name" /\ Right # Missing
    BY <1>5 DEF AssignName, Assigning
  <2>2. CASE Raise("error")
    BY <1>4, <2>2
  <2>3. CASE ~Raise("error")
    <3> DEFINE bound == Append(Active.bound, Head(Active.todo))
               a == [Active EXCEPT !.todo = Tail(Active.todo), !.bound = bound]
    <3>1. Set(Current, Left.ref, Right) /\ Goes(a)
      BY <1>5, <2>3 DEF AssignName
    <3>2. IsAssign(Active)
      BY <2>1, InAssign
    <3>3. a.is = Active.is /\ a.base = Active.base /\ a.before = Active.before
      <4> HIDE DEF bound
      <4> QED
        BY <3>2 DEF IsAssign, HasFields
    <3>4. Left.ref \in Refs /\ Right \in Values
      <4>1. Active.todo \in Pieces /\ Active.todo # <<>>
        BY <2>1, <3>2 DEF IsAssign
      <4>2. Head(Active.todo) \in Lefts \X (Rights \cup {Missing})
        BY <4>1 DEF Pieces
      <4>3. Left \in Lefts /\ Right \in Rights \cup {Missing}
        BY <4>2 DEF Left, Right
      <4> QED
        BY <2>1, <4>3, AssignmentsAssumption
    <3> HIDE DEF a
    <3> QED
      BY <2>1, <3>1, <3>3, <3>4, WritesMoves
  <2> QED
    BY <2>2, <2>3
<1>6. CASE AssignArray
  <2> DEFINE todo == Zip(Left.of, Right.of) \o Tail(Active.todo)
  <2>1. /\ In("assign", "assign")
        /\ Raise("error") \/ (Goes([Active EXCEPT !.todo = todo]) /\ UNCHANGED scopeVars)
    BY <1>6 DEF AssignArray, Assigning
  <2> HIDE DEF todo
  <2> QED
    BY <1>3, <1>4, <2>1
<1>7. CASE AssignHash
  <2> DEFINE values == [i \in DOMAIN Left.of |-> ValueFor(Right.of, Left.of[i])]
             todo == Zip(Left.of, values) \o Tail(Active.todo)
  <2>1. In("assign", "assign") /\ Goes([Active EXCEPT !.todo = todo]) /\ UNCHANGED scopeVars
    BY <1>7 DEF AssignHash, Assigning
  <2> HIDE DEF todo
  <2> QED
    BY <1>3, <2>1
<1>8. CASE AssignFails
  BY <1>4, <1>8 DEF AssignFails
<1>9. CASE AssignEnds
  BY <1>9 DEF AssignEnds, In, Moves, Ends
<1> QED
  BY <1>1, <1>2, <1>5, <1>6, <1>7, <1>8, <1>9 DEF AssignmentNext

LEMMA SelectionMoves ==
  ASSUME SInv, SelectionNext
  PROVE  \E is \in {"if", "case"} : Moves(is)
<1>1. ASSUME NEW is \in {"if", "case"}, NEW a, BeginSelection(a), a.is = is,
             a.base = Depth(Current), a.before = View(Current)
      PROVE  Moves(is)
  BY <1>1 DEF BeginSelection, Moves, Begins
<1>2. CASE BeginIf
  <2> DEFINE a == [is |-> "if", phase |-> "test", frames |-> 1, base |-> Depth(Current),
                   before |-> View(Current)]
  <2>1. a.is = "if" /\ a.base = Depth(Current) /\ a.before = View(Current) /\ BeginSelection(a)
    BY <1>2 DEF BeginIf
  <2> HIDE DEF a
  <2> QED
    BY <1>1, <2>1
<1>3. ASSUME NEW options, BeginSelection(Case(options))
      PROVE  Moves("case")
  <2>1. /\ Case(options).is = "case" /\ Case(options).base = Depth(Current)
        /\ Case(options).before = View(Current)
    BY DEF Case
  <2> QED
    BY <1>1, <1>3, <2>1
<1>4. CASE IfTested
  <2> DEFINE a == [Active EXCEPT !.phase = "body"]
  <2>1. In("if", "test") /\ Goes(a) /\ UNCHANGED scopeVars
    BY <1>4 DEF IfTested
  <2>2. a.is = Active.is /\ a.base = Active.base /\ a.before = Active.before
    BY <2>1, InIf DEF IsIf, HasFields
  <2> HIDE DEF a
  <2> QED
    BY <2>1, <2>2, GoesMoves
<1>5. CASE CaseTested
  <2> DEFINE a == [Active EXCEPT !.phase = "options"]
  <2>1. In("case", "test") /\ Goes(a) /\ UNCHANGED scopeVars
    BY <1>5 DEF CaseTested
  <2>2. a.is = Active.is /\ a.base = Active.base /\ a.before = Active.before
    BY <2>1, InCase DEF IsCase, HasFields
  <2> HIDE DEF a
  <2> QED
    BY <2>1, <2>2, GoesMoves
<1>6. CASE MeetDefault
  <2> DEFINE a == [Active EXCEPT !.default = Active.all[Active.at].option, !.at = @ + 1]
  <2>1. In("case", "options") /\ Goes(a) /\ UNCHANGED scopeVars
    BY <1>6 DEF MeetDefault, AtAlternative
  <2>2. a.is = Active.is /\ a.base = Active.base /\ a.before = Active.before
    BY <2>1, InCase DEF IsCase, HasFields
  <2> HIDE DEF a
  <2> QED
    BY <2>1, <2>2, GoesMoves
<1>7. CASE MeetValue
  <2> DEFINE a == [Active EXCEPT !.phase = "value"]
  <2>1. In("case", "options") /\ Goes(a) /\ UNCHANGED scopeVars
    BY <1>7 DEF MeetValue, AtAlternative
  <2>2. a.is = Active.is /\ a.base = Active.base /\ a.before = Active.before
    BY <2>1, InCase DEF IsCase, HasFields
  <2> HIDE DEF a
  <2> QED
    BY <2>1, <2>2, GoesMoves
<1>8. CASE NoMatch
  <2> DEFINE a == [Active EXCEPT !.phase = "options", !.at = @ + 1, !.tried = Tried("no")]
  <2>1. In("case", "value") /\ Goes(a) /\ UNCHANGED scopeVars
    BY <1>8 DEF NoMatch
  <2>2. a.is = Active.is /\ a.base = Active.base /\ a.before = Active.before
    BY <2>1, InCase DEF IsCase, HasFields
  <2> HIDE DEF a
  <2> QED
    BY <2>1, <2>2, GoesMoves
<1> DEFINE matched == [Active EXCEPT !.phase = "body", !.selected = Active.all[Active.at].option,
                                     !.tried = Tried("yes")]
<1>9. ASSUME In("case", "value")
      PROVE  /\ matched.is = Active.is /\ matched.base = Active.base
             /\ matched.before = Active.before
  BY <1>9, InCase DEF IsCase, HasFields
<1>10. CASE PlainMatch
  <2>1. In("case", "value") /\ Goes(matched) /\ UNCHANGED scopeVars
    BY <1>10 DEF PlainMatch
  <2> HIDE DEF matched
  <2> QED
    BY <1>9, <2>1, GoesMoves
<1>11. ASSUME NEW groups \in Matches, RegexpMatch(groups)
       PROVE  Moves("case")
  <2>1. In("case", "value") /\ Goes(matched) /\ RxSet(Current, groups)
    BY <1>11 DEF RegexpMatch
  <2> HIDE DEF matched
  <2> QED
    BY <1>9, <2>1, WritesMoves
<1>12. CASE SelectDefault
  <2> DEFINE a == [Active EXCEPT !.phase = "body", !.selected = Active.default]
  <2>1. In("case", "options") /\ Goes(a) /\ UNCHANGED scopeVars
    BY <1>12 DEF SelectDefault
  <2>2. a.is = Active.is /\ a.base = Active.base /\ a.before = Active.before
    BY <2>1, InCase DEF IsCase, HasFields
  <2> HIDE DEF a
  <2> QED
    BY <2>1, <2>2, GoesMoves
<1>13. CASE SelectionEnds
  <2>1. PICK is \in {"if", "case"} : \E phase : In(is, phase)
    BY <1>13 DEF SelectionEnds
  <2> QED
    BY <1>13, <2>1 DEF SelectionEnds, In, Moves, Ends
<1> HIDE DEF matched
<1> QED
  BY <1>2, <1>3, <1>4, <1>5, <1>6, <1>7, <1>8, <1>10, <1>11, <1>12, <1>13
     DEF SelectionNext, BeginCase, BeginSelector

LEMMA CallsMoves ==
  ASSUME SInv, CallsNext
  PROVE  Moves("call")
<1>1. ASSUME NEW f \in Callables, NEW args \in Arguments, BeginCall(f, args)
      PROVE  Moves("call")
  <2> DEFINE a == [is |-> "call", phase |-> "called", frames |-> 1, base |-> Depth(Current),
                   before |-> View(Current), f |-> f, args |-> args, given |-> Len(args),
                   next |-> 1]
  <2>1. /\ Begin(a) /\ EnterLocal(Current)
        /\ a.is = "call" /\ a.base = Depth(Current) /\ a.before = View(Current)
    BY <1>1 DEF BeginCall
  <2> HIDE DEF a
  <2> QED
    BY <2>1 DEF Moves, Begins
<1>2. Raise("error") => Moves("call")
  BY RaiseMoves
<1>3. CASE EnterDefaults
  <2> DEFINE a == [Active EXCEPT !.phase = "defaults", !.frames = 2]
  <2>1. In("call", "called") /\ Goes(a) /\ EnterLocal(Current)
    BY <1>3 DEF EnterDefaults
  <2>2. a.is = Active.is /\ a.base = Active.base /\ a.before = Active.before
    BY <2>1, InCall DEF IsCall, HasFields
  <2> HIDE DEF a
  <2> QED
    BY <2>1, <2>2, GoesMoves
<1>4. ASSUME NEW phase, In("call", phase), NEW next,
             Goes([Active EXCEPT !.phase = next]), UNCHANGED scopeVars
      PROVE  Moves("call")
  <2> DEFINE a == [Active EXCEPT !.phase = next]
  <2>1. a.is = Active.is /\ a.base = Active.base /\ a.before = Active.before
    BY <1>4, InCall DEF IsCall, HasFields
  <2>2. Goes(a)
    BY <1>4
  <2> HIDE DEF a
  <2> QED
    BY <1>4, <2>1, <2>2, GoesMoves
<1>5. ASSUME NEW phase, In("call", phase), NEW value, Goes(WithArgument(value)), UNCHANGED scopeVars
      PROVE  Moves("call")
  <2> DEFINE a == WithArgument(value)
  <2>1. a.is = Active.is /\ a.base = Active.base /\ a.before = Active.before
    BY <1>5, InCall DEF IsCall, HasFields, WithArgument
  <2>2. Goes(a)
    BY <1>5
  <2> HIDE DEF a
  <2> QED
    BY <1>5, <2>1, <2>2, GoesMoves
<1>6. ASSUME NEW phase, In("call", phase), NEW value, Defaulted(value)
      PROVE  Moves("call")
  BY <1>2, <1>5, <1>6 DEF Defaulted
<1>7. CASE VariableDefault
  <2> DEFINE value == Get2(Current, NextParameter.default.ref)
  <2>1. In("call", "defaults") /\ (Raise("error") \/ Defaulted(value))
    BY <1>7 DEF VariableDefault, DefaultNeeded
  <2> HIDE DEF value
  <2> QED
    BY <1>2, <1>6, <2>1
<1>8. CASE LeaveDefaults
  <2> DEFINE a == [Active EXCEPT !.phase = "check", !.frames = 1]
  <2>1. In("call", "defaults") /\ Goes(a) /\ LeaveLocal(Current)
    BY <1>8 DEF LeaveDefaults
  <2>2. a.is = Active.is /\ a.base = Active.base /\ a.before = Active.before
    BY <2>1, InCall DEF IsCall, HasFields
  <2> HIDE DEF a
  <2> QED
    BY <2>1, <2>2, GoesMoves
<1>9. CASE Check
  BY <1>2, <1>4, <1>9 DEF Check
<1>10. CASE Bind
  <2> DEFINE a == [Active EXCEPT !.next = @ + 1]
             r == LocalName(Param(Active.next).name)
             v == Active.args[Active.next]
  <2>1. In("call", "bind") /\ Active.next <= Wanted /\ Goes(a) /\ Set(Current, r, v)
    BY <1>10 DEF Bind
  <2>2. IsCall(Active) /\ Active.phase = "bind"
    BY <2>1, InCall DEF In
  <2>3. a.is = Active.is /\ a.base = Active.base /\ a.before = Active.before
    BY <2>2 DEF IsCall, HasFields
  <2>4. /\ Active.next \in 1 .. Wanted /\ Active.next \in 1 .. Len(Active.args)
        /\ Active.args \in Seq(Values) /\ Active.f.parameters \in Seq(Parameters)
    BY <2>1, <2>2, CallablesAssumption DEF IsCall, ArgumentsFit, Wanted
  <2>5. r \in Refs /\ v \in Values
    <3>1. Param(Active.next) \in Parameters /\ v \in Values
      BY <2>4 DEF Param, Wanted
    <3>2. Param(Active.next).name \in Names
      BY <3>1 DEF Parameters
    <3> QED
      BY <3>1, <3>2 DEF LocalName, Refs
  <2> HIDE DEF a, r, v
  <2> QED
    BY <2>1, <2>3, <2>5, WritesMoves
<1>11. ASSUME NEW value \in Atoms, CallEnds(value)
       PROVE  Moves("call")
  BY <1>2, <1>11 DEF CallEnds, In, Moves, Ends
<1>12. CASE NoDefaults \/ CodeDefault \/ EvaluateBody
  BY <1>4, <1>12 DEF NoDefaults, CodeDefault, EvaluateBody, DefaultNeeded
<1>13. CASE NoDefault \/ ValueDefault
  BY <1>5, <1>6, <1>13 DEF NoDefault, ValueDefault, DefaultNeeded
<1>14. ASSUME NEW value \in Atoms, CodeDefaultEvaluated(value)
       PROVE  Moves("call")
  BY <1>6, <1>14 DEF CodeDefaultEvaluated
<1> QED
  BY <1>1, <1>3, <1>7, <1>8, <1>9, <1>10, <1>11, <1>12, <1>13, <1>14 DEF CallsNext

\* Whatever unwinds the stack, an activity keeps all but its count of frames.
LEMMA UnwindMoves ==
  ASSUME SInv, Unwind
  PROVE  Moves(Active.is)
<1>1. stack # <<>> /\ Activity(Active)
  BY TheActive DEF Unwind
<1>2. CASE Active.frames > 0
  <2> DEFINE a == [Active EXCEPT !.frames = @ - 1]
  <2>1. LeaveLocal(Current) /\ Becomes(a)
    BY <1>2 DEF Unwind
  <2>2. a.is = Active.is /\ a.base = Active.base /\ a.before = Active.before
    BY <1>1 DEF Activity, IsAssign, IsIf, IsCase, IsCall, HasFields
  <2> HIDE DEF a
  <2> QED
    BY <1>1, <2>1, <2>2 DEF Moves, Continues
<1>3. CASE ~(Active.frames > 0)
  <2>1. UNCHANGED scopeVars /\ \E what, value : End(what, value)
    BY <1>3 DEF Unwind
  <2> QED
    BY <1>1, <2>1 DEF Moves, Ends
<1> QED
  BY <1>2, <1>3

\* What code does when no activity begins, goes on or ends.
Stays ==
  /\ UNCHANGED stack /\ ended' = Nothing
  /\ \/ UNCHANGED scopeVars
     \/ CodeRuns /\ \E groups \in Matches : RxSet(Current, groups)

LEMMA StepMoves ==
  ASSUME SInv, StatementsNext
  PROVE  (\E is : Moves(is)) \/ Stays
<1>1. ASSUME NEW groups \in Matches, Match(groups)
      PROVE  Stays
  BY <1>1 DEF Match, Stays
<1>2. CASE Fail
  BY <1>2 DEF Fail, Raise, Stays
<1>3. CASE Recover
  BY <1>3 DEF Recover, Stays
<1> QED
  BY <1>1, <1>2, <1>3, UnwindMoves, AssignmentMoves, SelectionMoves, CallsMoves
     DEF StatementsNext, ActivitiesNext

-----------------------------------------------------------------------------
(* What a case or a selector has found when it is so far. *)

\* The alternatives before the n-th that are `default`.
DefaultsBefore(all, n) == {i \in 1 .. n - 1 : all[i].is = "default"}

\* A search has tried all values before the one at, none of them matched, and it
\* remembers the last default.
LastDefault(all, D, default) ==
  default # 0 => \E d \in D : default = all[d].option /\ \A i \in D : i <= d
Search(all, at, tried, default) ==
  /\ IsSequence(all) /\ at \in 1 .. Len(all) + 1
  /\ IsSequence(tried) /\ Len(tried) = at - 1 - Cardinality(DefaultsBefore(all, at))
  /\ \A i \in 1 .. Len(tried) : tried[i].outcome = "no"
  /\ LastDefault(all, DefaultsBefore(all, at), default)
Searching(a) == Search(a.all, a.at, a.tried, a.default)

\* The last value that has been tried is the first that matched.
FirstFound(tried, selected) ==
  /\ IsSequence(tried) /\ tried # <<>>
  /\ \A i \in 1 .. Len(tried) : tried[i].outcome = "no" <=> i # Len(tried)
  /\ selected = tried[Len(tried)].option

Selects(a) ==
  /\ a.phase \in {"test", "options", "value"} => Searching(a)
  /\ a.phase = "value" => a.at <= Len(a.all) /\ a.all[a.at].is = "value"
  /\ a.phase = "body" =>
       \/ FirstFound(a.tried, a.selected)
       \/ /\ Searching(a) /\ a.at = Len(a.all) + 1
          /\ a.default # 0 /\ a.selected = a.default

SelectInv == \A i \in 1 .. Len(stack) : stack[i].is = "case" => Selects(stack[i])

\* FlattenSeq goes through the sequences once.
Joins(f, seqs) == f[0] = <<>> /\ \A i \in 1 .. Len(seqs) : f[i] = f[i - 1] \o seqs[i]

LEMMA FlattenGoes ==
  ASSUME NEW S, NEW seqs \in Seq(Seq(S))
  PROVE  \E f \in [0 .. Len(seqs) -> Seq(S)] : Joins(f, seqs) /\ FlattenSeq(seqs) = f[Len(seqs)]
<1> DEFINE n == Len(seqs)
           V == Seq(S)
           step == [i \in 1 .. n |-> [v \in V |-> v \o seqs[i]]]
           Equation(g) == g = [i \in 1 .. n |-> IF i = 1 THEN seqs[i] ELSE g[i - 1] \o seqs[i]]
           flatten == CHOOSE g : Equation(g)
<1>1. n \in Nat /\ \A i \in 1 .. n : seqs[i] \in V
  OBVIOUS
<1>2. step \in [1 .. n -> [V -> V]]
  <2>1. \A i \in 1 .. n : \A v \in V : v \o seqs[i] \in V
    BY <1>1
  <2> HIDE DEF V, n
  <2> QED
    BY <2>1
<1>3. <<>> \in V /\ \A v \in V : <<>> \o v = v
  OBVIOUS
<1>4. PICK f \in [0 .. n -> V] : StartsAt(f, n, <<>>, step)
  <2> HIDE DEF V, step, n
  <2> QED
    BY <1>1, <1>2, <1>3, RecursionOver
<1>5. f[0] = <<>> /\ \A i \in 1 .. n : f[i] = f[i - 1] \o seqs[i]
  <2>1. ASSUME NEW i \in 1 .. n PROVE f[i] = f[i - 1] \o seqs[i]
    <3>1. i - 1 \in 0 .. n
      BY <1>1
    <3>2. f[i] = step[i][f[i - 1]]
      <4> HIDE DEF step, n
      <4> QED
        BY <1>4 DEF StartsAt
    <3>3. f[i - 1] \in V
      <4> HIDE DEF V, n
      <4> QED
        BY <3>1
    <3>4. step[i][f[i - 1]] = f[i - 1] \o seqs[i]
      <4> HIDE DEF V, n
      <4> QED
        BY <3>3
    <3> QED
      BY <3>2, <3>4, Zenon
  <2>2. f[0] = <<>>
    BY <1>4 DEF StartsAt
  <2> QED
    BY <2>1, <2>2
<1>6. CASE n = 0
  <2>1. seqs = <<>>
    BY <1>6
  <2>2. FlattenSeq(seqs) = seqs
    BY <1>6 DEF FlattenSeq
  <2> QED
    BY <1>5, <1>6, <2>1, <2>2 DEF Joins
<1>7. CASE n # 0
  <2>1. FlattenSeq(seqs) = flatten[n]
    BY <1>7 DEF FlattenSeq
  <2> HIDE DEF V, step
  <2>2. Equation([i \in 1 .. n |-> f[i]])
    <3> DEFINE g == [i \in 1 .. n |-> f[i]]
    <3>1. ASSUME NEW i \in 1 .. n
          PROVE  g[i] = IF i = 1 THEN seqs[i] ELSE g[i - 1] \o seqs[i]
      <4>1. CASE i = 1
        <5>1. f[1] = f[0] \o seqs[1] /\ f[0] = <<>>
          <6>1. 1 \in 1 .. n /\ 1 - 1 = 0
            BY <4>1
          <6>2. f[1] = f[1 - 1] \o seqs[1]
            BY <1>5, <6>1
          <6> QED
            BY <1>5, <6>1, <6>2
        <5> QED
          BY <1>1, <1>3, <4>1, <5>1
      <4>2. CASE i # 1
        <5>1. i - 1 \in 1 .. n
          BY <1>1, <4>2
        <5> QED
          BY <1>5, <4>2, <5>1
      <4> QED
        BY <4>1, <4>2
    <3>2. g = [i \in 1 .. n |-> g[i]]
      OBVIOUS
    <3> HIDE DEF g
    <3>3. Equation(g)
      BY <3>1, <3>2
    <3> QED
      BY <3>3 DEF g
  <2>3. Equation(flatten)
    BY <2>2
  <2> HIDE DEF flatten
  <2>4. \A i \in 1 .. n : flatten[i] = IF i = 1 THEN seqs[i] ELSE flatten[i - 1] \o seqs[i]
    BY <2>3
  <2> DEFINE T == {i \in 0 .. n : i = 0 \/ flatten[i] = f[i]}
  <2>5. 0 \in T
    BY <1>1
  <2>6. ASSUME NEW i \in 1 .. n, i - 1 \in T PROVE i \in T
    <3>1. CASE i = 1
      <4>1. f[1] = f[0] \o seqs[1] /\ f[0] = <<>>
        <5>1. 1 \in 1 .. n /\ 1 - 1 = 0
          BY <3>1
        <5>2. f[1] = f[1 - 1] \o seqs[1]
          BY <1>5, <5>1
        <5> QED
          BY <1>5, <5>1, <5>2
      <4> QED
        BY <1>1, <1>3, <2>4, <3>1, <4>1
    <3>2. CASE i # 1
      <4>1. flatten[i - 1] = f[i - 1]
        BY <2>6, <3>2
      <4> QED
        <5>1. f[i] = f[i - 1] \o seqs[i]
          BY <1>5
        <5>2. flatten[i] = flatten[i - 1] \o seqs[i]
          BY <2>4, <3>2
        <5>3. flatten[i] = f[i]
          BY <4>1, <5>1, <5>2, Zenon
        <5> QED
          BY <5>3
    <3> QED
      BY <3>1, <3>2
  <2>7. n \in T
    <3>1. T \in SUBSET (0 .. n) /\ n \in 0 .. n
      BY <1>1
    <3> HIDE DEF T, n
    <3>2. T = 0 .. n
      BY <1>1, <2>5, <2>6, <3>1, AllUpTo
    <3> QED
      BY <3>1, <3>2
  <2>8. flatten[n] = f[n]
    BY <1>7, <2>7
  <2> QED
    BY <1>5, <2>1, <2>8 DEF Joins, V
<1> QED
  BY <1>6, <1>7

\* Concatenating sequences gives a sequence.
LEMMA FlattenIsSeq ==
  ASSUME NEW S, NEW seqs \in Seq(Seq(S))
  PROVE  FlattenSeq(seqs) \in Seq(S)
<1>1. PICK n : n = Len(seqs)
  OBVIOUS
<1>2. PICK f \in [0 .. n -> Seq(S)] : FlattenSeq(seqs) = f[n]
  BY <1>1, FlattenGoes
<1>3. n \in 0 .. n
  BY <1>1
<1> QED
  BY <1>2, <1>3

LEMMA FlattenEmpty == FlattenSeq(<<>>) = <<>>
BY DEF FlattenSeq

LEMMA ThreeJoined ==
  ASSUME NEW S, NEW x \in Seq(S), NEW y \in Seq(S), NEW z \in Seq(S)
  PROVE  (x \o y) \o z = x \o (y \o z)
BY ConcatAssociative

\* What is concatenated in two parts is concatenated.
LEMMA FlattenJoins ==
  ASSUME NEW S, NEW a \in Seq(Seq(S)), NEW b \in Seq(Seq(S))
  PROVE  FlattenSeq(a \o b) = FlattenSeq(a) \o FlattenSeq(b)
<1>7. \A x, y, z \in Seq(S) : (x \o y) \o z = x \o (y \o z)
  BY ThreeJoined
<1> DEFINE n == Len(a)
           m == Len(b)
           V == Seq(S)
           ab == a \o b
<1>1. n \in Nat /\ m \in Nat
  OBVIOUS
<1>2. /\ ab \in Seq(Seq(S)) /\ Len(ab) = n + m
      /\ \A i \in 1 .. n : i \in 1 .. n + m /\ ab[i] = a[i]
      /\ \A i \in 1 .. m : n + i \in 1 .. n + m /\ ab[n + i] = b[i] /\ b[i] \in V
  OBVIOUS
<1> HIDE DEF ab
<1>3. PICK f \in [0 .. n -> V] : Joins(f, a) /\ FlattenSeq(a) = f[n]
  BY FlattenGoes
<1>4. PICK g \in [0 .. m -> V] : Joins(g, b) /\ FlattenSeq(b) = g[m]
  BY FlattenGoes
<1>5. PICK h \in [0 .. n + m -> V] : Joins(h, ab) /\ FlattenSeq(ab) = h[n + m]
  <2>1. \E h \in [0 .. Len(ab) -> Seq(S)] : Joins(h, ab) /\ FlattenSeq(ab) = h[Len(ab)]
    BY <1>2, FlattenGoes
  <2> QED
    BY <1>2, <2>1
<1>6. /\ f[0] = <<>> /\ \A i \in 1 .. n : f[i] = f[i - 1] \o a[i]
      /\ g[0] = <<>> /\ \A i \in 1 .. m : g[i] = g[i - 1] \o b[i]
      /\ h[0] = <<>> /\ \A i \in 1 .. n + m : h[i] = h[i - 1] \o ab[i]
  BY <1>2, <1>3, <1>4, <1>5 DEF Joins
<1>8. \A x \in V : x \o <<>> = x
  BY ConcatEmptySeq
<1> HIDE DEF n, m, V
<1> DEFINE T == {i \in 0 .. n : h[i] = f[i]}
           U == {i \in 0 .. m : h[n + i] = f[n] \o g[i]}
<1>9. h[n] = f[n]
  <2>1. 0 \in T
    BY <1>1, <1>6
  <2>2. ASSUME NEW i \in 1 .. n, i - 1 \in T PROVE i \in T
    <3>1. h[i - 1] = f[i - 1]
      BY <2>2
    <3>2. f[i] = f[i - 1] \o a[i]
      BY <1>6
    <3>3. i \in 1 .. n + m /\ ab[i] = a[i]
      BY <1>2
    <3>4. h[i] = h[i - 1] \o ab[i]
      BY <1>6, <3>3
    <3>5. h[i] = f[i]
      BY <3>1, <3>2, <3>3, <3>4, Zenon
    <3> QED
      BY <3>5
  <2>3. T \in SUBSET (0 .. n) /\ n \in 0 .. n
    BY <1>1
  <2> HIDE DEF T
  <2>4. T = 0 .. n
    BY <1>1, <2>1, <2>2, <2>3, AllUpTo
  <2> QED
    BY <2>3, <2>4 DEF T
<1>10. h[n + m] = f[n] \o g[m]
  <2>0. n \in 0 .. n
    BY <1>1
  <2>1. 0 \in U
    <3>1. n + 0 = n /\ 0 \in 0 .. m
      BY <1>1
    <3> QED
      BY <1>6, <1>8, <1>9, <2>0, <3>1
  <2>2. ASSUME NEW i \in 1 .. m, i - 1 \in U PROVE i \in U
    <3>1. h[n + i] = h[(n + i) - 1] \o b[i]
      <4>1. n + i \in 1 .. n + m /\ ab[n + i] = b[i]
        BY <1>2
      <4>2. h[n + i] = h[(n + i) - 1] \o ab[n + i]
        BY <1>6, <4>1, Zenon
      <4> QED
        BY <4>1, <4>2, Zenon
    <3>2. (n + i) - 1 = n + (i - 1)
      BY <1>1
    <3>3. h[(n + i) - 1] = f[n] \o g[i - 1]
      BY <2>2, <3>2
    <3>4. (f[n] \o g[i - 1]) \o b[i] = f[n] \o (g[i - 1] \o b[i])
      <4>1. i - 1 \in 0 .. m
        BY <1>1
      <4>2. f[n] \in V /\ g[i - 1] \in V /\ b[i] \in V
        BY <1>2, <2>0, <4>1
      <4> QED
        BY <1>7, <4>2 DEF V
    <3>5. h[n + i] = f[n] \o g[i]
      <4>1. g[i] = g[i - 1] \o b[i]
        BY <1>6
      <4> QED
        <5>1. h[n + i] = (f[n] \o g[i - 1]) \o b[i]
          BY <3>1, <3>3, Zenon
        <5>2. f[n] \o g[i] = f[n] \o (g[i - 1] \o b[i])
          BY <4>1, Zenon
        <5> QED
          BY <3>4, <5>1, <5>2, Zenon
    <3>6. i \in 0 .. m
      BY <1>1
    <3> QED
      BY <3>5, <3>6, Zenon
  <2>3. U \in SUBSET (0 .. m) /\ m \in 0 .. m
    BY <1>1
  <2> HIDE DEF U
  <2>4. U = 0 .. m
    BY <1>1, <2>1, <2>2, <2>3, AllUpTo
  <2> QED
    BY <2>3, <2>4 DEF U
<1> QED
  BY <1>3, <1>4, <1>5, <1>10 DEF ab

LEMMA FlattenOne ==
  ASSUME NEW S, NEW x \in Seq(S)
  PROVE  FlattenSeq(<<x>>) = x
<1> DEFINE one == <<x>>
<1>1. one \in Seq(Seq(S)) /\ Len(one) = 1 /\ one[1] = x
  OBVIOUS
<1> HIDE DEF one
<1>2. PICK f : Joins(f, one) /\ FlattenSeq(one) = f[Len(one)]
  BY <1>1, FlattenGoes
<1>3. f[1] = f[0] \o x /\ f[0] = <<>>
  <2>1. 1 \in 1 .. Len(one) /\ 1 - 1 = 0
    BY <1>1
  <2>2. f[1] = f[1 - 1] \o one[1] /\ f[0] = <<>>
    BY <1>2, <2>1 DEF Joins
  <2> QED
    BY <1>1, <2>1, <2>2
<1>4. <<>> \o x = x
  OBVIOUS
<1>5. FlattenSeq(one) = f[1]
  BY <1>1, <1>2
<1> QED
  BY <1>3, <1>4, <1>5 DEF one

LEMMA AlternativesAreSeq ==
  ASSUME NEW options \in Seq(Seq(Kinds))
  PROVE  IsSequence(Alternatives(options))
<1> DEFINE S == [option : Nat, is : Kinds]
           of(o) == [v \in DOMAIN options[o] |-> [option |-> o, is |-> options[o][v]]]
           seqs == [o \in DOMAIN options |-> of(o)]
<1>1. ASSUME NEW o \in 1 .. Len(options)
      PROVE  of(o) \in Seq(S)
  <2>1. options[o] \in Seq(Kinds) /\ o \in Nat
    OBVIOUS
  <2>2. \A v \in 1 .. Len(options[o]) : options[o][v] \in Kinds
    BY <2>1
  <2>3. DOMAIN options[o] = 1 .. Len(options[o]) /\ Len(options[o]) \in Nat
    BY <2>1
  <2>4. of(o) \in [1 .. Len(options[o]) -> S]
    BY <2>1, <2>2, <2>3
  <2> HIDE DEF S, of
  <2>5. \A n \in Nat : \A f \in [1 .. n -> S] : f \in Seq(S)
    OBVIOUS
  <2> QED
    BY <2>3, <2>4, <2>5
<1>2. DOMAIN options = 1 .. Len(options) /\ Len(options) \in Nat
  OBVIOUS
<1>3. seqs \in Seq(Seq(S))
  <2> HIDE DEF S, of
  <2> QED
    BY <1>1, <1>2
<1>4. Alternatives(options) = FlattenSeq(seqs)
  BY DEF Alternatives
<1> HIDE DEF S, seqs
<1> QED
  BY <1>3, <1>4, FlattenIsSeq DEF IsSequence

\* One alternative further there is one default more or none.
LEMMA DefaultsCounted ==
  ASSUME NEW all, NEW n \in Nat \ {0}
  PROVE  /\ IsFiniteSet(DefaultsBefore(all, n)) /\ Cardinality(DefaultsBefore(all, n)) \in Nat
         /\ DefaultsBefore(all, 1) = {} /\ Cardinality(DefaultsBefore(all, 1)) = 0
         /\ all[n].is = "default" =>
              /\ DefaultsBefore(all, n + 1) = DefaultsBefore(all, n) \cup {n}
              /\ Cardinality(DefaultsBefore(all, n + 1)) = Cardinality(DefaultsBefore(all, n)) + 1
         /\ all[n].is # "default" => DefaultsBefore(all, n + 1) = DefaultsBefore(all, n)
<1> DEFINE D == DefaultsBefore(all, n)
<1>1. D \subseteq 1 .. n - 1 /\ n \notin D
  BY DEF DefaultsBefore
<1>2. IsFiniteSet(1 .. n - 1)
  BY FS_Interval
<1>3. DefaultsBefore(all, 1) = {}
  BY DEF DefaultsBefore
<1>4. all[n].is = "default" => DefaultsBefore(all, n + 1) = D \cup {n}
  BY DEF DefaultsBefore
<1>5. all[n].is # "default" => DefaultsBefore(all, n + 1) = D
  BY DEF DefaultsBefore
<1> HIDE DEF D
<1>6. IsFiniteSet(D) /\ Cardinality(D) \in Nat
  BY <1>1, <1>2, FS_Subset, FS_CardinalityType
<1>7. Cardinality(D \cup {n}) = Cardinality(D) + 1
  BY <1>1, <1>6, FS_AddElement
<1>8. Cardinality({}) = 0
  BY FS_EmptySet
<1> QED
  BY <1>3, <1>4, <1>5, <1>6, <1>7, <1>8 DEF D

LEMMA SelectBegins ==
  ASSUME NEW options \in Seq(Seq(Kinds))
  PROVE  Selects(Case(options))
<1> DEFINE a == Case(options)
<1>1. /\ a.all = Alternatives(options) /\ a.at = 1 /\ a.default = 0 /\ a.tried = <<>>
      /\ a.phase = "test"
  BY DEF Case
<1> HIDE DEF a
<1>2. IsSequence(a.all) /\ Len(a.all) \in Nat
  <2>1. IsSequence(a.all)
    BY <1>1, AlternativesAreSeq
  <2> QED
    BY <2>1 DEF IsSequence
<1>3. IsSequence(<<>>) /\ Len(<<>>) = 0
  BY DEF IsSequence
<1>4. Cardinality(DefaultsBefore(a.all, 1)) = 0
  BY DefaultsCounted
<1>5. Searching(a)
  BY <1>1, <1>2, <1>3, <1>4 DEF Searching, Search, LastDefault
<1> QED
  BY <1>1, <1>5 DEF Selects, a

\* One more outcome is behind those of before.
OneMore(new, tried, x) ==
  /\ IsSequence(new) /\ Len(tried) \in Nat /\ Len(new) = Len(tried) + 1 /\ new # <<>>
  /\ new[Len(new)] = x /\ \A i \in 1 .. Len(tried) : new[i] = tried[i]

LEMMA OneMoreTried ==
  ASSUME NEW tried, IsSequence(tried), NEW x
  PROVE  OneMore(Append(tried, x), tried, x)
<1>1. PICK S : tried \in Seq(S)
  BY DEF IsSequence
<1>2. tried \in Seq(S \cup {x})
  BY <1>1, Wider
<1> DEFINE T == S \cup {x}
           new == Append(tried, x)
<1>3. tried \in Seq(T) /\ x \in T
  BY <1>2
<1> HIDE DEF T
<1>4. /\ new \in Seq(T) /\ Len(new) = Len(tried) + 1 /\ Len(tried) \in Nat
      /\ new[Len(tried) + 1] = x /\ \A i \in 1 .. Len(tried) : new[i] = tried[i]
  BY <1>3
<1>5. new # <<>>
  BY <1>4
<1> HIDE DEF new
<1>6. OneMore(new, tried, x)
  BY <1>4, <1>5 DEF OneMore, IsSequence
<1> QED
  BY <1>6 DEF new

LEMMA MeetsDefault ==
  ASSUME NEW all, NEW at, NEW tried, NEW default, Search(all, at, tried, default),
         at <= Len(all), all[at].is = "default"
  PROVE  Search(all, at + 1, tried, all[at].option)
<1> DEFINE D == DefaultsBefore(all, at)
           E == DefaultsBefore(all, at + 1)
<1>1. Len(all) \in Nat /\ at \in Nat \ {0} /\ at + 1 \in 1 .. Len(all) + 1
  BY DEF Search, IsSequence
<1>2. E = D \cup {at} /\ Cardinality(E) = Cardinality(D) + 1 /\ Cardinality(D) \in Nat
  BY <1>1, DefaultsCounted
<1>3. \A i \in D : i <= at
  BY <1>1 DEF DefaultsBefore
<1>4. Len(tried) = at - 1 - Cardinality(D)
  BY DEF Search
<1> HIDE DEF D, E
<1>5. Len(tried) = at + 1 - 1 - Cardinality(E)
  <2>1. PICK c : c = Cardinality(D)
    OBVIOUS
  <2>2. c \in Nat /\ Cardinality(E) = c + 1 /\ Len(tried) = at - 1 - c
    BY <1>2, <1>4, <2>1
  <2> QED
    BY <1>1, <2>2
<1>6. LastDefault(all, E, all[at].option)
  BY <1>1, <1>2, <1>3 DEF LastDefault
<1>7. Search(all, at + 1, tried, all[at].option)
  <2>1. IsSequence(all) /\ IsSequence(tried) /\ \A i \in 1 .. Len(tried) : tried[i].outcome = "no"
    BY DEF Search
  <2>2. PICK o : o = all[at].option
    OBVIOUS
  <2>3. LastDefault(all, E, o)
    BY <1>6, <2>2
  <2>4. PICK n : n = at + 1
    OBVIOUS
  <2>5. /\ n \in 1 .. Len(all) + 1 /\ Len(tried) = n - 1 - Cardinality(DefaultsBefore(all, n))
        /\ LastDefault(all, DefaultsBefore(all, n), o)
    <3>1. E = DefaultsBefore(all, n)
      BY <2>4 DEF E
    <3>2. n \in 1 .. Len(all) + 1 /\ Len(tried) = n - 1 - Cardinality(E)
      <4>1. PICK c : c = Cardinality(E)
        OBVIOUS
      <4>2. c \in Nat
        BY <1>2, <4>1
      <4> QED
        BY <1>1, <1>5, <2>4, <4>1, <4>2
    <3> QED
      BY <2>3, <3>1, <3>2
  <2>6. Search(all, n, tried, o)
    BY <2>1, <2>5 DEF Search
  <2> QED
    BY <2>2, <2>4, <2>6
<1> QED
  BY <1>7

LEMMA TriesValue ==
  ASSUME NEW all, NEW at, NEW tried, NEW default, Search(all, at, tried, default),
         at <= Len(all), all[at].is = "value", NEW x, x.outcome = "no"
  PROVE  Search(all, at + 1, Append(tried, x), default)
<1> DEFINE D == DefaultsBefore(all, at)
           E == DefaultsBefore(all, at + 1)
           new == Append(tried, x)
<1>1. Len(all) \in Nat /\ at \in Nat \ {0} /\ at + 1 \in 1 .. Len(all) + 1
  BY DEF Search, IsSequence
<1>2. E = D /\ Cardinality(D) \in Nat
  BY <1>1, DefaultsCounted
<1>3. /\ Len(tried) = at - 1 - Cardinality(D) /\ IsSequence(tried)
      /\ \A i \in 1 .. Len(tried) : tried[i].outcome = "no"
      /\ LastDefault(all, D, default)
  BY DEF Search
<1>4. OneMore(new, tried, x)
  BY <1>3, OneMoreTried
<1> HIDE DEF D, E, new
<1>5. Len(new) = at + 1 - 1 - Cardinality(E)
  <2>1. PICK c : c = Cardinality(D)
    OBVIOUS
  <2>2. c \in Nat /\ Cardinality(E) = c /\ Len(tried) = at - 1 - c
    BY <1>2, <1>3, <2>1
  <2> QED
    BY <1>1, <1>4, <2>2 DEF OneMore
<1>6. \A i \in 1 .. Len(new) : new[i].outcome = "no"
  BY <1>3, <1>4 DEF OneMore
<1>7. IsSequence(new)
  BY <1>4 DEF OneMore
<1>8. Search(all, at + 1, new, default)
  BY <1>1, <1>2, <1>3, <1>5, <1>6, <1>7 DEF Search, E
<1> QED
  BY <1>8 DEF new

LEMMA FindsValue ==
  ASSUME NEW all, NEW at, NEW tried, NEW default, Search(all, at, tried, default),
         NEW x, x.outcome # "no"
  PROVE  FirstFound(Append(tried, x), x.option)
<1> DEFINE new == Append(tried, x)
<1>1. IsSequence(tried) /\ \A i \in 1 .. Len(tried) : tried[i].outcome = "no"
  BY DEF Search
<1>2. OneMore(new, tried, x)
  BY <1>1, OneMoreTried
<1> HIDE DEF new
<1>3. FirstFound(new, x.option)
  BY <1>1, <1>2 DEF FirstFound, OneMore
<1> QED
  BY <1>3 DEF new

-----------------------------------------------------------------------------

LEMMA FrontOf ==
  ASSUME SInv, stack # <<>>, NEW new, new = Front(stack)
  PROVE  /\ Len(stack) \in Nat \ {0} /\ Len(new) = Len(stack) - 1
         /\ \A i \in 1 .. Len(new) : new[i] = stack[i]
<1>1. PICK S : stack \in Seq(S)
  BY DEF SInv, Built, IsSequence
<1> DEFINE k == Len(stack) - 1
<1>2. Len(stack) \in Nat \ {0} /\ k \in Nat /\ k <= Len(stack) /\ new = SubSeq(stack, 1, k)
  BY <1>1 DEF Front
<1> HIDE DEF k
<1>3. Len(new) = k /\ \A i \in 1 .. k : new[i] = stack[i]
  BY <1>1, <1>2, Prefix
<1> QED
  BY <1>2, <1>3 DEF k

\* The new innermost activity has to select right, if it is a case.
LEMMA SelectReplaced ==
  ASSUME SInv, SelectInv, stack # <<>>, NEW a, Becomes(a), a.is = "case" => Selects(a)
  PROVE  SelectInv'
<1>1. PICK S : stack \in Seq(S)
  BY DEF SInv, Built, IsSequence
<1>2. stack \in Seq(S \cup {a}) /\ Len(stack) \in Nat \ {0}
  BY <1>1, Wider
<1>3. /\ Len(stack') = Len(stack) /\ stack'[Len(stack)] = a
      /\ \A i \in 1 .. Len(stack) - 1 : stack'[i] = stack[i]
  BY <1>2 DEF Becomes
<1>4. ASSUME NEW i \in 1 .. Len(stack'), stack'[i].is = "case"
      PROVE  Selects(stack'[i])
  <2>1. i = Len(stack) \/ i \in 1 .. Len(stack) - 1
    BY <1>2, <1>3
  <2>2. i \in 1 .. Len(stack)
    BY <1>3
  <2> QED
    BY <1>3, <1>4, <2>1, <2>2 DEF SelectInv
<1> QED
  BY <1>4 DEF SelectInv

LEMMA SelectPushed ==
  ASSUME SInv, SelectInv, NEW a, Begin(a), a.is = "case" => Selects(a)
  PROVE  SelectInv'
<1>1. PICK S : stack \in Seq(S)
  BY DEF SInv, Built, IsSequence
<1>2. IsSequence(stack) /\ stack' = Append(stack, a)
  BY <1>1 DEF IsSequence, Begin
<1>3. /\ Len(stack') = Len(stack) + 1 /\ Len(stack) \in Nat /\ stack'[Len(stack')] = a
      /\ \A i \in 1 .. Len(stack) : stack'[i] = stack[i]
  <2>1. OneMore(stack', stack, a)
    BY <1>2, OneMoreTried
  <2> QED
    BY <2>1 DEF OneMore
<1>4. ASSUME NEW i \in 1 .. Len(stack'), stack'[i].is = "case"
      PROVE  Selects(stack'[i])
  <2>1. i = Len(stack') \/ i \in 1 .. Len(stack)
    BY <1>3
  <2> QED
    BY <1>3, <1>4, <2>1 DEF SelectInv
<1> QED
  BY <1>4 DEF SelectInv

LEMMA SelectPopped ==
  ASSUME SInv, SelectInv, stack # <<>>, stack' = Front(stack)
  PROVE  SelectInv'
<1>1. Len(stack) \in Nat /\ Len(stack') = Len(stack) - 1
      /\ \A i \in 1 .. Len(stack') : stack'[i] = stack[i]
  BY FrontOf
<1> QED
  BY <1>1 DEF SelectInv

LEMMA SelectSame ==
  ASSUME SelectInv, UNCHANGED stack
  PROVE  SelectInv'
BY DEF SelectInv

\* The phase in which a case is when it does that to itself.
CaseGoes(phase, a) == In("case", phase) /\ Goes(a)

LEMMA ActiveSelects ==
  ASSUME SInv, SelectInv, NEW phase, In("case", phase)
  PROVE  Selects(Active) /\ IsCase(Active) /\ Active.phase = phase /\ stack # <<>>
<1>1. stack # <<>> /\ Active.is = "case" /\ Active.phase = phase
  BY DEF In
<1>2. PICK S : stack \in Seq(S)
  BY DEF SInv, Built, IsSequence
<1>3. Len(stack) \in 1 .. Len(stack)
  BY <1>1, <1>2
<1> QED
  BY <1>1, <1>3, InCase DEF SelectInv, Active

LEMMA CaseGoesOn ==
  ASSUME SInv, SelectInv, NEW phase, NEW a, CaseGoes(phase, a), Selects(a)
  PROVE  SelectInv'
<1>1. stack # <<>> /\ Becomes(a)
  BY DEF CaseGoes, In, Goes
<1> QED
  BY <1>1, SelectReplaced

\* A search goes on as long as its fields say so.
LEMMA SelectsWhile ==
  ASSUME NEW a, a.phase \in {"test", "options"}, Searching(a)
  PROVE  Selects(a)
BY DEF Selects

LEMMA CaseSelects ==
  ASSUME SInv, SelectInv,
         CaseTested \/ MeetDefault \/ MeetValue \/ NoMatch \/ PlainMatch
           \/ SelectDefault \/ \E groups \in Matches : RegexpMatch(groups)
  PROVE  SelectInv'
<1>1. CASE CaseTested
  <2> DEFINE a == [Active EXCEPT !.phase = "options"]
  <2>1. CaseGoes("test", a) /\ In("case", "test")
    BY <1>1 DEF CaseTested, CaseGoes
  <2>2. Selects(Active) /\ IsCase(Active) /\ Active.phase = "test"
    BY <2>1, ActiveSelects
  <2>3. /\ a.phase = "options" /\ a.all = Active.all /\ a.at = Active.at
        /\ a.tried = Active.tried /\ a.default = Active.default
    BY <2>2 DEF IsCase, HasFields
  <2> HIDE DEF a
  <2>4. Searching(a)
    BY <2>2, <2>3 DEF Selects, Searching
  <2> QED
    BY <2>1, <2>3, <2>4, SelectsWhile, CaseGoesOn
<1>2. CASE MeetDefault
  <2> DEFINE option == Active.all[Active.at].option
             a == [Active EXCEPT !.default = option, !.at = @ + 1]
  <2>1. CaseGoes("options", a) /\ In("case", "options")
        /\ Active.at <= Len(Active.all) /\ Active.all[Active.at].is = "default"
    BY <1>2 DEF MeetDefault, CaseGoes, AtAlternative
  <2>2. Selects(Active) /\ IsCase(Active) /\ Active.phase = "options"
    BY <2>1, ActiveSelects
  <2>3. Search(Active.all, Active.at + 1, Active.tried, option)
    <3>1. Search(Active.all, Active.at, Active.tried, Active.default)
      BY <2>2 DEF Selects, Searching
    <3> QED
      BY <2>1, <3>1, MeetsDefault
  <2> HIDE DEF option
  <2>4. /\ a.phase = "options" /\ a.all = Active.all /\ a.at = Active.at + 1
        /\ a.tried = Active.tried /\ a.default = option
    BY <2>2 DEF IsCase, HasFields
  <2> HIDE DEF a
  <2>5. Searching(a)
    BY <2>3, <2>4 DEF Searching
  <2> QED
    BY <2>1, <2>4, <2>5, SelectsWhile, CaseGoesOn
<1>3. CASE MeetValue
  <2> DEFINE a == [Active EXCEPT !.phase = "value"]
  <2>1. CaseGoes("options", a) /\ In("case", "options")
        /\ Active.at <= Len(Active.all) /\ Active.all[Active.at].is = "value"
    BY <1>3 DEF MeetValue, CaseGoes, AtAlternative
  <2>2. Selects(Active) /\ IsCase(Active) /\ Active.phase = "options"
    BY <2>1, ActiveSelects
  <2>3. /\ a.phase = "value" /\ a.all = Active.all /\ a.at = Active.at
        /\ a.tried = Active.tried /\ a.default = Active.default
    BY <2>2 DEF IsCase, HasFields
  <2> HIDE DEF a
  <2>4. Searching(a)
    BY <2>2, <2>3 DEF Selects, Searching
  <2>5. Selects(a)
    BY <2>1, <2>3, <2>4 DEF Selects
  <2> QED
    BY <2>1, <2>5, CaseGoesOn
<1> DEFINE option == Active.all[Active.at].option
           no == [option |-> option, outcome |-> "no"]
           yes == [option |-> option, outcome |-> "yes"]
<1>4. ASSUME In("case", "value")
      PROVE  /\ Selects(Active) /\ IsCase(Active) /\ Active.phase = "value"
             /\ Search(Active.all, Active.at, Active.tried, Active.default)
             /\ Active.at <= Len(Active.all) /\ Active.all[Active.at].is = "value"
  <2>1. Selects(Active) /\ IsCase(Active) /\ Active.phase = "value"
    BY <1>4, ActiveSelects
  <2> QED
    BY <2>1 DEF Selects, Searching
<1>5. no.outcome = "no" /\ yes.outcome # "no" /\ yes.option = option
  OBVIOUS
<1>6. Tried("no") = Append(Active.tried, no) /\ Tried("yes") = Append(Active.tried, yes)
  BY DEF Tried
<1> HIDE DEF no, yes, option
<1>7. CASE NoMatch
  <2> DEFINE tried == Append(Active.tried, no)
             a == [Active EXCEPT !.phase = "options", !.at = @ + 1, !.tried = tried]
  <2>1. CaseGoes("value", a) /\ In("case", "value")
    BY <1>6, <1>7 DEF NoMatch, CaseGoes
  <2>2. Search(Active.all, Active.at + 1, tried, Active.default)
    BY <1>4, <1>5, <2>1, TriesValue
  <2> HIDE DEF tried
  <2>3. /\ a.phase = "options" /\ a.all = Active.all /\ a.at = Active.at + 1
        /\ a.tried = tried /\ a.default = Active.default
    BY <1>4, <2>1 DEF IsCase, HasFields
  <2> HIDE DEF a
  <2>4. Searching(a)
    BY <2>2, <2>3 DEF Searching
  <2> QED
    BY <2>1, <2>3, <2>4, SelectsWhile, CaseGoesOn
<1>8. CASE PlainMatch \/ \E groups \in Matches : RegexpMatch(groups)
  <2> DEFINE tried == Append(Active.tried, yes)
             a == [Active EXCEPT !.phase = "body", !.selected = option, !.tried = tried]
  <2>1. CaseGoes("value", a) /\ In("case", "value")
    BY <1>6, <1>8 DEF PlainMatch, RegexpMatch, CaseGoes, option
  <2>2. FirstFound(tried, option)
    BY <1>4, <1>5, <2>1, FindsValue
  <2> HIDE DEF tried
  <2>3. a.phase = "body" /\ a.tried = tried /\ a.selected = option
    BY <1>4, <2>1 DEF IsCase, HasFields
  <2> HIDE DEF a
  <2>4. Selects(a)
    BY <2>2, <2>3 DEF Selects
  <2> QED
    BY <2>1, <2>4, CaseGoesOn
<1>9. CASE SelectDefault
  <2> DEFINE a == [Active EXCEPT !.phase = "body", !.selected = Active.default]
  <2>1. CaseGoes("options", a) /\ In("case", "options")
        /\ Active.at > Len(Active.all) /\ Active.default # 0
    BY <1>9 DEF SelectDefault, CaseGoes
  <2>2. Selects(Active) /\ IsCase(Active) /\ Active.phase = "options"
    BY <2>1, ActiveSelects
  <2>3. /\ a.phase = "body" /\ a.all = Active.all /\ a.at = Active.at
        /\ a.tried = Active.tried /\ a.default = Active.default /\ a.selected = Active.default
    BY <2>2 DEF IsCase, HasFields
  <2> HIDE DEF a
  <2>4. Search(Active.all, Active.at, Active.tried, Active.default)
    BY <2>2 DEF Selects, Searching
  <2>5. Active.at = Len(Active.all) + 1
    <3>1. Len(Active.all) \in Nat /\ Active.at \in 1 .. Len(Active.all) + 1
      BY <2>4 DEF Search, IsSequence
    <3>2. PICK n, at : n = Len(Active.all) /\ at = Active.at
      OBVIOUS
    <3>3. n \in Nat /\ at \in 1 .. n + 1 /\ at > n
      BY <2>1, <3>1, <3>2
    <3>4. at = n + 1
      BY <3>3
    <3> QED
      BY <3>2, <3>4
  <2>6. Selects(a)
    BY <2>1, <2>3, <2>4, <2>5 DEF Selects, Searching
  <2> QED
    BY <2>1, <2>6, CaseGoesOn
<1> QED
  BY <1>1, <1>2, <1>3, <1>7, <1>8, <1>9

\* What an activity that is no case does cannot disturb one.
LEMMA OthersSelect ==
  ASSUME SInv, SelectInv, NEW is, is # "case", Moves(is)
  PROVE  SelectInv'
<1>1. CASE Begins(is)
  BY <1>1, SelectPushed DEF Begins
<1>2. CASE Continues(is)
  BY <1>2, SelectReplaced DEF Continues
<1>3. CASE Ends(is)
  BY <1>3, SelectPopped DEF Ends, End
<1>4. CASE \E what : what # "no" /\ Raise(what)
  BY <1>4, SelectSame DEF Raise
<1> QED
  BY <1>1, <1>2, <1>3, <1>4 DEF Moves

LEMMA UnwindSelects ==
  ASSUME SInv, SelectInv, Unwind
  PROVE  SelectInv'
<1>1. stack # <<>> /\ Activity(Active) /\ (Active.is = "case" => Selects(Active))
  <2>1. PICK S : stack \in Seq(S)
    BY DEF SInv, Built, IsSequence
  <2>2. stack # <<>>
    BY DEF Unwind
  <2>3. Len(stack) \in 1 .. Len(stack)
    BY <2>1, <2>2
  <2> QED
    BY <2>2, <2>3, TheActive DEF SelectInv, Active
<1>2. CASE Active.frames > 0
  <2> DEFINE a == [Active EXCEPT !.frames = @ - 1]
  <2>1. Becomes(a)
    BY <1>2 DEF Unwind
  <2>2. a.is = Active.is
    BY <1>1 DEF Activity, IsAssign, IsIf, IsCase, IsCall, HasFields
  <2>3. a.is = "case" => Selects(a)
    <3>1. ASSUME Active.is = "case"
          PROVE  Selects(a)
      <4>1. IsCase(Active) /\ Selects(Active)
        BY <1>1, <3>1 DEF Activity, IsAssign, IsIf, IsCall
      <4>2. /\ a.phase = Active.phase /\ a.all = Active.all /\ a.at = Active.at
            /\ a.tried = Active.tried /\ a.default = Active.default
            /\ a.selected = Active.selected
        BY <4>1 DEF IsCase, HasFields
      <4> HIDE DEF a
      <4> QED
        BY <4>1, <4>2 DEF Selects, Searching
    <3> QED
      BY <2>2, <3>1
  <2> HIDE DEF a
  <2> QED
    BY <1>1, <2>1, <2>3, SelectReplaced
<1>3. CASE ~(Active.frames > 0)
  <2>1. stack' = Front(stack)
    BY <1>3 DEF Unwind, End
  <2> QED
    BY <1>1, <2>1, SelectPopped
<1> QED
  BY <1>2, <1>3

LEMMA SelectionSelects ==
  ASSUME SInv, SelectInv, SelectionNext
  PROVE  SelectInv'
<1>1. CASE BeginIf
  <2> DEFINE a == [is |-> "if", phase |-> "test", frames |-> 1, base |-> Depth(Current),
                   before |-> View(Current)]
  <2>1. a.is # "case" /\ Begin(a)
    BY <1>1 DEF BeginIf, BeginSelection
  <2> HIDE DEF a
  <2> QED
    BY <2>1, SelectPushed
<1>2. ASSUME NEW options \in Seq(Seq(Kinds)), BeginCase(options)
      PROVE  SelectInv'
  <2>1. Begin(Case(options)) /\ Selects(Case(options))
    BY <1>2, SelectBegins DEF BeginCase, BeginSelection
  <2> QED
    BY <2>1, SelectPushed
<1>3. ASSUME NEW options \in Cases, BeginCase(options)
      PROVE  SelectInv'
  BY <1>2, <1>3, SelectionAssumption
<1>4. ASSUME NEW entries \in Selectors, BeginSelector(entries)
      PROVE  SelectInv'
  <2> DEFINE options == [e \in DOMAIN entries |-> <<entries[e]>>]
  <2>1. entries \in Seq(Kinds)
    BY SelectionAssumption
  <2>2. DOMAIN entries = 1 .. Len(entries) /\ Len(entries) \in Nat
    BY <2>1
  <2>3. \A e \in 1 .. Len(entries) : entries[e] \in Kinds
    BY <2>1
  <2>4. \A k \in Kinds : <<k>> \in Seq(Kinds)
    OBVIOUS
  <2> DEFINE S == Seq(Kinds)
  <2>5. options \in [1 .. Len(entries) -> S]
    BY <2>2, <2>3, <2>4
  <2>6. BeginCase(options)
    BY <1>4 DEF BeginSelector, BeginCase
  <2> HIDE DEF S, options
  <2>7. \A n \in Nat : \A f \in [1 .. n -> S] : f \in Seq(S)
    OBVIOUS
  <2>8. options \in Seq(S)
    BY <2>2, <2>5, <2>7
  <2> QED
    BY <1>2, <2>6, <2>8 DEF S
<1>5. CASE IfTested
  <2> DEFINE a == [Active EXCEPT !.phase = "body"]
  <2>1. In("if", "test") /\ Becomes(a)
    BY <1>5 DEF IfTested, Goes
  <2>2. a.is # "case" /\ stack # <<>>
    <3>1. IsIf(Active)
      BY <2>1, InIf
    <3> QED
      BY <2>1, <3>1 DEF IsIf, HasFields, In
  <2> HIDE DEF a
  <2> QED
    BY <2>1, <2>2, SelectReplaced
<1>6. CASE SelectionEnds
  <2>1. stack # <<>> /\ stack' = Front(stack)
    BY <1>6 DEF SelectionEnds, In, End
  <2> QED
    BY <2>1, SelectPopped
<1> QED
  BY <1>1, <1>3, <1>4, <1>5, <1>6, CaseSelects DEF SelectionNext

LEMMA SelectStep ==
  ASSUME SInv, SelectInv, StatementsNext
  PROVE  SelectInv'
<1>1. ASSUME NEW groups \in Matches, Match(groups)
      PROVE  SelectInv'
  BY <1>1, SelectSame DEF Match
<1>2. CASE Fail \/ Recover
  BY <1>2, SelectSame DEF Fail, Raise, Recover
<1>3. CASE AssignmentNext
  BY <1>3, AssignmentMoves, OthersSelect
<1>4. CASE CallsNext
  BY <1>4, CallsMoves, OthersSelect
<1> QED
  BY <1>1, <1>2, <1>3, <1>4, UnwindSelects, SelectionSelects
     DEF StatementsNext, ActivitiesNext

LEMMA SelectsAlways == StatementsSpec => []SelectInv
<1>1. StatementsInit => SelectInv
  BY DEF StatementsInit, ActivitiesInit, SelectInv
<1>2. SInv /\ SelectInv /\ [StatementsNext]_allVars => SelectInv'
  <2>1. ASSUME SInv, SelectInv, UNCHANGED allVars
        PROVE  SelectInv'
    BY <2>1, SelectSame DEF allVars, activityVars
  <2> QED
    BY <2>1, SelectStep
<1> QED
  BY <1>1, <1>2, BuiltAlways, PTL DEF StatementsSpec

LEMMA SelectedIsFirst ==
  ASSUME NEW tried, NEW selected, FirstFound(tried, selected)
  PROVE  LET matching == {i \in DOMAIN tried : tried[i].outcome # "no"}
         IN  matching # {} /\ selected = tried[Min(matching)].option
<1> DEFINE matching == {i \in DOMAIN tried : tried[i].outcome # "no"}
           n == Len(tried)
<1>1. PICK S : tried \in Seq(S)
  BY DEF FirstFound, IsSequence
<1>2. n \in Nat \ {0} /\ DOMAIN tried = 1 .. n
  BY <1>1 DEF FirstFound
<1>3. \A i \in 1 .. n : tried[i].outcome = "no" <=> i # n
  BY DEF FirstFound
<1>4. selected = tried[n].option
  BY DEF FirstFound
<1>5. n \in matching /\ \A x \in matching : x = n
  <2>1. n \in 1 .. n
    BY <1>2
  <2>2. tried[n].outcome # "no"
    BY <1>3, <2>1
  <2>3. ASSUME NEW x \in matching
        PROVE  x = n
    <3>1. x \in 1 .. n /\ tried[x].outcome # "no"
      BY <1>2
    <3> QED
      BY <1>3, <3>1
  <2> QED
    BY <1>2, <2>1, <2>2, <2>3
<1> HIDE DEF matching, n
<1>6. Min(matching) = n
  <2>1. \A y \in matching : n =< y
    BY <1>2, <1>5
  <2> QED
    BY <1>5, <2>1 DEF Min
<1>7. matching # {} /\ selected = tried[Min(matching)].option
  BY <1>4, <1>5, <1>6
<1> QED
  BY <1>7 DEF matching

LEMMA SelectedIsDefault ==
  ASSUME NEW all, NEW tried, NEW default, Search(all, Len(all) + 1, tried, default), default # 0
  PROVE  LET matching == {i \in DOMAIN tried : tried[i].outcome # "no"}
             defaults == {i \in DOMAIN all : all[i].is = "default"}
         IN  /\ matching = {} /\ default = all[Max(defaults)].option
             /\ Len(tried) = Len(all) - Cardinality(defaults)
<1> DEFINE matching == {i \in DOMAIN tried : tried[i].outcome # "no"}
           defaults == {i \in DOMAIN all : all[i].is = "default"}
           D == DefaultsBefore(all, Len(all) + 1)
<1>1. PICK S, T : all \in Seq(S) /\ tried \in Seq(T)
  BY DEF Search, IsSequence
<1>2. /\ Len(all) \in Nat /\ DOMAIN all = 1 .. Len(all)
      /\ Len(tried) \in Nat /\ DOMAIN tried = 1 .. Len(tried)
  BY <1>1
<1>3. matching = {}
  <2>1. \A i \in 1 .. Len(tried) : tried[i].outcome = "no"
    BY DEF Search
  <2> QED
    BY <1>2, <2>1
<1>4. D = defaults
  <2>1. PICK n : n = Len(all)
    OBVIOUS
  <2>2. 1 .. n + 1 - 1 = 1 .. n
    BY <1>2, <2>1
  <2> QED
    BY <1>2, <2>1, <2>2 DEF DefaultsBefore
<1>5. PICK d \in D : default = all[d].option /\ \A i \in D : i <= d
  BY DEF Search, LastDefault
<1>6. D \subseteq Nat
  BY <1>2, <1>4
<1>7. Len(tried) = Len(all) + 1 - 1 - Cardinality(D) /\ Cardinality(D) \in Nat
  BY <1>2, DefaultsCounted DEF Search
<1> HIDE DEF D, matching, defaults
<1>8. Max(defaults) = d
  <2>1. d \in Nat /\ \A x \in D : x \in Nat
    BY <1>5, <1>6
  <2>2. \A x \in D : (\A y \in D : x >= y) => x = d
    BY <1>5, <2>1
  <2>3. \A y \in D : d >= y
    BY <1>5, <2>1
  <2> QED
    BY <1>4, <1>5, <2>2, <2>3 DEF Max
<1>9. Len(tried) = Len(all) - Cardinality(defaults)
  <2>1. PICK n, c : n = Len(all) /\ c = Cardinality(D)
    OBVIOUS
  <2>2. n \in Nat /\ c \in Nat /\ Len(tried) = n + 1 - 1 - c
    BY <1>2, <1>7, <2>1
  <2>3. Len(tried) = n - c
    BY <2>2
  <2> QED
    BY <1>4, <2>1, <2>3
<1>10. /\ matching = {} /\ default = all[Max(defaults)].option
       /\ Len(tried) = Len(all) - Cardinality(defaults)
  BY <1>3, <1>5, <1>8, <1>9
<1> QED
  BY <1>10 DEF matching, defaults

\* The option that a case or a selector selects is that of the first value that
\* matches, however many options have several values or several defaults stand
\* between them; without one it is that of the last default, when all values have
\* been tried.
THEOREM FirstMatchIsSelected == StatementsSpec => []FirstMatchSelected
<1>1. SInv /\ SelectInv => FirstMatchSelected
  <2> SUFFICES ASSUME SInv, SelectInv, In("case", "body")
               PROVE  FirstMatchSelected
    BY DEF FirstMatchSelected
  <2> DEFINE a == Active
             matching == {i \in DOMAIN a.tried : a.tried[i].outcome # "no"}
             defaults == {i \in DOMAIN a.all : a.all[i].is = "default"}
  <2>1. Selects(a) /\ a.phase = "body"
    BY ActiveSelects
  <2> HIDE DEF a
  <2>2. CASE FirstFound(a.tried, a.selected)
    <3>1. matching # {} /\ a.selected = a.tried[Min(matching)].option
      BY <2>2, SelectedIsFirst
    <3> QED
      BY <3>1 DEF FirstMatchSelected, a
  <2>3. CASE /\ Searching(a) /\ a.at = Len(a.all) + 1
             /\ a.default # 0 /\ a.selected = a.default
    <3>1. Search(a.all, Len(a.all) + 1, a.tried, a.default)
      BY <2>3 DEF Searching
    <3>2. /\ matching = {} /\ a.default = a.all[Max(defaults)].option
          /\ Len(a.tried) = Len(a.all) - Cardinality(defaults)
      BY <2>3, <3>1, SelectedIsDefault
    <3> QED
      BY <2>3, <3>2 DEF FirstMatchSelected, a
  <2> QED
    BY <2>1, <2>2, <2>3 DEF Selects
<1> QED
  BY <1>1, BuiltAlways, SelectsAlways, PTL
=============================================================================
