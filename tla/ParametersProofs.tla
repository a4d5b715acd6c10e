-------------------------- MODULE ParametersProofs --------------------------
(***************************************************************************)
(* What code sees, for any functions, arguments and defaults, and any code *)
(* in the defaults: the body of a call (ParametersOfBody), the code behind *)
(* whatever has ended (ViewKept) and defaults (DefaultsOfCaller), and what *)
(* assignments bind (AssignmentIsPrefix).                                  *)
(*                                                                         *)
(* From its first step on, the frame of a call holds the parameters that   *)
(* have been bound and nothing else.  Code in a default, and all that it   *)
(* calls, runs above that frame, where it is covered.  So are the frames   *)
(* that an activity has found: they go on to show what they showed.        *)
(***************************************************************************)
EXTENDS StatementsProofs, AssignmentMeaning

Waiting == {"called", "defaults", "default", "check", "bind"}

\* What the frame m of the call a holds.
Holds(m, a) ==
  /\ \A k \in Keys : m[k] # Absent =>
       \E i \in 1 .. a.next - 1 : k = a.f.parameters[i].name
  /\ \A i \in 1 .. a.next - 1 :
       /\ m[a.f.parameters[i].name] # Absent
       /\ (\A j \in 1 .. i - 1 : a.f.parameters[j].name # a.f.parameters[i].name)
          => m[a.f.parameters[i].name] = a.args[i]
Fresh(m, a) ==
  a.is = "call" /\ a.phase \in Waiting =>
    /\ a.next = 1 \/ (a.phase = "bind" /\ a.next <= Len(a.f.parameters) + 1)
    /\ Holds(m, a)

\* The frame that comes first on top of those below a.
Own(a) == Frame(Current, a.base + 1)
Running(i) == raised = "no" \/ i < Len(stack)

PInv ==
  /\ ~mutable[Current]
  /\ \A i, j \in 1 .. Len(stack) : i < j => stack[i].base + stack[i].frames <= stack[j].base
  /\ \A i \in 1 .. Len(stack) : Running(i) => Fresh(Own(stack[i]), stack[i])

-----------------------------------------------------------------------------
(* The activities below the innermost one. *)

\* What a step does to the stack, and what it has to show of the activity
\* that is innermost then.
TopFresh ==
  Len(stack') >= Len(stack) /\ stack' # <<>> /\ raised' = "no" =>
    Fresh(Own(Active), Active)'
Keeps ==
  /\ Len(stack') <= Len(stack) + 1
  /\ \A i \in 1 .. Len(stack') :
       i < Len(stack') \/ Len(stack') < Len(stack) => i <= Len(stack) /\ stack'[i] = stack[i]
  /\ Len(stack') > Len(stack) => raised = "no"
  /\ mutable'[Current] = mutable[Current]
  /\ TopFresh

LEMMA Lengths ==
  ASSUME SInv
  PROVE  Len(stack) \in Nat /\ (stack = <<>> <=> Len(stack) = 0)
<1>1. PICK S : stack \in Seq(S)
  BY DEF SInv, Built, IsSequence
<1> QED
  BY <1>1

\* The frame of an activity that others cover is kept.
LEMMA Covered ==
  ASSUME SInv, SInv', [Next]_scopeVars, NEW b \in Nat \ {0, 1}, b < Depth(Current)
  PROVE  \A k \in Keys : Frame(Current, b)'[k] = Frame(Current, b)[k]
<1>1. CASE UNCHANGED vars
  <2>1. Frame(Current, b)' = Frame(Current, b)
    BY <1>1 DEF vars, Frame
  <2> QED
    BY <2>1
<1>2. CASE CoveredKept
  <2>1. b \in 1 .. Depth(Current)
    BY Deep
  <2> QED
    BY <1>2, <2>1, CurrentAssumption DEF CoveredKept
<1>3. [CoveredKept]_vars
  BY CoveredStep DEF SInv, scopeVars
<1> QED
  BY <1>1, <1>2, <1>3

LEMMA SameHeld ==
  ASSUME NEW m, NEW n, NEW a, IsCall(a), \A k \in Keys : n[k] = m[k], Fresh(m, a)
  PROVE  Fresh(n, a)
<1>1. CASE ~(a.is = "call" /\ a.phase \in Waiting)
  BY <1>1 DEF Fresh
<1>2. CASE a.is = "call" /\ a.phase \in Waiting
  <2>1. Holds(m, a) /\ (a.next = 1 \/ (a.phase = "bind" /\ a.next <= Len(a.f.parameters) + 1))
    BY <1>2 DEF Fresh
  <2>2. ASSUME NEW i \in 1 .. a.next - 1
        PROVE  a.f.parameters[i].name \in Keys
    <3>1. a.f.parameters \in Seq(Parameters) /\ a.next \in Nat \ {0}
      BY CallablesAssumption DEF IsCall
    <3>2. i \in 1 .. Len(a.f.parameters)
      BY <2>1, <2>2, <3>1
    <3>3. a.f.parameters[i] \in Parameters
      BY <3>1, <3>2
    <3> QED
      BY <3>3 DEF Parameters, Keys
  <2>3. Holds(n, a)
    BY <2>1, <2>2 DEF Holds
  <2> QED
    BY <2>1, <2>3 DEF Fresh
<1> QED
  BY <1>1, <1>2

LEMMA StillFresh ==
  ASSUME SInv, PInv, SInv', [Next]_scopeVars,
         NEW i \in 1 .. Len(stack), Running(i), stack[i].phase \in CodePhases,
         NEW b, b = stack[i].base + 1
  PROVE  Fresh(Frame(Current, b)', stack[i])
<1> DEFINE a == stack[i]
<1>1. CASE a.is = "call" /\ a.phase \in Waiting
  <2>1. a.phase = "default"
    BY <1>1 DEF Waiting, CodePhases
  <2>2. Activity(a) /\ a.frames = FramesIn(a)
    BY DEF SInv, Built, Level, Running
  <2>3. IsCall(a) /\ a.frames = 2 /\ a.base \in Nat \ {0}
    BY <1>1, <2>1, <2>2 DEF Activity, IsAssign, IsIf, IsCase, FramesIn
  <2>4. a.base + 2 <= Depth(Current)
    <3>1. stack # <<>> /\ Len(stack) \in Nat
      BY Lengths
    <3>2. /\ Depth(Current) = Active.base + Active.frames
          /\ Active.base \in Nat /\ Active.frames \in Nat
      BY <3>1, TheActive
    <3>3. CASE i = Len(stack)
      BY <2>3, <3>2, <3>3 DEF Active
    <3>4. CASE i # Len(stack)
      <4>1. Len(stack) \in 1 .. Len(stack) /\ i < Len(stack)
        BY <3>1, <3>4
      <4>2. a.base + a.frames <= Active.base
        BY <4>1 DEF PInv, Active
      <4> QED
        BY <2>3, <3>2, <4>2
    <3> QED
      BY <3>3, <3>4
  <2>5. b \in Nat \ {0, 1} /\ b < Depth(Current)
    BY <2>3, <2>4, Deep
  <2>6. Fresh(Frame(Current, b), a)
    BY DEF PInv, Own
  <2>7. \A k \in Keys : Frame(Current, b)'[k] = Frame(Current, b)[k]
    BY <2>5, Covered
  <2>8. Fresh(Frame(Current, b)', a)
    BY <2>3, <2>6, <2>7, SameHeld
  <2> QED
    BY <2>8
<1>2. CASE ~(a.is = "call" /\ a.phase \in Waiting)
  BY <1>2 DEF Fresh
<1> QED
  BY <1>1, <1>2

LEMMA KeptPInv ==
  ASSUME SInv, PInv, SInv', [Next]_scopeVars, Keeps
  PROVE  PInv'
<1> DEFINE n == Len(stack')
<1>1. /\ Len(stack) \in Nat /\ n \in Nat /\ (stack' = <<>> <=> n = 0)
  <2>1. Len(stack) \in Nat
    BY Lengths
  <2>2. PICK S : stack' \in Seq(S)
    BY DEF SInv, Built, IsSequence
  <2> QED
    BY <2>1, <2>2
<1>2. ASSUME NEW i \in 1 .. n
      PROVE  Level(stack', i, raised') /\ stack'[i].base \in Nat /\ stack'[i].frames \in Nat
  <2>1. Level(stack', i, raised')
    BY <1>2 DEF SInv, Built
  <2> QED
    BY <2>1 DEF Level, Activity
<1>3. ASSUME NEW i \in 1 .. n, i < n \/ n < Len(stack)
      PROVE  i \in 1 .. Len(stack) /\ stack'[i] = stack[i]
  BY <1>1, <1>3 DEF Keeps
<1>4. ASSUME NEW i \in 1 .. n, NEW j \in 1 .. n, i < j
      PROVE  stack'[i].base + stack'[i].frames <= stack'[j].base
  <2>1. CASE j < n \/ n < Len(stack)
    <3>1. i < n \/ n < Len(stack)
      BY <1>1, <1>4, <2>1
    <3>2. i \in 1 .. Len(stack) /\ j \in 1 .. Len(stack) /\ stack'[i] = stack[i] /\ stack'[j] = stack[j]
      BY <1>3, <2>1, <3>1
    <3> QED
      BY <1>4, <3>2 DEF PInv
  <2>2. CASE j = n /\ n >= Len(stack)
    <3>1. j - 1 \in 1 .. n /\ j # 1 /\ j - 1 < n /\ i < n
      BY <1>1, <1>4, <2>2
    <3>2. stack'[j].base = stack'[j - 1].base + stack'[j - 1].frames
      BY <1>2, <3>1 DEF Level
    <3>3. CASE i = j - 1
      BY <1>2, <3>2, <3>3
    <3>4. CASE i # j - 1
      <4>1. i < j - 1
        BY <1>1, <1>4, <3>4
      <4>2. i \in 1 .. Len(stack) /\ j - 1 \in 1 .. Len(stack)
            /\ stack'[i] = stack[i] /\ stack'[j - 1] = stack[j - 1]
        BY <1>3, <3>1
      <4>3. stack'[i].base + stack'[i].frames <= stack'[j - 1].base
        BY <4>1, <4>2 DEF PInv
      <4>4. /\ stack'[i].base \in Nat /\ stack'[i].frames \in Nat
            /\ stack'[j - 1].base \in Nat /\ stack'[j - 1].frames \in Nat
        BY <1>2, <3>1
      <4> QED
        BY <3>2, <4>3, <4>4
    <3> QED
      BY <3>3, <3>4
  <2> QED
    BY <1>1, <2>1, <2>2
<1>5. ASSUME NEW i \in 1 .. n, raised' = "no" \/ i < n,
             NEW b, b = stack'[i].base + 1
      PROVE  Fresh(Frame(Current, b)', stack'[i])
  <2>1. CASE i < n \/ n < Len(stack)
    <3>1. i \in 1 .. Len(stack) /\ stack'[i] = stack[i]
      BY <1>3, <2>1
    <3>2. Running(i)
      <4>1. i < Len(stack) \/ n > Len(stack)
        BY <1>1, <2>1, <3>1
      <4> QED
        BY <4>1 DEF Running, Keeps
    <3>3. stack[i].phase \in CodePhases
      <4>1. CASE i < n
        BY <1>2, <3>1, <4>1 DEF Level
      <4>2. CASE ~(i < n)
        <5>1. i < Len(stack)
          BY <1>1, <2>1, <4>2
        <5> QED
          BY <3>1, <5>1 DEF SInv, Built, Level
      <4> QED
        BY <4>1, <4>2
    <3>4. Fresh(Frame(Current, b)', stack[i])
      BY <1>5, <3>1, <3>2, <3>3, StillFresh
    <3> QED
      BY <3>1, <3>4
  <2>2. CASE i = n /\ n >= Len(stack)
    <3>1. stack' # <<>> /\ raised' = "no"
      BY <1>1, <1>5, <2>2
    <3>2. Fresh(Own(Active), Active)'
      BY <2>2, <3>1 DEF Keeps, TopFresh
    <3> QED
      BY <1>5, <2>2, <3>2 DEF Own, Active, Frame
  <2> QED
    BY <1>1, <2>1, <2>2
<1>6. ASSUME NEW i \in 1 .. n, Running(i)'
      PROVE  Fresh(Own(stack[i]), stack[i])'
  <2>1. raised' = "no" \/ i < n
    BY <1>6 DEF Running
  <2>2. PICK b : b = stack'[i].base + 1
    OBVIOUS
  <2>3. Fresh(Frame(Current, b)', stack'[i])
    BY <1>5, <2>1, <2>2
  <2> QED
    BY <2>2, <2>3 DEF Own, Frame
<1>7. ~mutable'[Current]
  BY DEF Keeps, PInv
<1> QED
  BY <1>4, <1>6, <1>7 DEF PInv

-----------------------------------------------------------------------------
(* What the stack is after each kind of step. *)

ScopeAction ==
  \/ UNCHANGED scopeVars \/ EnterLocal(Current) \/ LeaveLocal(Current)
  \/ \E groups \in Matches : RxSet(Current, groups)
  \/ \E r \in Refs, v \in Values : Set(Current, r, v)

LEMMA SameMutable == ScopeAction => mutable' = mutable
BY DEF ScopeAction, scopeVars, vars, EnterLocal, LeaveLocal, RxSet, Set

LEMMA KeepsBegun ==
  ASSUME SInv, ScopeAction, NEW a, Begin(a), NEW b, b = a.base + 1,
         a.is = "call" => Fresh(Frame(Current, b)', a)
  PROVE  Keeps
<1>1. PICK S : stack \in Seq(S)
  BY DEF SInv, Built, IsSequence
<1>2. stack \in Seq(S \cup {a})
  BY <1>1, Wider
<1>3. stack' = Append(stack, a) /\ raised = "no" /\ raised' = "no"
  BY DEF Begin, CodeRuns
<1>4. /\ Len(stack') = Len(stack) + 1 /\ Len(stack) \in Nat /\ stack'[Len(stack')] = a
      /\ \A i \in 1 .. Len(stack) : stack'[i] = stack[i]
  BY <1>2, <1>3
<1>5. Active' = a
  BY <1>4 DEF Active
<1>6. a.is # "call" => Fresh(Own(Active), Active)'
  BY <1>5 DEF Fresh
<1>7. a.is = "call" => Fresh(Own(Active), Active)'
  BY <1>5 DEF Own, Frame
<1>8. TopFresh
  BY <1>6, <1>7 DEF TopFresh
<1> QED
  BY <1>3, <1>4, <1>8, SameMutable DEF Keeps

LEMMA KeepsPlaced ==
  ASSUME SInv, ScopeAction, NEW a, NEW b, b = a.base + 1,
         Len(stack') = Len(stack), stack'[Len(stack')] = a,
         \A i \in 1 .. Len(stack) : i < Len(stack) => stack'[i] = stack[i],
         raised' = "no" => Fresh(Frame(Current, b)', a)
  PROVE  Keeps
<1>1. Active' = a
  BY DEF Active
<1>2. raised' = "no" => Fresh(Own(Active), Active)'
  BY <1>1 DEF Own, Frame
<1>3. TopFresh
  BY <1>2 DEF TopFresh
<1>4. Len(stack) \in Nat
  BY Lengths
<1> QED
  BY <1>3, <1>4, SameMutable DEF Keeps

LEMMA KeepsGone ==
  ASSUME SInv, ScopeAction, stack # <<>>, NEW a, stack' = [stack EXCEPT ![Len(stack)] = a],
         NEW b, b = a.base + 1,
         raised' = "no" => Fresh(Frame(Current, b)', a)
  PROVE  Keeps
<1>1. PICK S : stack \in Seq(S)
  BY DEF SInv, Built, IsSequence
<1>2. stack \in Seq(S \cup {a}) /\ Len(stack) \in Nat \ {0}
  BY <1>1, Wider
<1>3. /\ Len(stack') = Len(stack) /\ stack'[Len(stack')] = a
      /\ \A i \in 1 .. Len(stack) : i < Len(stack) => stack'[i] = stack[i]
  BY <1>2
<1> QED
  BY <1>3, KeepsPlaced

LEMMA KeepsEnded ==
  ASSUME SInv, ScopeAction, stack # <<>>, stack' = Front(stack)
  PROVE  Keeps
<1>1. PICK S : stack \in Seq(S)
  BY DEF SInv, Built, IsSequence
<1>2. /\ Len(stack) \in Nat \ {0} /\ Len(stack') = Len(stack) - 1
      /\ \A i \in 1 .. Len(stack') : stack'[i] = stack[i]
  <2> DEFINE k == Len(stack) - 1
  <2>1. Len(stack) \in Nat \ {0} /\ k \in Nat /\ k <= Len(stack) /\ stack' = SubSeq(stack, 1, k)
    BY <1>1 DEF Front
  <2> HIDE DEF k
  <2>2. Len(stack') = k /\ \A i \in 1 .. k : stack'[i] = stack[i]
    BY <1>1, <2>1, Prefix
  <2> QED
    BY <2>1, <2>2 DEF k
<1> QED
  BY <1>2, SameMutable DEF Keeps, TopFresh

LEMMA KeepsStack ==
  ASSUME SInv, ScopeAction, UNCHANGED stack,
         stack # <<>> /\ raised' = "no" => Fresh(Own(Active), Active)'
  PROVE  Keeps
<1>1. Len(stack) \in Nat /\ Len(stack') = Len(stack)
  BY Lengths
<1> QED
  BY <1>1, SameMutable DEF Keeps, TopFresh

LEMMA KeepsRaised ==
  ASSUME SInv, NEW what, what # "no", Raise(what)
  PROVE  Keeps
<1>1. UNCHANGED stack /\ raised' # "no" /\ ScopeAction
  BY DEF Raise, ScopeAction
<1> QED
  BY <1>1, KeepsStack

\* Any activity but a call.
LEMMA NoCall ==
  ASSUME NEW a, a.is # "call", NEW m
  PROVE  Fresh(m, a)
BY DEF Fresh

LEMMA OnTop ==
  ASSUME SInv, PInv, stack # <<>>, raised = "no"
  PROVE  Fresh(Frame(Current, Active.base + 1), Active) /\ ~mutable[Current]
<1>1. Len(stack) \in 1 .. Len(stack)
  BY TheActive
<1> QED
  BY <1>1 DEF PInv, Running, Own, Active

LEMMA ActivitiesKeep ==
  ASSUME SInv, PInv, SInv', ActivitiesNext
  PROVE  Keeps
<1>1. ASSUME NEW groups \in Matches, Match(groups)
      PROVE  Keeps
  <2>1. /\ RxSet(Current, groups) /\ CodeRuns /\ UNCHANGED <<stack, raised>>
    BY <1>1 DEF Match
  <2>2. ScopeAction /\ [Next]_scopeVars
    BY <2>1, ScopeStep DEF ScopeAction
  <2>3. ASSUME stack # <<>>
        PROVE  Fresh(Own(Active), Active)'
    <3>1. Len(stack) \in 1 .. Len(stack) /\ Running(Len(stack)) /\ stack[Len(stack)].phase \in CodePhases
      BY <2>1, <2>3, TheActive DEF CodeRuns, Active, Running
    <3>2. PICK b : b = stack[Len(stack)].base + 1
      OBVIOUS
    <3>3. Fresh(Frame(Current, b)', stack[Len(stack)])
      BY <2>2, <3>1, <3>2, StillFresh
    <3> QED
      BY <2>1, <3>2, <3>3 DEF Active, Own, Frame
  <2> QED
    BY <2>1, <2>2, <2>3, KeepsStack
<1>2. CASE Fail
  BY <1>2, KeepsRaised DEF Fail
<1>3. CASE Unwind
  <2>1. raised # "no" /\ stack # <<>>
    BY <1>3 DEF Unwind
  <2>2. CASE Active.frames > 0
    <3>1. /\ LeaveLocal(Current) /\ UNCHANGED raised
          /\ stack' = [stack EXCEPT ![Len(stack)] = [Active EXCEPT !.frames = @ - 1]]
      BY <1>3, <2>2 DEF Unwind, Becomes
    <3> DEFINE a == [Active EXCEPT !.frames = @ - 1]
    <3>2. PICK b : b = a.base + 1
      OBVIOUS
    <3> HIDE DEF a
    <3>3. ScopeAction
      BY <3>1 DEF ScopeAction
    <3> QED
      BY <2>1, <3>1, <3>2, <3>3, KeepsGone DEF a
  <2>3. CASE ~(Active.frames > 0)
    <3>1. stack' = Front(stack) /\ ScopeAction
      BY <1>3, <2>3 DEF Unwind, End, ScopeAction
    <3> QED
      BY <2>1, <3>1, KeepsEnded
  <2> QED
    BY <2>2, <2>3
<1>4. CASE Recover
  BY <1>4, KeepsStack DEF Recover, ScopeAction
<1> QED
  BY <1>1, <1>2, <1>3, <1>4 DEF ActivitiesNext

\* What goes on without being a call.
LEMMA OtherGoes ==
  ASSUME SInv, ScopeAction, NEW is \in {"assign", "if", "case"}, NEW phase, In(is, phase),
         NEW a, Goes(a), a.is = Active.is
  PROVE  Keeps
<1>1. stack # <<>> /\ a.is # "call" /\ stack' = [stack EXCEPT ![Len(stack)] = a]
  BY DEF In, Goes, Becomes
<1>2. PICK b : b = a.base + 1
  OBVIOUS
<1>3. Fresh(Frame(Current, b)', a)
  BY <1>1, NoCall
<1> QED
  BY <1>1, <1>2, <1>3, KeepsGone

LEMMA OtherKind ==
  ASSUME SInv, NEW is \in {"assign", "if", "case"}, NEW phase, In(is, phase)
  PROVE  \/ is = "assign" /\ IsAssign(Active)
         \/ is = "if" /\ IsIf(Active)
         \/ is = "case" /\ IsCase(Active)
<1>1. Activity(Active) /\ Active.is = is
  BY TheActive DEF In
<1> QED
  BY <1>1 DEF Activity, IsAssign, IsIf, IsCase, IsCall

LEMMA AssignmentKeeps ==
  ASSUME SInv, AssignmentNext
  PROVE  Keeps
<1>1. UNCHANGED scopeVars => ScopeAction
  BY DEF ScopeAction
<1>2. Raise("error") => Keeps
  BY KeepsRaised
<1>3. ASSUME NEW phase, In("assign", phase)
      PROVE  IsAssign(Active)
  BY <1>3, OtherKind
<1>4. ASSUME NEW assignment \in Assignments, BeginAssign(assignment)
      PROVE  Keeps
  <2> DEFINE a == [is |-> "assign", phase |-> "rhs", frames |-> 0, base |-> Depth(Current),
                   before |-> View(Current), left |-> assignment.left,
                   right |-> assignment.right, todo |-> <<>>, bound |-> <<>>]
  <2>1. Begin(a) /\ UNCHANGED scopeVars /\ a.is # "call"
    BY <1>4 DEF BeginAssign
  <2> HIDE DEF a
  <2>2. PICK b : b = a.base + 1
    OBVIOUS
  <2> QED
    BY <1>1, <2>1, <2>2, KeepsBegun
<1>5. CASE RightEvaluated
  <2> DEFINE a == [Active EXCEPT !.phase = "assign", !.todo = <<<<Active.left, Active.right>>>>]
  <2>1. In("assign", "rhs") /\ Goes(a) /\ UNCHANGED scopeVars
    BY <1>5 DEF RightEvaluated
  <2>2. a.is = Active.is
    BY <1>3, <2>1 DEF IsAssign, HasFields
  <2> HIDE DEF a
  <2> QED
    BY <1>1, <2>1, <2>2, OtherGoes
<1>6. ASSUME NEW todo, NEW bound, In("assign", "assign"), ScopeAction,
             Goes([Active EXCEPT !.todo = todo, !.bound = bound])
      PROVE  Keeps
  <2> DEFINE a == [Active EXCEPT !.todo = todo, !.bound = bound]
  <2>1. a.is = Active.is
    BY <1>3, <1>6 DEF IsAssign, HasFields
  <2> HIDE DEF a
  <2> QED
    BY <1>6, <2>1, OtherGoes DEF a
<1>7. ASSUME NEW todo, In("assign", "assign"), UNCHANGED scopeVars,
             Goes([Active EXCEPT !.todo = todo])
      PROVE  Keeps
  <2> DEFINE a == [Active EXCEPT !.todo = todo]
  <2>1. a.is = Active.is
    BY <1>3, <1>7 DEF IsAssign, HasFields
  <2> HIDE DEF a
  <2> QED
    BY <1>1, <1>7, <2>1, OtherGoes DEF a
<1>8. CASE AssignName
  <2>1. In("assign", "assign")
    BY <1>8 DEF AssignName, Assigning
  <2>2. CASE Raise("error")
    BY <1>2, <2>2
  <2>3. CASE ~Raise("error")
    <3>1. /\ Set(Current, Left.ref, Right)
          /\ Goes([Active EXCEPT !.todo = Tail(@), !.bound = Append(@, Head(Active.todo))])
      BY <1>8, <2>3 DEF AssignName
    <3> DEFINE todo == Tail(Active.todo)
               bound == Append(Active.bound, Head(Active.todo))
    <3>2. [Active EXCEPT !.todo = Tail(@), !.bound = Append(@, Head(Active.todo))]
          = [Active EXCEPT !.todo = todo, !.bound = bound]
      OBVIOUS
    <3>3. ScopeAction
      <4>1. Goes([Active EXCEPT !.todo = todo, !.bound = bound]) /\ Left.is = "name" /\ Right # Missing
        BY <1>8, <3>1, <3>2 DEF AssignName
      <4>2. Left.ref \in Refs /\ Right \in Values
        <5>1. IsAssign(Active) /\ Active.todo \in Pieces /\ Active.todo # <<>>
          BY <1>3, <1>8, <2>1 DEF IsAssign, AssignName, Assigning
        <5>2. Head(Active.todo) \in Lefts \X (Rights \cup {Missing})
          BY <5>1 DEF Pieces
        <5>3. Left \in Lefts /\ Right \in Rights \cup {Missing}
          BY <5>2 DEF Left, Right
        <5> QED
          BY <4>1, <5>3, AssignmentsAssumption
      <4> QED
        BY <3>1, <4>2 DEF ScopeAction
    <3> HIDE DEF todo, bound
    <3> QED
      BY <1>6, <2>1, <3>1, <3>2, <3>3
  <2> QED
    BY <2>2, <2>3
<1>9. CASE AssignArray
  <2>1. In("assign", "assign")
    BY <1>9 DEF AssignArray, Assigning
  <2>2. CASE Raise("error")
    BY <1>2, <2>2
  <2>3. CASE ~Raise("error")
    <3> DEFINE todo == Zip(Left.of, Right.of) \o Tail(Active.todo)
    <3>1. Goes([Active EXCEPT !.todo = todo]) /\ UNCHANGED scopeVars
      BY <1>9, <2>3 DEF AssignArray
    <3> HIDE DEF todo
    <3> QED
      BY <1>7, <2>1, <3>1
  <2> QED
    BY <2>2, <2>3
<1>10. CASE AssignHash
  <2>1. In("assign", "assign")
    BY <1>10 DEF AssignHash, Assigning
  <2> DEFINE values == [i \in DOMAIN Left.of |-> ValueFor(Right.of, Left.of[i])]
             todo == Zip(Left.of, values) \o Tail(Active.todo)
  <2>2. Goes([Active EXCEPT !.todo = todo]) /\ UNCHANGED scopeVars
    BY <1>10 DEF AssignHash
  <2> HIDE DEF todo
  <2> QED
    BY <1>7, <2>1, <2>2
<1>11. CASE AssignFails
  BY <1>2, <1>11 DEF AssignFails
<1>12. CASE AssignEnds
  BY <1>1, <1>12, KeepsEnded DEF AssignEnds, In, End
<1> QED
  BY <1>4, <1>5, <1>8, <1>9, <1>10, <1>11, <1>12 DEF AssignmentNext

LEMMA SelectionKeeps ==
  ASSUME SInv, SelectionNext
  PROVE  Keeps
<1>1. UNCHANGED scopeVars \/ EnterLocal(Current) \/ LeaveLocal(Current) => ScopeAction
  BY DEF ScopeAction
<1>2. ASSUME NEW phase, In("case", phase)
      PROVE  IsCase(Active)
  BY <1>2, OtherKind
<1>3. ASSUME NEW a, a.is # "call", BeginSelection(a)
      PROVE  Keeps
  <2>1. PICK b : b = a.base + 1
    OBVIOUS
  <2> QED
    BY <1>1, <1>3, <2>1, KeepsBegun DEF BeginSelection
<1>4. CASE BeginIf
  <2> DEFINE a == [is |-> "if", phase |-> "test", frames |-> 1, base |-> Depth(Current),
                   before |-> View(Current)]
  <2>1. a.is # "call" /\ BeginSelection(a)
    BY <1>4 DEF BeginIf
  <2> HIDE DEF a
  <2> QED
    BY <1>3, <2>1
<1>5. ASSUME NEW options, BeginSelection(Case(options))
      PROVE  Keeps
  <2>1. Case(options).is # "call"
    BY DEF Case
  <2> QED
    BY <1>3, <1>5, <2>1
<1>6. CASE IfTested
  <2> DEFINE a == [Active EXCEPT !.phase = "body"]
  <2>1. In("if", "test") /\ Goes(a) /\ UNCHANGED scopeVars
    BY <1>6 DEF IfTested
  <2>2. IsIf(Active)
    BY <2>1, OtherKind
  <2>3. a.is = Active.is
    BY <2>2 DEF IsIf, HasFields
  <2> HIDE DEF a
  <2> QED
    BY <1>1, <2>1, <2>3, OtherGoes
<1>7. CASE CaseTested
  <2> DEFINE a == [Active EXCEPT !.phase = "options"]
  <2>1. In("case", "test") /\ Goes(a) /\ UNCHANGED scopeVars
    BY <1>7 DEF CaseTested
  <2>2. a.is = Active.is
    BY <1>2, <2>1 DEF IsCase, HasFields
  <2> HIDE DEF a
  <2> QED
    BY <1>1, <2>1, <2>2, OtherGoes
<1>8. CASE MeetDefault
  <2> DEFINE a == [Active EXCEPT !.default = Active.all[Active.at].option, !.at = @ + 1]
  <2>1. In("case", "options") /\ Goes(a) /\ UNCHANGED scopeVars
    BY <1>8 DEF MeetDefault, AtAlternative
  <2>2. a.is = Active.is
    BY <1>2, <2>1 DEF IsCase, HasFields
  <2> HIDE DEF a
  <2> QED
    BY <1>1, <2>1, <2>2, OtherGoes
<1>9. CASE MeetValue
  <2> DEFINE a == [Active EXCEPT !.phase = "value"]
  <2>1. In("case", "options") /\ Goes(a) /\ UNCHANGED scopeVars
    BY <1>9 DEF MeetValue, AtAlternative
  <2>2. a.is = Active.is
    BY <1>2, <2>1 DEF IsCase, HasFields
  <2> HIDE DEF a
  <2> QED
    BY <1>1, <2>1, <2>2, OtherGoes
<1>10. CASE NoMatch
  <2> DEFINE a == [Active EXCEPT !.phase = "options", !.at = @ + 1, !.tried = Tried("no")]
  <2>1. In("case", "value") /\ Goes(a) /\ UNCHANGED scopeVars
    BY <1>10 DEF NoMatch
  <2>2. a.is = Active.is
    BY <1>2, <2>1 DEF IsCase, HasFields
  <2> HIDE DEF a
  <2> QED
    BY <1>1, <2>1, <2>2, OtherGoes
<1>11. ASSUME NEW outcome, In("case", "value"), ScopeAction,
              Goes([Active EXCEPT !.phase = "body", !.selected = Active.all[Active.at].option,
                                  !.tried = Tried(outcome)])
       PROVE  Keeps
  <2> DEFINE a == [Active EXCEPT !.phase = "body", !.selected = Active.all[Active.at].option,
                                 !.tried = Tried(outcome)]
  <2>1. a.is = Active.is
    BY <1>2, <1>11 DEF IsCase, HasFields
  <2> HIDE DEF a
  <2> QED
    BY <1>11, <2>1, OtherGoes DEF a
<1>12. CASE PlainMatch
  BY <1>1, <1>11, <1>12 DEF PlainMatch
<1>13. ASSUME NEW groups \in Matches, RegexpMatch(groups)
       PROVE  Keeps
  <2>1. ScopeAction
    BY <1>13 DEF RegexpMatch, ScopeAction
  <2> QED
    BY <1>11, <1>13, <2>1 DEF RegexpMatch
<1>14. CASE SelectDefault
  <2> DEFINE a == [Active EXCEPT !.phase = "body", !.selected = Active.default]
  <2>1. In("case", "options") /\ Goes(a) /\ UNCHANGED scopeVars
    BY <1>14 DEF SelectDefault
  <2>2. a.is = Active.is
    BY <1>2, <2>1 DEF IsCase, HasFields
  <2> HIDE DEF a
  <2> QED
    BY <1>1, <2>1, <2>2, OtherGoes
<1>15. CASE SelectionEnds
  <2>1. stack # <<>> /\ LeaveLocal(Current) /\ stack' = Front(stack)
    BY <1>15 DEF SelectionEnds, In, End
  <2> QED
    BY <1>1, <2>1, KeepsEnded
<1> QED
  BY <1>4, <1>5, <1>6, <1>7, <1>8, <1>9, <1>10, <1>12, <1>13, <1>14, <1>15
     DEF SelectionNext, BeginCase, BeginSelector

-----------------------------------------------------------------------------
(* Calls. *)

LEMMA CallOnTop ==
  ASSUME SInv, PInv, NEW phase, In("call", phase), NEW b, b = Active.base + 1
  PROVE  /\ stack # <<>> /\ raised = "no" /\ IsCall(Active) /\ Active.phase = phase
         /\ Active.base \in Nat \ {0} /\ b \in Nat \ {0, 1}
         /\ Depth(Current) = IF phase \in {"defaults", "default"} THEN b + 1 ELSE b
         /\ Fresh(Frame(Current, b), Active) /\ ~mutable[Current]
<1>1. stack # <<>> /\ raised = "no" /\ Active.is = "call" /\ Active.phase = phase
  BY DEF In
<1>2. /\ Activity(Active) /\ Active.base \in Nat \ {0}
      /\ Depth(Current) = Active.base + Active.frames /\ Active.frames = FramesIn(Active)
  BY <1>1, TheActive
<1>3. IsCall(Active)
  BY <1>1, <1>2 DEF Activity, IsAssign, IsIf, IsCase
<1>4. Active.frames = IF phase \in {"defaults", "default"} THEN 2 ELSE 1
  BY <1>1, <1>2 DEF FramesIn
<1>5. Depth(Current) = IF phase \in {"defaults", "default"} THEN b + 1 ELSE b
  BY <1>2, <1>4
<1>6. Fresh(Frame(Current, b), Active) /\ ~mutable[Current]
  BY <1>1, OnTop
<1> QED
  BY <1>1, <1>2, <1>3, <1>5, <1>6

\* Nothing has been bound yet, and the step does not touch the frame.
LEMMA StillEmpty ==
  ASSUME SInv, PInv, ScopeAction, NEW phase \in Waiting \ {"bind"}, In("call", phase),
         NEW a, Goes(a), a.base = Active.base, a.next = Active.next,
         NEW b, b = Active.base + 1, Frame(Current, b)' = Frame(Current, b)
  PROVE  Keeps
<1>1. stack # <<>> /\ Active.phase = phase /\ Fresh(Frame(Current, b), Active)
  BY CallOnTop
<1>2. Active.is = "call"
  BY DEF In
<1>3. Active.next = 1 /\ Holds(Frame(Current, b), Active)
  BY <1>1, <1>2 DEF Fresh
<1>4. \A k \in Keys : Frame(Current, b)[k] = Absent
  BY <1>3 DEF Holds
<1>5. Holds(Frame(Current, b)', a)
  BY <1>3, <1>4 DEF Holds
<1>6. Fresh(Frame(Current, b)', a)
  BY <1>3, <1>5 DEF Fresh
<1> QED
  BY <1>1, <1>6, KeepsGone DEF Goes, Becomes

\* One parameter is bound, unless one before it has its name.
LEMMA BindKeeps ==
  ASSUME SInv, PInv, Bind
  PROVE  Keeps
<1> DEFINE a == [Active EXCEPT !.next = @ + 1]
           f == Active.f
           n == Active.next
           name == Param(n).name
           r == LocalName(name)
           v == Active.args[n]
<1>1. In("call", "bind") /\ n <= Wanted /\ Goes(a) /\ Set(Current, r, v)
  BY DEF Bind
<1>2. PICK b : b = Active.base + 1
  OBVIOUS
<1>3. /\ stack # <<>> /\ IsCall(Active) /\ Active.phase = "bind" /\ b \in Nat \ {0, 1}
      /\ Depth(Current) = b /\ Fresh(Frame(Current, b), Active) /\ ~mutable[Current]
  BY <1>1, <1>2, CallOnTop
<1>4. /\ n \in 1 .. Len(f.parameters) /\ f.parameters \in Seq(Parameters)
      /\ Len(f.parameters) \in Nat
      /\ Active.args \in Seq(Values) /\ n \in 1 .. Len(Active.args)
  BY <1>1, <1>3, CallablesAssumption DEF IsCall, ArgumentsFit, Wanted
<1>5. ASSUME NEW i \in 1 .. n
      PROVE  f.parameters[i].name \in Names
  <2>1. f.parameters[i] \in Parameters
    BY <1>4
  <2> QED
    BY <2>1 DEF Parameters
<1>6. name = f.parameters[n].name /\ name \in Names /\ v \in Values
  BY <1>4, <1>5 DEF Param
<1>7. a.base = Active.base /\ a.f = f /\ a.args = Active.args /\ a.next = n + 1
      /\ a.phase = "bind" /\ a.is = "call"
  BY <1>3 DEF IsCall, HasFields
<1>8. r \in Refs /\ SetIdx(Current, r) = b /\ r.name = name
  BY <1>3, <1>6 DEF LocalName, Refs, SetIdx
<1> HIDE DEF a, r, v
<1>9. ScopeAction
  BY <1>1, <1>6, <1>8 DEF ScopeAction
<1>10. Holds(Frame(Current, b), Active)
  BY <1>3 DEF Fresh, IsCall, Waiting
<1>11. MaySet(Current, r) <=> Frame(Current, b)[name] = Absent
  BY <1>3, <1>8 DEF MaySet, OverridesGlobal
<1>12. name \in Keys /\ v # Absent
  BY <1>6, AbsentAssumption DEF Keys
<1>13. \A k \in Keys : Frame(Current, b)'[k] =
         IF k = name /\ Frame(Current, b)[name] = Absent THEN v ELSE Frame(Current, b)[k]
  <2>1. UNCHANGED frames
    BY <1>1 DEF Set
  <2>2. CASE Frame(Current, b)[name] = Absent
    <3>1. maps' = [maps EXCEPT ![frames[Current][b]][name] = v]
      BY <1>1, <1>8, <1>11, <2>2 DEF Set
    <3>2. b \in 1 .. Depth(Current)
      BY <1>3
    <3>3. frames[Current][b] \in MapIds /\ maps \in [MapIds -> [Keys -> Cells]]
      BY <3>2, DepthOf, CurrentAssumption DEF SInv
    <3> DEFINE m == frames[Current][b]
    <3>4. Frame(Current, b)' = maps'[m] /\ Frame(Current, b) = maps[m]
      BY <2>1 DEF Frame
    <3>5. maps'[m] = [maps[m] EXCEPT ![name] = v] /\ DOMAIN maps[m] = Keys
      BY <3>1, <3>3
    <3> HIDE DEF m, name
    <3>6. \A k \in Keys : maps'[m][k] = IF k = name THEN v ELSE maps[m][k]
      BY <3>5
    <3> QED
      BY <2>2, <3>4, <3>6
  <2>3. CASE Frame(Current, b)[name] # Absent
    <3>1. maps' = maps
      BY <1>1, <1>11, <2>3 DEF Set
    <3> QED
      BY <2>1, <2>3, <3>1 DEF Frame
  <2> QED
    BY <2>2, <2>3
<1> DEFINE old == Frame(Current, b)
           new == Frame(Current, b)'
<1>14. \A k \in Keys : new[k] # Absent => \E i \in 1 .. a.next - 1 : k = a.f.parameters[i].name
  <2> SUFFICES ASSUME NEW k \in Keys, new[k] # Absent
               PROVE  \E i \in 1 .. n : k = f.parameters[i].name
    BY <1>4, <1>7
  <2>1. CASE k = name
    BY <1>4, <1>6, <2>1
  <2>2. CASE k # name
    <3>1. old[k] # Absent
      BY <1>13, <2>2
    <3>2. PICK i \in 1 .. n - 1 : k = f.parameters[i].name
      BY <1>10, <3>1 DEF Holds
    <3>3. i \in 1 .. n
      BY <1>4, <3>2
    <3> QED
      BY <3>2, <3>3
  <2> QED
    BY <2>1, <2>2
<1>15. ASSUME NEW i \in 1 .. n
       PROVE  /\ new[f.parameters[i].name] # Absent
              /\ (\A j \in 1 .. i - 1 : f.parameters[j].name # f.parameters[i].name)
                 => new[f.parameters[i].name] = Active.args[i]
  <2>1. CASE i = n
    <3>1. new[name] # Absent
      BY <1>12, <1>13
    <3>2. ASSUME \A j \in 1 .. n - 1 : f.parameters[j].name # name
          PROVE  new[name] = v
      <4>1. old[name] = Absent
        BY <1>10, <1>12, <3>2 DEF Holds
      <4> QED
        BY <1>12, <1>13, <4>1
    <3> QED
      BY <1>6, <2>1, <3>1, <3>2 DEF v
  <2>2. CASE i # n
    <3>1. i \in 1 .. n - 1
      BY <1>4, <2>2
    <3>2. f.parameters[i].name \in Keys
      BY <1>5 DEF Keys
    <3>3. old[f.parameters[i].name] # Absent
      BY <1>10, <3>1 DEF Holds
    <3>4. new[f.parameters[i].name] = old[f.parameters[i].name]
      BY <1>13, <3>2, <3>3
    <3> QED
      BY <1>10, <3>1, <3>3, <3>4 DEF Holds
  <2> QED
    BY <2>1, <2>2
<1>16. Holds(new, a)
  <2>1. a.next - 1 = n
    BY <1>4, <1>7
  <2> HIDE DEF new
  <2> QED
    BY <1>7, <1>14, <1>15, <2>1 DEF Holds
<1>17. Fresh(new, a)
  BY <1>4, <1>7, <1>16 DEF Fresh
<1>18. stack' = [stack EXCEPT ![Len(stack)] = a]
  BY <1>1 DEF Goes, Becomes
<1> QED
  BY <1>2, <1>3, <1>7, <1>9, <1>17, <1>18, KeepsGone

LEMMA CallsKeep ==
  ASSUME SInv, PInv, CallsNext
  PROVE  Keeps
<1>1. UNCHANGED scopeVars \/ EnterLocal(Current) \/ LeaveLocal(Current) => ScopeAction
  BY DEF ScopeAction
<1>2. Raise("error") => Keeps
  BY KeepsRaised
<1>3. UNCHANGED scopeVars => \A b : Frame(Current, b)' = Frame(Current, b)
  BY DEF scopeVars, vars, Frame
<1>4. ASSUME NEW f \in Callables, NEW args \in Arguments, BeginCall(f, args)
      PROVE  Keeps
  <2> DEFINE a == [is |-> "call", phase |-> "called", frames |-> 1, base |-> Depth(Current),
                   before |-> View(Current), f |-> f, args |-> args, given |-> Len(args),
                   next |-> 1]
  <2>1. Begin(a) /\ EnterLocal(Current) /\ a.base = Depth(Current) /\ a.next = 1
    BY <1>4 DEF BeginCall
  <2> HIDE DEF a
  <2>2. PICK b : b = a.base + 1
    OBVIOUS
  <2>3. Frame(Current, b)' = EmptyMap
    <3>1. Depth(Current)' = Depth(Current) + 1 /\ Frame(Current, Depth(Current))' = EmptyMap
      BY <2>1, EnterEffect, CurrentAssumption DEF SInv
    <3> QED
      BY <2>1, <2>2, <3>1 DEF Frame
  <2>4. Fresh(Frame(Current, b)', a)
    BY <2>1, <2>3 DEF Fresh, Holds, EmptyMap
  <2> QED
    BY <1>1, <2>1, <2>2, <2>4, KeepsBegun
<1>5. ASSUME NEW phase, In("call", phase)
      PROVE  IsCall(Active)
  <2>1. PICK b : b = Active.base + 1
    OBVIOUS
  <2> QED
    BY <1>5, <2>1, CallOnTop
<1>6. ASSUME NEW phase \in Waiting \ {"bind"}, In("call", phase), UNCHANGED scopeVars,
             NEW a, Goes(a), a.base = Active.base, a.next = Active.next
      PROVE  Keeps
  <2>1. PICK b : b = Active.base + 1
    OBVIOUS
  <2> QED
    BY <1>1, <1>3, <1>6, <2>1, StillEmpty
<1>7. CASE EnterDefaults
  <2> DEFINE a == [Active EXCEPT !.phase = "defaults", !.frames = 2]
  <2>1. In("call", "called") /\ Goes(a) /\ EnterLocal(Current) /\ "called" \in Waiting \ {"bind"}
    BY <1>7 DEF EnterDefaults, Waiting
  <2>2. a.base = Active.base /\ a.next = Active.next
    BY <1>5, <2>1 DEF IsCall, HasFields
  <2> HIDE DEF a
  <2>3. PICK b : b = Active.base + 1
    OBVIOUS
  <2>4. b \in Nat \ {0, 1} /\ Depth(Current) = b
    BY <2>1, <2>3, CallOnTop
  <2>5. Frame(Current, b)' = Frame(Current, b)
    BY <2>1, <2>4, EnterEffect, CurrentAssumption DEF SInv, SameFrames
  <2> QED
    BY <1>1, <2>1, <2>2, <2>3, <2>5, StillEmpty
<1>8. CASE NoDefaults
  <2> DEFINE a == [Active EXCEPT !.phase = "check"]
  <2>1. In("call", "called") /\ Goes(a) /\ UNCHANGED scopeVars /\ "called" \in Waiting \ {"bind"}
    BY <1>8 DEF NoDefaults, Waiting
  <2>2. a.base = Active.base /\ a.next = Active.next
    BY <1>5, <2>1 DEF IsCall, HasFields
  <2> HIDE DEF a
  <2> QED
    BY <1>6, <2>1, <2>2
<1>9. ASSUME NEW phase \in {"defaults", "default"}, In("call", phase), NEW value,
             Goes(WithArgument(value)), UNCHANGED scopeVars
      PROVE  Keeps
  <2> DEFINE a == WithArgument(value)
  <2>1. a.base = Active.base /\ a.next = Active.next
    BY <1>5, <1>9 DEF IsCall, HasFields, WithArgument
  <2>2. phase \in Waiting \ {"bind"}
    BY DEF Waiting
  <2> HIDE DEF a
  <2> QED
    BY <1>6, <1>9, <2>1, <2>2 DEF a
<1>10. ASSUME NEW phase \in {"defaults", "default"}, In("call", phase), NEW value, Defaulted(value)
       PROVE  Keeps
  BY <1>2, <1>9, <1>10 DEF Defaulted
<1>11. CASE NoDefault
  BY <1>9, <1>11 DEF NoDefault, DefaultNeeded
<1>12. CASE ValueDefault
  BY <1>10, <1>12 DEF ValueDefault, DefaultNeeded
<1>13. CASE VariableDefault
  <2> DEFINE value == Get2(Current, NextParameter.default.ref)
  <2>1. In("call", "defaults") /\ (Raise("error") \/ Defaulted(value))
    BY <1>13 DEF VariableDefault, DefaultNeeded
  <2> HIDE DEF value
  <2> QED
    BY <1>2, <1>10, <2>1
<1>14. CASE CodeDefault
  <2> DEFINE a == [Active EXCEPT !.phase = "default"]
  <2>1. In("call", "defaults") /\ Goes(a) /\ UNCHANGED scopeVars /\ "defaults" \in Waiting \ {"bind"}
    BY <1>14 DEF CodeDefault, DefaultNeeded, Waiting
  <2>2. a.base = Active.base /\ a.next = Active.next
    BY <1>5, <2>1 DEF IsCall, HasFields
  <2> HIDE DEF a
  <2> QED
    BY <1>6, <2>1, <2>2
<1>15. ASSUME NEW value \in Atoms, CodeDefaultEvaluated(value)
       PROVE  Keeps
  BY <1>10, <1>15 DEF CodeDefaultEvaluated
<1>16. CASE LeaveDefaults
  <2> DEFINE a == [Active EXCEPT !.phase = "check", !.frames = 1]
  <2>1. In("call", "defaults") /\ Goes(a) /\ LeaveLocal(Current) /\ "defaults" \in Waiting \ {"bind"}
    BY <1>16 DEF LeaveDefaults, Waiting
  <2>2. a.base = Active.base /\ a.next = Active.next
    BY <1>5, <2>1 DEF IsCall, HasFields
  <2> HIDE DEF a
  <2>3. PICK b : b = Active.base + 1
    OBVIOUS
  <2>4. b \in Nat \ {0, 1} /\ Depth(Current) = b + 1
    BY <2>1, <2>3, CallOnTop
  <2>5. b \in 1 .. Depth(Current) - 1
    BY <2>4
  <2>6. Frame(Current, b)' = Frame(Current, b)
    BY <2>1, <2>5, LeaveEffect, CurrentAssumption DEF SInv, SameFrames
  <2> QED
    BY <1>1, <2>1, <2>2, <2>3, <2>6, StillEmpty
<1>17. CASE Check
  <2>1. CASE Raise("error")
    BY <1>2, <2>1
  <2>2. CASE ~Raise("error")
    <3> DEFINE a == [Active EXCEPT !.phase = "bind"]
    <3>1. In("call", "check") /\ Goes(a) /\ UNCHANGED scopeVars /\ "check" \in Waiting \ {"bind"}
      BY <1>17, <2>2 DEF Check, Waiting
    <3>2. a.base = Active.base /\ a.next = Active.next
      BY <1>5, <3>1 DEF IsCall, HasFields
    <3> HIDE DEF a
    <3> QED
      BY <1>6, <3>1, <3>2
  <2> QED
    BY <2>1, <2>2
<1>18. CASE EvaluateBody
  <2> DEFINE a == [Active EXCEPT !.phase = "body"]
  <2>1. In("call", "bind") /\ Goes(a) /\ UNCHANGED scopeVars
    BY <1>18 DEF EvaluateBody
  <2>2. a.phase = "body"
    BY <1>5, <2>1 DEF IsCall, HasFields
  <2> HIDE DEF a
  <2>3. PICK b : b = a.base + 1
    OBVIOUS
  <2>4. Fresh(Frame(Current, b)', a)
    BY <2>2 DEF Fresh, Waiting
  <2> QED
    BY <1>1, <2>1, <2>3, <2>4, KeepsGone DEF In, Goes, Becomes
<1>19. ASSUME NEW value \in Atoms, CallEnds(value)
       PROVE  Keeps
  <2>1. CASE Raise("error")
    BY <1>2, <2>1
  <2>2. CASE ~Raise("error")
    <3>1. stack # <<>> /\ LeaveLocal(Current) /\ stack' = Front(stack)
      BY <1>19, <2>2 DEF CallEnds, End, In
    <3> QED
      BY <1>1, <3>1, KeepsEnded
  <2> QED
    BY <2>1, <2>2
<1> QED
  BY <1>4, <1>7, <1>8, <1>11, <1>12, <1>13, <1>14, <1>15, <1>16, <1>17, <1>18, <1>19, BindKeeps
     DEF CallsNext

-----------------------------------------------------------------------------
(* The theorem. *)

LEMMA StepPInv ==
  ASSUME SInv, PInv, [StatementsNext]_allVars
  PROVE  PInv'
<1>1. SInv' /\ [Next]_scopeVars
  BY StepSInv, StepGood DEF Good
<1>2. CASE UNCHANGED allVars
  <2>1. UNCHANGED <<maps, frames, mutable, stack, raised>>
    BY <1>2 DEF allVars, scopeVars, vars, activityVars
  <2>2. ASSUME NEW i
        PROVE  /\ Running(i)' <=> Running(i)
               /\ Fresh(Own(stack[i]), stack[i])' <=> Fresh(Own(stack[i]), stack[i])
    <3>1. Own(stack[i])' = Own(stack[i])
      BY <2>1 DEF Own, Frame
    <3> QED
      BY <2>1, <3>1 DEF Running, Fresh, Holds
  <2> QED
    BY <2>1, <2>2 DEF PInv
<1>3. CASE StatementsNext
  <2>1. Keeps
    BY <1>1, <1>3, ActivitiesKeep, AssignmentKeeps, SelectionKeeps, CallsKeep DEF StatementsNext
  <2> QED
    BY <1>1, <2>1, KeptPInv
<1> QED
  BY <1>2, <1>3

LEMMA PInvParameters == SInv /\ PInv => ParametersOfBody
<1> SUFFICES ASSUME SInv, PInv, In("call", "bind"), Active.next > Wanted
             PROVE  /\ \A i \in 1 .. Wanted :
                         /\ Active.args[i] \in Param(i).type
                         /\ (\A j \in 1 .. i - 1 : Param(j).name # Param(i).name) =>
                              Frame(Current, Depth(Current))[Param(i).name] = Active.args[i]
                    /\ \A n \in Names :
                         Frame(Current, Depth(Current))[n] # Absent =>
                           \E i \in 1 .. Wanted : Param(i).name = n
                    /\ RxGet(Current) = Absent
  BY DEF ParametersOfBody
<1>1. PICK b : b = Active.base + 1
  OBVIOUS
<1>2. /\ IsCall(Active) /\ Active.phase = "bind" /\ Depth(Current) = b
      /\ Fresh(Frame(Current, b), Active)
  BY <1>1, CallOnTop
<1> DEFINE m == Frame(Current, b)
<1>3. /\ Active.next \in Nat \ {0} /\ Len(Active.f.parameters) \in Nat
      /\ Active.f.parameters \in Seq(Parameters) /\ Wanted = Len(Active.f.parameters)
  BY <1>2, CallablesAssumption DEF IsCall, Wanted
<1>4. Holds(m, Active) /\ Active.next - 1 = Wanted
  <2>1. Holds(m, Active) /\ (Active.next = 1 \/ Active.next <= Len(Active.f.parameters) + 1)
    BY <1>2 DEF Fresh, IsCall, Waiting
  <2> QED
    BY <1>3, <2>1
<1>5. \A i \in 1 .. Wanted : Active.args[i] \in Param(i).type
  BY <1>2, <1>3 DEF IsCall, ArgumentsFit, Param
<1>6. \A i \in 1 .. Wanted : Param(i).name \in Names
  <2>1. ASSUME NEW i \in 1 .. Wanted
        PROVE  Active.f.parameters[i] \in Parameters
    BY <1>3
  <2> QED
    BY <2>1 DEF Parameters, Param
<1>7. \A k \in Keys : m[k] # Absent => \E i \in 1 .. Wanted : k = Param(i).name
  BY <1>4 DEF Holds, Param
<1>8. m[GroupKey] = Absent
  BY <1>6, <1>7, GroupKeyAssumption DEF Keys
<1>9. \A i \in 1 .. Wanted :
        (\A j \in 1 .. i - 1 : Param(j).name # Param(i).name) => m[Param(i).name] = Active.args[i]
  BY <1>4 DEF Holds, Param
<1> QED
  BY <1>2, <1>5, <1>7, <1>8, <1>9 DEF RxGet, Keys

LEMMA ParametersHeld == StatementsSpec => []PInv
<1>1. StatementsInit => PInv
  <2> SUFFICES ASSUME StatementsInit
               PROVE  PInv
    OBVIOUS
  <2>1. Len(stack) = 0 /\ ~mutable[Current]
    BY CurrentAssumption DEF StatementsInit, ActivitiesInit
  <2> QED
    BY <2>1 DEF PInv
<1>2. SInv /\ PInv /\ [StatementsNext]_allVars => PInv'
  BY StepPInv
<1> QED
  BY <1>1, <1>2, BuiltAlways, PTL DEF StatementsSpec

\* The body of a call finds its parameters, each with the argument or default
\* for it, and nothing of its caller, of the defaults or of another call.
THEOREM ParametersBound == StatementsSpec => []ParametersOfBody
BY ParametersHeld, BuiltAlways, PInvParameters, PTL

-----------------------------------------------------------------------------
(* What is visible from a frame that may be covered. *)

\* Lookups end, and the scope of the context is the parent of none.
Outlook == ParentsEnd /\ \A s \in ScopeIds : parent[s] # Current

\* The value of r in the lowest b frames, or in the parent.
BoundIn(b, n) == {i \in 1 .. b : Frame(Current, i)[n] # Absent}
OwnAt(b, r) ==
  IF r.global THEN Frame(Current, 1)[r.name]
  ELSE IF BoundIn(b, r.name) = {} THEN Absent
  ELSE Frame(Current, Max(BoundIn(b, r.name)))[r.name]
Inherited(r) == IF parent[Current] = None THEN Absent ELSE Get2(parent[Current], r)
SeenAt(b, r) == IF OwnAt(b, r) # Absent THEN OwnAt(b, r) ELSE Inherited(r)

LEMMA TheParent ==
  ASSUME SInv, Outlook, NEW p, p = parent[Current], p # None
  PROVE  p \in ScopeIds /\ p # Current /\ Allocated(p)
<1>1. Current \in ScopeIds /\ IInv
  BY CurrentAssumption DEF SInv
<1>2. p \in ScopeIds /\ Allocated(p)
  BY <1>1 DEF IInv, TypeOK
<1>3. p # Current
  BY <1>1 DEF Outlook
<1> QED
  BY <1>2, <1>3

\* From the top frame that is what Get2 finds.
LEMMA SeenOnTop ==
  ASSUME SInv, Outlook, NEW r \in Refs
  PROVE  Get2(Current, r) = SeenAt(Depth(Current), r)
<1>1. BasicGet2(Current, r) = OwnAt(Depth(Current), r)
  BY DEF BasicGet2, OwnAt, BoundIn, Binding
<1>2. parent[Current] \in ScopeIds \cup {None} /\ Current \in ScopeIds
  BY CurrentAssumption DEF SInv, IInv, TypeOK
<1>3. Get2(Current, r) = IF BasicGet2(Current, r) # Absent \/ parent[Current] = None
                         THEN BasicGet2(Current, r) ELSE Get2(parent[Current], r)
  BY <1>2, LookupsUnfold DEF Lookups, SInv, Outlook
<1> QED
  BY <1>1, <1>3 DEF SeenAt, Inherited

LEMMA OverridesShown ==
  ASSUME NEW r
  PROVE  OverridesGlobal(Current, r) <=> SetIdx(Current, r) = 1 /\ ParentShows(r.name, "Global")
BY DEF OverridesGlobal, ParentShows, LocalRef

\* Of the scopes that show neither a variable nor nothing, one would have a parent
\* that is none of them.
LEMMA ShownOrNothing ==
  ASSUME SInv, Outlook, NEW n \in Names, NEW s \in ScopeIds, Allocated(s)
  PROVE  \/ State(s, LocalRef(n)) \in {"Global", "Local"}
         \/ \A r \in Refs : r.name = n => Get2(s, r) = Absent
<1> DEFINE Shown(t) == \/ State(t, LocalRef(n)) \in {"Global", "Local"}
                       \/ \A r \in Refs : r.name = n => Get2(t, r) = Absent
           T == {t \in ScopeIds : Allocated(t) /\ ~Shown(t)}
<1>1. IInv /\ ParentsEnd /\ Lookups
  BY LookupsUnfold DEF SInv, Outlook
<1>2. LocalRef(n) \in Refs /\ LocalRef(n).name = n /\ ~LocalRef(n).global
  BY DEF LocalRef, Refs
<1>3. ASSUME NEW t \in T, parent[t] \notin T
      PROVE  FALSE
  <2>1. t \in ScopeIds /\ Allocated(t) /\ ~Shown(t)
    OBVIOUS
  <2>2. parent[t] = None \/ (parent[t] \in ScopeIds /\ Allocated(parent[t]))
    BY <1>1, <2>1 DEF IInv, TypeOK
  <2>3. parent[t] # None => Shown(parent[t])
    BY <1>3, <2>2
  <2>4. BasicState(t, LocalRef(n)) = IF Binding(t, n) = {} THEN "NotFound"
                                     ELSE IF Max(Binding(t, n)) = 1 THEN "Global" ELSE "Local"
    BY <1>2 DEF BasicState
  <2>5. /\ State(t, LocalRef(n)) = IF BasicState(t, LocalRef(n)) # "NotFound" \/ parent[t] = None
                                   THEN BasicState(t, LocalRef(n)) ELSE State(parent[t], LocalRef(n))
        /\ \A r \in Refs : Get2(t, r) = IF BasicGet2(t, r) # Absent \/ parent[t] = None
                                         THEN BasicGet2(t, r) ELSE Get2(parent[t], r)
    BY <1>1, <1>2, <2>1, <2>2 DEF Lookups
  <2>6. CASE Binding(t, n) # {}
    <3>1. BasicState(t, LocalRef(n)) \in {"Global", "Local"}
      BY <2>4, <2>6
    <3> QED
      BY <2>1, <2>5, <3>1
  <2>7. CASE Binding(t, n) = {}
    <3>1. 1 \in 1 .. Depth(t)
      BY <1>1, <2>1, FramesAreMaps
    <3>2. \A r \in Refs : r.name = n => BasicGet2(t, r) = Absent
      BY <2>7, <3>1 DEF BasicGet2, Binding
    <3>3. BasicState(t, LocalRef(n)) = "NotFound"
      BY <2>4, <2>7
    <3>4. CASE parent[t] = None
      BY <2>1, <2>5, <3>2, <3>4
    <3>5. CASE parent[t] # None
      <4>1. Shown(parent[t])
        BY <2>3, <3>5
      <4>2. \A r \in Refs : r.name = n => Get2(t, r) = Get2(parent[t], r)
        BY <2>5, <3>2, <3>5
      <4>3. State(t, LocalRef(n)) = State(parent[t], LocalRef(n))
        BY <2>5, <3>3, <3>5
      <4> QED
        BY <2>1, <4>1, <4>2, <4>3
    <3> QED
      BY <3>4, <3>5
  <2> QED
    BY <2>6, <2>7
<1>4. T = {}
  <2>1. T \in SUBSET ScopeIds /\ \A t \in T : parent[t] \in T
    BY <1>3
  <2> HIDE DEF T
  <2> QED
    BY <1>1, <2>1 DEF ParentsEnd, Grounded
<1>5. s \notin T
  BY <1>4
<1> QED
  BY <1>5

\* What the parent does not show is not inherited, with or without its prefix.
LEMMA NothingInherited ==
  ASSUME SInv, Outlook, NEW r \in Refs,
         ~ParentShows(r.name, "Global"), ~ParentShows(r.name, "Local")
  PROVE  Inherited(r) = Absent
<1>1. CASE parent[Current] = None
  BY <1>1 DEF Inherited
<1>2. ASSUME NEW p, p = parent[Current], p # None
      PROVE  Get2(p, r) = Absent
  <2>1. p \in ScopeIds /\ Allocated(p) /\ r.name \in Names
    BY <1>2, TheParent DEF Refs
  <2>2. State(p, LocalRef(r.name)) \notin {"Global", "Local"}
    BY <1>2 DEF ParentShows
  <2> QED
    BY <2>1, <2>2, ShownOrNothing
<1> QED
  BY <1>1, <1>2 DEF Inherited

\* No step changes what is inherited.
InheritsSame ==
  /\ \A r \in Refs : Inherited(r)' = Inherited(r)
  /\ \A n \in Names : \A what : ParentShows(n, what)' <=> ParentShows(n, what)

LEMMA SameInherited ==
  ASSUME UNCHANGED scopeVars
  PROVE  /\ \A r : Inherited(r)' = Inherited(r)
         /\ \A n : \A what : ParentShows(n, what)' <=> ParentShows(n, what)
BY DEF scopeVars, vars, Inherited, ParentShows, Get2, BasicGet2, State, BasicState,
       Binding, Frame, Depth

LEMMA LookupsNext == (IInv /\ ParentsEnd)' => Lookups'
BY LookupsUnfold, PTL

LEMMA InheritedKept ==
  ASSUME SInv, SInv', Outlook, ScopeAction
  PROVE  Outlook' /\ InheritsSame
<1>1. UNCHANGED parent
  BY DEF ScopeAction, scopeVars, vars, EnterLocal, LeaveLocal, Set, RxSet
<1>2. Outlook'
  BY <1>1 DEF Outlook, ParentsEnd, Grounded
<1>3. CASE UNCHANGED scopeVars
  BY <1>2, <1>3, SameInherited DEF InheritsSame
<1>4. CASE ~UNCHANGED scopeVars
  <2>1. Disturbs(Current)
    BY <1>4, CurrentAssumption, SetDisturbs, RxSetDisturbs, LocalDisturbs DEF ScopeAction, SInv
  <2>2. Lookups /\ Lookups'
    BY <1>2, LookupsUnfold, LookupsNext DEF SInv, Outlook
  <2>3. SeenOnlyIn(Current)
    BY <2>1, <2>2, DisturbedIsSeen DEF SInv, Outlook
  <2>4. PICK p : p = parent[Current]
    OBVIOUS
  <2>5. parent'[Current] = p
    BY <1>1, <2>4
  <2>6. CASE p = None
    BY <1>2, <2>4, <2>5, <2>6 DEF InheritsSame, Inherited, ParentShows
  <2>7. CASE p # None
    <3>1. \A r \in Refs : Get2(p, r)' = Get2(p, r) /\ State(p, r)' = State(p, r)
      BY <2>3, <2>4, <2>7, TheParent DEF SeenOnlyIn, SameLookup
    <3>2. \A r \in Refs : Inherited(r)' = Inherited(r)
      <4>1. ASSUME NEW r \in Refs
            PROVE  Inherited(r) = Get2(p, r)
        BY <2>4, <2>7 DEF Inherited
      <4>2. ASSUME NEW r \in Refs
            PROVE  Inherited(r)' = Get2(p, r)'
        BY <2>5, <2>7 DEF Inherited, Get2
      <4> QED
        BY <3>1, <4>1, <4>2
    <3>3. \A n \in Names : \A what : ParentShows(n, what)' <=> ParentShows(n, what)
      <4>1. ASSUME NEW n \in Names, NEW what
            PROVE  ParentShows(n, what) <=> State(p, LocalRef(n)) = what
        BY <2>4, <2>7 DEF ParentShows
      <4>2. ASSUME NEW n \in Names, NEW what
            PROVE  ParentShows(n, what)' <=> State(p, LocalRef(n))' = what
        BY <2>5, <2>7 DEF ParentShows, State
      <4>3. \A n \in Names : LocalRef(n) \in Refs
        BY DEF LocalRef, Refs
      <4> QED
        BY <3>1, <4>1, <4>2, <4>3
    <3> QED
      BY <1>2, <3>2, <3>3 DEF InheritsSame
  <2> QED
    BY <2>6, <2>7
<1> QED
  BY <1>3, <1>4

\* The lowest b frames stay as they are, or `::n` is bound in the first of them.
CellsKept(b) ==
  \A i \in 1 .. b : \A k \in Keys : Frame(Current, i)'[k] = Frame(Current, i)[k]
GlobalBound(b, n) ==
  /\ n \in Names
  /\ IF ParentShows(n, "Global") THEN n = Pnr ELSE Frame(Current, 1)[n] = Absent
  /\ Frame(Current, 1)'[n] # Absent
  /\ \A i \in 1 .. b : \A k \in Keys :
       i # 1 \/ k # n => Frame(Current, i)'[k] = Frame(Current, i)[k]

WritesVariable ==
  \/ \E groups \in Matches : RxSet(Current, groups)
  \/ \E r \in Refs, v \in Values : Set(Current, r, v)
\* A step pushes or pops a frame, or writes above the frame b.
AboveOnly(b) ==
  \/ UNCHANGED scopeVars \/ EnterLocal(Current) \/ LeaveLocal(Current)
  \/ b < Depth(Current) /\ WritesVariable

LEMMA RxSetCells ==
  ASSUME SInv, NEW groups \in Matches, RxSet(Current, groups), NEW b \in Nat, b < Depth(Current)
  PROVE  CellsKept(b)
<1>1. ASSUME NEW i \in 1 .. b
      PROVE  Frame(Current, i)' = Frame(Current, i)
  <2>1. /\ Depth(Current) \in Nat /\ i \in 1 .. Depth(Current)
        /\ Depth(Current) \in 1 .. Depth(Current) /\ i # Depth(Current)
    BY Deep
  <2>2. /\ frames[Current][i] = <<Current, i>> /\ <<Current, i>> \in MapIds
        /\ frames[Current][Depth(Current)] = <<Current, Depth(Current)>>
    BY <2>1, FramesAreMaps, CurrentAssumption DEF SInv
  <2>3. <<Current, i>> # <<Current, Depth(Current)>>
    BY <2>1
  <2>4. maps'[<<Current, i>>] = maps[<<Current, i>>]
    BY <2>2, <2>3 DEF RxSet, SInv, IInv, TypeOK
  <2> QED
    BY <2>2, <2>4 DEF RxSet, Frame
<1> QED
  BY <1>1 DEF CellsKept

LEMMA SetCells ==
  ASSUME SInv, Outlook, ~mutable[Current], NEW r \in Refs, NEW v \in Values,
         Set(Current, r, v), NEW b \in Nat, b < Depth(Current)
  PROVE  CellsKept(b) \/ \E n : GlobalBound(b, n)
<1> DEFINE n == r.name
<1>0. PICK x : x = SetIdx(Current, r)
  OBVIOUS
<1>1. /\ Depth(Current) \in Nat /\ 1 \in 1 .. Depth(Current) /\ x \in 1 .. Depth(Current)
      /\ x = IF r.global THEN 1 ELSE Depth(Current)
  BY <1>0, Deep DEF SetIdx
<1>2. n \in Names /\ n \in Keys /\ v # Absent
  BY AbsentAssumption DEF Refs, Keys
<1>3. /\ \A i \in 1 .. Depth(Current) : frames[Current][i] = <<Current, i>> /\ <<Current, i>> \in MapIds
      /\ frames' = frames /\ maps \in [MapIds -> [Keys -> Cells]]
  <2>1. IInv /\ Current \in ScopeIds
    BY CurrentAssumption DEF SInv
  <2>2. frames' = frames /\ maps \in [MapIds -> [Keys -> Cells]]
    BY <2>1 DEF IInv, TypeOK, Set
  <2> QED
    BY <2>1, <2>2, FramesAreMaps
<1>4. maps' = IF MaySet(Current, r) THEN [maps EXCEPT ![<<Current, x>>][n] = v] ELSE maps
  BY <1>0, <1>1, <1>3 DEF Set
<1> HIDE DEF n
<1>5. CASE ~MaySet(Current, r)
  BY <1>3, <1>4, <1>5 DEF CellsKept, Frame
<1>6. CASE MaySet(Current, r)
  <2>1. ASSUME NEW i \in 1 .. Depth(Current), NEW k \in Keys, i # x \/ k # n
        PROVE  Frame(Current, i)'[k] = Frame(Current, i)[k]
    <3>1. <<Current, i>> \in MapIds /\ <<Current, x>> \in MapIds
      BY <1>1, <1>3
    <3>2. <<Current, i>> = <<Current, x>> <=> i = x
      OBVIOUS
    <3>3. maps'[<<Current, i>>][k] = maps[<<Current, i>>][k]
      BY <1>2, <1>3, <1>4, <1>6, <2>1, <3>1, <3>2
    <3> QED
      BY <1>3, <3>3 DEF Frame
  <2>2. Frame(Current, x)'[n] = v
    <3>1. <<Current, x>> \in MapIds /\ frames'[Current][x] = <<Current, x>>
      BY <1>1, <1>3
    <3>2. maps'[<<Current, x>>][n] = v
      BY <1>2, <1>3, <1>4, <1>6, <3>1
    <3> QED
      BY <3>1, <3>2 DEF Frame
  <2>3. CASE r.global
    <3>1. x = 1 /\ r = GlobalRef(n)
      BY <1>1, <2>3 DEF Refs, GlobalRef, n
    <3>2. IF ParentShows(n, "Global") THEN n = Pnr ELSE Frame(Current, 1)[n] = Absent
      <4>1. OverridesGlobal(Current, r) <=> ParentShows(n, "Global")
        BY <1>0, <3>1, OverridesShown DEF n
      <4> QED
        BY <1>0, <1>6, <3>1, <4>1, CurrentAssumption DEF MaySet, n
    <3>3. Frame(Current, 1)'[n] # Absent
      BY <1>2, <2>2, <3>1
    <3>4. ASSUME NEW i \in 1 .. b, NEW k \in Keys, i # 1 \/ k # n
          PROVE  Frame(Current, i)'[k] = Frame(Current, i)[k]
      <4>1. i \in 1 .. Depth(Current)
        BY <1>1
      <4> QED
        BY <2>1, <3>1, <3>4, <4>1
    <3> QED
      BY <1>2, <3>2, <3>3, <3>4 DEF GlobalBound
  <2>4. CASE ~r.global
    <3>1. ASSUME NEW i \in 1 .. b
          PROVE  i \in 1 .. Depth(Current) /\ i # x
      BY <1>1, <2>4
    <3> QED
      BY <2>1, <3>1 DEF CellsKept
  <2> QED
    BY <2>3, <2>4
<1> QED
  BY <1>5, <1>6

\* What such a step does to frames that remain.
LEMMA StepCells ==
  ASSUME SInv, SInv', Outlook, ~mutable[Current],
         NEW b \in Nat, b <= Depth(Current), b <= Depth(Current)', AboveOnly(b)
  PROVE  CellsKept(b) \/ \E n : GlobalBound(b, n)
<1>1. Depth(Current) \in Nat /\ Current \in ScopeIds /\ IInv
  BY Deep, CurrentAssumption DEF SInv
<1>2. CASE UNCHANGED scopeVars
  BY <1>2 DEF CellsKept, Frame, scopeVars, vars
<1>3. CASE EnterLocal(Current)
  <2>1. SameFrames(Current, Depth(Current))
    BY <1>1, <1>3, EnterEffect
  <2> QED
    BY <1>1, <2>1 DEF CellsKept, SameFrames
<1>4. CASE LeaveLocal(Current)
  <2>1. Depth(Current)' = Depth(Current) - 1 /\ SameFrames(Current, Depth(Current) - 1)
    BY <1>1, <1>4, LeaveEffect
  <2>2. b <= Depth(Current) - 1
    BY <2>1
  <2> QED
    BY <1>1, <2>1, <2>2 DEF CellsKept, SameFrames
<1>5. CASE b < Depth(Current) /\ WritesVariable
  BY <1>5, RxSetCells, SetCells DEF WritesVariable
<1> QED
  BY <1>2, <1>3, <1>4, <1>5 DEF AboveOnly

-----------------------------------------------------------------------------
(* A frame shows the same after a step. *)

LEMMA SameSeen ==
  ASSUME NEW b \in Nat \ {0}, NEW r \in Refs, Inherited(r)' = Inherited(r),
         \A i \in 1 .. b : Frame(Current, i)'[r.name] = Frame(Current, i)[r.name]
  PROVE  SeenAt(b, r)' = SeenAt(b, r)
<1> DEFINE B == BoundIn(b, r.name)
           B2 == {i \in 1 .. b : Frame(Current, i)'[r.name] # Absent}
<1>1. B2 = B
  BY DEF BoundIn
<1>2. B' = B2
  BY DEF BoundIn, Frame
<1>3. BoundIn(b, r.name)' = BoundIn(b, r.name)
  BY <1>1, <1>2
<1>4. 1 \in 1 .. b
  OBVIOUS
<1>5. BoundIn(b, r.name) # {} => Max(BoundIn(b, r.name)) \in 1 .. b
  <2>1. B \in SUBSET (1 .. b)
    BY DEF BoundIn
  <2> HIDE DEF B
  <2>2. B # {} => Max(B) \in B
    BY <2>1, GreatestNumber
  <2> QED
    BY <2>1, <2>2 DEF B
<1> HIDE DEF B, B2
<1>6. OwnAt(b, r)' = OwnAt(b, r)
  <2>1. CASE r.global
    BY <1>4, <2>1 DEF OwnAt, Frame
  <2>2. CASE ~r.global
    BY <1>3, <1>5, <2>2 DEF OwnAt, Frame
  <2> QED
    BY <2>1, <2>2
<1> QED
  BY <1>6 DEF SeenAt

\* Binding `::n` makes $n visible instead of what is inherited, and hides no local
\* variable.
LEMMA GlobalSeen ==
  ASSUME NEW b \in Nat \ {0}, NEW r \in Refs, NEW n \in Names, n = r.name,
         Frame(Current, 1)[n] = Absent, Frame(Current, 1)'[n] # Absent,
         \A i \in 1 .. b : i # 1 => Frame(Current, i)'[n] = Frame(Current, i)[n]
  PROVE  \/ SeenAt(b, r)' = SeenAt(b, r)
         \/ SeenAt(b, r) = Inherited(r) /\ SeenAt(b, r)' = Frame(Current, 1)'[n]
<1> DEFINE B == {i \in 1 .. b : Frame(Current, i)[n] # Absent}
           B2 == {i \in 1 .. b : Frame(Current, i)'[n] # Absent}
<1>1. BoundIn(b, n) = B /\ BoundIn(b, n)' = B2
  BY DEF BoundIn, Frame
<1>2. 1 \in 1 .. b /\ 1 \notin B /\ 1 \in B2 /\ B \in SUBSET (1 .. b) /\ B2 \in SUBSET (1 .. b)
  OBVIOUS
<1>3. \A i \in 1 .. b : i # 1 => (i \in B <=> i \in B2)
  OBVIOUS
<1>4. \A i \in B : Frame(Current, i)[n] # Absent
  OBVIOUS
<1> HIDE DEF B, B2
<1>5. CASE r.global
  <2>1. OwnAt(b, r) = Absent
    BY <1>5 DEF OwnAt
  <2>2. OwnAt(b, r)' = Frame(Current, 1)'[n]
    BY <1>5 DEF OwnAt, Frame
  <2> QED
    BY <2>1, <2>2 DEF SeenAt
<1>6. CASE ~r.global /\ B = {}
  <2>1. B2 = {1}
    BY <1>2, <1>3, <1>6
  <2>2. Max(B2) = 1
    BY <2>1 DEF Max
  <2>3. OwnAt(b, r) = Absent
    BY <1>1, <1>6 DEF OwnAt
  <2>4. OwnAt(b, r)' = Frame(Current, 1)'[n]
    BY <1>1, <1>6, <2>1, <2>2 DEF OwnAt, Frame
  <2> QED
    BY <2>3, <2>4 DEF SeenAt
<1>7. CASE ~r.global /\ B # {}
  <2>1. Max(B) \in B /\ \A i \in B : Max(B) >= i
    BY <1>2, <1>7, GreatestNumber
  <2>2. Max(B2) \in B2 /\ \A i \in B2 : Max(B2) >= i
    BY <1>2, GreatestNumber
  <2>3. PICK m, m2 : m = Max(B) /\ m2 = Max(B2)
    OBVIOUS
  <2>4. m \in B /\ m \in 1 .. b /\ m # 1 /\ m2 \in B2 /\ m2 \in 1 .. b
    BY <1>2, <2>1, <2>2, <2>3
  <2>5. m \in B2 /\ m2 >= m
    BY <1>3, <2>2, <2>3, <2>4
  <2>6. m2 # 1
    BY <2>4, <2>5
  <2>7. m2 \in B /\ m >= m2
    BY <1>3, <2>1, <2>3, <2>4, <2>6
  <2>8. m2 = m
    BY <2>4, <2>5, <2>7
  <2>9. OwnAt(b, r) = Frame(Current, m)[n] /\ Frame(Current, m)[n] # Absent
    BY <1>1, <1>4, <1>7, <2>3, <2>4 DEF OwnAt
  <2>10. OwnAt(b, r)' = Frame(Current, m)'[n]
    BY <1>1, <1>7, <2>2, <2>3, <2>8 DEF OwnAt, Frame
  <2>11. Frame(Current, m)'[n] = Frame(Current, m)[n]
    BY <2>4
  <2> QED
    BY <2>9, <2>10, <2>11 DEF SeenAt
<1> QED
  BY <1>5, <1>6, <1>7

\* The frame b shows what it has shown before: its captures, and every variable
\* but for globals.
ShowsRef(b, vars0, r) ==
  \/ SeenAt(b, r) = vars0[r]
  \/ /\ SeenAt(b, r) = Frame(Current, 1)[r.name] /\ SeenAt(b, r) # Absent
     /\ vars0[r] = Absent \/ ParentShows(r.name, "Local")
  \/ r.name = Pnr /\ ParentShows(Pnr, "Global")
Shows(b, before) ==
  /\ Frame(Current, b)[GroupKey] = before.captures
  /\ \A r \in Refs : ShowsRef(b, before.vars, r)

LEMMA ShowsRefKept ==
  ASSUME SInv, Outlook, NEW b \in Nat \ {0}, NEW r \in Refs, NEW vars0, ShowsRef(b, vars0, r),
         InheritsSame, CellsKept(b) \/ \E n : GlobalBound(b, n)
  PROVE  ShowsRef(b, vars0, r)'
<1>1. /\ r.name \in Names /\ r.name \in Keys /\ Inherited(r)' = Inherited(r) /\ 1 \in 1 .. b
      /\ \A what : ParentShows(r.name, what)' <=> ParentShows(r.name, what)
  BY DEF Refs, Keys, InheritsSame
<1>2. (Frame(Current, 1)[r.name])' = Frame(Current, 1)'[r.name]
  OBVIOUS
<1>3. CASE \A i \in 1 .. b : Frame(Current, i)'[r.name] = Frame(Current, i)[r.name]
  <2>1. SeenAt(b, r)' = SeenAt(b, r)
    BY <1>1, <1>3, SameSeen
  <2>2. Frame(Current, 1)'[r.name] = Frame(Current, 1)[r.name]
    BY <1>1, <1>3
  <2> QED
    BY <1>1, <1>2, <2>1, <2>2 DEF ShowsRef
<1>4. ASSUME NEW n, GlobalBound(b, n), n = r.name
      PROVE  ShowsRef(b, vars0, r)'
  <2>1. CASE ParentShows(n, "Global")
    BY <1>1, <1>4, <2>1 DEF GlobalBound, ShowsRef
  <2>2. CASE ~ParentShows(n, "Global")
    <3>1. /\ Frame(Current, 1)[n] = Absent /\ Frame(Current, 1)'[n] # Absent
          /\ \A i \in 1 .. b : i # 1 => Frame(Current, i)'[n] = Frame(Current, i)[n]
      BY <1>1, <1>4, <2>2 DEF GlobalBound
    <3>2. SeenAt(b, r) = vars0[r]
      BY <1>4, <2>2, <3>1 DEF ShowsRef
    <3>3. CASE SeenAt(b, r)' = SeenAt(b, r)
      BY <3>2, <3>3 DEF ShowsRef
    <3>4. CASE SeenAt(b, r) = Inherited(r) /\ SeenAt(b, r)' = Frame(Current, 1)'[n]
      <4>1. vars0[r] = Absent \/ ParentShows(r.name, "Local")
        BY <1>4, <2>2, <3>2, <3>4, NothingInherited
      <4> QED
        BY <1>1, <1>2, <1>4, <3>1, <3>4, <4>1 DEF ShowsRef
    <3> QED
      BY <1>1, <1>4, <3>1, <3>3, <3>4, GlobalSeen
  <2> QED
    BY <2>1, <2>2
<1>5. CASE CellsKept(b)
  BY <1>1, <1>3, <1>5 DEF CellsKept
<1>6. ASSUME NEW n, GlobalBound(b, n), n # r.name
      PROVE  ShowsRef(b, vars0, r)'
  BY <1>1, <1>3, <1>6 DEF GlobalBound
<1> QED
  BY <1>4, <1>5, <1>6

LEMMA ShowsKept ==
  ASSUME SInv, SInv', Outlook, ~mutable[Current],
         NEW b \in Nat \ {0}, b <= Depth(Current), b <= Depth(Current)', AboveOnly(b),
         NEW before, Shows(b, before)
  PROVE  Shows(b, before)'
<1>1. CellsKept(b) \/ \E n : GlobalBound(b, n)
  BY StepCells
<1>2. InheritsSame
  BY InheritedKept DEF AboveOnly, WritesVariable, ScopeAction
<1>3. ASSUME NEW r \in Refs
      PROVE  ShowsRef(b, before.vars, r)'
  <2>1. PICK vars0 : vars0 = before.vars
    OBVIOUS
  <2>2. ShowsRef(b, vars0, r)
    BY <2>1 DEF Shows
  <2>3. ShowsRef(b, vars0, r)'
    BY <1>1, <1>2, <2>2, ShowsRefKept
  <2> QED
    BY <2>1, <2>3
<1>4. Frame(Current, b)'[GroupKey] = Frame(Current, b)[GroupKey]
  <2>1. GroupKey \in Keys /\ b \in 1 .. b
    BY DEF Keys
  <2>2. \A n : GlobalBound(b, n) => n # GroupKey
    BY GroupKeyAssumption DEF GlobalBound
  <2> QED
    BY <1>1, <2>1, <2>2 DEF CellsKept, GlobalBound
<1>5. (Frame(Current, b)[GroupKey])' = Frame(Current, b)'[GroupKey]
  OBVIOUS
<1> QED
  BY <1>3, <1>4, <1>5 DEF Shows

-----------------------------------------------------------------------------
(* What each activity will show when it ends. *)

Tells(a) == a.is # "assign" => Shows(a.base, a.before)
Told ==
  ended # Nothing => (ended.of.is # "assign" => Depth(Current) = ended.of.base) /\ Tells(ended.of)
VInv ==
  /\ Outlook
  /\ \A i \in 1 .. Len(stack) : Tells(stack[i])
  /\ Told

\* The frame of an activity is there, and covered while the activity runs.
Below(a, what) ==
  /\ a.base \in Nat \ {0} /\ a.base <= Depth(Current)
  /\ what = "no" /\ a.is # "assign" => a.base < Depth(Current)

LEMMA BasesBelow == SInv /\ PInv => \A i \in 1 .. Len(stack) : Below(stack[i], raised)
<1> SUFFICES ASSUME SInv, PInv, NEW i \in 1 .. Len(stack)
             PROVE  Below(stack[i], raised)
  OBVIOUS
<1> DEFINE a == stack[i]
<1>1. stack # <<>> /\ Len(stack) \in Nat
  BY Lengths
<1>2. Level(stack, i, raised)
  BY DEF SInv, Built
<1>3. /\ a.base \in Nat \ {0} /\ a.frames \in Nat
      /\ raised = "no" => a.frames = FramesIn(a)
  BY <1>1, <1>2, TheActive DEF Level, Activity, Active
<1>4. a.is # "assign" => FramesIn(a) \in {1, 2}
  BY DEF FramesIn
<1>5. a.base + a.frames <= Depth(Current)
  <2>1. CASE i = Len(stack)
    BY <1>1, <1>3, <2>1, TheActive DEF Active
  <2>2. CASE i # Len(stack)
    <3>1. Len(stack) \in 1 .. Len(stack) /\ i < Len(stack)
      BY <1>1, <2>2
    <3>2. a.base + a.frames <= Active.base
      BY <3>1 DEF PInv, Active
    <3>3. /\ Depth(Current) = Active.base + Active.frames
          /\ Active.base \in Nat /\ Active.frames \in Nat
      BY <1>1, TheActive
    <3> QED
      BY <1>3, <3>2, <3>3
  <2> QED
    BY <2>1, <2>2
<1>6. Depth(Current) \in Nat
  BY Deep
<1> HIDE DEF a
<1>7. Below(a, raised)
  BY <1>3, <1>4, <1>5, <1>6 DEF Below
<1> QED
  BY <1>7 DEF a

\* A step of the activity that runs, or of the code in it.
StepAbove ==
  \/ UNCHANGED scopeVars \/ EnterLocal(Current) \/ LeaveLocal(Current)
  \/ raised = "no" /\ WritesVariable

\* An activity goes on to tell, as long as its frame is there.
LEMMA StillTells ==
  ASSUME SInv, SInv', PInv, VInv, StepAbove,
         NEW i \in 1 .. Len(stack), NEW a, a.is = stack[i].is,
         a.base = stack[i].base, a.before = stack[i].before, a.base <= Depth(Current)'
  PROVE  Tells(a)'
<1>1. Below(stack[i], raised) /\ Tells(stack[i])
  BY BasesBelow DEF VInv
<1>2. CASE a.is = "assign"
  BY <1>2 DEF Tells
<1>3. CASE a.is # "assign"
  <2>1. PICK b, before : b = a.base /\ before = a.before
    OBVIOUS
  <2>2. Shows(b, before) /\ b \in Nat \ {0} /\ b <= Depth(Current) /\ AboveOnly(b)
    BY <1>1, <1>3, <2>1 DEF Tells, Below, StepAbove, AboveOnly
  <2>3. Outlook /\ ~mutable[Current]
    BY DEF VInv, PInv
  <2>4. Shows(b, before)'
    BY <2>1, <2>2, <2>3, ShowsKept
  <2> QED
    BY <2>1, <2>4 DEF Tells
<1> QED
  BY <1>2, <1>3

\* The stack after a step is that of before but for its top, and tells no less.
LEMMA AllTell ==
  ASSUME SInv, SInv', PInv, PInv', VInv, StepAbove,
         \A i \in 1 .. Len(stack') :
           \/ \E j \in 1 .. Len(stack) : /\ stack'[i].is = stack[j].is
                                         /\ stack'[i].base = stack[j].base
                                         /\ stack'[i].before = stack[j].before
           \/ Tells(stack[i])',
         Told'
  PROVE  VInv'
<1>1. \A i \in 1 .. Len(stack') : Below(stack[i], raised)'
  <2>1. (SInv /\ PInv)' => (\A i \in 1 .. Len(stack) : Below(stack[i], raised))'
    BY BasesBelow, PTL
  <2> QED
    BY <2>1
<1>2. ASSUME NEW i \in 1 .. Len(stack')
      PROVE  Tells(stack[i])'
  <2>1. CASE Tells(stack[i])'
    BY <2>1
  <2>2. ASSUME NEW j \in 1 .. Len(stack), stack'[i].is = stack[j].is,
               stack'[i].base = stack[j].base, stack'[i].before = stack[j].before
        PROVE  Tells(stack[i])'
    <3>1. PICK a : a = stack'[i]
      OBVIOUS
    <3>2. a.base <= Depth(Current)'
      BY <1>1, <3>1 DEF Below
    <3>3. Tells(a)'
      BY <2>2, <3>1, <3>2, StillTells
    <3> QED
      BY <3>1, <3>3 DEF Tells
  <2> QED
    BY <2>1, <2>2
<1>3. Outlook'
  BY InheritedKept DEF VInv, StepAbove, WritesVariable, ScopeAction
<1> QED
  BY <1>2, <1>3 DEF VInv

LEMMA NothingTold == ended' = Nothing => Told'
BY DEF Told

LEMMA BeginsTell ==
  ASSUME SInv, SInv', PInv, PInv', VInv, NEW is, Begins(is)
  PROVE  VInv'
<1>1. PICK a : /\ Begin(a) /\ a.is = is /\ a.base = Depth(Current) /\ a.before = View(Current)
               /\ IF is = "assign" THEN UNCHANGED scopeVars ELSE EnterLocal(Current)
  BY DEF Begins
<1>2. PICK S : stack \in Seq(S)
  BY DEF SInv, Built, IsSequence
<1>3. IsSequence(stack) /\ stack' = Append(stack, a) /\ ended' = Nothing
  BY <1>1, <1>2 DEF IsSequence, Begin
<1>4. OneMore(stack', stack, a)
  BY <1>3, OneMoreTried
<1>5. StepAbove
  BY <1>1 DEF StepAbove
<1>6. Tells(a)'
  <2>1. CASE is = "assign"
    BY <1>1, <2>1 DEF Tells
  <2>2. CASE is # "assign"
    <3>1. PICK b, before : b = Depth(Current) /\ before = View(Current)
      OBVIOUS
    <3>2. Shows(b, before)
      <4>1. before.captures = Frame(Current, b)[GroupKey]
        BY <3>1 DEF View, RxGet
      <4>2. ASSUME NEW r \in Refs
            PROVE  before.vars[r] = SeenAt(b, r)
        BY <3>1, SeenOnTop DEF View, VInv
      <4> QED
        BY <4>1, <4>2 DEF Shows, ShowsRef
    <3>3. EnterLocal(Current) /\ b \in Nat \ {0} /\ Depth(Current)' = b + 1
      BY <1>1, <2>2, <3>1, Deep, EnterEffect, CurrentAssumption DEF SInv
    <3>4. b <= Depth(Current) /\ b <= Depth(Current)' /\ AboveOnly(b)
      BY <3>1, <3>3 DEF AboveOnly
    <3>5. Shows(b, before)'
      BY <3>2, <3>3, <3>4, ShowsKept DEF VInv, PInv
    <3> QED
      BY <1>1, <3>1, <3>5 DEF Tells
  <2> QED
    BY <2>1, <2>2
<1>7. ASSUME NEW i \in 1 .. Len(stack')
      PROVE  (i \in 1 .. Len(stack) /\ stack'[i] = stack[i]) \/ Tells(stack[i])'
  <2>1. i \in 1 .. Len(stack) \/ i = Len(stack')
    BY <1>4 DEF OneMore
  <2>2. CASE i \in 1 .. Len(stack)
    BY <1>4, <2>2 DEF OneMore
  <2>3. CASE i = Len(stack')
    <3>1. stack'[i] = a
      BY <1>4, <2>3 DEF OneMore
    <3> QED
      BY <1>6, <3>1 DEF Tells
  <2> QED
    BY <2>1, <2>2, <2>3
<1> QED
  BY <1>3, <1>5, <1>7, AllTell, NothingTold

LEMMA ContinuesTells ==
  ASSUME SInv, SInv', PInv, PInv', VInv, NEW is, Continues(is)
  PROVE  VInv'
<1>1. PICK a : Becomes(a) /\ a.is = is /\ a.base = Active.base /\ a.before = Active.before
  BY DEF Continues
<1>2. stack # <<>> /\ Active.is = is /\ StepAbove
  BY DEF Continues, StepAbove, WritesVariable
<1>3. PICK S : stack \in Seq(S)
  BY DEF SInv, Built, IsSequence
<1>4. stack \in Seq(S \cup {a}) /\ Len(stack) \in Nat \ {0}
  BY <1>2, <1>3, Wider
<1>5. /\ Len(stack') = Len(stack) /\ stack'[Len(stack)] = a
      /\ \A i \in 1 .. Len(stack) - 1 : stack'[i] = stack[i]
  BY <1>1, <1>4 DEF Becomes
<1>6. ASSUME NEW i \in 1 .. Len(stack')
      PROVE  \E j \in 1 .. Len(stack) : /\ stack'[i].is = stack[j].is
                                        /\ stack'[i].base = stack[j].base
                                        /\ stack'[i].before = stack[j].before
  <2>1. i \in 1 .. Len(stack) /\ (i = Len(stack) \/ i \in 1 .. Len(stack) - 1)
    BY <1>4, <1>5
  <2> QED
    BY <1>1, <1>2, <1>5, <2>1 DEF Active
<1>7. Told'
  BY <1>1, NothingTold DEF Becomes
<1> QED
  BY <1>2, <1>6, <1>7, AllTell

\* When an activity has ended the scope is as deep as when it began.
LEMMA EndsBelow ==
  ASSUME SInv, SInv', stack # <<>>, stack' = Front(stack)
  PROVE  Depth(Current)' = Active.base
<1>1. /\ Len(stack) \in Nat \ {0} /\ Len(stack') = Len(stack) - 1
      /\ \A i \in 1 .. Len(stack') : stack'[i] = stack[i]
  BY FrontOf
<1>2. Len(stack) \in 1 .. Len(stack)
  BY <1>1
<1>3. Level(stack, Len(stack), raised)
  BY <1>2 DEF SInv, Built
<1>4. Active.base = IF Len(stack) = 1 THEN 1
                    ELSE stack[Len(stack) - 1].base + stack[Len(stack) - 1].frames
  BY <1>3 DEF Level, Active
<1>5. Depth(Current)' = Top(stack')
  BY DEF SInv, Built
<1>6. PICK S : stack' \in Seq(S)
  BY DEF SInv, Built, IsSequence
<1>7. CASE Len(stack) = 1
  BY <1>1, <1>4, <1>5, <1>6, <1>7 DEF Top
<1>8. CASE Len(stack) # 1
  <2>1. stack' # <<>> /\ Len(stack') \in 1 .. Len(stack') /\ Len(stack') = Len(stack) - 1
    BY <1>1, <1>6, <1>8
  <2>2. stack'[Len(stack')] = stack[Len(stack) - 1]
    BY <1>1, <2>1
  <2> QED
    BY <1>4, <1>5, <1>8, <2>1, <2>2 DEF Top
<1> QED
  BY <1>7, <1>8

LEMMA EndsTells ==
  ASSUME SInv, SInv', PInv, PInv', VInv, NEW is, Ends(is)
  PROVE  VInv'
<1>1. PICK what, value : End(what, value)
  BY DEF Ends
<1>2. /\ stack # <<>> /\ stack' = Front(stack) /\ StepAbove
      /\ ended' = [is |-> what, of |-> Active, value |-> value]
  BY <1>1 DEF Ends, End, StepAbove
<1>3. /\ Len(stack) \in Nat \ {0} /\ Len(stack') = Len(stack) - 1
      /\ \A i \in 1 .. Len(stack') : stack'[i] = stack[i]
  BY <1>2, FrontOf
<1>4. Depth(Current)' = Active.base
  BY <1>2, EndsBelow
<1>5. PICK a : a = Active
  OBVIOUS
<1>6. ended'.of = a
  BY <1>2, <1>5
<1>7. Tells(a)'
  <2>1. Len(stack) \in 1 .. Len(stack) /\ a = stack[Len(stack)]
    BY <1>3, <1>5 DEF Active
  <2>2. a.base <= Depth(Current)'
    BY <1>2, <1>4, <1>5, TheActive
  <2> QED
    BY <1>2, <2>1, <2>2, StillTells
<1>8. Told'
  BY <1>4, <1>5, <1>6, <1>7 DEF Told, Tells
<1>9. \A i \in 1 .. Len(stack') : i \in 1 .. Len(stack) /\ stack'[i] = stack[i]
  BY <1>3
<1> QED
  BY <1>2, <1>8, <1>9, AllTell

LEMMA SameStackTells ==
  ASSUME SInv, SInv', PInv, PInv', VInv, StepAbove, UNCHANGED stack, Told'
  PROVE  VInv'
BY AllTell

LEMMA StepVInv ==
  ASSUME SInv, PInv, VInv, [StatementsNext]_allVars
  PROVE  VInv'
<1>1. SInv' /\ PInv'
  BY StepSInv, StepPInv
<1>2. CASE UNCHANGED allVars
  <2>1. UNCHANGED <<maps, frames, parent, stack, ended>>
    BY <1>2 DEF allVars, scopeVars, vars, activityVars
  <2>2. \A b, before : Shows(b, before)' <=> Shows(b, before)
    <3>1. /\ \A r : Inherited(r)' = Inherited(r)
          /\ \A n : \A what : ParentShows(n, what)' <=> ParentShows(n, what)
      BY <1>2, SameInherited DEF allVars
    <3>2. \A b, r : SeenAt(b, r)' = SeenAt(b, r)
      BY <2>1, <3>1 DEF SeenAt, OwnAt, BoundIn, Frame
    <3>3. \A b, vars0, r : ShowsRef(b, vars0, r)' <=> ShowsRef(b, vars0, r)
      BY <2>1, <3>1, <3>2 DEF ShowsRef, Frame
    <3> QED
      BY <2>1, <3>3 DEF Shows, Frame
  <2>3. \A a : Tells(a)' <=> Tells(a)
    BY <2>2 DEF Tells
  <2>4. Outlook'
    BY <2>1 DEF VInv, Outlook, ParentsEnd, Grounded
  <2>5. Depth(Current)' = Depth(Current)
    BY <2>1 DEF Depth
  <2> QED
    BY <2>1, <2>3, <2>4, <2>5 DEF VInv, Told
<1>3. ASSUME NEW is, Moves(is)
      PROVE  VInv'
  <2>1. ASSUME NEW what, Raise(what)
        PROVE  VInv'
    <3>1. StepAbove /\ UNCHANGED stack /\ Told'
      BY <2>1, NothingTold DEF Raise, StepAbove
    <3> QED
      BY <1>1, <3>1, SameStackTells
  <2> QED
    BY <1>1, <1>3, <2>1, BeginsTell, ContinuesTells, EndsTells DEF Moves
<1>4. CASE Stays
  <2>1. StepAbove /\ UNCHANGED stack /\ Told'
    BY <1>4, NothingTold DEF Stays, StepAbove, WritesVariable, CodeRuns
  <2> QED
    BY <1>1, <2>1, SameStackTells
<1> QED
  BY <1>2, <1>3, <1>4, StepMoves

LEMMA InitVInv == StatementsInit => VInv
<1> SUFFICES ASSUME StatementsInit
             PROVE  VInv
  OBVIOUS
<1>1. Len(stack) = 0 /\ ended = Nothing
  BY DEF StatementsInit, ActivitiesInit
<1>2. Outlook
  <2>1. PICK o \in Origins : parent = o.parent
    BY DEF StatementsInit, ActivitiesInit
  <2>2. /\ o.parent \in [ScopeIds -> (ScopeIds \ {Current}) \cup {None}]
        /\ \A some \in (SUBSET ScopeIds) \ {{}} : \E s \in some : o.parent[s] \notin some
    BY OriginsAssumption
  <2> QED
    BY <2>1, <2>2, CurrentAssumption, NoneAssumption DEF Outlook, ParentsEnd, Grounded
<1> QED
  BY <1>1, <1>2 DEF VInv, Told

LEMMA TellsAlways == StatementsSpec => []VInv
<1>1. SInv /\ PInv /\ VInv /\ [StatementsNext]_allVars => VInv'
  BY StepVInv
<1> QED
  BY <1>1, InitVInv, BuiltAlways, ParametersHeld, PTL DEF StatementsSpec

\* Whatever ends, however deep and after whatever panic, leaves the captures as
\* they were when it began and hides or shows no variable but globals that were
\* assigned by their `::` names, whatever parents the scope has (the deferred pops
\* of WithLocalScope and the rule of parentedScope.Set, scope.go).
THEOREM ViewAlwaysKept == StatementsSpec => []ViewKept
<1>1. SInv /\ VInv => ViewKept
  <2> SUFFICES ASSUME SInv, VInv, ended # Nothing, ended.of.is # "assign"
               PROVE  ViewKept
    BY DEF ViewKept
  <2> DEFINE before == ended.of.before
  <2>1. Outlook /\ Shows(Depth(Current), before)
    BY DEF VInv, Told, Tells
  <2>2. RxGet(Current) = before.captures
    BY <2>1 DEF Shows, RxGet
  <2>3. ASSUME NEW r \in Refs
        PROVE  \/ Get2(Current, r) = before.vars[r]
               \/ /\ Get2(Current, r) = Frame(Current, 1)[r.name] /\ Get2(Current, r) # Absent
                  /\ before.vars[r] = Absent \/ ParentShows(r.name, "Local")
               \/ r.name = Pnr /\ ParentShows(Pnr, "Global")
    <3>1. Get2(Current, r) = SeenAt(Depth(Current), r)
      BY <2>1, SeenOnTop
    <3>2. ShowsRef(Depth(Current), before.vars, r)
      BY <2>1 DEF Shows
    <3> HIDE DEF before
    <3> QED
      BY <3>1, <3>2 DEF ShowsRef
  <2> QED
    BY <2>2, <2>3 DEF ViewKept
<1> QED
  BY <1>1, BuiltAlways, TellsAlways, PTL

-----------------------------------------------------------------------------
(* The defaults of parameters. *)

\* No default before the n-th is code.
NoCode(a, n) == \A j \in a.given + 1 .. n - 1 : a.f.parameters[j].default.is # "code"

\* The default that was a variable is the one of the caller.
FromCaller(a, i) ==
  /\ i <= Len(a.f.parameters) /\ a.f.parameters[i].default.is = "variable"
  /\ NoCode(a, i)
  => a.args[i] = a.before.vars[a.f.parameters[i].default.ref]

\* The arguments of a call so far.
Filled(a) ==
  a.is = "call" /\ a.phase \in {"called", "defaults", "default", "check"} =>
    /\ a.given \in Nat /\ a.given <= Len(a.args)
    /\ a.phase = "called" => a.given = Len(a.args)
    /\ a.phase = "default" => a.f.parameters[Len(a.args) + 1].default.is = "code"
    /\ \A i \in a.given + 1 .. Len(a.args) : FromCaller(a, i)

\* Until code has run in a default the scope shows what it showed to the caller.
Unspoilt(a) ==
  a.is = "call" /\ a.phase \in {"called", "defaults"} /\ NoCode(a, Len(a.args) + 1) =>
    \A r \in Refs : Get2(Current, r) = a.before.vars[r]

DInv ==
  /\ \A i \in 1 .. Len(stack) : Filled(stack[i])
  /\ raised = "no" /\ stack # <<>> => Unspoilt(Active)

\* a is the top of the stack after the step, and below it is what was there.
Topped(a) ==
  /\ Active' = a
  /\ \A i \in 1 .. Len(stack') : stack'[i] = a \/ (i \in 1 .. Len(stack) /\ stack'[i] = stack[i])

LEMMA BeginTops ==
  ASSUME SInv, NEW a, Begin(a)
  PROVE  Topped(a)
<1>1. PICK S : stack \in Seq(S)
  BY DEF SInv, Built, IsSequence
<1>2. IsSequence(stack) /\ stack' = Append(stack, a)
  BY <1>1 DEF IsSequence, Begin
<1>3. OneMore(stack', stack, a)
  BY <1>2, OneMoreTried
<1>4. \A i \in 1 .. Len(stack') : i \in 1 .. Len(stack) \/ i = Len(stack')
  BY <1>3 DEF OneMore
<1> QED
  BY <1>3, <1>4 DEF OneMore, Topped, Active

LEMMA BecomesTops ==
  ASSUME SInv, stack # <<>>, NEW a, Becomes(a)
  PROVE  Topped(a)
<1>1. PICK S : stack \in Seq(S)
  BY DEF SInv, Built, IsSequence
<1>2. stack \in Seq(S \cup {a}) /\ Len(stack) \in Nat \ {0}
  BY <1>1, Wider
<1>3. /\ Len(stack') = Len(stack) /\ stack'[Len(stack)] = a
      /\ \A i \in 1 .. Len(stack) - 1 : stack'[i] = stack[i]
  BY <1>2 DEF Becomes
<1>4. \A i \in 1 .. Len(stack') : i = Len(stack) \/ i \in 1 .. Len(stack) - 1
  BY <1>2, <1>3
<1>5. \A i \in 1 .. Len(stack) - 1 : i \in 1 .. Len(stack)
  BY <1>2
<1> QED
  BY <1>3, <1>4, <1>5 DEF Topped, Active

LEMMA ToppedDInv ==
  ASSUME DInv, NEW a, Topped(a), Filled(a),
         raised' = "no" => Unspoilt(a)'
  PROVE  DInv'
<1>1. ASSUME NEW i \in 1 .. Len(stack')
      PROVE  Filled(stack'[i])
  BY DEF Topped, DInv
<1>2. raised' = "no" => Unspoilt(Active)'
  BY DEF Topped, Unspoilt, NoCode
<1> QED
  BY <1>1, <1>2 DEF DInv, Filled, FromCaller, NoCode

LEMMA OtherDefaults ==
  ASSUME DInv, NEW a, Topped(a), a.is # "call"
  PROVE  DInv'
<1>1. Filled(a) /\ Unspoilt(a)'
  BY DEF Filled, Unspoilt
<1> QED
  BY <1>1, ToppedDInv

\* Below the top code runs.
LEMMA PoppedDInv ==
  ASSUME SInv, SInv', DInv, stack # <<>>, stack' = Front(stack)
  PROVE  DInv'
<1>1. /\ Len(stack) \in Nat \ {0} /\ Len(stack') = Len(stack) - 1
      /\ \A i \in 1 .. Len(stack') : stack'[i] = stack[i]
  BY FrontOf
<1>2. \A i \in 1 .. Len(stack') : i \in 1 .. Len(stack) /\ Filled(stack'[i])
  BY <1>1 DEF DInv
<1>3. ASSUME stack' # <<>>
      PROVE  Unspoilt(Active)'
  <2>1. PICK S : stack' \in Seq(S)
    BY DEF SInv, Built, IsSequence
  <2>2. Len(stack') \in 1 .. Len(stack') /\ Len(stack') \in 1 .. Len(stack)
        /\ Len(stack') < Len(stack)
    BY <1>1, <1>3, <2>1
  <2>3. stack[Len(stack')].phase \in CodePhases
    BY <2>2 DEF SInv, Built, Level
  <2>4. Active'.phase \in CodePhases
    BY <1>1, <2>2, <2>3 DEF Active
  <2> QED
    BY <2>4 DEF Unspoilt, CodePhases
<1> QED
  BY <1>2, <1>3 DEF DInv, Filled, FromCaller, NoCode

LEMMA SameDInv ==
  ASSUME DInv, UNCHANGED stack,
         raised' = "no" /\ stack # <<>> => Active.phase \in CodePhases
  PROVE  DInv'
<1>1. raised' = "no" /\ stack' # <<>> => Active'.phase \in CodePhases
  BY DEF Active
<1>2. raised' = "no" /\ stack' # <<>> => Unspoilt(Active)'
  BY <1>1 DEF Unspoilt, CodePhases
<1> QED
  BY <1>2 DEF DInv, Filled, FromCaller, NoCode

LEMMA SeenOnTopAll ==
  SInv /\ Outlook => \A q \in Refs : Get2(Current, q) = SeenAt(Depth(Current), q)
BY SeenOnTop
LEMMA SeenOnTopNext ==
  (SInv /\ Outlook)' => (\A q \in Refs : Get2(Current, q) = SeenAt(Depth(Current), q))'
BY SeenOnTopAll, PTL

\* An empty frame on top hides nothing.
LEMMA EnterSees ==
  ASSUME SInv, SInv', Outlook, EnterLocal(Current), NEW r \in Refs
  PROVE  Get2(Current, r)' = Get2(Current, r)
<1>1. Outlook' /\ Inherited(r)' = Inherited(r)
  BY InheritedKept DEF ScopeAction, InheritsSame
<1>2. PICK b : b = Depth(Current)
  OBVIOUS
<1>3. /\ b \in Nat \ {0} /\ Depth(Current)' = b + 1 /\ SameFrames(Current, b)
      /\ Frame(Current, b + 1)' = EmptyMap
  <2>1. /\ Depth(Current)' = Depth(Current) + 1 /\ SameFrames(Current, Depth(Current))
        /\ Frame(Current, Depth(Current))' = EmptyMap
    BY EnterEffect, CurrentAssumption DEF SInv
  <2>2. Frame(Current, Depth(Current))' = Frame(Current, b + 1)'
    BY <1>2, <2>1 DEF Frame
  <2> QED
    BY <1>2, <2>1, <2>2, Deep DEF SameFrames
<1>4. r.name \in Keys
  BY DEF Refs, Keys
<1>5. SeenAt(b, r)' = SeenAt(b, r)
  BY <1>1, <1>3, SameSeen DEF SameFrames
<1>6. BoundIn(b + 1, r.name)' = BoundIn(b, r.name)'
  <2>1. Frame(Current, b + 1)'[r.name] = Absent
    BY <1>3, <1>4 DEF EmptyMap
  <2>2. \A i : i \in 1 .. b + 1 <=> i \in 1 .. b \/ i = b + 1
    BY <1>3
  <2>3. BoundIn(b, r.name)' = {i \in 1 .. b : Frame(Current, i)'[r.name] # Absent}
    BY DEF BoundIn, Frame
  <2>4. BoundIn(b + 1, r.name)' = {i \in 1 .. b + 1 : Frame(Current, i)'[r.name] # Absent}
    BY DEF BoundIn, Frame
  <2> QED
    BY <2>1, <2>2, <2>3, <2>4
<1>7. SeenAt(b + 1, r)' = SeenAt(b, r)'
  BY <1>6 DEF SeenAt, OwnAt
<1>8. Get2(Current, r)' = SeenAt(Depth(Current), r)'
  BY <1>1, SeenOnTopNext
<1>9. SeenAt(Depth(Current), r)' = SeenAt(b + 1, r)'
  BY <1>3 DEF SeenAt, OwnAt, BoundIn
<1>10. Get2(Current, r) = SeenAt(b, r)
  BY <1>2, SeenOnTop
<1> QED
  BY <1>5, <1>7, <1>8, <1>9, <1>10

LEMMA SameSees ==
  ASSUME UNCHANGED scopeVars, NEW r
  PROVE  Get2(Current, r)' = Get2(Current, r)
BY DEF scopeVars, vars, Get2, BasicGet2, Binding, Frame, Depth

LEMMA TheCall ==
  ASSUME SInv, DInv, NEW phase, In("call", phase)
  PROVE  /\ stack # <<>> /\ raised = "no" /\ IsCall(Active) /\ Active.phase = phase
         /\ Filled(Active) /\ Unspoilt(Active)
<1>1. stack # <<>> /\ raised = "no" /\ IsCall(Active) /\ Active.phase = phase
  BY InCall DEF In
<1>2. Len(stack) \in 1 .. Len(stack)
  BY <1>1, TheActive
<1> QED
  BY <1>1, <1>2 DEF DInv, Active

\* The phase changes and nothing else of it that matters here.
LEMMA PhaseDInv ==
  ASSUME SInv, DInv, NEW phase \in {"called", "defaults"}, In("call", phase), NEW a, Goes(a),
         a.is = "call", a.f = Active.f, a.args = Active.args, a.given = Active.given,
         a.before = Active.before,
         a.phase = "default" => Active.f.parameters[Len(Active.args) + 1].default.is = "code",
         a.phase \in {"called", "defaults"} =>
           \A r \in Refs : Get2(Current, r)' = Get2(Current, r),
         a.phase # "called"
  PROVE  DInv'
<1>1. /\ stack # <<>> /\ raised = "no" /\ IsCall(Active) /\ Active.phase = phase
      /\ Filled(Active) /\ Unspoilt(Active)
  BY TheCall
<1>2. Topped(a)
  BY <1>1, BecomesTops DEF Goes
<1>3. PICK c : c = Active
  OBVIOUS
<1>4. Filled(a)
  <2>1. /\ c.is = "call" /\ c.phase = phase /\ Filled(c)
        /\ a.f = c.f /\ a.args = c.args /\ a.given = c.given /\ a.before = c.before
    BY <1>1, <1>3 DEF IsCall
  <2>2. c.given \in Nat /\ c.given <= Len(c.args)
        /\ \A i \in c.given + 1 .. Len(c.args) : FromCaller(c, i)
    BY <2>1 DEF Filled
  <2>3. \A i : FromCaller(c, i) <=> FromCaller(a, i)
    BY <2>1 DEF FromCaller, NoCode
  <2> QED
    BY <1>3, <2>1, <2>2, <2>3 DEF Filled
<1>5. Unspoilt(a)'
  <2>1. CASE ~(a.phase \in {"called", "defaults"})
    BY <2>1 DEF Unspoilt
  <2>2. CASE a.phase \in {"called", "defaults"}
    <3>1. NoCode(a, Len(a.args) + 1) <=> NoCode(Active, Len(Active.args) + 1)
      BY DEF NoCode
    <3>2. NoCode(a, Len(a.args) + 1) => \A r \in Refs : Get2(Current, r) = a.before.vars[r]
      BY <1>1, <3>1 DEF Unspoilt, IsCall
    <3>3. NoCode(a, Len(a.args) + 1) => \A r \in Refs : Get2(Current, r)' = a.before.vars[r]
      BY <2>2, <3>2
    <3> QED
      BY <3>3 DEF Unspoilt
  <2> QED
    BY <2>1, <2>2
<1> QED
  BY <1>2, <1>4, <1>5, ToppedDInv

\* One more argument, from a default.
LEMMA ArgumentDInv ==
  ASSUME SInv, DInv, NEW phase \in {"defaults", "default"}, In("call", phase),
         NEW value, Goes(WithArgument(value)), UNCHANGED scopeVars,
         phase = "defaults" => NextParameter.default.is # "code",
         /\ NextParameter.default.is = "variable" /\ phase = "defaults"
         => value = Get2(Current, NextParameter.default.ref) /\ NextParameter.default.ref \in Refs
  PROVE  DInv'
<1>1. /\ stack # <<>> /\ raised = "no" /\ IsCall(Active) /\ Active.phase = phase
      /\ Filled(Active) /\ Unspoilt(Active)
  BY TheCall
<1>2. PICK a : a = WithArgument(value)
  OBVIOUS
<1>3. PICK c : c = Active
  OBVIOUS
<1>4. PICK args, new : args = c.args /\ new = Append(args, value)
  OBVIOUS
<1>5. /\ a.is = "call" /\ a.phase = "defaults" /\ a.f = c.f /\ a.given = c.given
      /\ a.before = c.before /\ a.args = new /\ c.args = args
  BY <1>1, <1>2, <1>3, <1>4 DEF IsCall, HasFields, WithArgument
<1>6. Topped(a)
  BY <1>1, <1>2, BecomesTops DEF Goes
<1>7. OneMore(new, args, value)
  <2>1. args \in Seq(Values)
    BY <1>1, <1>3, <1>4 DEF IsCall
  <2>2. IsSequence(args)
    BY <2>1 DEF IsSequence
  <2> QED
    BY <1>4, <2>2, OneMoreTried
<1>8. PICK n : n = Len(args) + 1
  OBVIOUS
<1>9. /\ n \in Nat /\ Len(args) = n - 1 /\ Len(new) = n /\ new[n] = value
      /\ \A i \in 1 .. n - 1 : new[i] = args[i]
  BY <1>7, <1>8 DEF OneMore
<1>10. /\ c.is = "call" /\ c.phase = phase /\ c.given \in Nat /\ c.given <= n - 1
       /\ \A i \in c.given + 1 .. n - 1 : FromCaller(c, i)
       /\ c.phase = "default" => c.f.parameters[n].default.is = "code"
  BY <1>1, <1>3, <1>5, <1>8, <1>9 DEF Filled, IsCall
<1>11. NextParameter = c.f.parameters[n]
  BY <1>3, <1>5, <1>8 DEF NextParameter, Param
<1>12. NoCode(c, n) /\ c.phase = "defaults" => \A r \in Refs : Get2(Current, r) = c.before.vars[r]
  BY <1>1, <1>3, <1>5, <1>8, <1>10 DEF Unspoilt
<1>13. \A i : NoCode(a, i) <=> NoCode(c, i)
  BY <1>5 DEF NoCode
<1>14. ASSUME NEW i \in c.given + 1 .. n
       PROVE  FromCaller(a, i)
  <2>1. CASE i # n
    <3>1. i \in c.given + 1 .. n - 1 /\ i \in 1 .. n - 1
      BY <1>9, <1>10, <2>1
    <3>2. FromCaller(c, i) /\ new[i] = args[i]
      BY <1>9, <1>10, <3>1
    <3> QED
      BY <1>5, <1>13, <3>2 DEF FromCaller
  <2>2. CASE i = n
    <3> SUFFICES ASSUME a.f.parameters[n].default.is = "variable", NoCode(a, n)
                 PROVE  a.args[n] = a.before.vars[a.f.parameters[n].default.ref]
      BY <2>2 DEF FromCaller
    <3>1. phase = "defaults"
      BY <1>5, <1>10
    <3>2. value = Get2(Current, c.f.parameters[n].default.ref)
          /\ c.f.parameters[n].default.ref \in Refs
      BY <1>5, <1>11, <3>1
    <3>3. value = c.before.vars[c.f.parameters[n].default.ref]
      BY <1>10, <1>12, <1>13, <3>1, <3>2
    <3> QED
      BY <1>5, <1>9, <3>3
  <2> QED
    BY <2>1, <2>2
<1>15. Filled(a)
  BY <1>5, <1>9, <1>10, <1>14 DEF Filled
<1>16. Unspoilt(a)'
  <2> SUFFICES ASSUME NoCode(a, n + 1)
               PROVE  \A r \in Refs : Get2(Current, r)' = a.before.vars[r]
    BY <1>5, <1>9 DEF Unspoilt
  <2>1. \A j \in c.given + 1 .. n : c.f.parameters[j].default.is # "code"
    <3>1. n + 1 - 1 = n
      BY <1>9
    <3> QED
      BY <1>5, <1>9, <1>10, <3>1 DEF NoCode
  <2>2. n \in c.given + 1 .. n /\ \A j \in c.given + 1 .. n - 1 : j \in c.given + 1 .. n
    BY <1>9, <1>10
  <2>3. NoCode(c, n) /\ c.f.parameters[n].default.is # "code"
    BY <2>1, <2>2 DEF NoCode
  <2>4. c.phase = "defaults"
    BY <1>10, <2>3
  <2> QED
    BY <1>5, <1>12, <2>3, <2>4, SameSees
<1> QED
  BY <1>6, <1>15, <1>16, ToppedDInv

LEMMA BeginCallDInv ==
  ASSUME SInv, SInv', DInv, Outlook, NEW f \in Callables, NEW args \in Arguments,
         BeginCall(f, args)
  PROVE  DInv'
<1>1. PICK before : before = View(Current)
  OBVIOUS
<1>2. PICK depth : depth = Depth(Current)
  OBVIOUS
<1> DEFINE a == [is |-> "call", phase |-> "called", frames |-> 1, base |-> depth,
                 before |-> before, f |-> f, args |-> args, given |-> Len(args), next |-> 1]
<1>3. Begin(a) /\ EnterLocal(Current)
  BY <1>1, <1>2 DEF BeginCall
<1>4. /\ a.is = "call" /\ a.phase = "called" /\ a.before = before /\ a.args = args
      /\ a.given = Len(args)
  OBVIOUS
<1>5. Len(args) \in Nat
  BY CallablesAssumption
<1> HIDE DEF a
<1>6. Topped(a)
  BY <1>3, BeginTops
<1>7. Filled(a)
  <2>1. PICK n : n = Len(args)
    OBVIOUS
  <2>2. n \in Nat /\ a.given = n /\ Len(a.args) = n
    BY <1>4, <1>5, <2>1
  <2> QED
    BY <1>4, <2>2 DEF Filled
<1>8. Unspoilt(a)'
  <2>1. ASSUME NEW r \in Refs
        PROVE  Get2(Current, r)' = before.vars[r]
    <3>1. before.vars[r] = Get2(Current, r)
      BY <1>1 DEF View
    <3> QED
      BY <1>3, <3>1, EnterSees
  <2> QED
    BY <1>4, <2>1 DEF Unspoilt
<1> QED
  BY <1>6, <1>7, <1>8, ToppedDInv

\* The parameter whose default comes next.
LEMMA TheNext ==
  ASSUME SInv, IsCall(Active), Len(Active.args) < Wanted
  PROVE  NextParameter \in Parameters
<1>1. Active.f.parameters \in Seq(Parameters) /\ Active.args \in Seq(Values)
  BY CallablesAssumption DEF IsCall
<1>2. PICK n : n = Len(Active.args)
  OBVIOUS
<1>3. n + 1 \in 1 .. Len(Active.f.parameters)
  BY <1>1, <1>2 DEF Wanted
<1> QED
  BY <1>1, <1>2, <1>3 DEF NextParameter, Param

LEMMA CallsDInv ==
  ASSUME SInv, SInv', DInv, Outlook, CallsNext
  PROVE  DInv'
<1>1. Raise("error") => DInv'
  BY SameDInv DEF Raise
<1>2. ASSUME NEW phase, In("call", phase), NEW value, Defaulted(value),
             phase \in {"defaults", "default"},
             phase = "defaults" => NextParameter.default.is # "code",
             /\ NextParameter.default.is = "variable" /\ phase = "defaults"
             => value = Get2(Current, NextParameter.default.ref) /\ NextParameter.default.ref \in Refs
      PROVE  DInv'
  BY <1>1, <1>2, ArgumentDInv DEF Defaulted
<1>3. CASE EnterDefaults
  <2> DEFINE a == [Active EXCEPT !.phase = "defaults", !.frames = 2]
  <2>1. In("call", "called") /\ Goes(a) /\ EnterLocal(Current)
    BY <1>3 DEF EnterDefaults
  <2>2. /\ a.is = "call" /\ a.f = Active.f /\ a.args = Active.args /\ a.given = Active.given
        /\ a.before = Active.before /\ a.phase = "defaults"
    BY <2>1, InCall DEF IsCall, HasFields
  <2> HIDE DEF a
  <2>3. \A r \in Refs : Get2(Current, r)' = Get2(Current, r)
    BY <2>1, EnterSees
  <2>4. PICK b : b = a
    OBVIOUS
  <2> QED
    BY <2>1, <2>2, <2>3, <2>4, PhaseDInv
<1>4. ASSUME NEW phase \in {"called", "defaults"}, In("call", phase),
             NEW b, Goes(b), b.is = "call", b.f = Active.f, b.args = Active.args,
             b.given = Active.given, b.before = Active.before, b.phase = "check"
      PROVE  DInv'
  BY <1>4, PhaseDInv
<1>5. CASE NoDefaults
  <2> DEFINE a == [Active EXCEPT !.phase = "check"]
  <2>1. In("call", "called") /\ Goes(a)
    BY <1>5 DEF NoDefaults
  <2>2. /\ a.is = "call" /\ a.f = Active.f /\ a.args = Active.args /\ a.given = Active.given
        /\ a.before = Active.before /\ a.phase = "check"
    BY <2>1, InCall DEF IsCall, HasFields
  <2> HIDE DEF a
  <2>3. PICK b : b = a
    OBVIOUS
  <2> QED
    BY <1>4, <2>1, <2>2, <2>3
<1>6. CASE LeaveDefaults
  <2> DEFINE a == [Active EXCEPT !.phase = "check", !.frames = 1]
  <2>1. In("call", "defaults") /\ Goes(a)
    BY <1>6 DEF LeaveDefaults
  <2>2. /\ a.is = "call" /\ a.f = Active.f /\ a.args = Active.args /\ a.given = Active.given
        /\ a.before = Active.before /\ a.phase = "check"
    BY <2>1, InCall DEF IsCall, HasFields
  <2> HIDE DEF a
  <2>3. PICK b : b = a
    OBVIOUS
  <2> QED
    BY <1>4, <2>1, <2>2, <2>3
<1>7. CASE CodeDefault
  <2> DEFINE a == [Active EXCEPT !.phase = "default"]
  <2>1. In("call", "defaults") /\ Goes(a) /\ NextParameter.default.is = "code"
    BY <1>7 DEF CodeDefault, DefaultNeeded
  <2>2. /\ a.is = "call" /\ a.f = Active.f /\ a.args = Active.args /\ a.given = Active.given
        /\ a.before = Active.before /\ a.phase = "default"
    BY <2>1, InCall DEF IsCall, HasFields
  <2> HIDE DEF a
  <2>3. PICK b : b = a
    OBVIOUS
  <2>4. Active.f.parameters[Len(Active.args) + 1].default.is = "code"
    BY <2>1 DEF NextParameter, Param
  <2> QED
    BY <2>1, <2>2, <2>3, <2>4, PhaseDInv
<1>8. CASE NoDefault
  BY <1>8, ArgumentDInv DEF NoDefault, DefaultNeeded
<1>9. CASE ValueDefault
  BY <1>2, <1>9 DEF ValueDefault, DefaultNeeded
<1>10. CASE VariableDefault
  <2>1. /\ In("call", "defaults") /\ Len(Active.args) < Wanted
        /\ NextParameter.default.is = "variable"
    BY <1>10 DEF VariableDefault, DefaultNeeded
  <2>2. NextParameter.default.ref \in Refs
    <3>1. NextParameter \in Parameters
      BY <2>1, InCall, TheNext
    <3>2. PICK d : d = NextParameter.default
      OBVIOUS
    <3>3. d \in Defaults /\ d.is = "variable"
      BY <2>1, <3>1, <3>2 DEF Parameters
    <3>4. d.ref \in Refs
      BY <3>3 DEF Defaults
    <3> QED
      BY <3>2, <3>4
  <2>3. PICK value : value = Get2(Current, NextParameter.default.ref)
    OBVIOUS
  <2>4. Raise("error") \/ Defaulted(value)
    BY <1>10, <2>3 DEF VariableDefault
  <2> QED
    BY <1>1, <1>2, <2>1, <2>2, <2>3, <2>4
<1>11. ASSUME NEW value \in Atoms, CodeDefaultEvaluated(value)
       PROVE  DInv'
  BY <1>2, <1>11 DEF CodeDefaultEvaluated
\* Behind the defaults.
<1>12. ASSUME NEW a, stack # <<>>, Becomes(a), a.is = "call", a.phase \in {"bind", "body"}
       PROVE  DInv'
  <2>1. Topped(a) /\ Filled(a) /\ Unspoilt(a)'
    BY <1>12, BecomesTops DEF Filled, Unspoilt
  <2> QED
    BY <2>1, ToppedDInv
<1>13. CASE Check \/ Bind \/ EvaluateBody
  <2>1. CASE Raise("error")
    BY <1>1, <2>1
  <2>2. CASE ~Raise("error")
    <3>1. PICK phase \in {"check", "bind"} : In("call", phase)
      BY <1>13 DEF Check, Bind, EvaluateBody
    <3>2. IsCall(Active) /\ stack # <<>> /\ Active.phase = phase
      BY <3>1, InCall DEF In
    <3>3. PICK a : Becomes(a) /\ a.is = "call" /\ a.phase \in {"bind", "body"}
      <4>1. CASE Check
        <5>1. Becomes([Active EXCEPT !.phase = "bind"])
          BY <2>2, <4>1 DEF Check, Goes
        <5> QED
          BY <3>2, <5>1 DEF IsCall, HasFields
      <4>2. CASE Bind
        <5>1. Becomes([Active EXCEPT !.next = @ + 1]) /\ Active.phase = "bind"
          BY <4>2 DEF Bind, Goes, In
        <5> QED
          BY <3>2, <5>1 DEF IsCall, HasFields
      <4>3. CASE EvaluateBody
        <5>1. Becomes([Active EXCEPT !.phase = "body"])
          BY <4>3 DEF EvaluateBody, Goes
        <5> QED
          BY <3>2, <5>1 DEF IsCall, HasFields
      <4> QED
        BY <1>13, <4>1, <4>2, <4>3
    <3> QED
      BY <1>12, <3>2, <3>3
  <2> QED
    BY <2>1, <2>2
<1>14. ASSUME NEW value \in Atoms, CallEnds(value)
       PROVE  DInv'
  BY <1>1, <1>14, PoppedDInv DEF CallEnds, In, End
<1> QED
  BY <1>3, <1>5, <1>6, <1>7, <1>8, <1>9, <1>10, <1>11, <1>13, <1>14, BeginCallDInv DEF CallsNext

\* What others do, begin, goes on or ends inside of the code of a call.
LEMMA OthersDInv ==
  ASSUME SInv, SInv', DInv, NEW is, is # "call", Moves(is)
  PROVE  DInv'
<1>1. CASE Begins(is)
  BY <1>1, BeginTops, OtherDefaults DEF Begins
<1>2. CASE Continues(is)
  BY <1>2, BecomesTops, OtherDefaults DEF Continues
<1>3. CASE Ends(is)
  BY <1>3, PoppedDInv DEF Ends, End
<1>4. CASE \E what : what # "no" /\ Raise(what)
  BY <1>4, SameDInv DEF Raise
<1> QED
  BY <1>1, <1>2, <1>3, <1>4 DEF Moves

LEMMA UnwindDInv ==
  ASSUME SInv, SInv', DInv, Unwind
  PROVE  DInv'
<1>1. stack # <<>> /\ raised # "no" /\ Activity(Active) /\ Filled(Active)
  <2>1. stack # <<>> /\ raised # "no"
    BY DEF Unwind
  <2>2. Len(stack) \in 1 .. Len(stack)
    BY <2>1, TheActive
  <2> QED
    BY <2>1, <2>2, TheActive DEF DInv, Active
<1>2. CASE Active.frames > 0
  <2> DEFINE a == [Active EXCEPT !.frames = @ - 1]
  <2>1. Becomes(a) /\ raised' # "no"
    BY <1>1, <1>2 DEF Unwind
  <2>2. a.is = Active.is
    BY <1>1 DEF Activity, IsAssign, IsIf, IsCase, IsCall, HasFields
  <2>3. Filled(a)
    <3>1. CASE Active.is = "call"
      <4>1. IsCall(Active)
        BY <1>1, <3>1 DEF Activity, IsAssign, IsIf, IsCase
      <4>2. /\ a.phase = Active.phase /\ a.f = Active.f /\ a.args = Active.args
            /\ a.given = Active.given /\ a.before = Active.before
        BY <4>1 DEF IsCall, HasFields
      <4> HIDE DEF a
      <4> QED
        BY <1>1, <2>2, <4>2 DEF Filled, FromCaller, NoCode
    <3>2. CASE Active.is # "call"
      BY <2>2, <3>2 DEF Filled
    <3> QED
      BY <3>1, <3>2
  <2> HIDE DEF a
  <2>4. PICK c : c = a
    OBVIOUS
  <2>5. Topped(c) /\ Filled(c)
    BY <1>1, <2>1, <2>3, <2>4, BecomesTops
  <2> QED
    BY <2>1, <2>5, ToppedDInv
<1>3. CASE ~(Active.frames > 0)
  <2>1. stack' = Front(stack)
    BY <1>3 DEF Unwind, End
  <2> QED
    BY <1>1, <2>1, PoppedDInv
<1> QED
  BY <1>2, <1>3

LEMMA StepDInv ==
  ASSUME SInv, SInv', VInv, DInv, [StatementsNext]_allVars
  PROVE  DInv'
<1>1. ASSUME NEW groups \in Matches, Match(groups)
      PROVE  DInv'
  BY <1>1, SameDInv DEF Match, CodeRuns
<1>2. CASE Fail \/ Recover
  BY <1>2, SameDInv DEF Fail, Raise, Recover
<1>3. CASE AssignmentNext
  BY <1>3, AssignmentMoves, OthersDInv
<1>4. CASE SelectionNext
  BY <1>4, SelectionMoves, OthersDInv
<1>5. CASE CallsNext
  BY <1>5, CallsDInv DEF VInv
<1>6. CASE UNCHANGED allVars
  <2>1. UNCHANGED <<stack, raised>> /\ UNCHANGED scopeVars
    BY <1>6 DEF allVars, activityVars
  <2>2. \A r : Get2(Current, r)' = Get2(Current, r)
    BY <2>1, SameSees
  <2>3. Active' = Active
    BY <2>1 DEF Active
  <2>4. raised' = "no" /\ stack' # <<>> => Unspoilt(Active)'
    BY <2>1, <2>2, <2>3 DEF DInv, Unspoilt, NoCode
  <2> QED
    BY <2>1, <2>4 DEF DInv, Filled, FromCaller, NoCode
<1> QED
  BY <1>1, <1>2, <1>3, <1>4, <1>5, <1>6, UnwindDInv DEF StatementsNext, ActivitiesNext

\* The default of a parameter that is a variable is the one that the caller sees,
\* whatever parameters come before and whatever their names, unless code has run
\* in an earlier default (the scopes of CallBlock, function.go).
THEOREM DefaultsSeeTheCaller == StatementsSpec => []DefaultsOfCaller
<1>1. SInv /\ DInv => DefaultsOfCaller
  <2> SUFFICES ASSUME SInv, DInv, In("call", "check"), NEW i \in Active.given + 1 .. Wanted,
                      Param(i).default.is = "variable",
                      \A j \in Active.given + 1 .. i - 1 : Param(j).default.is # "code"
               PROVE  Active.args[i] = Active.before.vars[Param(i).default.ref]
    BY DEF DefaultsOfCaller
  <2>1. /\ IsCall(Active) /\ Active.phase = "check" /\ Filled(Active)
    BY TheCall
  <2>2. PICK n, m, g : n = Len(Active.args) /\ m = Len(Active.f.parameters) /\ g = Active.given
    OBVIOUS
  <2>3. n \in Nat /\ m \in Nat /\ g \in Nat /\ m <= n /\ i \in g + 1 .. m
    <3>1. Active.args \in Seq(Values) /\ Active.f.parameters \in Seq(Parameters)
      BY <2>1, CallablesAssumption DEF IsCall
    <3>2. g \in Nat /\ m <= n
      BY <2>1, <2>2 DEF IsCall, ArgumentsFit, Filled
    <3> QED
      BY <2>2, <3>1, <3>2 DEF Wanted
  <2>4. i \in g + 1 .. n /\ i <= m
    BY <2>3
  <2>5. FromCaller(Active, i)
    BY <2>1, <2>2, <2>4 DEF Filled, IsCall
  <2>6. NoCode(Active, i)
    BY DEF NoCode, Param
  <2> QED
    BY <2>2, <2>4, <2>5, <2>6 DEF FromCaller, Param
<1>2. StatementsInit => DInv
  <2> SUFFICES ASSUME StatementsInit
               PROVE  DInv
    OBVIOUS
  <2>1. Len(stack) = 0 /\ stack = <<>>
    BY DEF StatementsInit, ActivitiesInit
  <2> QED
    BY <2>1 DEF DInv
<1>3. SInv /\ SInv' /\ VInv /\ DInv /\ [StatementsNext]_allVars => DInv'
  BY StepDInv
<1> QED
  BY <1>1, <1>2, <1>3, TellsAlways, BuiltAlways, PTL DEF StatementsSpec

-----------------------------------------------------------------------------
(* What an assignment means. *)

\* The parts of a pair, and what is made of the leaves of the parts.
PartsOf(pair) ==
  IF TakenApart(pair) THEN [i \in 1 .. Len(pair[1].of) |-> Part(pair, i)] ELSE <<>>
Leaf(pair) == IF pair[1].is = "name" THEN <<pair>> ELSE <<<<pair[1], Missing>>>>
LeavesOf(pair, ofParts) == IF TakenApart(pair) THEN FlattenSeq(ofParts) ELSE Leaf(pair)

LEMMA PartsTyped ==
  ASSUME NEW pair \in Pairs, TakenApart(pair)
  PROVE  /\ pair[1].of \in Seq(Lefts) /\ DOMAIN pair[1].of = 1 .. Len(pair[1].of)
         /\ pair[1].is = "list" /\ pair[2] \in Rights
         /\ pair[2].is = "hash" \/ (pair[2].is = "array" /\ Len(pair[2].of) = Len(pair[1].of))
         /\ \A i \in 1 .. Len(pair[1].of) : Part(pair, i) \in Pairs
<1>1. pair[1] \in Lefts /\ pair[1].is = "list" /\ pair[2] \in Rights \cup {Missing}
  BY DEF Pairs, TakenApart
<1>2. /\ pair[2].is = "hash" \/ (pair[2].is = "array" /\ Len(pair[1].of) = Len(pair[2].of))
      /\ pair[2] \in Rights
  BY <1>1 DEF TakenApart, Missing
<1>3. pair[1].of \in Seq(Lefts)
  BY <1>1, AssignmentsAssumption
<1>4. ASSUME NEW i \in 1 .. Len(pair[1].of)
      PROVE  Part(pair, i) \in Pairs
  <2>1. pair[1].of[i] \in Lefts
    BY <1>3
  <2>2. CASE pair[2].is = "hash"
    <3>1. \A k \in DOMAIN pair[2].of : pair[2].of[k] \in Rights
      BY <1>2, <2>2, AssignmentsAssumption
    <3>2. ValueFor(pair[2].of, pair[1].of[i]) \in Rights \cup {Missing}
      BY <3>1 DEF ValueFor
    <3> QED
      BY <2>1, <2>2, <3>2 DEF Part, Pairs
  <2>3. CASE pair[2].is # "hash"
    <3>1. pair[2].of \in Seq(Rights) /\ Len(pair[1].of) = Len(pair[2].of)
      BY <1>2, <2>3, AssignmentsAssumption
    <3>2. pair[2].of[i] \in Rights
      BY <3>1
    <3> QED
      BY <2>1, <2>3, <3>2 DEF Part, Pairs
  <2> QED
    BY <2>2, <2>3
<1>5. DOMAIN pair[1].of = 1 .. Len(pair[1].of)
  BY <1>3
<1> QED
  BY <1>1, <1>2, <1>3, <1>4, <1>5

LEMMA PartsInPairs ==
  ASSUME NEW pair \in Pairs
  PROVE  PartsOf(pair) \in Seq(Pairs)
<1>1. CASE TakenApart(pair)
  <2>1. Len(pair[1].of) \in Nat /\ \A i \in 1 .. Len(pair[1].of) : Part(pair, i) \in Pairs
    BY <1>1, PartsTyped
  <2>2. PICK n \in Nat : n = Len(pair[1].of)
    BY <2>1
  <2>3. [i \in 1 .. n |-> Part(pair, i)] \in Seq(Pairs)
    BY <2>1, <2>2
  <2> QED
    BY <1>1, <2>2, <2>3 DEF PartsOf
<1>2. CASE ~TakenApart(pair)
  BY <1>2 DEF PartsOf
<1> QED
  BY <1>1, <1>2

\* A left side ends, and so does a pair.
LEMMA PairsEnd == Founded(Pairs, [pair \in Pairs |-> PartsOf(pair)])
<1> DEFINE parts == [pair \in Pairs |-> PartsOf(pair)]
<1> SUFFICES ASSUME NEW T \in SUBSET Pairs, T # {}
             PROVE  \E t \in T : \A i \in 1 .. Len(parts[t]) : parts[t][i] \notin T
  BY DEF Founded
<1> DEFINE some == {pair[1] : pair \in T}
<1>1. some \in (SUBSET Lefts) \ {{}}
  <2>1. \A pair \in T : pair[1] \in Lefts
    BY DEF Pairs
  <2> QED
    BY <2>1
<1>2. PICK l \in some : l.is = "list" => \A i \in DOMAIN l.of : l.of[i] \notin some
  <2> HIDE DEF some
  <2> QED
    BY <1>1, AssignmentsAssumption
<1>3. PICK t \in T : t[1] = l
  OBVIOUS
<1>4. parts[t] = PartsOf(t) /\ t \in Pairs
  OBVIOUS
<1> HIDE DEF parts
<1>5. CASE TakenApart(t)
  <2>1. /\ l.is = "list" /\ DOMAIN l.of = 1 .. Len(l.of) /\ Len(l.of) \in Nat
    BY <1>3, <1>4, <1>5, PartsTyped
  <2>2. PartsOf(t) = [i \in 1 .. Len(l.of) |-> Part(t, i)]
    BY <1>3, <1>5 DEF PartsOf
  <2>3. Len(PartsOf(t)) = Len(l.of) /\ \A i \in 1 .. Len(l.of) : PartsOf(t)[i] = Part(t, i)
    BY <2>1, <2>2
  <2>4. ASSUME NEW i \in 1 .. Len(l.of)
        PROVE  Part(t, i) \notin T
    <3>1. Part(t, i)[1] = l.of[i]
      BY <1>3 DEF Part
    <3>2. l.of[i] \notin some
      BY <1>2, <2>1
    <3> QED
      BY <3>1, <3>2
  <2> QED
    BY <1>4, <2>3, <2>4
<1>6. CASE ~TakenApart(t)
  <2>1. Len(PartsOf(t)) = 0
    BY <1>6 DEF PartsOf
  <2> QED
    BY <1>4, <2>1
<1> QED
  BY <1>5, <1>6

\* The leaves of all parts of a pair that is taken apart, in their order.
PartLeaves(f, pair) == [i \in 1 .. Len(pair[1].of) |-> f[Part(pair, i)]]
LeavesEquation(f, pair) ==
  f[pair] = IF TakenApart(pair) THEN FlattenSeq(PartLeaves(f, pair)) ELSE Leaf(pair)

LEMMA PartLeavesTyped ==
  ASSUME NEW f, NEW pair \in Pairs, TakenApart(pair),
         \A i \in 1 .. Len(pair[1].of) : f[Part(pair, i)] \in Seq(Pairs)
  PROVE  PartLeaves(f, pair) \in Seq(Seq(Pairs)) /\ Len(PartLeaves(f, pair)) = Len(pair[1].of)
<1> DEFINE V == Seq(Pairs)
           of(i) == f[Part(pair, i)]
<1>1. PICK n : n = Len(pair[1].of)
  OBVIOUS
<1>2. n \in Nat /\ \A i \in 1 .. n : of(i) \in V
  BY <1>1, PartsTyped
<1>3. PartLeaves(f, pair) = [i \in 1 .. n |-> of(i)]
  BY <1>1 DEF PartLeaves
<1> HIDE DEF V, of
<1>4. PartLeaves(f, pair) \in Seq(V) /\ Len(PartLeaves(f, pair)) = n
  BY <1>2, <1>3
<1> QED
  BY <1>1, <1>4 DEF V

LEMMA LeafTyped ==
  ASSUME NEW pair \in Pairs
  PROVE  Leaf(pair) \in Seq(Pairs)
<1>1. <<pair[1], Missing>> \in Pairs
  BY DEF Pairs
<1> QED
  BY <1>1 DEF Leaf

\* Leaves exist, so they are what their equation says (LeavesUnfold).
LEMMA LeavesExist ==
  \E g \in [Pairs -> Seq(Pairs)] : \A pair \in Pairs : LeavesEquation(g, pair)
<1> DEFINE V == Seq(Pairs)
           parts == [pair \in Pairs |-> PartsOf(pair)]
           make == [pair \in Pairs |-> [s \in Seq(V) |-> LeavesOf(pair, s)]]
<1>1. parts \in [Pairs -> Seq(Pairs)] /\ Founded(Pairs, parts)
  BY PartsInPairs, PairsEnd
<1>2. make \in [Pairs -> [Seq(V) -> V]]
  <2>1. ASSUME NEW pair \in Pairs, NEW s \in Seq(V)
        PROVE  LeavesOf(pair, s) \in V
    BY LeafTyped, FlattenIsSeq DEF LeavesOf
  <2> HIDE DEF V
  <2> QED
    BY <2>1
<1>3. PICK g \in [Pairs -> V] : MadeOfParts(g, Pairs, parts, make)
  <2> HIDE DEF V, parts, make
  <2> QED
    BY <1>1, <1>2, RecursionOverParts
<1>4. ASSUME NEW pair \in Pairs
      PROVE  LeavesEquation(g, pair)
  <2> DEFINE values == [i \in 1 .. Len(parts[pair]) |-> g[parts[pair][i]]]
  <2>1. g[pair] = make[pair][values]
    <3> HIDE DEF make, parts
    <3> QED
      BY <1>3 DEF MadeOfParts
  <2>2. parts[pair] = PartsOf(pair)
    OBVIOUS
  <2> HIDE DEF parts
  <2>3. values \in Seq(V)
    <3>1. Len(parts[pair]) \in Nat /\ \A i \in 1 .. Len(parts[pair]) : parts[pair][i] \in Pairs
      BY <1>1
    <3>2. \A i \in 1 .. Len(parts[pair]) : g[parts[pair][i]] \in V
      BY <3>1
    <3>3. PICK n \in Nat : n = Len(parts[pair])
      BY <3>1
    <3> HIDE DEF V
    <3> QED
      BY <3>2, <3>3
  <2>4. make[pair][values] = LeavesOf(pair, values)
    <3> HIDE DEF values, V
    <3> QED
      BY <2>3
  <2>5. CASE TakenApart(pair)
    <3>1. PICK n \in Nat : n = Len(pair[1].of)
      BY <2>5, PartsTyped
    <3>2. parts[pair] = [i \in 1 .. n |-> Part(pair, i)]
      BY <2>2, <2>5, <3>1 DEF PartsOf
    <3>3. Len(parts[pair]) = n /\ \A i \in 1 .. n : parts[pair][i] = Part(pair, i)
      BY <3>2
    <3>4. values = [i \in 1 .. n |-> g[Part(pair, i)]]
      BY <3>3
    <3>5. values = PartLeaves(g, pair)
      BY <3>1, <3>4 DEF PartLeaves
    <3> HIDE DEF values
    <3> QED
      BY <2>1, <2>4, <2>5, <3>5 DEF LeavesOf, LeavesEquation
  <2>6. CASE ~TakenApart(pair)
    BY <2>1, <2>4, <2>6 DEF LeavesOf, LeavesEquation
  <2> QED
    BY <2>5, <2>6
<1> QED
  BY <1>3, <1>4

LEMMA LeavesUnfold == \A pair \in Pairs : LeavesEquation(Leaves, pair)
<1> DEFINE Body(f, pair) ==
             IF TakenApart(pair)
             THEN FlattenSeq([i \in 1 .. Len(pair[1].of) |-> f[Part(pair, i)]])
             ELSE IF pair[1].is = "name" THEN <<pair>> ELSE <<<<pair[1], Missing>>>>
           Equation(f) == f = [pair \in Pairs |-> Body(f, pair)]
           leaves == CHOOSE f : Equation(f)
<1>1. PICK g \in [Pairs -> Seq(Pairs)] : \A pair \in Pairs : LeavesEquation(g, pair)
  BY LeavesExist
<1>2. \A f, pair : LeavesEquation(f, pair) <=> f[pair] = Body(f, pair)
  BY DEF LeavesEquation, PartLeaves, Leaf
<1>3. Leaves = leaves
  BY DEF Leaves
<1> HIDE DEF Body
<1>4. Equation(g)
  BY <1>1, <1>2
<1>5. Equation(leaves)
  BY <1>4
<1> HIDE DEF leaves
<1> QED
  BY <1>2, <1>3, <1>5

LEMMA LeavesTyped ==
  ASSUME NEW pair \in Pairs
  PROVE  Leaves[pair] \in Seq(Pairs)
<1> DEFINE parts == [t \in Pairs |-> PartsOf(t)]
           Bad == {t \in Pairs : Leaves[t] \notin Seq(Pairs)}
<1> SUFFICES ASSUME Bad # {} PROVE FALSE
  OBVIOUS
<1>1. PICK t \in Bad : \A i \in 1 .. Len(parts[t]) : parts[t][i] \notin Bad
  <2>1. Bad \in SUBSET Pairs
    OBVIOUS
  <2> HIDE DEF Bad, parts
  <2>2. Founded(Pairs, parts)
    BY PairsEnd DEF parts
  <2> QED
    BY <2>1, <2>2 DEF Founded
<1>2. t \in Pairs /\ parts[t] = PartsOf(t) /\ Leaves[t] \notin Seq(Pairs)
  OBVIOUS
<1> HIDE DEF parts
<1>3. LeavesEquation(Leaves, t)
  BY <1>2, LeavesUnfold
<1>4. CASE TakenApart(t)
  <2>1. PICK n \in Nat : n = Len(t[1].of)
    BY <1>2, <1>4, PartsTyped
  <2>2. PartsOf(t) = [i \in 1 .. n |-> Part(t, i)]
    BY <1>4, <2>1 DEF PartsOf
  <2>3. Len(parts[t]) = n /\ \A i \in 1 .. n : parts[t][i] = Part(t, i)
    BY <1>2, <2>2
  <2>4. \A i \in 1 .. n : Part(t, i) \in Pairs
    BY <1>2, <1>4, <2>1, PartsTyped
  <2>5. \A i \in 1 .. n : Leaves[Part(t, i)] \in Seq(Pairs)
    BY <1>1, <2>3, <2>4
  <2>6. PartLeaves(Leaves, t) \in Seq(Seq(Pairs))
    BY <1>2, <1>4, <2>1, <2>5, PartLeavesTyped
  <2> QED
    BY <1>2, <1>3, <1>4, <2>6, FlattenIsSeq DEF LeavesEquation
<1>5. CASE ~TakenApart(t)
  BY <1>2, <1>3, <1>5, LeafTyped DEF LeavesEquation
<1> QED
  BY <1>4, <1>5

-----------------------------------------------------------------------------
(* What remains of an assignment. *)

LeavesOfAll(todo) == [i \in 1 .. Len(todo) |-> Leaves[todo[i]]]
Remaining(todo) == FlattenSeq(LeavesOfAll(todo))

LEMMA AllTyped ==
  ASSUME NEW todo \in Pieces
  PROVE  /\ LeavesOfAll(todo) \in Seq(Seq(Pairs)) /\ Len(LeavesOfAll(todo)) = Len(todo)
         /\ \A i \in 1 .. Len(todo) : LeavesOfAll(todo)[i] = Leaves[todo[i]]
<1> DEFINE V == Seq(Pairs)
           of(i) == Leaves[todo[i]]
<1>1. PICK n \in Nat : n = Len(todo)
  BY DEF Pieces
<1>2. \A i \in 1 .. n : of(i) \in V
  <2>1. \A i \in 1 .. n : todo[i] \in Pairs
    BY <1>1 DEF Pieces, Pairs
  <2> QED
    BY <2>1, LeavesTyped
<1>3. LeavesOfAll(todo) = [i \in 1 .. n |-> of(i)]
  BY <1>1 DEF LeavesOfAll
<1> HIDE DEF V, of
<1>4. /\ LeavesOfAll(todo) \in Seq(V) /\ Len(LeavesOfAll(todo)) = n
      /\ \A i \in 1 .. n : LeavesOfAll(todo)[i] = of(i)
  BY <1>2, <1>3
<1> QED
  BY <1>1, <1>4 DEF V, of

LEMMA RestTyped ==
  ASSUME NEW todo \in Pieces
  PROVE  Remaining(todo) \in Seq(Pairs)
BY AllTyped, FlattenIsSeq DEF Remaining

LEMMA RestEmpty == Remaining(<<>>) = <<>>
<1>1. LeavesOfAll(<<>>) = <<>>
  BY DEF LeavesOfAll
<1> QED
  BY <1>1, FlattenEmpty DEF Remaining

LEMMA RestOne ==
  ASSUME NEW pair \in Pairs
  PROVE  Remaining(<<pair>>) = Leaves[pair]
<1>1. PICK v : v = Leaves[pair]
  OBVIOUS
<1>2. v \in Seq(Pairs)
  BY <1>1, LeavesTyped
<1>3. LeavesOfAll(<<pair>>) = <<v>>
  <2>1. PICK todo : todo = <<pair>>
    OBVIOUS
  <2>2. Len(todo) = 1 /\ todo[1] = pair
    BY <2>1
  <2>3. \A i \in 1 .. 1 : Leaves[todo[i]] = v
    BY <1>1, <2>2
  <2>4. LeavesOfAll(todo) = [i \in 1 .. 1 |-> v]
    BY <2>2, <2>3 DEF LeavesOfAll
  <2> QED
    BY <2>1, <2>4
<1> QED
  BY <1>1, <1>2, <1>3, FlattenOne DEF Remaining

LEMMA JoinedAt ==
  ASSUME NEW V, NEW x \in Seq(V), NEW y \in Seq(V), NEW w, w = x \o y,
         NEW n, n = Len(x), NEW m, m = Len(y)
  PROVE  /\ w \in Seq(V) /\ Len(w) = n + m
         /\ \A i \in 1 .. n : w[i] = x[i]
         /\ \A i \in 1 .. m : w[n + i] = y[i]
<1>1. w \in Seq(V) /\ Len(w) = n + m
  OBVIOUS
<1>2. \A i \in 1 .. n : w[i] = x[i]
  OBVIOUS
<1>3. \A i \in 1 .. m : w[n + i] = y[i]
  OBVIOUS
<1> QED
  BY <1>1, <1>2, <1>3

\* What remains of todo is what remains of its parts, one behind the other.
LEMMA RestJoins ==
  ASSUME NEW a \in Pieces, NEW b \in Pieces
  PROVE  Remaining(a \o b) = Remaining(a) \o Remaining(b)
<1>1. PICK c : c = a \o b
  OBVIOUS
<1>2. PICK n, m : n = Len(a) /\ m = Len(b)
  OBVIOUS
<1>3. /\ n \in Nat /\ m \in Nat /\ c \in Pieces /\ Len(c) = n + m
      /\ \A i \in 1 .. n : c[i] = a[i]
      /\ \A i \in 1 .. m : c[n + i] = b[i]
  BY <1>1, <1>2 DEF Pieces
<1>4. PICK x, y, z : x = LeavesOfAll(a) /\ y = LeavesOfAll(b) /\ z = LeavesOfAll(c)
  OBVIOUS
<1>0. PICK V : V = Seq(Pairs)
  OBVIOUS
<1>5. /\ x \in Seq(V) /\ Len(x) = n /\ \A i \in 1 .. n : x[i] = Leaves[a[i]]
      /\ y \in Seq(V) /\ Len(y) = m /\ \A i \in 1 .. m : y[i] = Leaves[b[i]]
      /\ z \in Seq(V) /\ Len(z) = n + m /\ \A i \in 1 .. n + m : z[i] = Leaves[c[i]]
  BY <1>0, <1>2, <1>3, <1>4, AllTyped
<1>6. z = x \o y
  <2>0. /\ \A i \in 1 .. n : i \in 1 .. n + m
        /\ \A i \in 1 .. m : n + i \in 1 .. n + m
    BY <1>3
  <2>1. ASSUME NEW i \in 1 .. n
        PROVE  z[i] = x[i]
    <3>1. z[i] = Leaves[c[i]] /\ c[i] = a[i] /\ x[i] = Leaves[a[i]]
      BY <1>3, <1>5, <2>0, Zenon
    <3> QED
      BY <3>1, Zenon
  <2>2. ASSUME NEW i \in 1 .. m
        PROVE  z[n + i] = y[i]
    <3>1. z[n + i] = Leaves[c[n + i]]
      BY <1>5, <2>0, Zenon
    <3>2. c[n + i] = b[i] /\ y[i] = Leaves[b[i]]
      BY <1>3, <1>5, Zenon
    <3> QED
      BY <3>1, <3>2, Zenon
  <2>3. PICK w : w = x \o y
    OBVIOUS
  <2>4. /\ w \in Seq(V) /\ Len(w) = n + m
        /\ \A i \in 1 .. n : w[i] = x[i]
        /\ \A i \in 1 .. m : w[n + i] = y[i]
    <3>1. x \in Seq(V) /\ y \in Seq(V) /\ n = Len(x) /\ m = Len(y)
      BY <1>5, Zenon
    <3> QED
      BY <2>3, <3>1, JoinedAt
  <2>5. ASSUME NEW i \in 1 .. n + m
        PROVE  z[i] = w[i]
    <3>1. CASE i <= n
      BY <1>3, <2>1, <2>4, <3>1
    <3>2. CASE ~(i <= n)
      <4>1. PICK j \in 1 .. m : i = n + j
        <5>1. i - n \in 1 .. m /\ i = n + (i - n)
          BY <1>3, <3>2
        <5> QED
          BY <5>1
      <4> QED
        BY <2>2, <2>4, <4>1
    <3> QED
      BY <3>1, <3>2
  <2> QED
    BY <1>5, <2>3, <2>4, <2>5, SameSequence
<1>7. FlattenSeq(x \o y) = FlattenSeq(x) \o FlattenSeq(y)
  BY <1>0, <1>5, FlattenJoins
<1> QED
  BY <1>1, <1>4, <1>6, <1>7 DEF Remaining

LEMMA RestOfFirst ==
  ASSUME NEW todo \in Pieces, todo # <<>>
  PROVE  /\ Head(todo) \in Pairs /\ Tail(todo) \in Pieces
         /\ Remaining(todo) = Leaves[Head(todo)] \o Remaining(Tail(todo))
<1>1. /\ Head(todo) \in Pairs /\ Tail(todo) \in Pieces /\ <<Head(todo)>> \in Pieces
      /\ todo = <<Head(todo)>> \o Tail(todo)
  BY DEF Pieces, Pairs
<1> QED
  BY <1>1, RestJoins, RestOne

\* The leaves of a pair are those of its parts.
LEMMA RestOfParts ==
  ASSUME NEW pair \in Pairs, TakenApart(pair), NEW parts \in Pieces,
         Len(parts) = Len(pair[1].of), \A i \in 1 .. Len(parts) : parts[i] = Part(pair, i)
  PROVE  Remaining(parts) = Leaves[pair]
<1>1. LeavesOfAll(parts) = PartLeaves(Leaves, pair)
  BY DEF LeavesOfAll, PartLeaves
<1>2. LeavesEquation(Leaves, pair)
  BY LeavesUnfold
<1> QED
  BY <1>1, <1>2 DEF Remaining, LeavesEquation

-----------------------------------------------------------------------------
(* Assigning to the scope of the context. *)

\* Set writes one variable of one frame.
LEMMA SetCell ==
  ASSUME SInv, NEW r \in Refs, NEW v \in Values, MaySet(Current, r), Set(Current, r, v)
  PROVE  /\ UNCHANGED <<frames, parent, mutable>> /\ SetIdx(Current, r) \in 1 .. Depth(Current)
         /\ Frame(Current, SetIdx(Current, r))'[r.name] = v
         /\ \A i \in 1 .. Depth(Current) : \A k \in Keys :
              i # SetIdx(Current, r) \/ k # r.name => Frame(Current, i)'[k] = Frame(Current, i)[k]
<1> DEFINE n == r.name
<1>0. PICK x : x = SetIdx(Current, r)
  OBVIOUS
<1>1. Depth(Current) \in Nat /\ x \in 1 .. Depth(Current)
  BY <1>0, Deep DEF SetIdx
<1>2. n \in Keys
  BY DEF Refs, Keys
<1>3. /\ \A i \in 1 .. Depth(Current) : frames[Current][i] = <<Current, i>> /\ <<Current, i>> \in MapIds
      /\ maps \in [MapIds -> [Keys -> Cells]]
  <2>1. IInv /\ Current \in ScopeIds
    BY CurrentAssumption DEF SInv
  <2> QED
    BY <2>1, FramesAreMaps DEF IInv, TypeOK
<1>4. frames' = frames /\ UNCHANGED <<parent, mutable>>
  BY DEF Set
<1>5. maps' = [maps EXCEPT ![<<Current, x>>][n] = v]
  BY <1>0, <1>1, <1>3 DEF Set
<1> HIDE DEF n
<1>6. ASSUME NEW i \in 1 .. Depth(Current), NEW k \in Keys, i # x \/ k # n
      PROVE  Frame(Current, i)'[k] = Frame(Current, i)[k]
  <2>1. <<Current, i>> \in MapIds /\ <<Current, x>> \in MapIds
    BY <1>1, <1>3
  <2>2. <<Current, i>> = <<Current, x>> <=> i = x
    OBVIOUS
  <2>3. maps'[<<Current, i>>][k] = maps[<<Current, i>>][k]
    BY <1>2, <1>3, <1>5, <1>6, <2>1, <2>2
  <2> QED
    BY <1>3, <1>4, <2>3 DEF Frame
<1>7. Frame(Current, x)'[n] = v
  <2>1. <<Current, x>> \in MapIds /\ frames'[Current][x] = <<Current, x>>
    BY <1>1, <1>3, <1>4
  <2>2. maps'[<<Current, x>>][n] = v
    BY <1>2, <1>3, <1>5, <2>1
  <2> QED
    BY <2>1, <2>2 DEF Frame
<1>8. SetIdx(Current, r)' = x
  BY <1>0, <1>4 DEF SetIdx, Depth
<1>9. Frame(Current, SetIdx(Current, r))'[r.name] = v
  BY <1>7, <1>8 DEF n, Frame
<1> QED
  BY <1>0, <1>1, <1>4, <1>6, <1>9 DEF n

\* What Set returns, in terms of the cell that it writes to.
CanSet(r) ==
  IF SetIdx(Current, r) = 1 /\ ParentShows(r.name, "Global") THEN r.name = Pnr
  ELSE Frame(Current, SetIdx(Current, r))[r.name] = Absent

LEMMA MaySetIs ==
  ASSUME ~mutable[Current], NEW r
  PROVE  MaySet(Current, r) <=> CanSet(r)
BY OverridesShown DEF MaySet, CanSet

\* A variable that an assignment has bound is still so, but for $pnr.
CanRead(pair) ==
  /\ pair[1].is = "name" /\ pair[1].ref \in Refs
  /\ \/ /\ pair[2] # Absent
        /\ Frame(Current, SetIdx(Current, pair[1].ref))[pair[1].ref.name] = pair[2]
     \/ pair[1].ref.name = Pnr /\ ParentShows(Pnr, "Global")

LEMMA SameAssignable ==
  ASSUME UNCHANGED scopeVars
  PROVE  /\ \A r : CanSet(r)' <=> CanSet(r)
         /\ \A pair : CanRead(pair)' <=> CanRead(pair)
<1>1. \A n : \A what : ParentShows(n, what)' <=> ParentShows(n, what)
  BY SameInherited
<1>2. UNCHANGED <<maps, frames>>
  BY DEF scopeVars, vars
<1>3. \A r : CanSet(r)' <=> CanSet(r)
  BY <1>1, <1>2 DEF CanSet, Frame, SetIdx, Depth
<1>4. \A pair : CanRead(pair)' <=> CanRead(pair)
  BY <1>1, <1>2 DEF CanRead, Frame, SetIdx, Depth
<1> QED
  BY <1>3, <1>4

\* What has been set can be read, and so can what could be read before.
LEMMA ReadsWhatIsSet ==
  ASSUME SInv, SInv', Outlook, ~mutable[Current],
         NEW r \in Refs, NEW v \in Values, MaySet(Current, r), Set(Current, r, v)
  PROVE  /\ \A pair : pair[1].is = "name" /\ pair[1].ref = r /\ pair[2] = v => CanRead(pair)'
         /\ \A pair : CanRead(pair) => CanRead(pair)'
<1>1. \A q \in Refs : q.name = Pnr => (ParentShows(Pnr, "Global")' <=> ParentShows(Pnr, "Global"))
  BY InheritedKept DEF ScopeAction, InheritsSame, Refs
<1>2. UNCHANGED frames /\ \A q : SetIdx(Current, q)' = SetIdx(Current, q)
  BY SetCell DEF SetIdx, Depth
<1>3. v # Absent
  BY AbsentAssumption
<1>4. ASSUME NEW pair, pair[1].is = "name" /\ pair[1].ref = r /\ pair[2] = v
      PROVE  CanRead(pair)'
  BY <1>2, <1>3, <1>4, SetCell DEF CanRead
<1>5. ASSUME NEW pair, CanRead(pair)
      PROVE  CanRead(pair)'
  <2> DEFINE q == pair[1].ref
  <2>1. CASE q.name = Pnr /\ ParentShows(Pnr, "Global")
    BY <1>1, <1>5, <2>1 DEF CanRead
  <2>2. CASE ~(q.name = Pnr /\ ParentShows(Pnr, "Global"))
    <3>1. /\ q \in Refs /\ pair[1].is = "name" /\ pair[2] # Absent
          /\ Frame(Current, SetIdx(Current, q))[q.name] = pair[2]
      BY <1>5, <2>2 DEF CanRead
    <3>2. SetIdx(Current, q) \in 1 .. Depth(Current) /\ q.name \in Keys
      BY <3>1, Deep DEF SetIdx, Refs, Keys
    <3>3. SetIdx(Current, q) # SetIdx(Current, r) \/ q.name # r.name
      BY <2>2, <3>1, MaySetIs DEF CanSet
    <3>4. Frame(Current, SetIdx(Current, q))'[q.name] = Frame(Current, SetIdx(Current, q))[q.name]
      <4>1. PICK x : x = SetIdx(Current, q)
        OBVIOUS
      <4>2. Frame(Current, x)'[q.name] = Frame(Current, x)[q.name]
        BY <3>2, <3>3, <4>1, SetCell
      <4>3. x = SetIdx(Current, q)'
        BY <1>2, <4>1
      <4> QED
        BY <4>1, <4>2, <4>3
    <3> QED
      BY <1>2, <3>1, <3>4 DEF CanRead
  <2> QED
    BY <2>1, <2>2
<1> QED
  BY <1>4, <1>5

\* What is bound can be read.
LEMMA GetsWhatIsRead ==
  ASSUME SInv, Outlook, NEW pair, CanRead(pair)
  PROVE  \/ Get2(Current, pair[1].ref) = pair[2]
         \/ pair[1].ref.name = Pnr /\ ParentShows(Pnr, "Global")
<1> DEFINE r == pair[1].ref
<1>1. r \in Refs /\ r.name \in Names
  BY DEF CanRead, Refs
<1>2. CASE r.name = Pnr /\ ParentShows(Pnr, "Global")
  BY <1>2
<1>3. CASE ~(r.name = Pnr /\ ParentShows(Pnr, "Global"))
  <2>1. pair[2] # Absent /\ Frame(Current, SetIdx(Current, r))[r.name] = pair[2]
    BY <1>3 DEF CanRead
  <2>2. PICK d : d = Depth(Current)
    OBVIOUS
  <2>3. d \in Nat \ {0} /\ (~r.global => SetIdx(Current, r) = d) /\ (r.global => SetIdx(Current, r) = 1)
    BY <2>2, Deep DEF SetIdx
  <2>4. OwnAt(d, r) = pair[2]
    <3>1. CASE r.global
      BY <2>1, <2>3, <3>1 DEF OwnAt
    <3>2. CASE ~r.global
      <4> DEFINE B == BoundIn(d, r.name)
      <4>1. d \in B /\ B \subseteq 1 .. d
        BY <2>1, <2>3, <3>2 DEF BoundIn
      <4>2. Max(B) = d
        <5>1. d \in B /\ \A x \in B : x <= d
          BY <2>3, <4>1
        <5>2. \A y \in B : (\A x \in B : x <= y) => y = d
          BY <2>3, <4>1
        <5> HIDE DEF B
        <5> QED
          BY <5>1, <5>2 DEF Max
      <4> QED
        BY <2>1, <2>3, <3>2, <4>1, <4>2 DEF OwnAt
    <3> QED
      BY <3>1, <3>2
  <2>5. Get2(Current, r) = SeenAt(d, r)
    BY <1>1, <2>2, SeenOnTop
  <2> QED
    BY <2>1, <2>4, <2>5 DEF SeenAt
<1> QED
  BY <1>2, <1>3

-----------------------------------------------------------------------------
(* Assignments bind in order. *)

Owed(a) == Leaves[<<a.left, a.right>>]

\* What an assignment has bound, and what remains, are its leaves in their order.
InOrder(a) ==
  a.is = "assign" =>
    /\ a.bound \in Pieces
    /\ a.phase = "rhs" => a.bound = <<>>
    /\ a.phase = "assign" => Owed(a) = a.bound \o Remaining(a.todo)

\* The first leaf that remains has no part of the right side or cannot be set.
Stuck(todo) ==
  /\ todo # <<>>
  /\ \E p \in Pairs : /\ Leaves[Head(todo)] = <<p>>
                      /\ p[2] # Missing => p[1].is = "name" /\ ~CanSet(p[1].ref)

\* What it has bound can be read, and where it has failed it is stuck.
KeepsBound(a) ==
  a.is = "assign" /\ a.phase = "assign" =>
    /\ \A i \in 1 .. Len(a.bound) : CanRead(a.bound[i])
    /\ raised = "error" => Stuck(a.todo)

EndedInOrder == ended.is = "value" /\ ended.of.is = "assign" => ended.of.bound = Owed(ended.of)

\* The inductive invariant of assignments.
AInv ==
  /\ \A i \in 1 .. Len(stack) : InOrder(stack[i])
  /\ stack # <<>> => KeepsBound(Active)
  /\ EndedInOrder

LEMMA NothingEnded == ended' = Nothing => EndedInOrder'
BY DEF EndedInOrder, Nothing

LEMMA ToppedAInv ==
  ASSUME AInv, NEW a, Topped(a), InOrder(a), KeepsBound(a)', EndedInOrder'
  PROVE  AInv'
<1>1. ASSUME NEW i \in 1 .. Len(stack')
      PROVE  InOrder(stack'[i])
  BY DEF Topped, AInv
<1>2. KeepsBound(Active)'
  BY DEF Topped, KeepsBound
<1> QED
  BY <1>1, <1>2 DEF AInv, InOrder, Owed

LEMMA OtherTop ==
  ASSUME AInv, NEW a, Topped(a), a.is # "assign", ended' = Nothing
  PROVE  AInv'
<1>1. InOrder(a) /\ KeepsBound(a)'
  BY DEF InOrder, KeepsBound
<1> QED
  BY <1>1, ToppedAInv, NothingEnded

\* Below the top code runs.
LEMMA PoppedAInv ==
  ASSUME SInv, SInv', AInv, stack # <<>>, stack' = Front(stack), EndedInOrder'
  PROVE  AInv'
<1>1. /\ Len(stack) \in Nat \ {0} /\ Len(stack') = Len(stack) - 1
      /\ \A i \in 1 .. Len(stack') : stack'[i] = stack[i]
  BY FrontOf
<1>2. \A i \in 1 .. Len(stack') : i \in 1 .. Len(stack) /\ InOrder(stack'[i])
  BY <1>1 DEF AInv
<1>3. ASSUME stack' # <<>>
      PROVE  KeepsBound(Active)'
  <2>1. PICK S : stack' \in Seq(S)
    BY DEF SInv, Built, IsSequence
  <2>2. Len(stack') \in 1 .. Len(stack') /\ Len(stack') \in 1 .. Len(stack)
        /\ Len(stack') < Len(stack)
    BY <1>1, <1>3, <2>1
  <2>3. stack[Len(stack')].phase \in CodePhases
    BY <2>2 DEF SInv, Built, Level
  <2>4. Active'.phase \in CodePhases
    BY <1>1, <2>2, <2>3 DEF Active
  <2> QED
    BY <2>4 DEF KeepsBound, CodePhases
<1> QED
  BY <1>2, <1>3 DEF AInv, InOrder, Owed

LEMMA SameAInv ==
  ASSUME AInv, UNCHANGED stack, ended' = Nothing,
         stack # <<>> => Active.is # "assign" \/ Active.phase \in CodePhases
  PROVE  AInv'
<1>1. stack' # <<>> => Active'.is # "assign" \/ Active'.phase \in CodePhases
  BY DEF Active
<1>2. stack' # <<>> => KeepsBound(Active)'
  BY <1>1 DEF KeepsBound, CodePhases
<1> QED
  BY <1>2, NothingEnded DEF AInv, InOrder, Owed

\* Others than assignments begin, go on, end or raise a panic in code or by themselves.
LEMMA OthersRun ==
  ASSUME SelectionNext \/ CallsNext, stack # <<>>
  PROVE  Active.is # "assign" \/ Active.phase \in CodePhases
<1>1. CASE SelectionNext
  BY <1>1 DEF SelectionNext, BeginIf, BeginCase, BeginSelector, BeginSelection, Begin, CodeRuns, In,
              IfTested, CaseTested, MeetDefault, MeetValue, AtAlternative, NoMatch, PlainMatch,
              SelectDefault, RegexpMatch, SelectionEnds
<1>2. CASE CallsNext
  BY <1>2 DEF CallsNext, BeginCall, Begin, CodeRuns, In, EnterDefaults, NoDefaults, DefaultNeeded,
              NoDefault, ValueDefault, VariableDefault, CodeDefault, LeaveDefaults, Check, Bind,
              EvaluateBody, CodeDefaultEvaluated, CallEnds
<1> QED
  BY <1>1, <1>2

LEMMA OthersAInv ==
  ASSUME SInv, SInv', AInv, NEW is, is # "assign", Moves(is),
         stack # <<>> => Active.is # "assign" \/ Active.phase \in CodePhases
  PROVE  AInv'
<1>1. CASE Begins(is)
  BY <1>1, BeginTops, OtherTop DEF Begins, Begin
<1>2. CASE Continues(is)
  BY <1>2, BecomesTops, OtherTop DEF Continues, Becomes
<1>3. CASE Ends(is)
  <2>1. EndedInOrder'
    BY <1>3 DEF Ends, End, EndedInOrder
  <2> QED
    BY <1>3, <2>1, PoppedAInv DEF Ends, End
<1>4. CASE \E what : what # "no" /\ Raise(what)
  BY <1>4, SameAInv DEF Raise
<1> QED
  BY <1>1, <1>2, <1>3, <1>4 DEF Moves

LEMMA UnwindAInv ==
  ASSUME SInv, SInv', AInv, Unwind
  PROVE  AInv'
<1>1. stack # <<>> /\ raised # "no" /\ Activity(Active)
  BY TheActive DEF Unwind
<1>2. CASE Active.frames > 0
  <2> DEFINE a == [Active EXCEPT !.frames = @ - 1]
  <2>1. Becomes(a)
    BY <1>1, <1>2 DEF Unwind
  <2>2. a.is = Active.is
    BY <1>1 DEF Activity, IsAssign, IsIf, IsCase, IsCall, HasFields
  <2>3. Active.is # "assign"
    BY <1>1, <1>2 DEF Activity, FramesIn
  <2> HIDE DEF a
  <2>4. PICK c : c = a
    OBVIOUS
  <2>5. Topped(c) /\ c.is # "assign" /\ ended' = Nothing
    BY <1>1, <2>1, <2>2, <2>3, <2>4, BecomesTops DEF Becomes
  <2> QED
    BY <2>5, OtherTop
<1>3. CASE ~(Active.frames > 0)
  <2>1. stack' = Front(stack) /\ EndedInOrder'
    BY <1>3 DEF Unwind, End, EndedInOrder, Catches
  <2> QED
    BY <1>1, <2>1, PoppedAInv
<1> QED
  BY <1>2, <1>3

\* An assignment that runs.
LEMMA TheAssignment ==
  ASSUME SInv, AInv, NEW phase, In("assign", phase)
  PROVE  /\ stack # <<>> /\ raised = "no" /\ IsAssign(Active) /\ InOrder(Active) /\ KeepsBound(Active)
         /\ Active.is = "assign" /\ Active.phase = phase
<1>1. stack # <<>> /\ raised = "no" /\ Active.is = "assign" /\ Active.phase = phase
  BY DEF In
<1>2. Len(stack) \in 1 .. Len(stack)
  BY <1>1, TheActive
<1> QED
  BY <1>1, <1>2, InAssign DEF AInv, Active

\* When it comes to a pair, this is what it still owes.
LEMMA TheNextPair ==
  ASSUME SInv, AInv, Assigning
  PROVE  \E pair \in Pairs, rest \in Pieces :
           /\ pair = Head(Active.todo) /\ rest = Tail(Active.todo)
           /\ pair[1] = Left /\ pair[2] = Right /\ pair = <<Left, Right>>
           /\ Active.bound \in Pieces /\ Remaining(rest) \in Pieces /\ Leaves[pair] \in Pieces
           /\ Owed(Active) = Active.bound \o (Leaves[pair] \o Remaining(rest))
<1>1. In("assign", "assign") /\ Active.todo # <<>>
  BY DEF Assigning
<1>2. IsAssign(Active) /\ InOrder(Active) /\ Active.is = "assign" /\ Active.phase = "assign"
  BY <1>1, TheAssignment
<1>3. /\ Active.todo \in Pieces /\ Active.bound \in Pieces
      /\ Owed(Active) = Active.bound \o Remaining(Active.todo)
  BY <1>2 DEF IsAssign, InOrder
<1>4. /\ Head(Active.todo) \in Pairs /\ Tail(Active.todo) \in Pieces
      /\ Remaining(Active.todo) = Leaves[Head(Active.todo)] \o Remaining(Tail(Active.todo))
  BY <1>1, <1>3, RestOfFirst
<1>5. Remaining(Tail(Active.todo)) \in Pieces /\ Leaves[Head(Active.todo)] \in Pieces
  BY <1>4, RestTyped, LeavesTyped DEF Pieces, Pairs
<1>6. PICK pair \in Pairs : pair = Head(Active.todo)
  BY <1>4
<1>7. pair = <<pair[1], pair[2]>>
  BY DEF Pairs
<1>8. pair[1] = Left /\ pair[2] = Right /\ pair = <<Left, Right>>
  BY <1>6, <1>7 DEF Left, Right
<1> QED
  BY <1>3, <1>4, <1>5, <1>6, <1>8

LEMMA AssignGoesOn ==
  ASSUME SInv, AInv, In("assign", "assign"), NEW todo, NEW bound,
         Goes([Active EXCEPT !.todo = todo, !.bound = bound]),
         bound \in Pieces, Owed(Active) = bound \o Remaining(todo),
         \A i \in 1 .. Len(bound) : CanRead(bound[i])'
  PROVE  AInv'
<1>1. PICK a : a = [Active EXCEPT !.todo = todo, !.bound = bound]
  OBVIOUS
<1>2. stack # <<>> /\ raised = "no" /\ IsAssign(Active) /\ Active.phase = "assign"
  BY TheAssignment
<1>3. /\ a.is = "assign" /\ a.phase = "assign" /\ a.todo = todo /\ a.bound = bound
      /\ a.left = Active.left /\ a.right = Active.right
  BY <1>1, <1>2 DEF IsAssign, HasFields
<1>4. Becomes(a) /\ raised' = raised /\ ended' = Nothing
  BY <1>1 DEF Goes, Becomes
<1>5. Topped(a)
  BY <1>2, <1>4, BecomesTops
<1>6. InOrder(a)
  BY <1>3 DEF InOrder, Owed
<1>7. KeepsBound(a)'
  BY <1>2, <1>3, <1>4 DEF KeepsBound
<1> QED
  BY <1>4, <1>5, <1>6, <1>7, ToppedAInv, NothingEnded

\* The pair that it has come to is taken apart.
LEMMA AssignTakesApart ==
  ASSUME SInv, AInv, Assigning, NEW rights, TakenApart(<<Left, Right>>),
         Len(rights) = Len(Left.of),
         \A i \in 1 .. Len(Left.of) : Part(<<Left, Right>>, i) = <<Left.of[i], rights[i]>>,
         Goes([Active EXCEPT !.todo = Zip(Left.of, rights) \o Tail(@)]), UNCHANGED scopeVars
  PROVE  AInv'
<1>1. PICK pair \in Pairs, rest \in Pieces :
        /\ pair = Head(Active.todo) /\ rest = Tail(Active.todo)
        /\ pair[1] = Left /\ pair[2] = Right /\ pair = <<Left, Right>>
        /\ Active.bound \in Pieces /\ Remaining(rest) \in Pieces /\ Leaves[pair] \in Pieces
        /\ Owed(Active) = Active.bound \o (Leaves[pair] \o Remaining(rest))
  BY TheNextPair
<1>2. pair = <<Left, Right>>
  BY <1>1
<1>3. PICK parts : parts = Zip(Left.of, rights)
  OBVIOUS
<1>4. PICK n \in Nat : n = Len(Left.of)
  BY <1>1, <1>2, PartsTyped
<1>5. parts = [i \in 1 .. n |-> <<Left.of[i], rights[i]>>]
  BY <1>3, <1>4 DEF Zip
<1>6. \A i \in 1 .. n : parts[i] = Part(pair, i) /\ Part(pair, i) \in Pairs
  BY <1>1, <1>2, <1>4, <1>5, PartsTyped
<1>7. parts \in Pieces /\ Len(parts) = n
  <2> DEFINE of(i) == <<Left.of[i], rights[i]>>
  <2>1. \A i \in 1 .. n : of(i) \in Pairs
    BY <1>5, <1>6
  <2>2. parts = [i \in 1 .. n |-> of(i)]
    BY <1>5
  <2> HIDE DEF of
  <2>3. parts \in Seq(Pairs) /\ Len(parts) = n
    BY <2>1, <2>2
  <2> QED
    BY <2>3 DEF Pieces, Pairs
<1>8. Remaining(parts) = Leaves[pair]
  BY <1>1, <1>2, <1>4, <1>6, <1>7, RestOfParts
<1>9. Remaining(parts \o rest) = Leaves[pair] \o Remaining(rest)
  BY <1>1, <1>7, <1>8, RestJoins
<1>10. In("assign", "assign") /\ IsAssign(Active) /\ KeepsBound(Active) /\ Active.phase = "assign"
  BY TheAssignment DEF Assigning
<1>11. \A i \in 1 .. Len(Active.bound) : CanRead(Active.bound[i])
  BY <1>10 DEF KeepsBound, IsAssign
<1>12. PICK bound : bound = Active.bound
  OBVIOUS
<1>13. PICK todo : todo = parts \o rest
  OBVIOUS
<1>14. Goes([Active EXCEPT !.todo = todo, !.bound = bound])
  <2>1. [Active EXCEPT !.todo = Zip(Left.of, rights) \o Tail(@)]
        = [Active EXCEPT !.todo = todo, !.bound = bound]
    BY <1>1, <1>3, <1>10, <1>12, <1>13 DEF IsAssign, HasFields
  <2> QED
    BY <2>1
<1>15. \A i \in 1 .. Len(bound) : CanRead(bound[i])'
  BY <1>11, <1>12, SameAssignable
<1> QED
  BY <1>1, <1>9, <1>10, <1>12, <1>13, <1>14, <1>15, AssignGoesOn

\* An assignment stops at the pair that it has come to.
LEMMA AssignStops ==
  ASSUME SInv, AInv, Assigning, Raise("error"), NEW p \in Pairs,
         Leaves[<<Left, Right>>] = <<p>>, p[2] # Missing => p[1].is = "name" /\ ~CanSet(p[1].ref)
  PROVE  AInv'
<1>1. /\ stack # <<>> /\ IsAssign(Active) /\ InOrder(Active) /\ KeepsBound(Active)
      /\ Active.is = "assign" /\ Active.phase = "assign" /\ Active.todo # <<>>
  BY TheAssignment DEF Assigning
<1>2. UNCHANGED <<scopeVars, stack>> /\ ended' = Nothing /\ Active' = Active
  BY DEF Raise, Active
<1>3. Head(Active.todo) = <<Left, Right>>
  BY TheNextPair
<1>4. PICK todo, bound : todo = Active.todo /\ bound = Active.bound
  OBVIOUS
<1>5. Active'.todo = todo /\ Active'.bound = bound
  BY <1>2, <1>4
<1>6. Stuck(todo)'
  <2>1. CanSet(p[1].ref)' <=> CanSet(p[1].ref)
    BY <1>2, SameAssignable
  <2>2. todo # <<>> /\ Leaves[Head(todo)] = <<p>>
    BY <1>1, <1>3, <1>4
  <2> QED
    BY <2>1, <2>2 DEF Stuck
<1>7. \A i \in 1 .. Len(bound) : CanRead(bound[i])'
  <2>1. \A i \in 1 .. Len(bound) : CanRead(bound[i])
    BY <1>1, <1>4 DEF KeepsBound
  <2> QED
    BY <1>2, <2>1, SameAssignable
<1>8. KeepsBound(Active)'
  BY <1>5, <1>6, <1>7 DEF KeepsBound
<1> QED
  BY <1>2, <1>8, NothingEnded DEF AInv, InOrder, Owed

\* What is not taken apart and has no name has no part of the right side.
LEMMA LeavesOfOne ==
  ASSUME NEW pair \in Pairs, ~TakenApart(pair)
  PROVE  Leaves[pair] = IF pair[1].is = "name" THEN <<pair>> ELSE <<<<pair[1], Missing>>>>
BY LeavesUnfold DEF LeavesEquation, Leaf

\* Each step of an assignment keeps the order.
LEMMA AssignmentAInv ==
  ASSUME SInv, SInv', PInv, VInv, AInv, AssignmentNext
  PROVE  AInv'
<1>1. ASSUME NEW assignment \in Assignments, BeginAssign(assignment)
      PROVE  AInv'
  <2>1. PICK a : a = [is |-> "assign", phase |-> "rhs", frames |-> 0, base |-> Depth(Current),
                      before |-> View(Current), left |-> assignment.left,
                      right |-> assignment.right, todo |-> <<>>, bound |-> <<>>]
    OBVIOUS
  <2>2. Begin(a) /\ ended' = Nothing
    BY <1>1, <2>1 DEF BeginAssign, Begin
  <2>3. a.phase = "rhs" /\ a.bound = <<>>
    BY <2>1
  <2>4. InOrder(a) /\ KeepsBound(a)' /\ Topped(a)
    BY <2>2, <2>3, BeginTops DEF InOrder, KeepsBound, Pieces
  <2> QED
    BY <2>2, <2>4, ToppedAInv, NothingEnded
<1>2. CASE RightEvaluated
  <2>1. In("assign", "rhs") /\ UNCHANGED scopeVars
    BY <1>2 DEF RightEvaluated
  <2>2. /\ stack # <<>> /\ raised = "no" /\ IsAssign(Active) /\ InOrder(Active)
        /\ Active.is = "assign" /\ Active.phase = "rhs"
    BY <2>1, TheAssignment
  <2>3. PICK pair \in Pairs : pair = <<Active.left, Active.right>>
    BY <2>2 DEF IsAssign, Pairs
  <2>4. PICK a : a = [Active EXCEPT !.phase = "assign", !.todo = <<pair>>]
    OBVIOUS
  <2>5. /\ a.is = "assign" /\ a.phase = "assign" /\ a.todo = <<pair>> /\ a.bound = <<>>
        /\ a.left = Active.left /\ a.right = Active.right
    BY <2>2, <2>4 DEF IsAssign, HasFields, InOrder
  <2>6. Becomes(a) /\ ended' = Nothing /\ raised' = raised
    BY <1>2, <2>3, <2>4 DEF RightEvaluated, Goes, Becomes
  <2>7. InOrder(a)
    <3>1. Owed(a) = Leaves[pair] /\ Leaves[pair] \in Seq(Pairs)
      BY <2>3, <2>5, LeavesTyped DEF Owed
    <3>2. Leaves[pair] = <<>> \o Leaves[pair]
      BY <3>1
    <3>3. Remaining(a.todo) = Leaves[pair]
      BY <2>5, RestOne
    <3> QED
      BY <2>5, <3>1, <3>2, <3>3 DEF InOrder, Pieces
  <2>8. KeepsBound(a)'
    BY <2>2, <2>5, <2>6 DEF KeepsBound
  <2>9. Topped(a)
    BY <2>2, <2>6, BecomesTops
  <2> QED
    BY <2>6, <2>7, <2>8, <2>9, ToppedAInv, NothingEnded
<1>3. ASSUME Assigning
      PROVE  \E pair \in Pairs, rest \in Pieces :
               /\ pair = Head(Active.todo) /\ rest = Tail(Active.todo)
               /\ pair[1] = Left /\ pair[2] = Right /\ pair = <<Left, Right>>
               /\ Active.bound \in Pieces /\ Remaining(rest) \in Pieces /\ Leaves[pair] \in Pieces
               /\ Owed(Active) = Active.bound \o (Leaves[pair] \o Remaining(rest))
  BY <1>3, TheNextPair
<1>4. CASE AssignName
  <2>1. Assigning /\ Left.is = "name" /\ Right # Missing
    BY <1>4 DEF AssignName
  <2>2. PICK pair \in Pairs, rest \in Pieces :
          /\ pair = Head(Active.todo) /\ rest = Tail(Active.todo)
          /\ pair[1] = Left /\ pair[2] = Right /\ pair = <<Left, Right>>
          /\ Active.bound \in Pieces /\ Remaining(rest) \in Pieces /\ Leaves[pair] \in Pieces
          /\ Owed(Active) = Active.bound \o (Leaves[pair] \o Remaining(rest))
    BY <1>3, <2>1
  <2>3. Leaves[pair] = <<pair>>
    BY <2>1, <2>2, LeavesOfOne DEF TakenApart
  <2>4. Left.ref \in Refs /\ Right \in Values
    <3>1. Left \in Lefts /\ Right \in Rights
      BY <2>1, <2>2 DEF Pairs
    <3> QED
      BY <2>1, <3>1, AssignmentsAssumption
  <2>5. Outlook /\ ~mutable[Current]
    BY DEF VInv, PInv
  <2>6. CASE MaySet(Current, Left.ref)
    <3>1. Set(Current, Left.ref, Right)
          /\ Goes([Active EXCEPT !.todo = Tail(@), !.bound = Append(@, Head(Active.todo))])
      BY <1>4, <2>6 DEF AssignName
    <3>2. PICK old, bound : old = Active.bound /\ bound = Append(old, pair)
      OBVIOUS
    <3>3. In("assign", "assign") /\ KeepsBound(Active) /\ Active.is = "assign" /\ Active.phase = "assign"
      BY <2>1, TheAssignment DEF Assigning
    <3>4. Goes([Active EXCEPT !.todo = rest, !.bound = bound])
      BY <2>2, <3>1, <3>2
    <3>5. /\ old \in Seq(Pairs) /\ bound \in Seq(Pairs) /\ bound = old \o <<pair>>
          /\ Len(old) \in Nat /\ Len(bound) = Len(old) + 1 /\ bound[Len(old) + 1] = pair
          /\ \A i \in 1 .. Len(old) : bound[i] = old[i]
      <4>1. old \in Seq(Pairs)
        BY <2>2, <3>2 DEF Pieces, Pairs
      <4> QED
        BY <3>2, <4>1
    <3>6. Owed(Active) = bound \o Remaining(rest)
      <4>1. <<pair>> \in Seq(Pairs) /\ Remaining(rest) \in Seq(Pairs)
        BY <2>2, RestTyped
      <4>2. (old \o <<pair>>) \o Remaining(rest) = old \o (<<pair>> \o Remaining(rest))
        BY <3>5, <4>1, ThreeJoined
      <4> QED
        BY <2>2, <2>3, <3>2, <3>5, <4>2
    <3>7. ASSUME NEW i \in 1 .. Len(bound)
          PROVE  CanRead(bound[i])'
      <4>1. i \in 1 .. Len(old) \/ i = Len(old) + 1
        BY <3>5
      <4>2. CASE i \in 1 .. Len(old)
        <5>1. CanRead(old[i])
          BY <3>2, <3>3, <4>2 DEF KeepsBound
        <5> QED
          BY <2>4, <2>5, <2>6, <3>1, <3>5, <4>2, <5>1, ReadsWhatIsSet
      <4>3. CASE i = Len(old) + 1
        <5>1. bound[i][1].is = "name" /\ bound[i][1].ref = Left.ref /\ bound[i][2] = Right
          BY <2>1, <2>2, <3>5, <4>3
        <5> QED
          BY <2>4, <2>5, <2>6, <3>1, <5>1, ReadsWhatIsSet
      <4> QED
        BY <4>1, <4>2, <4>3
    <3>8. bound \in Pieces
      BY <3>5 DEF Pieces, Pairs
    <3> QED
      BY <3>3, <3>4, <3>6, <3>7, <3>8, AssignGoesOn
  <2>7. CASE ~MaySet(Current, Left.ref)
    <3>1. Raise("error")
      BY <1>4, <2>7 DEF AssignName
    <3>2. ~CanSet(pair[1].ref)
      BY <2>2, <2>4, <2>5, <2>7, MaySetIs
    <3> QED
      BY <2>1, <2>2, <2>3, <3>1, <3>2, AssignStops
  <2> QED
    BY <2>6, <2>7
<1>5. ASSUME Assigning, Raise("error"), Left.is # "name" \/ Right = Missing,
             ~TakenApart(<<Left, Right>>)
      PROVE  AInv'
  <2>1. <<Left, Right>> \in Pairs /\ <<Left, Missing>> \in Pairs
    BY <1>3, <1>5 DEF Pairs
  <2>2. Leaves[<<Left, Right>>] = <<<<Left, Missing>>>>
    BY <1>5, <2>1, LeavesOfOne
  <2> QED
    BY <1>5, <2>1, <2>2, AssignStops

<1>6. CASE AssignArray
  <2>1. Assigning /\ Left.is = "list" /\ Right.is = "array"
    BY <1>6 DEF AssignArray
  <2>2. CASE Len(Left.of) = Len(Right.of)
    <3>1. Goes([Active EXCEPT !.todo = Zip(Left.of, Right.of) \o Tail(@)]) /\ UNCHANGED scopeVars
      BY <1>6, <2>2 DEF AssignArray
    <3>2. TakenApart(<<Left, Right>>)
      BY <2>1, <2>2 DEF TakenApart
    <3>3. \A i \in 1 .. Len(Left.of) : Part(<<Left, Right>>, i) = <<Left.of[i], Right.of[i]>>
      BY <2>1 DEF Part
    <3> QED
      BY <2>1, <2>2, <3>1, <3>2, <3>3, AssignTakesApart
  <2>3. CASE Len(Left.of) # Len(Right.of)
    <3>1. Raise("error") /\ ~TakenApart(<<Left, Right>>) /\ Left.is # "name"
      BY <1>6, <2>1, <2>3 DEF AssignArray, TakenApart
    <3> QED
      BY <1>5, <2>1, <3>1
  <2> QED
    BY <2>2, <2>3
<1>7. CASE AssignHash
  <2>1. Assigning /\ Left.is = "list" /\ Right.is = "hash"
    BY <1>7 DEF AssignHash
  <2>2. TakenApart(<<Left, Right>>)
    BY <2>1 DEF TakenApart
  <2>3. PICK values : values = [i \in DOMAIN Left.of |-> ValueFor(Right.of, Left.of[i])]
    OBVIOUS
  <2>4. Goes([Active EXCEPT !.todo = Zip(Left.of, values) \o Tail(@)]) /\ UNCHANGED scopeVars
    BY <1>7, <2>3 DEF AssignHash
  <2>5. DOMAIN Left.of = 1 .. Len(Left.of) /\ Len(Left.of) \in Nat
    BY <1>3, <2>1, <2>2, PartsTyped
  <2>6. Len(values) = Len(Left.of)
    BY <2>3, <2>5
  <2>7. \A i \in 1 .. Len(Left.of) : Part(<<Left, Right>>, i) = <<Left.of[i], values[i]>>
    BY <2>1, <2>3, <2>5 DEF Part
  <2> QED
    BY <2>1, <2>2, <2>4, <2>6, <2>7, AssignTakesApart
<1>8. CASE AssignFails
  <2>1. Assigning /\ Raise("error") /\ (Right = Missing \/ (Left.is = "list" /\ Right.is = "atom"))
    BY <1>8 DEF AssignFails
  <2>2. ~TakenApart(<<Left, Right>>) /\ (Left.is # "name" \/ Right = Missing)
    BY <2>1 DEF TakenApart, Missing
  <2> QED
    BY <1>5, <2>1, <2>2
<1>9. CASE AssignEnds
  <2>1. /\ In("assign", "assign") /\ Active.todo = <<>> /\ stack' = Front(stack)
        /\ ended'.of = Active
    BY <1>9 DEF AssignEnds, End
  <2>2. stack # <<>> /\ InOrder(Active) /\ Active.is = "assign" /\ Active.phase = "assign"
    BY <2>1, TheAssignment
  <2>3. Active.bound \in Pieces /\ Owed(Active) = Active.bound \o <<>>
    BY <2>1, <2>2, RestEmpty DEF InOrder
  <2>4. Active.bound = Owed(Active)
    BY <2>3 DEF Pieces
  <2>5. PICK of : of = Active
    OBVIOUS
  <2>6. EndedInOrder'
    BY <2>1, <2>4, <2>5 DEF EndedInOrder, Owed
  <2> QED
    BY <2>1, <2>2, <2>6, PoppedAInv
<1> QED
  BY <1>1, <1>2, <1>4, <1>6, <1>7, <1>8, <1>9 DEF AssignmentNext

LEMMA StepAInv ==
  ASSUME SInv, SInv', PInv, VInv, AInv, [StatementsNext]_allVars
  PROVE  AInv'
<1>1. ASSUME NEW groups \in Matches, Match(groups)
      PROVE  AInv'
  BY <1>1, SameAInv DEF Match, CodeRuns
<1>2. CASE Fail \/ Recover
  BY <1>2, SameAInv DEF Fail, Raise, Recover, CodeRuns
<1>3. CASE SelectionNext
  BY <1>3, SelectionMoves, OthersRun, OthersAInv
<1>4. CASE CallsNext
  BY <1>4, CallsMoves, OthersRun, OthersAInv
<1>5. CASE UNCHANGED allVars
  <2>1. UNCHANGED <<stack, raised, ended>> /\ UNCHANGED scopeVars /\ Active' = Active
    BY <1>5 DEF allVars, activityVars, Active
  <2>2. \A r : CanSet(r)' <=> CanSet(r)
    BY <2>1, SameAssignable
  <2>3. \A pair : CanRead(pair)' <=> CanRead(pair)
    BY <2>1, SameAssignable
  <2>4. stack' # <<>> => KeepsBound(Active)'
    <3>1. PICK a : a = Active
      OBVIOUS
    <3>2. KeepsBound(a) => KeepsBound(a)'
      BY <2>1, <2>2, <2>3 DEF KeepsBound, Stuck
    <3>3. Active' = a
      BY <2>1, <3>1
    <3> QED
      BY <2>1, <3>1, <3>2, <3>3 DEF AInv, KeepsBound
  <2> QED
    BY <2>1, <2>4 DEF AInv, InOrder, Owed, EndedInOrder
<1> QED
  BY <1>1, <1>2, <1>3, <1>4, <1>5, UnwindAInv, AssignmentAInv DEF StatementsNext, ActivitiesNext

\* An assignment binds its variables from left to right, and each that it has
\* bound can be read.  It ends when it has bound all of them, and fails at the
\* first that has no part of the right side or that is bound already (assign,
\* assign.go, and the panics of Set).
THEOREM AssignmentsBindInOrder == StatementsSpec => []AssignmentIsPrefix
<1>1. ASSUME SInv, PInv, VInv, AInv, stack # <<>>, Active.is = "assign", Active.phase = "assign"
      PROVE  BoundUpToFailure(Active)
  <2>1. PICK bound, todo, leaves :
          bound = Active.bound /\ todo = Active.todo /\ leaves = Leaves[<<Active.left, Active.right>>]
    OBVIOUS
  <2>2. Len(stack) \in 1 .. Len(stack) /\ Activity(Active)
    BY <1>1, TheActive
  <2>3. InOrder(Active) /\ KeepsBound(Active) /\ IsAssign(Active)
    BY <1>1, <2>2 DEF AInv, Active, Activity, IsIf, IsCase, IsCall
  <2>4. bound \in Seq(Pairs) /\ todo \in Pieces /\ leaves = bound \o Remaining(todo)
    BY <1>1, <2>1, <2>3 DEF InOrder, Owed, IsAssign, Pieces, Pairs
  <2>5. PICK rest \in Seq(Pairs) : rest = Remaining(todo)
    BY <2>4, RestTyped
  <2>6. PICK n : n = Len(bound)
    OBVIOUS
  <2>7. /\ n \in Nat /\ leaves \in Seq(Pairs) /\ Len(leaves) = n + Len(rest)
        /\ \A i \in 1 .. n : leaves[i] = bound[i]
        /\ \A i \in 1 .. Len(rest) : leaves[n + i] = rest[i]
    <3>1. leaves = bound \o rest
      BY <2>4, <2>5
    <3> QED
      BY <2>4, <2>6, <3>1, JoinedAt
  <2>8. IsPrefix(bound, leaves)
    BY <2>4, <2>5, <2>6, <2>7 DEF IsPrefix
  <2>9. ASSUME NEW i \in DOMAIN bound
        PROVE  \/ Get2(Current, bound[i][1].ref) = bound[i][2]
               \/ bound[i][1].ref.name = Pnr /\ ParentShows(Pnr, "Global")
    <3>1. CanRead(bound[i])
      BY <1>1, <2>1, <2>3, <2>4 DEF KeepsBound
    <3> QED
      BY <1>1, <3>1, GetsWhatIsRead DEF VInv
  <2>10. ASSUME raised = "error"
         PROVE  /\ n + 1 <= Len(leaves)
                /\ leaves[n + 1][2] # Missing => ~MaySet(Current, leaves[n + 1][1].ref)
    <3>1. todo # <<>> /\ Stuck(todo)
      BY <1>1, <2>1, <2>3, <2>10 DEF KeepsBound, Stuck
    <3>2. PICK p \in Pairs : /\ Leaves[Head(todo)] = <<p>>
                             /\ p[2] # Missing => p[1].is = "name" /\ ~CanSet(p[1].ref)
      BY <3>1 DEF Stuck
    <3>3. rest = <<p>> \o Remaining(Tail(todo)) /\ Remaining(Tail(todo)) \in Seq(Pairs)
      <4>1. Tail(todo) \in Pieces /\ Remaining(todo) = Leaves[Head(todo)] \o Remaining(Tail(todo))
        BY <2>4, <3>1, RestOfFirst
      <4>2. Remaining(Tail(todo)) \in Seq(Pairs)
        BY <4>1, RestTyped
      <4> QED
        BY <2>5, <3>2, <4>1, <4>2
    <3>4. Len(rest) \in Nat \ {0} /\ rest[1] = p
      BY <3>3
    <3>5. n + 1 <= Len(leaves) /\ leaves[n + 1] = p
      BY <2>7, <3>4
    <3>6. ASSUME p[2] # Missing
          PROVE  ~MaySet(Current, p[1].ref)
      <4>1. p[1].is = "name" /\ ~CanSet(p[1].ref)
        BY <3>2, <3>6
      <4>2. PICK l \in Lefts : l = p[1]
        BY DEF Pairs
      <4>3. l.ref \in Refs
        BY <4>1, <4>2, AssignmentsAssumption
      <4>4. Outlook /\ ~mutable[Current]
        BY <1>1 DEF VInv, PInv
      <4> QED
        BY <1>1, <4>1, <4>2, <4>3, <4>4, MaySetIs
    <3> QED
      BY <3>5, <3>6
  <2> QED
    BY <2>1, <2>6, <2>8, <2>9, <2>10 DEF BoundUpToFailure
<1>2. SInv /\ PInv /\ VInv /\ AInv => AssignmentIsPrefix
  BY <1>1 DEF AssignmentIsPrefix, AInv, EndedInOrder, Owed
<1>3. StatementsInit => AInv
  <2> SUFFICES ASSUME StatementsInit
               PROVE  AInv
    OBVIOUS
  <2>1. Len(stack) = 0 /\ stack = <<>> /\ ended = Nothing
    BY DEF StatementsInit, ActivitiesInit
  <2> QED
    BY <2>1 DEF AInv, EndedInOrder, Nothing
<1>4. SInv /\ SInv' /\ PInv /\ VInv /\ AInv /\ [StatementsNext]_allVars => AInv'
  BY StepAInv
<1> QED
  BY <1>2, <1>3, <1>4, TellsAlways, ParametersHeld, BuiltAlways, PTL DEF StatementsSpec
=============================================================================
