----------------------------- MODULE Activities -----------------------------
(***************************************************************************)
(* What Puppet code does to the scope of its context.  The constructs that *)
(* bind variables, match regular expressions or open a local scope are     *)
(* activities: assignments (Assignment), if, case and selector (Selection) *)
(* and calls (Calls).  Go runs them one inside of the other on one stack,  *)
(* and a panic unwinds that stack through their deferred functions.        *)
(*                                                                         *)
(* The scope is the one of Scope, whose operators make every change here.  *)
(***************************************************************************)
EXTENDS Scope, SequencesExt

CONSTANTS
  Current,     \* the scope of the context
  Origins,     \* how the scopes may be when the context begins: records with the
               \* `parent` and the `depth` of each, and the `maps`
  Atoms,       \* values that code computes
  MaxActive,   \* bound: activities inside of one another
  MaxLength    \* bound: activities and matches altogether

ASSUME CurrentAssumption ==
  /\ Current \in ScopeIds
  /\ Atoms \subseteq Values /\ Atoms # {}
  /\ MaxActive \in Nat /\ MaxLength \in Nat

\* A context has a scope with a global frame; that of a fork has a parent, of any
\* depth, which may have a parent itself.
ASSUME OriginsAssumption ==
  \A o \in Origins :
    /\ o.parent \in [ScopeIds -> (ScopeIds \ {Current}) \cup {None}]
    /\ o.depth \in [ScopeIds -> 0 .. MaxDepth] /\ o.depth[Current] = 1
    /\ \A s \in ScopeIds : o.parent[s] # None => o.depth[s] > 0 /\ o.depth[o.parent[s]] > 0
    /\ \A some \in (SUBSET ScopeIds) \ {{}} : \E s \in some : o.parent[s] \notin some
    /\ o.maps \in [MapIds -> [Keys -> Cells]]

VARIABLES
  stack,       \* the activities that run, innermost last
  raised,      \* what unwinds the stack: "no", an "error", "next" or "return"
  ended,       \* history: the activity that has ended in this step and its value
  length       \* how many activities and matches have begun

activityVars == <<stack, raised, ended, length>>
scopeVars == vars
allVars == <<scopeVars, activityVars>>

Nothing == [is |-> "nothing"]

\* Each activity is a record that tells what it `is`, its `phase` and how many
\* `frames` it has pushed; as history, on how many it has pushed them (`base`) and
\* what was visible `before`.
Active == stack[Len(stack)]
In(is, phase) == raised = "no" /\ stack # <<>> /\ Active.is = is /\ Active.phase = phase
Becomes(activity) ==
  /\ stack' = [stack EXCEPT ![Len(stack)] = activity] /\ ended' = Nothing
  /\ UNCHANGED length

\* The phases in which an activity evaluates an expression.
CodePhases == {"rhs", "test", "value", "default", "body"}
CodeRuns == raised = "no" /\ (stack # <<>> => Active.phase \in CodePhases)

Begin(activity) ==
  /\ CodeRuns /\ Len(stack) < MaxActive /\ length < MaxLength
  /\ stack' = Append(stack, activity) /\ length' = length + 1 /\ ended' = Nothing
  /\ UNCHANGED raised

\* The innermost activity ends, with a value or with a panic.
End(is, value) ==
  /\ stack' = Front(stack) /\ ended' = [is |-> is, of |-> Active, value |-> value]
  /\ UNCHANGED length

Goes(activity) == Becomes(activity) /\ UNCHANGED raised

Raise(what) == raised' = what /\ ended' = Nothing /\ UNCHANGED <<scopeVars, stack, length>>

\* Code panics, or calls next or return: break is not among them, the functions
\* that recover from it are not written in Puppet.
Fail ==
  /\ CodeRuns /\ stack # <<>>
  /\ \E what \in {"error", "next", "return"} : Raise(what)

\* Call of a lambda recovers from next, that of a function from return too,
\* whether the body or a default has called it.
Catches(activity) ==
  activity.is = "call" /\ (raised = "next" \/ (raised = "return" /\ ~activity.f.lambda))

\* Faulty variant: the frame of an activity stays when it panics.
UnwindNoPop ==
  /\ raised # "no" /\ stack # <<>>
  /\ stack' = Front(stack) /\ ended' = Nothing
  /\ UNCHANGED <<scopeVars, raised, length>>

\* The deferred function of each WithLocalScope pops its frame; then the panic
\* is recovered from, or it goes on in the activity outside.
Unwind ==
  /\ raised # "no" /\ stack # <<>>
  /\ IF Active.frames > 0
     THEN /\ LeaveLocal(Current) /\ Becomes([Active EXCEPT !.frames = @ - 1])
          /\ UNCHANGED raised
     ELSE /\ UNCHANGED scopeVars
          /\ IF Catches(Active)
             THEN \E value \in Atoms : End("value", value) /\ raised' = "no"
             ELSE End("panic", raised) /\ UNCHANGED raised

\* The panic has reached the host, which may go on with the context.
Recover ==
  /\ raised # "no" /\ stack = <<>>
  /\ raised' = "no" /\ ended' = Nothing
  /\ UNCHANGED <<scopeVars, stack, length>>

\* A match expression: captures if it matches, else nothing.
Match(groups) ==
  /\ CodeRuns /\ length < MaxLength
  /\ RxSet(Current, groups)
  /\ length' = length + 1 /\ ended' = Nothing
  /\ UNCHANGED <<stack, raised>>

\* The scope of a context, or the new one that Fork makes on top of a fork of the
\* scope there was, with all its frames and parents.
ActivitiesInit ==
  /\ \E o \in Origins :
       /\ parent = o.parent
       /\ frames = [s \in ScopeIds |-> [i \in 1 .. o.depth[s] |-> <<s, i>>]]
       /\ maps = o.maps
  /\ mutable = [s \in ScopeIds |-> FALSE]
  /\ eps = [s \in ScopeIds |-> <<>>]
  /\ stack = <<>> /\ raised = "no" /\ ended = Nothing /\ length = 0

ActivitiesNext ==
  \/ \E groups \in Matches : Match(groups)
  \/ Fail \/ Unwind \/ Recover
=============================================================================
