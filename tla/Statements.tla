----------------------------- MODULE Statements -----------------------------
(***************************************************************************)
(* Assignments, selections and calls on one scope, one inside of another,  *)
(* and what is left of them when they end or panic.                        *)
(***************************************************************************)
EXTENDS Assignment, Selection, Calls

StatementsInit == ActivitiesInit

StatementsNext == ActivitiesNext \/ AssignmentNext \/ SelectionNext \/ CallsNext

StatementsSpec == StatementsInit /\ [][StatementsNext]_allVars

-----------------------------------------------------------------------------
(* Properties. *)

\* The phases of an activity, with the frames that it has pushed in each.
FramesIn(activity) ==
  IF activity.is = "assign" THEN 0
  ELSE IF activity.is = "call" /\ activity.phase \in {"defaults", "default"} THEN 2 ELSE 1

StatementsTypeOK ==
  /\ TypeOK
  /\ raised \in {"no", "error", "next", "return"}
  /\ \A i \in DOMAIN stack :
       /\ stack[i].is \in {"assign", "if", "case", "call"}
       /\ i < Len(stack) => stack[i].phase \in CodePhases
       /\ stack[i].frames <= FramesIn(stack[i])

\* The frames of a scope are those of the activities that run on it, whichever
\* way the ones before have ended: a host that has got a panic finds the scope
\* at the global frame.
FramesOfActivities ==
  /\ Depth(Current) = IF stack = <<>> THEN 1 ELSE Active.base + Active.frames
  /\ \A i \in DOMAIN stack :
       /\ stack[i].base = IF i = 1 THEN 1 ELSE stack[i - 1].base + stack[i - 1].frames
       /\ raised = "no" \/ i < Len(stack) => stack[i].frames = FramesIn(stack[i])

\* What assignments, selections and calls do to the scope is what Scope says
\* that its users do, so that what is checked and proved of it holds for them.
UsesScope == [][Next]_scopeVars

\* When the body of a call begins its scope has the parameters, each with the
\* argument or the default for it and of its type (of two with one name, that of
\* the first), and nothing else: no variable and no captures of the caller, of
\* the defaults or of another call.
ParametersOfBody ==
  In("call", "bind") /\ Active.next > Wanted =>
    /\ \A i \in 1 .. Wanted :
         /\ Active.args[i] \in Param(i).type
         /\ (\A j \in 1 .. i - 1 : Param(j).name # Param(i).name) =>
              Frame(Current, Depth(Current))[Param(i).name] = Active.args[i]
    /\ \A n \in Names :
         Frame(Current, Depth(Current))[n] # Absent => \E i \in 1 .. Wanted : Param(i).name = n
    /\ RxGet(Current) = Absent

\* A default that names a variable is the one that the caller sees, whatever the
\* parameters before it are called.  Only code in an earlier default can change
\* that, since it runs in the scope of the defaults.
DefaultsOfCaller ==
  In("call", "check") =>
    \A i \in Active.given + 1 .. Wanted :
      /\ Param(i).default.is = "variable"
      /\ \A j \in Active.given + 1 .. i - 1 : Param(j).default.is # "code"
      => Active.args[i] = Active.before.vars[Param(i).default.ref]

\* The option that a case selects is the first with a value that matches, else
\* the one with default.
FirstMatchSelected ==
  In("case", "body") =>
    LET matching == {i \in DOMAIN Active.tried : Active.tried[i].outcome # "no"}
        defaults == {i \in DOMAIN Active.all : Active.all[i].is = "default"}
    IN  IF matching # {}
        THEN Active.selected = Active.tried[Min(matching)].option
        ELSE /\ Active.selected = Active.all[Max(defaults)].option
             /\ Len(Active.tried) = Len(Active.all) - Cardinality(defaults)

\* How the parent shows $n, if there is one.
ParentShows(n, what) ==
  parent[Current] # None /\ State(parent[Current], LocalRef(n)) = what

\* Whatever runs inside of a selection or a call, and however it ends, the code
\* behind it has the captures of before and sees every variable as it saw it, but
\* for globals that were assigned by their `::` names: those that it did not see,
\* those that hide a local variable of the parent, and $pnr where it overrides
\* the one of the parent.
ViewKept ==
  ended # Nothing /\ ended.of.is # "assign" =>
    /\ RxGet(Current) = ended.of.before.captures
    /\ \A r \in Refs :
         \/ Get2(Current, r) = ended.of.before.vars[r]
         \/ /\ Get2(Current, r) = Frame(Current, 1)[r.name] /\ Get2(Current, r) # Absent
            /\ ended.of.before.vars[r] = Absent \/ ParentShows(r.name, "Local")
         \/ r.name = Pnr /\ ParentShows(Pnr, "Global")

\* Whoever calls a function gets a value of its type.
ReturnTypeHolds ==
  ended.is = "value" /\ ended.of.is = "call" => ended.value \in ended.of.f.returns
=============================================================================
