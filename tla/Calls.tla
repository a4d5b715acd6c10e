------------------------------- MODULE Calls -------------------------------
(***************************************************************************)
(* Calls of functions, plans and lambdas written in Puppet: CallBlock of   *)
(* src/evaluator/function.go and the Call methods around it.               *)
(***************************************************************************)
EXTENDS Activities

CONSTANTS
  Callables,   \* records with `parameters`, a sequence of records [name, type, default,
               \* rest], `returns` and whether it is a `lambda`; types are sets of values
  Arguments,   \* lists of arguments that calls pass
  Undef        \* px.Undef

\* Defaults: none, a value, a variable or any other expression.
Defaults == [is : {"none", "code"}] \cup [is : {"value"}, value : Values]
              \cup [is : {"variable"}, ref : Refs]
Parameters == [name : Names, type : SUBSET Values, default : Defaults, rest : BOOLEAN]

ASSUME CallablesAssumption ==
  /\ Undef \in Values /\ Arguments \subseteq Seq(Values)
  /\ \A f \in Callables :
       /\ f.parameters \in Seq(Parameters)
       /\ f.returns \subseteq Values
       /\ f.lambda \in BOOLEAN

\* `given`: how many arguments the caller passes.
BeginCall(f, args) ==
  /\ Begin([is |-> "call", phase |-> "called", frames |-> 1, base |-> Depth(Current),
            before |-> View(Current), f |-> f, args |-> args, given |-> Len(args), next |-> 1])
  /\ EnterLocal(Current)

Wanted == Len(Active.f.parameters)
Param(i) == Active.f.parameters[i]

\* The scope for the defaults, on top of the one of the call.
EnterDefaults ==
  /\ In("call", "called") /\ Wanted > Len(Active.args)
  /\ EnterLocal(Current)
  /\ Goes([Active EXCEPT !.phase = "defaults", !.frames = 2])

NoDefaults ==
  /\ In("call", "called") /\ Wanted <= Len(Active.args)
  /\ Goes([Active EXCEPT !.phase = "check"])
  /\ UNCHANGED scopeVars

DefaultNeeded == In("call", "defaults") /\ Len(Active.args) < Wanted
NextParameter == Param(Len(Active.args) + 1)

WithArgument(value) ==
  [Active EXCEPT !.phase = "defaults", !.args = Append(@, value)]

\* A default is bound later, if it has the right type.
Defaulted(value) ==
  IF value \in NextParameter.type
  THEN Goes(WithArgument(value)) /\ UNCHANGED scopeVars
  ELSE Raise("error")

\* Without a default the parameter gets undef, which is checked with the rest.
NoDefault ==
  /\ DefaultNeeded /\ NextParameter.default.is = "none"
  /\ Goes(WithArgument(Undef))
  /\ UNCHANGED scopeVars

ValueDefault ==
  /\ DefaultNeeded /\ NextParameter.default.is = "value"
  /\ Defaulted(NextParameter.default.value)

\* Faulty variant: parameters that have an argument already are visible.
VariableDefaultOfParameters ==
  /\ DefaultNeeded /\ NextParameter.default.is = "variable"
  /\ LET bound == {i \in DOMAIN Active.args : Param(i).name = NextParameter.default.ref.name}
         value == IF bound # {} THEN Active.args[Max(bound)]
                  ELSE Get2(Current, NextParameter.default.ref)
     IN  IF value = Absent THEN Raise("error") ELSE Defaulted(value)

\* The deferred variable is looked up; to find none is an error.
VariableDefault ==
  /\ DefaultNeeded /\ NextParameter.default.is = "variable"
  /\ LET value == Get2(Current, NextParameter.default.ref)
     IN  IF value = Absent THEN Raise("error") ELSE Defaulted(value)

CodeDefault ==
  /\ DefaultNeeded /\ NextParameter.default.is = "code"
  /\ Goes([Active EXCEPT !.phase = "default"])
  /\ UNCHANGED scopeVars

CodeDefaultEvaluated(value) ==
  /\ In("call", "default")
  /\ Defaulted(value)

\* Faulty variant: the parameters are bound in the scope of the defaults.
LeaveDefaultsKept ==
  /\ In("call", "defaults") /\ Len(Active.args) = Wanted
  /\ Goes([Active EXCEPT !.phase = "check"])
  /\ UNCHANGED scopeVars

LeaveDefaults ==
  /\ In("call", "defaults") /\ Len(Active.args) = Wanted
  /\ LeaveLocal(Current)
  /\ Goes([Active EXCEPT !.phase = "check", !.frames = 1])

\* Faulty variant: defaults only are of the right type.
CheckedNot == TRUE

\* Every argument has the type of its parameter; arguments behind the last
\* parameter have its type if it captures the rest, and else any.
Checked ==
  \A i \in DOMAIN Active.args :
    IF i <= Wanted THEN Active.args[i] \in Param(i).type
    ELSE Wanted > 0 /\ Param(Wanted).rest => Active.args[i] \in Param(Wanted).type

Check ==
  /\ In("call", "check")
  /\ IF Checked THEN Goes([Active EXCEPT !.phase = "bind"]) /\ UNCHANGED scopeVars
     ELSE Raise("error")

LocalName(n) == [global |-> FALSE, name |-> n]

\* What Set returns is not looked at.
Bind ==
  /\ In("call", "bind") /\ Active.next <= Wanted
  /\ Set(Current, LocalName(Param(Active.next).name), Active.args[Active.next])
  /\ Goes([Active EXCEPT !.next = @ + 1])

EvaluateBody ==
  /\ In("call", "bind") /\ Active.next > Wanted
  /\ Goes([Active EXCEPT !.phase = "body"])
  /\ UNCHANGED scopeVars

\* Faulty variant: the stack is cut to the global frame.
CallEndsAtGlobal(value) ==
  /\ In("call", "body") /\ value \in Active.f.returns
  /\ frames' = [frames EXCEPT ![Current] = <<@[1]>>]
  /\ UNCHANGED <<maps, mutable, parent, eps, raised>>
  /\ End("value", value)

\* The body has a value, which has to be of the right type.
CallEnds(value) ==
  /\ In("call", "body")
  /\ IF value \in Active.f.returns THEN LeaveLocal(Current) /\ End("value", value) /\ UNCHANGED raised
     ELSE Raise("error")

CallsNext ==
  \/ \E f \in Callables, args \in Arguments : BeginCall(f, args)
  \/ EnterDefaults \/ NoDefaults
  \/ NoDefault \/ ValueDefault \/ VariableDefault \/ CodeDefault
  \/ LeaveDefaults \/ Check \/ Bind \/ EvaluateBody
  \/ \E value \in Atoms : CodeDefaultEvaluated(value) \/ CallEnds(value)
=============================================================================
