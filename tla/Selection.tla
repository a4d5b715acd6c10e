----------------------------- MODULE Selection -----------------------------
(***************************************************************************)
(* if, unless, case and selector: src/evaluator/eval.go, with match of     *)
(* comparison.go.  Each runs in a local scope of its own, the test too.    *)
(* The elements of an unfolded option count as its values; a test that is  *)
(* no string or a pattern that is none is a panic (Fail).                  *)
(***************************************************************************)
EXTENDS Activities

CONSTANTS
  Cases,       \* the options of a case, each a sequence of "value" and "default"
  Selectors    \* the entries of a selector, each "value" or "default"

Kinds == {"value", "default"}

ASSUME SelectionAssumption == Cases \subseteq Seq(Seq(Kinds)) /\ Selectors \subseteq Seq(Kinds)

BeginSelection(activity) ==
  /\ Begin(activity)
  /\ EnterLocal(Current)

BeginIf ==
  BeginSelection([is |-> "if", phase |-> "test", frames |-> 1, base |-> Depth(Current),
                  before |-> View(Current)])

\* The values of all options in their order.
Alternatives(options) ==
  FlattenSeq([o \in DOMAIN options |->
    [v \in DOMAIN options[o] |-> [option |-> o, is |-> options[o][v]]]])

Case(options) ==
  [is |-> "case", phase |-> "test", frames |-> 1, base |-> Depth(Current), before |-> View(Current),
   all |-> Alternatives(options), at |-> 1, default |-> 0, selected |-> 0, tried |-> <<>>]

BeginCase(options) == BeginSelection(Case(options))

BeginSelector(entries) == BeginSelection(Case([e \in DOMAIN entries |-> <<entries[e]>>]))

IfTested ==
  /\ In("if", "test")
  /\ Goes([Active EXCEPT !.phase = "body"])
  /\ UNCHANGED scopeVars

CaseTested ==
  /\ In("case", "test")
  /\ Goes([Active EXCEPT !.phase = "options"])
  /\ UNCHANGED scopeVars

AtAlternative(is) ==
  In("case", "options") /\ Active.at <= Len(Active.all) /\ Active.all[Active.at].is = is

\* Faulty variant: default is selected when it is met.
MeetDefaultAtOnce ==
  /\ AtAlternative("default")
  /\ Goes([Active EXCEPT !.phase = "body", !.selected = Active.all[Active.at].option])
  /\ UNCHANGED scopeVars

MeetDefault ==
  /\ AtAlternative("default")
  /\ Goes([Active EXCEPT !.default = Active.all[Active.at].option, !.at = @ + 1])
  /\ UNCHANGED scopeVars

MeetValue ==
  /\ AtAlternative("value")
  /\ Goes([Active EXCEPT !.phase = "value"])
  /\ UNCHANGED scopeVars

Tried(outcome) ==
  Append(Active.tried, [option |-> Active.all[Active.at].option, outcome |-> outcome])

\* The value has been evaluated and the test does not match it.
NoMatch ==
  /\ In("case", "value")
  /\ Goes([Active EXCEPT !.phase = "options", !.at = @ + 1, !.tried = Tried("no")])
  /\ UNCHANGED scopeVars

\* It matches, and it is no regular expression.
PlainMatch ==
  /\ In("case", "value")
  /\ Goes([Active EXCEPT !.phase = "body", !.selected = Active.all[Active.at].option,
                         !.tried = Tried("yes")])
  /\ UNCHANGED scopeVars

RegexpMatch(groups) ==
  /\ In("case", "value")
  /\ RxSet(Current, groups)
  /\ Goes([Active EXCEPT !.phase = "body", !.selected = Active.all[Active.at].option,
                         !.tried = Tried("yes")])

\* All values have been tried.
SelectDefault ==
  /\ In("case", "options") /\ Active.at > Len(Active.all) /\ Active.default # 0
  /\ Goes([Active EXCEPT !.phase = "body", !.selected = Active.default])
  /\ UNCHANGED scopeVars

\* The selected code has been evaluated, or there is none.
SelectionEnds ==
  /\ \/ In("if", "body") \/ In("case", "body")
     \/ In("case", "options") /\ Active.at > Len(Active.all) /\ Active.default = 0
  /\ LeaveLocal(Current)
  /\ End("value", Nothing) /\ UNCHANGED raised

SelectionNext ==
  \/ BeginIf
  \/ \E options \in Cases : BeginCase(options)
  \/ \E entries \in Selectors : BeginSelector(entries)
  \/ IfTested \/ CaseTested \/ MeetDefault \/ MeetValue
  \/ NoMatch \/ PlainMatch \/ SelectDefault
  \/ \E groups \in Matches : RegexpMatch(groups)
  \/ SelectionEnds
=============================================================================
