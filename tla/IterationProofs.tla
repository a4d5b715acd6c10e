-------------------------- MODULE IterationProofs --------------------------
(***************************************************************************)
(* Theorems about Iteration, for lists, chains and sessions of every size. *)
(*                                                                         *)
(* Every step begins an operation, pulls an element, calls a callback that *)
(* leaves the operation running, goes on without a callback, or ends the   *)
(* operation, with a last call or without (Steps).  Each part of the       *)
(* invariant is kept by each of these.  For the results there is an        *)
(* invariant of the running operation (Accumulates): what it has           *)
(* accumulated, of the elements that its links have let through.           *)
(***************************************************************************)
EXTENDS Iteration, FiniteSetTheorems, TLAPS

Number == Len(done) + 1
Bound == Sessions[session].calls

Values == Seq((0 .. Size) \cup {1})
Lists == Seq(0 .. Size)
CallRecords == [call : 1 .. Bound, link : Nat \ {0}, element : 1 .. Size, outcome : Outcomes]
DoneRecords == [chain : Seq(Links), op : Operations, from : 0 .. Size, to : 0 .. Size,
                raised : {"nothing", "break", "fail"}, value : Values]

Call(outcome) == [call |-> Number, link |-> at, element |-> pos, outcome |-> outcome]
Ending(raised, value) ==
  [chain |-> chain, op |-> op, from |-> from, to |-> pos, raised |-> raised, value |-> value]

\* What a running operation is like.
Runs ==
  /\ op # "none" => Len(done) < Bound
  /\ op = "asArray" => chain # <<>>
  /\ at > 0 => pos > 0 /\ op # "none"

IType == TypeOK /\ Runs

LEMMA ElementOf ==
  ASSUME NEW S, NEW q \in Seq(S), NEW i \in 1 .. Len(q)
  PROVE  q[i] \in S
OBVIOUS

LEMMA SequenceIn ==
  ASSUME NEW S, NEW T, S \subseteq T, NEW q \in Seq(S)
  PROVE  q \in Seq(T)
<1>1. q = [i \in 1 .. Len(q) |-> q[i]] /\ Len(q) \in Nat
  OBVIOUS
<1>2. \A i \in 1 .. Len(q) : q[i] \in T
  BY ElementOf
<1> QED
  BY <1>1, <1>2

-----------------------------------------------------------------------------
(* The kinds of steps. *)

\* An element has been delivered or rejected, or goes to the next link.
Passes ==
  /\ at' \in {0, at + 1} /\ at' <= Top
  /\ acc' \in Lists
  /\ UNCHANGED <<session, chain, pos, op, from, done>>

Takes ==
  /\ op \in {"asArray", "reduce"} /\ at = Top /\ at' = 0 /\ acc' \in Lists
  /\ UNCHANGED <<session, chain, pos, op, from, done, calls>>

Calls(outcome) ==
  /\ op # "none" /\ at \in 1 .. Top
  /\ calls' = Append(calls, Call(outcome))

Ends ==
  /\ op # "none"
  /\ \E raised \in {"nothing", "break", "fail"}, value \in Values :
       done' = Append(done, Ending(raised, value))
  /\ op' = "none" /\ chain' = <<>> /\ at' = 0 /\ acc' = <<>>
  /\ UNCHANGED <<session, pos, from>>

LEMMA Finishes ==
  ASSUME IType, op # "none", NEW raised \in {"nothing", "break", "fail"}, NEW value \in Values,
         Finish(raised, value)
  PROVE  Ends
  BY DEF Finish, Ends, Ending

LEMMA ValuesAre ==
  ASSUME IType
  PROVE  /\ acc \in Lists /\ acc \in Values /\ Undef \in Lists /\ Initial \in Lists
         /\ {Undef, True, False, Default, Element(pos), [i \in 1 .. Size |-> i]} \subseteq Values
         /\ Element(pos) \in Lists /\ Append(acc, pos) \in Lists
         /\ session \in 1 .. Len(Sessions) /\ Size \in Nat /\ Bound \in Nat
         /\ Sessions[session].uses \subseteq [chain : Seq(Links), op : Operations]
         /\ Len(chain) \in Nat /\ Len(done) \in Nat /\ Len(calls) \in Nat
<1>1. session \in 1 .. Len(Sessions) /\ Size \in Nat /\ Bound \in Nat
      /\ Sessions[session].uses \subseteq [chain : Seq(Links), op : Operations]
  <2>1. session \in 1 .. Len(Sessions)
    BY DEF IType, TypeOK
  <2>2. Sessions[session] \in [size : Nat, uses : SUBSET [chain : Seq(Links), op : Operations],
                              calls : Nat]
    BY <2>1, ConstantsAssumption, ElementOf
  <2> QED
    BY <2>1, <2>2 DEF Size, Bound
<1>2. pos \in 0 .. Size /\ acc \in Lists /\ 0 \in 0 .. Size
  BY <1>1 DEF IType, TypeOK, Lists
<1>3. Lists \subseteq Values
  BY SequenceIn DEF Lists, Values
<1>4. Undef \in Lists /\ Initial \in Lists /\ Element(pos) \in Lists /\ Append(acc, pos) \in Lists
  BY <1>2 DEF Lists, Undef, Initial, Element
<1>5. True \in Values /\ False \in Values /\ Default \in Values
  BY <1>2 DEF True, False, Default, Values
<1>6. [i \in 1 .. Size |-> i] \in Values
  BY <1>1 DEF Values
<1>7. Len(chain) \in Nat /\ Len(done) \in Nat /\ Len(calls) \in Nat
  BY DEF IType, TypeOK
<1> QED
  BY <1>1, <1>2, <1>3, <1>4, <1>5, <1>6, <1>7

LEMMA EndedEnds ==
  ASSUME IType, op # "none", Ended
  PROVE  Ends
<1> DEFINE value == CASE op = "all" -> True
                      [] op = "any" -> False
                      [] op = "find" -> Default
                      [] OTHER -> acc
<1>1. Finish("nothing", value)
  BY DEF Ended
<1>2. value \in Values
  <2>1. True \in Values /\ False \in Values /\ Default \in Values /\ acc \in Values
    BY ValuesAre
  <2>2. value \in {True, False, Default, acc}
    OBVIOUS
  <2> QED
    BY <2>1, <2>2
<1> HIDE DEF value
<1> QED
  BY <1>1, <1>2, Finishes

LEMMA BrokenEnds ==
  ASSUME IType, op # "none", Broken
  PROVE  Ends
<1>1. CASE op \in Unguarded
  BY <1>1, ValuesAre, Finishes DEF Broken
<1>2. CASE op \notin Unguarded
  <2> DEFINE value == CASE op = "all" -> True
                        [] op = "any" -> False
                        [] OTHER -> acc
  <2>1. Finish("nothing", value)
    BY <1>2 DEF Broken
  <2>2. value \in Values
    <3>1. True \in Values /\ False \in Values /\ acc \in Values
      BY ValuesAre
    <3>2. value \in {True, False, acc}
      OBVIOUS
    <3> QED
      BY <3>1, <3>2
  <2> HIDE DEF value
  <2> QED
    BY <2>1, <2>2, Finishes
<1> QED
  BY <1>1, <1>2

\* What a step of a running operation does.
Works ==
  \/ Pull
  \/ Takes
  \/ Ends /\ UNCHANGED calls
  \/ \E outcome \in {"yes", "no"} : Calls(outcome) /\ Passes
  \/ \E outcome \in Outcomes : Calls(outcome) /\ Ends

LEMMA CalledCalls ==
  ASSUME IType, op # "none", at \in 1 .. Top, NEW outcome, Called(outcome)
  PROVE  Calls(outcome)
  BY DEF Called, Calls, Call, Number

LEMMA LinkWorks ==
  ASSUME IType, MapLink \/ PredicateLink
  PROVE  Works
<1>1. op # "none" /\ at \in 1 .. Len(chain) /\ at \in 1 .. Top /\ at + 1 <= Top /\ acc \in Lists
  BY ValuesAre DEF MapLink, PredicateLink, AtLink, Top
<1>2. ASSUME NEW outcome \in {"yes", "no"}, Called(outcome), at' \in {0, at + 1},
             UNCHANGED <<session, chain, pos, op, from, acc, done>>
      PROVE  Works
  <2>1. Calls(outcome) /\ Passes
    BY <1>1, <1>2, CalledCalls DEF Passes, Top
  <2> QED
    BY <2>1 DEF Works
<1>3. ASSUME NEW outcome \in {"break", "fail"}, Called(outcome), Ends PROVE Works
  BY <1>1, <1>3, CalledCalls DEF Works, Outcomes
<1>4. Finish("fail", Undef) => Ends
  BY <1>1, ValuesAre, Finishes
<1>5. Recovers => Ends
  BY <1>1, EndedEnds DEF Recovers
<1>6. Broken => Ends
  BY <1>1, BrokenEnds
<1>7. CASE MapLink
  BY <1>2, <1>3, <1>4, <1>5, <1>6, <1>7 DEF MapLink
<1>8. CASE PredicateLink
  BY <1>2, <1>3, <1>4, <1>5, <1>8 DEF PredicateLink
<1> QED
  BY <1>7, <1>8

LEMMA TakeWorks ==
  ASSUME IType, Take
  PROVE  Works
<1>1. op # "none" /\ at = Top /\ calls' = calls
  BY DEF Take
<1>2. CASE op = "next" /\ Finish("nothing", Element(pos))
  BY <1>1, <1>2, ValuesAre, Finishes DEF Works
<1>3. CASE /\ op = "asArray" \/ (op = "reduce" /\ acc = <<>>)
           /\ acc' = Append(acc, pos) /\ at' = 0
           /\ UNCHANGED <<session, chain, pos, op, from, done>>
  BY <1>1, <1>3, ValuesAre DEF Works, Takes
<1> QED
  BY <1>2, <1>3 DEF Take

LEMMA ConsumeWorks ==
  ASSUME IType, Consume
  PROVE  Works
<1>1. op # "none" /\ at = Top /\ at \in 1 .. Top
  BY ValuesAre DEF Consume, Top
<1>2. ASSUME NEW outcome \in {"yes", "no"}, Called(outcome),
             GoOn(acc) \/ GoOn(Element(pos)) \/ GoOn(Append(acc, pos))
      PROVE  Works
  <2>1. Calls(outcome)
    BY <1>1, <1>2, CalledCalls
  <2>2. acc \in Lists /\ Element(pos) \in Lists /\ Append(acc, pos) \in Lists /\ Top \in Nat
    BY ValuesAre DEF Top
  <2>3. ASSUME NEW value, value \in Lists, GoOn(value) PROVE Passes
    BY <2>2, <2>3 DEF Passes, GoOn
  <2>4. Passes
    BY <1>2, <2>2, <2>3
  <2> QED
    BY <2>1, <2>4 DEF Works
<1>3. ASSUME NEW outcome \in Outcomes, Called(outcome), Ends PROVE Works
  BY <1>1, <1>3, CalledCalls DEF Works
<1>4. /\ Finish("fail", Undef) => Ends
      /\ Finish("nothing", True) => Ends
      /\ Finish("nothing", False) => Ends
      /\ Finish("nothing", Element(pos)) => Ends
  BY <1>1, ValuesAre, Finishes
<1>5. Broken => Ends
  BY <1>1, BrokenEnds
<1>6. ASSUME NEW o \in {"yes", "no"}, Called(o),
             CASE op = "all" /\ o = "no" -> Finish("nothing", False)
               [] op = "any" /\ o = "yes" -> Finish("nothing", True)
               [] op = "find" /\ o = "yes" -> Finish("nothing", Element(pos))
               [] op = "find" /\ o = "no" -> GoOn(Element(pos))
               [] op \in {"reduce", "reduce2"} -> GoOn(Append(acc, pos))
               [] OTHER -> GoOn(acc)
      PROVE  Works
  <2>1. \/ Finish("nothing", False) \/ Finish("nothing", True) \/ Finish("nothing", Element(pos))
        \/ GoOn(Element(pos)) \/ GoOn(Append(acc, pos)) \/ GoOn(acc)
    BY <1>6
  <2>2. o \in Outcomes
    BY DEF Outcomes
  <2> QED
    BY <1>2, <1>3, <1>4, <1>6, <2>1, <2>2
<1>7. ASSUME Called("break"),
             IF op = "find" THEN Finish("nothing", Element(pos)) ELSE Broken
      PROVE  Works
  BY <1>3, <1>4, <1>5, <1>7 DEF Outcomes
<1>8. ASSUME Called("fail"), Finish("fail", Undef) PROVE Works
  BY <1>3, <1>4, <1>8 DEF Outcomes
<1> QED
  BY <1>6, <1>7, <1>8 DEF Consume

LEMMA StepWorks ==
  ASSUME IType, Step
  PROVE  Works
<1>1. CASE Exhausted
  BY <1>1, EndedEnds DEF Exhausted, Works
<1>2. CASE Pull
  BY <1>2 DEF Works
<1> QED
  BY <1>1, <1>2, LinkWorks, TakeWorks, ConsumeWorks DEF Step

-----------------------------------------------------------------------------
(* Types. *)

LEMMA CallIsRecord ==
  ASSUME IType, op # "none", at \in 1 .. Top, NEW outcome \in Outcomes
  PROVE  Call(outcome) \in CallRecords
<1>1. Number \in 1 .. Bound
  BY ValuesAre DEF IType, Runs, Number
<1>2. at \in Nat \ {0} /\ pos \in 1 .. Size
  BY ValuesAre DEF IType, TypeOK, Runs, Top
<1> QED
  BY <1>1, <1>2 DEF Call, CallRecords

LEMMA TypeKept ==
  ASSUME IType, Next
  PROVE  IType'
<1>0. /\ session \in 1 .. Len(Sessions) /\ chain \in Seq(Links) /\ pos \in 0 .. Size
      /\ from \in 0 .. pos /\ op \in Operations \cup {"none"} /\ at \in 0 .. Top
      /\ (op = "none" => at = 0 /\ acc = <<>>) /\ acc \in Lists
      /\ calls \in Seq(CallRecords) /\ done \in Seq(DoneRecords)
  BY DEF IType, TypeOK, Lists, CallRecords, DoneRecords, Values, Bound
<1>1. CASE Step
  <2>1. op # "none" /\ op \in Operations /\ Len(done) < Bound
    BY <1>0, <1>1 DEF Step, Pull, Exhausted, MapLink, PredicateLink, AtLink, Take, Consume,
                      IType, Runs, Operations
  <2>2. ASSUME calls' = calls \/ \E outcome \in Outcomes : Calls(outcome), session' = session
        PROVE  calls' \in Seq(CallRecords)
    <3>1. ASSUME NEW outcome \in Outcomes, Calls(outcome) PROVE calls' \in Seq(CallRecords)
      BY <1>0, <3>1, CallIsRecord DEF Calls
    <3> QED
      BY <1>0, <2>2, <3>1
  <2>3. ASSUME Ends PROVE done' \in Seq(DoneRecords)
    <3>1. ASSUME NEW raised \in {"nothing", "break", "fail"}, NEW value \in Values
          PROVE  Ending(raised, value) \in DoneRecords
      BY <1>0, <2>1, ValuesAre DEF Ending, DoneRecords
    <3> QED
      BY <1>0, <2>3, <3>1 DEF Ends
  <2>4. ASSUME session' = session
        PROVE  Lists' = Lists /\ CallRecords' = CallRecords /\ DoneRecords' = DoneRecords
               /\ Size' = Size /\ Bound' = Bound
    BY <2>4 DEF Lists, CallRecords, DoneRecords, Values, Size, Bound
  <2>5. ASSUME Ends, calls' \in Seq(CallRecords)
        PROVE  IType'
    <3>1. session' = session /\ pos' = pos /\ from' = from /\ op' = "none" /\ chain' = <<>>
          /\ at' = 0 /\ acc' = <<>> /\ done' \in Seq(DoneRecords)
      BY <2>3, <2>5 DEF Ends
    <3>2. acc' \in Lists /\ chain' \in Seq(Links) /\ Top' = 1
      BY <3>1 DEF Lists, Top
    <3>3. TypeOK'
      <4>1. Lists' = Lists /\ CallRecords' = CallRecords /\ DoneRecords' = DoneRecords
        BY <2>4, <3>1
      <4>2. /\ session' \in 1 .. Len(Sessions) /\ chain' \in Seq(Links) /\ pos' \in 0 .. Size'
            /\ from' \in 0 .. pos' /\ op' = "none" /\ at' = 0 /\ at' \in 0 .. Top' /\ acc' = <<>>
        BY <1>0, <2>4, <3>1, <3>2
      <4>3. acc' \in Lists' /\ calls' \in Seq(CallRecords') /\ done' \in Seq(DoneRecords')
        BY <2>5, <3>1, <3>2, <4>1
      <4> QED
        BY <4>2, <4>3 DEF TypeOK, Lists, CallRecords, DoneRecords, Values, Bound
    <3> QED
      BY <3>1, <3>3 DEF IType, Runs
  <2>6. CASE Pull
    <3>1. session' = session /\ chain' = chain /\ pos' = pos + 1 /\ op' = op /\ from' = from
          /\ at' = 1 /\ acc' = acc /\ calls' = calls /\ done' = done /\ pos < Size
      BY <2>6 DEF Pull, Advanced
    <3>2. Top' = Top /\ pos' \in 0 .. Size /\ from' \in 0 .. pos' /\ at' \in 0 .. Top'
      BY <1>0, <3>1, ValuesAre DEF Top
    <3>3. TypeOK'
      BY <1>0, <2>1, <2>4, <3>1, <3>2 DEF TypeOK, Lists, CallRecords, DoneRecords, Values, Bound
    <3>4. Runs'
      BY <1>0, <2>1, <2>4, <3>1, ValuesAre DEF IType, Runs
    <3> QED
      BY <3>3, <3>4 DEF IType
  <2>7. ASSUME UNCHANGED <<session, chain, pos, op, from, done>>, acc' \in Lists,
               at' \in 0 .. Top, at' > 0 => at > 0, calls' \in Seq(CallRecords)
        PROVE  IType'
    <3>1. Top' = Top
      BY <2>7 DEF Top
    <3>2. TypeOK'
      BY <1>0, <2>1, <2>4, <2>7, <3>1 DEF TypeOK, Lists, CallRecords, DoneRecords, Values, Bound
    <3>3. Runs'
      BY <2>1, <2>4, <2>7 DEF IType, Runs
    <3> QED
      BY <3>2, <3>3 DEF IType
  <2>8. CASE Takes
    BY <1>0, <2>7, <2>8, ValuesAre DEF Takes, Top
  <2>9. CASE Ends /\ UNCHANGED calls
    BY <1>0, <2>5, <2>9
  <2>10. ASSUME NEW outcome \in {"yes", "no"}, Calls(outcome), Passes PROVE IType'
    <3>1. calls' \in Seq(CallRecords)
      BY <2>2, <2>10 DEF Passes, Outcomes
    <3> QED
      BY <1>0, <2>7, <2>10, <3>1, ValuesAre DEF Passes, Calls, Top
  <2>11. ASSUME NEW outcome \in Outcomes, Calls(outcome), Ends PROVE IType'
    <3>1. calls' \in Seq(CallRecords)
      BY <2>2, <2>11 DEF Ends
    <3> QED
      BY <2>5, <2>11, <3>1
  <2> QED
    BY <1>1, <2>6, <2>8, <2>9, <2>10, <2>11, StepWorks DEF Works
<1>2. ASSUME NEW use \in Sessions[session].uses, Begin(use) PROVE IType'
  <2>1. use \in [chain : Seq(Links), op : Operations]
    BY ValuesAre
  <2>2. /\ op = "none" /\ Len(done) < Bound /\ at = 0 /\ acc = <<>>
        /\ session' = session /\ pos' = pos /\ at' = at /\ calls' = calls /\ from' = pos
    BY <1>0, <1>2 DEF Begin, Bound
  <2>3. /\ Lists' = Lists /\ CallRecords' = CallRecords /\ DoneRecords' = DoneRecords
        /\ Size' = Size /\ Bound' = Bound
    BY <2>2 DEF Lists, CallRecords, DoneRecords, Values, Size, Bound
  <2>4. from' \in 0 .. pos' /\ 0 \in 0 .. Size /\ Size \in 0 .. Size
    BY <1>0, <2>2, ValuesAre
  <2>5. CASE use = [chain |-> <<>>, op |-> "asArray"]
    <3>1. /\ chain' = chain /\ op' = op /\ acc' = acc
          /\ done' = Append(done, [chain |-> <<>>, op |-> "asArray", from |-> 0, to |-> Size,
                                   raised |-> "nothing", value |-> [i \in 1 .. Size |-> i]])
      BY <1>2, <2>5 DEF Begin
    <3>2. done' \in Seq(DoneRecords)
      <4>1. [chain |-> <<>>, op |-> "asArray", from |-> 0, to |-> Size, raised |-> "nothing",
             value |-> [i \in 1 .. Size |-> i]] \in DoneRecords
        BY <2>4, ValuesAre DEF DoneRecords, Operations
      <4> QED
        BY <1>0, <3>1, <4>1
    <3>3. Top' = Top
      BY <3>1 DEF Top
    <3>4. TypeOK'
      BY <1>0, <2>2, <2>3, <2>4, <3>1, <3>2, <3>3
      DEF TypeOK, Lists, CallRecords, DoneRecords, Values, Bound
    <3> QED
      BY <2>2, <3>1, <3>4 DEF IType, Runs
  <2>6. CASE use # [chain |-> <<>>, op |-> "asArray"]
    <3>1. /\ chain' = use.chain /\ op' = use.op /\ acc' = IF use.op = "reduce2" THEN Initial ELSE <<>>
          /\ done' = done
      BY <1>2, <2>6 DEF Begin
    <3>2. chain' \in Seq(Links) /\ op' \in Operations /\ acc' \in Lists /\ op' # "none"
      <4>1. <<>> \in Lists
        BY DEF Lists
      <4> QED
        BY <2>1, <3>1, <4>1, ValuesAre DEF Operations
    <3>3. Top' \in Nat
      BY <3>2 DEF Top
    <3>4. TypeOK'
      BY <1>0, <2>2, <2>3, <2>4, <3>1, <3>2, <3>3
      DEF TypeOK, Lists, CallRecords, DoneRecords, Values, Bound
    <3>5. op' = "asArray" => chain' # <<>>
      BY <2>1, <2>6, <3>1
    <3> QED
      BY <2>2, <2>3, <3>1, <3>4, <3>5 DEF IType, Runs
  <2> QED
    BY <2>5, <2>6
<1> QED
  BY <1>1, <1>2 DEF Next

LEMMA TypeInitially == Init => IType
<1> SUFFICES ASSUME Init PROVE IType
  OBVIOUS
<1>1. Size \in Nat
  <2>1. Sessions[session] \in [size : Nat, uses : SUBSET [chain : Seq(Links), op : Operations],
                              calls : Nat]
    BY ConstantsAssumption, ElementOf DEF Init
  <2> QED
    BY <2>1 DEF Size
<1> QED
  BY <1>1 DEF Init, IType, TypeOK, Runs, Top

LEMMA TypeInvariant == Spec => []IType
<1>1. IType /\ UNCHANGED vars => IType'
  BY DEF IType, TypeOK, Runs, Top, Size, Bound, vars
<1> QED
  BY <1>1, TypeInitially, TypeKept, PTL DEF Spec

\* Values keep their types: no operation holds a position beyond the list, and
\* what it accumulates and returns are elements of the list.
THEOREM TypeCorrect == Spec => []TypeOK
  BY TypeInvariant, PTL DEF IType

-----------------------------------------------------------------------------
(* The calls of callbacks. *)

LEMMA Appended ==
  ASSUME NEW q, NEW S, q \in Seq(S), NEW e
  PROVE  /\ Len(Append(q, e)) = Len(q) + 1 /\ Len(q) \in Nat
         /\ Append(q, e)[Len(q) + 1] = e
         /\ \A i \in 1 .. Len(q) : Append(q, e)[i] = q[i]
OBVIOUS

\* What a step does to the calls and to the operations that have ended.
Recorded ==
  \/ calls' = calls
  \/ /\ op # "none" /\ at \in 1 .. Top /\ Len(calls') = Len(calls) + 1
     /\ \A a \in 1 .. Len(calls) : calls'[a] = calls[a]
     /\ LET new == calls'[Len(calls) + 1]
        IN  /\ new.call = Number /\ new.link = at /\ new.element = pos
            /\ new.outcome \in {"break", "fail"} => Len(done') = Number

EndsRecorded ==
  \/ done' = done
  \/ /\ Len(done') = Number
     /\ \A n \in 1 .. Len(done) : done'[n] = done[n]
     /\ op # "none" => done'[Number].op = op /\ done'[Number].from = from

LEMMA CallRecorded ==
  ASSUME IType, NEW outcome, Calls(outcome),
         outcome \in {"break", "fail"} => Len(done') = Number
  PROVE  Recorded
<1>1. calls \in Seq(CallRecords)
  BY DEF IType, TypeOK, CallRecords, Bound
<1>2. /\ Len(calls') = Len(calls) + 1 /\ calls'[Len(calls) + 1] = Call(outcome)
      /\ \A a \in 1 .. Len(calls) : calls'[a] = calls[a]
  BY <1>1, Appended DEF Calls
<1> QED
  BY <1>2 DEF Calls, Call, Recorded

LEMMA EndRecorded ==
  ASSUME IType, Ends
  PROVE  EndsRecorded /\ Len(done') = Number
<1>1. done \in Seq(DoneRecords)
  BY DEF IType, TypeOK, DoneRecords, Values
<1>2. PICK raised, value : done' = Append(done, Ending(raised, value))
  BY DEF Ends
<1>3. /\ Len(done') = Number /\ done'[Number] = Ending(raised, value)
      /\ \A n \in 1 .. Len(done) : done'[n] = done[n]
  BY <1>1, <1>2, Appended DEF Number
<1> QED
  BY <1>3 DEF EndsRecorded, Ending

\* The four kinds of steps that the arguments below tell apart: one that begins
\* an operation or returns a list at once, a pull, one that goes on (at a link or
\* behind the last one), and one that ends the operation.
Begins ==
  /\ op = "none" /\ at = 0 /\ at' = 0 /\ pos' = pos /\ from' = pos /\ calls' = calls
  /\ op' = "none" \/ done' = done

Pulls ==
  /\ op # "none" /\ at = 0 /\ at' = 1 /\ pos' = pos + 1
  /\ UNCHANGED <<chain, op, from, calls, done>>

GoesOn ==
  /\ op # "none" /\ at \in 1 .. Top /\ at' \in {0, at + 1}
  /\ calls' = calls => op = "reduce" \/ at > 1
  /\ UNCHANGED <<pos, op, from, done>>

Stops ==
  /\ op # "none" /\ op' = "none" /\ at' = 0 /\ Len(done') = Number
  /\ UNCHANGED <<pos, from>>

Kinds == Begins \/ Pulls \/ GoesOn \/ Stops

LEMMA Steps ==
  ASSUME IType, Next
  PROVE  Recorded /\ EndsRecorded /\ Kinds
<1>1. CASE Step
  <2>1. CASE Pull
    BY <2>1 DEF Pull, Kinds, Pulls, Advanced, Recorded, EndsRecorded
  <2>2. CASE Takes
    <3>1. op # "none" /\ at \in 1 .. Top
      BY <2>2, ValuesAre DEF Takes, Top
    <3>2. op = "reduce" \/ at > 1
      <4>1. CASE op = "asArray"
        <5>1. Len(chain) > 0
          BY <4>1, ValuesAre DEF IType, Runs, TypeOK
        <5> QED
          BY <2>2, <5>1, ValuesAre DEF Takes, Top
      <4> QED
        BY <2>2, <4>1 DEF Takes
    <3> QED
      BY <2>2, <3>1, <3>2 DEF Takes, Kinds, GoesOn, Recorded, EndsRecorded
  <2>3. CASE Ends /\ UNCHANGED calls
    <3>1. EndsRecorded /\ Len(done') = Number
      BY <2>3, EndRecorded
    <3> QED
      BY <2>3, <3>1 DEF Ends, Kinds, Stops, Recorded
  <2>4. ASSUME NEW outcome \in {"yes", "no"}, Calls(outcome), Passes
        PROVE  Recorded /\ EndsRecorded /\ Kinds
    <3>1. Recorded /\ Len(calls') = Len(calls) + 1
      <4>1. calls \in Seq(CallRecords)
        BY DEF IType, TypeOK, CallRecords, Bound
      <4> QED
        BY <2>4, <4>1, CallRecorded, Appended DEF Calls
    <3>2. calls' # calls
      BY <3>1, ValuesAre
    <3> QED
      BY <2>4, <3>1, <3>2 DEF Calls, Passes, Kinds, GoesOn, EndsRecorded
  <2>5. ASSUME NEW outcome \in Outcomes, Calls(outcome), Ends
        PROVE  Recorded /\ EndsRecorded /\ Kinds
    <3>1. EndsRecorded /\ Len(done') = Number
      BY <2>5, EndRecorded
    <3>2. Recorded
      BY <2>5, <3>1, CallRecorded
    <3> QED
      BY <2>5, <3>1, <3>2 DEF Ends, Kinds, Stops
  <2> QED
    BY <1>1, <2>1, <2>2, <2>3, <2>4, <2>5, StepWorks DEF Works
<1>2. ASSUME NEW use \in Sessions[session].uses, Begin(use)
      PROVE  Recorded /\ EndsRecorded /\ Kinds
  <2>1. op = "none" /\ at = 0
    BY <1>2 DEF Begin, IType, TypeOK
  <2>2. CASE use = [chain |-> <<>>, op |-> "asArray"]
    <3>1. done \in Seq(DoneRecords)
      BY DEF IType, TypeOK, DoneRecords, Values
    <3>2. PICK record : done' = Append(done, record)
      BY <1>2, <2>2 DEF Begin
    <3>3. Len(done') = Number /\ \A n \in 1 .. Len(done) : done'[n] = done[n]
      BY <3>1, <3>2, Appended DEF Number
    <3> QED
      BY <1>2, <2>1, <2>2, <3>3 DEF Begin, Kinds, Begins, Recorded, EndsRecorded
  <2>3. CASE use # [chain |-> <<>>, op |-> "asArray"]
    BY <1>2, <2>1, <2>3 DEF Begin, Kinds, Begins, Recorded, EndsRecorded
  <2> QED
    BY <2>2, <2>3
<1> QED
  BY <1>1, <1>2 DEF Next

-----------------------------------------------------------------------------
(* LastWord. *)

LEMMA CallTypes ==
  ASSUME IType
  PROVE  /\ \A a \in 1 .. Len(calls) : /\ calls[a].call \in Nat /\ calls[a].call > 0
                                       /\ calls[a].link \in Nat /\ calls[a].element \in Nat
         /\ Len(calls) \in Nat /\ Len(done) \in Nat /\ Number = Len(done) + 1
         /\ pos \in Nat /\ from \in Nat /\ at \in Nat
<1>1. calls \in Seq(CallRecords)
  BY DEF IType, TypeOK, CallRecords, Bound
<1>2. \A a \in 1 .. Len(calls) : calls[a] \in CallRecords
  BY <1>1, ElementOf
<1>3. \A a \in 1 .. Len(calls) : /\ calls[a].call \in Nat /\ calls[a].call > 0
                                /\ calls[a].link \in Nat /\ calls[a].element \in Nat
  BY <1>2, ValuesAre DEF CallRecords
<1>4. pos \in Nat /\ from \in Nat /\ at \in Nat
  BY ValuesAre DEF IType, TypeOK, Top
<1> QED
  BY <1>3, <1>4, ValuesAre DEF Number

LEMMA LastWordKept ==
  ASSUME IType, Next, LastWord
  PROVE  LastWord'
<1>1. Recorded /\ EndsRecorded /\ Len(done') >= Len(done) /\ Len(done') \in Nat
  BY Steps, CallTypes DEF EndsRecorded
<1>2. CASE calls' = calls
  BY <1>1, <1>2, CallTypes DEF LastWord
<1>3. CASE calls' # calls
  <2> DEFINE last == Len(calls) + 1
  <2>1. /\ Len(calls') = last /\ \A a \in 1 .. Len(calls) : calls'[a] = calls[a]
        /\ calls'[last].call = Number
        /\ calls'[last].outcome \in {"break", "fail"} => Len(done') = Number
    BY <1>1, <1>3 DEF Recorded
  <2>2. ASSUME NEW a \in 1 .. Len(calls), calls[a].outcome \in {"break", "fail"}
        PROVE  /\ \A b \in a + 1 .. last : calls'[b].call > calls[a].call
               /\ calls[a].call <= Len(done')
    <3>1. calls[a].call <= Len(done) /\ calls[a].call \in Nat
      BY <2>2, CallTypes DEF LastWord
    <3>2. ASSUME NEW b \in a + 1 .. Len(calls) PROVE calls'[b].call > calls[a].call
      BY <2>1, <2>2, CallTypes DEF LastWord
    <3>3. calls'[last].call > calls[a].call
      <4>1. calls'[last].call = Len(done) + 1 /\ Len(done) \in Nat
        BY <2>1, CallTypes
      <4> QED
        BY <3>1, <4>1
    <3>4. \A b \in a + 1 .. last : b \in a + 1 .. Len(calls) \/ b = last
      <4>1. Len(calls) \in Nat
        BY CallTypes
      <4> QED
        BY <4>1
    <3>5. calls[a].call <= Len(done')
      BY <1>1, <3>1, CallTypes
    <3> QED
      BY <3>2, <3>3, <3>4, <3>5
  <2>3. ASSUME calls'[last].outcome \in {"break", "fail"}
        PROVE  calls'[last].call <= Len(done')
    BY <2>1, <2>3, CallTypes
  <2> HIDE DEF last
  <2>4. last = Len(calls) + 1 /\ Len(calls) \in Nat
    BY CallTypes DEF last
  <2>5. ASSUME NEW a \in 1 .. last, calls'[a].outcome \in {"break", "fail"}
        PROVE  /\ \A b \in a + 1 .. last : calls'[b].call > calls'[a].call
               /\ calls'[a].call <= Len(done')
    <3>1. CASE a \in 1 .. Len(calls)
      BY <2>1, <2>2, <2>5, <3>1
    <3>2. CASE a = last
      BY <2>3, <2>4, <2>5, <3>2
    <3> QED
      BY <2>4, <3>1, <3>2
  <2> QED
    BY <2>1, <2>5 DEF LastWord
<1> QED
  BY <1>2, <1>3

\* Wherever a callback sits, in a link, in the operation or in both, nothing is
\* called after it has broken or failed until the next operation begins.
THEOREM NothingAfterTheLastWord == Spec => []LastWord
<1>1. Init => LastWord
  BY DEF Init, LastWord
<1>2. LastWord /\ UNCHANGED vars => LastWord'
  BY DEF LastWord, vars
<1> QED
  BY <1>1, <1>2, LastWordKept, TypeInvariant, PTL DEF Spec

-----------------------------------------------------------------------------
(* InOrder: the order. *)

Sorted ==
  \A a, b \in 1 .. Len(calls) :
    a < b /\ (calls[a].link = calls[b].link \/ calls[a].call < calls[b].call)
      => calls[a].element < calls[b].element

\* No call is of an operation to come or of an element to come, and those of
\* the element that is under way are of the links that it has left.
Behind ==
  \A a \in 1 .. Len(calls) :
    /\ calls[a].call <= Number /\ (op = "none" => calls[a].call <= Len(done))
    /\ calls[a].element <= pos
    /\ at > 0 /\ calls[a].element = pos => calls[a].call = Number /\ calls[a].link < at

\* A step that calls.
Adds ==
  LET last == Len(calls) + 1
  IN  /\ op # "none" /\ at > 0 /\ Len(calls') = last
      /\ \A a \in 1 .. last : a = last \/ (a \in 1 .. Len(calls) /\ calls'[a] = calls[a])
      /\ calls'[last].call = Number /\ calls'[last].link = at /\ calls'[last].element = pos

LEMMA AddsOrNot ==
  ASSUME IType, Next
  PROVE  calls' = calls \/ Adds
<1>1. Recorded
  BY Steps
<1>2. \A a \in 1 .. Len(calls) + 1 : a = Len(calls) + 1 \/ a \in 1 .. Len(calls)
  BY CallTypes
<1> QED
  BY <1>1, <1>2 DEF Recorded, Adds

\* What a step does to the operation that runs, for the calls that there are.
LEMMA Moves ==
  ASSUME IType, Next
  PROVE  /\ at' \in Nat /\ pos' \in Nat /\ Len(done') \in Nat /\ Number' = Len(done') + 1
         /\ pos <= pos' /\ Number <= Number'
         /\ op # "none" /\ op' = "none" => Len(done') = Number
         /\ op # "none" /\ op' # "none" => Number' = Number
         /\ at' > 0 /\ pos' = pos => op # "none" /\ op' # "none" /\ at > 0 /\ at < at'
         /\ Adds => pos' = pos
<1>1. EndsRecorded /\ Kinds
  BY Steps
<1>2. Len(done') \in Nat /\ Number' = Len(done') + 1 /\ Number <= Number'
  BY <1>1, CallTypes DEF EndsRecorded, Number
<1>3. CASE Begins
  BY <1>2, <1>3, CallTypes DEF Begins, Adds
<1>4. CASE Pulls
  BY <1>2, <1>4, CallTypes DEF Pulls, Adds, Number
<1>5. CASE GoesOn
  BY <1>2, <1>5, CallTypes DEF GoesOn, Number
<1>6. CASE Stops
  BY <1>2, <1>6, CallTypes DEF Stops
<1> QED
  BY <1>1, <1>3, <1>4, <1>5, <1>6 DEF Kinds

LEMMA BehindKept ==
  ASSUME IType, Next, Behind
  PROVE  Behind'
<1>1. ASSUME NEW a \in 1 .. Len(calls)
      PROVE  /\ calls[a].call <= Number' /\ (op' = "none" => calls[a].call <= Len(done'))
             /\ calls[a].element <= pos'
             /\ at' > 0 /\ calls[a].element = pos' => calls[a].call = Number' /\ calls[a].link < at'
  <2>1. /\ calls[a].call <= Number /\ (op = "none" => calls[a].call <= Len(done))
        /\ calls[a].element <= pos
        /\ at > 0 /\ calls[a].element = pos => calls[a].call = Number /\ calls[a].link < at
    BY DEF Behind
  <2>2. calls[a].call \in Nat /\ calls[a].link \in Nat /\ calls[a].element \in Nat
    BY CallTypes
  <2>3. calls[a].call <= Number' /\ (op' = "none" => calls[a].call <= Len(done'))
    BY <2>1, <2>2, Moves, CallTypes
  <2>4. calls[a].element <= pos'
    BY <2>1, <2>2, Moves, CallTypes
  <2>5. ASSUME at' > 0, calls[a].element = pos'
        PROVE  calls[a].call = Number' /\ calls[a].link < at'
    <3>1. pos' = pos
      BY <2>1, <2>2, <2>5, Moves, CallTypes
    <3> QED
      BY <2>1, <2>2, <2>5, <3>1, Moves, CallTypes
  <2> QED
    BY <2>3, <2>4, <2>5
<1>2. CASE calls' = calls
  BY <1>1, <1>2 DEF Behind
<1>3. CASE Adds
  <2> DEFINE last == Len(calls) + 1
  <2>1. /\ calls'[last].call <= Number' /\ (op' = "none" => calls'[last].call <= Len(done'))
        /\ calls'[last].element <= pos'
        /\ at' > 0 /\ calls'[last].element = pos'
             => calls'[last].call = Number' /\ calls'[last].link < at'
    BY <1>3, Moves, CallTypes DEF Adds
  <2> QED
    BY <1>1, <1>3, <2>1 DEF Adds, Behind
<1> QED
  BY <1>2, <1>3, AddsOrNot

LEMMA SortedKept ==
  ASSUME IType, Next, Behind, Sorted
  PROVE  Sorted'
<1>1. CASE calls' = calls
  BY <1>1 DEF Sorted
<1>2. CASE Adds
  <2> DEFINE last == Len(calls) + 1
  <2>1. ASSUME NEW a \in 1 .. Len(calls), calls[a].link = at \/ calls[a].call < Number
        PROVE  calls[a].element < pos
    BY <1>2, <2>1, CallTypes DEF Adds, Behind
  <2>2. ASSUME NEW a \in 1 .. last, NEW b \in 1 .. last, a < b,
               calls'[a].link = calls'[b].link \/ calls'[a].call < calls'[b].call
        PROVE  calls'[a].element < calls'[b].element
    <3>1. a \in 1 .. Len(calls) /\ calls'[a] = calls[a]
      BY <1>2, <2>2, CallTypes DEF Adds
    <3>2. CASE b = last
      BY <1>2, <2>1, <2>2, <3>1, <3>2 DEF Adds
    <3>3. CASE b # last
      <4>1. b \in 1 .. Len(calls) /\ calls'[b] = calls[b]
        BY <1>2, <3>3 DEF Adds
      <4> QED
        BY <2>2, <3>1, <4>1 DEF Sorted
    <3> QED
      BY <3>2, <3>3
  <2> QED
    BY <1>2, <2>2 DEF Adds, Sorted
<1> QED
  BY <1>1, <1>2, AddsOrNot

-----------------------------------------------------------------------------
(* InOrder: the numbers. *)

\* The calls of the innermost callback by operation n, up to call b of q.
Firsts(q, n, b) == {a \in 1 .. b : q[a].link = 1 /\ q[a].call = n}

\* While an operation runs.
Counted ==
  op \notin {"none", "reduce"} =>
    Cardinality(Firsts(calls, Number, Len(calls))) = (IF at = 1 THEN pos - 1 ELSE pos) - from

Numbered ==
  \A b \in 1 .. Len(calls) :
    calls[b].link = 1 /\ Running(calls[b].call).op # "reduce" =>
      Cardinality(Firsts(calls, calls[b].call, b)) =
        calls[b].element - Running(calls[b].call).from

LEMMA FirstsFinite ==
  ASSUME NEW q, NEW n, NEW b \in Nat
  PROVE  IsFiniteSet(Firsts(q, n, b)) /\ Cardinality(Firsts(q, n, b)) \in Nat
<1>1. IsFiniteSet(1 .. b)
  BY FS_Interval
<1>2. Firsts(q, n, b) \in SUBSET (1 .. b)
  BY DEF Firsts
<1>3. IsFiniteSet(Firsts(q, n, b))
  BY <1>1, <1>2, FS_Subset
<1> QED
  BY <1>3, FS_CardinalityType

LEMMA FirstsAfter ==
  ASSUME IType, Adds, NEW n
  PROVE  /\ \A b \in 1 .. Len(calls) : Firsts(calls', n, b) = Firsts(calls, n, b)
         /\ Cardinality(Firsts(calls', n, Len(calls'))) =
              IF at = 1 /\ n = Number
              THEN Cardinality(Firsts(calls, n, Len(calls))) + 1
              ELSE Cardinality(Firsts(calls, n, Len(calls)))
<1> DEFINE last == Len(calls) + 1
<1>1. ASSUME NEW b \in 1 .. Len(calls) PROVE Firsts(calls', n, b) = Firsts(calls, n, b)
  <2>1. \A a \in 1 .. b : calls'[a] = calls[a]
    BY CallTypes DEF Adds
  <2> QED
    BY <2>1 DEF Firsts
<1>2. Firsts(calls', n, Len(calls')) =
        Firsts(calls, n, Len(calls)) \cup (IF at = 1 /\ n = Number THEN {last} ELSE {})
  <2>1. Len(calls') = last /\ calls'[last].link = at /\ calls'[last].call = Number
    BY DEF Adds
  <2>2. \A a : a \in 1 .. last <=> a = last \/ a \in 1 .. Len(calls)
    BY CallTypes
  <2>3. \A a \in 1 .. Len(calls) : calls'[a] = calls[a] /\ a # last
    BY CallTypes DEF Adds
  <2> HIDE DEF last
  <2> QED
    BY <2>1, <2>2, <2>3 DEF Firsts
<1>3. last \notin Firsts(calls, n, Len(calls))
  BY CallTypes DEF Firsts
<1>4. IsFiniteSet(Firsts(calls, n, Len(calls)))
  BY CallTypes, FirstsFinite
<1> HIDE DEF last
<1> QED
  BY <1>1, <1>2, <1>3, <1>4, FS_AddElement

\* Running of the state that a step leads to.
RunningAfter(n) == IF n <= Len(done') THEN done'[n] ELSE [op |-> op', from |-> from']

LEMMA RunningKept ==
  ASSUME IType, Next, NEW n \in Nat \ {0}, n <= Number, op = "none" => n <= Len(done)
  PROVE  RunningAfter(n).op = Running(n).op /\ RunningAfter(n).from = Running(n).from
<1>1. EndsRecorded /\ Kinds
  BY Steps
<1>2. CASE n <= Len(done)
  <2>1. n \in 1 .. Len(done)
    BY <1>2, CallTypes
  <2>2. n <= Len(done') /\ done'[n] = done[n]
    BY <1>1, <1>2, <2>1, CallTypes DEF EndsRecorded
  <2> QED
    BY <1>2, <2>2 DEF Running, RunningAfter
<1>3. CASE ~(n <= Len(done))
  <2>1. n = Number /\ op # "none"
    BY <1>3, CallTypes
  <2>2. CASE done' = done
    <3>1. op' = op /\ from' = from
      BY <1>1, <2>1, <2>2, CallTypes DEF Kinds, Begins, Pulls, GoesOn, Stops
    <3> QED
      BY <1>3, <2>2, <3>1 DEF Running, RunningAfter
  <2>3. CASE done' # done
    <3>1. Len(done') = n /\ done'[n].op = op /\ done'[n].from = from
      BY <1>1, <2>1, <2>3 DEF EndsRecorded
    <3> QED
      BY <1>3, <3>1 DEF Running, RunningAfter
  <2> QED
    BY <2>2, <2>3
<1> QED
  BY <1>2, <1>3

LEMMA CountedKept ==
  ASSUME IType, Next, Behind, Counted
  PROVE  Counted'
<1> SUFFICES ASSUME op' \notin {"none", "reduce"}
             PROVE  Cardinality(Firsts(calls', Number', Len(calls'))) =
                      (IF at' = 1 THEN pos' - 1 ELSE pos') - from'
  BY DEF Counted
<1> DEFINE count == Cardinality(Firsts(calls, Number, Len(calls)))
<1>1. EndsRecorded /\ Kinds
  BY Steps
<1>2. CASE op = "none"
  <2>1. Begins
    BY <1>1, <1>2 DEF Kinds, Pulls, GoesOn, Stops
  <2>2. done' = done /\ at' = 0 /\ pos' = pos /\ from' = pos /\ calls' = calls /\ Number' = Number
    BY <2>1 DEF Begins, Number
  <2>3. Firsts(calls, Number, Len(calls)) = {}
    BY <1>2, CallTypes DEF Firsts, Behind
  <2> QED
    BY <2>2, <2>3, FS_EmptySet, CallTypes
<1>3. CASE op # "none"
  <2>1. Pulls \/ GoesOn
    BY <1>1, <1>3 DEF Kinds, Begins, Stops
  <2>2. op' = op /\ from' = from /\ Number' = Number
    BY <2>1 DEF Pulls, GoesOn, Number
  <2>3. count = (IF at = 1 THEN pos - 1 ELSE pos) - from /\ count \in Nat
    BY <1>3, <2>2, FirstsFinite, CallTypes DEF Counted
  <2> HIDE DEF count
  <2>4. CASE Pulls
    <3>1. calls' = calls /\ at = 0 /\ at' = 1 /\ pos' = pos + 1
      BY <2>4 DEF Pulls
    <3>2. Cardinality(Firsts(calls', Number', Len(calls'))) = count
      BY <2>2, <3>1 DEF count
    <3> QED
      BY <2>2, <2>3, <3>1, <3>2, CallTypes
  <2>5. CASE GoesOn
    <3>1. at > 0 /\ at' # 1 /\ pos' = pos
      BY <2>5, CallTypes DEF GoesOn
    <3>2. CASE calls' = calls
      <4>1. at > 1
        BY <2>2, <2>5, <3>2 DEF GoesOn
      <4>2. Cardinality(Firsts(calls', Number', Len(calls'))) = count
        BY <2>2, <3>2 DEF count
      <4> QED
        BY <2>2, <2>3, <3>1, <4>1, <4>2, CallTypes
    <3>3. CASE Adds
      <4>1. \A n : Cardinality(Firsts(calls', n, Len(calls'))) =
                     IF at = 1 /\ n = Number
                     THEN Cardinality(Firsts(calls, n, Len(calls))) + 1
                     ELSE Cardinality(Firsts(calls, n, Len(calls)))
        BY <3>3, FirstsAfter
      <4>2. Cardinality(Firsts(calls', Number', Len(calls'))) = IF at = 1 THEN count + 1 ELSE count
        BY <2>2, <4>1 DEF count
      <4> QED
        BY <2>2, <2>3, <3>1, <4>2, CallTypes
    <3> QED
      BY <3>2, <3>3, AddsOrNot
  <2> QED
    BY <2>1, <2>4, <2>5
<1> QED
  BY <1>2, <1>3

LEMMA NumberedKept ==
  ASSUME IType, Next, Behind, Counted, Numbered
  PROVE  Numbered'
<1> DEFINE Right(b) == calls'[b].link = 1 /\ RunningAfter(calls'[b].call).op # "reduce" =>
                         Cardinality(Firsts(calls', calls'[b].call, b)) =
                           calls'[b].element - RunningAfter(calls'[b].call).from
<1>1. SUFFICES \A b \in 1 .. Len(calls') : Right(b)
  BY DEF Numbered, Running, RunningAfter
<1>2. ASSUME NEW b \in 1 .. Len(calls), calls'[b] = calls[b],
             Firsts(calls', calls[b].call, b) = Firsts(calls, calls[b].call, b)
      PROVE  Right(b)
  <2> DEFINE n == calls[b].call
  <2>1. n \in Nat \ {0} /\ n <= Number /\ (op = "none" => n <= Len(done))
    BY CallTypes DEF Behind
  <2>2. RunningAfter(n).op = Running(n).op /\ RunningAfter(n).from = Running(n).from
    BY <2>1, RunningKept
  <2> QED
    BY <1>2, <2>2 DEF Numbered
<1>3. CASE calls' = calls
  BY <1>2, <1>3
<1>4. CASE Adds
  <2> DEFINE last == Len(calls) + 1
  <2>1. ASSUME NEW b \in 1 .. Len(calls) PROVE Right(b)
    <3>1. calls'[b] = calls[b]
      BY <1>4, <2>1, CallTypes DEF Adds
    <3>2. \A n : Firsts(calls', n, b) = Firsts(calls, n, b)
      BY <1>4, FirstsAfter
    <3> QED
      BY <1>2, <3>1, <3>2
  <2>2. Right(last)
    <3>1. /\ op # "none" /\ at > 0 /\ Len(calls') = last /\ calls'[last].call = Number
          /\ calls'[last].link = at /\ calls'[last].element = pos
      BY <1>4 DEF Adds
    <3>2. Running(Number).op = op /\ Running(Number).from = from
      BY CallTypes DEF Running
    <3>3. RunningAfter(Number).op = op /\ RunningAfter(Number).from = from
      BY <3>1, <3>2, RunningKept, CallTypes
    <3>4. SUFFICES ASSUME at = 1, op # "reduce"
                   PROVE  Cardinality(Firsts(calls', Number, last)) = pos - from
      BY <3>1, <3>3
    <3>5. \A n : Cardinality(Firsts(calls', n, Len(calls'))) =
                   IF at = 1 /\ n = Number
                   THEN Cardinality(Firsts(calls, n, Len(calls))) + 1
                   ELSE Cardinality(Firsts(calls, n, Len(calls)))
      BY <1>4, FirstsAfter
    <3>6. Cardinality(Firsts(calls', Number, last))
            = Cardinality(Firsts(calls, Number, Len(calls))) + 1
      BY <3>1, <3>4, <3>5
    <3>7. Cardinality(Firsts(calls, Number, Len(calls))) = pos - 1 - from
      BY <3>1, <3>4 DEF Counted
    <3> QED
      BY <3>6, <3>7, CallTypes
  <2>3. \A b \in 1 .. Len(calls') : b = last \/ b \in 1 .. Len(calls)
    BY <1>4 DEF Adds
  <2> QED
    BY <2>1, <2>2, <2>3
<1> QED
  BY <1>3, <1>4, AddsOrNot

\* Through whatever chain and after whatever operations on the same iterator, no
\* callback gets an element twice or out of order, and the elements are numbered
\* right by counting the calls of the innermost callback.
THEOREM ElementsInOrder == Spec => []InOrder
<1>1. Init => Behind /\ Sorted /\ Counted /\ Numbered
  BY DEF Init, Behind, Sorted, Counted, Numbered
<1>2. UNCHANGED vars /\ Behind /\ Sorted /\ Counted /\ Numbered
        => Behind' /\ Sorted' /\ Counted' /\ Numbered'
  BY DEF vars, Behind, Sorted, Counted, Numbered, Number, Running
<1>3. ASSUME NEW b, b \in 1 .. Len(calls)
      PROVE  Firsts(calls, calls[b].call, b)
               = {a \in 1 .. b : calls[a].link = 1 /\ calls[a].call = calls[b].call}
  BY DEF Firsts
<1>4. Sorted /\ Numbered => InOrder
  BY <1>3 DEF Sorted, Numbered, InOrder
<1> QED
  BY <1>1, <1>2, <1>4, BehindKept, SortedKept, CountedKept, NumberedKept, TypeInvariant, PTL
  DEF Spec

-----------------------------------------------------------------------------
(* BreakStaysInside. *)

Accepted(link) == IF link = "reject" THEN "no" ELSE "yes"

\* A link of operation n has not let element i pass.
Rejected(n, links, i) ==
  \E k \in 1 .. Len(links) : \E a \in 1 .. Len(calls) :
    /\ calls[a].call = n /\ calls[a].link = k /\ calls[a].element = i
    /\ calls[a].outcome # Accepted(links[k])

\* Link k of operation n has called break on element i, and no predicate is above it.
BrokenAt(n, links, i) ==
  \E k \in 1 .. Len(links) : \E a \in 1 .. Len(calls) :
    /\ calls[a].call = n /\ calls[a].link = k /\ calls[a].element = i
    /\ calls[a].outcome = "break"
    /\ \A j \in k .. Len(links) : links[j] = "map"

\* While nothing would recover in the operation, nothing has come through.
NoneThrough ==
  op \in Unguarded =>
    \A i \in from + 1 .. (IF at = 0 THEN pos ELSE pos - 1) : Rejected(Number, chain, i)

BreaksRecorded ==
  \A n \in 1 .. Len(done) : done[n].raised = "break" =>
    /\ done[n].op \in {"next", "reduce"}
    /\ \A i \in done[n].from + 1 .. done[n].to : Rejected(n, done[n].chain, i)
    /\ BrokenAt(n, done[n].chain, done[n].to)

\* An operation that a break gets out of.
BreaksOut(record) ==
  /\ op \in Unguarded /\ at \in 1 .. Len(chain) /\ \A j \in at .. Len(chain) : chain[j] = "map"
  /\ calls' = Append(calls, Call("break")) /\ record = Ending("break", Undef)

LEMMA FinishAppends ==
  ASSUME NEW raised, NEW value, Finish(raised, value)
  PROVE  done' = Append(done, Ending(raised, value)) /\ op' = "none"
BY DEF Finish, Ending

LEMMA BreaksOutOnly ==
  ASSUME IType, Next
  PROVE  \/ done' = done
         \/ \E record : done' = Append(done, record) /\ (record.raised = "break" => BreaksOut(record))
<1> DEFINE Fine == \E record : /\ done' = Append(done, record)
                               /\ record.raised = "break" => BreaksOut(record)
<1>1. ASSUME NEW raised \in {"nothing", "fail"}, NEW value, Finish(raised, value) PROVE Fine
  <2>1. Ending(raised, value).raised = raised
    BY DEF Ending
  <2> QED
    BY <1>1, <2>1, FinishAppends
<1>2. Ended \/ Recovers => Fine
  BY <1>1 DEF Ended, Recovers
<1>3. op \notin Unguarded /\ Broken => Fine
  BY <1>1 DEF Broken
<1>4. CASE Pull \/ Exhausted
  BY <1>2, <1>4 DEF Pull, Exhausted
<1>5. CASE MapLink
  <2>1. at \in 1 .. Len(chain) /\ chain \in Seq(Links)
    BY <1>5 DEF MapLink, AtLink, IType, TypeOK
  <2>2. ASSUME Called("break"), ~\E k \in at + 1 .. Len(chain) : chain[k] # "map", Broken,
               op \in Unguarded
        PROVE  Fine
    <3>1. calls' = Append(calls, Call("break"))
      BY <2>2 DEF Called, Call, Number
    <3>2. \A j \in at .. Len(chain) : chain[j] = "map"
      <4>1. \A j \in at .. Len(chain) : j = at \/ j \in at + 1 .. Len(chain)
        BY <2>1
      <4> QED
        BY <1>5, <2>2, <4>1 DEF MapLink
    <3>3. done' = Append(done, Ending("break", Undef))
      BY <2>2, FinishAppends DEF Broken
    <3>4. BreaksOut(Ending("break", Undef))
      BY <2>1, <2>2, <3>1, <3>2 DEF BreaksOut
    <3> QED
      BY <3>3, <3>4
  <2> QED
    BY <1>1, <1>2, <1>3, <1>5, <2>2 DEF MapLink
<1>6. CASE PredicateLink
  BY <1>1, <1>2, <1>6 DEF PredicateLink
<1>7. CASE Take
  BY <1>1, <1>7 DEF Take
<1>8. CASE Consume
  <2>1. op \notin Unguarded
    BY <1>8 DEF Consume, Unguarded
  <2>2. ASSUME NEW o \in {"yes", "no"},
               CASE op = "all" /\ o = "no" -> Finish("nothing", False)
                 [] op = "any" /\ o = "yes" -> Finish("nothing", True)
                 [] op = "find" /\ o = "yes" -> Finish("nothing", Element(pos))
                 [] op = "find" /\ o = "no" -> GoOn(Element(pos))
                 [] op \in {"reduce", "reduce2"} -> GoOn(Append(acc, pos))
                 [] OTHER -> GoOn(acc)
        PROVE  done' = done \/ Fine
    BY <1>1, <2>2 DEF GoOn
  <2> QED
    BY <1>1, <1>3, <1>8, <2>1, <2>2 DEF Consume
<1>9. ASSUME NEW use, Begin(use) PROVE done' = done \/ Fine
  <2>1. CASE use = [chain |-> <<>>, op |-> "asArray"]
    <3> DEFINE record == [chain |-> <<>>, op |-> "asArray", from |-> 0, to |-> Size,
                          raised |-> "nothing", value |-> [i \in 1 .. Size |-> i]]
    <3>1. done' = Append(done, record)
      BY <1>9, <2>1 DEF Begin
    <3>2. record.raised = "nothing"
      OBVIOUS
    <3> HIDE DEF record
    <3> QED
      BY <3>1, <3>2
  <2> QED
    BY <1>9, <2>1 DEF Begin
<1> QED
  BY <1>4, <1>5, <1>6, <1>7, <1>8, <1>9 DEF Next, Step

\* What a step does while nothing would recover.
CallsOn(outcome) == calls' = Append(calls, Call(outcome)) /\ pos' = pos /\ at > 0
Unrecovered ==
  /\ op \in Unguarded /\ UNCHANGED <<op, from, chain, done>>
  /\ \/ calls' = calls /\ at = 0 /\ at' = 1 /\ pos' = pos + 1
     \/ \E outcome : CallsOn(outcome) /\ at' > 0
     \/ \E outcome : /\ CallsOn(outcome) /\ at \in 1 .. Len(chain) /\ at' = 0
                     /\ outcome # Accepted(chain[at])

LEMMA UnrecoveredSteps ==
  ASSUME IType, Next
  PROVE  op' \notin Unguarded' \/ (from' = pos' /\ at' = 0) \/ Unrecovered
<1>1. op' = "none" => op' \notin Unguarded'
  BY DEF Unguarded
<1>2. \A raised, value : Finish(raised, value) => op' \notin Unguarded'
  BY <1>1 DEF Finish
<1>3. Ended \/ Recovers \/ Broken => op' \notin Unguarded'
  BY <1>2 DEF Ended, Recovers, Broken
<1>4. ASSUME op' = op, acc' = acc, op' \in Unguarded' PROVE op \in Unguarded
  BY <1>4 DEF Unguarded
<1>5. \A outcome : Called(outcome) => calls' = Append(calls, Call(outcome))
  BY DEF Called, Call, Number
<1>6. CASE Pull
  BY <1>4, <1>6 DEF Pull, Advanced, Unrecovered
<1>7. CASE Exhausted
  BY <1>3, <1>7 DEF Exhausted
<1>8. CASE MapLink
  <2>1. at \in Nat /\ at > 0
    BY <1>8, ValuesAre DEF MapLink, AtLink
  <2>2. ASSUME Called("yes"), at' = at + 1, UNCHANGED <<session, chain, pos, op, from, acc, done>>,
               op' \in Unguarded'
        PROVE  Unrecovered
    BY <1>4, <1>5, <2>1, <2>2 DEF Unrecovered, CallsOn
  <2> QED
    BY <1>2, <1>3, <1>8, <2>2 DEF MapLink
<1>9. CASE PredicateLink
  <2>1. at \in 1 .. Len(chain) /\ at \in Nat /\ at > 0 /\ chain[at] \in Links \ {"map"}
    <3>1. at \in 1 .. Len(chain) /\ chain[at] # "map" /\ chain \in Seq(Links)
      BY <1>9 DEF PredicateLink, AtLink, IType, TypeOK
    <3> QED
      BY <3>1, ElementOf
  <2>2. ASSUME NEW o \in {"yes", "no"}, Called(o),
               at' = IF o = Wanted(chain[at]) THEN at + 1 ELSE 0,
               UNCHANGED <<session, chain, pos, op, from, acc, done>>, op' \in Unguarded'
        PROVE  Unrecovered
    <3>1. Wanted(chain[at]) = Accepted(chain[at])
      BY <2>1 DEF Wanted, Accepted, Links
    <3>2. CASE o = Wanted(chain[at])
      BY <1>4, <1>5, <2>1, <2>2, <3>2 DEF Unrecovered, CallsOn
    <3>3. CASE o # Wanted(chain[at])
      BY <1>4, <1>5, <2>1, <2>2, <3>1, <3>3 DEF Unrecovered, CallsOn
    <3> QED
      BY <3>2, <3>3
  <2> QED
    BY <1>2, <1>3, <1>9, <2>2 DEF PredicateLink
<1>10. acc \in Seq(0 .. Size)
  BY DEF IType, TypeOK
<1>11. Append(acc, pos) # <<>>
  <2>1. Len(Append(acc, pos)) = Len(acc) + 1 /\ Len(acc) \in Nat
    BY <1>10, Appended
  <2> QED
    BY <2>1
<1>12. CASE Take
  BY <1>2, <1>11, <1>12 DEF Take, Unguarded
<1>13. CASE Consume
  <2>1. \A value : GoOn(value) => op' = op /\ acc' = value
    BY DEF GoOn
  <2>2. op' = op /\ op \notin {"reduce", "next"} => op' \notin Unguarded'
    BY DEF Unguarded
  <2>3. op \in {"each", "all", "any", "find", "reduce2", "reduce"}
    BY <1>13 DEF Consume
  <2>4. op' = op /\ acc' = Append(acc, pos) => op' \notin Unguarded'
    BY <1>11, <2>3 DEF Unguarded
  <2>5. ASSUME NEW o \in {"yes", "no"},
               CASE op = "all" /\ o = "no" -> Finish("nothing", False)
                 [] op = "any" /\ o = "yes" -> Finish("nothing", True)
                 [] op = "find" /\ o = "yes" -> Finish("nothing", Element(pos))
                 [] op = "find" /\ o = "no" -> GoOn(Element(pos))
                 [] op \in {"reduce", "reduce2"} -> GoOn(Append(acc, pos))
                 [] OTHER -> GoOn(acc)
        PROVE  op' \notin Unguarded'
    BY <1>2, <2>1, <2>2, <2>3, <2>4, <2>5
  <2> QED
    BY <1>2, <1>3, <1>13, <2>5 DEF Consume
<1>14. ASSUME NEW use, Begin(use) PROVE op' \notin Unguarded' \/ (from' = pos' /\ at' = 0)
  BY <1>1, <1>14 DEF Begin, IType, TypeOK
<1> QED
  BY <1>6, <1>7, <1>8, <1>9, <1>12, <1>13, <1>14 DEF Next, Step

\* Rejected and BrokenAt of the state that a step leads to.
RejectedAfter(n, links, i) ==
  \E k \in 1 .. Len(links) : \E a \in 1 .. Len(calls') :
    /\ calls'[a].call = n /\ calls'[a].link = k /\ calls'[a].element = i
    /\ calls'[a].outcome # Accepted(links[k])

BrokenAfter(n, links, i) ==
  \E k \in 1 .. Len(links) : \E a \in 1 .. Len(calls') :
    /\ calls'[a].call = n /\ calls'[a].link = k /\ calls'[a].element = i
    /\ calls'[a].outcome = "break"
    /\ \A j \in k .. Len(links) : links[j] = "map"

\* Calls stay what they are.
LEMMA CallsStay ==
  ASSUME IType, Next, NEW n, NEW links, NEW i
  PROVE  /\ Rejected(n, links, i) => RejectedAfter(n, links, i)
         /\ BrokenAt(n, links, i) => BrokenAfter(n, links, i)
<1>1. Recorded
  BY Steps
<1>2. \A a \in 1 .. Len(calls) : a \in 1 .. Len(calls') /\ calls'[a] = calls[a]
  BY <1>1, CallTypes DEF Recorded
<1> QED
  BY <1>2 DEF Rejected, RejectedAfter, BrokenAt, BrokenAfter

\* The call that a step has added.
LEMMA CalledLast ==
  ASSUME IType, NEW outcome, calls' = Append(calls, Call(outcome))
  PROVE  \E a \in 1 .. Len(calls') :
           /\ calls'[a].call = Number /\ calls'[a].link = at /\ calls'[a].element = pos
           /\ calls'[a].outcome = outcome
<1>1. calls \in Seq(CallRecords)
  BY DEF IType, TypeOK, CallRecords, Bound
<1>2. Len(calls') = Len(calls) + 1 /\ Len(calls) \in Nat /\ calls'[Len(calls) + 1] = Call(outcome)
  BY <1>1, Appended
<1>3. Len(calls) + 1 \in 1 .. Len(calls')
  BY <1>2
<1> QED
  BY <1>2, <1>3 DEF Call

LEMMA NoneThroughKept ==
  ASSUME IType, Next, NoneThrough
  PROVE  NoneThrough'
<1> SUFFICES ASSUME op' \in Unguarded',
                    NEW i \in from' + 1 .. (IF at' = 0 THEN pos' ELSE pos' - 1)
             PROVE  RejectedAfter(Number', chain', i)
  BY DEF NoneThrough, Rejected, RejectedAfter
<1>1. from' = pos' /\ at' = 0 => FALSE
  BY Moves
<1>2. Unrecovered
  BY <1>1, UnrecoveredSteps
<1>3. Number' = Number /\ chain' = chain /\ from' = from /\ op \in Unguarded
  BY <1>2 DEF Unrecovered, Number
<1>4. CASE i \in from + 1 .. (IF at = 0 THEN pos ELSE pos - 1)
  <2>1. Rejected(Number, chain, i)
    BY <1>3, <1>4 DEF NoneThrough
  <2> QED
    BY <1>3, <2>1, CallsStay
<1>5. CASE i \notin from + 1 .. (IF at = 0 THEN pos ELSE pos - 1)
  <2>1. PICK outcome : /\ CallsOn(outcome) /\ at \in 1 .. Len(chain)
                       /\ outcome # Accepted(chain[at]) /\ i = pos
    BY <1>2, <1>3, <1>5, CallTypes DEF Unrecovered, CallsOn
  <2>2. PICK a \in 1 .. Len(calls') :
          /\ calls'[a].call = Number /\ calls'[a].link = at /\ calls'[a].element = pos
          /\ calls'[a].outcome = outcome
    BY <2>1, CalledLast DEF CallsOn
  <2> QED
    BY <1>3, <2>1, <2>2 DEF RejectedAfter
<1> QED
  BY <1>4, <1>5

LEMMA BreaksRecordedKept ==
  ASSUME IType, Next, NoneThrough, BreaksRecorded
  PROVE  BreaksRecorded'
<1> DEFINE Right(n, r) == /\ r.op \in {"next", "reduce"}
                          /\ \A i \in r.from + 1 .. r.to : RejectedAfter(n, r.chain, i)
                          /\ BrokenAfter(n, r.chain, r.to)
<1> SUFFICES ASSUME NEW n \in 1 .. Len(done'), done'[n].raised = "break"
             PROVE  Right(n, done'[n])
  BY DEF BreaksRecorded, Rejected, BrokenAt, RejectedAfter, BrokenAfter
<1>1. ASSUME n \in 1 .. Len(done), done'[n] = done[n]
      PROVE  Right(n, done'[n])
  <2> DEFINE r == done[n]
  <2>1. /\ r.op \in {"next", "reduce"}
        /\ \A i \in r.from + 1 .. r.to : Rejected(n, r.chain, i)
        /\ BrokenAt(n, r.chain, r.to)
    BY <1>1 DEF BreaksRecorded
  <2>2. Right(n, r)
    BY <2>1, CallsStay
  <2> QED
    BY <1>1, <2>2
<1>2. CASE done' = done
  BY <1>1, <1>2
<1>3. ASSUME NEW record, done' = Append(done, record), record.raised = "break" => BreaksOut(record)
      PROVE  Right(n, done'[n])
  <2>1. done \in Seq(DoneRecords)
    BY DEF IType, TypeOK, DoneRecords, Values
  <2>2. /\ Len(done') = Number /\ Len(done) \in Nat /\ Number = Len(done) + 1
        /\ done'[Number] = record /\ \A m \in 1 .. Len(done) : done'[m] = done[m]
    BY <1>3, <2>1, Appended DEF Number
  <2>3. CASE n \in 1 .. Len(done)
    BY <1>1, <2>2, <2>3
  <2>4. CASE n = Number
    <3>1. BreaksOut(record)
      BY <1>3, <2>2, <2>4
    <3>2. record.op = op /\ record.from = from /\ record.to = pos /\ record.chain = chain
      BY <3>1 DEF BreaksOut, Ending
    <3>3. at > 0 /\ op \in {"next", "reduce"}
      BY <3>1, CallTypes DEF BreaksOut, Unguarded
    <3>4. PICK a \in 1 .. Len(calls') :
            /\ calls'[a].call = Number /\ calls'[a].link = at /\ calls'[a].element = pos
            /\ calls'[a].outcome = "break"
      BY <3>1, CalledLast DEF BreaksOut
    <3>5. BrokenAfter(Number, chain, pos)
      BY <3>1, <3>4 DEF BreaksOut, BrokenAfter
    <3>6. RejectedAfter(Number, chain, pos)
      BY <3>1, <3>4 DEF BreaksOut, RejectedAfter, Accepted
    <3>7. ASSUME NEW i \in from + 1 .. pos PROVE RejectedAfter(Number, chain, i)
      <4>1. CASE i \in from + 1 .. pos - 1
        <5>1. Rejected(Number, chain, i)
          BY <3>1, <3>3, <4>1, CallTypes DEF NoneThrough, BreaksOut
        <5> QED
          BY <5>1, CallsStay
      <4> QED
        BY <3>6, <4>1, CallTypes
    <3> QED
      BY <2>2, <2>4, <3>2, <3>3, <3>5, <3>7
  <2> QED
    BY <2>2, <2>3, <2>4
<1> QED
  BY <1>2, <1>3, BreaksOutOnly

\* An element that a link has rejected has not come through, since that link has
\* been called with it once.
LEMMA RejectedNotDelivered ==
  ASSUME IType, Sorted, NEW n \in 1 .. Len(done), NEW i, Rejected(n, done[n].chain, i)
  PROVE  ~Delivered(n, i)
<1> DEFINE links == done[n].chain
<1>1. PICK k \in 1 .. Len(links), a \in 1 .. Len(calls) :
        /\ calls[a].call = n /\ calls[a].link = k /\ calls[a].element = i
        /\ calls[a].outcome # Accepted(links[k])
  BY DEF Rejected
<1>2. ASSUME Delivered(n, i) PROVE FALSE
  <2>1. Said(n, k, i, {Accepted(links[k])})
    BY <1>2 DEF Delivered, Accepted
  <2>2. PICK c \in ToSet(calls) :
          c.call = n /\ c.link = k /\ c.element = i /\ c.outcome = Accepted(links[k])
    BY <2>1 DEF Said
  <2>3. PICK b \in 1 .. Len(calls) : c = calls[b]
    <3>1. calls \in Seq(CallRecords)
      BY DEF IType, TypeOK, CallRecords, Bound
    <3>2. DOMAIN calls = 1 .. Len(calls)
      BY <3>1
    <3> QED
      BY <3>2 DEF ToSet
  <2>4. a < b \/ b < a
    BY <1>1, <2>2, <2>3, CallTypes
  <2>5. calls[a].link = calls[b].link /\ calls[a].element = calls[b].element
    BY <1>1, <2>2, <2>3
  <2>6. calls[a].element \in Nat
    BY CallTypes
  <2>7. a < b => calls[a].element < calls[b].element
    BY <2>5 DEF Sorted
  <2>8. b < a => calls[b].element < calls[a].element
    BY <2>5 DEF Sorted
  <2> QED
    BY <2>4, <2>5, <2>6, <2>7, <2>8
<1> QED
  BY <1>2

\* Whatever chain an iterator has, a break gets out of an operation only from a
\* mapper without a predicate above it, before anything has come through, in a
\* single Next or in the first one of Reduce; and out of no function of the
\* language, since none has such a chain.
THEOREM NoBreakEscapes == Spec => []BreakStaysInside
<1>1. Init => NoneThrough /\ BreaksRecorded /\ Behind /\ Sorted
  BY DEF Init, NoneThrough, BreaksRecorded, Unguarded, Behind, Sorted
<1>2. UNCHANGED vars /\ NoneThrough /\ BreaksRecorded /\ Behind /\ Sorted
        => NoneThrough' /\ BreaksRecorded' /\ Behind' /\ Sorted'
  BY DEF vars, NoneThrough, BreaksRecorded, Unguarded, Rejected, BrokenAt, Number, Behind, Sorted
<1>3. IType /\ Sorted /\ BreaksRecorded => BreakStaysInside
  <2> SUFFICES ASSUME IType, Sorted, BreaksRecorded, NEW n \in 1 .. Len(done),
                      done[n].raised = "break"
               PROVE  /\ done[n].op \in {"next", "reduce"}
                      /\ \A i \in done[n].from + 1 .. done[n].to : ~Delivered(n, i)
                      /\ \E k \in 1 .. Len(done[n].chain) :
                           /\ Said(n, k, done[n].to, {"break"})
                           /\ \A j \in k .. Len(done[n].chain) : done[n].chain[j] = "map"
                      /\ [chain |-> done[n].chain, op |-> done[n].op] \notin LanguageFunctions
    BY DEF BreakStaysInside
  <2> DEFINE links == done[n].chain
  <2>1. /\ done[n].op \in {"next", "reduce"}
        /\ \A i \in done[n].from + 1 .. done[n].to : Rejected(n, links, i)
        /\ BrokenAt(n, links, done[n].to)
    BY DEF BreaksRecorded
  <2>2. \A i \in done[n].from + 1 .. done[n].to : ~Delivered(n, i)
    BY <2>1, RejectedNotDelivered
  <2>3. PICK k \in 1 .. Len(links), a \in 1 .. Len(calls) :
          /\ calls[a].call = n /\ calls[a].link = k /\ calls[a].element = done[n].to
          /\ calls[a].outcome = "break"
          /\ \A j \in k .. Len(links) : links[j] = "map"
    BY <2>1 DEF BrokenAt
  <2>4. Said(n, k, done[n].to, {"break"})
    <3>1. calls \in Seq(CallRecords)
      BY DEF IType, TypeOK, CallRecords, Bound
    <3>2. calls[a] \in ToSet(calls)
      BY <3>1 DEF ToSet
    <3> QED
      BY <2>3, <3>2 DEF Said
  <2>5. links # <<>>
    BY <2>3
  <2>6. [chain |-> links, op |-> done[n].op] \notin LanguageFunctions
    BY <2>1, <2>5 DEF LanguageFunctions, EachFunction, AllFunction, AnyFunction, MapFunction,
                      FilterFunction, KeysFunction, ReduceFunctions
  <2> QED
    BY <2>1, <2>2, <2>3, <2>4, <2>6
<1> QED
  BY <1>1, <1>2, <1>3, NoneThroughKept, BreaksRecordedKept, BehindKept, SortedKept, TypeInvariant,
     PTL DEF Spec

-----------------------------------------------------------------------------
(* ResultOfElements: lists in ascending order. *)

LEMMA AscendsEmpty ==
  Ascends(<<>>, {})
BY DEF Ascends, ToSet

LEMMA AscendsOne ==
  ASSUME NEW x
  PROVE  Ascends(<<x>>, {x})
<1>1. Len(<<x>>) = 1 /\ DOMAIN <<x>> = 1 .. 1 /\ <<x>>[1] = x
  OBVIOUS
<1>2. ToSet(<<x>>) = {x}
  BY <1>1 DEF ToSet
<1>3. \A a, b \in 1 .. Len(<<x>>) : ~(a < b)
  BY <1>1
<1> QED
  BY <1>2, <1>3 DEF Ascends

LEMMA AscendsMore ==
  ASSUME NEW q \in Seq(Nat), NEW set, Ascends(q, set), NEW x \in Nat, \A i \in set : i < x
  PROVE  Ascends(Append(q, x), set \cup {x})
<1> DEFINE longer == Append(q, x)
           last == Len(q) + 1
<1>1. /\ Len(longer) = last /\ Len(q) \in Nat /\ longer[last] = x
      /\ \A i \in 1 .. Len(q) : longer[i] = q[i]
  BY Appended
<1>2. DOMAIN longer = 1 .. last /\ DOMAIN q = 1 .. Len(q)
  BY <1>1
<1>3. \A a : a \in 1 .. last <=> a \in 1 .. Len(q) \/ a = last
  BY <1>1
<1>4. ToSet(q) = set
  BY DEF Ascends
<1> HIDE DEF longer, last
<1>5. ToSet(longer) = ToSet(q) \cup {x}
  <2>1. ASSUME NEW y \in ToSet(longer) PROVE y \in ToSet(q) \cup {x}
    <3>1. PICK a \in 1 .. last : y = longer[a]
      BY <1>2 DEF ToSet
    <3> QED
      BY <1>1, <1>2, <1>3, <3>1 DEF ToSet
  <2>2. ASSUME NEW y \in ToSet(q) PROVE y \in ToSet(longer)
    <3>1. PICK a \in 1 .. Len(q) : y = q[a]
      BY <1>2 DEF ToSet
    <3> QED
      BY <1>1, <1>2, <1>3, <3>1 DEF ToSet
  <2>3. x \in ToSet(longer)
    BY <1>1, <1>2, <1>3 DEF ToSet
  <2> QED
    BY <2>1, <2>2, <2>3
<1>6. ASSUME NEW a \in 1 .. last, NEW b \in 1 .. last, a < b
      PROVE  longer[a] < longer[b]
  <2>1. a \in 1 .. Len(q)
    BY <1>1, <1>3, <1>6 DEF last
  <2>2. q[a] \in set
    BY <1>2, <1>4, <2>1 DEF ToSet
  <2>3. CASE b = last
    BY <1>1, <2>1, <2>2, <2>3
  <2>4. CASE b \in 1 .. Len(q)
    BY <1>1, <1>6, <2>1, <2>4 DEF Ascends
  <2> QED
    BY <1>3, <2>3, <2>4
<1> QED
  BY <1>1, <1>4, <1>5, <1>6 DEF Ascends, longer

-----------------------------------------------------------------------------
(* ResultOfElements: the elements that have come through. *)

\* Said, Delivered, Through and Answered, of the calls in a sequence.
Heard(q, n, k, i, outcomes) ==
  \E a \in 1 .. Len(q) :
    q[a].call = n /\ q[a].link = k /\ q[a].element = i /\ q[a].outcome \in outcomes

Came(q, n, links, i) == \A k \in 1 .. Len(links) : Heard(q, n, k, i, {Accepted(links[k])})
AllThrough(q, n, links, first, last) == {i \in first + 1 .. last : Came(q, n, links, i)}
HeardOf(q, n, links, set, outcomes) == {i \in set : Heard(q, n, Len(links) + 1, i, outcomes)}

\* What an operation over these links has got after these calls.
Gets(operation, value, q, n, links, first, last) ==
  LET through == AllThrough(q, n, links, first, last)
  IN  Means(operation, value, through, HeardOf(q, n, links, through, {"yes"}),
            HeardOf(q, n, links, through, {"no"}))

LEMMA SaidIsHeard ==
  ASSUME IType, NEW n, NEW k, NEW i, NEW outcomes
  PROVE  Said(n, k, i, outcomes) <=> Heard(calls, n, k, i, outcomes)
<1>1. calls \in Seq(CallRecords)
  BY DEF IType, TypeOK, CallRecords, Bound
<1>2. DOMAIN calls = 1 .. Len(calls)
  BY <1>1
<1> QED
  BY <1>2 DEF Said, Heard, ToSet

\* The step adds a call, or none.
AddsCall(outcome) == calls' = Append(calls, Call(outcome))

LEMMA HeardAfter ==
  ASSUME IType, NEW outcome, AddsCall(outcome), NEW n, NEW k, NEW i, NEW outcomes
  PROVE  Heard(calls', n, k, i, outcomes) <=>
           \/ Heard(calls, n, k, i, outcomes)
           \/ n = Number /\ k = at /\ i = pos /\ outcome \in outcomes
<1> DEFINE last == Len(calls) + 1
<1>1. calls \in Seq(CallRecords)
  BY DEF IType, TypeOK, CallRecords, Bound
<1>2. /\ Len(calls') = last /\ Len(calls) \in Nat /\ calls'[last] = Call(outcome)
      /\ \A a \in 1 .. Len(calls) : calls'[a] = calls[a]
  BY <1>1, Appended DEF AddsCall
<1>3. \A a : a \in 1 .. last <=> a \in 1 .. Len(calls) \/ a = last
  BY <1>2
<1>4. /\ Call(outcome).call = Number /\ Call(outcome).link = at
      /\ Call(outcome).element = pos /\ Call(outcome).outcome = outcome
  BY DEF Call
<1> HIDE DEF last
<1> QED
  BY <1>2, <1>3, <1>4 DEF Heard

\* A callback that has not got the element yet has not said anything of it.
LEMMA NotYet ==
  ASSUME IType, Behind, at > 0, NEW n, NEW k, NEW outcomes, Heard(calls, n, k, pos, outcomes)
  PROVE  n = Number /\ k < at
BY DEF Heard, Behind

Before == IF at = 0 THEN pos ELSE pos - 1

\* What has come through to the operation that runs, without the element that is
\* under way, and what its callback has returned of it.
ThroughNow == AllThrough(calls, Number, chain, from, Before)
HeardNow(outcomes) == HeardOf(calls, Number, chain, ThroughNow, outcomes)

\* The element that is under way has come through the links that it has left.
UnderWay ==
  at > 0 => /\ from < pos
            /\ \A k \in 1 .. at - 1 : Heard(calls, Number, k, pos, {Accepted(chain[k])})

\* After a step that leaves the operation at the element that is under way, or
\* behind it.
ThroughThen(last) == AllThrough(calls', Number, chain, from, last)
HeardThen(last, outcomes) == HeardOf(calls', Number, chain, ThroughThen(last), outcomes)

\* The elements before.
LEMMA EarlierStay ==
  ASSUME IType, NEW outcome, AddsCall(outcome), at > 0
  PROVE  /\ ThroughThen(pos - 1) = ThroughNow
         /\ \A outcomes : HeardThen(pos - 1, outcomes) = HeardNow(outcomes)
<1>1. pos \in Nat /\ from \in Nat /\ at # 0
  BY CallTypes
<1>2. ASSUME NEW i \in from + 1 .. pos - 1, NEW k, NEW outcomes
      PROVE  Heard(calls', Number, k, i, outcomes) <=> Heard(calls, Number, k, i, outcomes)
  BY <1>1, <1>2, HeardAfter
<1>3. ThroughThen(pos - 1) = ThroughNow
  BY <1>1, <1>2 DEF ThroughThen, ThroughNow, Before, AllThrough, Came
<1>4. \A i \in ThroughNow : i \in from + 1 .. pos - 1
  BY <1>1 DEF ThroughNow, Before, AllThrough
<1>5. ASSUME NEW outcomes PROVE HeardThen(pos - 1, outcomes) = HeardNow(outcomes)
  BY <1>2, <1>3, <1>4 DEF HeardThen, HeardNow, HeardOf
<1> QED
  BY <1>3, <1>5

\* The element that is under way comes through, or does not.
LEMMA OneMoreThrough ==
  ASSUME IType, UnderWay, at > 0
  PROVE  ThroughThen(pos) = IF Came(calls', Number, chain, pos)
                            THEN ThroughThen(pos - 1) \cup {pos} ELSE ThroughThen(pos - 1)
<1>1. pos \in Nat /\ from \in Nat /\ from < pos
  BY CallTypes DEF UnderWay
<1>2. \A i : i \in from + 1 .. pos <=> i \in from + 1 .. pos - 1 \/ i = pos
  BY <1>1
<1> QED
  BY <1>2 DEF ThroughThen, AllThrough

\* A link has called its callback, and has not got what lets the element pass.
LEMMA Stopped ==
  ASSUME IType, Behind, UnderWay, NEW outcome, AddsCall(outcome), at \in 1 .. Len(chain),
         outcome # Accepted(chain[at])
  PROVE  ThroughThen(pos) = ThroughNow /\ \A outcomes : HeardThen(pos, outcomes) = HeardNow(outcomes)
<1>1. at \in Nat /\ at > 0
  BY CallTypes
<1>2. ~Heard(calls', Number, at, pos, {Accepted(chain[at])})
  <2>1. ~Heard(calls, Number, at, pos, {Accepted(chain[at])})
    BY <1>1, NotYet
  <2> QED
    BY <2>1, HeardAfter
<1>3. ~Came(calls', Number, chain, pos)
  BY <1>2 DEF Came
<1>4. ThroughThen(pos) = ThroughThen(pos - 1)
  BY <1>1, <1>3, OneMoreThrough
<1> QED
  BY <1>1, <1>4, EarlierStay DEF HeardThen

\* The element has been delivered to the operation, which calls its callback.
LEMMA Delivers ==
  ASSUME IType, Behind, UnderWay, NEW outcome, AddsCall(outcome), at = Top
  PROVE  /\ ThroughThen(pos) = ThroughNow \cup {pos}
         /\ \A outcomes : HeardThen(pos, outcomes) =
              IF outcome \in outcomes THEN HeardNow(outcomes) \cup {pos} ELSE HeardNow(outcomes)
<1>1. at \in Nat /\ at > 0 /\ at = Len(chain) + 1 /\ Len(chain) \in Nat /\ pos \in Nat /\ from \in Nat
  BY CallTypes, ValuesAre DEF Top
<1>2. Came(calls', Number, chain, pos)
  <2>1. \A k \in 1 .. Len(chain) : k \in 1 .. at - 1
    BY <1>1
  <2>2. \A k \in 1 .. Len(chain) : Heard(calls, Number, k, pos, {Accepted(chain[k])})
    BY <1>1, <2>1 DEF UnderWay
  <2> QED
    BY <2>2, HeardAfter DEF Came
<1>3. ThroughThen(pos) = ThroughNow \cup {pos}
  BY <1>1, <1>2, OneMoreThrough, EarlierStay
<1>4. ASSUME NEW outcomes
      PROVE  HeardThen(pos, outcomes) =
               IF outcome \in outcomes THEN HeardNow(outcomes) \cup {pos} ELSE HeardNow(outcomes)
  <2>1. Heard(calls', Number, at, pos, outcomes) <=> outcome \in outcomes
    <3>1. ~Heard(calls, Number, at, pos, outcomes)
      BY <1>1, NotYet
    <3> QED
      BY <3>1, HeardAfter
  <2>2. \A i \in ThroughNow : i # pos
    BY <1>1 DEF ThroughNow, AllThrough, Before
  <2>3. \A i : i # pos => (Heard(calls', Number, at, i, outcomes) <=> Heard(calls, Number, at, i, outcomes))
    BY HeardAfter
  <2> QED
    BY <1>1, <1>3, <2>1, <2>2, <2>3 DEF HeardThen, HeardNow, HeardOf
<1> QED
  BY <1>3, <1>4

\* The element has been delivered to the operation, which has no callback for it.
LEMMA DeliversOnly ==
  ASSUME IType, Behind, UnderWay, calls' = calls, at = Top
  PROVE  /\ ThroughThen(pos) = ThroughNow \cup {pos}
         /\ \A outcomes : HeardThen(pos, outcomes) = HeardNow(outcomes)
<1>1. at \in Nat /\ at > 0 /\ at = Len(chain) + 1 /\ Len(chain) \in Nat /\ pos \in Nat /\ from \in Nat
  BY CallTypes, ValuesAre DEF Top
<1>2. Came(calls', Number, chain, pos)
  <2>1. \A k \in 1 .. Len(chain) : k \in 1 .. at - 1
    BY <1>1
  <2> QED
    BY <1>1, <2>1 DEF UnderWay, Came
<1>3. ThroughThen(pos - 1) = ThroughNow
  BY <1>1 DEF ThroughThen, ThroughNow, Before
<1>4. ThroughThen(pos) = ThroughNow \cup {pos}
  BY <1>1, <1>2, <1>3, OneMoreThrough
<1>5. ASSUME NEW outcomes PROVE HeardThen(pos, outcomes) = HeardNow(outcomes)
  <2>1. ~Heard(calls, Number, at, pos, outcomes)
    BY <1>1, NotYet
  <2> QED
    BY <1>1, <1>4, <2>1 DEF HeardThen, HeardNow, HeardOf
<1> QED
  BY <1>4, <1>5

-----------------------------------------------------------------------------
(* ResultOfElements: what an operation accumulates. *)

\* What a running operation has, of the elements that have come through and of
\* those for which its callback has returned "yes" or "no".
Meanwhile(operation, value, through, yes, no) ==
  /\ operation = "all" => no = {}
  /\ operation \in {"any", "find"} => yes = {}
  /\ operation = "next" => through = {}
  /\ operation \in {"each", "all", "any", "next"} => value = <<>>
  /\ operation = "asArray" => Ascends(value, through)
  /\ operation = "reduce" => /\ Ascends(value, Least(through) \cup yes \cup no)
                             /\ value = <<>> <=> through = {}
  /\ operation = "reduce2" => Ascends(value, {0} \cup yes \cup no)

\* How an operation begins, and how it ends when there are no more elements or
\* after a break that it does not get to see.
LEMMA BeginsWith ==
  ASSUME NEW operation \in Operations
  PROVE  Meanwhile(operation, IF operation = "reduce2" THEN Initial ELSE <<>>, {}, {}, {})
<1>1. Ascends(<<>>, {}) /\ Ascends(<<0>>, {0}) /\ Least({}) = {}
  BY AscendsEmpty, AscendsOne DEF Least
<1> QED
  BY <1>1 DEF Meanwhile, Initial

LEMMA EndsWith ==
  ASSUME NEW operation \in Operations, NEW value, NEW through, NEW yes, NEW no,
         Meanwhile(operation, value, through, yes, no)
  PROVE  Means(operation, CASE operation = "all" -> True
                            [] operation = "any" -> False
                            [] operation = "find" -> Default
                            [] OTHER -> value, through, yes, no)
<1>1. CASE operation \in {"all", "any", "find"}
  BY <1>1 DEF Meanwhile, Means
<1>2. CASE operation = "next"
  BY <1>2, AscendsEmpty DEF Meanwhile, Means
<1>3. CASE operation \in {"asArray", "reduce", "reduce2"}
  BY <1>3 DEF Meanwhile, Means
<1>4. CASE operation = "each"
  BY <1>4 DEF Meanwhile, Means, Undef
<1> QED
  BY <1>1, <1>2, <1>3, <1>4 DEF Operations

\* One more element comes through, greater than those before.
LEMMA LeastStays ==
  ASSUME NEW through, through # {}, NEW x, \A i \in through : i \in Nat /\ i < x, x \in Nat
  PROVE  Least(through \cup {x}) = Least(through)
BY DEF Least

LEMMA LeastOfOne ==
  ASSUME NEW x \in Nat
  PROVE  Least({x}) = {x}
BY DEF Least

\* The operation has no callback for it: next returns it, the others keep it.
LEMMA TakesOne ==
  ASSUME NEW operation \in Operations, NEW value \in Seq(Nat), NEW through, NEW yes, NEW no,
         Meanwhile(operation, value, through, yes, no), yes \subseteq through, no \subseteq through,
         NEW x \in Nat, \A i \in through : i \in Nat /\ i < x
  PROVE  /\ operation = "next" => Means(operation, Element(x), through \cup {x}, yes, no)
         /\ operation = "asArray" \/ (operation = "reduce" /\ value = <<>>) =>
              Meanwhile(operation, Append(value, x), through \cup {x}, yes, no)
<1>1. Append(value, x) # <<>>
  <2>1. Len(Append(value, x)) = Len(value) + 1 /\ Len(value) \in Nat
    BY Appended
  <2> QED
    BY <2>1
<1>2. CASE operation = "next"
  <2>1. through \cup {x} = {x} /\ Ascends(<<x>>, {x})
    BY <1>2, AscendsOne DEF Meanwhile
  <2> QED
    BY <1>2, <2>1 DEF Means, Element
<1>3. CASE operation = "asArray"
  <2>1. Ascends(Append(value, x), through \cup {x})
    BY <1>3, AscendsMore DEF Meanwhile
  <2> QED
    BY <1>3, <2>1 DEF Meanwhile
<1>4. CASE operation = "reduce" /\ value = <<>>
  <2>1. through = {} /\ yes = {} /\ no = {}
    BY <1>4 DEF Meanwhile
  <2>2. through \cup {x} = {x} /\ Least({x}) \cup yes \cup no = {x}
    BY <2>1, LeastOfOne
  <2>3. Ascends(Append(value, x), {x})
    <3>1. Ascends(<<>>, {}) /\ {} \cup {x} = {x}
      BY AscendsEmpty
    <3>2. Ascends(Append(value, x), {} \cup {x})
      <4>1. Ascends(value, {}) /\ \A i \in {} : i < x
        BY <1>4, <3>1
      <4> QED
        BY <4>1, AscendsMore
    <3> QED
      BY <1>4, <3>1, <3>2
  <2>4. {x} # {}
    OBVIOUS
  <2> QED
    BY <1>1, <1>4, <2>2, <2>3, <2>4 DEF Meanwhile
<1> QED
  BY <1>2, <1>3, <1>4

\* The callback of the operation has returned: the operation has its result, or
\* goes on.
LEMMA ConsumesOne ==
  ASSUME NEW operation \in {"each", "all", "any", "find", "reduce2", "reduce"},
         NEW value \in Seq(Nat), NEW through, NEW yes, NEW no,
         Meanwhile(operation, value, through, yes, no), yes \subseteq through, no \subseteq through,
         NEW x \in Nat \ {0}, \A i \in through : i \in Nat /\ i < x,
         operation = "reduce" => value # <<>>,
         NEW o \in {"yes", "no"}, NEW yesThen, NEW noThen,
         yesThen = IF o = "yes" THEN yes \cup {x} ELSE yes,
         noThen = IF o = "no" THEN no \cup {x} ELSE no
  PROVE  /\ operation = "all" /\ o = "no" =>
              Means(operation, False, through \cup {x}, yesThen, noThen)
         /\ operation = "any" /\ o = "yes" =>
              Means(operation, True, through \cup {x}, yesThen, noThen)
         /\ operation = "find" /\ o = "yes" =>
              Means(operation, Element(x), through \cup {x}, yesThen, noThen)
         /\ operation = "find" /\ o = "no" =>
              Meanwhile(operation, Element(x), through \cup {x}, yesThen, noThen)
         /\ operation \in {"reduce", "reduce2"} =>
              Meanwhile(operation, Append(value, x), through \cup {x}, yesThen, noThen)
         /\ (operation = "each" \/ (operation = "all" /\ o = "yes") \/ (operation = "any" /\ o = "no")) =>
              Meanwhile(operation, value, through \cup {x}, yesThen, noThen)
<1>1. CASE operation = "all"
  BY <1>1 DEF Means, Meanwhile
<1>2. CASE operation = "any"
  BY <1>2 DEF Means, Meanwhile
<1>3. CASE operation = "each"
  BY <1>3 DEF Means, Meanwhile
<1>4. CASE operation = "find"
  <2>1. yes = {}
    BY <1>4 DEF Meanwhile
  <2>2. CASE o = "yes"
    <3>1. yesThen = {x} /\ Ascends(<<x>>, {x})
      BY <2>1, <2>2, AscendsOne
    <3> QED
      BY <1>4, <2>2, <3>1 DEF Means, Element
  <2>3. CASE o = "no"
    BY <1>4, <2>1, <2>3 DEF Meanwhile
  <2> QED
    BY <2>2, <2>3
<1>5. yesThen \cup noThen = (yes \cup no) \cup {x}
  OBVIOUS
<1>6. CASE operation = "reduce2"
  <2>1. Ascends(value, {0} \cup yes \cup no)
    BY <1>6 DEF Meanwhile
  <2>2. \A i \in {0} \cup yes \cup no : i < x
    OBVIOUS
  <2>3. Ascends(Append(value, x), ({0} \cup yes \cup no) \cup {x})
    BY <2>1, <2>2, AscendsMore
  <2>4. ({0} \cup yes \cup no) \cup {x} = {0} \cup yesThen \cup noThen
    BY <1>5
  <2> QED
    BY <1>6, <2>3, <2>4 DEF Meanwhile
<1>7. CASE operation = "reduce"
  <2>1. Ascends(value, Least(through) \cup yes \cup no) /\ through # {}
    BY <1>7 DEF Meanwhile
  <2>2. \A i \in Least(through) \cup yes \cup no : i < x
    BY DEF Least
  <2>3. Ascends(Append(value, x), (Least(through) \cup yes \cup no) \cup {x})
    BY <2>1, <2>2, AscendsMore
  <2>4. Least(through \cup {x}) = Least(through)
    BY <2>1, LeastStays
  <2>5. (Least(through) \cup yes \cup no) \cup {x} = Least(through \cup {x}) \cup yesThen \cup noThen
    BY <1>5, <2>4
  <2>6. Append(value, x) # <<>> /\ through \cup {x} # {}
    <3>1. Len(Append(value, x)) = Len(value) + 1 /\ Len(value) \in Nat
      BY Appended
    <3> QED
      BY <3>1
  <2> QED
    BY <1>7, <2>3, <2>5, <2>6 DEF Meanwhile
<1> QED
  BY <1>1, <1>2, <1>3, <1>4, <1>6, <1>7

\* The callback of the operation has called break.
LEMMA BreaksAtOne ==
  ASSUME NEW operation \in {"each", "all", "any", "reduce2", "reduce"},
         NEW value, NEW through, NEW yes, NEW no,
         Meanwhile(operation, value, through, yes, no),
         NEW x \in Nat, \A i \in through : i \in Nat /\ i < x,
         operation = "reduce" => value # <<>>
  PROVE  Means(operation, CASE operation = "all" -> True
                            [] operation = "any" -> False
                            [] OTHER -> value, through \cup {x}, yes, no)
<1>1. CASE operation \in {"all", "any"}
  BY <1>1 DEF Meanwhile, Means
<1>2. CASE operation \in {"each", "reduce2"}
  BY <1>2 DEF Meanwhile, Means, Undef
<1>3. CASE operation = "reduce"
  <2>1. Least(through \cup {x}) = Least(through)
    BY <1>3, LeastStays DEF Meanwhile
  <2> QED
    BY <1>3, <2>1 DEF Meanwhile, Means
<1> QED
  BY <1>1, <1>2, <1>3

-----------------------------------------------------------------------------
(* ResultOfElements: the steps. *)

Accumulates ==
  op # "none" => Meanwhile(op, acc, ThroughNow, HeardNow({"yes"}), HeardNow({"no"}))

\* The operation goes on, and has what it should have.
BeforeThen == IF at' = 0 THEN pos ELSE pos - 1
GoesRight ==
  /\ op # "none" /\ UNCHANGED <<chain, pos, op, from, done>>
  /\ Meanwhile(op, acc', ThroughThen(BeforeThen), HeardThen(BeforeThen, {"yes"}),
               HeardThen(BeforeThen, {"no"}))
  /\ at' > 0 =>
       /\ from < pos
       /\ \A k \in 1 .. at' - 1 : Heard(calls', Number, k, pos, {Accepted(chain[k])})

\* The operation ends, and what it returns is what it should.
MeansThen(value) ==
  Means(op, value, ThroughThen(pos), HeardThen(pos, {"yes"}), HeardThen(pos, {"no"}))
EndsRight ==
  \E raised, value :
    /\ Finish(raised, value)
    /\ raised = "nothing" => (op = "find" /\ AddsCall("break")) \/ MeansThen(value)

Fits == IType /\ Behind /\ UnderWay /\ Accumulates

\* Of the elements before.
LEMMA NumbersBefore ==
  ASSUME Fits, at > 0
  PROVE  /\ pos \in Nat \ {0} /\ \A i \in ThroughNow : i \in Nat /\ i < pos
         /\ \A outcomes : HeardNow(outcomes) \subseteq ThroughNow
         /\ acc \in Seq(Nat) /\ op \in Operations /\ op # "none"
<1>1. pos \in Nat /\ from \in Nat /\ from < pos /\ at # 0
  BY CallTypes DEF UnderWay, Fits
<1>2. \A i \in ThroughNow : i \in Nat /\ i < pos
  BY <1>1 DEF ThroughNow, AllThrough, Before
<1>3. \A outcomes : HeardNow(outcomes) \subseteq ThroughNow
  BY DEF HeardNow, HeardOf
<1>4. acc \in Seq(Nat)
  <2>1. acc \in Seq(0 .. Size) /\ Size \in Nat
    BY ValuesAre DEF Fits, Lists
  <2> QED
    BY <2>1, SequenceIn
<1>5. op \in Operations /\ op # "none"
  BY DEF Fits, IType, TypeOK, Runs
<1> QED
  BY <1>1, <1>2, <1>3, <1>4, <1>5

\* A break or the end of the list that the operation does not get to see.
LEMMA EndedRight ==
  ASSUME Fits, op \in Operations, Ended,
         ThroughThen(pos) = ThroughNow, \A outcomes : HeardThen(pos, outcomes) = HeardNow(outcomes)
  PROVE  EndsRight
<1> DEFINE value == CASE op = "all" -> True
                      [] op = "any" -> False
                      [] op = "find" -> Default
                      [] OTHER -> acc
<1>1. Finish("nothing", value)
  BY DEF Ended
<1>2. op # "none"
  BY DEF Operations
<1>3. Meanwhile(op, acc, ThroughNow, HeardNow({"yes"}), HeardNow({"no"}))
  BY <1>2 DEF Fits, Accumulates
<1>4. Means(op, value, ThroughNow, HeardNow({"yes"}), HeardNow({"no"}))
  BY <1>3, EndsWith
<1>5. MeansThen(value)
  BY <1>4 DEF MeansThen
<1> HIDE DEF value
<1> QED
  BY <1>1, <1>5 DEF EndsRight

LEMMA ExhaustedRight ==
  ASSUME Fits, Exhausted
  PROVE  EndsRight
<1>1. op \in Operations /\ Ended /\ calls' = calls /\ at = 0
  BY DEF Exhausted, Fits, IType, TypeOK
<1>2. ThroughThen(pos) = ThroughNow /\ \A outcomes : HeardThen(pos, outcomes) = HeardNow(outcomes)
  BY <1>1 DEF ThroughThen, ThroughNow, Before, HeardThen, HeardNow
<1> QED
  BY <1>1, <1>2, EndedRight

\* A link passes the element on, rejects it, or has its callback break or fail.
LEMMA LinkRight ==
  ASSUME Fits, MapLink \/ PredicateLink
  PROVE  EndsRight \/ GoesRight
<1>1. /\ op \in Operations /\ op # "none" /\ at \in 1 .. Len(chain) /\ at \in Nat /\ at > 0
      /\ chain \in Seq(Links) /\ chain[at] \in Links
  <2>1. at \in 1 .. Len(chain) /\ op # "none" /\ chain \in Seq(Links) /\ op \in Operations
    BY DEF MapLink, PredicateLink, AtLink, Fits, IType, TypeOK
  <2> QED
    BY <2>1, ElementOf
<1>2. Meanwhile(op, acc, ThroughNow, HeardNow({"yes"}), HeardNow({"no"}))
  BY <1>1 DEF Fits, Accumulates
<1>3. \A outcome : Called(outcome) => AddsCall(outcome)
  BY DEF Called, AddsCall, Call, Number
<1>4. \A outcome : AddsCall(outcome) =>
        \A k : Heard(calls', Number, k, pos, {Accepted(chain[k])}) <=>
                 \/ Heard(calls, Number, k, pos, {Accepted(chain[k])})
                 \/ k = at /\ outcome = Accepted(chain[k])
  BY HeardAfter DEF Fits
<1>5. ASSUME NEW outcome, Called(outcome), outcome = Accepted(chain[at]), at' = at + 1,
             UNCHANGED <<session, chain, pos, op, from, acc, done>>
      PROVE  GoesRight
  <2>1. BeforeThen = pos - 1 /\ at' > 0
    BY <1>1, <1>5 DEF BeforeThen
  <2>2. /\ ThroughThen(pos - 1) = ThroughNow
        /\ \A outcomes : HeardThen(pos - 1, outcomes) = HeardNow(outcomes)
    BY <1>1, <1>3, <1>5, EarlierStay DEF Fits
  <2>3. \A k \in 1 .. at' - 1 : k = at \/ k \in 1 .. at - 1
    BY <1>1, <1>5
  <2>4. \A k \in 1 .. at' - 1 : Heard(calls', Number, k, pos, {Accepted(chain[k])})
    BY <1>1, <1>3, <1>4, <1>5, <2>3 DEF Fits, UnderWay
  <2>5. from < pos
    BY <1>1 DEF Fits, UnderWay
  <2>6. Meanwhile(op, acc', ThroughThen(BeforeThen), HeardThen(BeforeThen, {"yes"}),
                  HeardThen(BeforeThen, {"no"}))
    BY <1>2, <1>5, <2>1, <2>2
  <2> QED
    BY <1>1, <1>5, <2>4, <2>5, <2>6 DEF GoesRight
<1>6. ASSUME NEW outcome, Called(outcome), outcome # Accepted(chain[at]), at' = 0,
             UNCHANGED <<session, chain, pos, op, from, acc, done>>
      PROVE  GoesRight
  <2>1. BeforeThen = pos
    BY <1>6 DEF BeforeThen
  <2>2. ThroughThen(pos) = ThroughNow /\ \A outcomes : HeardThen(pos, outcomes) = HeardNow(outcomes)
    BY <1>1, <1>3, <1>6, Stopped DEF Fits
  <2>3. Meanwhile(op, acc', ThroughThen(BeforeThen), HeardThen(BeforeThen, {"yes"}),
                  HeardThen(BeforeThen, {"no"}))
    BY <1>2, <1>6, <2>1, <2>2
  <2> QED
    BY <1>1, <1>6, <2>3 DEF GoesRight
<1>7. ASSUME Called("break")
      PROVE  ThroughThen(pos) = ThroughNow /\ \A outcomes : HeardThen(pos, outcomes) = HeardNow(outcomes)
  <2>1. "break" # Accepted(chain[at])
    BY DEF Accepted
  <2> QED
    BY <1>1, <1>3, <1>7, <2>1, Stopped DEF Fits
<1>8. Finish("fail", Undef) => EndsRight
  BY DEF EndsRight
<1>9. Called("break") /\ Recovers => EndsRight
  BY <1>1, <1>7, EndedRight DEF Recovers
<1>10. ASSUME Called("break"), Broken
       PROVE  EndsRight
  <2>1. CASE op \in Unguarded
    BY <1>10, <2>1 DEF Broken, EndsRight
  <2>2. CASE op \notin Unguarded /\ op = "find"
    <3>1. Finish("nothing", acc)
      BY <1>10, <2>2 DEF Broken
    <3> QED
      BY <1>3, <1>10, <2>2, <3>1 DEF EndsRight
  <2>3. CASE op \notin Unguarded /\ op # "find"
    <3>1. Ended
      BY <1>10, <2>3 DEF Broken, Ended
    <3> QED
      BY <1>1, <1>7, <1>10, <3>1, EndedRight
  <2> QED
    BY <2>1, <2>2, <2>3
<1>11. CASE MapLink
  <2>1. Accepted(chain[at]) = "yes"
    BY <1>11 DEF MapLink, Accepted
  <2> QED
    BY <1>5, <1>8, <1>9, <1>10, <1>11, <2>1 DEF MapLink
<1>12. CASE PredicateLink
  <2>1. Wanted(chain[at]) = Accepted(chain[at])
    BY <1>1, <1>12 DEF PredicateLink, Wanted, Accepted, Links
  <2>2. ASSUME NEW o \in {"yes", "no"}, Called(o),
               at' = IF o = Wanted(chain[at]) THEN at + 1 ELSE 0,
               UNCHANGED <<session, chain, pos, op, from, acc, done>>
        PROVE  GoesRight
    <3>1. CASE o = Wanted(chain[at])
      BY <1>5, <2>1, <2>2, <3>1
    <3>2. CASE o # Wanted(chain[at])
      BY <1>6, <2>1, <2>2, <3>2
    <3> QED
      BY <3>1, <3>2
  <2> QED
    BY <1>8, <1>9, <1>12, <2>2 DEF PredicateLink
<1> QED
  BY <1>11, <1>12

\* The operation takes the element.
LEMMA TakeRight ==
  ASSUME Fits, Take
  PROVE  EndsRight \/ GoesRight
<1>1. op # "none" /\ at = Top /\ calls' = calls /\ at > 0
  BY ValuesAre DEF Take, Top, Fits
<1>2. /\ pos \in Nat \ {0} /\ \A i \in ThroughNow : i \in Nat /\ i < pos
      /\ \A outcomes : HeardNow(outcomes) \subseteq ThroughNow
      /\ acc \in Seq(Nat) /\ op \in Operations
  BY <1>1, NumbersBefore
<1>3. /\ ThroughThen(pos) = ThroughNow \cup {pos}
      /\ HeardThen(pos, {"yes"}) = HeardNow({"yes"}) /\ HeardThen(pos, {"no"}) = HeardNow({"no"})
  BY <1>1, DeliversOnly DEF Fits
<1>4. Meanwhile(op, acc, ThroughNow, HeardNow({"yes"}), HeardNow({"no"}))
  BY <1>1 DEF Fits, Accumulates
<1>5. /\ op = "next" => Means(op, Element(pos), ThroughNow \cup {pos}, HeardNow({"yes"}), HeardNow({"no"}))
      /\ op = "asArray" \/ (op = "reduce" /\ acc = <<>>) =>
           Meanwhile(op, Append(acc, pos), ThroughNow \cup {pos}, HeardNow({"yes"}), HeardNow({"no"}))
  BY <1>2, <1>4, TakesOne
<1>6. CASE op = "next" /\ Finish("nothing", Element(pos))
  BY <1>3, <1>5, <1>6 DEF EndsRight, MeansThen
<1>7. CASE /\ op = "asArray" \/ (op = "reduce" /\ acc = <<>>)
           /\ acc' = Append(acc, pos) /\ at' = 0
           /\ UNCHANGED <<session, chain, pos, op, from, done>>
  <2>1. BeforeThen = pos
    BY <1>7 DEF BeforeThen
  <2>2. Meanwhile(op, acc', ThroughThen(BeforeThen), HeardThen(BeforeThen, {"yes"}),
                  HeardThen(BeforeThen, {"no"}))
    BY <1>3, <1>5, <1>7, <2>1
  <2>3. ~(at' > 0)
    BY <1>7
  <2> QED
    BY <1>1, <1>7, <2>2, <2>3 DEF GoesRight
<1> QED
  BY <1>6, <1>7 DEF Take

LEMMA ConsumeRight ==
  ASSUME Fits, Consume
  PROVE  EndsRight \/ GoesRight
<1>1. at = Top /\ at > 0 /\ op \in {"each", "all", "any", "find", "reduce2", "reduce"}
      /\ (op = "reduce" => acc # <<>>) /\ op # "none"
  BY ValuesAre DEF Consume, Top, Fits
<1>2. /\ pos \in Nat \ {0} /\ \A i \in ThroughNow : i \in Nat /\ i < pos
      /\ HeardNow({"yes"}) \subseteq ThroughNow /\ HeardNow({"no"}) \subseteq ThroughNow
      /\ acc \in Seq(Nat) /\ op \in Operations
  BY <1>1, NumbersBefore
<1>3. \A outcome : Called(outcome) => AddsCall(outcome)
  BY DEF Called, AddsCall, Call, Number
<1>4. ASSUME NEW outcome, Called(outcome)
      PROVE  /\ ThroughThen(pos) = ThroughNow \cup {pos}
             /\ HeardThen(pos, {"yes"}) =
                  IF outcome = "yes" THEN HeardNow({"yes"}) \cup {pos} ELSE HeardNow({"yes"})
             /\ HeardThen(pos, {"no"}) =
                  IF outcome = "no" THEN HeardNow({"no"}) \cup {pos} ELSE HeardNow({"no"})
  <2>1. /\ ThroughThen(pos) = ThroughNow \cup {pos}
        /\ \A outcomes : HeardThen(pos, outcomes) =
             IF outcome \in outcomes THEN HeardNow(outcomes) \cup {pos} ELSE HeardNow(outcomes)
    BY <1>1, <1>3, <1>4, Delivers DEF Fits
  <2> QED
    BY <2>1
<1>5. Meanwhile(op, acc, ThroughNow, HeardNow({"yes"}), HeardNow({"no"}))
  BY <1>1 DEF Fits, Accumulates
<1>6. ASSUME NEW o \in {"yes", "no"}, Called(o),
             CASE op = "all" /\ o = "no" -> Finish("nothing", False)
               [] op = "any" /\ o = "yes" -> Finish("nothing", True)
               [] op = "find" /\ o = "yes" -> Finish("nothing", Element(pos))
               [] op = "find" /\ o = "no" -> GoOn(Element(pos))
               [] op \in {"reduce", "reduce2"} -> GoOn(Append(acc, pos))
               [] OTHER -> GoOn(acc)
      PROVE  EndsRight \/ GoesRight
  <2> DEFINE MeansNow(v) == Means(op, v, ThroughNow \cup {pos}, HeardThen(pos, {"yes"}), HeardThen(pos, {"no"}))
             Now(v) == Meanwhile(op, v, ThroughNow \cup {pos}, HeardThen(pos, {"yes"}), HeardThen(pos, {"no"}))
  <2>1. /\ op = "all" /\ o = "no" => MeansNow(False)
        /\ op = "any" /\ o = "yes" => MeansNow(True)
        /\ op = "find" /\ o = "yes" => MeansNow(Element(pos))
        /\ op = "find" /\ o = "no" => Now(Element(pos))
        /\ op \in {"reduce", "reduce2"} => Now(Append(acc, pos))
        /\ (op = "each" \/ (op = "all" /\ o = "yes") \/ (op = "any" /\ o = "no")) => Now(acc)
    BY <1>1, <1>2, <1>4, <1>5, <1>6, ConsumesOne
  <2>2. ASSUME NEW v, GoOn(v), Now(v) PROVE GoesRight
    <3>1. BeforeThen = pos /\ at' = 0
      BY <2>2 DEF GoOn, BeforeThen
    <3>2. acc' = v /\ UNCHANGED <<chain, pos, op, from, done>> /\ ~(at' > 0)
      BY <2>2, <3>1 DEF GoOn
    <3>3. ThroughThen(pos) = ThroughNow \cup {pos}
      BY <1>4, <1>6
    <3>4. Meanwhile(op, acc', ThroughThen(BeforeThen), HeardThen(BeforeThen, {"yes"}),
                    HeardThen(BeforeThen, {"no"}))
      BY <2>2, <3>1, <3>2, <3>3
    <3> QED
      BY <1>1, <3>2, <3>4 DEF GoesRight
  <2>3. ASSUME NEW v, Finish("nothing", v), MeansNow(v) PROVE EndsRight
    BY <1>4, <1>6, <2>3 DEF EndsRight, MeansThen
  <2> HIDE DEF MeansNow, Now
  <2>4. CASE op = "all"
    BY <1>6, <2>1, <2>2, <2>3, <2>4
  <2>5. CASE op = "any"
    BY <1>6, <2>1, <2>2, <2>3, <2>5
  <2>6. CASE op = "find"
    BY <1>6, <2>1, <2>2, <2>3, <2>6
  <2>7. CASE op \in {"reduce", "reduce2", "each"}
    BY <1>6, <2>1, <2>2, <2>3, <2>7
  <2> QED
    BY <1>1, <2>4, <2>5, <2>6, <2>7
<1>7. ASSUME Called("break"),
             IF op = "find" THEN Finish("nothing", Element(pos)) ELSE Broken
      PROVE  EndsRight
  <2>1. CASE op = "find"
    BY <1>3, <1>7, <2>1 DEF EndsRight
  <2>2. CASE op # "find"
    <3> DEFINE value == CASE op = "all" -> True
                          [] op = "any" -> False
                          [] OTHER -> acc
    <3>1. op \notin Unguarded
      BY <1>1 DEF Unguarded
    <3>2. Finish("nothing", value)
      BY <1>7, <2>2, <3>1 DEF Broken
    <3>3. Means(op, value, ThroughNow \cup {pos}, HeardNow({"yes"}), HeardNow({"no"}))
      BY <1>1, <1>2, <1>5, <2>2, BreaksAtOne
    <3>4. /\ ThroughThen(pos) = ThroughNow \cup {pos}
          /\ HeardThen(pos, {"yes"}) = HeardNow({"yes"}) /\ HeardThen(pos, {"no"}) = HeardNow({"no"})
      BY <1>4, <1>7
    <3>5. MeansThen(value)
      BY <3>3, <3>4 DEF MeansThen
    <3> HIDE DEF value
    <3> QED
      BY <3>2, <3>5 DEF EndsRight
  <2> QED
    BY <2>1, <2>2
<1>8. Finish("fail", Undef) => EndsRight
  BY DEF EndsRight
<1> QED
  BY <1>6, <1>7, <1>8 DEF Consume

LEMMA StepRight ==
  ASSUME Fits, Step
  PROVE  Pull \/ EndsRight \/ GoesRight
BY ExhaustedRight, LinkRight, TakeRight, ConsumeRight DEF Step

\* What a step leads to.
LEMMA AccumulatesKept ==
  ASSUME Fits, Next
  PROVE  UnderWay' /\ Accumulates'
<1>1. CASE EndsRight
  <2>1. op' = "none" /\ at' = 0
    BY <1>1 DEF EndsRight, Finish
  <2> QED
    BY <2>1 DEF UnderWay, Accumulates
<1>2. CASE GoesRight
  <2>1. Number' = Number /\ chain' = chain /\ from' = from /\ pos' = pos /\ op' = op
    BY <1>2 DEF GoesRight, Number
  <2>2. Before' = BeforeThen
    BY <2>1 DEF Before, BeforeThen
  <2>3. ThroughNow' = ThroughThen(BeforeThen)
    BY <2>1, <2>2 DEF ThroughNow, ThroughThen
  <2>4. /\ HeardNow({"yes"})' = HeardThen(BeforeThen, {"yes"})
        /\ HeardNow({"no"})' = HeardThen(BeforeThen, {"no"})
    BY <2>1, <2>3 DEF HeardNow, HeardThen
  <2>5. Accumulates'
    BY <1>2, <2>1, <2>3, <2>4 DEF GoesRight, Accumulates
  <2>6. UnderWay'
    BY <1>2, <2>1 DEF GoesRight, UnderWay
  <2> QED
    BY <2>5, <2>6
<1>3. CASE Pull
  <2>1. /\ op # "none" /\ at = 0 /\ at' = 1 /\ pos' = pos + 1 /\ pos \in Nat /\ from \in 0 .. pos
        /\ UNCHANGED <<chain, op, from, acc, calls, done>>
    BY <1>3, CallTypes DEF Pull, Advanced, Fits, IType, TypeOK
  <2>2. Number' = Number /\ Before' = Before
    BY <2>1 DEF Before, Number
  <2>3. ThroughNow' = ThroughNow
    BY <2>1, <2>2 DEF ThroughNow
  <2>4. HeardNow({"yes"})' = HeardNow({"yes"}) /\ HeardNow({"no"})' = HeardNow({"no"})
    BY <2>1, <2>2, <2>3 DEF HeardNow
  <2>5. Meanwhile(op, acc, ThroughNow, HeardNow({"yes"}), HeardNow({"no"}))
    BY <2>1 DEF Fits, Accumulates
  <2>6. Accumulates'
    BY <2>1, <2>3, <2>4, <2>5 DEF Accumulates
  <2>7. UnderWay'
    <3>1. from' < pos' /\ 1 .. at' - 1 = {}
      BY <2>1
    <3> QED
      BY <3>1 DEF UnderWay
  <2> QED
    BY <2>6, <2>7
<1>4. ASSUME NEW use \in Sessions[session].uses, Begin(use)
      PROVE  UnderWay' /\ Accumulates'
  <2>1. at' = 0 /\ from' = pos /\ pos' = pos /\ pos \in Nat /\ op = "none"
    BY <1>4, CallTypes DEF Begin, Fits, IType, TypeOK
  <2>2. UnderWay'
    BY <2>1 DEF UnderWay
  <2>3. CASE op' = "none"
    BY <2>2, <2>3 DEF Accumulates
  <2>4. CASE op' # "none"
    <3>1. use # [chain |-> <<>>, op |-> "asArray"]
      BY <1>4, <2>1, <2>4 DEF Begin
    <3>2. op' = use.op /\ acc' = (IF op' = "reduce2" THEN Initial ELSE <<>>)
      BY <1>4, <3>1 DEF Begin
    <3>3. use.op \in Operations
      <4>1. use \in [chain : Seq(Links), op : Operations]
        BY ValuesAre DEF Fits
      <4> QED
        BY <4>1
    <3>4. Before' = pos
      BY <2>1 DEF Before
    <3>5. \A i : i \notin from' + 1 .. Before'
      BY <2>1, <3>4
    <3>6. ThroughNow' = {}
      BY <3>5 DEF ThroughNow, AllThrough
    <3>7. HeardNow({"yes"})' = {} /\ HeardNow({"no"})' = {}
      BY <3>6 DEF HeardNow, HeardOf
    <3>8. Meanwhile(op', acc', {}, {}, {})
      BY <3>2, <3>3, BeginsWith
    <3>9. Accumulates'
      BY <3>6, <3>7, <3>8 DEF Accumulates
    <3> QED
      BY <2>2, <3>9
  <2> QED
    BY <2>2, <2>3, <2>4
<1> QED
  BY <1>1, <1>2, <1>3, <1>4, StepRight DEF Next

BrokeIn(q, n) == \E a \in 1 .. Len(q) : q[a].call = n /\ q[a].outcome = "break"

\* What operation n has returned, if these are the calls.
Returned(record, q, n) ==
  \/ record.raised # "nothing"
  \/ record.op = "find" /\ BrokeIn(q, n)
  \/ Gets(record.op, record.value, q, n, record.chain, record.from, record.to)

Results == \A n \in 1 .. Len(done) : Returned(done[n], calls, n)

LEMMA CallsAdded ==
  ASSUME IType, Next
  PROVE  calls' = calls \/ \E outcome : AddsCall(outcome)
<1>1. ASSUME NEW use, Begin(use) PROVE calls' = calls
  BY <1>1 DEF Begin
<1>2. CASE Step
  BY <1>2, StepWorks DEF Works, Pull, Takes, Calls, AddsCall
<1> QED
  BY <1>1, <1>2 DEF Next

\* What an operation that has ended has returned is what it was.
LEMMA ReturnedStays ==
  ASSUME IType, Next, NEW n \in 1 .. Len(done), NEW record, Returned(record, calls, n)
  PROVE  Returned(record, calls', n)
<1>1. CASE calls' = calls
  BY <1>1
<1>2. ASSUME NEW outcome, AddsCall(outcome) PROVE Returned(record, calls', n)
  <2>1. n # Number
    BY CallTypes
  <2>2. \A k, i, outcomes : Heard(calls', n, k, i, outcomes) <=> Heard(calls, n, k, i, outcomes)
    BY <1>2, <2>1, HeardAfter
  <2>3. \A links, first, last : AllThrough(calls', n, links, first, last) = AllThrough(calls, n, links, first, last)
    BY <2>2 DEF AllThrough, Came
  <2>4. \A links, set, outcomes : HeardOf(calls', n, links, set, outcomes) = HeardOf(calls, n, links, set, outcomes)
    BY <2>2 DEF HeardOf
  <2>5. ASSUME NEW operation, NEW value, NEW links, NEW first, NEW last
        PROVE  Gets(operation, value, calls', n, links, first, last) <=>
                 Gets(operation, value, calls, n, links, first, last)
    BY <2>3, <2>4 DEF Gets
  <2>6. BrokeIn(calls, n) => BrokeIn(calls', n)
    <3>1. calls \in Seq(CallRecords)
      BY DEF IType, TypeOK, CallRecords, Bound
    <3>2. Len(calls') = Len(calls) + 1 /\ Len(calls) \in Nat /\ \A a \in 1 .. Len(calls) : calls'[a] = calls[a]
      BY <1>2, <3>1, Appended DEF AddsCall
    <3>3. \A a \in 1 .. Len(calls) : a \in 1 .. Len(calls')
      BY <3>2
    <3> QED
      BY <3>2, <3>3 DEF BrokeIn
  <2>7. CASE record.raised # "nothing"
    BY <2>7 DEF Returned
  <2>8. CASE record.op = "find" /\ BrokeIn(calls, n)
    BY <2>6, <2>8 DEF Returned
  <2>9. CASE Gets(record.op, record.value, calls, n, record.chain, record.from, record.to)
    BY <2>5, <2>9 DEF Returned
  <2> QED
    BY <2>7, <2>8, <2>9 DEF Returned
<1> QED
  BY <1>1, <1>2, CallsAdded

\* The operation that ends in a step.
LEMMA EndsReturned ==
  ASSUME Fits, EndsRight
  PROVE  \E record : done' = Append(done, record) /\ Returned(record, calls', Number)
<1>1. PICK raised, value :
        /\ Finish(raised, value)
        /\ raised = "nothing" => (op = "find" /\ AddsCall("break")) \/ MeansThen(value)
  BY DEF EndsRight
<1> DEFINE record == Ending(raised, value)
<1>2. done' = Append(done, record)
  BY <1>1, FinishAppends
<1>3. /\ record.raised = raised /\ record.op = op /\ record.value = value /\ record.chain = chain
      /\ record.from = from /\ record.to = pos
  BY DEF Ending
<1> HIDE DEF record
<1>4. CASE raised # "nothing"
  BY <1>2, <1>3, <1>4 DEF Returned
<1>5. CASE op = "find" /\ AddsCall("break")
  <2>1. BrokeIn(calls', Number)
    BY <1>5, CalledLast DEF Fits, AddsCall, BrokeIn
  <2> QED
    BY <1>2, <1>3, <1>5, <2>1 DEF Returned
<1>6. CASE MeansThen(value)
  <2>1. Gets(op, value, calls', Number, chain, from, pos)
    BY <1>6 DEF MeansThen, Gets, ThroughThen, HeardThen
  <2> QED
    BY <1>2, <1>3, <2>1 DEF Returned
<1> QED
  BY <1>1, <1>4, <1>5, <1>6

\* The list itself.
LEMMA ListReturned ==
  ASSUME NEW q, NEW n, NEW size \in Nat
  PROVE  Gets("asArray", [i \in 1 .. size |-> i], q, n, <<>>, 0, size)
<1> DEFINE list == [i \in 1 .. size |-> i]
<1>1. AllThrough(q, n, <<>>, 0, size) = 1 .. size
  BY DEF AllThrough, Came
<1>2. list \in Seq(Nat) /\ Len(list) = size /\ DOMAIN list = 1 .. size /\ \A i \in 1 .. size : list[i] = i
  OBVIOUS
<1> HIDE DEF list
<1>3. Ascends(list, 1 .. size)
  BY <1>2 DEF Ascends, ToSet
<1>4. Gets("asArray", list, q, n, <<>>, 0, size)
  BY <1>1, <1>3 DEF Gets, Means
<1> QED
  BY <1>4 DEF list

LEMMA ResultsKept ==
  ASSUME Fits, Next, Results
  PROVE  Results'
<1>0. IType
  BY DEF Fits
<1> SUFFICES ASSUME NEW n \in 1 .. Len(done') PROVE Returned(done'[n], calls', n)
  BY DEF Results
<1>1. ASSUME n \in 1 .. Len(done), done'[n] = done[n] PROVE Returned(done'[n], calls', n)
  BY <1>0, <1>1, ReturnedStays DEF Results
<1>2. ASSUME NEW record, done' = Append(done, record), Returned(record, calls', Number)
      PROVE  Returned(done'[n], calls', n)
  <2>1. done \in Seq(DoneRecords)
    BY <1>0 DEF IType, TypeOK, DoneRecords, Values
  <2>2. /\ Len(done') = Number /\ Len(done) \in Nat /\ Number = Len(done) + 1
        /\ done'[Number] = record /\ \A m \in 1 .. Len(done) : done'[m] = done[m]
    BY <1>2, <2>1, Appended DEF Number
  <2>3. n \in 1 .. Len(done) \/ n = Number
    BY <2>2
  <2> QED
    BY <1>1, <1>2, <2>2, <2>3
<1>3. CASE done' = done
  BY <1>1, <1>3
<1>4. CASE EndsRight
  BY <1>2, <1>4, EndsReturned
<1>5. ASSUME NEW use, Begin(use), done' # done PROVE Returned(done'[n], calls', n)
  <2> DEFINE record == [chain |-> <<>>, op |-> "asArray", from |-> 0, to |-> Size,
                        raised |-> "nothing", value |-> [i \in 1 .. Size |-> i]]
  <2>1. done' = Append(done, record)
    BY <1>5 DEF Begin
  <2>2. Gets("asArray", [i \in 1 .. Size |-> i], calls', Number, <<>>, 0, Size)
    BY <1>0, ValuesAre, ListReturned
  <2>3. Returned(record, calls', Number)
    BY <2>2 DEF Returned
  <2> HIDE DEF record
  <2> QED
    BY <1>2, <2>1, <2>3
<1>6. Pull \/ GoesRight => done' = done
  BY DEF Pull, GoesRight
<1> QED
  BY <1>3, <1>4, <1>5, <1>6, StepRight DEF Next

LEMMA ResultsAreOfElements ==
  ASSUME IType, Results
  PROVE  ResultOfElements
<1> SUFFICES ASSUME NEW n \in 1 .. Len(done), done[n].raised = "nothing",
                    ~(done[n].op = "find" /\ Raised(n, "break"))
             PROVE  Means(done[n].op, done[n].value, Through(n), Answered(n, {"yes"}), Answered(n, {"no"}))
  BY DEF ResultOfElements
<1> DEFINE links == done[n].chain
<1>1. \A k, i, outcomes : Said(n, k, i, outcomes) <=> Heard(calls, n, k, i, outcomes)
  BY SaidIsHeard
<1>2. Through(n) = AllThrough(calls, n, links, done[n].from, done[n].to)
  <2>1. \A i : Delivered(n, i) <=> Came(calls, n, links, i)
    BY <1>1 DEF Delivered, Came, Accepted
  <2> QED
    BY <2>1 DEF Through, AllThrough
<1>3. \A outcomes : Answered(n, outcomes) = HeardOf(calls, n, links, Through(n), outcomes)
  BY <1>1 DEF Answered, HeardOf
<1>4. BrokeIn(calls, n) => Raised(n, "break")
  <2>1. calls \in Seq(CallRecords)
    BY DEF IType, TypeOK, CallRecords, Bound
  <2>2. DOMAIN calls = 1 .. Len(calls)
    BY <2>1
  <2> QED
    BY <2>2 DEF BrokeIn, Raised, ToSet
<1>5. Gets(done[n].op, done[n].value, calls, n, links, done[n].from, done[n].to)
  BY <1>4 DEF Results, Returned
<1> QED
  BY <1>2, <1>3, <1>5 DEF Gets

\* Through whatever links, and whatever its callbacks return, break or fail, an
\* operation that returns has the result of the elements that its links have
\* let through and of what its callback has said of them, of lists of every
\* size and after whatever other operations on the same iterator.
THEOREM ResultsAreRight == Spec => []ResultOfElements
<1> DEFINE Inv == Behind /\ UnderWay /\ Accumulates /\ Results
<1>1. Init => Inv
  BY DEF Init, Behind, UnderWay, Accumulates, Results
<1>2. UNCHANGED vars /\ Inv => Inv'
  BY DEF vars, Behind, UnderWay, Accumulates, Results, ThroughNow, HeardNow, Before, Number
<1>3. IType /\ Inv /\ Next => Inv'
  BY BehindKept, AccumulatesKept, ResultsKept DEF Fits
<1>4. IType /\ Inv => ResultOfElements
  BY ResultsAreOfElements
<1> HIDE DEF Inv
<1> QED
  BY <1>1, <1>2, <1>3, <1>4, TypeInvariant, PTL DEF Spec
=============================================================================
