----------------------------- MODULE Iteration -----------------------------
(***************************************************************************)
(* Iterators: src/evaluator/iteration.go and the functions of the language *)
(* that use it.  An iterator is an indexedIterator over a list and a chain *)
(* of mappingIterators and predicateIterators on top of it; an operation   *)
(* (Each, All, Find, Reduce, AsArray, ...) pulls elements through the      *)
(* chain with Next.  Callbacks run at each link and in the operation, and  *)
(* each of them may break or fail.  The position belongs to the list's     *)
(* iterator: an operation on it, or on another chain over it, goes on      *)
(* where an earlier one has stopped.                                       *)
(*                                                                         *)
(* Elements are their positions in the list, 1 .. Size; what a mapper      *)
(* makes of one keeps its position.  No element is an iterator itself.     *)
(***************************************************************************)
EXTENDS Naturals, Sequences, SequencesExt, FiniteSets

CONSTANTS
  Sessions     \* what is done with one iterator: a sequence of records with its
               \* size, the uses of it (chains over it, each with an operation)
               \* and as a bound the number of its calls

Links == {"map", "select", "reject"}
Operations == {"each", "all", "any", "find", "reduce", "reduce2", "asArray", "next"}

ASSUME ConstantsAssumption ==
  Sessions \in Seq([size : Nat, uses : SUBSET [chain : Seq(Links), op : Operations],
                   calls : Nat])

VARIABLES
  session,     \* the one that is played, of Sessions
  chain,       \* the links that the operation pulls through, innermost first
  pos,         \* indexedIterator.pos: the element that was pulled last, 0 before
  op,          \* the operation that runs
  from,        \* pos when it began
  at,          \* 0: pulls; k <= Len(chain): element pos enters link k; else it is delivered
  acc,         \* what the operation has accumulated
  calls,       \* history: the callbacks that have run
  done         \* history: the operations that have ended

vars == <<session, chain, pos, op, from, at, acc, calls, done>>

Size == Sessions[session].size
Top == Len(chain) + 1

\* Values: a list of elements; Booleans, the default of find and the initial
\* value of reduce2 are coded in the same way.
Undef == <<>>
False == <<0>>
True == <<1>>
Default == <<0>>
Initial == <<0>>
Element(i) == <<i>>

\* How a callback ends: with a value, which counts as true or not, with break,
\* or with anything else that is raised.
Outcomes == {"yes", "no", "break", "fail"}
Called(outcome) ==
  calls' = Append(calls, [call |-> Len(done) + 1, link |-> at, element |-> pos,
                          outcome |-> outcome])

-----------------------------------------------------------------------------
(* The end of an operation. *)

\* raised: what it panics with, if it does.
Finish(raised, value) ==
  /\ done' = Append(done, [chain |-> chain, op |-> op, from |-> from, to |-> pos,
                           raised |-> raised, value |-> value])
  /\ op' = "none" /\ chain' = <<>> /\ at' = 0 /\ acc' = <<>>
  /\ UNCHANGED <<session, pos, from>>

\* Next has returned false.
Ended ==
  Finish("nothing", CASE op = "all" -> True
                      [] op = "any" -> False
                      [] op = "find" -> Default
                      [] OTHER -> acc)

\* Faulty variant: no Next of reduce is guarded.
UnguardedReduce == IF op \in {"next", "reduce"} THEN {op} ELSE {}

\* Next is called outside of the function that recovers from StopIteration.
Unguarded == IF op = "next" \/ (op = "reduce" /\ acc = <<>>) THEN {op} ELSE {}

\* A callback of link k, or of the operation itself, has called break, and no
\* link recovers from it.  find is left with the element that it has tested last.
Broken ==
  IF op \in Unguarded
  THEN Finish("break", Undef)
  ELSE Finish("nothing", CASE op = "all" -> True
                           [] op = "any" -> False
                           [] OTHER -> acc)

-----------------------------------------------------------------------------
(* Operations. *)

\* AsArray of an indexedIterator is the list; the others begin to pull.
Begin(use) ==
  /\ op = "none" /\ Len(done) < Sessions[session].calls
  /\ from' = pos
  /\ IF use = [chain |-> <<>>, op |-> "asArray"]
     THEN /\ done' = Append(done, [chain |-> <<>>, op |-> "asArray", from |-> 0, to |-> Size,
                                   raised |-> "nothing", value |-> [i \in 1 .. Size |-> i]])
          /\ UNCHANGED <<chain, op, acc>>
     ELSE /\ chain' = use.chain /\ op' = use.op
          /\ acc' = IF use.op = "reduce2" THEN Initial ELSE <<>>
          /\ UNCHANGED done
  /\ UNCHANGED <<session, pos, at, calls>>

\* Faulty variants: the position is left behind, or an element too far.
AdvancedStuck == pos
AdvancedTwice == pos + 2

\* indexedIterator.Next, when there are more elements.
Advanced == pos + 1

Pull ==
  /\ op # "none" /\ at = 0 /\ pos < Size
  /\ pos' = Advanced /\ at' = 1
  /\ UNCHANGED <<session, chain, op, from, acc, calls, done>>

\* Faulty variant: a predicate does not see that there are no more elements.
ExhaustedUnseen ==
  /\ op # "none" /\ at = 0 /\ pos >= Size
  /\ \A k \in 1 .. Len(chain) : chain[k] = "map"
  /\ Ended /\ UNCHANGED calls

Exhausted ==
  /\ op # "none" /\ at = 0 /\ pos >= Size
  /\ Ended /\ UNCHANGED calls

AtLink(k) == op # "none" /\ at = k /\ k \in 1 .. Len(chain)

\* Faulty variant: a break rejects the element.
RecoversRejecting == at' = 0 /\ UNCHANGED <<session, chain, pos, op, from, acc, done>>

\* predicateIterator.Next recovers from StopIteration: there are no more elements.
Recovers == Ended

\* mappingIterator.Next
MapLink ==
  /\ AtLink(at) /\ chain[at] = "map"
  /\ \/ Called("yes") /\ at' = at + 1 /\ UNCHANGED <<session, chain, pos, op, from, acc, done>>
     \/ /\ Called("break")
        /\ IF \E k \in at + 1 .. Len(chain) : chain[k] # "map" THEN Recovers ELSE Broken
     \/ Called("fail") /\ Finish("fail", Undef)

\* Faulty variant: select and reject do the same.
WantedYes(link) == "yes"

\* predicateIterator.outcome
Wanted(link) == IF link = "select" THEN "yes" ELSE "no"

\* predicateIterator.Next: a break ends the iteration, without the operation
\* getting to see it.
PredicateLink ==
  /\ AtLink(at) /\ chain[at] # "map"
  /\ \/ \E o \in {"yes", "no"} :
          /\ Called(o)
          /\ at' = IF o = Wanted(chain[at]) THEN at + 1 ELSE 0
          /\ UNCHANGED <<session, chain, pos, op, from, acc, done>>
     \/ Called("break") /\ Recovers
     \/ Called("fail") /\ Finish("fail", Undef)

\* An element is delivered to an operation that has no callback for it.
Take ==
  /\ op # "none" /\ at = Top /\ UNCHANGED calls
  /\ \/ op = "next" /\ Finish("nothing", Element(pos))
     \/ /\ op = "asArray" \/ (op = "reduce" /\ acc = <<>>)
        /\ acc' = Append(acc, pos) /\ at' = 0
        /\ UNCHANGED <<session, chain, pos, op, from, done>>

GoOn(value) == acc' = value /\ at' = 0 /\ UNCHANGED <<session, chain, pos, op, from, done>>

\* The loop of each, all, any, find and reduce2.
Consume ==
  /\ at = Top
  /\ op \in {"each", "all", "any", "find", "reduce2"} \/ (op = "reduce" /\ acc # <<>>)
  /\ \/ \E o \in {"yes", "no"} :
          /\ Called(o)
          /\ CASE op = "all" /\ o = "no" -> Finish("nothing", False)
               [] op = "any" /\ o = "yes" -> Finish("nothing", True)
               [] op = "find" /\ o = "yes" -> Finish("nothing", Element(pos))
               [] op = "find" /\ o = "no" -> GoOn(Element(pos))
               [] op \in {"reduce", "reduce2"} -> GoOn(Append(acc, pos))
               [] OTHER -> GoOn(acc)
     \/ Called("break") /\ IF op = "find" THEN Finish("nothing", Element(pos)) ELSE Broken
     \/ Called("fail") /\ Finish("fail", Undef)

Step == Pull \/ Exhausted \/ MapLink \/ PredicateLink \/ Take \/ Consume

Init ==
  /\ session \in 1 .. Len(Sessions)
  /\ chain = <<>> /\ pos = 0 /\ op = "none" /\ from = 0 /\ at = 0 /\ acc = <<>>
  /\ calls = <<>> /\ done = <<>>

Next == Step \/ \E use \in Sessions[session].uses : Begin(use)

Spec == Init /\ [][Next]_vars

\* An operation runs until it has ended, and its callbacks end.
FairSpec == Spec /\ WF_vars(Step)

-----------------------------------------------------------------------------
(* The functions of the language, as a chain and an operation on it. *)

EachFunction == [chain |-> <<>>, op |-> "each"]
AllFunction == [chain |-> <<>>, op |-> "all"]
AnyFunction == [chain |-> <<>>, op |-> "any"]
MapFunction == [chain |-> <<"map">>, op |-> "asArray"]
FilterFunction == [chain |-> <<"select">>, op |-> "asArray"]
ReduceFunctions == {[chain |-> <<>>, op |-> o] : o \in {"reduce", "reduce2"}}
KeysFunction == [chain |-> <<>>, op |-> "each"]

LanguageFunctions ==
  {EachFunction, AllFunction, AnyFunction, MapFunction, FilterFunction, KeysFunction}
    \cup ReduceFunctions

-----------------------------------------------------------------------------
(* Properties. *)

TypeOK ==
  /\ session \in 1 .. Len(Sessions)
  /\ chain \in Seq(Links)
  /\ pos \in 0 .. Size /\ from \in 0 .. pos
  /\ op \in Operations \cup {"none"}
  /\ at \in 0 .. Top /\ (op = "none" => at = 0 /\ acc = <<>>)
  /\ acc \in Seq(0 .. Size)
  /\ calls \in Seq([call : 1 .. Sessions[session].calls, link : Nat \ {0}, element : 1 .. Size,
                    outcome : Outcomes])
  /\ done \in Seq([chain : Seq(Links), op : Operations, from : 0 .. Size, to : 0 .. Size,
                   raised : {"nothing", "break", "fail"}, value : Seq((0 .. Size) \cup {1})])

\* What the callbacks of operation n have said of an element.
Said(n, k, i, outcomes) ==
  \E c \in ToSet(calls) :
    c.call = n /\ c.link = k /\ c.element = i /\ c.outcome \in outcomes

\* The elements that have come through all links, and those among them for
\* which the callback of the operation has returned as given.
Delivered(n, i) ==
  \A k \in 1 .. Len(done[n].chain) :
    Said(n, k, i, IF done[n].chain[k] = "reject" THEN {"no"} ELSE {"yes"})
Through(n) == {i \in done[n].from + 1 .. done[n].to : Delivered(n, i)}
Answered(n, outcomes) == {i \in Through(n) : Said(n, Len(done[n].chain) + 1, i, outcomes)}

Least(set) == {i \in set : \A j \in set : i <= j}

\* The sequence is the list of the set, from the least to the greatest.
Ascends(s, set) ==
  /\ ToSet(s) = set
  /\ \A a, b \in 1 .. Len(s) : a < b => s[a] < s[b]

Raised(n, outcome) == \E c \in ToSet(calls) : c.call = n /\ c.outcome = outcome

\* The result of an operation, from the elements that have come through and from
\* those for which its callback has returned "yes" or "no".
Means(operation, value, through, yes, no) ==
  CASE operation = "all" -> value = IF no = {} THEN True ELSE False
    [] operation = "any" -> value = IF yes = {} THEN False ELSE True
    [] operation = "find" -> IF yes = {} THEN value = Default ELSE Ascends(value, yes)
    [] operation \in {"asArray", "next"} -> Ascends(value, through)
    [] operation = "reduce" -> Ascends(value, Least(through) \cup yes \cup no)
    [] operation = "reduce2" -> Ascends(value, {0} \cup yes \cup no)
    [] OTHER -> value = Undef

\* Whatever the links reject and wherever a callback breaks, an operation that
\* returns has the result of the elements that have come through before: map
\* and filter keep what they had, all is true, any is false, reduce is what it
\* had accumulated.  Of find this holds unless there was a break.
ResultOfElements ==
  \A n \in 1 .. Len(done) :
    \/ done[n].raised # "nothing"
    \/ done[n].op = "find" /\ Raised(n, "break")
    \/ Means(done[n].op, done[n].value, Through(n), Answered(n, {"yes"}), Answered(n, {"no"}))

Running(n) == IF n <= Len(done) THEN done[n] ELSE [op |-> op, from |-> from]

\* No callback gets an element twice, or after a later one, or one that an
\* earlier operation has pulled, through whichever chain; and the innermost
\* callback misses none while an operation runs, so that the functions which
\* number the elements by counting the calls number them right.
InOrder ==
  /\ \A a, b \in 1 .. Len(calls) :
       a < b /\ (calls[a].link = calls[b].link \/ calls[a].call < calls[b].call)
         => calls[a].element < calls[b].element
  /\ \A b \in 1 .. Len(calls) :
       calls[b].link = 1 /\ Running(calls[b].call).op # "reduce" =>
         Cardinality({a \in 1 .. b : calls[a].link = 1 /\ calls[a].call = calls[b].call})
           = calls[b].element - Running(calls[b].call).from

\* A callback that breaks or fails is the last one that its operation calls.
LastWord ==
  \A a \in 1 .. Len(calls) : calls[a].outcome \in {"break", "fail"} =>
    /\ \A b \in a + 1 .. Len(calls) : calls[b].call > calls[a].call
    /\ calls[a].call <= Len(done)

\* A break gets out of an operation only when nothing has recovered from it: in
\* a single Next and in the first one of Reduce, from a mapper that has no
\* predicate above it.  Out of a function of the language it never gets, unless
\* the function has been told to.
BreakStaysInside ==
  \A n \in 1 .. Len(done) : done[n].raised = "break" =>
    /\ done[n].op \in {"next", "reduce"}
    /\ \A i \in done[n].from + 1 .. done[n].to : ~Delivered(n, i)
    /\ \E k \in 1 .. Len(done[n].chain) :
         /\ Said(n, k, done[n].to, {"break"})
         /\ \A j \in k .. Len(done[n].chain) : done[n].chain[j] = "map"
    /\ [chain |-> done[n].chain, op |-> done[n].op] \notin LanguageFunctions

\* Every operation ends: the list is finite, and a link that rejects elements
\* pulls new ones.
Terminates == (op # "none") ~> (op = "none")
=============================================================================
