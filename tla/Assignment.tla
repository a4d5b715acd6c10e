----------------------------- MODULE Assignment -----------------------------
(***************************************************************************)
(* Assignment to a variable or to a nested list of variables, from an      *)
(* array, or from a hash by the names: src/evaluator/assign.go.            *)
(***************************************************************************)
EXTENDS Activities

CONSTANTS
  Lefts,       \* left sides and their parts, [is |-> "name", ref |-> r] or
               \* [is |-> "list", of |-> <<...>>]
  Rights,      \* values of right sides and their parts, [is |-> "atom", ...],
               \* [is |-> "array", of |-> <<...>>] or
               \* [is |-> "hash", of |-> a function on some of Lefts]
  Assignments  \* records with a `left` and a `right` side

ASSUME AssignmentsAssumption ==
  /\ \A l \in Lefts :
       \/ l.is = "name" /\ l.ref \in Refs
       \/ l.is = "list" /\ l.of \in Seq(Lefts)
  /\ \A some \in (SUBSET Lefts) \ {{}} :   \* a syntax tree ends
       \E l \in some : l.is = "list" => \A i \in DOMAIN l.of : l.of[i] \notin some
  /\ Rights \subseteq Values
  /\ \A r \in Rights :
       \/ r.is = "atom"
       \/ r.is = "array" /\ r.of \in Seq(Rights)
       \/ r.is = "hash" /\ \A k \in DOMAIN r.of : r.of[k] \in Rights
  /\ Assignments \subseteq [left : Lefts, right : Rights]

Missing == [is |-> "missing"]

\* A left side, or a part of it, and the value for it: in place of a value that
\* does not exist, or that cannot be taken apart, there is Missing.
Pairs == Lefts \X (Rights \cup {Missing})

\* lvalue has been computed, the right side is being evaluated.
BeginAssign(assignment) ==
  /\ Begin([is |-> "assign", phase |-> "rhs", frames |-> 0, base |-> Depth(Current),
            before |-> View(Current), left |-> assignment.left, right |-> assignment.right,
            todo |-> <<>>, bound |-> <<>>])
  /\ UNCHANGED scopeVars

\* `todo`: the pairs that remain, in the order in which assign comes to them.
RightEvaluated ==
  /\ In("assign", "rhs")
  /\ Goes([Active EXCEPT !.phase = "assign", !.todo = <<<<Active.left, Active.right>>>>])
  /\ UNCHANGED scopeVars

Assigning == In("assign", "assign") /\ Active.todo # <<>>
Left == Head(Active.todo)[1]
Right == Head(Active.todo)[2]

\* Faulty variant: it is not looked at what Set returns.
AssignNameUnseen ==
  /\ Assigning /\ Left.is = "name" /\ Right # Missing
  /\ Set(Current, Left.ref, Right)
  /\ Goes([Active EXCEPT !.todo = Tail(@), !.bound = Append(@, Head(Active.todo))])

AssignName ==
  /\ Assigning /\ Left.is = "name" /\ Right # Missing
  /\ IF MaySet(Current, Left.ref)
     THEN /\ Set(Current, Left.ref, Right)
          /\ Goes([Active EXCEPT !.todo = Tail(@), !.bound = Append(@, Head(Active.todo))])
     ELSE Raise("error")

AssignArray ==
  /\ Assigning /\ Left.is = "list" /\ Right.is = "array"
  /\ IF Len(Left.of) = Len(Right.of)
     THEN /\ Goes([Active EXCEPT !.todo = Zip(Left.of, Right.of) \o Tail(@)])
          /\ UNCHANGED scopeVars
     ELSE Raise("error")

\* The key is the name as it is written, or a list of such names.
ValueFor(hash, left) == IF left \in DOMAIN hash THEN hash[left] ELSE Missing

AssignHash ==
  /\ Assigning /\ Left.is = "list" /\ Right.is = "hash"
  /\ LET of == Left.of
         values == [i \in DOMAIN of |-> ValueFor(Right.of, of[i])]
     IN  Goes([Active EXCEPT !.todo = Zip(of, values) \o Tail(@)])
  /\ UNCHANGED scopeVars

\* A key that is missing is noticed when it is its turn.
AssignFails ==
  /\ Assigning
  /\ Right = Missing \/ (Left.is = "list" /\ Right.is = "atom")
  /\ Raise("error")

\* The value of an assignment is its right side, or the values taken from a hash.
Yields[pair \in Pairs] ==
  LET of == pair[1].of
      hash == pair[2].of
  IN  IF pair[1].is = "list" /\ pair[2].is = "hash"
      THEN [is |-> "array",
            of |-> [i \in DOMAIN of |-> Yields[<<of[i], ValueFor(hash, of[i])>>]]]
      ELSE pair[2]

AssignEnds ==
  /\ In("assign", "assign") /\ Active.todo = <<>>
  /\ End("value", Yields[<<Active.left, Active.right>>]) /\ UNCHANGED raised
  /\ UNCHANGED scopeVars

AssignmentNext ==
  \/ \E assignment \in Assignments : BeginAssign(assignment)
  \/ RightEvaluated
  \/ AssignName \/ AssignArray \/ AssignHash \/ AssignFails \/ AssignEnds
=============================================================================
