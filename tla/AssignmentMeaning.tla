-------------------------- MODULE AssignmentMeaning --------------------------
(***************************************************************************)
(* What a multiple assignment means, from its two sides: the variables in  *)
(* it from left to right with the part of the right side for each.         *)
(***************************************************************************)
EXTENDS Statements

TakenApart(pair) ==
  /\ pair[1].is = "list"
  /\ \/ pair[2].is = "hash"
     \/ pair[2].is = "array" /\ Len(pair[1].of) = Len(pair[2].of)

Part(pair, i) ==
  <<pair[1].of[i],
    IF pair[2].is = "hash" THEN ValueFor(pair[2].of, pair[1].of[i]) ELSE pair[2].of[i]>>

Leaves[pair \in Pairs] ==
  IF TakenApart(pair) THEN FlattenSeq([i \in 1 .. Len(pair[1].of) |-> Leaves[Part(pair, i)]])
  ELSE IF pair[1].is = "name" THEN <<pair>> ELSE <<<<pair[1], Missing>>>>

\* An assignment binds its variables from left to right, and each can then be
\* read; only $pnr may be bound again, where it overrides that of a parent.  If
\* it ends it has bound all of them; if it fails, it has bound those before the
\* first that has no part of the right side or that is bound already.
BoundUpToFailure(a) ==
  LET leaves == Leaves[<<a.left, a.right>>]
      next == Len(a.bound) + 1
  IN  /\ IsPrefix(a.bound, leaves)
      /\ \A i \in DOMAIN a.bound :
           \/ Get2(Current, a.bound[i][1].ref) = a.bound[i][2]
           \/ a.bound[i][1].ref.name = Pnr /\ ParentShows(Pnr, "Global")
      /\ raised = "error" =>
           /\ next <= Len(leaves)
           /\ leaves[next][2] # Missing => ~MaySet(Current, leaves[next][1].ref)

AssignmentIsPrefix ==
  /\ stack # <<>> /\ Active.is = "assign" /\ Active.phase = "assign" => BoundUpToFailure(Active)
  /\ ended.is = "value" /\ ended.of.is = "assign" =>
       ended.of.bound = Leaves[<<ended.of.left, ended.of.right>>]
=============================================================================
