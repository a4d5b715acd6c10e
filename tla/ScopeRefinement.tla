-------------------------- MODULE ScopeRefinement --------------------------
(***************************************************************************)
(* Scope implements Environment: as long as the callers keep rule 2 of     *)
(* pdsl.Scope, sharing a parent by reference cannot be told from having a  *)
(* private copy of it.                                                     *)
(***************************************************************************)
EXTENDS Scope

\* What a scope has itself, with the contents of its maps.
LevelOf(t) == [frames |-> [i \in 1 .. Depth(t) |-> Frame(t, i)], mutable |-> mutable[t]]

\* The levels of a scope and of its ancestors.
EnvOf(s) ==
  LET envOf[t \in ScopeIds] ==
        IF parent[t] = None THEN <<LevelOf(t)>>
        ELSE <<LevelOf(t)>> \o envOf[parent[t]]
  IN  IF Allocated(s) THEN envOf[s] ELSE <<>>

Env == INSTANCE Environment WITH env <- [s \in ScopeIds |-> EnvOf(s)]

\* Every behaviour of the scopes is one of independent environments: no
\* assignment, match, push or pop reaches a scope that shares the parent, and
\* a fork is a copy (scope.go, and rules 1 and 2 of pdsl.Scope).
ImplementsEnvironment == Env!Spec
=============================================================================
