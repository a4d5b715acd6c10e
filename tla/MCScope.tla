------------------------------ MODULE MCScope ------------------------------
(* Values for the constants of Scope, for TLC. *)
EXTENDS ScopeRefinement, TLC

CONSTANTS s1, s2, s3, s4, x, pnr, v1, v2, m1, m2

TwoScopes == {s1, s2}
ThreeScopes == {s1, s2, s3}
FourScopes == {s1, s2, s3, s4}
OneName == {x}
TwoNames == {x, pnr}
OneValue == {v1}
TwoValues == {v1, v2}
OneMatch == {m1}
TwoMatches == {m1, m2}
NoMatch == {}

\* The scopes are interchangeable, and so are the values and the captures.
Symmetry == Permutations(ScopeIds) \cup Permutations(Values) \cup Permutations(Matches)
=============================================================================
