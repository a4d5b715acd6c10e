--------------------------- MODULE MCDefinitions ---------------------------
(* Definitions for TLC: contexts, and definitions of each kind. *)
EXTENDS Definitions, TLC

CONSTANTS c1, c2, f1, f2, f3, f4, f5, t1, g1

One == {c1}
Two == {c1, c2}
OneFunction == {f1}
TwoFunctions == {f1, f2}
FiveFunctions == {f1, f2, f3, f4, f5}
OneType == {t1}
OneFile == {g1}
Nothing == {}
Either == BOOLEAN
Hasty == {FALSE}

Symmetry == Permutations(Functions) \cup Permutations(FromFile)
=============================================================================
