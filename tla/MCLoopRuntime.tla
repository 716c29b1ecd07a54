--------------------------- MODULE MCLoopRuntime ---------------------------
(* Model-checking instance of LoopRuntime. *)
EXTENDS LoopRuntime, TLC
CONSTANTS c1, c2, c3, o1, o2
TwoCallers == {c1, c2}
ThreeCallers == {c1, c2, c3}
MCObjectives == {o1, o2}
Symmetry == Permutations(TwoCallers) \cup Permutations(MCObjectives)
=============================================================================
