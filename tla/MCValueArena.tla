---------------------------- MODULE MCValueArena ----------------------------
(* A small instance of the arena: enough nodes for a scope nested in a     *)
(* scope, each with a node of its own, over a node made before both.       *)
EXTENDS ValueArena, TLC

CONSTANTS a, b

MCTexts == {a, b}
TextSymmetry == Permutations(MCTexts)
=============================================================================
