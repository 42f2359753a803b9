---------------------------- MODULE MCPassLoop ----------------------------
(***************************************************************************)
(* PassLoop with a few declarations and the program's own allowance.       *)
(***************************************************************************)
EXTENDS PassLoop, TLC

CONSTANTS a, b, c, d

MCDecls == {a, b, c, d}
MCSymmetry == Permutations(MCDecls)
=============================================================================
