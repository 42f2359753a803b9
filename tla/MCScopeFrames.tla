--------------------------- MODULE MCScopeFrames ---------------------------
(***************************************************************************)
(* One name, bound or not, with three frames or two captures of one.       *)
(***************************************************************************)
EXTENDS ScopeFrames

CONSTANTS x, v

MCAddr == 1 .. 6
MCNames == {x}
MCValues == {v}
=============================================================================
