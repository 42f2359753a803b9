--------------------------- MODULE LexicalFrames ---------------------------
(***************************************************************************)
(* What scope.rs promises of lexical frames, with no storage, no sharing   *)
(* and no log of writes: a capture keeps the bindings it was taken with,   *)
(* and deriving a captured frame again yields a frame of its own that      *)
(* holds what the captured frame binds now.                                *)
(***************************************************************************)
EXTENDS Naturals, Sequences

CONSTANTS
  Names,     \* identifiers a frame can bind
  Values,    \* value ids
  Unbound    \* a name the frame does not bind

VARIABLES
  binds,     \* binds[f]: what frame f binds, or bound last before it was left
  open,      \* open[f]: the evaluator still has frame f
  caps       \* captures: the frame they are of, and what it bound then

Bindings == [Names -> Values \cup {Unbound}]
Empty == [n \in Names |-> Unbound]

Init ==
  /\ binds = <<Empty>>
  /\ open = <<TRUE>>
  /\ caps = <<>>

Write(f, n, x) ==
  /\ open[f]
  /\ binds' = [binds EXCEPT ![f] = [@ EXCEPT ![n] = x]]
  /\ UNCHANGED <<open, caps>>

Capture(f) ==
  /\ open[f]
  /\ caps' = Append(caps, [of |-> f, held |-> binds[f]])
  /\ UNCHANGED <<binds, open>>

DeriveAgain(c) ==
  /\ binds' = Append(binds, binds[caps[c].of])
  /\ open' = Append(open, TRUE)
  /\ UNCHANGED caps

Leave(f) ==
  /\ open[f]
  /\ open' = [open EXCEPT ![f] = FALSE]
  /\ \/ UNCHANGED binds
     \/ /\ \A c \in DOMAIN caps : caps[c].of # f
        /\ binds' = [binds EXCEPT ![f] = Empty]
  /\ UNCHANGED caps

Next ==
  \/ \E f \in DOMAIN binds, n \in Names, x \in Values \cup {Unbound} : Write(f, n, x)
  \/ \E f \in DOMAIN binds : Capture(f) \/ Leave(f)
  \/ \E c \in DOMAIN caps : DeriveAgain(c)

vars == <<binds, open, caps>>

Spec == Init /\ [][Next]_vars
=============================================================================
