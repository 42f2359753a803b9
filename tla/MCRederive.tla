----------------------------- MODULE MCRederive -----------------------------
(***************************************************************************)
(* Merges of a struct of four fields: a chain a, b, c with copies, flips   *)
(* and repeated declarations, and a field t; with a comprehension, or one  *)
(* in the body of another.                                                 *)
(***************************************************************************)
EXTENDS Rederive

MCNames == {"a", "b", "c", "t"}

Lit(s) == [by |-> 0, op |-> "lit", v |-> [v |-> s, in |-> s], of |-> "none"]
Over(s) == [by |-> 0, op |-> "lit", v |-> [v |-> s, in |-> "any"], of |-> "none"]
Copy(n) == [by |-> 0, op |-> "copy", v |-> Top, of |-> n]
FlipOf(n) == [by |-> 0, op |-> "flip", v |-> Top, of |-> n]

If(id, reads, into, body, within) ==
  [id |-> id, kind |-> "if", reads |-> reads, into |-> into,
   body |-> [body EXCEPT !.by = id], within |-> within]
Let(id, reads, into) ==
  [id |-> id, kind |-> "let", reads |-> reads, into |-> into,
   body |-> [Copy(reads) EXCEPT !.by = id], within |-> 0]

\* One conjunct sequence of each set for each field.
Structs(a, b, c, t) ==
  {[n \in MCNames |-> CASE n = "a" -> x[1] [] n = "b" -> x[2] [] n = "c" -> x[3] [] OTHER -> x[4]] :
     x \in a \X b \X c \X t}

Bases(t) ==
  Structs({<<Lit("d0")>>},
          {<<Lit("d0")>>, <<Copy("a")>>, <<FlipOf("a")>>, <<Copy("a"), Lit("d0")>>,
           <<Copy("c"), Lit("d0")>>},
          {<<Copy("b")>>, <<FlipOf("b")>>, <<Copy("b"), Copy("a")>>},
          t)
Added ==
  Structs({<<>>, <<Over("0")>>, <<Over("1")>>}, {<<>>, <<Over("1")>>},
          {<<>>, <<Over("1")>>}, {<<>>, <<Over("1")>>})

MergesOf(bases, decls) ==
  {m \in [base : bases, added : Added, recipes : decls] :
     \E n \in MCNames : m.added[n] # <<>>}

MCMerges ==
  MergesOf(Bases({<<>>, <<Lit("d0")>>}),
           {{}, {Let(1, "b", "t")}, {If(1, "a", "t", Lit("1"), 0)},
            {If(1, "b", "t", Lit("1"), 0)}, {If(1, "b", "t", Copy("c"), 0)},
            {If(1, "a", "c", Lit("1"), 0), Let(2, "c", "t")}})
  \cup MergesOf(Bases({<<Lit("1")>>}),
                {{If(1, "t", "c", Lit("1"), 2), If(2, "b", "none", Lit("1"), 0)}})

MCShared == {[v |-> s, in |-> s] : s \in {"0", "1"}}

MCLarge == {{}, {"b"}}
=============================================================================
