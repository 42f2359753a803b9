------------------------- MODULE MCDerivationOrder -------------------------
(***************************************************************************)
(* Every struct of up to four fields, in one section and in two.           *)
(***************************************************************************)
EXTENDS DerivationOrder

MCSections == {"field", "definition"}
MCNames == {"a", "b", "c", "d", "outside", "#e", "x"}

Field(n) == [section |-> "field", name |-> n]
Definition(n) == [section |-> "definition", name |-> n]

Over(fields, names) ==
  {[nodes |-> fields, deps |-> f] : f \in [DOMAIN fields -> SUBSET names]}

\* Four fields that read each other, and two that may read anything.
MCFour == <<Field("a"), Field("b"), Definition("c"), Field("d")>>
MCDistinct ==
  {s \in Over(MCFour, {"a", "b", "c", "d"}) :
     \A i \in 1 .. 4 : MCFour[i].name \notin s.deps[i]}
  \cup Over(<<Field("a"), Definition("b")>>, {"a", "b", "c", "d", "outside"})

\* A quoted "#e" is a field beside the definition #e.
MCSharedNames ==
  Over(<<Field("b"), Field("#e"), Field("x"), Definition("#e")>>, {"#e", "b"})

MCStructs == MCDistinct \cup MCSharedNames
=============================================================================
