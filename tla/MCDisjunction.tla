--------------------------- MODULE MCDisjunction ---------------------------
(***************************************************************************)
(* Conjunctions of disjunctions: without references, with one, and nested. *)
(***************************************************************************)
EXTENDS Disjunction

Plain(S) == {<<"plain", i>> : i \in S}
Val(v) == [op |-> "value", v |-> v]
Some(S) == Val(Leaf(Plain(S)))
Ref == [op |-> "ref"]
Held(kind) == [op |-> "held", kind |-> kind]
Schema(kind) == Val(Leaf(Every(kind)))

B(default, expr) == [default |-> default, expr |-> expr]
Branches(exprs, marks) == {B(d, e) : d \in marks, e \in exprs}
ChoicesOf(n, branches) == {[op |-> "choice", branches |-> b] : b \in [1 .. n -> branches]}

Program(list) == [operands |-> list, target |-> Plain({2})]
Pairs(S, T) == {Program(<<x, y>>) : x \in S, y \in T}

\* Two and three constraints over two values.
Small == {Some(S) : S \in (SUBSET {1, 2}) \ {{}}}
Twos == ChoicesOf(2, Branches(Small, BOOLEAN))
Triples == {Program(<<x, y, z>>) : x, y \in Twos, z \in Small \cup {
              [op |-> "choice", branches |-> <<B(TRUE, Some({1})), B(FALSE, Some({2}))>>],
              [op |-> "choice", branches |-> <<B(FALSE, Some({1, 2})), B(TRUE, Some({2}))>>]}}

\* Wider ones over three values, and a copy of each.
Wide == ChoicesOf(3, Branches({Some({1}), Some({2}), Some({1, 2, 3})}, BOOLEAN))
Wides == {Program(<<x, x, x>>) : x \in Wide} \cup Pairs(Wide, {Some({1, 2}), Some({2, 3})})

\* A choice for a branch.
Inner == ChoicesOf(2, {B(FALSE, Some({1})), B(FALSE, Some({2})), B(FALSE, Some({2, 3}))})
Nested == ChoicesOf(2, Branches(Inner \cup {Some({3})}, BOOLEAN))
Nests == Pairs(Nested, {Some({2, 3}), Some({1})} \cup ChoicesOf(2, Branches({Some({1, 3}), Some({2})}, BOOLEAN)))

\* A reference, in an alternative or beside it, errors and schemas to fill.
Forms == {Ref, Held("list"), Held("struct"), Some({1, 2}), Schema("list"), Schema("struct"), Val(Custom)}
Waiting ==
  Pairs(ChoicesOf(2, Branches(Forms, BOOLEAN)), Forms \cup ChoicesOf(2, Branches({Held("list"), Some({2}), Schema("list")}, {FALSE})))
Failures ==
  Pairs(ChoicesOf(3, Branches({Val(Bottom("incomplete")), Val(Custom), Val(Bottom("conflict")), Some({1})}, BOOLEAN)),
        {Some({1}), Some({2})})

MCPrograms == Triples \cup Wides \cup Nests \cup Waiting \cup Failures
MCTooLarge == {Plain({1, 2, 3})}

\* `x: (*a | 1) & int, a: 2`
MCPending ==
  {Program(<<[op |-> "choice", branches |-> <<B(TRUE, Ref), B(FALSE, Some({1}))>>], Some({1, 2, 3})>>)}
=============================================================================
