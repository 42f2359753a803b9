---------------------------- MODULE MCRelaxation ----------------------------
(***************************************************************************)
(* Programs for Relaxation: all the small ones, with two fields of two     *)
(* parts or three of one, and one that spends the allowance.               *)
(***************************************************************************)
EXTENDS RelaxationMeaning, TLC

Const == [op |-> "const"]
Ref(d) == [op |-> "ref", to |-> d]
Sel(d, p) == [op |-> "sel", to |-> d, part |-> p]
Scalar(e) == [literal |-> FALSE, expr |-> e]
Literal(parts) == [literal |-> TRUE, parts |-> parts]

\* Every program over `names` whose literals have the parts of one of `shapes`.
AllPrograms(names, parts, shapes, externals, outers) ==
  LET refs == {Ref(d) : d \in names \cup externals}
      exprs == {Const} \cup refs \cup {Sel(d, p) : d \in names, p \in parts}
      forms == {Scalar(e) : e \in exprs} \cup
               UNION {{Literal(f) : f \in [shape -> exprs]} : shape \in shapes}
  IN [form : [names -> forms], outer : outers]

MCOrder == <<"a", "b", "c">>
MCPrograms ==
  LET Beside(p) == [p EXCEPT !.form = [d \in {"a", "b", "c"} |->
                                         IF d = "c" THEN Scalar(Const) ELSE p.form[d]]]
      two == AllPrograms({"a", "b"}, {"p", "q"}, {{"p"}, {"p", "q"}}, {"x"}, SUBSET {"a", "b"})
      three == AllPrograms({"a", "b", "c"}, {"p"}, {{"p"}}, {}, {{}, {"a"}, {"a", "b", "c"}})
  IN {Beside(p) : p \in two} \cup three
=============================================================================
