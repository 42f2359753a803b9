---------------------------- MODULE MCFmtCommand ----------------------------
(***************************************************************************)
(* Files for FmtCommand: short ones typed token by token, expressions with *)
(* every operand parenthesised or none, and declarations of every shape.   *)
(***************************************************************************)
EXTENDS FmtCommand, TLC

x == <<"Ident", "x">>
y == <<"Ident", "y">>
one == <<"Number", "1">>
str == <<"String", "s">>
attr == <<"Attribute", "@a">>
own == <<"//", "own line">>
after == <<"//", "after">>

Empty == <<Quote, Quote>>
File(pieces) == [text |-> pieces, version |-> "unknown", expr |-> Absent, literal |-> Empty]
Meant(pieces, e) == [File(pieces) EXCEPT !.expr = e]

Spaced(pieces) == Joined([i \in DOMAIN pieces |-> <<pieces[i]>>], <<Sp>>)

-----------------------------------------------------------------------------
\* Every text of a few tokens.
Typed(n, vocabulary) == {File(Spaced(s)) : s \in UNION {[1 .. m -> vocabulary] : m \in 0 .. n}}

Vocabulary == {x, one, T("("), T(")"), T("["), T("]"), T("{"), T("}"), T(":"), T(","),
               T("..."), T("*"), T("|"), T("<"), T("if"), Nl}
Symbols == {x, T("-"), T("<"), T("=~"), T("."), T("="), T("?"), T("~"), T(":")}

-----------------------------------------------------------------------------
\* Expressions as [tree, text with every operand parenthesised].
Paren(e) == <<T("(")>> \o e.text \o <<T(")")>>
Atom(p) == [tree |-> Leaf(p[1], p[2]), text |-> <<p>>]
Atoms == {Atom(x)}
X(kind, op, subs, pieces) == [tree |-> Node(kind, op, "", subs), text |-> pieces]

Branch(t) ==
  IF t.k = "Unary" /\ t.v = "*" THEN Node("Branch", "*", "", t.sub)
  ELSE Node("Branch", "", "", <<t>>)

Over(left, right, ops) ==
  {X("Binary", op, <<a.tree, b.tree>>, Paren(a) \o <<Sp, T(op), Sp>> \o Paren(b)) :
     a \in left, b \in right, op \in ops}
Either(left, right) ==
  {X("Disjunction", "", <<Branch(a.tree), Branch(b.tree)>>,
     Paren(a) \o <<T("|")>> \o Paren(b)) : a \in left, b \in right}
Under(es, ops) ==
  {X("Unary", op, <<e.tree>>, <<T(op)>> \o Paren(e)) : e \in es, op \in ops}
After(es) ==
  {X("Selector", "", <<e.tree, Leaf("Ident", "if")>>, Paren(e) \o <<T("."), T("if")>>) : e \in es}
  \cup {X("Spread", "", <<e.tree>>, Paren(e) \o <<T("...")>>) : e \in es}
  \cup {X("Call", "", <<e.tree, e.tree>>, Paren(e) \o <<T("(")>> \o e.text \o <<T(")")>>) : e \in es}
  \cup {X("Slice", "", <<e.tree, Absent, e.tree>>,
          Paren(e) \o <<T("["), T(":")>> \o e.text \o <<T("]")>>) : e \in es}
  \cup {X("Index", "", <<e.tree, e.tree>>, Paren(e) \o <<T("[")>> \o e.text \o <<T("]")>>) : e \in es}

Ops == {"&", "||", "&&", "==", "-", "*"}
Signs == {"-", "<", "*", "=~"}

Deeper(es, ops) == es \cup Over(es, es, ops) \cup Either(es, es) \cup Under(es, Signs) \cup After(es)
Expressions ==
  LET once == Deeper(Atoms \cup {Atom(one)}, {"&", "-"})
      twice == Over(once, Atoms, Ops) \cup Over(Atoms, once, Ops) \cup Either(once, once)
                 \cup Under(once, Signs) \cup After(once)
  IN once \cup twice

Parenthesised3 == {Meant(e.text, e.tree) : e \in Expressions}

\* x op x op ...: the loosest operator, the last of its strength, is the root.
Strength == [op \in {"|", "&", "||", "&&", "==", "+", "*"} |->
               CASE op = "|" -> 1 [] op = "&" -> 2 [] op = "||" -> 3 [] op = "&&" -> 4
                 [] op = "==" -> 5 [] op = "+" -> 6 [] op = "*" -> 7]

RECURSIVE ByStrength(_)
ByStrength(ops) ==
  LET loosest == {i \in DOMAIN ops : \A j \in DOMAIN ops : Strength[ops[i]] <= Strength[ops[j]]}
      root == CHOOSE i \in loosest : \A j \in loosest : j <= i
      cuts == {0} \cup loosest
      PartAfter(i) == SubSeq(ops, i + 1, (CHOOSE j \in loosest \cup {Len(ops) + 1} :
                        j > i /\ \A m \in loosest : m > i => j <= m) - 1)
  IN CASE ops = <<>> -> Leaf("Ident", "x")
       [] ops # <<>> /\ ops[root] = "|" ->
            Node("Disjunction", "", "",
                 [n \in 1 .. Cardinality(cuts) |->
                    LET i == CHOOSE i \in cuts : Cardinality({j \in cuts : j < i}) = n - 1
                    IN Node("Branch", "", "", <<ByStrength(PartAfter(i))>>)])
       [] OTHER -> Node("Binary", ops[root], "",
                        <<ByStrength(SubSeq(ops, 1, root - 1)),
                          ByStrength(SubSeq(ops, root + 1, Len(ops)))>>)

Flat == {Meant(<<x>> \o FlattenSeq([i \in DOMAIN ops |-> <<Sp, T(ops[i]), Sp, x>>]),
               ByStrength(ops)) : ops \in UNION {[1 .. n -> DOMAIN Strength] : n \in 1 .. 3}}

\* Parentheses around parentheses, up to past the limit and beyond.
RECURSIVE Nested(_)
Nested(n) == IF n = 0 THEN <<x>> ELSE <<T("(")>> \o Nested(n - 1) \o <<T(")")>>
Deep == {File(Nested(n)) : n \in 1 .. MaxParseDepth + 1}

-----------------------------------------------------------------------------
\* Declarations.
Struct(between, decls) ==
  <<T("{")>> \o between \o Joined(decls, <<T(",")>> \o between) \o between \o <<T("}")>>
List(between, elements) ==
  <<T("[")>> \o between \o Joined(elements, <<T(",")>> \o between) \o between \o <<T("]")>>
Lines == {<<>>, <<Nl>>}

Labels == {<<x>>, <<str>>, <<T("if")>>, <<T("_")>>, <<T("["), x, T("]")>>,
           <<T("["), x, T("="), Sp, T("=~"), str, T("]")>>, <<T("["), x, T("="), str, T("]")>>,
           <<T("("), x, T(")")>>}
PostfixAliases == {<<>>, <<T("~"), y>>, <<T("~"), T("("), x, T(","), T("_"), T(")")>>}
Markers == {<<>>, <<T("?")>>, <<T("!")>>}
Path == <<x, T(":"), Sp, one>>
Values ==
  {<<one>>, Path, Path \o <<Sp, attr>>, <<y, T("="), Sp, T("=="), one>>, <<y, T("="), x>>}
  \cup {Struct(l, <<Path>>) : l \in Lines} \cup {Struct(<<>>, <<>>)}
  \cup {List(l, <<<<one>>, <<T("...")>>>>) : l \in Lines}
  \cup {List(l, <<<<T("...")>> \o <<x>>>>) : l \in Lines}
  \cup {List(l, <<<<x>>, <<str>>>>) : l \in Lines}
  \cup {<<one, Sp, T("|"), Nl, T("*"), x>>}

Fields ==
  {prefix \o label \o postfix \o marker \o <<T(":"), Sp>> \o val :
     prefix \in {<<>>, <<y, T("=")>>}, label \in Labels, postfix \in PostfixAliases,
     marker \in Markers, val \in {<<one>>, Path}}
  \cup {label \o <<T(":"), Sp>> \o val : label \in {<<x>>, <<str>>}, val \in Values}

Clauses ==
  {<<T("for"), Sp, x, Sp, T("in"), Sp, y, Sp>>,
   <<T("for"), Sp, T("in"), T(","), Sp, x, Sp, T("in"), Sp, y, Sp>>,
   <<T("if"), Sp, x, Sp, T("<"), Sp, one, Sp>>,
   <<T("for"), Sp, x, Sp, T("in"), Sp, y, Nl, T("let"), Sp, y, Sp, T("="), Sp, x, Sp>>}

Yields == {Struct(l, <<d>>) : l \in Lines,
                              d \in {Path, <<x>>, Struct(<<>>, <<<<y>>>>), <<T("let"), Sp, y, T("="), x>>}}
          \cup {Struct(<<>>, <<<<x>>, Path>>), Struct(<<>>, <<>>),
                Struct(<<Nl, own, Nl>>, <<Path>>)}

Decls ==
  {<<x>>, <<attr>>, <<T("...")>>, <<T("..."), x>>, <<T("let"), Sp, x, Sp, T("="), Sp, T("=~"), str>>,
   <<x, Sp, T("="), Sp, one>>, <<T("("), T("if"), T(")")>>, <<one, T("."), x>>,
   Path, <<x, T(":"), Sp>> \o Path, <<x, T(":"), Sp>> \o Path \o <<Sp, attr>>,
   <<T("import"), T(":"), one>>, <<T("package"), T("?"), T(":"), one>>}
  \cup {c \o Struct(l, <<Path>>) : c \in Clauses, l \in Lines}

Comprehensions ==
  {c \o s : c \in Clauses, s \in {s \in Yields : s # Struct(<<>>, <<<<x>>, Path>>)}}

Between == {<<Nl>>, <<T(","), Sp>>, <<Nl, Nl>>, <<Nl, own, Nl>>, <<Nl, Nl, own, Nl, own, Nl>>,
            <<Sp, after, Nl>>}

Bodies == {a \o b \o c : a \in Decls, b \in Between, c \in Decls}

Wrapped == {Struct(l, <<body>>) : l \in {<<>>, <<Nl>>, <<Nl, own, Nl>>},
              body \in {a \o b \o c : a \in {<<x>>, <<attr>>, Path, <<T("...")>>}, b \in Between,
                                      c \in {<<x>>, Path, <<x, T(":"), Sp>> \o Path}}}

InLists == {List(l, <<<<x>>, c \o s>>) : l \in Lines, c \in Clauses, s \in Yields}

Heads == {<<>>, <<own, Nl>>, <<own, Nl, Nl, own, Nl>>, <<attr, Nl>>, <<own, Nl, attr, Nl>>}
Preambles ==
  {<<>>, <<T("package"), Sp, x, Nl>>, <<T("import"), Sp, str, Nl>>,
   <<T("package"), Sp, x, Nl, Nl, T("import"), Sp, T("("), Nl, str, Nl, y, Sp, str, Nl, T(")"), Nl>>}
Headed == {h \o p \o b : h \in Heads, p \in Preambles,
             b \in {<<>>, Path, <<Nl, own, Nl>> \o Path, <<own, Nl, Nl, x, Nl, own>>}}

Experiment == <<<<"Attribute", "@experiment(aliasv2)">>, Nl>>
Versions ==
  {[File(f) EXCEPT !.version = v] : v \in {"old", "new"},
     f \in {h \o f : h \in {<<>>, Experiment}, f \in Fields}}

-----------------------------------------------------------------------------
\* Literals in every form, with every short body.
Forms == [block : BOOLEAN, hashes : 0 .. 1]
Characters == {"a", Quote, Backslash, "#", "n", "(", ")", Newline}
Spelled4(form, body) == Guard(form) \o Fence(form) \o body \o Closer(form)
Literals4 ==
  {[File(<<str>>) EXCEPT !.literal = Spelled4(form, body)] :
     form \in Forms, body \in UNION {[1 .. n -> Characters] : n \in 0 .. 4}}

\* Longer ones: an interpolation in every form that holds a literal in every form.
Pieces == {<<"a">>, <<Quote>>, <<Backslash>>, <<Newline>>, <<Newline, Tab>>,
           <<Backslash, "#", "n">>, <<Backslash, "u", "0">>}
Interpolated ==
  {[File(<<str>>) EXCEPT !.literal =
      Spelled4(form, before \o Intro(form) \o <<"(">> \o Spelled4(inner, inside) \o <<")">> \o behind)] :
     form \in Forms, inner \in Forms, inside \in {<<>>, <<")">>, <<"(">>, <<Quote>>, <<Newline>>},
     before \in Pieces, behind \in Pieces}
Laid ==
  {[File(<<str>>) EXCEPT !.literal = Spelled4(form, <<Newline>> \o a \o b \o c \o d)] :
     form \in {f \in Forms : f.block}, a \in Pieces, b \in Pieces, c \in Pieces,
     d \in {<<Newline>>, <<Newline, Tab>>}}

MCFiles ==
  <<Typed(3, Vocabulary \cup Symbols), Typed(4, Symbols), Parenthesised3, Flat, Deep, Versions,
    {File(f) : f \in Fields}, {File(f) : f \in Bodies}, {File(f) : f \in Comprehensions},
    {File(f) : f \in Wrapped}, {File(f) : f \in InLists}, {File(f) : f \in Headed},
    Literals4, Interpolated, Laid>>
=============================================================================
