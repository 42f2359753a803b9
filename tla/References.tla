----------------------------- MODULE References -----------------------------
(***************************************************************************)
(* What is checked of a file before it is evaluated: marks of preference   *)
(* (preference.rs), imports, lets and aliases nobody reads, and names that *)
(* are both an alias and a field (references.rs).                          *)
(*                                                                         *)
(* A tree is a tuple whose first element names its form:                   *)
(*   <<"id", name>>  <<"struct", declarations>>  <<"select", tree, name>>  *)
(*   <<"of", trees>>  any other expression over its operands               *)
(*   <<"default", tree>>  a mark that is no disjunct's                     *)
(*   <<"or", branches>>  a branch being a record [default, expr]           *)
(*   <<"field", label, names, tree>>  <<"let", name, tree>>                *)
(*   <<"comp", clauses, declarations>>  <<"embed", tree>>                  *)
(*   <<"for", names, tree>>  <<"if", tree>>  clauses, and let as one       *)
(* A label is <<"ident", name>>, <<"string", name>>, <<"hidden", name>>,   *)
(* <<"pattern", tree>> or <<"dynamic", tree>>; names are the three aliases *)
(* a field may have, <<>> where it has none.                                 *)
(***************************************************************************)
EXTENDS Naturals, Sequences, FiniteSetsExt, SequencesExt

Form(node) == node[1]

LabelParts(label) == IF label[1] \in {"pattern", "dynamic"} THEN <<label[2]>> ELSE <<>>

\* The nodes below one, in the order a visitor meets them.
Parts(node) ==
  CASE Form(node) = "id" -> <<>>
    [] Form(node) \in {"struct", "of"} -> node[2]
    [] Form(node) \in {"default", "embed", "if", "select"} -> <<node[2]>>
    [] Form(node) = "or" -> [i \in DOMAIN node[2] |-> node[2][i].expr]
    [] Form(node) = "field" -> Append(LabelParts(node[2]), node[4])
    [] Form(node) \in {"let", "for"} -> <<node[3]>>
    [] Form(node) = "comp" -> node[2] \o node[3]

-----------------------------------------------------------------------------
(* Marks *)

RECURSIVE Unmarked(_)
Unmarked(tree) == IF Form(tree) = "default" THEN Unmarked(tree[2]) ELSE tree

\* A mark stands where no branch of a disjunction is.
RECURSIVE Misplaced(_)
Misplaced(node) ==
  CASE Form(node) = "default" -> TRUE
    [] Form(node) = "or" ->
         \E i \in DOMAIN node[2] :
           Misplaced(IF node[2][i].default THEN Unmarked(node[2][i].expr) ELSE node[2][i].expr)
    [] OTHER -> \E i \in DOMAIN Parts(node) : Misplaced(Parts(node)[i])

-----------------------------------------------------------------------------
(* Names nobody reads *)

\* How often an identifier stands below a node.
RECURSIVE Reads(_, _)
Reads(node, name) ==
  IF Form(node) = "id" THEN IF node[2] = name THEN 1 ELSE 0
  ELSE FoldLeft(LAMBDA sum, part : sum + Reads(part, name), 0, Parts(node))

\* The declarations of every struct literal and comprehension body below a node.
RECURSIVE Literals(_)
Literals(node) ==
  (CASE Form(node) = "struct" -> {node[2]} [] Form(node) = "comp" -> {node[3]} [] OTHER -> {})
  \cup UNION {Literals(part) : part \in ToSet(Parts(node))}

Names(alias, label, value) == [alias |-> alias, label |-> label, value |-> value]

\* Mutant: a let that reads itself counts as read.
UnreferencedElsewhere(decls) ==
  \E d \in ToSet(decls) :
    \/ Form(d) = "let" /\ Reads(<<"struct", decls>>, d[2]) = 0
    \/ Form(d) = "field" /\ \/ d[3].alias # <<>> /\ Reads(<<"struct", decls>>, d[3].alias) = 0
                            \/ d[3].value # <<>> /\ Reads(d[4], d[3].value) = 0

\* A let nobody but itself reads, a field's alias nobody reads, the alias of a
\* value that is not read in it.
Unreferenced(decls) ==
  \E d \in ToSet(decls) :
    \/ Form(d) = "let" /\ Reads(<<"struct", decls>>, d[2]) <= Reads(d[3], d[2])
    \/ Form(d) = "field" /\ \/ d[3].alias # <<>> /\ Reads(<<"struct", decls>>, d[3].alias) = 0
                            \/ d[3].value # <<>> /\ Reads(d[4], d[3].value) = 0

-----------------------------------------------------------------------------
(* Names that are two things *)

Scope(fields, aliases) == [fields |-> fields, aliases |-> aliases]

LiteralScope(decls) ==
  LET fields == {d \in ToSet(decls) : Form(d) = "field"}
      outside == {d \in fields : d[2][1] # "pattern"}
  IN Scope({d[2][2] : d \in {e \in fields : e[2][1] = "ident"}},
           {d[2] : d \in {e \in ToSet(decls) : Form(e) = "let"}}
           \cup (UNION {{d[3].alias, d[3].label} : d \in outside} \ {<<>>}))

\* What names a field's aliases have only inside its value.
ValueScope(field) ==
  Scope({}, ({field[3].value} \cup IF field[2][1] = "pattern" THEN {field[3].alias, field[3].label} ELSE {})
            \ {<<>>})

Clashing(stack, scope) ==
  \/ scope.aliases \cap scope.fields # {}
  \/ \E outer \in ToSet(stack) :
       scope.aliases \cap outer.fields # {} \/ scope.fields \cap outer.aliases # {}

RECURSIVE Clash(_, _)
Clash(stack, node) ==
  LET below(nodes, inner) == \E i \in DOMAIN nodes : Clash(inner, nodes[i])
      within(scope, nodes) == Clashing(stack, scope) \/ below(nodes, Append(stack, scope))
  IN CASE Form(node) = "struct" -> within(LiteralScope(node[2]), node[2])
       [] Form(node) = "comp" -> below(node[2], stack) \/ within(LiteralScope(node[3]), node[3])
       [] Form(node) = "field" /\ ValueScope(node).aliases # {} -> within(ValueScope(node), Parts(node))
       [] OTHER -> below(Parts(node), stack)

-----------------------------------------------------------------------------
\* check_file, of a file's imported names and declarations: what is wrong with
\* it first, or "".
CheckFile(imported, decls) ==
  LET root == <<"struct", decls>>
  IN IF Misplaced(root) THEN "preference mark not allowed"
     ELSE IF \E name \in ToSet(imported) : Reads(root, name) = 0 THEN "imported and not used"
     ELSE IF Clash(<<>>, root) THEN "both alias and field"
     ELSE IF \E decls2 \in Literals(root) : Unreferenced(decls2) THEN "unreferenced alias or let"
     ELSE ""

-----------------------------------------------------------------------------
(* What the check stands for: every identifier resolved in its scope.      *)
(* A node's place is the sequence of positions that leads to it, and a     *)
(* binder is the place that binds a name with what it binds there.         *)

Bind(env, names, binder(_)) == [n \in DOMAIN env \cup names |-> IF n \in names THEN binder(n) ELSE env[n]]

\* The declaration of a literal that binds a name.
BinderOf(decls, n) ==
  CHOOSE i \in DOMAIN decls :
    \/ Form(decls[i]) = "let" /\ decls[i][2] = n
    \/ /\ Form(decls[i]) = "field"
       /\ \/ decls[i][2][1] = "ident" /\ decls[i][2][2] = n
          \/ n \in {decls[i][3].alias, decls[i][3].label}

LiteralNames(decls) == LiteralScope(decls).fields \cup LiteralScope(decls).aliases
LiteralEnv(env, decls, at) ==
  Bind(env, LiteralNames(decls), LAMBDA n : <<n, Append(at, BinderOf(decls, n))>>)

\* Which binder each identifier below a node reads: pairs of place and binder.
\* The names of a field's value stand at its place 0, a comprehension's body too.
RECURSIVE Resolved(_, _, _)
Resolved(node, env, at) ==
  LET all(nodes, inner, place) ==
        UNION {Resolved(nodes[i], inner, Append(place, i)) : i \in DOMAIN nodes}
      body == Append(at, 0)
      named(clause) == CASE Form(clause) = "for" -> ToSet(clause[2])
                         [] Form(clause) = "let" -> {clause[2]} [] OTHER -> {}
      after[i \in 0..Len(node[2])] ==
        IF i = 0 THEN env ELSE Bind(after[i - 1], named(node[2][i]), LAMBDA n : <<n, Append(at, i)>>)
  IN CASE Form(node) = "id" -> IF node[2] \in DOMAIN env THEN {<<at, env[node[2]]>>} ELSE {}
       [] Form(node) = "struct" -> all(node[2], LiteralEnv(env, node[2], at), at)
       [] Form(node) = "field" ->
            all(Parts(node), Bind(env, ValueScope(node).aliases, LAMBDA n : <<n, body>>), at)
       [] Form(node) = "comp" ->
            UNION {Resolved(node[2][i], after[i - 1], Append(at, i)) : i \in DOMAIN node[2]}
            \cup all(node[3], LiteralEnv(after[Len(node[2])], node[3], body), body)
       [] OTHER -> all(Parts(node), env, at)

\* The lets and aliases below a node that have to be read: the name, the place,
\* and whether it is a let, which is not read from inside itself.
RECURSIVE Bindings(_, _)
Bindings(node, at) ==
  LET declared(d, place) ==
        CASE Form(d) = "let" -> {<<d[2], place, TRUE>>}
          [] Form(d) = "field" ->
               {b \in {<<d[3].alias, IF d[2][1] = "pattern" THEN Append(place, 0) ELSE place, FALSE>>,
                       <<d[3].value, Append(place, 0), FALSE>>} : b[1] # <<>>}
          [] OTHER -> {}
      literal(decls, place) ==
        UNION {declared(decls[i], Append(place, i)) \cup Bindings(decls[i], Append(place, i))
               : i \in DOMAIN decls}
      below(nodes) == UNION {Bindings(nodes[i], Append(at, i)) : i \in DOMAIN nodes}
  IN CASE Form(node) = "struct" -> literal(node[2], at)
       [] Form(node) = "comp" -> below(node[2]) \cup literal(node[3], Append(at, 0))
       [] OTHER -> below(Parts(node))

\* Every let and alias, and every import, is read by an identifier that means it.
AllRead(imported, decls) ==
  LET root == <<"struct", decls>>
      outermost == [n \in ToSet(imported) |-> <<n, <<>>>>]
      reads == Resolved(root, outermost, <<>>)
  IN /\ \A b \in Bindings(root, <<>>) :
          \E r \in reads : r[2] = <<b[1], b[2]>> /\ ~(b[3] /\ IsPrefix(b[2], r[1]))
     /\ \A n \in DOMAIN outermost : \E r \in reads : r[2] = outermost[n]

\* One of the names is read where it is not bound.
ReadAstray(names, decls) ==
  \E r \in Resolved(<<"struct", decls>>, [n \in names |-> <<>>], <<>>) : r[2] = <<>>

\* The names bound below a node, once for each place that binds them.
RECURSIVE BoundNames(_)
BoundNames(node) ==
  LET own == CASE Form(node) = "field" ->
                    SelectSeq((IF node[2][1] = "ident" THEN <<node[2][2]>> ELSE <<>>)
                              \o <<node[3].alias, node[3].label, node[3].value>>, LAMBDA n : n # <<>>)
               [] Form(node) = "let" -> <<node[2]>>
               [] Form(node) = "for" -> node[2]
               [] OTHER -> <<>>
  IN own \o FlattenSeq([i \in DOMAIN Parts(node) |-> BoundNames(Parts(node)[i])])
=============================================================================
