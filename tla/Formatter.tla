----------------------------- MODULE Formatter -----------------------------
(***************************************************************************)
(* cue-syntax/formatter.rs: a tree written back as a text.  The tree does  *)
(* not keep the parentheses it was read with; they are derived from how    *)
(* tightly each operator binds.  Indentation and the alignment of columns  *)
(* are left out: only where there is a space and where a line ends.        *)
(***************************************************************************)
EXTENDS Syntax

T(kind) == <<kind, "">>
Sp == <<"sp", "">>
Nl == <<"nl", "">>

\* A name: the token of that keyword or literal, or an identifier.
Word(kind, name) ==
  IF kind = "Ident" /\ name \in Keywords \cup Literals \cup {"_"} THEN T(name)
  ELSE <<kind, name>>

Name(leaf) == Word("Ident", leaf.v)

(* Sequences of texts, with a separator between each two. *)
Joined(texts, separator) ==
  FoldLeft(LAMBDA out, text : IF out = <<>> THEN text ELSE out \o separator \o text,
           <<>>, texts)

PostfixStrength == 9
UnaryStrength == 8

\* How tightly an expression binds; what is no operator is a single term.
BindingStrength(e) ==
  CASE e.k = "Disjunction" -> 1
    [] e.k = "Binary" -> 1 + CHOOSE level \in DOMAIN Ladder : e.v \in Ladder[level]
    [] e.k = "Unary" -> UnaryStrength
    [] OTHER -> PostfixStrength

\* Two unary operators back to back that the scanner would cut elsewhere.
ReadsAsAnotherToken(outer, inner) ==
  inner \in {"==", "=~"} \/ (outer = "<" /\ inner = "-")

\* The braces of a list comprehension can be those of its struct.
OpensWithADeclaration(struct) ==
  LET decls == SelectSeq(struct.sub, LAMBDA decl : decl.k \notin {"Comment", "BlankLine"})
  IN decls = <<>> \/ Head(decls).k \in {"Field", "Let"}

RECURSIVE FormatExpr(_)
RECURSIVE FormatDecl(_)
RECURSIVE FormatBlock(_)

Parenthesised(e) == <<T("(")>> \o FormatExpr(e) \o <<T(")")>>

(* Fault: an operand as tight as required is parenthesised too. *)
FormatOperandEager(e, required) ==
  IF BindingStrength(e) <= required THEN Parenthesised(e) ELSE FormatExpr(e)

FormatOperand(e, required) ==
  IF BindingStrength(e) < required THEN Parenthesised(e) ELSE FormatExpr(e)

(* Fault: the right operand is treated as the left one. *)
FormatBinaryFlat(e) ==
  FormatOperand(e.sub[1], BindingStrength(e)) \o <<Sp, T(e.v), Sp>>
    \o FormatOperand(e.sub[2], BindingStrength(e))

\* Operators associate left, so the right operand has to bind tighter.
FormatBinary(e) ==
  FormatOperand(e.sub[1], BindingStrength(e)) \o <<Sp, T(e.v), Sp>>
    \o FormatOperand(e.sub[2], BindingStrength(e) + 1)

FormatUnary(e) ==
  LET operand == e.sub[1]
      nested == operand.k = "Unary"
  IN <<T(e.v)>> \o
     (CASE nested /\ ReadsAsAnotherToken(e.v, operand.v) -> Parenthesised(operand)
        [] nested /\ e.v \in {"+", "-"} /\ operand.v = e.v -> <<Sp>> \o FormatExpr(operand)
        [] OTHER -> FormatOperand(operand, UnaryStrength))

FormatBranch(branch) ==
  IF branch.v = "*" THEN <<T("*")>> \o FormatOperand(branch.sub[1], UnaryStrength)
  ELSE FormatOperand(branch.sub[1], 2)

FormatDisjunction(e) ==
  FoldLeft(LAMBDA out, branch :
             IF out = <<>> THEN FormatBranch(branch)
             ELSE out \o <<Sp, T("|"), IF branch.f = "newline" THEN Nl ELSE Sp>>
                      \o FormatBranch(branch),
           <<>>, e.sub)

Commas == <<T(","), Sp>>

\* `...` and the type of the elements past the written ones.
FormatListEnd(list) ==
  IF list.v = "closed" THEN <<>>
  ELSE <<<<T("...")>> \o (IF Last(list.sub) = Absent THEN <<>> ELSE FormatExpr(Last(list.sub)))>>

FormatList(list) ==
  LET elements == [i \in 1 .. Len(list.sub) - 1 |-> FormatExpr(list.sub[i])]
  IN CASE elements = <<>> /\ list.v = "closed" -> <<T("["), T("]")>>
       [] list.f = "Inline" ->
            <<T("[")>> \o Joined(elements \o FormatListEnd(list), Commas) \o <<T("]")>>
       [] OTHER ->
            <<T("["), Nl>>
              \o FlattenSeq([i \in DOMAIN elements |-> elements[i] \o <<T(","), Nl>>])
              \o FlattenSeq([i \in DOMAIN FormatListEnd(list) |-> FormatListEnd(list)[i] \o <<Nl>>])
              \o <<T("]")>>

FitsOnALine(decl) == decl.k \notin {"Comment", "BlankLine"}

FormatStruct(struct) ==
  CASE struct.sub = <<>> -> <<T("{"), T("}")>>
    [] /\ struct.f = "Inline"
       /\ \A i \in DOMAIN struct.sub : FitsOnALine(struct.sub[i]) ->
         <<T("{")>> \o Joined([i \in DOMAIN struct.sub |-> FormatDecl(struct.sub[i])], Commas)
           \o <<T("}")>>
    [] OTHER -> <<T("{"), Nl>> \o FormatBlock(struct.sub) \o <<T("}")>>

FormatClause(clause) ==
  CASE clause.k = "For" ->
         <<T("for"), Sp>>
           \o (IF clause.sub[1] = Absent THEN <<>> ELSE <<Name(clause.sub[1])>> \o Commas)
           \o <<Name(clause.sub[2]), Sp, T("in"), Sp>> \o FormatExpr(clause.sub[3]) \o <<Sp>>
    [] clause.k = "If" -> <<T("if"), Sp>> \o FormatExpr(clause.sub[1]) \o <<Sp>>
    [] clause.k = "LetClause" ->
         <<T("let"), Sp, Name(clause), Sp, T("="), Sp>> \o FormatExpr(clause.sub[1]) \o <<Sp>>

FormatClauses(clauses) == FlattenSeq([i \in DOMAIN clauses |-> FormatClause(clauses[i])])

FormatYield(body) ==
  IF body.k = "Struct" /\ OpensWithADeclaration(body) THEN FormatStruct(body)
  ELSE <<T("{")>> \o FormatExpr(body) \o <<T("}")>>

\* A number before a selector is parenthesised: `1.f` would read as `1.`.
FormatSelected(e) ==
  IF e.k = "Number" THEN Parenthesised(e) ELSE FormatOperand(e, PostfixStrength)

FormatOptional(e) == IF e = Absent THEN <<>> ELSE FormatExpr(e)

FormatExpr(e) ==
  CASE e.k \in Terms -> <<Word(e.k, e.v)>>
    [] e.k = "Struct" -> FormatStruct(e)
    [] e.k = "List" -> FormatList(e)
    [] e.k = "Binary" -> FormatBinary(e)
    [] e.k = "Unary" -> FormatUnary(e)
    [] e.k = "Disjunction" -> FormatDisjunction(e)
    [] e.k = "Selector" ->
         FormatSelected(e.sub[1]) \o <<T("."), Word(e.sub[2].k, e.sub[2].v)>>
    [] e.k = "Index" ->
         FormatOperand(e.sub[1], PostfixStrength) \o <<T("[")>>
           \o FormatExpr(e.sub[2]) \o <<T("]")>>
    [] e.k = "Slice" ->
         FormatOperand(e.sub[1], PostfixStrength) \o <<T("[")>> \o FormatOptional(e.sub[2])
           \o <<T(":")>> \o FormatOptional(e.sub[3]) \o <<T("]")>>
    [] e.k = "Call" ->
         FormatOperand(e.sub[1], PostfixStrength) \o <<T("(")>>
           \o Joined([i \in 1 .. Len(e.sub) - 1 |-> FormatExpr(e.sub[i + 1])], Commas)
           \o <<T(")")>>
    [] e.k = "Spread" -> FormatOperand(e.sub[1], PostfixStrength) \o <<T("...")>>
    [] e.k = "ListComp" -> FormatClauses(Front(e.sub)) \o FormatYield(Last(e.sub))

FormatLabel(label) ==
  CASE label.k = "Pattern" -> <<T("[")>> \o FormatExpr(label.sub[1]) \o <<T("]")>>
    [] label.k = "Dynamic" -> Parenthesised(label.sub[1])
    [] label.k = "String" -> <<<<"String", label.v>>>>
    [] OTHER -> <<Word(label.k, label.v)>>

\* The name of an alias that may be left out.
NameOrBlank(leaf) == IF leaf = Absent THEN T("_") ELSE Name(leaf)

(***************************************************************************)
(* A field up to its colon, its aliases spelled as they were.              *)
(***************************************************************************)
FormatFieldHead(field) ==
  LET label == field.sub[1]
      alias == field.sub[3].sub[1]
      key == field.sub[3].sub[2]
  IN (IF field.sub[3].v = "~"
      THEN FormatLabel(label) \o <<T("~")>>
             \o (IF key = Absent THEN <<NameOrBlank(alias)>>
                 ELSE <<T("("), Name(key), T(","), NameOrBlank(alias), T(")")>>)
      ELSE (IF alias = Absent THEN <<>> ELSE <<Name(alias), T("=")>>)
             \o (IF key # Absent /\ label.k = "Pattern"
                 THEN <<T("["), Name(key), T("=")>> \o FormatExpr(label.sub[1]) \o <<T("]")>>
                 ELSE FormatLabel(label)))
     \o (IF field.v = "?" THEN <<T("?")>> ELSE <<>>) \o <<T(":")>>

FormatValueAlias(field) ==
  IF field.sub[3].sub[3] = Absent THEN <<>> ELSE <<Name(field.sub[3].sub[3]), T("=")>>

FieldAttributes(field) == field.sub[4].sub

\* The value of the field continues its path.
HoldsPath(field) ==
  LET value == field.sub[2]
  IN /\ value.k = "Struct" /\ value.f = "Path"
     /\ Len(value.sub) = 1 /\ value.sub[1].k = "Field"

RECURSIVE PathFrom(_)
PathFrom(field) ==
  IF HoldsPath(field) THEN <<field>> \o PathFrom(field.sub[2].sub[1]) ELSE <<field>>

\* The fields written as one path; attributes of the last give it its braces.
PathChain(field) ==
  LET path == PathFrom(field)
  IN IF Len(path) > 1 /\ FieldAttributes(Last(path)) # <<>> THEN <<field>> ELSE path

FormatAttributes(attrs) ==
  FlattenSeq([i \in DOMAIN attrs |-> <<Sp, <<"Attribute", attrs[i].v>>>>])

\* A field whose heads are those of `path`; its value is the last one's.
FormatFieldAs(path) ==
  LET last == Last(path)
  IN Joined([i \in DOMAIN path |-> FormatFieldHead(path[i])], <<Sp>>) \o <<Sp>>
       \o FormatValueAlias(last) \o FormatExpr(last.sub[2])
       \o FormatAttributes(FieldAttributes(last))

Bound(keyword, decl) ==
  keyword \o <<Name(decl), Sp, T("="), Sp>> \o FormatExpr(decl.sub[1])

FormatDecl(decl) ==
  CASE decl.k = "Comment" -> <<<<"//", decl.v>>>>
    [] decl.k = "BlankLine" -> <<>>
    [] decl.k = "Field" -> FormatFieldAs(<<decl>>)
    [] decl.k = "Alias" -> Bound(<<>>, decl)
    [] decl.k = "Let" -> Bound(<<T("let"), Sp>>, decl)
    [] decl.k = "Embedding" -> FormatExpr(decl.sub[1])
    [] decl.k = "Ellipsis" ->
         <<T("...")>> \o (IF decl.sub = <<>> THEN <<>> ELSE FormatExpr(decl.sub[1]))
    [] decl.k = "Comprehension" -> FormatClauses(Front(decl.sub)) \o FormatStruct(Last(decl.sub))
    [] decl.k = "Attribute" -> <<<<"Attribute", decl.v>>>>

(* Fault: a blank line above the comment does not count as one. *)
NeedsBlankLineTwice(decls, i) ==
  /\ decls[i].k = "Comment" /\ i > 1
  /\ decls[i - 1].k \notin {"Field", "Comment"}

\* A comment under anything but a field is set off by a line.
NeedsBlankLine(decls, i) ==
  /\ decls[i].k = "Comment" /\ i > 1
  /\ decls[i - 1].k \in {"Alias", "Let", "Embedding", "Ellipsis", "Attribute", "Comprehension"}

\* Declarations, one to a line.  Only here is a path written as one.
FormatBlock(decls) ==
  FlattenSeq([i \in DOMAIN decls |->
    (IF NeedsBlankLine(decls, i) THEN <<Nl>> ELSE <<>>)
      \o (IF decls[i].k = "Field" THEN FormatFieldAs(PathChain(decls[i]))
          ELSE FormatDecl(decls[i]))
      \o <<Nl>>])

FormatImport(import) ==
  (IF import.sub[1] = Absent THEN <<>> ELSE <<Name(import.sub[1]), Sp>>)
    \o <<<<"String", import.v>>>>

FormatImports(imports) ==
  CASE imports = <<>> -> <<>>
    [] Len(imports) = 1 -> <<T("import"), Sp>> \o FormatImport(imports[1]) \o <<Nl, Nl>>
    [] OTHER -> <<T("import"), Sp, T("("), Nl>>
                  \o FlattenSeq([i \in DOMAIN imports |-> FormatImport(imports[i]) \o <<Nl>>])
                  \o <<T(")"), Nl, Nl>>

FormatFile(file) ==
  FormatBlock(file.sub[1].sub)
    \o (IF file.v = "" THEN <<>> ELSE <<T("package"), Sp, <<"Ident", file.v>>, Nl, Nl>>)
    \o FormatImports(file.sub[2].sub)
    \o FormatBlock(file.sub[3].sub)
=============================================================================
