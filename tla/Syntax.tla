------------------------------- MODULE Syntax -------------------------------
(***************************************************************************)
(* cue-syntax: from a text to the tree of its file (token.rs, parser.rs).  *)
(* A text is a sequence of pieces <<kind, spelling>>: tokens, and between  *)
(* them spaces ("sp"), line ends ("nl") and comments ("//", each followed  *)
(* by a line end or the end of the text).  A name, a number or a string is *)
(* one token, its spelling the only thing about it that is told apart.     *)
(*                                                                         *)
(* A tree node is [k, v, f, sub]: its kind, the name or operator it        *)
(* carries, the layout it was written in, and its children.                *)
(***************************************************************************)
EXTENDS Naturals, Sequences, SequencesExt

CONSTANT MaxParseDepth   \* MAX_PARSE_DEPTH

ASSUME DepthIsNat == MaxParseDepth \in Nat

-----------------------------------------------------------------------------
(* Trees. *)

Node(kind, value, layout, children) ==
  [k |-> kind, v |-> value, f |-> layout, sub |-> children]

Leaf(kind, value) == Node(kind, value, "", <<>>)

\* An absent child: no alias, no slice bound, no element type.
Absent == Leaf("Absent", "")

IsBlank(node) == node.k = "BlankLine"

RECURSIVE Meaning(_)
\* A tree without the layout it was written in.
Meaning(node) ==
  LET kept == SelectSeq(node.sub, LAMBDA child : ~IsBlank(child))
  IN Node(node.k, node.v, "", [i \in DOMAIN kept |-> Meaning(kept[i])])

-----------------------------------------------------------------------------
(* Tokens. *)

\* The structural keywords, which may stand where an identifier does.
Keywords == {"package", "import", "for", "in", "if", "let"}
Literals == {"null", "true", "false"}
Identifiers == {"Ident", "DefIdent", "HiddenIdent", "HiddenDefIdent"}
Terms == Identifiers \cup Literals \cup {"_|_", "_", "Number", "String"}
LabelWords == Identifiers \cup Keywords \cup Literals \cup {"String", "_"}
Comparisons == {"==", "!=", "<", "<=", ">", ">=", "=~", "!~"}
UnaryOps == Comparisons \cup {"+", "-", "!", "*"}

\* Two tokens written without a space read as the longest tokens there are.
Munched(a, b) ==
  IF a[1] \in {"<", ">", "!", "="} /\ b[1] \in {"==", "=~"}
  THEN <<<<a[1] \o "=", "">>, <<IF b[1] = "==" THEN "=" ELSE "~", "">>>>
  ELSE <<a, b>>

Layout == {"sp", "nl", "//"}

CanEndStatement(kind) ==
  kind \in Terms \cup {")", "]", "}", "?", "Attribute", "..."}

HasNewline(gap) == \E i \in DOMAIN gap : gap[i][1] = "nl"

(* Fault: the first comment of a gap is dropped whether or not a token ends there. *)
ScanTriviaAnywhere(gap, afterToken) ==
  LET Step(s, piece) ==
        LET blank == IF s.lines > 1 /\ (afterToken \/ s.out # <<>>)
                     THEN <<Leaf("BlankLine", "")>> ELSE <<>>
        IN CASE piece[1] = "nl" -> [s EXCEPT !.lines = @ + 1]
             [] piece[1] = "end" -> [s EXCEPT !.out = @ \o blank]
             [] piece[1] = "//" /\ s.first /\ s.lines = 0 ->
                  [s EXCEPT !.first = FALSE]
             [] piece[1] = "//" ->
                  [out |-> s.out \o blank \o <<Leaf("Comment", piece[2])>>,
                   lines |-> 0, first |-> FALSE]
             [] OTHER -> s
  IN FoldLeft(Step, [out |-> <<>>, lines |-> 0, first |-> TRUE],
              gap \o <<<<"end", "">>>>).out

(***************************************************************************)
(* The comments and blank lines of one gap.  A comment on the line of the  *)
(* token before it belongs to that token, which has no place for it, and   *)
(* is dropped.                                                             *)
(***************************************************************************)
ScanTrivia(gap, afterToken) ==
  LET Step(s, piece) ==
        LET blank == IF s.lines > 1 /\ (afterToken \/ s.out # <<>>)
                     THEN <<Leaf("BlankLine", "")>> ELSE <<>>
        IN CASE piece[1] = "nl" -> [s EXCEPT !.lines = @ + 1]
             [] piece[1] = "end" -> [s EXCEPT !.out = @ \o blank]
             [] piece[1] = "//" /\ s.first /\ afterToken /\ s.lines = 0 ->
                  [s EXCEPT !.first = FALSE]
             [] piece[1] = "//" ->
                  [out |-> s.out \o blank \o <<Leaf("Comment", piece[2])>>,
                   lines |-> 0, first |-> FALSE]
             [] OTHER -> s
  IN FoldLeft(Step, [out |-> <<>>, lines |-> 0, first |-> TRUE],
              gap \o <<<<"end", "">>>>).out

(***************************************************************************)
(* Parser::new: tokens, each with its trivia and whether it opens a line,  *)
(* and a comma where a line ends after a token that can end a statement.   *)
(***************************************************************************)
Tokens(text) ==
  LET Add(s, piece) ==
        LET line == HasNewline(s.gap)
            comma == line /\ s.ts # <<>> /\ CanEndStatement(Last(s.ts).k) /\ piece[1] # ":"
            joined == s.gap = <<>> /\ s.ts # <<>>
            read == IF joined THEN Munched(<<Last(s.ts).k, Last(s.ts).v>>, piece)
                    ELSE <<piece>>
            token == [k |-> Last(read)[1], v |-> Last(read)[2], line |-> line,
                      trivia |-> ScanTrivia(s.gap, s.ts # <<>>)]
        IN IF piece[1] \in Layout THEN [s EXCEPT !.gap = Append(@, piece)]
           ELSE [ts |-> (IF joined
                         THEN [s.ts EXCEPT ![Len(s.ts)].k = read[1][1]] ELSE s.ts)
                        \o (IF comma THEN <<[k |-> ",", v |-> "", line |-> FALSE,
                                             trivia |-> <<>>]>> ELSE <<>>)
                        \o <<token>>,
                 gap |-> <<>>]
      read == FoldLeft(Add, [ts |-> <<>>, gap |-> <<>>], text)
  IN [ts |-> read.ts, end |-> ScanTrivia(read.gap, read.ts # <<>>), alias |-> "Any"]

-----------------------------------------------------------------------------
(* The parser.  c is the file's tokens with the alias spellings it may     *)
(* use, i a position, d the depth; a result is the position after what was *)
(* read and the tree of it, or Error.                                      *)

Got(at, node) == [at |-> at, n |-> node]
Error == Got(0, Absent)
Failed(r) == r.at = 0
Then(r, Use(_)) == IF Failed(r) THEN Error ELSE Use(r)

At(c, i) == IF i \in DOMAIN c.ts THEN c.ts[i].k ELSE "eof"
Value(c, i) == c.ts[i].v
Trivia(c, i) == IF i \in DOMAIN c.ts THEN c.ts[i].trivia ELSE c.end
SkipComma(c, i) == IF At(c, i) = "," THEN i + 1 ELSE i
Expect(c, i, kind, r) == IF At(c, i) = kind THEN r ELSE Error

\* A composite is inline when its first token is on the delimiter's line.
OpensInline(c, i) == i \in DOMAIN c.ts => ~c.ts[i].line
Form(c, i) == IF OpensInline(c, i) THEN "Inline" ELSE "Block"

RECURSIVE AfterMatching(_, _, _, _, _)
AfterMatching(c, i, open, close, depth) ==
  IF depth = 0 \/ At(c, i) = "eof" THEN i
  ELSE AfterMatching(c, i + 1, open, close,
         CASE At(c, i) = open -> depth + 1
           [] At(c, i) = close -> depth - 1
           [] OTHER -> depth)

\* After a label's postfix alias, if one stands at i.
AfterPostfixAlias(c, i) ==
  CASE At(c, i) # "~" -> i
    [] At(c, i + 1) = "(" -> AfterMatching(c, i + 2, "(", ")", 1)
    [] At(c, i + 1) = "Ident" -> i + 2
    [] OTHER -> i + 1

PrefixAliasAt(c, i) == At(c, i) = "Ident" /\ At(c, i + 1) = "="
LabelAliasAt(c, i) ==
  At(c, i) \in {"Ident", "DefIdent"} /\ At(c, i + 1) = "="

LabelAhead(c, i) ==
  LET start == IF LabelAliasAt(c, i) THEN i + 2 ELSE i
      after == CASE At(c, start) = "[" -> AfterMatching(c, start + 1, "[", "]", 1)
                 [] At(c, start) = "(" -> AfterMatching(c, start + 1, "(", ")", 1)
                 [] At(c, start) \in LabelWords -> start + 1
                 [] OTHER -> 0
      named == AfterPostfixAlias(c, after)
      marked == IF At(c, named) \in {"?", "!"} THEN named + 1 ELSE named
  IN after > 0 /\ At(c, marked) = ":"

\* What the parser's functions call one another for: an expression, a field,
\* or declarations up to what closes them.
RECURSIVE Production(_, _, _, _)
ParseExpr(c, i, d) == Production("expression", c, i, d)
ParseField(c, i, d) == Production("field", c, i, d)
ParseDecls(c, i, d, close) == Production(close, c, i, d)

RECURSIVE ParseUnary(_, _, _)

(* Fault: the logical operators at the top of the ladder, below `&`. *)
LadderLogicalFirst == <<{"||"}, {"&&"}, {"&"}, Comparisons, {"+", "-"}, {"*", "/"}>>

\* Binary operators by how tightly they bind, loosest first; all associate left.
Ladder == <<{"&"}, {"||"}, {"&&"}, Comparisons, {"+", "-"}, {"*", "/"}>>

RECURSIVE ParseLevel(_, _, _, _)
RECURSIVE ParseMore(_, _, _, _)

ParseLevel(level, c, i, d) ==
  IF level > Len(Ladder) THEN ParseUnary(c, i, d)
  ELSE Then(ParseLevel(level + 1, c, i, d), LAMBDA left : ParseMore(level, left, c, d))

ParseMore(level, left, c, d) ==
  IF At(c, left.at) \notin Ladder[level] THEN left
  ELSE Then(ParseLevel(level + 1, c, left.at + 1, d), LAMBDA right :
         ParseMore(level, Got(right.at, Node("Binary", At(c, left.at), "",
                                             <<left.n, right.n>>)), c, d))

RECURSIVE ParseBranches(_, _, _, _)
\* Branches of a disjunction; each remembers whether it opens a line.
ParseBranches(c, i, d, got) ==
  Then(ParseLevel(1, c, i, d), LAMBDA e :
    LET all == Append(got, Node("Branch", "",
                 IF got # <<>> /\ ~OpensInline(c, i) THEN "newline" ELSE "", <<e.n>>))
    IN IF At(c, e.at) = "|" THEN ParseBranches(c, e.at + 1, d, all)
       ELSE Got(e.at, all))

\* A branch that is itself marked is a default, and loses one mark.
Unmarked(branch) ==
  IF branch.sub[1].k = "Unary" /\ branch.sub[1].v = "*"
  THEN [branch EXCEPT !.v = "*", !.sub = branch.sub[1].sub]
  ELSE branch

DisjunctionOf(branches) ==
  Node("Disjunction", "", "", [j \in DOMAIN branches |-> Unmarked(branches[j])])

ExprAt(c, i, d) ==
  IF d >= MaxParseDepth THEN Error
  ELSE Then(ParseBranches(c, i, d + 1, <<>>), LAMBDA r :
         Got(r.at, IF Len(r.n) = 1 THEN r.n[1].sub[1] ELSE DisjunctionOf(r.n)))

ParseOptional(c, i, d, close) ==
  IF At(c, i) = close THEN Got(i, Absent) ELSE ParseExpr(c, i, d)

-----------------------------------------------------------------------------
(* Comprehensions. *)

LoopNames == (Identifiers \ {"HiddenDefIdent"}) \cup Keywords \cup {"_"}
BindingNames == Identifiers

\* An identifier or a keyword, by its spelling.
Spelled(c, i) == IF At(c, i) \in Identifiers THEN Value(c, i) ELSE At(c, i)

\* One clause at i, which is its keyword.
ParseClause(c, i, d) ==
  LET pair == At(c, i + 2) = ","
      in == IF pair THEN i + 4 ELSE i + 2
      names == /\ At(c, i + 1) \in LoopNames
               /\ pair => At(c, i + 3) \in LoopNames
               /\ At(c, in) = "in"
  IN CASE At(c, i) = "for" /\ names ->
            Then(ParseExpr(c, in + 1, d), LAMBDA e :
              Got(e.at, Node("For", "", "",
                <<IF pair THEN Leaf("Name", Spelled(c, i + 1)) ELSE Absent,
                  Leaf("Name", Spelled(c, in - 1)), e.n>>)))
       [] At(c, i) = "if" ->
            Then(ParseExpr(c, i + 1, d), LAMBDA e : Got(e.at, Node("If", "", "", <<e.n>>)))
       [] At(c, i) = "let" /\ At(c, i + 1) \in BindingNames /\ At(c, i + 2) = "=" ->
            Then(ParseExpr(c, i + 3, d), LAMBDA e :
              Got(e.at, Node("LetClause", Value(c, i + 1), "", <<e.n>>)))
       [] OTHER -> Error

RECURSIVE ParseClauses(_, _, _, _)
ParseClauses(c, i, d, got) ==
  IF At(c, i) \notin {"for", "if", "let"} THEN Got(i, got)
  ELSE Then(ParseClause(c, i, d), LAMBDA r :
         ParseClauses(c, SkipComma(c, r.at), d, Append(got, r.n)))

ParseStruct(c, i, d) ==
  Expect(c, i, "{",
    Then(ParseDecls(c, i + 1, d, "}"), LAMBDA r :
      Expect(c, r.at, "}", Got(r.at + 1, Node("Struct", "", Form(c, i + 1), r.n)))))

\* A declaration `for` or `if`, with its clauses and its braces.
ParseComprehension(c, i, d) ==
  Then(ParseClauses(c, i, d, <<>>), LAMBDA r :
    Then(ParseStruct(c, SkipComma(c, r.at), d), LAMBDA s :
      Got(s.at, Node("Comprehension", "", "", Append(r.n, s.n)))))

(***************************************************************************)
(* The braces of a list comprehension hold declarations when they are      *)
(* empty or open with a label or a let, and one value otherwise.           *)
(***************************************************************************)
ParseYield(c, i, d) ==
  CASE At(c, i) # "{" -> ParseExpr(c, i, d)
    [] At(c, i + 1) = "}" ->
         Got(i + 2, Node("Struct", "", IF OpensInline(c, i + 1) THEN Form(c, i + 2)
                                       ELSE "Block", <<>>))
    [] LabelAhead(c, i + 1) \/ At(c, i + 1) = "let" -> ParseStruct(c, i, d)
    [] OTHER -> Then(ParseExpr(c, i + 1, d), LAMBDA e :
                  LET close == SkipComma(c, e.at)
                  IN Expect(c, close, "}", Got(close + 1, e.n)))

ParseListComp(c, i, d) ==
  Then(ParseClauses(c, i, d, <<>>), LAMBDA r :
    Then(ParseYield(c, r.at, d), LAMBDA e :
      Got(e.at, Node("ListComp", "", "", Append(r.n, e.n)))))

-----------------------------------------------------------------------------
(* Expressions. *)

ListNode(layout, elements, openness, elemType) ==
  Node("List", openness, layout, Append(elements, elemType))

RECURSIVE ParseElements(_, _, _, _, _)
\* Elements after the bracket; the end of the file closes a list as "]" does.
ParseElements(c, i, d, layout, got) ==
  CASE At(c, i) = "eof" -> Got(i, ListNode(layout, got, "closed", Absent))
    [] At(c, i) = "]" -> Got(i + 1, ListNode(layout, got, "closed", Absent))
    [] At(c, i) = "," -> ParseElements(c, i + 1, d, layout, got)
    [] At(c, i) = "..." ->
         Then(ParseOptional(c, i + 1, d, "]"), LAMBDA e :
           LET close == SkipComma(c, e.at)
           IN Expect(c, close, "]", Got(close + 1, ListNode(layout, got, "open", e.n))))
    [] OTHER ->
         Then(IF At(c, i) \in {"for", "if"} THEN ParseListComp(c, i, d)
              ELSE ParseExpr(c, i, d),
              LAMBDA e : ParseElements(c, SkipComma(c, e.at), d, layout, Append(got, e.n)))

ParsePrimary(c, i, d) ==
  CASE At(c, i) \in Terms -> Got(i + 1, Leaf(At(c, i), Value(c, i)))
    [] At(c, i) \in Keywords -> Got(i + 1, Leaf("Ident", At(c, i)))
    [] At(c, i) = "{" -> ParseStruct(c, i, d)
    [] At(c, i) = "[" -> ParseElements(c, i + 1, d, Form(c, i + 1), <<>>)
    [] At(c, i) = "(" -> Then(ParseExpr(c, i + 1, d), LAMBDA e :
                           Expect(c, e.at, ")", Got(e.at + 1, e.n)))
    [] OTHER -> Error

RECURSIVE ParseArgs(_, _, _, _)
\* Arguments after the parenthesis; the end of the file closes a call too.
ParseArgs(c, i, d, got) ==
  CASE At(c, i) = ")" -> Got(i + 1, got)
    [] At(c, i) = "eof" -> Got(i, got)
    [] OTHER -> Then(ParseExpr(c, i, d), LAMBDA e :
                  ParseArgs(c, SkipComma(c, e.at), d, Append(got, e.n)))

\* Index or slice of e, the bracket being at i.
ParseIndex(c, i, d, e) ==
  Then(ParseOptional(c, i + 1, d, ":"), LAMBDA low :
    CASE At(c, low.at) = "]" -> Got(low.at + 1, Node("Index", "", "", <<e, low.n>>))
      [] At(c, low.at) = ":" ->
           Then(ParseOptional(c, low.at + 1, d, "]"), LAMBDA high :
             Expect(c, high.at, "]",
               Got(high.at + 1, Node("Slice", "", "", <<e, low.n, high.n>>))))
      [] OTHER -> Error)

\* The field a selector names: a keyword is an identifier, a string is quoted.
SelectorAt(c, i) ==
  IF At(c, i) \in Keywords THEN Leaf("Ident", At(c, i)) ELSE Leaf(At(c, i), Value(c, i))

RECURSIVE ParsePostfix(_, _, _)
ParsePostfix(c, e, d) ==
  LET i == e.at
      More(r) == Then(r, LAMBDA more : ParsePostfix(c, more, d))
  IN CASE At(c, i) = "." ->
            IF At(c, i + 1) \in Identifiers \cup Keywords \cup {"String"}
            THEN More(Got(i + 2, Node("Selector", "", "", <<e.n, SelectorAt(c, i + 1)>>)))
            ELSE Error
       [] At(c, i) = "[" -> More(ParseIndex(c, i, d, e.n))
       [] At(c, i) = "(" ->
            Then(ParseArgs(c, i + 1, d, <<>>), LAMBDA args :
              More(Got(args.at, Node("Call", "", "", <<e.n>> \o args.n))))
       [] At(c, i) = "..." /\ OpensInline(c, i) ->
            More(Got(i + 1, Node("Spread", "", "", <<e.n>>)))
       [] OTHER -> e

ParseUnary(c, i, d) ==
  IF At(c, i) \in UnaryOps
  THEN Then(ParseUnary(c, i + 1, d), LAMBDA e :
         Got(e.at, Node("Unary", At(c, i), "", <<e.n>>)))
  ELSE Then(ParsePrimary(c, i, d), LAMBDA e : ParsePostfix(c, e, d))

-----------------------------------------------------------------------------
(* Declarations. *)

RECURSIVE Attributes(_, _)
\* The attributes that start at i.
Attributes(c, i) ==
  IF At(c, i) # "Attribute" THEN <<>>
  ELSE <<Leaf("Attribute", Value(c, i))>> \o Attributes(c, i + 1)

FieldNode(marker, label, value, aliases, attrs) ==
  Node("Field", marker, "", <<label, value, aliases, Node("Attributes", "", "", attrs)>>)

\* The aliases of a field, spelled with "=" or "~".
Aliases(spelling, field, label, value) ==
  Node("Aliases", spelling, "", <<field, label, value>>)

Named(c, i) == Leaf("Name", Value(c, i))

ParseLabel(c, i, d) ==
  CASE At(c, i) = "[" ->
         Then(IF At(c, i + 1) \in {"for", "if"} THEN ParseListComp(c, i + 1, d)
              ELSE ParseExpr(c, i + 1, d),
              LAMBDA e : Expect(c, e.at, "]", Got(e.at + 1, Node("Pattern", "", "", <<e.n>>))))
    [] At(c, i) = "(" ->
         Then(ParseExpr(c, i + 1, d), LAMBDA e :
           Expect(c, e.at, ")", Got(e.at + 1, Node("Dynamic", "", "", <<e.n>>))))
    [] At(c, i) \in Identifiers \cup {"String"} -> Got(i + 1, Leaf(At(c, i), Value(c, i)))
    [] At(c, i) \in Keywords \cup Literals \cup {"_"} -> Got(i + 1, Leaf("Ident", At(c, i)))
    [] OTHER -> Error

\* `_` is no name.
AliasNames == {"Ident", "_"}
AliasName(c, i) == IF At(c, i) = "_" THEN Absent ELSE Named(c, i)

(***************************************************************************)
(* A postfix alias: ~X, ~(X) or ~(K,X).                                    *)
(***************************************************************************)
ParsePostfixAlias(c, i) ==
  CASE At(c, i) # "~" -> Got(i, Aliases("=", Absent, Absent, Absent))
    [] c.alias = "Prefix" -> Error
    [] At(c, i + 1) \in AliasNames ->
         Got(i + 2, Aliases("~", AliasName(c, i + 1), Absent, Absent))
    [] /\ At(c, i + 1) = "(" /\ At(c, i + 2) \in AliasNames /\ At(c, i + 3) = ")" ->
         Got(i + 4, Aliases("~", AliasName(c, i + 2), Absent, Absent))
    [] /\ At(c, i + 1) = "(" /\ At(c, i + 2) \in AliasNames /\ At(c, i + 3) = ","
       /\ At(c, i + 4) \in AliasNames /\ At(c, i + 5) = ")" ->
         Got(i + 6, Aliases("~", AliasName(c, i + 4), AliasName(c, i + 2), Absent))
    [] OTHER -> Error

(***************************************************************************)
(* From the marker on: `?` and `!` are one, the colon, another field on    *)
(* the path or a value, and the attributes.                                *)
(***************************************************************************)
FinishField(c, i, d, label, aliases) ==
  LET marked == At(c, i) \in {"?", "!"}
      v == (IF marked THEN i + 1 ELSE i) + 1
      aliased == PrefixAliasAt(c, v)
  IN IF At(c, v - 1) # ":" THEN Error
     ELSE IF ~LabelAhead(c, v) /\ aliased /\ c.alias = "Postfix" THEN Error
     ELSE Then(CASE LabelAhead(c, v) ->
                      Then(ParseField(c, v, d), LAMBDA inner :
                        Got(inner.at, Node("Struct", "", "Path", <<inner.n>>)))
                 [] ~LabelAhead(c, v) /\ aliased -> ParseExpr(c, v + 2, d)
                 [] OTHER -> ParseExpr(c, v, d),
               LAMBDA value :
                 LET attrs == Attributes(c, value.at)
                     own == IF ~LabelAhead(c, v) /\ aliased
                            THEN [aliases EXCEPT !.sub[3] = Named(c, v)] ELSE aliases
                 IN Got(value.at + Len(attrs),
                        FieldNode(IF marked THEN "?" ELSE "", label, value.n, own, attrs)))

FieldAt(c, i, d) ==
  LET aliased == LabelAliasAt(c, i)
      start == IF aliased THEN i + 2 ELSE i
      prefix == IF aliased THEN Named(c, i) ELSE Absent
  IN CASE d >= MaxParseDepth \/ (aliased /\ c.alias = "Postfix") -> Error
       [] At(c, start) = "[" /\ PrefixAliasAt(c, start + 1) ->
            IF c.alias = "Postfix" THEN Error
            ELSE Then(ParseExpr(c, start + 3, d + 1), LAMBDA e :
                   Expect(c, e.at, "]",
                     FinishField(c, e.at + 1, d + 1, Node("Pattern", "", "", <<e.n>>),
                                 Aliases("=", prefix, Named(c, start + 1), Absent))))
       [] OTHER ->
            Then(ParseLabel(c, start, d + 1), LAMBDA label :
              Then(ParsePostfixAlias(c, label.at), LAMBDA post :
                FinishField(c, post.at, d + 1, label.n,
                            IF aliased /\ post.n.v = "="
                            THEN [post.n EXCEPT !.sub[1] = prefix] ELSE post.n)))

\* `...`, alone or with the type of what it lets in.
ParseEllipsis(c, i, d) ==
  IF At(c, i + 1) \in {"eof", "}", "]", ","}
  THEN Got(i + 1, Node("Ellipsis", "", "", <<>>))
  ELSE Then(ParseExpr(c, i + 1, d), LAMBDA e :
         Got(e.at, Node("Ellipsis", "", "", <<e.n>>)))

\* What the name of a binding is, `_` included.
Binding(kind, c, name, d) ==
  Then(ParseExpr(c, name + 2, d), LAMBDA e :
    Got(e.at, Node(kind, Spelled(c, name), "", <<e.n>>)))

ParseDecl(c, i, d) ==
  CASE At(c, i) = "Attribute" -> Got(i + 1, Leaf("Attribute", Value(c, i)))
    [] At(c, i) # "Attribute" /\ LabelAhead(c, i) -> ParseField(c, i, d)
    [] ~LabelAhead(c, i) /\ At(c, i) = "let" ->
         IF At(c, i + 1) \in BindingNames \cup {"_"} /\ At(c, i + 2) = "="
         THEN Binding("Let", c, i + 1, d) ELSE Error
    [] At(c, i) = "..." -> ParseEllipsis(c, i, d)
    [] ~LabelAhead(c, i) /\ At(c, i) \in {"for", "if"} -> ParseComprehension(c, i, d)
    [] ~LabelAhead(c, i) /\ PrefixAliasAt(c, i) ->
         IF c.alias = "Postfix" THEN Error ELSE Binding("Alias", c, i, d)
    [] OTHER -> Then(ParseExpr(c, i, d), LAMBDA e :
                  Got(e.at, Node("Embedding", "", "", <<e.n>>)))

RECURSIVE Trimmed(_)
\* Without the blank lines at the edges, which the formatter writes itself.
Trimmed(decls) ==
  CASE decls = <<>> -> decls
    [] decls # <<>> /\ IsBlank(Head(decls)) -> Trimmed(Tail(decls))
    [] decls # <<>> /\ IsBlank(Last(decls)) -> Trimmed(Front(decls))
    [] OTHER -> decls

RECURSIVE DeclsFrom(_, _, _, _, _)
DeclsFrom(c, i, d, close, got) ==
  LET read == got \o Trivia(c, i)
  IN CASE At(c, i) \in {close, "eof"} -> Got(i, Trimmed(read))
       [] At(c, i) = "," -> DeclsFrom(c, i + 1, d, close, read)
       [] OTHER -> Then(ParseDecl(c, i, d), LAMBDA r :
                     DeclsFrom(c, SkipComma(c, r.at), d, close, Append(read, r.n)))

Production(what, c, i, d) ==
  CASE what = "expression" -> ExprAt(c, i, d)
    [] what = "field" -> FieldAt(c, i, d)
    [] OTHER -> DeclsFrom(c, i, d, what, <<>>)

-----------------------------------------------------------------------------
(* Files. *)

RECURSIVE HeaderFrom(_, _, _)
\* File attributes above `package`, each followed by its separators.
HeaderFrom(c, i, got) ==
  CASE At(c, i) = "Attribute" ->
         HeaderFrom(c, i + 1, Append(got, Leaf("Attribute", Value(c, i))))
    [] got # <<>> /\ Last(got).k = "Attribute" /\ At(c, i) = "," -> HeaderFrom(c, i + 1, got)
    [] OTHER -> Got(i, got)

RECURSIVE WithoutBlankHead(_)
WithoutBlankHead(decls) ==
  IF decls # <<>> /\ IsBlank(Head(decls)) THEN WithoutBlankHead(Tail(decls)) ELSE decls

\* `@experiment(aliasv2)` in the header decides, then the language version.
AliasSyntax(header, version) ==
  CASE \E i \in DOMAIN header : header[i] = Leaf("Attribute", "@experiment(aliasv2)") -> "Postfix"
    [] version = "new" -> "Postfix"
    [] version = "old" -> "Prefix"
    [] OTHER -> "Any"

\* package or import followed by one of these is a field of that name.
LabelEnds == {":", "?", "!"}

ImportAt(c, i) ==
  CASE At(c, i) = "String" -> Got(i + 1, Node("Import", Value(c, i), "", <<Absent>>))
    [] At(c, i) = "Ident" /\ At(c, i + 1) = "String" ->
         Got(i + 2, Node("Import", Value(c, i + 1), "", <<Named(c, i)>>))
    [] OTHER -> Error

RECURSIVE ImportGroup(_, _, _)
ImportGroup(c, i, got) ==
  CASE At(c, i) = ")" -> Got(i + 1, got)
    [] At(c, i) = "eof" -> Got(i, got)
    [] OTHER -> Then(ImportAt(c, i), LAMBDA r :
                  ImportGroup(c, SkipComma(c, r.at), Append(got, r.n)))

RECURSIVE ImportsFrom(_, _, _)
ImportsFrom(c, i, got) ==
  CASE At(c, i) # "import" \/ At(c, i + 1) \in LabelEnds -> Got(i, got)
    [] At(c, i) = "import" /\ At(c, i + 1) = "(" ->
         Then(ImportGroup(c, i + 2, got), LAMBDA r : ImportsFrom(c, r.at, r.n))
    [] OTHER -> Then(ImportAt(c, i + 1), LAMBDA r :
                  ImportsFrom(c, SkipComma(c, r.at), Append(got, r.n)))

\* What stood above the first token is the header's, and not read twice.
Drained(c) ==
  IF c.ts = <<>> THEN [c EXCEPT !.end = <<>>] ELSE [c EXCEPT !.ts[1].trivia = <<>>]

\* From the header on, c being the tokens as the header says they are spelled.
ParseAfter(header, c) ==
  LET named == /\ At(c, header.at) = "package" /\ At(c, header.at + 1) = "Ident"
               /\ At(c, header.at + 2) \notin LabelEnds
      start == IF named THEN SkipComma(c, header.at + 2) ELSE header.at
  IN Then(ImportsFrom(c, start, <<>>), LAMBDA imports :
       Then(ParseDecls(c, imports.at, 0, "eof"), LAMBDA body :
         Got(body.at, Node("File", IF named THEN Value(c, header.at + 1) ELSE "", "",
           <<Node("Header", "", "", header.n), Node("Imports", "", "", imports.n),
             Node("Body", "", "", body.n)>>))))

ParseTokens(read, version) ==
  Then(HeaderFrom(read, 1, WithoutBlankHead(Trivia(read, 1))), LAMBDA header :
    ParseAfter(header, [Drained(read) EXCEPT !.alias = AliasSyntax(header.n, version)]))

(***************************************************************************)
(* parse_file: header, package, imports and declarations, at a language    *)
(* version ("unknown", "old" for one before v0.18.0, or "new").            *)
(***************************************************************************)
ParseFile(text, version) == ParseTokens(Tokens(text), version)
=============================================================================
