----------------------------- MODULE FmtCommand -----------------------------
(***************************************************************************)
(* `cue fmt` (cue-cli/src/cmd/fmt.rs) over one file: read it, parse it,    *)
(* write the tree back over it; and once more, over what it wrote.         *)
(***************************************************************************)
EXTENDS Formatter, StringLiterals

CONSTANT
  Files   \* a sequence of sets of records [text, version, expr, literal]: a
          \* file, the language version it is parsed at, the expression its
          \* author meant or Absent, and how its string literals are spelled

VARIABLES
  file,    \* the file as its author left it
  phase,   \* "found", "refused", "parsed", "written", "parsed again", "settled"
  tree,    \* what was parsed
  text,    \* what the file holds
  literal, \* the spelling of the String tokens in it
  value    \* what that spelling means: [form, parts]

vars == <<file, phase, tree, text, literal, value>>

Init ==
  /\ \E i \in DOMAIN Files : file \in Files[i]
  /\ phase = "found"
  /\ tree = Absent
  /\ text = file.text
  /\ literal = file.literal
  /\ value = Decode(<<Quote, Quote>>)

Parse(from, to) ==
  /\ phase = from
  /\ LET r == ParseFile(text, file.version)
         decoded == Decode(literal)
     IN IF Failed(r) \/ decoded.parts = Malformed
        THEN phase' = "refused" /\ tree' = Absent /\ UNCHANGED value
        ELSE phase' = to /\ tree' = r.n /\ value' = decoded
  /\ UNCHANGED <<file, text, literal>>

Write(from, to) ==
  /\ phase = from
  /\ phase' = to
  /\ text' = FormatFile(tree)
  /\ literal' = Encode(value.form, value.parts)
  /\ UNCHANGED <<file, tree, value>>

ParseAgain == Parse("written", "parsed again")
WriteAgain == Write("parsed again", "settled")

Ended == phase \in {"refused", "settled"} /\ UNCHANGED vars

Next ==
  \/ Parse("found", "parsed") \/ Write("parsed", "written")
  \/ ParseAgain \/ WriteAgain \/ Ended

Spec == Init /\ [][Next]_vars

-----------------------------------------------------------------------------
(***************************************************************************)
(* The ladder of the parser and what an author means: a text with every    *)
(* operand in parentheses, or with none and the strengths of the operators *)
(* to tell, is read as that expression, and is not refused.                *)
(***************************************************************************)
ReadAsMeant ==
  file.expr # Absent =>
    /\ phase # "refused"
    /\ phase # "found" =>
         Meaning(Last(tree.sub).sub[1]) = Node("Embedding", "", "", <<file.expr>>)

RECURSIVE Everywhere(_)
Everywhere(node) == {node} \cup UNION {Everywhere(node.sub[i]) : i \in DOMAIN node.sub}

FirstToken(e) == FormatExpr(e)[1][1]

\* A list over several lines that ends with a bare `...`.
OpenBlockList(n) == n.k = "List" /\ n.f = "Block" /\ n.v = "open" /\ Last(n.sub) = Absent

\* An alias whose `=` is written against the operator that follows it.
AliasOfOperator(n) ==
  /\ n.k = "Field"
  /\ \/ n.sub[3].sub[3] # Absent /\ FirstToken(n.sub[2]) \in {"==", "=~"}
     \/ /\ n.sub[3].v = "=" /\ n.sub[3].sub[2] # Absent
        /\ FirstToken(n.sub[1].sub[1]) \in {"==", "=~"}

\* A keyword that was parenthesised to be an identifier opens a statement.
KeywordInFront(n) ==
  \E i \in DOMAIN n.sub :
    /\ n.k \in {"Embedding", "List", "ListComp"}
    /\ n.sub[i].k \in {"Ident", "Binary", "Unary", "Selector", "Index", "Slice", "Call",
                       "Spread", "Disjunction"}
    /\ FirstToken(n.sub[i]) \in Keywords

Peculiar(n) == OpenBlockList(n) \/ AliasOfOperator(n) \/ KeywordInFront(n)

TreeOf(source) == ParseFile(source, file.version)

(***************************************************************************)
(* "The output reparses to the tree it was printed from whatever the       *)
(* author wrote" (formatter.rs:671), with three exceptions the code has.   *)
(***************************************************************************)
OutputReparses ==
  phase = "written" /\ (\A n \in Everywhere(tree) : ~Peculiar(n)) =>
    LET again == TreeOf(text)
    IN ~Failed(again) /\ Meaning(again.n) = Meaning(tree)

(***************************************************************************)
(* "Formatting what was formatted changes nothing", whatever shape the     *)
(* author's file had: the second writing leaves the file as it is.         *)
(***************************************************************************)
SecondFormatIsFirst ==
  [][phase = "parsed again" => text' = text /\ literal' = literal]_vars

\* A raw literal on one line whose value opens like a block's delimiter.
OpensLikeABlock ==
  /\ value.form.hashes > 0 /\ ~value.form.block
  /\ \/ value.parts = <<Text(<<Quote>>)>>
     \/ value.parts # <<>> /\ StartsAt(value.parts[1].chars, 1, <<Quote, Quote>>)

(***************************************************************************)
(* "Falling back changes the spelling and never the value - the            *)
(* alternative is emitting a file that does not reparse": whatever escapes *)
(* and guards a literal was spelled with, it is written as one that means  *)
(* the same, in a form that can hold it - with one exception: `#"\#""#` is *)
(* written `#"""#`, which opens a block.                                   *)
(***************************************************************************)
LiteralKept ==
  phase = "written" /\ ~OpensLikeABlock => Decode(literal).parts = value.parts

Without(source, i) == SubSeq(source, 1, i - 1) \o SubSeq(source, i + 1, Len(source))

\* Positions of the parenthesis at i and of the one that closes it.
Closing(source, i) ==
  CHOOSE j \in i .. Len(source) :
    /\ source[j][1] = ")"
    /\ \A m \in i .. j :
         LET inner == SubSeq(source, i, m)
             opened == Len(SelectSeq(inner, LAMBDA p : p[1] = "("))
             closed == Len(SelectSeq(inner, LAMBDA p : p[1] = ")"))
         IN (opened = closed) = (m = j)

\* Pairs written for a scanner's sake: `(1).f` and `<(-1)`.
ForTheScanner(source, i) ==
  \/ i + 2 <= Len(source) /\ source[i + 1][1] = "Number"
  \/ i > 1 /\ source[i - 1][1] \in UnaryOps /\ source[i + 1][1] \in UnaryOps

(***************************************************************************)
(* "A pair the tree does not need is not written back": without any one of *)
(* the pairs in the output, the file is another one, or none.              *)
(***************************************************************************)
EveryPairNeeded ==
  phase = "written" =>
    \A i \in DOMAIN text :
      text[i][1] = "(" /\ ~ForTheScanner(text, i) =>
        LET bare == Without(Without(text, Closing(text, i)), i)
            r == TreeOf(bare)
        IN Failed(r) \/ Meaning(r.n) # Meaning(tree)

OwnLine == <<"//", "own line">>
CommentsIn(source) == {i \in DOMAIN source : source[i] = OwnLine}

\* Between the file's attributes, or between them and its package or imports.
UnderAFileAttribute(source, i) ==
  LET TokensOf(part) == SelectSeq(part, LAMBDA p : p[1] \notin Layout)
      before == TokensOf(SubSeq(source, 1, i))
      next == TokensOf(SubSeq(source, i, Len(source)))
  IN /\ before # <<>> /\ \A j \in DOMAIN before : before[j][1] = "Attribute"
     /\ next # <<>> /\ next[1][1] \in {"Attribute", "package", "import"}
     /\ Len(next) > 1 => next[2][1] \notin LabelEnds

(***************************************************************************)
(* A comment that stands where a declaration could stand is written back,  *)
(* once: the header's is read before it is known whether a package clause  *)
(* follows, and the first declaration must not find it again.  One under   *)
(* an attribute of the file, above `package`, is lost.                     *)
(***************************************************************************)
CommentsKeptOnce ==
  phase = "written" =>
    Cardinality(CommentsIn(text)) =
      Cardinality({i \in CommentsIn(file.text) : ~UnderAFileAttribute(file.text, i)})
=============================================================================
