--------------------------- MODULE StringLiterals ---------------------------
(***************************************************************************)
(* String literals of cue-syntax: where one ends (token.rs), what it means *)
(* (Decoder in parser.rs) and how a value is written (formatter.rs).  Text *)
(* is a sequence of characters; a value is a sequence of parts, text and   *)
(* the interpolated expressions, whose own text is kept as it stands.      *)
(* A form is [block, hashes]: three quotes or one, and how many `#` guard  *)
(* the delimiters and the escapes.                                         *)
(***************************************************************************)
EXTENDS Naturals, Sequences, SequencesExt

Quote == "\""
Backslash == "\\"
Newline == "newline"
Tab == "tab"
Control == "control"    \* a control character with no escape of its own

Repeated(char, n) == [i \in 1 .. n |-> char]
From(s, i) == SubSeq(s, i, Len(s))
StartsAt(s, i, prefix) ==
  i + Len(prefix) <= Len(s) + 1 /\ SubSeq(s, i, i + Len(prefix) - 1) = prefix

Fence(form) == Repeated(Quote, IF form.block THEN 3 ELSE 1)
Guard(form) == Repeated("#", form.hashes)
Closer(form) == Fence(form) \o Guard(form)
Intro(form) == <<Backslash>> \o Guard(form)
Quoted == [block |-> FALSE, hashes |-> 0]

Unclosed == 0

-----------------------------------------------------------------------------
(* Where literals end. *)

RECURSIVE HashesAt(_, _)
HashesAt(s, i) == IF i <= Len(s) /\ s[i] = "#" THEN 1 + HashesAt(s, i + 1) ELSE 0

\* The form a literal opens with at i, its hashes and quote being there.
FormAt(s, i) ==
  LET hashes == HashesAt(s, i)
  IN [block |-> StartsAt(s, i + hashes + 1, <<Quote, Quote>>), hashes |-> hashes]

LineComment == <<"/", "/">>
RECURSIVE LineEnd(_, _)
LineEnd(s, i) == IF i > Len(s) \/ s[i] = Newline THEN i ELSE LineEnd(s, i + 1)

BodyAt(i, form) == i + form.hashes + Len(Fence(form))

RECURSIVE LiteralEnd(_, _, _)
RECURSIVE InterpolationEnd(_, _, _)

\* The closing delimiter of the literal whose body goes on at i, or Unclosed.
LiteralEnd(s, i, form) ==
  LET escaped == i + Len(Intro(form))
      end == InterpolationEnd(s, escaped + 1, 1)
  IN CASE i > Len(s) -> Unclosed
       [] StartsAt(s, i, Closer(form)) -> i
       [] StartsAt(s, i, Intro(form)) ->
            IF escaped > Len(s) THEN Unclosed
            ELSE IF s[escaped] # "(" THEN LiteralEnd(s, escaped + 1, form)
            ELSE IF end = Unclosed THEN Unclosed ELSE LiteralEnd(s, end + 1, form)
       [] OTHER -> LiteralEnd(s, i + 1, form)

\* The parenthesis that closes an interpolation, literals stepped over whole.
InterpolationEnd(s, i, depth) ==
  LET hashes == HashesAt(s, i)
      form == FormAt(s, i)
      end == LiteralEnd(s, BodyAt(i, form), form)
  IN CASE i + hashes > Len(s) -> Unclosed
       [] s[i + hashes] = Quote ->
            IF end = Unclosed THEN Unclosed ELSE InterpolationEnd(s, end + Len(Closer(form)), depth)
       [] hashes > 0 -> InterpolationEnd(s, i + hashes, depth)
       [] s[i] = "(" -> InterpolationEnd(s, i + 1, depth + 1)
       [] s[i] = ")" -> IF depth = 1 THEN i ELSE InterpolationEnd(s, i + 1, depth - 1)
       [] StartsAt(s, i, LineComment) -> InterpolationEnd(s, LineEnd(s, i), depth)
       [] OTHER -> InterpolationEnd(s, i + 1, depth)

RECURSIVE BreaksLine(_, _, _)
\* A line ends in the text from i, outside its interpolations.
BreaksLine(s, i, form) ==
  LET end == InterpolationEnd(s, i + Len(Intro(form)) + 1, 1)
  IN CASE i > Len(s) -> FALSE
       [] StartsAt(s, i, Intro(form) \o <<"(">>) ->
            IF end = Unclosed THEN Contains(From(s, i), Newline) ELSE BreaksLine(s, end + 1, form)
       [] s[i] = Newline -> TRUE
       [] OTHER -> BreaksLine(s, IF s[i] = Backslash THEN i + 2 ELSE i + 1, form)

-----------------------------------------------------------------------------
(* What a literal means. *)

Text(chars) == [expr |-> FALSE, chars |-> chars]
Expr(chars) == [expr |-> TRUE, chars |-> chars]
Malformed == <<[expr |-> FALSE, chars |-> <<"malformed">>]>>

\* One-character escapes, and `\u` with its digits.
Escape == [c \in {"n", Backslash, Quote} |-> IF c = "n" THEN Newline ELSE c]
CodePoint == <<"u", "0">>

\* The lines of a text.
RECURSIVE LinesOf(_)
LinesOf(s) ==
  LET breaks == {i \in DOMAIN s : s[i] = Newline}
      first == CHOOSE i \in breaks : \A j \in breaks : i <= j
  IN IF breaks = {} THEN <<s>>
     ELSE <<SubSeq(s, 1, first - 1)>> \o LinesOf(From(s, first + 1))

JoinedLines(lines) ==
  FoldLeft(LAMBDA out, i : IF i = 1 THEN lines[1] ELSE out \o <<Newline>> \o lines[i],
           <<>>, [i \in DOMAIN lines |-> i])

Dedented(line, indent) ==
  IF StartsAt(line, 1, indent) THEN From(line, Len(indent) + 1) ELSE line

(***************************************************************************)
(* dedent_block: without the line break after the opening delimiter, the   *)
(* closing delimiter's indentation, and the break before its line.         *)
(***************************************************************************)
DedentBlock(s) ==
  LET lines == LinesOf(s)
      body == IF Len(lines) > 2 /\ Head(lines) = <<>> THEN Tail(Front(lines)) ELSE Front(lines)
  IN IF Len(lines) = 1 THEN s
     ELSE JoinedLines([i \in DOMAIN body |-> Dedented(body[i], Last(lines))])

\* More text at the end of the parts, escapes resolved.
Push(parts, chars) ==
  IF parts # <<>> /\ ~Last(parts).expr
  THEN [parts EXCEPT ![Len(parts)].chars = @ \o chars] ELSE Append(parts, Text(chars))

RECURSIVE PartsFrom(_, _, _, _)
\* split and unescape: the parts of a text from i on.
PartsFrom(s, i, form, parts) ==
  LET escaped == i + Len(Intro(form))
      end == InterpolationEnd(s, escaped + 1, 1)
  IN CASE i > Len(s) -> parts
       [] ~StartsAt(s, i, Intro(form)) -> PartsFrom(s, i + 1, form, Push(parts, <<s[i]>>))
       [] escaped > Len(s) -> Malformed
       [] s[escaped] = "(" ->
            IF end = Unclosed THEN Malformed
            ELSE PartsFrom(s, end + 1, form,
                           Append(parts, Expr(SubSeq(s, escaped + 1, end - 1))))
       [] s[escaped] \in DOMAIN Escape ->
            PartsFrom(s, escaped + 1, form, Push(parts, <<Escape[s[escaped]]>>))
       [] StartsAt(s, escaped, CodePoint) ->
            PartsFrom(s, escaped + Len(CodePoint), form, Push(parts, <<Control>>))
       [] OTHER -> Malformed

(***************************************************************************)
(* A text that is one literal and nothing else: its form and its parts.    *)
(***************************************************************************)
Decode(s) ==
  LET form == FormAt(s, 1)
      body == BodyAt(1, form)
      end == LiteralEnd(s, body, form)
      inner == SubSeq(s, body, end - 1)
  IN CASE end = Unclosed \/ end + Len(Closer(form)) # Len(s) + 1 -> [form |-> form, parts |-> Malformed]
       [] ~form.block /\ BreaksLine(inner, 1, form) -> [form |-> form, parts |-> Malformed]
       [] OTHER -> [form |-> form,
                    parts |-> PartsFrom(IF form.block THEN DedentBlock(inner) ELSE inner,
                                        1, form, <<>>)]

-----------------------------------------------------------------------------
(* How a value is written. *)

Holds(s, part) == \E i \in DOMAIN s : StartsAt(s, i, part)

(* Fault: a raw form is taken to hold any value. *)
FormKept(form, parts) == form

\* The form the literal was read in, unless it cannot hold the value.
EmittableForm(form, parts) ==
  IF \A i \in DOMAIN parts :
       parts[i].expr \/
       (IF form.hashes > 0
        THEN ~Holds(parts[i].chars, Intro(form)) /\ ~Holds(parts[i].chars, Closer(form))
        ELSE ~form.block \/ ~Holds(parts[i].chars, Fence(form)))
  THEN form ELSE Quoted

EscapedChar(form, c) ==
  LET raw == form.hashes > 0
  IN CASE c = Backslash /\ ~raw -> Intro(form) \o <<Backslash>>
       [] c \in {Newline, Tab} /\ form.block -> <<c>>
       [] c = Newline /\ ~form.block -> Intro(form) \o <<"n">>
       [] c = Quote /\ ~form.block /\ ~raw -> Intro(form) \o <<Quote>>
       [] c = Control -> Intro(form) \o CodePoint
       [] OTHER -> <<c>>

EscapeInto(form, parts) ==
  FlattenSeq([i \in DOMAIN parts |->
    IF parts[i].expr THEN Intro(form) \o <<"(">> \o parts[i].chars \o <<")">>
    ELSE FlattenSeq([j \in DOMAIN parts[i].chars |-> EscapedChar(form, parts[i].chars[j])])])

\* A block literal a level in, its closing delimiter at the same level.
WrapLiteral(form, body) ==
  IF ~form.block THEN Guard(form) \o Fence(form) \o body \o Closer(form)
  ELSE LET lines == LinesOf(body)
       IN Guard(form) \o Fence(form) \o <<Newline>>
            \o FlattenSeq([i \in DOMAIN lines |->
                 (IF lines[i] = <<>> THEN <<>> ELSE <<Tab>> \o lines[i]) \o <<Newline>>])
            \o <<Tab>> \o Closer(form)

Encode(form, parts) ==
  LET emitted == EmittableForm(form, parts)
  IN WrapLiteral(emitted, EscapeInto(emitted, parts))
=============================================================================
