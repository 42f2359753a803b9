----------------------------- MODULE Operators ------------------------------
(***************************************************************************)
(* What an operator, a selector, an index, a slice, an interpolation or a  *)
(* guard makes of operands that are evaluated already: operators.rs and    *)
(* the positions of eval.rs that call it.                                  *)
(*                                                                         *)
(* A value is a tuple whose first element names its kind.  A float is an   *)
(* exact fraction: rounding is left out, the range of an f64 is not.  A    *)
(* string is the sequence of its characters, which are positive numbers;   *)
(* as a regular expression it matches what contains it, and 0 makes it one *)
(* that does not compile.                                                  *)
(***************************************************************************)
EXTENDS Integers, Sequences, FiniteSetsExt, SequencesExt

CONSTANT MaxFloat   \* the largest finite f64; integers go beyond

-----------------------------------------------------------------------------
(* Values *)

Null == <<"null">>
Bool(b) == <<"bool", b>>
Integer(n) == <<"int", n>>
String(s) == <<"string", s>>
Bytes(s) == <<"bytes", s>>
List(elements, ellipsis) == <<"list", elements, ellipsis>>
Struct(s) == <<"struct", s>>
Top == <<"top">>
Type(t) == <<"type", t>>
Bounds(base, constraints) == <<"bounds", base, constraints>>
\* The branches, and the fields they share when there are such (or <<>>).
Disjunction(branches, view) == <<"disjunction", branches, view>>
Validator(name) == <<"validator", name>>
RecursiveRef == <<"ref">>
\* Why there is no value, and what a pending literal holds so far (or <<>>).
BottomWith(kind, partial) == <<"bottom", kind, partial>>
Bottom(kind) == BottomWith(kind, <<>>)

Tag(v) == v[1]
IsBottom(v) == Tag(v) = "bottom"
MayResolveLater == {"Unresolved", "ReferenceNotFound", "UndefinedField", "UndefinedFieldDefinite"}

Abs(n) == IF n < 0 THEN -n ELSE n
Truncated(n, d) == IF n < 0 THEN -((-n) \div d) ELSE n \div d

\* A fraction in lowest terms, its denominator positive.
Float(n, d) ==
  LET common == Max({k \in 1..Abs(d) : n % k = 0 /\ d % k = 0})
      sign == IF d < 0 THEN -1 ELSE 1
  IN <<"float", sign * (n \div common), Abs(d) \div common>>

FloatOf(x) == IF Tag(x) = "int" THEN <<"float", x[2], 1>> ELSE x
Finite(x) == Abs(x[2]) <= MaxFloat * x[3]

\* What an f64 operation leaves: a value of its own, or nothing beyond the range.
Ranged(x) == IF Finite(x) THEN x ELSE Bottom("Other")

Branch(val, default) == [val |-> val, default |-> default]
Entry(name, val, optional) == [name |-> name, val |-> val, optional |-> optional]
Regular(s) == SelectSeq(s.fields, LAMBDA e : ~e.optional)
Lookup(entries, name) == SelectSeq(entries, LAMBDA e : e.name = name)

\* ValueArena::fields
HasFields(v) == Tag(v) = "struct" \/ (Tag(v) = "disjunction" /\ v[3] # <<>>)
FieldsOf(v) == IF Tag(v) = "struct" THEN v[2] ELSE v[3]

ScalarTags == {"null", "bool", "int", "float", "string", "bytes"}
IsConcreteKind(v) ==
  Tag(v) \in ScalarTags \cup {"list"} \/ (Tag(v) = "struct" /\ ~v[2].incomplete)
Abstract(v) == Tag(v) \in {"top", "type", "bounds", "ref"}

-----------------------------------------------------------------------------
(* Selecting a default *)

Provisional(v) == IF IsBottom(v) /\ v[3] # <<>> THEN v[3] ELSE v

RECURSIVE Chosen(_)
Chosen(v) ==
  IF Tag(v) # "disjunction" THEN v
  ELSE LET marked == SelectSeq(v[2], LAMBDA b : b.default)
       IN IF Len(marked) = 1 THEN Chosen(marked[1].val)
          ELSE IF marked = <<>> /\ Len(v[2]) = 1 THEN Chosen(v[2][1].val)
          ELSE Bottom("Incomplete")

Operand(v) == Chosen(Provisional(v))

\* A builtin's argument: the defaults of list elements are chosen too, where
\* there is one.
RECURSIVE Argument(_)
Argument(v) ==
  LET id == Operand(v)
      element(e) == LET chosen == Argument(e) IN IF IsBottom(chosen) THEN e ELSE chosen
  IN IF Tag(id) # "list" THEN id
     ELSE List([i \in DOMAIN id[2] |-> element(id[2][i])], id[3])

\* What a position that needs a concrete value read.
Concrete(v) ==
  LET id == Operand(v)
  IN CASE IsBottom(id) -> IF id[2] \in MayResolveLater THEN <<"Pending">>
                          ELSE IF id[2] = "Incomplete" THEN <<"Incomplete">> ELSE <<"Error">>
       [] Tag(id) = "ref" -> <<"Pending">>
       [] IsConcreteKind(id) -> <<"Value", id>>
       [] OTHER -> <<"Incomplete">>

\* A position that takes a concrete value of some kinds: what it does with the
\* operand.  "Unresolved" has the loop try again, "Incomplete" leaves the
\* declaration undecided, "Evaluation" fails it.
Position(v, kinds) ==
  LET read == Concrete(v)
  IN CASE read[1] = "Value" -> IF Tag(read[2]) \in kinds THEN read[2] ELSE <<"Evaluation">>
       [] read[1] = "Pending" -> <<"Unresolved">>
       [] read[1] = "Incomplete" -> <<"Incomplete">>
       [] read[1] = "Error" -> <<"Evaluation">>

ComprehensionGuard(v) == Position(v, {"bool"})
ComprehensionSource(v) == Position(v, {"list", "struct"})
DynamicLabel(v) == Position(v, {"string"})

-----------------------------------------------------------------------------
(* Kinds *)

OrderingOps == {"<", "<=", ">", ">="}
EqualityOps == {"==", "!="}
RegexOps == {"=~", "!~"}
LogicalOps == {"&&", "||"}
ArithmeticOps == {"+", "-", "*", "/"}
BinaryOps == OrderingOps \cup EqualityOps \cup RegexOps \cup LogicalOps \cup ArithmeticOps

IntegerTypes == {"int", "uint", "uint8"}
NumberTypes == IntegerTypes \cup {"number", "float"}

\* What an operator may find of a value; a choice or a validator may be anything.
OperandKind(v) ==
  CASE Tag(v) \in {"int", "float"} -> "Number"
    [] Tag(v) \in {"string", "bytes", "bool", "list", "struct", "null"} -> Tag(v)
    [] Tag(v) = "type" -> IF v[2] \in NumberTypes THEN "Number"
                          ELSE IF v[2] = "top" THEN "Any" ELSE v[2]
    [] OTHER -> "Any"

OperandPairs(op) ==
  LET text == {<<"string", "string">>, <<"bytes", "bytes">>}
      number == {<<"Number", "Number">>}
  IN CASE op = "+" \/ op \in OrderingOps -> number \cup text
       [] op \in {"-", "/"} -> number
       [] op = "*" -> number \cup {"string", "bytes"} \X {"Number"}
                             \cup {"Number"} \X {"string", "bytes"}
       [] op \in LogicalOps -> {<<"bool", "bool">>}
       [] op \in RegexOps -> {"string"} \X {"string", "bytes"}

\* Mutant: a kind that may be anything fits nothing.
AcceptsKnown(op, left, right) ==
  IF op \in EqualityOps THEN left = right ELSE <<left, right>> \in OperandPairs(op)

Accepts(op, left, right) ==
  LET fits(kind, want) == kind = "Any" \/ kind = want
  IN IF op \in EqualityOps THEN left = "Any" \/ right = "Any" \/ left = right
     ELSE \E p \in OperandPairs(op) : fits(left, p[1]) /\ fits(right, p[2])

-----------------------------------------------------------------------------
(* Numbers *)

\* The order of two numbers or texts, as -1, 0 or 1.
Comparison(op, order) ==
  CASE op = "==" -> order = 0 [] op = "!=" -> order # 0
    [] op = "<" -> order = -1 [] op = "<=" -> order # 1
    [] op = ">" -> order = 1 [] op = ">=" -> order # -1

ComparisonOps == OrderingOps \cup EqualityOps
Order(a, b) == IF a < b THEN -1 ELSE IF a = b THEN 0 ELSE 1

FloatBinary(op, a, b) ==
  IF ~Finite(a) \/ ~Finite(b) THEN Bottom("Other")
  ELSE CASE op \in ComparisonOps -> Bool(Comparison(op, Order(a[2] * b[3], b[2] * a[3])))
         [] op = "+" -> Ranged(Float(a[2] * b[3] + b[2] * a[3], a[3] * b[3]))
         [] op = "-" -> Ranged(Float(a[2] * b[3] - b[2] * a[3], a[3] * b[3]))
         [] op = "*" -> Ranged(Float(a[2] * b[2], a[3] * b[3]))
         [] op = "/" -> IF b[2] = 0 THEN Bottom("Conflict")
                        ELSE Ranged(Float(a[2] * b[3], a[3] * b[2]))
         [] OTHER -> Bottom("Conflict")

IntegerBinary(op, a, b) ==
  CASE op \in ComparisonOps -> Bool(Comparison(op, Order(a, b)))
    [] op = "+" -> Integer(a + b)
    [] op = "-" -> Integer(a - b)
    [] op = "*" -> Integer(a * b)
    [] op = "/" -> IF b = 0 THEN Bottom("Conflict") ELSE FloatBinary(op, FloatOf(Integer(a)), FloatOf(Integer(b)))
    [] OTHER -> Bottom("Conflict")

\* Mutant: the fraction left by the truncation is not looked at.
MixedOrderTruncated(integer, float) == Order(integer, Truncated(float[2], float[3]))

\* An integer against a float: exactly, through the float's integral part, so
\* that no integer is too large to compare.
MixedOrder(integer, float) ==
  LET whole == Truncated(float[2], float[3])
      fraction == float[2] - whole * float[3]
      first == Order(integer, whole)
  IN IF first # 0 THEN first ELSE Order(0, fraction)

MixedBinary(op, integer, float, reversed) ==
  LET order == MixedOrder(integer, float)
      number == FloatOf(Integer(integer))
  IN IF ~Finite(float) THEN Bottom("Other")
     ELSE IF op \in ComparisonOps THEN Bool(Comparison(op, IF reversed THEN -order ELSE order))
     ELSE IF ~Finite(number) THEN Bottom("Other")
     ELSE IF reversed THEN FloatBinary(op, float, number) ELSE FloatBinary(op, number, float)

\* div, mod, quo and rem of two arguments.
IntegerDivision(name, left, right) ==
  LET pending(v) == Tag(v) \in {"top", "bounds"}
                    \/ (Tag(v) = "type" /\ v[2] \in IntegerTypes \cup {"number"})
      candidate(v) == pending(v) \/ Tag(v) = "int"
      a == left[2]
      b == right[2]
      quotient == IF b < 0 THEN -Truncated(a, -b) ELSE Truncated(a, b)
      remainder == a - quotient * b
      modulus == IF remainder < 0 THEN remainder + Abs(b) ELSE remainder
  IN IF candidate(left) /\ candidate(right) /\ (pending(left) \/ pending(right))
       THEN Bottom("Incomplete")
     ELSE IF Tag(left) # "int" \/ Tag(right) # "int" \/ b = 0 THEN Bottom("Conflict")
     ELSE Integer(CASE name = "quo" -> quotient
                [] name = "rem" -> remainder
                [] name = "mod" -> modulus
                [] name = "div" -> Truncated(a - modulus, Abs(b)) * (IF b < 0 THEN -1 ELSE 1))

-----------------------------------------------------------------------------
(* Texts *)

LexOrder(s, t) ==
  LET differ == {i \in 1..(IF Len(s) < Len(t) THEN Len(s) ELSE Len(t)) : s[i] # t[i]}
  IN IF differ = {} THEN Order(Len(s), Len(t))
     ELSE LET i == Min(differ) IN Order(s[i], t[i])

Repeated(s, n) == FlattenSeq([i \in 1..n |-> s])
Matches(pattern, s) ==
  \E i \in 0..(Len(s) - Len(pattern)) : SubSeq(s, i + 1, i + Len(pattern)) = pattern
Compiles(pattern) == \A i \in DOMAIN pattern : pattern[i] # 0
Utf8(b) == \A i \in DOMAIN b : b[i] < 128

RegexMatch(op, s, pattern) ==
  IF Compiles(pattern) THEN Bool(Matches(pattern, s) = (op = "=~")) ELSE Bottom("Conflict")

\* A string, count times over.
Repetition(s, count) == IF count >= 0 THEN String(Repeated(s, count)) ELSE Bottom("Other")

-----------------------------------------------------------------------------
(* Binary operators *)

\* Mutant: optional fields are looked at too.
RECURSIVE DeepConcreteAll(_)
DeepConcreteAll(v) ==
  LET children == IF Tag(v) = "list" THEN v[2]
                  ELSE IF Tag(v) = "struct" THEN [i \in DOMAIN v[2].fields |-> v[2].fields[i].val]
                  ELSE <<>>
      judged(child) == LET c == Operand(child)
                       IN IF IsBottom(c) THEN c
                          ELSE IF ~IsConcreteKind(c) THEN Bottom("Incomplete")
                          ELSE DeepConcreteAll(c)
      failing == SelectSeq([i \in DOMAIN children |-> judged(children[i])], IsBottom)
  IN IF failing = <<>> THEN v ELSE failing[1]

\* The first value inside v that is a bottom or not concrete, as the failure it
\* is; v itself when there is none.  Optional fields do not take part.
RECURSIVE DeepConcrete(_)
DeepConcrete(v) ==
  LET children == IF Tag(v) = "list" THEN v[2]
                  ELSE IF Tag(v) = "struct" THEN [i \in DOMAIN Regular(v[2]) |-> Regular(v[2])[i].val]
                  ELSE <<>>
      judged(child) == LET c == Operand(child)
                       IN IF IsBottom(c) THEN c
                          ELSE IF ~IsConcreteKind(c) THEN Bottom("Incomplete")
                          ELSE DeepConcrete(c)
      failing == SelectSeq([i \in DOMAIN children |-> judged(children[i])], IsBottom)
  IN IF failing = <<>> THEN v ELSE failing[1]

RECURSIVE Binary(_, _, _)
RECURSIVE AllEqual(_)
RECURSIVE Same(_, _)

\* Pairs compared one by one, up to the first that differs or cannot be told.
AllEqual(pairs) ==
  IF pairs = <<>> THEN Bool(TRUE)
  ELSE LET first == Binary("==", Head(pairs)[1], Head(pairs)[2])
       IN IF first = Bool(TRUE) THEN AllEqual(Tail(pairs)) ELSE first

\* equal once both sides are known to be concrete all the way down.
Same(left, right) ==
  CASE Tag(left) # Tag(right) -> Bool(FALSE)
    [] Tag(left) = "null" -> Bool(TRUE)
    [] Tag(left) \in {"bool", "string", "bytes"} -> Bool(left[2] = right[2])
    [] Tag(left) = "list" ->
         IF Len(left[2]) # Len(right[2]) THEN Bool(FALSE)
         ELSE AllEqual([i \in DOMAIN left[2] |-> <<left[2][i], right[2][i]>>])
    [] Tag(left) = "struct" ->
         LET a == Regular(left[2])
             b == Regular(right[2])
         IN IF Len(a) # Len(b) \/ \E i \in DOMAIN a : Lookup(b, a[i].name) = <<>>
            THEN Bool(FALSE)
            ELSE AllEqual([i \in DOMAIN a |-> <<a[i].val, Lookup(b, a[i].name)[1].val>>])

Equal(op, left, right) ==
  LET verdict ==
        IF ~IsConcreteKind(left) \/ ~IsConcreteKind(right) THEN Bottom("Incomplete")
        ELSE IF IsBottom(DeepConcrete(left)) THEN DeepConcrete(left)
        ELSE IF IsBottom(DeepConcrete(right)) THEN DeepConcrete(right)
        ELSE Same(left, right)
  IN IF IsBottom(verdict) THEN verdict ELSE Bool(verdict[2] = (op = "=="))

\* Two numbers, whatever the operator.
NumberBinary(op, a, b) ==
  CASE Tag(a) = "int" /\ Tag(b) = "int" -> IntegerBinary(op, a[2], b[2])
    [] Tag(a) = "float" /\ Tag(b) = "float" -> FloatBinary(op, a, b)
    [] Tag(a) = "int" /\ Tag(b) = "float" -> MixedBinary(op, a[2], b, FALSE)
    [] Tag(a) = "float" /\ Tag(b) = "int" -> MixedBinary(op, b[2], a, TRUE)

\* The operators with two operands of these kinds, other than numbers.
TextBinary(op, a, b) ==
  LET tags == <<Tag(a), Tag(b)>>
  IN CASE op \in EqualityOps -> Equal(op, a, b)
       [] op = "+" /\ tags = <<"string", "string">> -> String(a[2] \o b[2])
       [] op = "+" /\ tags = <<"bytes", "bytes">> -> Bytes(a[2] \o b[2])
       [] op = "*" /\ tags = <<"string", "int">> -> Repetition(a[2], b[2])
       [] op = "*" /\ tags = <<"int", "string">> -> Repetition(b[2], a[2])
       [] op \in OrderingOps /\ tags \in {<<"string", "string">>, <<"bytes", "bytes">>} ->
            Bool(Comparison(op, LexOrder(a[2], b[2])))
       [] op \in RegexOps /\ tags = <<"string", "string">> -> RegexMatch(op, a[2], b[2])
       [] op \in RegexOps /\ tags = <<"string", "bytes">> ->
            IF Utf8(b[2]) THEN RegexMatch(op, a[2], b[2]) ELSE Bottom("Conflict")
       [] op = "&&" /\ tags = <<"bool", "bool">> -> Bool(a[2] /\ b[2])
       [] op = "||" /\ tags = <<"bool", "bool">> -> Bool(a[2] \/ b[2])
       [] OTHER -> IF Accepts(op, OperandKind(a), OperandKind(b)) THEN Bottom("Other")
                   ELSE Bottom("Conflict")

Binary(op, left, right) ==
  LET a == Operand(left)
      b == Operand(right)
  IN IF IsBottom(a) THEN a
     ELSE IF IsBottom(b) THEN b
     ELSE IF (Abstract(a) \/ Abstract(b)) /\ Accepts(op, OperandKind(a), OperandKind(b))
       THEN Bottom("Incomplete")
     ELSE IF {Tag(a), Tag(b)} \subseteq {"int", "float"} THEN NumberBinary(op, a, b)
     ELSE TextBinary(op, a, b)

ElementEqual(a, b) == Binary("==", a, b)

-----------------------------------------------------------------------------
(* Unary operators, bounds and the check for bottom *)

Unary(op, v) ==
  LET a == Operand(v)
      wanted == IF op = "!" THEN "bool" ELSE "Number"
  IN CASE IsBottom(a) -> a
       [] op = "+" /\ Tag(a) \in {"int", "float"} -> a
       [] op = "-" /\ Tag(a) = "int" -> Integer(-a[2])
       [] op = "-" /\ Tag(a) = "float" -> <<"float", -a[2], a[3]>>
       [] op = "!" /\ Tag(a) = "bool" -> Bool(~a[2])
       [] Abstract(a) /\ OperandKind(a) \in {"Any", wanted} -> Bottom("Incomplete")
       [] OTHER -> Bottom("Conflict")

\* A bound over its target, which is not a concrete position: no default is chosen.
EvalBound(bound, v) ==
  LET lazy == \/ bound \in OrderingOps /\ Tag(v) \in {"int", "float", "string", "bytes"}
              \/ bound = "!=" /\ Tag(v) \in {"int", "float", "string", "bool", "list", "struct", "null"}
              \/ bound \in RegexOps /\ Tag(v) \in {"string", "null"}
              \/ IsBottom(v) /\ v[2] \in MayResolveLater
  IN CASE lazy -> Bounds("none", <<<<bound, v>>>>)
       [] ~lazy /\ IsBottom(v) -> v
       [] ~lazy /\ Tag(v) \in {"bool", "null"} -> Bottom("Conflict")
       [] OTHER -> Bottom("Incomplete")

\* Mutant: what is pending counts as an error at once.
EvalBottomCheckHasty(op, v, deferring) == Bool(IsBottom(v) = (op = "=="))

\* `v == _|_` and `v != _|_`; deferring says that a loop around can try again.
EvalBottomCheck(op, v, deferring) ==
  IF IsBottom(v) /\ v[2] \in MayResolveLater /\ deferring THEN v
  ELSE Bool(IsBottom(v) = (op = "=="))

-----------------------------------------------------------------------------
(* Selection, index, slice, interpolation *)

\* A definition read where it is used: closed all the way down.
RECURSIVE CloseDeep(_)
CloseDeep(v) ==
  CASE Tag(v) = "struct" ->
         Struct([v[2] EXCEPT !.is_closed = ~v[2].is_open, !.spread_open = @ /\ v[2].is_open,
                             !.fields = [i \in DOMAIN @ |-> [@[i] EXCEPT !.val = CloseDeep(@)]]])
    [] Tag(v) = "list" -> List([i \in DOMAIN v[2] |-> CloseDeep(v[2][i])], v[3])
    [] Tag(v) = "disjunction" ->
         Disjunction([i \in DOMAIN v[2] |-> [v[2][i] EXCEPT !.val = CloseDeep(@)]], v[3])
    [] OTHER -> v

MissingField(s, inDefinition) ==
  Bottom(IF s.is_closed \/ inDefinition THEN "UndefinedFieldDefinite" ELSE "UndefinedField")

\* The base of a selector: a choice's default, or the choice for its common fields.
SelectorBase(v) ==
  LET base == Provisional(v)
  IN IF Tag(base) = "disjunction" /\ ~(IsBottom(Operand(base)) /\ HasFields(base))
     THEN Operand(base) ELSE base

Select(v, section, name, inDefinition) ==
  LET base == SelectorBase(v)
      found == IF section = "definition" THEN Lookup(FieldsOf(base).definitions, name)
               ELSE Lookup(FieldsOf(base).fields, name)
  IN CASE Tag(base) = "bottom" -> base
       [] Tag(base) = "ref" -> Bottom("Unresolved")
       [] HasFields(base) ->
            IF found = <<>> THEN MissingField(FieldsOf(base), inDefinition)
            ELSE IF section = "definition" THEN CloseDeep(found[1].val) ELSE found[1].val
       [] Tag(base) = "list" -> Bottom("Conflict")
       [] OTHER -> Bottom("Other")

\* An index into a list counts from 0.
Index(target, at, inDefinition) ==
  LET t == Operand(target)
      i == Operand(at)
      byName(name) == Lookup(t[2].fields, name) \o Lookup(t[2].definitions, name)
  IN IF IsBottom(t) THEN t
     ELSE IF Tag(t) = "ref" THEN Bottom("Unresolved")
     ELSE IF IsBottom(i) THEN i
     ELSE CASE Tag(t) = "list" /\ Tag(i) = "int" ->
                 IF i[2] + 1 \in DOMAIN t[2] THEN t[2][i[2] + 1] ELSE Bottom("Conflict")
            [] Tag(t) = "struct" /\ Tag(i) = "string" ->
                 IF byName(i[2]) = <<>> THEN MissingField(t[2], inDefinition) ELSE byName(i[2])[1].val
            [] Tag(t) = "struct" /\ Tag(i) = "int" -> Bottom("Conflict")
            [] OTHER -> IF IsConcreteKind(t) /\ IsConcreteKind(i) THEN Bottom("Other")
                        ELSE Bottom("Incomplete")

\* A bound of a slice that is not written is <<>>.
Slice(target, low, high) ==
  LET t == Operand(target)
      l == IF low = <<>> THEN Integer(0) ELSE Operand(low)
      h == IF high = <<>> THEN Integer(Len(t[2])) ELSE Operand(high)
      inside(b) == Tag(b) = "int" /\ b[2] \in 0..Len(t[2])
  IN IF IsBottom(t) THEN t
     ELSE IF Tag(t) # "list" THEN Bottom("Other")
     ELSE IF IsBottom(l) THEN l
     ELSE IF IsBottom(h) THEN h
     ELSE IF ~inside(l) \/ ~inside(h) \/ l[2] > h[2] THEN Bottom("Conflict")
     ELSE List(SubSeq(t[2], l[2] + 1, h[2]), t[3])

\* What an operand is printed as: characters no literal holds.
Rendered(v) == IF Tag(v) = "string" THEN v[2] ELSE <<v>>

\* An error decides at once; an operand that is not concrete yet, only when no
\* error follows.
Interpolation(parts) ==
  LET read == [i \in DOMAIN parts |-> Operand(parts[i])]
      pending(v) == \/ IsBottom(v) /\ v[2] = "Incomplete"
                    \/ Abstract(v) /\ OperandKind(v) \in {"Any", "Number", "string", "bytes", "bool"}
      printed(v) == Tag(v) \in {"string", "int", "float", "bool"}
      failing == SelectSeq(read, LAMBDA v : ~pending(v) /\ ~printed(v))
      waiting == SelectSeq(read, pending)
  IN IF failing # <<>> THEN IF IsBottom(failing[1]) THEN failing[1] ELSE Bottom("Other")
     ELSE IF waiting # <<>> THEN Bottom("Incomplete")
     ELSE String(FlattenSeq([i \in DOMAIN read |-> Rendered(read[i])]))
=============================================================================
