------------------------------ MODULE Operands ------------------------------
(***************************************************************************)
(* An operation and the operands it is applied to again and again.  A pass *)
(* that resolves a reference, and a merge that supplies what a field lacks,*)
(* have the declaration evaluated anew: its operands are more specific than*)
(* before.  What the operation said of the earlier ones has been acted on  *)
(* by then: an error has collapsed the struct around it, a guard has run   *)
(* its body or not.                                                        *)
(***************************************************************************)
EXTENDS Builtins

CONSTANTS
  Applications,   \* what is evaluated: sets of operations, each with its operands
  Supplied        \* the values a reference or a merge can supply

VARIABLES
  operation,   \* the operator, position or function
  operands,
  result       \* what it made of them

vars == <<operation, operands, result>>

Apply(op, args) ==
  CASE op[1] = "binary" -> Binary(op[2], args[1], args[2])
    [] op[1] = "unary" -> Unary(op[2], args[1])
    [] op[1] = "bound" -> EvalBound(op[2], args[1])
    [] op[1] = "bottom check" -> EvalBottomCheck(op[2], args[1], op[3])
    [] op[1] = "select" -> Select(args[1], op[2], op[3], FALSE)
    [] op[1] = "index" -> Index(args[1], args[2], op[2])
    [] op[1] = "slice" -> Slice(args[1], args[2], args[3])
    [] op[1] = "interpolation" -> Interpolation(args)
    [] op[1] = "guard" -> ComprehensionGuard(args[1])
    [] op[1] = "source" -> ComprehensionSource(args[1])
    [] op[1] = "label" -> DynamicLabel(args[1])
    [] op[1] = "call" -> Call(op[2], args)

-----------------------------------------------------------------------------
(* More specific values.  A list keeps its length and a struct its fields. *)

ConcreteTags == ScalarTags \cup {"list", "struct"}
Admits(bounds, v) ==
  \A i \in DOMAIN bounds[3] : Binary(bounds[3][i][1], v, bounds[3][i][2]) = Bool(TRUE)

\* What a validator is of: math.MultipleOf of integers, the others of lists.
Validated(name) == IF name = "MultipleOf" THEN "int" ELSE "list"

IsPending(v) == Tag(v) = "ref" \/ (IsBottom(v) /\ v[2] \in MayResolveLater)

RECURSIVE Merged(_)
Merged(v) ==
  CASE Tag(v) = "top" \/ (IsBottom(v) /\ v[2] = "Incomplete") -> Supplied
    [] Tag(v) = "type" -> {x \in Supplied : Tag(x) \in TypeKinds(v[2])}
    [] Tag(v) = "bounds" -> {x \in Supplied : Tag(x) \in Kinds(v) /\ Admits(v, x)}
    [] Tag(v) = "validator" -> {x \in Supplied : Tag(x) = Validated(v[2])}
    [] Tag(v) = "disjunction" -> {v[2][i].val : i \in DOMAIN v[2]}
    [] Tag(v) = "list" ->
         UNION {{List([v[2] EXCEPT ![i] = x], v[3]) : x \in Merged(v[2][i])} : i \in DOMAIN v[2]}
    [] Tag(v) = "struct" ->
         UNION {{Struct([v[2] EXCEPT !.fields[i].val = x]) : x \in Merged(v[2].fields[i].val)}
                : i \in {j \in DOMAIN v[2].fields : ~v[2].fields[j].optional}}
    [] OTHER -> {}

-----------------------------------------------------------------------------
Init ==
  \E k \in DOMAIN Applications :
    /\ operation \in Applications[k].operations
    /\ operands \in Applications[k].operands
    /\ result = Apply(operation, operands)

Reapply(i, v) ==
  /\ operands' = [operands EXCEPT ![i] = v]
  /\ result' = Apply(operation, operands')
  /\ UNCHANGED operation

\* A pass resolves a reference, to a value of any kind.
Resolve(i) ==
  /\ operands[i] # <<>>
  /\ IsPending(operands[i])
  /\ \E v \in Supplied : Reapply(i, v)

\* A merge narrows an operand, or something in it.
Merge(i) ==
  /\ operands[i] # <<>>
  /\ ~IsPending(operands[i])
  /\ \E v \in Merged(operands[i]) : Reapply(i, v)

Next == \E i \in DOMAIN operands : Resolve(i) \/ Merge(i)
Spec == Init /\ [][Next]_vars

-----------------------------------------------------------------------------
(* Properties *)

\* Concrete all the way down, nothing left to choose; optional fields aside.
RECURSIVE Settled(_)
Settled(v) ==
  CASE Tag(v) = "list" -> \A i \in DOMAIN v[2] : Settled(v[2][i])
    [] Tag(v) = "struct" -> \A i \in DOMAIN Regular(v[2]) : Settled(Regular(v[2])[i].val)
    [] OTHER -> Tag(v) \in ScalarTags

\* A default chosen may be overridden by a later merge; the loop is told.
RECURSIVE HoldsChoice(_)
HoldsChoice(v) ==
  CASE Tag(v) = "list" -> \E i \in DOMAIN v[2] : HoldsChoice(v[2][i])
    [] Tag(v) = "struct" -> \E i \in DOMAIN v[2].fields : HoldsChoice(v[2].fields[i].val)
    [] OTHER -> Tag(v) = "disjunction"
NoChoice == \A i \in DOMAIN operands : operands[i] = <<>> \/ ~HoldsChoice(operands[i])

\* An error that nothing retries and no merge is expected to mend.
FinalError(v) ==
  v = <<"Evaluation">> \/ (IsBottom(v) /\ v[2] \notin MayResolveLater \cup {"Incomplete"})

\* Where the code decides although an operand may still become what it needs:
\* the operands that are not ready, by operation.
Unready(v) == Tag(v) \notin ConcreteTags
TooEarly(op, args) ==
  LET some(P(_)) == \E i \in DOMAIN args : args[i] # <<>> /\ P(args[i])
      unread(v) == Tag(v) = "ref" \/ v = Type("top") \/ Tag(v) = "validator"
  IN CASE op[1] \in {"binary", "unary", "interpolation"} -> some(LAMBDA v : Tag(v) = "validator")
       [] op[1] \in {"select", "slice"} -> some(Unready)
       [] op[1] = "bottom check" -> IsBottom(args[1]) /\ (args[1][2] = "Incomplete" \/ ~op[3])
       [] op[1] = "call" ->
            CASE op[2] \in {"or", "close", "error"} -> some(Unready)
              [] op[2] \in DivisionNames -> some(unread)
              [] op[2] \in {"Contains", "IsSorted", "Min", "Max"} -> some(LAMBDA v : ~Settled(v))
              [] op[2] \notin TopLevel /\ Signature(op[2]) = <<>> -> some(LAMBDA v : ~Settled(v))
              [] OTHER -> FALSE
       [] OTHER -> FALSE

Ready == NoChoice /\ ~TooEarly(operation, operands)

\* A final error is not taken back: what collapsed a struct, or failed a
\* comprehension, still fails once its operands are more specific.  An operand
\* that may still become what the operation reads has to leave it incomplete or
\* to be tried again.
ErrorsAreFinal == [][Ready /\ FinalError(result) => FinalError(result')]_vars

\* A value is not taken back either: a guard that read true has run its body.
ValuesAreFinal == [][Ready /\ Settled(result) => result' = result]_vars

\* Operands that are data decide: an operation on them is a value or a final
\* error, never one to be tried again or completed - but for a field that is
\* not there and a choice out of nothing, which a merge may bring, and for a
\* bound whose target is of a kind the bound never takes.
DataDecides ==
  (\A i \in DOMAIN operands : operands[i] = <<>> \/ Settled(operands[i])) =>
    \/ FinalError(result)
    \/ operation[1] \in {"select", "index", "bound"}
    \/ operation = <<"call", "or">>
    \/ result[1] \in ConcreteTags \cup {"bounds", "validator"}

-----------------------------------------------------------------------------
(* Laws of the operators, each against what it means *)

Value(i) == FloatOf(operands[i])

\* Whatever their kinds and however large an integer is, numbers compare as the
\* numbers they are.
ComparisonsAreExact ==
  (operation[1] = "binary" /\ operation[2] \in ComparisonOps
   /\ \A i \in 1..2 : IsNumber(operands[i]) /\ (Tag(operands[i]) = "float" => Finite(operands[i])))
  => LET left == Value(1)[2] * Value(2)[3]
         right == Value(2)[2] * Value(1)[3]
     IN result = Bool(CASE operation[2] = "<" -> left < right [] operation[2] = ">" -> left > right
                        [] operation[2] = "<=" -> left <= right [] operation[2] = ">=" -> left >= right
                        [] operation[2] = "==" -> left = right [] operation[2] = "!=" -> left # right)

\* Equality does not depend on the side, and inequality is its opposite: an
\* error on one side is one on the other.
EqualityIsSymmetric ==
  operation[1] = "binary" /\ operation[2] \in EqualityOps =>
    LET mirrored == Binary(operation[2], operands[2], operands[1])
        opposite == Binary(IF operation[2] = "==" THEN "!=" ELSE "==", operands[1], operands[2])
    IN /\ IsBottom(result) <=> IsBottom(mirrored)
       /\ ~IsBottom(result) => mirrored = result /\ opposite = Bool(~result[2])

\* quo and rem round to zero, div and mod have a remainder that is not negative.
DivisionIdentity ==
  LET a == operands[1][2]
      b == operands[2][2]
      at(name) == Call(name, operands)[2]
  IN (operation[1] = "call" /\ operation[2] \in DivisionNames
      /\ Tag(operands[1]) = "int" /\ Tag(operands[2]) = "int" /\ b # 0) =>
       /\ at("quo") * b + at("rem") = a /\ Abs(at("rem")) < Abs(b) /\ at("rem") * a >= 0
       /\ at("div") * b + at("mod") = a /\ at("mod") \in 0..(Abs(b) - 1)

\* Each operator computes what it means, whatever the kinds and sizes.
OperatorLaws == ComparisonsAreExact /\ EqualityIsSymmetric /\ DivisionIdentity

\* A sorted list has the elements it had, in order where they are of one kind;
\* IsSorted says so of it, of whatever kinds they are.
Occurrences(s, v) == Cardinality({i \in DOMAIN s : s[i] = v})
SortingSorts ==
  operation = <<"call", "Sort">> /\ Tag(result) = "list" =>
    LET before == Argument(operands[1])[2]
        after == result[2]
    IN /\ \A v \in ToSet(before) \cup ToSet(after) : Occurrences(before, v) = Occurrences(after, v)
       /\ ListIsSorted(<<result>>) = Bool(TRUE)
       /\ Cardinality({Tag(before[i]) : i \in DOMAIN before}) = 1 =>
            \A i, j \in DOMAIN after : i < j => CompareElements(Comparable, after[i], after[j]) # 1

\* The rearranging functions undo each other.
Rearranging ==
  LET s == Argument(operands[1])
      n == Argument(operands[2])
  IN operation[1] = "call" /\ Tag(s) = "list" /\ Tag(result) = "list" =>
       CASE operation[2] = "Take" -> result[2] \o Call("Drop", operands)[2] = s[2]
         [] operation[2] = "Chunk" -> Call("Concat", <<result>>)[2] = s[2]
                                      /\ \A i \in 1..(Len(result[2]) - 1) : Len(result[2][i][2]) = n[2]
         [] operation[2] = "Zip" -> LET k == Len(result[2])
                                    IN Call("Unzip", <<result>>)[2] =
                                         <<Closed(SubSeq(s[2], 1, k)), Closed(SubSeq(n[2], 1, k))>>
         [] operation[2] = "Flatten" -> \A i \in DOMAIN result[2] : Tag(result[2][i]) # "list"
         [] operation[2] = "Distinct" -> /\ Call("Distinct", <<result>>) = result
                                         /\ ToSet(result[2]) = ToSet(s[2])
         [] OTHER -> TRUE

\* Sorting, IsSorted and the rearranging functions agree with one another: no
\* element is lost, doubled or out of its place.
ListLaws == SortingSorts /\ Rearranging
=============================================================================
