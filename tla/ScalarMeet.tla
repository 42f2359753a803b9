----------------------------- MODULE ScalarMeet -----------------------------
(***************************************************************************)
(* Unification of scalars, types and bounds (unify_logic, unify_bounds and *)
(* incompatible_range in unify.rs).                                        *)
(*                                                                         *)
(* A field's constraints meet two at a time, in an order and a grouping    *)
(* that the declarations, the merges and the re-derivations decide.  The   *)
(* state is what is left to unify; a step replaces two values by theirs.   *)
(*                                                                         *)
(* A number is counted in quarters, so that there is one between any two   *)
(* bounds; strings and bytes are numbers in their order, and a regular     *)
(* expression matches its own.                                             *)
(***************************************************************************)
EXTENDS Integers, FiniteSets

CONSTANTS
  Given,   \* the choices of constraints on one field, each a set of values
  Atoms,   \* the concrete values
  Exact    \* numbers up to here, in quarters, have an f64 of their own

ASSUME Precision == Exact \in Nat

VARIABLES
  given,     \* the constraints the field was declared with
  operands   \* those still to unify

vars == <<given, operands>>

-----------------------------------------------------------------------------
(* Values *)

Bottom == [t |-> "bottom"]
Top == [t |-> "top"]
Type(kind) == [t |-> "type", kind |-> kind]
Atom(kind, v) == [t |-> "atom", kind |-> kind, v |-> v]
Bounds(base, cs) == [t |-> "bounds", base |-> base, cs |-> cs]
Bound(op, kind, v) == [op |-> op, kind |-> kind, v |-> v]

NotNull == Bound("!=", "null", 0)

\* The wider kinds differ from these in their range only.
Unsigned == {"uint", "uint8", "uint16"}
Integer == {"int", "int8", "int16"} \cup Unsigned
Floating == {"float", "float32", "float64"}
Numeric == {"number"} \cup Integer \cup Floating

Subsumes(k, l) ==
  \/ k = l
  \/ k = "number" /\ l \in Numeric
  \/ k = "int" /\ l \in Integer
  \/ k = "uint" /\ l \in Unsigned
  \/ k = "float" /\ l \in Floating

ContainsInt(k, v) ==
  CASE k \in {"number", "int"} -> TRUE
    [] k = "uint" -> v >= 0
    [] k = "uint8" -> v >= 0 /\ v <= 4 * 255
    [] k = "uint16" -> v >= 0 /\ v <= 4 * 65535
    [] k = "int8" -> v >= -4 * 128 /\ v <= 4 * 127
    [] k = "int16" -> v >= -4 * 32768 /\ v <= 4 * 32767
    [] OTHER -> FALSE

\* unify_type_and_concrete
Accepts(k, a) ==
  CASE a.kind = "int" -> ContainsInt(k, a.v)
    [] a.kind = "float" -> k = "number" \/ k \in Floating
    [] OTHER -> k = a.kind

\* to_f64: to nearest, ties to even.
F64(v) ==
  LET step == IF v > Exact \/ v < -Exact THEN 8 ELSE 1
      down == step * (v \div step)
      near(w) == 2 * (v - w) < step \/ (2 * (v - w) = step /\ (w \div step) % 2 = 0)
  IN IF near(down) THEN down ELSE down + step

Compare(op, x, y) ==
  CASE op = "<" -> x < y [] op = "<=" -> x <= y
    [] op = ">" -> x > y [] op = ">=" -> x >= y
    [] op \in {"==", "=~"} -> x = y
    [] op \in {"!=", "!~"} -> x # y

-----------------------------------------------------------------------------
(* Types and concrete values *)

MeetPlain(x, y) ==
  CASE x.t = "atom" /\ y.t = "atom" -> IF x = y THEN x ELSE Bottom
    [] x.t = "type" /\ y.t = "atom" -> IF Accepts(x.kind, y) THEN y ELSE Bottom
    [] x.t = "atom" /\ y.t = "type" -> IF Accepts(y.kind, x) THEN x ELSE Bottom
    [] x.t = "type" /\ y.t = "type" ->
         IF Subsumes(x.kind, y.kind) THEN y
         ELSE IF Subsumes(y.kind, x.kind) THEN x ELSE Bottom

-----------------------------------------------------------------------------
(* Bounds *)

\* narrows_number_base: `number` narrows to `int` and `float`, and only it.
Narrows(b, c) == b = "number" /\ c \in {"int", "float"}
MergedBases(b, c) ==
  IF b = "none" THEN {c}
  ELSE IF c = "none" \/ b = c THEN {b}
  ELSE (IF Narrows(b, c) THEN {c} ELSE {}) \cup (IF Narrows(c, b) THEN {b} ELSE {})

IsNumber(kind) == kind \in {"int", "float"}
IsText(kind) == kind \in {"string", "bytes"}

\* What a concrete target demands of the base.
ConflictingDemand(base, cs) ==
  \E c \in cs : \/ IsNumber(c.kind) /\ base = "string"
                \/ c.kind = "string" /\ base \in Numeric
MixedDemands(cs) ==
  (\E c \in cs : IsNumber(c.kind)) /\ (\E c \in cs : c.kind = "string")

(* Fault: an inclusive bound wins over an exclusive one at the same value. *)
InclusiveEnd(ends, side) ==
  CHOOSE e \in ends : \A f \in ends :
    \/ IF side = "lower" THEN e.v > f.v ELSE e.v < f.v
    \/ e.v = f.v /\ (f.inclusive => e.inclusive)

\* The strongest bound of one side; an exclusive one wins ties.
Strongest(ends, side) ==
  CHOOSE e \in ends : \A f \in ends :
    \/ IF side = "lower" THEN e.v > f.v ELSE e.v < f.v
    \/ e.v = f.v /\ (e.inclusive => f.inclusive)

Floor(v) == 4 * (v \div 4)
Ceil(v) == -Floor(-v)

\* An integer base snaps both sides to integers first.
Admissible(lower, upper, integer) ==
  IF integer
  THEN (IF lower.inclusive THEN Ceil(lower.v) ELSE Floor(lower.v) + 4)
         <= (IF upper.inclusive THEN Floor(upper.v) ELSE Ceil(upper.v) - 4)
  ELSE \/ lower.v < upper.v
       \/ lower.v = upper.v /\ lower.inclusive /\ upper.inclusive

Ends(cs, ops) ==
  {[v |-> IF IsNumber(c.kind) THEN F64(c.v) ELSE c.v, inclusive |-> c.op \in {"<=", ">=", "=="}] :
     c \in {c \in cs : c.op \in ops}}

IncompatibleGroup(cs, integer) ==
  LET lowers == Ends(cs, {">", ">=", "=="})
      uppers == Ends(cs, {"<", "<=", "=="})
  IN /\ lowers # {} /\ uppers # {}
     /\ ~Admissible(Strongest(lowers, "lower"), Strongest(uppers, "upper"), integer)

\* incompatible_range: text bounds keep both kinds in one group.
IncompatibleRange(base, cs) ==
  \/ IncompatibleGroup({c \in cs : IsNumber(c.kind)}, base = "int")
  \/ IncompatibleGroup({c \in cs : IsText(c.kind)}, FALSE)

Checked(bases, cs) ==
  IF \E b \in bases : ~ConflictingDemand(b, cs) /\ ~IncompatibleRange(b, cs)
  THEN Bounds(CHOOSE b \in bases : TRUE, cs) ELSE Bottom

\* A candidate against one constraint.
Satisfies(a, c) ==
  CASE IsNumber(a.kind) ->
         /\ IsNumber(c.kind) /\ c.op \notin {"=~", "!~"}
         /\ IF a.kind = "int" /\ c.kind = "int" THEN Compare(c.op, a.v, c.v)
            ELSE Compare(c.op, F64(a.v), F64(c.v))
    [] a.kind = "string" ->
         /\ ~IsNumber(c.kind) /\ c.kind # "bool"
         /\ c.kind = "string" => Compare(c.op, a.v, c.v)
    [] a.kind = "bool" -> c.kind = "bool" /\ c.op \in {"==", "!="} /\ Compare(c.op, a.v, c.v)
    [] OTHER -> FALSE

(* Fault: a number passes any base that holds numbers. *)
PassesNumeric(base, a) ==
  \/ base = "none"
  \/ IsNumber(a.kind) /\ base \in Numeric
  \/ a.kind = "string" /\ base = "string"
  \/ a.kind = "bool"

\* The bases a candidate passes; a boolean is not asked.
PassesBase(base, a) ==
  \/ base = "none"
  \/ IsNumber(a.kind) /\ base \in {a.kind, "number"}
  \/ a.kind = "string" /\ base = "string"
  \/ a.kind = "bool"

ExcludesNull(y) == y.t \in {"atom", "type"} /\ y.kind # "null"

Discharged(x, y) == IF x.base = "none" THEN y ELSE MeetPlain(Type(x.base), y)

\* `!= null` is discharged by what excludes null.
MeetBounds(x, y) ==
  LET cs == IF ExcludesNull(y) THEN x.cs \ {NotNull} ELSE x.cs
  IN IF cs = {} THEN Discharged(x, y)
     ELSE IF y.t = "bounds"
     THEN IF MixedDemands(cs \cup y.cs) THEN Bottom
          ELSE Checked(MergedBases(x.base, y.base), cs \cup y.cs)
     ELSE IF y.t = "type" THEN Checked(MergedBases(x.base, y.kind), cs)
     ELSE IF PassesBase(x.base, y) /\ \A c \in cs : Satisfies(y, c) THEN y ELSE Bottom

Meet(x, y) ==
  IF Bottom \in {x, y} THEN Bottom
  ELSE IF x = Top THEN y ELSE IF y = Top THEN x
  ELSE IF x.t = "bounds" THEN MeetBounds(x, y)
  ELSE IF y.t = "bounds" THEN MeetBounds(y, x)
  ELSE MeetPlain(x, y)

-----------------------------------------------------------------------------
(* What a field may be given *)

FormedAtom(a) ==
  /\ a = Atom(a.kind, a.v)
  /\ a.kind \in {"int", "float", "string", "bytes", "bool", "null"}
  /\ a.v \in -Exact .. Exact
  /\ a.kind = "int" => a.v % 4 = 0

FormedBound(c) ==
  /\ c = Bound(c.op, c.kind, c.v)
  /\ c.v \in -Exact .. Exact
  /\ \/ c = NotNull
     \/ IsNumber(c.kind) /\ c.op \in {"<", "<=", ">", ">=", "==", "!="}
     \/ c.kind = "string" /\ c.op \in {"<", "<=", ">", ">=", "==", "!=", "=~", "!~"}
     \/ c.kind = "bool" /\ c.op \in {"==", "!="}

\* A value of the kinds K and the bounds C.
Formed(v, K, C) ==
  \/ v \in {Bottom, Top}
  \/ v.t = "type" /\ v = Type(v.kind) /\ v.kind \in K
  \/ v.t = "atom" /\ v = Atom(v.kind, v.v) /\ FormedAtom(Atom(v.kind, v.v))
  \/ /\ v.t = "bounds" /\ v = Bounds(v.base, v.cs)
     /\ v.base \in K \cup {"none"} /\ v.cs \in (SUBSET C) \ {{}}
     /\ v.cs = {NotNull} => v.base = "none"

\* No kind overlaps another that does not hold it, kinds with a width meet no
\* bound, and bounds on booleans meet no other kind.
Mixable(K, C) ==
  /\ K \subseteq Numeric \cup {"string", "bytes", "bool"}
  /\ \A k, l \in K : \/ Subsumes(k, l) \/ Subsumes(l, k)
                     \/ \A a \in Atoms : ~(Accepts(k, a) /\ Accepts(l, a))
  /\ \A c \in C : FormedBound(c)
  /\ C \subseteq {NotNull} \/ K \subseteq {"number", "int", "float", "string", "bytes", "bool"}
  /\ (\A c \in C : c.kind # "bool") \/ K \subseteq {"bool"}

KindsIn(vs) ==
  {v.kind : v \in {v \in vs : v.t = "type"}}
    \cup ({v.base : v \in {v \in vs : v.t = "bounds"}} \ {"none"})
BoundsIn(vs) == UNION {v.cs : v \in {v \in vs : v.t = "bounds"}}

ASSUME GivenFormed ==
  /\ \A a \in Atoms : a.t = "atom" /\ FormedAtom(a)
  /\ \A g \in Given : /\ Mixable(KindsIn(g), BoundsIn(g))
                      /\ \A v \in g : Formed(v, KindsIn(g), BoundsIn(g))

\* As declared: finitely many constraints, a bound by itself, values that are.
ASSUME GivenDeclared ==
  \A g \in Given :
    /\ IsFiniteSet(g)
    /\ \A v \in g : /\ v.t = "atom" => v \in Atoms
                    /\ v.t = "bounds" => \E c \in v.cs : v = Bounds("none", {c})

-----------------------------------------------------------------------------
Init == given \in Given /\ operands = given

\* unify: any two of what is left, or one declared twice.
Unify ==
  /\ \E x, y \in operands : operands' = (operands \ {x, y}) \cup {Meet(x, y)}
  /\ UNCHANGED given

Next == Unify

Spec == Init /\ [][Next]_vars

-----------------------------------------------------------------------------
(* What a value admits, constraint by constraint. *)

Meant(c, a) ==
  CASE c = NotNull -> a.kind # "null"
    [] IsNumber(c.kind) -> IsNumber(a.kind) /\ Compare(c.op, a.v, c.v)
    [] OTHER -> a.kind = c.kind /\ Compare(c.op, a.v, c.v)

Admits(v, a) ==
  CASE v.t = "bottom" -> FALSE
    [] v.t = "top" -> TRUE
    [] v.t = "atom" -> v = a
    [] v.t = "type" -> Accepts(v.kind, a)
    [] v.t = "bounds" -> (v.base = "none" \/ Accepts(v.base, a)) /\ \A c \in v.cs : Meant(c, a)

Admitted(vs) == {a \in Atoms : \A v \in vs : Admits(v, a)}

(***************************************************************************)
(* In whatever order and grouping the constraints of a field meet, what is *)
(* left admits exactly the values each of them admits: no conflict between *)
(* constraints that can hold together, no value let through.               *)
(***************************************************************************)
MeaningKept == Admitted(operands) = Admitted(given)

(***************************************************************************)
(* No order of the declarations makes an error of what another leaves      *)
(* incomplete: every order and grouping ends in the same value, but for a  *)
(* `!= null` another constraint discharges in some of them.                *)
(***************************************************************************)
InOneOrder ==
  LET met[S \in SUBSET given] ==
        IF S = {} THEN Top
        ELSE LET x == CHOOSE x \in S : TRUE IN Meet(x, met[S \ {x}])
  IN met[given]
Settled(v) == IF v.t = "bounds" THEN Bounds(v.base, v.cs \ {NotNull}) ELSE v
OneResult ==
  \A v \in operands : Cardinality(operands) = 1 => Settled(v) = Settled(InOneOrder)
=============================================================================
