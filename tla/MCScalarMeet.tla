---------------------------- MODULE MCScalarMeet ----------------------------
(***************************************************************************)
(* Any two or three of some forty constraints: every kind, bounds of every *)
(* operator at 1 and 2 and between, strings in order, and concrete values. *)
(***************************************************************************)
EXTENDS ScalarMeet

MCAtoms ==
  {Atom("int", 4 * i) : i \in -1 .. 4 \cup {255, 256, 8080}} \cup {Atom("float", v) : v \in 0 .. 12}
  \cup {Atom("string", s) : s \in 0 .. 3} \cup {Atom("bool", b) : b \in 0 .. 1}
  \cup {Atom("bytes", 0), Atom("null", 0)}

One(op, kind, v) == Bounds("none", {Bound(op, kind, v)})

Kinds == {Type(k) : k \in {"number", "int", "float", "string", "bytes"}} \cup {Top}
NumberBounds ==
  {One(op, "int", v) : op \in {"<", "<=", ">", ">="}, v \in {4, 8}}
  \cup {One(op, "float", 6) : op \in {"<", ">", "<=", ">="}}
  \cup {One("!=", "int", 4), One("==", "int", 8)}
TextBounds ==
  {One(op, "string", 1) : op \in {"<", "<=", ">", ">=", "!=", "=~", "!~"}} \cup {One("<", "string", 2)}
NoNull == Bounds("none", {NotNull})
Concrete ==
  {Atom("int", 4), Atom("int", 8), Atom("float", 6), Atom("string", 0), Atom("string", 1),
   Atom("bool", 1), Atom("bytes", 0), Atom("null", 0)}

Constraints == Kinds \cup NumberBounds \cup TextBounds \cup {NoNull} \cup Concrete

\* A bound on booleans beside what admits booleans only.
Booleans == {NoNull, Type("bool"), One("!=", "bool", 0), One("==", "bool", 1),
             Atom("bool", 0), Atom("bool", 1), Top}

\* Kinds with a width, and concrete values at their ends.
Sized ==
  {Type(k) : k \in {"number", "int", "uint", "uint8", "float", "float32"}}
  \cup {Atom("int", 4 * i) : i \in {-1, 0, 255, 256}} \cup {Atom("float", 6)}

Three(S) == {{x, y, z} : x, y, z \in S}

MCGiven ==
  Three(Constraints) \cup Three(Sized) \cup Three(Booleans)
  \cup {{x, y} \cup t : x \in NumberBounds, y \in {Type("int"), Type("number")}, t \in Three(NumberBounds)}
=============================================================================
