------------------------------ MODULE Builtins ------------------------------
(***************************************************************************)
(* Calls (builtins.rs): the top-level functions, and how the arguments of  *)
(* a library function are judged before and after it ran                   *)
(* (stdlib/signature.rs).                                                  *)
(***************************************************************************)
EXTENDS Lists

-----------------------------------------------------------------------------
(* The kinds a value may still take *)

NumberKinds == {"int", "float"}
AllKinds == ScalarTags \cup {"list", "struct"}

TypeKinds(t) ==
  CASE t = "top" -> AllKinds [] t = "number" -> NumberKinds
    [] t \in IntegerTypes -> {"int"} [] OTHER -> {t}

RECURSIVE Kinds(_)
BoundKinds(c) ==
  CASE c[1] \in RegexOps -> {"string"}
    [] c[1] = "!=" -> AllKinds
    [] OTHER -> IF Kinds(c[2]) \cap NumberKinds # {} THEN NumberKinds ELSE Kinds(c[2])
Kinds(v) ==
  CASE IsBottom(v) -> {}
    [] Tag(v) \in AllKinds -> {Tag(v)}
    [] Tag(v) = "type" -> TypeKinds(v[2])
    [] Tag(v) = "bounds" ->
         IF v[2] # "none" THEN TypeKinds(v[2])
         ELSE {k \in AllKinds : \A i \in DOMAIN v[3] : k \in BoundKinds(v[3][i])}
    [] Tag(v) = "disjunction" -> UNION {Kinds(v[2][i].val) : i \in DOMAIN v[2]}
    [] OTHER -> AllKinds

-----------------------------------------------------------------------------
(* What judging an argument found, worst first by its number *)

Fine == <<0>>
Pending == <<1>>
Mismatch == <<2>>
Error(v) == <<3, v>>

\* The worst of several, the first of equally bad ones.
Worst(findings) == FoldLeft(LAMBDA f, g : IF g[1] > f[1] THEN g ELSE f, Fine, findings)

Scalar(v, want) ==
  CASE IsBottom(v) -> Error(v)
    [] ~IsBottom(v) /\ Kinds(v) \cap want = {} -> Mismatch
    [] OTHER -> IF Tag(v) \in AllKinds THEN Fine ELSE Pending

\* A value read as data, depth levels down.
RECURSIVE Data(_, _)
Data(v, depth) ==
  LET id == Operand(v)
      top == Scalar(id, AllKinds)
      children == IF Tag(id) = "list" THEN id[2]
                  ELSE [i \in DOMAIN Regular(id[2]) |-> Regular(id[2])[i].val]
  IN IF top # Fine \/ depth = 0 \/ Tag(id) \notin {"list", "struct"} THEN top
     ELSE IF Tag(id) = "struct" /\ id[2].incomplete THEN Pending
     ELSE Worst([i \in DOMAIN children |-> Data(children[i], depth - 1)])

DataDepth == 64

ListOf(v, element) ==
  LET top == Scalar(v, {"list"})
  IN IF top # Fine \/ element = {} THEN top
     ELSE Worst([i \in DOMAIN v[2] |-> Scalar(Operand(v[2][i]), element)])

\* One argument, as its parameter reads it; after a failed call also what the
\* function read inside it.
JudgeOne(param, v, afterFailure) ==
  CASE param = "Schema" -> Fine
    [] param = "Int" -> Scalar(v, {"int"})
    [] param = "Number" -> Scalar(v, NumberKinds)
    [] param = "List" -> ListOf(v, IF afterFailure THEN AllKinds ELSE {})
    [] param = "SortedList" -> ListOf(v, {})
    [] param = "StringList" -> ListOf(v, {"string"})
    [] param = "NumberList" -> ListOf(v, NumberKinds)
    [] param = "Value" -> Data(v, IF afterFailure THEN DataDepth ELSE 0)

\* The functions of the list package that have a signature: parameters, and
\* whether a call one argument short is a validator.  The others are not judged.
Signature(name) ==
  CASE name \in {"Drop", "Repeat", "Take"} -> <<<<"List", "Int">>, FALSE>>
    [] name = "FlattenN" -> <<<<"Value", "Int">>, FALSE>>
    [] name \in {"Concat", "Reverse"} -> <<<<"List">>, FALSE>>
    [] name = "Slice" -> <<<<"List", "Int", "Int">>, FALSE>>
    [] name \in {"MinItems", "MaxItems"} -> <<<<"List", "Int">>, TRUE>>
    [] name = "UniqueItems" -> <<<<"List">>, TRUE>>
    [] name = "Contains" -> <<<<"List", "Value">>, TRUE>>
    [] name = "MatchN" -> <<<<"List", "Schema", "Schema">>, TRUE>>
    [] name \in {"Avg", "Max", "Min", "Product", "Sum"} -> <<<<"NumberList">>, FALSE>>
    [] name = "Range" -> <<<<"Number", "Number", "Number">>, FALSE>>
    [] name = "Sort" -> <<<<"SortedList", "Schema">>, FALSE>>
    [] name = "IsSorted" -> <<<<"SortedList", "Schema">>, TRUE>>
    [] name = "SortStrings" -> <<<<"StringList">>, FALSE>>
    [] name = "IsSortedStrings" -> <<<<"StringList">>, TRUE>>
    [] OTHER -> <<>>

ParamsFor(sig, count) ==
  IF sig[2] /\ count + 1 = Len(sig[1]) THEN Tail(sig[1]) ELSE sig[1]

Judge(sig, args, afterFailure) ==
  LET params == ParamsFor(sig, Len(args))
  IN Worst([i \in DOMAIN args \cap DOMAIN params |-> JudgeOne(params[i], args[i], afterFailure)])

\* What a call stands for by what judging it found.
Verdict(found, mismatch, fine) ==
  CASE found[1] = 3 -> found[2]
    [] found = Pending -> Bottom("Incomplete")
    [] found = Mismatch -> mismatch
    [] found = Fine -> fine

\* ... before the function runs, or <<>> when it runs.
BeforeCall(sig, args) == Verdict(Judge(sig, args, FALSE), <<>>, <<>>)

\* ... when it failed.
FailedCall(sig, args) == Verdict(Judge(sig, args, TRUE), Bottom("Conflict"), Bottom("Other"))

\* ... when it has run.
Answer(sig, args, result) ==
  IF result # Failed THEN result ELSE IF sig = <<>> THEN Bottom("Other") ELSE FailedCall(sig, args)

Judged(sig, args, early, result) == IF early # <<>> THEN early ELSE Answer(sig, args, result)

LibraryCall(name, args) ==
  LET sig == Signature(name)
  IN Judged(sig, args, IF sig = <<>> THEN <<>> ELSE BeforeCall(sig, args), CallList(name, args))

-----------------------------------------------------------------------------
(* Top-level functions *)

LenOfAbstract(v) ==
  IF Kinds(v) \cap {"string", "bytes", "list", "struct"} # {} THEN Bottom("Incomplete")
  ELSE Bottom("Conflict")

Length(args) ==
  IF args = <<>> THEN Bottom("Other")
  ELSE IF Tag(args[1]) \in {"string", "bytes", "list"} THEN Integer(Len(args[1][2]))
  ELSE IF Tag(args[1]) = "struct" THEN Integer(Len(Regular(args[1][2])))
  ELSE LenOfAbstract(args[1])

Or(args) ==
  IF ~IsList(args, 1) THEN Bottom("Other")
  ELSE IF args[1][2] = <<>> THEN Bottom("Incomplete")
  ELSE Disjunction([i \in DOMAIN args[1][2] |-> Branch(args[1][2][i], FALSE)], <<>>)

\* A struct left open with `...` stays open where it is embedded.
Close(args) ==
  IF args # <<>> /\ Tag(args[1]) = "struct"
  THEN Struct([args[1][2] EXCEPT !.is_closed = TRUE, !.is_open = FALSE,
                                 !.spread_open = @ \/ args[1][2].is_open])
  ELSE Bottom("Other")

CustomError(args) ==
  IF args # <<>> /\ Tag(args[1]) \in {"string", "bottom"} THEN Bottom("Custom") ELSE Bottom("Other")

DivisionNames == {"div", "mod", "quo", "rem"}
TopLevel == DivisionNames \cup {"len", "or", "close", "error"}

\* An argument that is an error is the call's error, except for `error`.
TopLevelCall(name, args) ==
  LET failing == SelectSeq(args, IsBottom)
  IN IF name # "error" /\ failing # <<>> THEN failing[1]
     ELSE CASE name \in DivisionNames ->
                 IF Len(args) = 2 THEN IntegerDivision(name, args[1], args[2]) ELSE Bottom("Conflict")
            [] name = "len" -> Length(args)
            [] name = "or" -> Or(args)
            [] name = "close" -> Close(args)
            [] name = "error" -> CustomError(args)

\* eval_call: the arguments first, then the function.
Call(name, args) ==
  LET evaluated == [i \in DOMAIN args |-> Argument(args[i])]
  IN IF name \in TopLevel THEN TopLevelCall(name, evaluated) ELSE LibraryCall(name, evaluated)
=============================================================================
