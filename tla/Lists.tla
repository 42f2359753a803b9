------------------------------- MODULE Lists --------------------------------
(***************************************************************************)
(* The list package (call_list in stdlib/list.rs), over arguments whose    *)
(* defaults are chosen.  A function the arguments do not suit answers      *)
(* Failed; what that stands for is judged in Builtins.                     *)
(***************************************************************************)
EXTENDS Operators

CONSTANT MaxRepeatCount   \* the most elements list.Repeat makes

Failed == <<"failed">>
Closed(elements) == List(elements, FALSE)

IsList(args, i) == i \in DOMAIN args /\ Tag(args[i]) = "list"
IsInt(args, i) == i \in DOMAIN args /\ Tag(args[i]) = "int"

\* A count, as to_usize makes it, at most the length of the list.
Clamp(n, default, s) == IF n < 0 THEN default ELSE IF n > Len(s) THEN Len(s) ELSE n

Taken(s, n) == SubSeq(s, 1, n)
Dropped(s, n) == SubSeq(s, n + 1, Len(s))

ListTake(args) ==
  IF IsList(args, 1) /\ IsInt(args, 2)
  THEN List(Taken(args[1][2], Clamp(args[2][2], 0, args[1][2])), args[1][3])
  ELSE Failed

ListDrop(args) ==
  IF IsList(args, 1) /\ IsInt(args, 2)
  THEN List(Dropped(args[1][2], Clamp(args[2][2], 0, args[1][2])), args[1][3])
  ELSE Failed

\* Ends beyond the list stand for its ends, unlike those of a slice expression.
ListSlice(args) ==
  IF IsList(args, 1) /\ IsInt(args, 2) /\ IsInt(args, 3)
  THEN LET s == args[1][2]
           low == Clamp(args[2][2], 0, s)
           high == Clamp(args[3][2], Len(s), s)
       IN Closed(SubSeq(s, low + 1, high))
  ELSE Failed

\* An element that is not concrete does not contain the value.
ListContains(args) ==
  IF IsList(args, 1) /\ Len(args) >= 2
  THEN Bool(\E i \in DOMAIN args[1][2] : ElementEqual(args[1][2][i], args[2]) = Bool(TRUE))
  ELSE Failed

ListRange(args) ==
  IF IsInt(args, 1) /\ IsInt(args, 2) /\ IsInt(args, 3) /\ args[3][2] # 0
  THEN LET start == args[1][2]
           end == args[2][2]
           step == args[3][2]
           count == IF step > 0 THEN (end - start + step - 1) \div step
                    ELSE (start - end - step - 1) \div (-step)
       IN Closed([i \in 1..(IF count > 0 THEN count ELSE 0) |-> Integer(start + (i - 1) * step)])
  ELSE Failed

-----------------------------------------------------------------------------
(* Sorting.  The standard library sorts twenty elements or fewer by        *)
(* insertion; elements of two kinds compare as equal.                      *)

CompareElements(kinds, a, b) ==
  IF Tag(a) # Tag(b) \/ Tag(a) \notin kinds THEN 0
  ELSE CASE Tag(a) = "int" -> Order(a[2], b[2])
         [] Tag(a) = "float" -> Order(a[2] * b[3], b[2] * a[3])
         [] Tag(a) = "string" -> LexOrder(a[2], b[2])

\* An element moves left for as long as its neighbour there is greater.
InsertElement(kinds, sorted, x) ==
  LET stops == {0} \cup {i \in DOMAIN sorted : CompareElements(kinds, sorted[i], x) # 1}
      after == Max(stops)
  IN Taken(sorted, after) \o <<x>> \o Dropped(sorted, after)

SortBy(kinds, args) ==
  IF IsList(args, 1)
  THEN List(FoldLeft(LAMBDA sorted, x : InsertElement(kinds, sorted, x), <<>>, args[1][2]),
            args[1][3])
  ELSE Failed

IsSortedBy(kinds, args) ==
  IF IsList(args, 1)
  THEN LET s == args[1][2]
       IN Bool(\A i \in 1..(Len(s) - 1) : CompareElements(kinds, s[i], s[i + 1]) # 1)
  ELSE Failed

Comparable == {"int", "float", "string"}
ListSort(args) == SortBy(Comparable, args)
ListSortStrings(args) == SortBy({"string"}, args)
ListIsSorted(args) == IsSortedBy(Comparable, args)
ListIsSortedStrings(args) == IsSortedBy({"string"}, args)

-----------------------------------------------------------------------------
(* Rearranging *)

ListReverse(args) == IF IsList(args, 1) THEN List(Reverse(args[1][2]), args[1][3]) ELSE Failed

ListCompact(args) ==
  IF IsList(args, 1)
  THEN List(SelectSeq(args[1][2], LAMBDA e : Tag(e) \notin {"null", "bottom"}), args[1][3])
  ELSE Failed

\* Mutant: the last chunk is dropped when it is short.
ListChunkWhole(args) ==
  IF IsList(args, 1) /\ IsInt(args, 2) /\ args[2][2] > 0
  THEN LET s == args[1][2]
           size == args[2][2]
       IN Closed([k \in 1..(Len(s) \div size) |-> Closed(SubSeq(s, (k - 1) * size + 1, k * size))])
  ELSE Failed

ListChunk(args) ==
  IF IsList(args, 1) /\ IsInt(args, 2) /\ args[2][2] > 0
  THEN LET s == args[1][2]
           size == args[2][2]
           chunk(k) == SubSeq(s, (k - 1) * size + 1, IF k * size < Len(s) THEN k * size ELSE Len(s))
       IN Closed([k \in 1..((Len(s) + size - 1) \div size) |-> Closed(chunk(k))])
  ELSE Failed

\* Numbers, strings and booleans are told apart by what they are, anything else
\* by its node: two equal ones are kept.
ListDistinct(args) ==
  IF IsList(args, 1)
  THEN LET s == args[1][2]
           repeated(i) == /\ Tag(s[i]) \in {"int", "float", "string", "bool"}
                          /\ \E j \in 1..(i - 1) : s[j] = s[i]
           kept == SelectSeq([i \in DOMAIN s |-> i], LAMBDA i : ~repeated(i))
       IN List([k \in DOMAIN kept |-> s[kept[k]]], args[1][3])
  ELSE Failed

ListZip(args) ==
  IF IsList(args, 1) /\ IsList(args, 2)
  THEN LET a == args[1][2]
           b == args[2][2]
       IN Closed([i \in DOMAIN a \cap DOMAIN b |-> Closed(<<a[i], b[i]>>)])
  ELSE Failed

ListUnzip(args) ==
  IF IsList(args, 1)
  THEN LET pairs == SelectSeq(args[1][2], LAMBDA e : Tag(e) = "list" /\ Len(e[2]) >= 2)
           side(k) == Closed([i \in DOMAIN pairs |-> pairs[i][2][k]])
       IN Closed(<<side(1), side(2)>>)
  ELSE Failed

RECURSIVE FlattenList(_, _)
FlattenList(s, depth) ==
  FlattenSeq([i \in DOMAIN s |->
    IF depth > 0 /\ Tag(s[i]) = "list" THEN FlattenList(s[i][2], depth - 1) ELSE <<s[i]>>])

ListFlattenN(args) ==
  IF IsList(args, 1) /\ IsInt(args, 2)
  THEN Closed(FlattenList(args[1][2], IF args[2][2] < 0 THEN 1 ELSE args[2][2]))
  ELSE Failed

ListFlatten(args) == IF IsList(args, 1) THEN Closed(FlattenList(args[1][2], 100)) ELSE Failed

\* The first element that is not a list decides: a bottom is the result, one
\* that may become a list leaves the call incomplete.
ListConcat(args) ==
  IF ~IsList(args, 1) THEN Failed
  ELSE LET s == args[1][2]
           other == SelectSeq(s, LAMBDA e : Tag(e) # "list")
       IN IF other = <<>> THEN Closed(FlattenSeq([i \in DOMAIN s |-> s[i][2]]))
          ELSE IF IsBottom(other[1]) THEN other[1]
          ELSE IF Concrete(other[1])[1] \in {"Pending", "Incomplete"} THEN Bottom("Incomplete")
          ELSE Failed

ListRepeat(args) ==
  IF IsList(args, 1) /\ IsInt(args, 2) /\ args[2][2] >= 0
     /\ args[2][2] * Len(args[1][2]) <= MaxRepeatCount
  THEN Closed(Repeated(args[1][2], args[2][2])) ELSE Failed

-----------------------------------------------------------------------------
(* Numbers *)

IsNumber(v) == Tag(v) \in {"int", "float"}
Numbers(args) == IsList(args, 1) /\ \A i \in DOMAIN args[1][2] : IsNumber(args[1][2][i])

\* Sums are not checked against the range of an f64: one beyond it is infinite,
\* which the next operator that reads it reports.
AddNumbers(a, b) ==
  IF Tag(a) = "int" /\ Tag(b) = "int" THEN Integer(a[2] + b[2])
  ELSE LET x == FloatOf(a) y == FloatOf(b) IN Float(x[2] * y[3] + y[2] * x[3], x[3] * y[3])
MultiplyNumbers(a, b) ==
  IF Tag(a) = "int" /\ Tag(b) = "int" THEN Integer(a[2] * b[2])
  ELSE LET x == FloatOf(a) y == FloatOf(b) IN Float(x[2] * y[2], x[3] * y[3])

\* One float makes the result a float.
ListSum(args) ==
  IF Numbers(args) THEN FoldLeft(AddNumbers, Integer(0), args[1][2]) ELSE Failed
ListProduct(args) ==
  IF Numbers(args) THEN FoldLeft(MultiplyNumbers, Integer(1), args[1][2]) ELSE Failed

ListAvg(args) ==
  IF ~Numbers(args) THEN Failed
  ELSE IF args[1][2] = <<>> THEN Float(0, 1)
  ELSE LET total == FloatOf(FoldLeft(AddNumbers, Integer(0), args[1][2]))
       IN Float(total[2], total[3] * Len(args[1][2]))

\* The first element, or a later one of the same kind that is on this side of
\* all that were kept before.
Extreme(args, side) ==
  IF ~IsList(args, 1) THEN Failed
  ELSE IF args[1][2] = <<>> THEN Bottom("Other")
  ELSE FoldLeft(LAMBDA kept, x : IF CompareElements({"int", "float"}, x, kept) = side THEN x ELSE kept,
                Head(args[1][2]), Tail(args[1][2]))
ListMin(args) == Extreme(args, -1)
ListMax(args) == Extreme(args, 1)

\* MinItems and MaxItems make a validator of their count.
ListItems(name, args) == IF IsInt(args, 1) /\ args[1][2] >= 0 THEN Validator(name) ELSE Failed

-----------------------------------------------------------------------------
CallList(name, args) ==
  CASE name = "MinItems" -> ListItems(name, args) [] name = "MaxItems" -> ListItems(name, args)
    [] name = "UniqueItems" -> Validator(name) [] name = "MatchN" -> Validator(name)
    [] name = "Contains" -> ListContains(args) [] name = "Range" -> ListRange(args)
    [] name = "Take" -> ListTake(args) [] name = "Drop" -> ListDrop(args)
    [] name = "Sort" -> ListSort(args) [] name = "SortStrings" -> ListSortStrings(args)
    [] name = "IsSorted" -> ListIsSorted(args)
    [] name = "IsSortedStrings" -> ListIsSortedStrings(args)
    [] name = "Reverse" -> ListReverse(args) [] name = "Compact" -> ListCompact(args)
    [] name = "Chunk" -> ListChunk(args) [] name = "Distinct" -> ListDistinct(args)
    [] name = "Zip" -> ListZip(args) [] name = "Unzip" -> ListUnzip(args)
    [] name = "FlattenN" -> ListFlattenN(args) [] name = "Flatten" -> ListFlatten(args)
    [] name = "Concat" -> ListConcat(args) [] name = "Repeat" -> ListRepeat(args)
    [] name = "Slice" -> ListSlice(args) [] name = "Sum" -> ListSum(args)
    [] name = "Product" -> ListProduct(args) [] name = "Avg" -> ListAvg(args)
    [] name = "Min" -> ListMin(args) [] name = "Max" -> ListMax(args)
=============================================================================
