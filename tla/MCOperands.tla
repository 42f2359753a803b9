----------------------------- MODULE MCOperands -----------------------------
EXTENDS Operands

Rec(fields, open) ==
  Struct([fields |-> fields, definitions |-> <<>>, is_closed |-> ~open, is_open |-> FALSE,
          spread_open |-> FALSE, incomplete |-> FALSE])

a == <<1>>
b == <<2>>
Choice == Disjunction(<<Branch(Integer(1), FALSE), Branch(Integer(2), FALSE)>>, <<>>)
Preferred == Disjunction(<<Branch(Integer(1), TRUE), Branch(Integer(2), FALSE)>>, <<>>)
Positive == Bounds("none", <<<<">", Integer(0)>>>>)

Scalars ==
  {Null, Bool(TRUE), Bool(FALSE), Integer(0), Integer(1), Integer(2), Integer(-1), Integer(-3), Integer(9),
   Float(1, 2), Float(-1, 2), Float(1, 1), String(<<>>), String(a), String(<<1, 2>>),
   Bytes(a), Bytes(<<200>>)}
Abstracts ==
  {Top, Type("int"), Type("number"), Type("string"), Type("bool"), Type("list"), Type("top"),
   Positive, RecursiveRef, Bottom("Unresolved"), Bottom("Incomplete"), Bottom("Conflict"),
   Choice, Preferred, Validator("MinItems"),
   Validator("MultipleOf")}
ListValues ==
  {Closed(<<>>), Closed(<<Integer(1)>>), Closed(<<Type("int")>>), Closed(<<Integer(2), Integer(1)>>),
   Closed(<<Float(1, 1)>>), List(<<Integer(1), Choice>>, TRUE), Closed(<<Closed(<<Integer(1)>>), Top>>)}
Structs ==
  {Rec(<<Entry(a, Integer(1), FALSE)>>, TRUE), Rec(<<Entry(a, Type("int"), FALSE)>>, FALSE),
   Rec(<<Entry(a, Integer(1), FALSE), Entry(b, Null, FALSE)>>, TRUE),
   Rec(<<Entry(b, Null, FALSE), Entry(a, Float(1, 1), FALSE)>>, TRUE),
   Rec(<<Entry(a, Type("int"), TRUE)>>, TRUE)}
Values == Scalars \cup Abstracts \cup ListValues \cup Structs

MCSupplied ==
  {Null, Bool(TRUE), Integer(0), Integer(2), Float(1, 2), String(a), String(<<1, 2>>), Bytes(a),
   Closed(<<Integer(1)>>), Closed(<<>>), Rec(<<Entry(a, Integer(1), FALSE)>>, TRUE)}

Application(operations, args) == [operations |-> operations, operands |-> args]
One == {<<v>> : v \in Values}
Two == {<<v, w>> : v \in Values, w \in Values}

Ends == {<<>>, Integer(0), Integer(1), Integer(2), Integer(-1), Integer(4), Type("int"), String(a),
         Preferred, Bottom("Unresolved")}
Sliced == {Closed(<<Integer(2), Integer(1), Type("int")>>), Type("list"), Preferred, Integer(1),
           Bottom("Unresolved")}
Elements == {Integer(2), Integer(1), Float(1, 1), Float(1, 2), String(a), Null, Type("int"),
             Closed(<<Integer(1), Choice>>), Bottom("Unresolved")}
ListsOf(elements, longest) ==
  {Closed(s) : s \in UNION {[1..k -> elements] : k \in 0..longest}} \cup {Type("list"), Top, Integer(1)}
Lists2 == ListsOf({Integer(2), Type("int"), Closed(<<Integer(1), Choice>>)}, 3)
Lists1 == ListsOf(Elements, 3)
ListFunctions ==
  {"MinItems", "UniqueItems", "Sort", "SortStrings", "IsSorted", "IsSortedStrings", "Reverse",
   "Compact", "Distinct", "Unzip", "Flatten", "Concat", "Sum", "Product", "Avg", "Min", "Max"}

MCApplications == <<
  Application({"binary"} \X BinaryOps, Two),
  Application({"unary"} \X {"+", "-", "!"}, One),
  Application({"bound"} \X {"<", "!=", "=~"}, One),
  Application({"bottom check"} \X EqualityOps \X BOOLEAN, One),
  Application({"select"} \X {"field"} \X {a}, One),
  Application({"index"} \X {FALSE}, Two),
  Application({<<"guard">>, <<"source">>, <<"label">>}, One),
  Application({"call"} \X DivisionNames, Two),
  Application({"call"} \X {"len", "or", "close", "error"}, One),
  Application({<<"interpolation">>}, Two),
  Application({<<"slice">>}, {<<l, v, w>> : l \in Sliced, v \in Ends, w \in Ends}),
  Application({"call"} \X {"Take", "Drop", "Chunk", "FlattenN", "Repeat", "Contains"},
              {<<l, v>> : l \in Lists2, v \in Ends \ {<<>>}}),
  Application({"call"} \X {"Slice"}, {<<l, v, w>> : l \in Sliced, v, w \in Ends \ {<<>>}}),
  Application({"call"} \X {"Range"}, {<<u, v, w>> : u, v, w \in Ends \ {<<>>}}),
  Application({"call"} \X {"Zip"}, {<<l, m>> : l, m \in Lists2}),
  Application({"call"} \X ListFunctions, {<<l>> : l \in Lists1})
>>
=============================================================================
