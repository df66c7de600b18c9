-------------------------- MODULE MCDrizzleAdapter --------------------------
(* Small instances of DrizzleAdapter. A number is twice its value: Num(1) is 0.5, Num(2) is 1. *)
EXTENDS DrizzleAdapter, TLC

Str(n) == [t |-> "str", v |-> n]
List(n) == [t |-> "list", v |-> n]

MCMembers ==
  (List(0) :> {}) @@ (List(1) :> {Str(1), Str(2)}) @@ (List(2) :> {Str(1), Null})

\* One string reads as an integer, one as a fraction; 98 is the spelling of -1.
MCParse == [num |-> (1 :> 2) @@ (2 :> 3), time |-> <<>>, dur |-> <<>>]

FewCells == {Null, Num(0), Num(3), Num(-2), Str(1), Str(2), True, False}
Near(shape, type, nulls) == [shape |-> shape, type |-> type, nulls |-> nulls, far |-> FALSE]
FewEntries ==
  {Near("field", "str", "undeclared"), Near("field", "str", "explicit"), Near("field", "num", "undeclared"),
   Near("field", "int", "omitted"), Near("one", "bool", "omitted"), Near("list", "str", "undeclared"),
   [Near("many", "bool", "omitted") EXCEPT !.far = TRUE]}
FewLiterals == {Null, NegativeZero, Num(2), Str(1), Str(98), True, List(1), List(2)}
MostOperators == AllOperators \ {"gt", "ge", "le", "sub", "matches"}

JustFalse == {False}

\* The attributes are not ordered: what reads one first is the same as what reads the other first.
TwoRefs == Permutations(Refs)
=============================================================================
