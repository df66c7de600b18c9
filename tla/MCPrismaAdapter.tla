-------------------------- MODULE MCPrismaAdapter --------------------------
(* Small instances of PrismaAdapter. A number is twice its value: Num(-1) is -0.5, Num(2) is 1. *)
EXTENDS PrismaAdapter, TLC

Num(n) == [t |-> "num", v |-> n]
Str(n) == [t |-> "str", v |-> n]
List(n) == [t |-> "list", v |-> n]

MCMembers ==
  (List(0) :> {}) @@ (List(1) :> {Str(1)}) @@ (List(2) :> {Str(1), Null}) @@ (List(3) :> {Str(1), Num(-1)})
    @@ (List(4) :> {Num(2), Num(-1)}) @@ (List(5) :> {Num(-1)}) @@ (List(6) :> {Null})

FewCells == {Null, Num(-2), Num(0), Num(2), Str(0), Str(1), True, False}
Near(type, nulls) ==
  [shape |-> "scalar", hop |-> "none", type |-> type, declared |-> TRUE, required |-> FALSE, nulls |-> nulls,
   binding |-> "floor"]
Through(hop, column) == [column EXCEPT !.hop = hop]
ListOfStrings(hop) == [Near("str", "undeclared") EXCEPT !.shape = "list", !.hop = hop]

FewRoot ==
  {[Near("int", "explicit") EXCEPT !.binding = "truncate"], Near("int", "omitted"),
   [Near("str", "undeclared") EXCEPT !.declared = FALSE], [Near("bool", "undeclared") EXCEPT !.required = TRUE],
   Through("one", Near("bool", "omitted")), Through("one", Near("str", "explicit")),
   Through("one", Near("bool", "explicit")), ListOfStrings("one"), ListOfStrings("many")}
FewRow ==
  {Near("bool", "omitted"), [Near("str", "explicit") EXCEPT !.shape = "element"],
   [Near("float", "undeclared") EXCEPT !.required = TRUE]}
FewLiterals == {Null, Num(2), Num(-1), Str(1), True} \union {List(n) : n \in 1 .. 5}
MostOperators == AllOperators \ {"gt", "le"}

\* Two columns of different types whose NULL is sent as null.
NullPair == {Near("int", "explicit"), Near("str", "explicit")}
=============================================================================
