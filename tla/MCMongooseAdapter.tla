------------------------- MODULE MCMongooseAdapter -------------------------
(* Small instances of MongooseAdapter: five references of the five shapes, values of two types. *)
EXTENDS MongooseAdapter, TLC

Num(n) == [t |-> "num", v |-> n]
Str(n) == [t |-> "str", v |-> n]
List(n) == [t |-> "list", v |-> n]

MCMembers ==
  (List(0) :> {}) @@ (List(1) :> {Num(1)}) @@ (List(2) :> {Null}) @@ (List(3) :> {Num(1), Null})

FiveShapes ==
  [s |-> "field", p |-> "one", l |-> "list", m |-> "many", e |-> "element"]

FewScalars == {Undefined, Null, Num(1), True}
FewLists == {Undefined, Null, List(0), List(1), List(3)}
FewLiterals == {Null, Num(1), Str(1), List(0), List(3)}
MostOperators == AllOperators \ {"le", "gt", "matches"}
=============================================================================
