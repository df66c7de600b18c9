------------------------ MODULE MCConvexEvaluator ------------------------
(* Small instances of ConvexEvaluator. A number is twice its value: Num(1) is 0.5, Num(2) is 1. *)
EXTENDS ConvexEvaluator, TLC

Str(n) == [t |-> "str", v |-> n]
List(n) == [t |-> "list", v |-> n]

\* Every subset of a list is one, for filter() to return.
MCMembers ==
  (List(0) :> {}) @@ (List(1) :> {Num(0), Num(3)}) @@ (List(2) :> {Num(0)}) @@ (List(3) :> {Num(3)})
    @@ (List(4) :> {Num(2), Null}) @@ (List(5) :> {Num(2)}) @@ (List(6) :> {Null})

\* One string reads as an integer, one as a fraction; two as times or durations.
MCParse ==
  [num |-> (1 :> 2) @@ (2 :> 3), time |-> (1 :> 1), dur |-> (1 :> 1) @@ (2 :> 2)]

FewDocValues == {Undefined, Null, Num(0), NegativeZero, Num(3), Num(-2), Str(1), True, List(1), List(4)}
FewLiterals == {Null, Num(0), Num(2), Num(1), Str(1), True, List(1), List(4)}
MostOperators == AllOperators \ {"le", "gt", "startsWith"}
=============================================================================
