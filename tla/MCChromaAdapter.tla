-------------------------- MODULE MCChromaAdapter --------------------------
(* Small instances of ChromaAdapter. A number is twice its value: Num(1) is 0.5, Num(2) is 1. *)
EXTENDS ChromaAdapter, TLC

Str(n) == [t |-> "str", v |-> n]
List(n) == [t |-> "list", v |-> n]

MCMembers ==
  (List(0) :> {}) @@ (List(1) :> {Num(2), Num(0)}) @@ (List(2) :> {Str(1), Num(1)})

\* "" reads as nothing; one string reads as a number, one as NaN, two as times or durations.
MCParse ==
  [num |-> (1 :> 2) @@ (2 :> 3), time |-> (1 :> 1), dur |-> (1 :> 1) @@ (2 :> 2)]

FewMetadata == {Undefined, Num(0), Num(3), Str(1), True}
Plain(required, numericType) ==
  [mapped |-> TRUE, required |-> required, numericType |-> numericType, boolean |-> FALSE]
FewDeclarations ==
  {NotMapped, Plain(FALSE, "none"), Plain(TRUE, "none"), Plain(FALSE, "integer"), Plain(TRUE, "float"),
   [Plain(FALSE, "none") EXCEPT !.boolean = TRUE]}
FewLiterals == {Num(0), Num(2), Num(1), Num(8), Str(0), Str(1), True, Null, List(1), List(2)}
MostOperators == AllOperators \ {"le", "gt"}
=============================================================================
