-------------------------- MODULE MCConvexAdapter --------------------------
(***************************************************************************)
(* Instances of ConvexAdapter for TLC: the values a document may hold, the *)
(* constants of a plan and the operators each run explores.                *)
(***************************************************************************)
EXTENDS ConvexAdapter

Num(n) == [t |-> "num", v |-> n]
Str(n) == [t |-> "str", v |-> n]
EmptyList == [t |-> "list", v |-> 0]
MixedList == [t |-> "list", v |-> 1]
NullList == [t |-> "list", v |-> 2]
AMap == [t |-> "map", v |-> 0]

MCMembers ==
  [x \in {EmptyList, MixedList, NullList, AMap} |->
    CASE x = EmptyList -> {}
      [] x = MixedList -> {Num(1), Str(1)}
      [] x = NullList -> {Null, True}
      [] OTHER -> {Str(0)}]

\* One value of every type a JSON attribute takes, two where order within the type matters.
EveryType == {Undefined, Null, Num(0), Num(1), True, False, Str(0), MixedList}

\* Next to these a document holds a number as large or larger, and a smaller string.
EveryLiteral == {Null, Num(0), True, Str(1), MixedList, NullList}
=============================================================================
