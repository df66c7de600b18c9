----------------------- MODULE MCElasticsearchAdapter -----------------------
(***************************************************************************)
(* Instances of ElasticsearchAdapter for TLC: what an attribute may hold,  *)
(* what Options may say of it, and the constants of a plan.                *)
(***************************************************************************)
EXTENDS ElasticsearchAdapter

Num(n) == [t |-> "num", v |-> n]
Str(n) == [t |-> "str", v |-> n]
List(n) == [t |-> "list", v |-> n]
AMap == [t |-> "map", v |-> 0]

\* Flat arrays by their members; the lists from 10 on are nested arrays, described by MCObjects.
MCMembers ==
  [x \in {List(n) : n \in 0 .. 4 \union 10 .. 13} \union {AMap} |->
    CASE x = List(1) -> {Num(0), Num(1)}
      [] x = List(2) -> {Num(0), Null}
      [] x = List(3) -> {Null}
      [] x = List(4) -> {Num(1), Str(1)}
      [] x = AMap -> {Str(1)}
      [] OTHER -> {}]

\* No element, one, two that differ, and one beside an element that lacks the sub-field or holds null.
MCObjects ==
  [x \in {List(n) : n \in 10 .. 13} |->
    CASE x = List(10) -> {}
      [] x = List(11) -> {Num(0), Num(1)}
      [] x = List(12) -> {Num(1), Undefined}
      [] OTHER -> {Num(0), Null}]

EveryValue ==
  {Undefined, Null, Num(0), Num(1), True, False, Str(0), Str(1), AMap}
    \union {List(n) : n \in 0 .. 3 \union 10 .. 13}

Declared(type, shape) ==
  [mapped |-> TRUE, type |-> type, shape |-> shape, explicitNull |-> FALSE]

EveryDeclaration ==
  {Declared(type, "plain") : type \in {"num", "str", "bool", "undeclared"}}
    \union {Declared("num", shape) : shape \in {"collection", "nested"}}
    \union {Declared("undeclared", shape) : shape \in {"collection", "nested", "object"}}
    \union {[Declared(type, "plain") EXCEPT !.explicitNull = TRUE] : type \in {"num", "bool"}}
    \union {[Declared("num", shape) EXCEPT !.mapped = FALSE] : shape \in {"plain", "nested"}}

EveryLiteral == {Null, Num(0), Num(1), True, Str(1), List(2), List(4), AMap}

\* {0: 0, 1: 1} and {0: "", "a": 0}.
MCLookups ==
  {[k \in {Num(0), Num(1)} |-> k], [k \in {Num(0), Str(1)} |-> IF k = Num(0) THEN Str(0) ELSE Num(0)]}
=============================================================================
