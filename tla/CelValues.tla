----------------------------- MODULE CelValues -----------------------------
(***************************************************************************)
(* The values a query plan is evaluated over, seen by the two engines that *)
(* may answer it: CEL as convex/src/cel.ts computes it, and Convex's       *)
(* filter engine, whose order over values the comments of pushdown.ts and  *)
(* the interpreter in translator.test.ts describe.                         *)
(*                                                                         *)
(* A value is a type tag and an integer that orders it within its type:    *)
(* the two booleans are 0 and 1, the empty string and the empty buffer are *)
(* 0, a list or a map is named by its integer and Members gives its        *)
(* contents (list elements without repetition, map keys).                  *)
(***************************************************************************)
EXTENDS Integers, FiniteSets

CONSTANTS
  Members,      \* what each list holds, and the keys of each map
  Int64Max      \* the largest int64, a bound on that type's integers

Scalars == {"null", "int64", "num", "bool", "str"}
Types == Scalars \union {"undefined", "bytes", "list", "map", "error"}

WellFormed(x) ==
  /\ x.t \in {"undefined", "null", "error"} => x.v = 0
  /\ x.t = "bool" => x.v \in {0, 1}
  /\ x.t \in {"str", "bytes"} => x.v >= 0
  /\ x.t = "int64" => x.v <= Int64Max
  /\ x.t \in {"list", "map"} => x \in DOMAIN Members

Value == {x \in [t : Types, v : Int] : WellFormed(x)}

\* What CEL computes with: an absent path never gets this far.
CelValue == {x \in Value : x.t # "undefined"}

True == [t |-> "bool", v |-> 1]
False == [t |-> "bool", v |-> 0]
Bool(b) == IF b THEN True ELSE False
Null == [t |-> "null", v |-> 0]
Undefined == [t |-> "undefined", v |-> 0]   \* an absent document path
Err == [t |-> "error", v |-> 0]             \* EVALUATION_ERROR

\* Contents are plain scalars: a list of lists adds nothing the adapter's routing tells apart.
ASSUME MembersAssumption ==
  \A x \in DOMAIN Members :
    /\ x \in [t : {"list", "map"}, v : Int]
    /\ IsFiniteSet(Members[x])
    /\ \A m \in Members[x] : m \in Value /\ m.t \in Scalars
ASSUME Int64MaxAssumption == Int64Max \in Int

-----------------------------------------------------------------------------
(* CEL *)

AsBoolean(x) == IF x.t = "bool" THEN x ELSE Err

IsNumeric(x) == x.t \in {"num", "int64"}

ValuesEqual(l, r) == IF IsNumeric(l) /\ IsNumeric(r) THEN l.v = r.v ELSE l = r

Equalities == {"eq", "ne"}
Orderings == {"lt", "le", "gt", "ge"}
Comparisons == Equalities \union Orderings

\* What an ordering says of two integers.
Ordered(op, a, b) ==
  \/ op = "lt" /\ a < b
  \/ op = "le" /\ a <= b
  \/ op = "gt" /\ a > b
  \/ op = "ge" /\ a >= b

SameOrderedType(l, r) ==
  \/ l.t = "str" /\ r.t = "str"
  \/ l.t = "bool" /\ r.t = "bool"
  \/ IsNumeric(l) /\ IsNumeric(r)

\* Equality across types is false and never an error; an ordering across types is an error.
CompareValues(op, l, r) ==
  IF Err \in {l, r} THEN Err
  ELSE CASE op = "eq" -> Bool(ValuesEqual(l, r))
         [] op = "ne" -> Bool(~ValuesEqual(l, r))
         [] OTHER -> IF SameOrderedType(l, r) THEN Bool(Ordered(op, l.v, r.v)) ELSE Err

\* CEL's && and ||: a deciding operand wins over an error in any position.
Junction(decisive, vals) ==
  IF \E x \in vals : AsBoolean(x) = Bool(decisive) THEN Bool(decisive)
  ELSE IF \E x \in vals : AsBoolean(x) = Err THEN Err
  ELSE Bool(~decisive)

Not(x) == IF AsBoolean(x) = Err THEN Err ELSE Bool(x # True)

IsCollection(x) == x.t \in {"list", "map"}

In(needle, haystack) ==
  IF needle = Err \/ ~IsCollection(haystack) THEN Err
  ELSE Bool(\E m \in Members[haystack] : ValuesEqual(m, needle))

-----------------------------------------------------------------------------
(* Convex's filter engine: one total order over all values, types first *)

Rank(type) ==
  CASE type = "undefined" -> 0
    [] type = "null"      -> 1
    [] type = "int64"     -> 2
    [] type = "num"       -> 3
    [] type = "bool"      -> 4
    [] type = "str"       -> 5
    [] type = "bytes"     -> 6
    [] type = "list"      -> 7
    [] type = "map"       -> 8
    [] OTHER              -> 9

EngineLess(a, b) ==
  \/ Rank(a.t) < Rank(b.t)
  \/ Rank(a.t) = Rank(b.t) /\ a.v < b.v

EngineCompare(op, a, b) ==
  \/ op = "eq" /\ a = b
  \/ op = "ne" /\ a # b
  \/ op = "lt" /\ EngineLess(a, b)
  \/ op = "le" /\ ~EngineLess(b, a)
  \/ op = "gt" /\ EngineLess(b, a)
  \/ op = "ge" /\ ~EngineLess(a, b)
=============================================================================
