----------------------------- MODULE CelNumbers -----------------------------
(***************************************************************************)
(* CEL's int and double, its timestamps and durations, and the conversions *)
(* between them, as the evaluator of the Chroma adapter computes them      *)
(* (langchain-chromadb/src/cel.ts). CEL's int is "int64", its double "num".*)
(*                                                                         *)
(* A number is the integer that is twice its value, so an odd one is a     *)
(* fraction. -0 and NaN are values of their own.                           *)
(***************************************************************************)
EXTENDS CelPlans

CONSTANTS
  Parse,           \* what each string reads as under each of Readings
  Rendered,        \* from this magnitude on, string() renders an int and a double apart
  DoubleMax        \* the largest finite double

Readings == {"num", "time", "dur"}

ASSUME NumbersAssumption ==
  /\ Int64Max \in Nat /\ Rendered \in Nat /\ DoubleMax \in Nat
  /\ Int64Max <= DoubleMax
  /\ DOMAIN Parse = Readings
  /\ \A reading \in Readings : \A n \in DOMAIN Parse[reading] : Parse[reading][n] \in Int

-----------------------------------------------------------------------------
(* Numbers *)

Num(v) == [t |-> "num", v |-> v]
Int64(v) == [t |-> "int64", v |-> v]
NaN == [t |-> "nan", v |-> 0]
NegativeZero == [t |-> "negzero", v |-> 0]
Infinity == Num(2 * DoubleMax + 1)

IsFraction(x) == x.t = "num" /\ x.v % 2 = 1
IsDouble(x) == x.t \in {"num", "nan", "negzero"}
IsFinite(x) == x.t # "nan" /\ x.v \in -(2 * DoubleMax) .. 2 * DoubleMax

\* A zero's sign shows only in a division and in string().
Unsigned(x) == IF x = NegativeZero THEN Num(0) ELSE x

\* What a JavaScript value keeps of a CEL one.
Erased(x) == IF x.t = "int64" THEN Num(x.v) ELSE Unsigned(x)

Abs(n) == IF n < 0 THEN -n ELSE n
Truncated(a, b) == IF (a < 0) # (b < 0) THEN -(Abs(a) \div Abs(b)) ELSE Abs(a) \div Abs(b)

\* celInt: outside int64 is CEL's overflow.
CelInt(n) == IF n \in -Int64Max .. Int64Max THEN Int64(2 * n) ELSE Err

\* intArithmetic, over the integers of two operands.
IntArithmetic(op, a, b) ==
  CASE op = "add" -> CelInt(a + b)
    [] op = "sub" -> CelInt(a - b)
    [] op = "div" -> IF b = 0 THEN Err ELSE CelInt(Truncated(a, b))
    [] OTHER -> IF b = 0 THEN Err ELSE CelInt(a - b * Truncated(a, b))

Double(v) ==
  IF v > 2 * DoubleMax THEN Infinity
  ELSE IF v < -(2 * DoubleMax) THEN Num(-Infinity.v) ELSE Num(v)

\* IEEE addition and division, a quotient rounded to the half.
DoubleSum(l, r) == IF Abs(l) = Infinity.v /\ r = -l THEN NaN ELSE Double(l + r)
DoubleQuotient(l, r, b) ==
  IF r = 0
  THEN IF l = 0 THEN NaN ELSE Num(IF (l < 0) # (b = NegativeZero) THEN -Infinity.v ELSE Infinity.v)
  ELSE IF Abs(l) = Infinity.v /\ Abs(r) = Infinity.v THEN NaN ELSE Double(2 * Truncated(l, r))

\* CEL has no remainder of doubles.
DoubleArithmetic(op, a, b) ==
  LET l == Unsigned(a).v
      r == Unsigned(b).v
  IN IF op = "mod" THEN Err
     ELSE IF NaN \in {a, b} THEN NaN
     ELSE CASE op = "add" -> DoubleSum(l, r)
            [] op = "sub" -> DoubleSum(l, -r)
            [] OTHER -> DoubleQuotient(l, r, b)

-----------------------------------------------------------------------------
(* CEL, with the types the policy had *)

\* temporalArithmetic: the overloads of cel-go over timestamps and durations.
TemporalType(op, l, r) ==
  CASE op = "add" /\ {l, r} = {"time", "dur"} -> "time"
    [] op = "sub" /\ l = "time" /\ r = "dur" -> "time"
    [] op \in {"add", "sub"} /\ l = "dur" /\ r = "dur" -> "dur"
    [] op = "sub" /\ l = "time" /\ r = "time" -> "dur"
    [] OTHER -> "none"

Temporal(op, l, r) ==
  [t |-> TemporalType(op, l.t, r.t), v |-> IF op = "add" THEN l.v + r.v ELSE l.v - r.v]

CelArithmetic(op, l, r) ==
  IF l.t = "int64" /\ r.t = "int64" THEN IntArithmetic(op, l.v \div 2, r.v \div 2)
  ELSE IF IsDouble(l) /\ IsDouble(r) THEN DoubleArithmetic(op, l, r)
  ELSE IF op = "add" /\ l.t = "str" /\ r.t = "str" THEN [t |-> "str", v |-> l.v + r.v]
  ELSE IF TemporalType(op, l.t, r.t) # "none" THEN Temporal(op, l, r)
  ELSE Err

\* Comparison: NaN equals nothing and orders with every number; times order with times.
Compare(op, a, b) ==
  LET l == Unsigned(a)
      r == Unsigned(b)
  IN IF Err \in {l, r} THEN Err
     ELSE IF NaN \in {l, r}
     THEN IF op \in Equalities THEN Bool(op = "ne")
          ELSE IF {l.t, r.t} \subseteq {"nan", "num", "int64"} THEN False ELSE Err
     ELSE IF op \in Orderings /\ l.t = r.t /\ l.t \in {"time", "dur"} THEN Bool(Ordered(op, l.v, r.v))
     ELSE CompareValues(op, l, r)

\* string() of an int, or of a double as Go renders it: an exponent at a large magnitude.
Rendering(type, v) ==
  [t |-> "str", v |-> 100 + v + (IF type = "num" /\ Abs(v) >= 2 * Rendered THEN 1000 ELSE 0)]

ParseAs(reading, x) ==
  IF x.v \in DOMAIN Parse[reading] THEN [t |-> reading, v |-> Parse[reading][x.v]] ELSE Err

CelConvert(op, x) ==
  CASE op = "string" ->
         CASE x.t = "str" -> x
           [] x.t = "bool" -> [t |-> "str", v |-> 50 + x.v]
           [] x.t \in {"int64", "num"} -> Rendering(x.t, x.v)
           [] x.t \in {"negzero", "nan"} -> [t |-> "str", v |-> IF x = NaN THEN 52 ELSE 53]
           [] x.t \in {"time", "dur"} -> [t |-> "str", v |-> 54 + x.v]
           [] OTHER -> Err
    [] op = "int" ->
         CASE x.t = "int64" -> x
           [] x.t \in {"num", "negzero"} -> CelInt(Truncated(x.v, 2))
           [] x.t = "str" -> LET n == ParseAs("num", x) IN
                             IF n = Err \/ IsFraction(n) THEN Err ELSE CelInt(n.v \div 2)
           [] x.t = "time" -> CelInt(x.v)
           [] OTHER -> Err
    [] op = "double" ->
         CASE IsDouble(x) -> x
           [] x.t = "int64" -> Num(x.v)
           [] x.t = "str" -> ParseAs("num", x)
           [] OTHER -> Err
    [] OTHER ->
         LET reading == IF op = "timestamp" THEN "time" ELSE "dur" IN
         CASE x.t = reading -> x
           [] x.t = "str" -> ParseAs(reading, x)
           [] x.t = "int64" /\ op = "timestamp" -> [t |-> "time", v |-> x.v]
           [] OTHER -> Err

ExistsOne(bodies) ==
  IF \E i \in DOMAIN bodies : AsBoolean(bodies[i]) = Err THEN Err
  ELSE Bool(Cardinality({i \in DOMAIN bodies : bodies[i] = True}) = 1)

\* A member of a literal, with the type the policy gave it: what is no int64 was no int.
Typed(hidden, x) ==
  IF x.t = "num" /\ ~IsFraction(x) /\ x.v \in -(2 * Int64Max) .. 2 * Int64Max
  THEN [x EXCEPT !.t = hidden] ELSE x

CelSize(x) == CASE x.t = "str" -> CelInt(x.v) [] IsCollection(x) -> CelInt(Cardinality(Members[x]))
                [] OTHER -> Err
=============================================================================
