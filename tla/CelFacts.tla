------------------------------- MODULE CelFacts -------------------------------
(***************************************************************************)
(* What TLAPS proves of CEL itself (CelValues, CelPlans, CelNumbers and    *)
(* CelTypes), for the proofs of the two adapters that evaluate conditions: *)
(* what each operator returns, and that the types a plan drops have no     *)
(* bearing on it, or which they have.                                      *)
(***************************************************************************)
EXTENDS CelTypes, FiniteSetTheorems, SequenceTheorems, TLAPS

-----------------------------------------------------------------------------
(* What a condition computes with *)

KnownTypes == {"null", "int64", "num", "nan", "negzero", "bool", "str", "list", "time", "dur", "error"}

\* A list a document or a plan may hold: neither tells an int from a double.
PlainList(x) == x \in DOMAIN Members /\ \A m \in Members[x] : m.t # "int64"

\* A value a plan's expression may take.
Good(x) ==
  /\ x \in [t : KnownTypes, v : Int]
  /\ x.t \in {"null", "error", "nan", "negzero"} => x.v = 0
  /\ x.t = "bool" => x.v \in {0, 1}
  /\ x.t = "list" => PlainList(x)
  /\ x.t = "int64" => x.v % 2 = 0 /\ x.v \in -(2 * Int64Max) .. 2 * Int64Max

\* What the type-checker says of an expression holds of its value.
CheckerTypes == {"dyn", "int", "double", "null", "bool", "str", "list", "time", "dur"}
CheckerSays(type, x) ==
  x.t = "error" \/ type = "dyn" \/ type = LiteralType(x) \/ (type = "double" /\ x.t = "nan")

Tri == {True, False, Err}

LEMMA Constants ==
  /\ True # False /\ True # Err /\ False # Err /\ Null # Err /\ Undefined # Err /\ NaN # Err /\ NaN # NegativeZero
  /\ NegativeZero # Err /\ Bool(TRUE) = True /\ Bool(FALSE) = False
  /\ True.t = "bool" /\ False.t = "bool" /\ Err.t = "error" /\ Null.t = "null" /\ Undefined.t = "undefined"
  /\ NaN.t = "nan" /\ NegativeZero.t = "negzero" /\ NegativeZero.v = 0
  /\ True.v = 1 /\ False.v = 0 /\ Err.v = 0
BY DEF True, False, Err, Null, Undefined, NaN, NegativeZero, Bool

LEMMA BoolIs == ASSUME NEW P PROVE (Bool(P) = True <=> P) /\ (Bool(P) = False <=> ~P) /\ Bool(P) \in Tri /\ Bool(P) # Err
BY Constants DEF Bool, Tri

LEMMA Numbers == Int64Max \in Nat /\ DoubleMax \in Nat /\ Rendered \in Nat /\ Int64Max <= DoubleMax
BY NumbersAssumption

\* The special values, by their tags.
LEMMA GoodIs ==
  ASSUME NEW x, Good(x)
  PROVE  /\ x.v \in Int /\ x.t \in KnownTypes
         /\ x = Err <=> x.t = "error"
         /\ x = NaN <=> x.t = "nan"
         /\ x = NegativeZero <=> x.t = "negzero"
         /\ x = Null <=> x.t = "null"
         /\ x.t = "bool" <=> x \in {True, False}
         /\ x \in [t : KnownTypes, v : Int]
<1>1. x \in [t : KnownTypes, v : Int]
  BY DEF Good
<1>2. x.t = "error" => x = Err
  BY <1>1 DEF Good, Err
<1>3. x.t = "nan" => x = NaN
  BY <1>1 DEF Good, NaN
<1>4. x.t = "negzero" => x = NegativeZero
  BY <1>1 DEF Good, NegativeZero
<1>5. x.t = "null" => x = Null
  BY <1>1 DEF Good, Null
<1>6. x.t = "bool" => x \in {True, False}
  BY <1>1 DEF Good, True, False
<1>7. x.v \in Int /\ x.t \in KnownTypes
  BY <1>1
<1> QED BY <1>1, <1>2, <1>3, <1>4, <1>5, <1>6, <1>7, Constants

LEMMA GoodOf ==
  ASSUME NEW type \in {"num", "str", "time", "dur"}, NEW n \in Int
  PROVE  Good([t |-> type, v |-> n])
BY DEF Good, KnownTypes

LEMMA GoodNum == ASSUME NEW n \in Int PROVE Good(Num(n)) /\ Num(n).t = "num" /\ Num(n).v = n
BY GoodOf DEF Num

LEMMA GoodTri == \A x \in Tri : Good(x) /\ x.t \in {"bool", "error"} /\ x.t # "int64"
BY DEF Tri, True, False, Err, Good, KnownTypes

LEMMA GoodSpecials == Good(Null) /\ Good(NaN) /\ Good(NegativeZero) /\ Good(Err)
BY DEF Null, NaN, NegativeZero, Err, Good, KnownTypes

LEMMA InfinityIs == Infinity.v \in Int /\ -Infinity.v \in Int /\ Infinity = Num(Infinity.v)
BY Numbers DEF Infinity, Num

LEMMA ErasedIs ==
  ASSUME NEW x, Good(x)
  PROVE  LET y == Erased(x) IN
         /\ Good(y) /\ y.t \notin {"int64", "negzero"} /\ y.v = x.v
         /\ x.t \notin {"int64", "negzero"} => y = x
         /\ y.t = IF x.t \in {"int64", "negzero"} THEN "num" ELSE x.t
         /\ IsNumeric(Unsigned(x)) <=> y.t = "num"
         /\ x.t \in {"int64", "negzero"} => y = Num(x.v)
         /\ Erased(y) = y /\ Unsigned(y) = y
<1>1. CASE x.t = "int64"
  BY <1>1, GoodIs, GoodNum, Constants DEF Erased, Unsigned, IsNumeric, Num
<1>2. CASE x.t = "negzero"
  BY <1>2, GoodIs, GoodNum, Constants DEF Erased, Unsigned, IsNumeric, Num
<1>3. CASE x.t \notin {"int64", "negzero"}
  BY <1>3, GoodIs, Constants DEF Erased, Unsigned, IsNumeric
<1> QED BY <1>1, <1>2, <1>3

LEMMA UnsignedIs ==
  ASSUME NEW x, Good(x)
  PROVE  LET y == Unsigned(x) IN
         /\ Good(y) /\ y.t # "negzero" /\ y.v = x.v /\ Erased(y) = Erased(x) /\ Unsigned(Erased(x)) = Erased(x)
         /\ y.t = IF x.t = "negzero" THEN "num" ELSE x.t
         /\ (y = Err <=> x = Err) /\ (y = NaN <=> x = NaN)
         /\ x.t # "negzero" => y = x
BY GoodIs, GoodNum, GoodSpecials, Constants, ErasedIs DEF Unsigned, Erased, Num

-----------------------------------------------------------------------------
(* Numbers *)

LEMMA AbsIs == \A n \in Int : Abs(n) \in Nat /\ (Abs(n) = 0 <=> n = 0) /\ (n < 0 => Abs(n) = -n) /\ (n >= 0 => Abs(n) = n)
BY DEF Abs

LEMMA TruncatedIs == ASSUME NEW a \in Int, NEW b \in Int, b # 0 PROVE Truncated(a, b) \in Int
<1>1. PICK m, n : m = Abs(a) /\ n = Abs(b)
  OBVIOUS
<1>2. m \in Nat /\ n \in Nat /\ n > 0
  BY <1>1, AbsIs
<1>3. m \div n \in Int
  BY <1>2
<1>4. Truncated(a, b) = IF (a < 0) # (b < 0) THEN -(m \div n) ELSE m \div n
  BY <1>1 DEF Truncated
<1> QED BY <1>3, <1>4

LEMMA HalvedIs == ASSUME NEW n \in Int, n % 2 = 0 PROVE Truncated(n, 2) = n \div 2 /\ 2 * (n \div 2) = n /\ n \div 2 \in Int
<1>1. Truncated(n, 2) = IF n < 0 THEN -((-n) \div 2) ELSE n \div 2
  BY DEF Truncated, Abs
<1>2. 2 * (n \div 2) = n /\ n \div 2 \in Int
  OBVIOUS
<1>3. n < 0 => -((-n) \div 2) = n \div 2
  OBVIOUS
<1> QED BY <1>1, <1>2, <1>3

LEMMA CelIntIs ==
  ASSUME NEW n \in Int
  PROVE  /\ Good(CelInt(n)) /\ CelInt(n).t \in {"int64", "error"}
         /\ n \in -Int64Max .. Int64Max => CelInt(n) = Int64(2 * n)
<1>1. CASE n \in -Int64Max .. Int64Max
  <2>1. CelInt(n) = [t |-> "int64", v |-> 2 * n]
    BY <1>1 DEF CelInt, Int64
  <2>2. (2 * n) % 2 = 0 /\ 2 * n \in -(2 * Int64Max) .. 2 * Int64Max
    BY <1>1, Numbers
  <2> QED BY <2>1, <2>2 DEF Good, KnownTypes, Int64
<1>2. CASE n \notin -Int64Max .. Int64Max
  BY <1>2, GoodSpecials, Constants DEF CelInt
<1> QED BY <1>1, <1>2

LEMMA IntArithmeticIs ==
  ASSUME NEW op, NEW a \in Int, NEW b \in Int
  PROVE  Good(IntArithmetic(op, a, b)) /\ IntArithmetic(op, a, b).t \in {"int64", "error"}
<1>1. a + b \in Int /\ a - b \in Int
  OBVIOUS
<1>2. CASE b = 0
  BY <1>1, <1>2, CelIntIs, GoodSpecials, Constants DEF IntArithmetic
<1>3. CASE b # 0
  <2>1. PICK c : c = Truncated(a, b)
    OBVIOUS
  <2>2. c \in Int
    BY <1>3, <2>1, TruncatedIs
  <2>3. a - b * c \in Int
    BY <2>2
  <2> QED BY <1>1, <1>3, <2>1, <2>2, <2>3, CelIntIs DEF IntArithmetic
<1> QED BY <1>2, <1>3

\* A double answer: a number, NaN or an error.
DoubleAnswer(x) == Good(x) /\ x.t \in {"num", "nan", "error"}

LEMMA DoubleIs == ASSUME NEW n \in Int PROVE DoubleAnswer(Double(n))
<1>1. Double(n) \in {Infinity, Num(-Infinity.v), Num(n)}
  BY DEF Double
<1> QED BY <1>1, InfinityIs, GoodNum DEF DoubleAnswer

LEMMA SumIs == ASSUME NEW l \in Int, NEW r \in Int PROVE DoubleAnswer(DoubleSum(l, r))
<1>1. l + r \in Int
  OBVIOUS
<1> QED BY <1>1, DoubleIs, GoodSpecials, Constants DEF DoubleSum, DoubleAnswer

LEMMA QuotientIs == ASSUME NEW l \in Int, NEW r \in Int, NEW b PROVE DoubleAnswer(DoubleQuotient(l, r, b))
<1>1. CASE r = 0
  <2>1. \A n \in Int : DoubleAnswer(Num(n))
    BY GoodNum DEF DoubleAnswer
  <2>2. DoubleAnswer(NaN)
    BY GoodSpecials, Constants DEF DoubleAnswer
  <2>3. DoubleQuotient(l, r, b) \in {NaN, Num(-Infinity.v), Num(Infinity.v)}
    BY <1>1 DEF DoubleQuotient
  <2> QED BY <2>1, <2>2, <2>3, InfinityIs
<1>2. CASE r # 0
  <2>1. 2 * Truncated(l, r) \in Int
    BY <1>2, TruncatedIs
  <2>2. DoubleQuotient(l, r, b) \in {NaN, Double(2 * Truncated(l, r))}
    BY <1>2 DEF DoubleQuotient
  <2> QED BY <2>1, <2>2, DoubleIs, GoodSpecials, Constants DEF DoubleAnswer
<1> QED BY <1>1, <1>2

LEMMA DoubleArithmeticIs ==
  ASSUME NEW op, NEW a, NEW b, Good(a), Good(b)
  PROVE  DoubleAnswer(DoubleArithmetic(op, a, b)) /\ DoubleArithmetic("mod", a, b) = Err
<1>1. PICK l, r : l = Unsigned(a).v /\ r = Unsigned(b).v
  OBVIOUS
<1>2. l \in Int /\ r \in Int /\ -r \in Int
  BY <1>1, UnsignedIs, GoodIs
<1>3. DoubleArithmetic(op, a, b) \in {Err, NaN, DoubleSum(l, r), DoubleSum(l, -r), DoubleQuotient(l, r, b)}
  BY <1>1 DEF DoubleArithmetic
<1>4. DoubleAnswer(Err) /\ DoubleAnswer(NaN)
  BY GoodSpecials, Constants DEF DoubleAnswer
<1>5. DoubleAnswer(DoubleSum(l, r)) /\ DoubleAnswer(DoubleSum(l, -r)) /\ DoubleAnswer(DoubleQuotient(l, r, b))
  BY <1>2, SumIs, QuotientIs
<1>6. DoubleArithmetic("mod", a, b) = Err
  BY DEF DoubleArithmetic
<1> QED BY <1>3, <1>4, <1>5, <1>6

\* The sign of a zero shows in the divisor only.
LEMMA DoubleUnsigned ==
  ASSUME NEW op, NEW a, NEW b, Good(a), Good(b), IsDouble(a), IsDouble(b),
         op \notin {"add", "sub", "mod"} => b # NegativeZero
  PROVE  DoubleArithmetic(op, Erased(a), Erased(b)) = DoubleArithmetic(op, a, b)
<1>1. PICK c, d : c = Erased(a) /\ d = Erased(b)
  OBVIOUS
<1>2. Unsigned(c) = Unsigned(a) /\ Unsigned(d) = Unsigned(b)
  BY <1>1, ErasedIs, UnsignedIs DEF Erased, IsDouble
<1>3. (NaN \in {c, d}) <=> (NaN \in {a, b})
  BY <1>1, ErasedIs, GoodIs
<1>4. op \notin {"add", "sub", "mod"} => d = b
  BY <1>1, ErasedIs, GoodIs DEF IsDouble
<1>5. CASE op \in {"add", "sub", "mod"}
  BY <1>1, <1>2, <1>3, <1>5 DEF DoubleArithmetic
<1>6. CASE op \notin {"add", "sub", "mod"}
  BY <1>1, <1>2, <1>3, <1>4, <1>6 DEF DoubleArithmetic
<1> QED BY <1>1, <1>5, <1>6

LEMMA TemporalIs ==
  ASSUME NEW op, NEW l, NEW r
  PROVE  /\ TemporalType(op, l, r) \in {"none", "time", "dur"}
         /\ TemporalType(op, l, r) # "none" =>
              op \in {"add", "sub"} /\ l \in {"time", "dur"} /\ r \in {"time", "dur"}
BY DEF TemporalType

LEMMA TemporalGood ==
  ASSUME NEW op, NEW l, NEW r, Good(l), Good(r), TemporalType(op, l.t, r.t) # "none"
  PROVE  Good(Temporal(op, l, r)) /\ Temporal(op, l, r).t = TemporalType(op, l.t, r.t)
<1>1. PICK type : type = TemporalType(op, l.t, r.t)
  OBVIOUS
<1>2. PICK n : n = IF op = "add" THEN l.v + r.v ELSE l.v - r.v
  OBVIOUS
<1>3. l.v \in Int /\ r.v \in Int
  BY GoodIs
<1>4. n \in Int
  BY <1>2, <1>3
<1>5. type \in {"time", "dur"}
  BY <1>1, TemporalIs
<1>6. Temporal(op, l, r) = [t |-> type, v |-> n]
  BY <1>1, <1>2 DEF Temporal
<1> QED BY <1>1, <1>4, <1>5, <1>6, GoodOf

\* Which of CEL's overloads two values choose.
LEMMA CelArithmeticIs ==
  ASSUME NEW op \in Arithmetic, NEW l, NEW r, Good(l), Good(r)
  PROVE  LET x == CelArithmetic(op, l, r) IN
         /\ Good(x)
         /\ l.t = "int64" /\ r.t = "int64" =>
              x = IntArithmetic(op, l.v \div 2, r.v \div 2) /\ x.t \in {"int64", "error"}
         /\ IsDouble(l) /\ IsDouble(r) =>
              x = DoubleArithmetic(op, l, r) /\ x.t \in {"num", "nan", "error"}
         /\ l.t = "str" /\ r.t = "str" => x.t \in {"str", "error"}
         /\ x.t = "str" => l.t = "str" /\ r.t = "str" /\ op = "add" /\ x.v = l.v + r.v
         /\ x.t = "int64" => l.t = "int64" /\ r.t = "int64"
         /\ IsDouble(x) => IsDouble(l) /\ IsDouble(r) /\ op # "mod"
         /\ TemporalType(op, l.t, r.t) # "none" => x = Temporal(op, l, r)
         /\ x.t \in {"time", "dur"} => x.t = TemporalType(op, l.t, r.t)
         /\ x.t \in {"int64", "num", "nan", "str", "time", "dur", "error"}
<1>1. PICK x : x = CelArithmetic(op, l, r)
  OBVIOUS
<1>2. l.v \in Int /\ r.v \in Int
  BY GoodIs
<1>3. CASE l.t = "int64" /\ r.t = "int64"
  <2>1. x = IntArithmetic(op, l.v \div 2, r.v \div 2)
    BY <1>1, <1>3 DEF CelArithmetic
  <2>2. l.v \div 2 \in Int /\ r.v \div 2 \in Int
    BY <1>2
  <2>3. Good(x) /\ x.t \in {"int64", "error"}
    BY <2>1, <2>2, IntArithmeticIs
  <2>4. TemporalType(op, l.t, r.t) = "none"
    BY <1>3, TemporalIs
  <2> QED BY <1>1, <1>3, <2>1, <2>3, <2>4 DEF IsDouble
<1>4. CASE IsDouble(l) /\ IsDouble(r)
  <2>1. x = DoubleArithmetic(op, l, r)
    BY <1>1, <1>4 DEF CelArithmetic, IsDouble
  <2>2. Good(x) /\ x.t \in {"num", "nan", "error"} /\ (op = "mod" => x.t = "error")
    BY <2>1, DoubleArithmeticIs, Constants DEF DoubleAnswer
  <2>3. TemporalType(op, l.t, r.t) = "none"
    BY <1>4, TemporalIs DEF IsDouble
  <2> QED BY <1>1, <1>4, <2>1, <2>2, <2>3 DEF IsDouble
<1>5. CASE ~(l.t = "int64" /\ r.t = "int64") /\ ~(IsDouble(l) /\ IsDouble(r))
  <2>1. CASE op = "add" /\ l.t = "str" /\ r.t = "str"
    <3>1. PICK n : n = l.v + r.v
      OBVIOUS
    <3>2. x = [t |-> "str", v |-> n] /\ n \in Int
      BY <1>1, <1>2, <1>5, <2>1, <3>1 DEF CelArithmetic
    <3>3. TemporalType(op, l.t, r.t) = "none"
      BY <2>1, TemporalIs
    <3> QED BY <1>1, <1>5, <2>1, <3>1, <3>2, <3>3, GoodOf DEF IsDouble
  <2>2. CASE ~(op = "add" /\ l.t = "str" /\ r.t = "str") /\ TemporalType(op, l.t, r.t) # "none"
    <3>1. x = Temporal(op, l, r)
      BY <1>1, <1>5, <2>2 DEF CelArithmetic
    <3>2. Good(x) /\ x.t = TemporalType(op, l.t, r.t) /\ x.t \in {"time", "dur"} /\ l.t # "str"
      BY <2>2, <3>1, TemporalGood, TemporalIs
    <3> QED BY <1>1, <1>5, <3>1, <3>2 DEF IsDouble
  <2>3. CASE ~(op = "add" /\ l.t = "str" /\ r.t = "str") /\ TemporalType(op, l.t, r.t) = "none"
    <3>1. x = Err
      BY <1>1, <1>5, <2>3 DEF CelArithmetic
    <3> QED BY <1>1, <1>5, <2>3, <3>1, GoodSpecials, Constants DEF IsDouble
  <2> QED BY <2>1, <2>2, <2>3
<1> QED BY <1>3, <1>4, <1>5

LEMMA CelArithmeticErr ==
  ASSUME NEW op \in Arithmetic, NEW a, NEW b, Good(a), Good(b), a.t = "error" \/ b.t = "error"
  PROVE  CelArithmetic(op, a, b) = Err
<1>1. Good(CelArithmetic(op, a, b)) /\ CelArithmetic(op, a, b).t = "error"
  BY CelArithmeticIs, TemporalIs DEF IsDouble
<1> QED BY <1>1, GoodIs

LEMMA ErasedPair ==
  ASSUME NEW a, NEW b, Good(a), Good(b)
  PROVE  (Err \in {Erased(a), Erased(b)}) <=> (a.t = "error" \/ b.t = "error")
<1>1. (Erased(a) = Err <=> a.t = "error") /\ (Erased(b) = Err <=> b.t = "error")
  BY ErasedIs, GoodIs
<1> QED BY <1>1

-----------------------------------------------------------------------------
(* The overloads the type-checker chooses *)

\* The type-checker knows the overload, and with it what comes of it.
LEMMA OverloadIs ==
  ASSUME NEW op \in Arithmetic, NEW l, NEW r, Good(l), Good(r), NEW lt \in CheckerTypes, NEW rt \in CheckerTypes,
         CheckerSays(lt, l), CheckerSays(rt, r), NEW x, x = CelArithmetic(op, l, r), x.t # "error"
  PROVE  \E o \in Matching(op, lt, rt) : CheckerSays(o[3], x)
<1>1. \A o : o \in Overloads(op) /\ lt \in {o[1], "dyn"} /\ rt \in {o[2], "dyn"} => o \in Matching(op, lt, rt)
  BY DEF Matching
<1>2. x.t \in {"int64", "num", "nan", "str", "time", "dur"}
  BY CelArithmeticIs
<1>3. CASE x.t = "int64"
  <2>1. l.t = "int64" /\ r.t = "int64"
    BY <1>3, CelArithmeticIs
  <2>2. lt \in {"int", "dyn"} /\ rt \in {"int", "dyn"}
    BY <2>1 DEF CheckerSays, LiteralType
  <2>3. CheckerSays("int", x)
    BY <1>3 DEF CheckerSays, LiteralType
  <2>4. <<"int", "int", "int">> \in Overloads(op)
    BY DEF Overloads
  <2> QED BY <1>1, <2>2, <2>3, <2>4
<1>4. CASE x.t \in {"num", "nan"}
  <2>1. IsDouble(l) /\ IsDouble(r) /\ op # "mod"
    BY <1>4, CelArithmeticIs DEF IsDouble
  <2>2. lt \in {"double", "dyn"} /\ rt \in {"double", "dyn"}
    BY <2>1 DEF CheckerSays, CheckerTypes, LiteralType, IsDouble
  <2>3. CheckerSays("double", x)
    BY <1>4 DEF CheckerSays, LiteralType
  <2>4. <<"double", "double", "double">> \in Overloads(op)
    BY <2>1 DEF Overloads
  <2> QED BY <1>1, <2>2, <2>3, <2>4
<1>5. CASE x.t = "str"
  <2>1. l.t = "str" /\ r.t = "str" /\ op = "add"
    BY <1>5, CelArithmeticIs
  <2>2. lt \in {"str", "dyn"} /\ rt \in {"str", "dyn"}
    BY <2>1 DEF CheckerSays, LiteralType
  <2>3. CheckerSays("str", x)
    BY <1>5 DEF CheckerSays, LiteralType
  <2>4. <<"str", "str", "str">> \in Overloads(op)
    BY <2>1 DEF Overloads
  <2> QED BY <1>1, <2>2, <2>3, <2>4
<1>6. CASE x.t \in {"time", "dur"}
  <2>1. x.t = TemporalType(op, l.t, r.t)
    BY <1>6, CelArithmeticIs
  <2>2. l.t \in {"time", "dur"} /\ r.t \in {"time", "dur"}
    BY <1>6, <2>1, TemporalIs
  <2>3. lt \in {l.t, "dyn"} /\ rt \in {r.t, "dyn"}
    BY <2>2 DEF CheckerSays, LiteralType
  <2>4. CheckerSays(x.t, x)
    BY <1>6 DEF CheckerSays, LiteralType
  <2>5. <<l.t, r.t, x.t>> \in Overloads(op)
    BY <1>6, <2>1, <2>2 DEF Overloads
  <2> QED BY <1>1, <2>3, <2>4, <2>5
<1> QED BY <1>2, <1>3, <1>4, <1>5, <1>6

\* Two operands the checker accepts, one of them an int, a double or a time.
LEMMA MatchingIs ==
  ASSUME NEW op, NEW lt \in CheckerTypes, NEW rt \in CheckerTypes, Matching(op, lt, rt) # {}
  PROVE  /\ op = "mod" => lt \in {"int", "dyn"} /\ rt \in {"int", "dyn"}
         /\ lt = "int" => rt \in {"int", "dyn"}
         /\ rt = "int" => lt \in {"int", "dyn"}
         /\ lt = "double" => rt \in {"double", "dyn"} /\ op # "mod"
         /\ rt = "double" => lt \in {"double", "dyn"} /\ op # "mod"
<1>1. PICK o \in Matching(op, lt, rt) : TRUE
  OBVIOUS
<1>2. o \in Overloads(op) /\ lt \in {o[1], "dyn"} /\ rt \in {o[2], "dyn"}
  BY DEF Matching
<1>3. \/ o = <<"int", "int", "int">>
      \/ o = <<"double", "double", "double">> /\ op # "mod"
      \/ o = <<"str", "str", "str">> /\ op = "add"
      \/ o[1] \in {"time", "dur"} /\ o[2] \in {"time", "dur"} /\ TemporalType(op, o[1], o[2]) # "none"
  BY <1>2 DEF Overloads
<1>4. o[1] \in {"time", "dur"} /\ TemporalType(op, o[1], o[2]) # "none" => op # "mod"
  BY TemporalIs
<1> QED BY <1>2, <1>3, <1>4

LEMMA ResultTypeIs ==
  ASSUME NEW op, NEW lt, NEW rt
  PROVE  /\ ResultType(op, lt, rt) \in {"dyn", "int", "double", "str", "time", "dur"}
         /\ \A o \in Matching(op, lt, rt) : ResultType(op, lt, rt) \in {o[3], "dyn"}
         /\ \A t : Matching(op, lt, rt) # {} /\ (\A o \in Matching(op, lt, rt) : o[3] = t) => ResultType(op, lt, rt) = t
<1>1. PICK results : results = {o[3] : o \in Matching(op, lt, rt)}
  OBVIOUS
<1>2. ResultType(op, lt, rt) = IF \E t \in results : results = {t} THEN CHOOSE t \in results : TRUE ELSE "dyn"
  BY <1>1 DEF ResultType
<1>3. \A o \in Matching(op, lt, rt) : o[3] \in {"int", "double", "str", "time", "dur"}
  BY DEF Matching, Overloads
<1>4. CASE \E t \in results : results = {t}
  <2>1. PICK t : results = {t}
    BY <1>4
  <2>2. ResultType(op, lt, rt) = t
    BY <1>2, <2>1
  <2> QED BY <1>1, <1>3, <2>1, <2>2
<1>5. CASE ~\E t \in results : results = {t}
  <2>1. ASSUME NEW t, Matching(op, lt, rt) # {}, \A o \in Matching(op, lt, rt) : o[3] = t PROVE FALSE
    <3>1. results = {t}
      BY <1>1, <2>1
    <3> QED BY <1>5, <3>1
  <2> QED BY <1>2, <1>5, <2>1
<1> QED BY <1>4, <1>5

LEMMA CheckedArithmetic ==
  ASSUME NEW op \in Arithmetic, NEW l, NEW r, Good(l), Good(r), NEW lt \in CheckerTypes, NEW rt \in CheckerTypes,
         CheckerSays(lt, l), CheckerSays(rt, r)
  PROVE  CheckerSays(ResultType(op, lt, rt), CelArithmetic(op, l, r))
<1>1. PICK x : x = CelArithmetic(op, l, r)
  OBVIOUS
<1>2. CASE x.t = "error"
  BY <1>1, <1>2 DEF CheckerSays
<1>3. CASE x.t # "error"
  <2>1. PICK o \in Matching(op, lt, rt) : CheckerSays(o[3], x)
    BY <1>1, <1>3, OverloadIs
  <2>2. ResultType(op, lt, rt) \in {o[3], "dyn"}
    BY ResultTypeIs
  <2> QED BY <1>1, <2>1, <2>2 DEF CheckerSays
<1> QED BY <1>2, <1>3

\* The overloads two operands leave, one of them an int, a double or two of them times.
LEMMA OverloadsLeft ==
  ASSUME NEW op, NEW lt \in CheckerTypes, NEW rt \in CheckerTypes, Matching(op, lt, rt) # {}
  PROVE  /\ lt = "int" \/ rt = "int" => ResultType(op, lt, rt) = "int"
         /\ lt = "double" \/ rt = "double" => ResultType(op, lt, rt) = "double"
         /\ lt \in {"time", "dur"} /\ rt \in {"time", "dur"} => ResultType(op, lt, rt) = TemporalType(op, lt, rt)
<1>1. \A o \in Matching(op, lt, rt) :
        /\ lt \in {o[1], "dyn"} /\ rt \in {o[2], "dyn"}
        /\ \/ o[1] = "int" /\ o[2] = "int" /\ o[3] = "int"
           \/ o[1] = "double" /\ o[2] = "double" /\ o[3] = "double"
           \/ o[1] = "str" /\ o[2] = "str"
           \/ o[1] \in {"time", "dur"} /\ o[2] \in {"time", "dur"} /\ o[3] = TemporalType(op, o[1], o[2])
  BY DEF Matching, Overloads
<1>2. lt = "int" \/ rt = "int" => \A o \in Matching(op, lt, rt) : o[3] = "int"
  BY <1>1
<1>3. lt = "double" \/ rt = "double" => \A o \in Matching(op, lt, rt) : o[3] = "double"
  BY <1>1
<1>4. lt \in {"time", "dur"} /\ rt \in {"time", "dur"} =>
        \A o \in Matching(op, lt, rt) : o[3] = TemporalType(op, lt, rt)
  BY <1>1
<1> QED BY <1>2, <1>3, <1>4, ResultTypeIs

-----------------------------------------------------------------------------
(* Comparisons and conversions *)

LEMMA CompareTri == \A op, x, y : Compare(op, x, y) \in Tri /\ CompareValues(op, x, y) \in Tri
BY BoolIs DEF Compare, CompareValues, Tri

LEMMA ErasedEqual ==
  ASSUME NEW a, NEW b, Good(a), Good(b), NEW l, NEW r, l = Unsigned(a), r = Unsigned(b),
         NEW c, NEW d, c = Erased(a), d = Erased(b)
  PROVE  /\ ValuesEqual(l, r) <=> ValuesEqual(c, d)
         /\ SameOrderedType(l, r) <=> SameOrderedType(c, d)
         /\ l.v = c.v /\ r.v = d.v
<1>1. Good(l) /\ Good(r) /\ Good(c) /\ Good(d) /\ l.v = c.v /\ r.v = d.v
  BY UnsignedIs, ErasedIs
<1>2. (IsNumeric(l) <=> c.t = "num") /\ (IsNumeric(r) <=> d.t = "num")
  BY ErasedIs
<1>3. (IsNumeric(c) <=> c.t = "num") /\ (IsNumeric(d) <=> d.t = "num")
  BY ErasedIs DEF IsNumeric
<1>4. ~IsNumeric(l) => l = c
  <2>1. ~IsNumeric(l) => a.t \notin {"int64", "negzero"}
    BY UnsignedIs DEF IsNumeric
  <2> QED BY <2>1, UnsignedIs, ErasedIs
<1>5. ~IsNumeric(r) => r = d
  <2>1. ~IsNumeric(r) => b.t \notin {"int64", "negzero"}
    BY UnsignedIs DEF IsNumeric
  <2> QED BY <2>1, UnsignedIs, ErasedIs
<1>6. ~(IsNumeric(l) <=> IsNumeric(r)) => l # r /\ c # d
  BY <1>2
<1>7. ValuesEqual(l, r) <=> ValuesEqual(c, d)
  <2>1. CASE IsNumeric(l) /\ IsNumeric(r)
    BY <1>1, <1>2, <1>3, <2>1 DEF ValuesEqual
  <2>2. CASE ~(IsNumeric(l) /\ IsNumeric(r))
    <3>1. (ValuesEqual(l, r) <=> l = r) /\ (ValuesEqual(c, d) <=> c = d)
      BY <1>2, <1>3, <2>2 DEF ValuesEqual
    <3> QED BY <1>4, <1>5, <1>6, <2>2, <3>1
  <2> QED BY <2>1, <2>2
<1>8. SameOrderedType(l, r) <=> SameOrderedType(c, d)
  BY <1>2, <1>3, <1>4, <1>5 DEF SameOrderedType, IsNumeric
<1> QED BY <1>1, <1>7, <1>8

\* Comparison does not tell an int from a double, nor the zeros apart.
LEMMA CompareErased ==
  ASSUME NEW op \in Comparisons, NEW a, NEW b, Good(a), Good(b)
  PROVE  Compare(op, Erased(a), Erased(b)) = Compare(op, a, b)
<1>1. PICK l, r, c, d : l = Unsigned(a) /\ r = Unsigned(b) /\ c = Erased(a) /\ d = Erased(b)
  OBVIOUS
<1>2. Unsigned(c) = c /\ Unsigned(d) = d /\ Good(c) /\ Good(d) /\ Good(l) /\ Good(r)
  BY <1>1, ErasedIs, UnsignedIs
<1>3. (Err \in {l, r} <=> Err \in {c, d}) /\ (NaN \in {l, r} <=> NaN \in {c, d})
  <2>1. (l = Err <=> c = Err) /\ (r = Err <=> d = Err) /\ (l = NaN <=> c = NaN) /\ (r = NaN <=> d = NaN)
    BY <1>1, <1>2, GoodIs, UnsignedIs, ErasedIs
  <2> QED BY <2>1
<1>4. CASE Err \in {l, r}
  BY <1>1, <1>2, <1>3, <1>4 DEF Compare
<1>5. CASE Err \notin {l, r} /\ NaN \in {l, r}
  <2>1. (l.t \in {"nan", "num", "int64"} <=> c.t \in {"nan", "num", "int64"})
        /\ (r.t \in {"nan", "num", "int64"} <=> d.t \in {"nan", "num", "int64"})
    BY <1>1, UnsignedIs, ErasedIs
  <2>2. {l.t, r.t} \subseteq {"nan", "num", "int64"} <=> {c.t, d.t} \subseteq {"nan", "num", "int64"}
    BY <2>1
  <2>3. /\ Compare(op, a, b) = IF op \in Equalities THEN Bool(op = "ne")
                               ELSE IF {l.t, r.t} \subseteq {"nan", "num", "int64"} THEN False ELSE Err
        /\ Compare(op, c, d) = IF op \in Equalities THEN Bool(op = "ne")
                               ELSE IF {c.t, d.t} \subseteq {"nan", "num", "int64"} THEN False ELSE Err
    BY <1>1, <1>2, <1>3, <1>5 DEF Compare
  <2> QED BY <1>1, <2>2, <2>3
<1>6. CASE Err \notin {l, r} /\ NaN \notin {l, r}
  <2>1. /\ Compare(op, a, b) = IF op \in Orderings /\ l.t = r.t /\ l.t \in {"time", "dur"}
                               THEN Bool(Ordered(op, l.v, r.v)) ELSE CompareValues(op, l, r)
        /\ Compare(op, c, d) = IF op \in Orderings /\ c.t = d.t /\ c.t \in {"time", "dur"}
                               THEN Bool(Ordered(op, c.v, d.v)) ELSE CompareValues(op, c, d)
    BY <1>1, <1>2, <1>3, <1>6 DEF Compare
  <2>2. (l.t = r.t /\ l.t \in {"time", "dur"}) <=> (c.t = d.t /\ c.t \in {"time", "dur"})
    BY <1>1, UnsignedIs, ErasedIs
  <2>3. /\ ValuesEqual(l, r) <=> ValuesEqual(c, d)
        /\ SameOrderedType(l, r) <=> SameOrderedType(c, d)
        /\ l.v = c.v /\ r.v = d.v
    BY <1>1, ErasedEqual
  <2>4. CompareValues(op, l, r) = CompareValues(op, c, d)
    <3>1. CASE op = "eq"
      BY <1>3, <1>6, <2>3, <3>1 DEF CompareValues, Bool
    <3>2. CASE op = "ne"
      BY <1>3, <1>6, <2>3, <3>2 DEF CompareValues, Bool
    <3>3. CASE op \notin {"eq", "ne"}
      BY <1>3, <1>6, <2>3, <3>3 DEF CompareValues
    <3> QED BY <3>1, <3>2, <3>3
  <2>5. Bool(Ordered(op, l.v, r.v)) = Bool(Ordered(op, c.v, d.v))
    BY <2>3
  <2> QED BY <1>1, <2>1, <2>2, <2>4, <2>5
<1> QED BY <1>4, <1>5, <1>6

LEMMA ParsedIs ==
  ASSUME NEW reading \in Readings, NEW x
  PROVE  LET y == ParseAs(reading, x) IN Good(y) /\ y.t \in {reading, "error"} /\ (y # Err => y.v \in Int)
<1>1. CASE x.v \in DOMAIN Parse[reading]
  <2>1. PICK n \in Int : n = Parse[reading][x.v]
    BY <1>1, NumbersAssumption
  <2>2. ParseAs(reading, x) = [t |-> reading, v |-> n]
    BY <1>1, <2>1 DEF ParseAs
  <2>3. reading \in {"num", "str", "time", "dur"}
    BY DEF Readings
  <2> QED BY <2>1, <2>2, <2>3, GoodOf
<1>2. CASE x.v \notin DOMAIN Parse[reading]
  BY <1>2, GoodSpecials, Constants DEF ParseAs
<1> QED BY <1>1, <1>2

LEMMA RenderingIs ==
  ASSUME NEW type, NEW n \in Int
  PROVE  Good(Rendering(type, n)) /\ Rendering(type, n).t = "str"
<1>1. PICK m : m = 100 + n + (IF type = "num" /\ Abs(n) >= 2 * Rendered THEN 1000 ELSE 0)
  OBVIOUS
<1>2. m \in Int
  BY <1>1
<1>3. Rendering(type, n) = [t |-> "str", v |-> m]
  BY <1>1 DEF Rendering
<1> QED BY <1>2, <1>3, GoodOf

LEMMA StringIs ==
  ASSUME NEW x, Good(x)
  PROVE  LET y == CelConvert("string", x) IN Good(y) /\ y.t \in {"str", "error"}
<1>1. PICK y : y = CelConvert("string", x)
  OBVIOUS
<1>2. x.v \in Int /\ x.t \in KnownTypes
  BY GoodIs
<1>3. CASE x.t \in {"int64", "num"}
  <2>1. y = Rendering(x.t, x.v)
    BY <1>1, <1>3 DEF CelConvert
  <2> QED BY <1>1, <1>2, <2>1, RenderingIs
<1>4. CASE x.t = "str"
  BY <1>1, <1>4 DEF CelConvert
<1>5. CASE x.t \in {"bool", "time", "dur", "negzero", "nan"}
  <2>1. 50 + x.v \in Int /\ 54 + x.v \in Int
    BY <1>2
  <2>2. PICK n \in Int : y = [t |-> "str", v |-> n]
    BY <1>1, <1>5, <2>1 DEF CelConvert
  <2> QED BY <1>1, <2>2, GoodOf
<1>6. CASE x.t \notin {"int64", "num", "str", "bool", "time", "dur", "negzero", "nan"}
  <2>1. y = Err
    BY <1>1, <1>6 DEF CelConvert
  <2> QED BY <1>1, <2>1, GoodSpecials, Constants
<1> QED BY <1>3, <1>4, <1>5, <1>6

LEMMA IntIs ==
  ASSUME NEW x, Good(x)
  PROVE  LET y == CelConvert("int", x) IN Good(y) /\ y.t \in {"int64", "error"}
<1>1. PICK y : y = CelConvert("int", x)
  OBVIOUS
<1>2. x.v \in Int /\ x.t \in KnownTypes
  BY GoodIs
<1>3. CASE x.t = "int64"
  BY <1>1, <1>3 DEF CelConvert
<1>4. CASE x.t \in {"num", "negzero"}
  <2>1. y = CelInt(Truncated(x.v, 2))
    BY <1>1, <1>4 DEF CelConvert
  <2> QED BY <1>1, <1>2, <2>1, TruncatedIs, CelIntIs
<1>5. CASE x.t = "str"
  <2>1. PICK n : n = ParseAs("num", x)
    OBVIOUS
  <2>2. y = IF n = Err \/ IsFraction(n) THEN Err ELSE CelInt(n.v \div 2)
    BY <1>1, <1>5, <2>1 DEF CelConvert
  <2>3. n # Err => n.v \div 2 \in Int
    BY <2>1, ParsedIs DEF Readings
  <2> QED BY <1>1, <2>2, <2>3, CelIntIs, GoodSpecials, Constants
<1>6. CASE x.t = "time"
  <2>1. y = CelInt(x.v)
    BY <1>1, <1>6 DEF CelConvert
  <2> QED BY <1>1, <1>2, <2>1, CelIntIs
<1>7. CASE x.t \notin {"int64", "num", "negzero", "str", "time"}
  <2>1. y = Err
    BY <1>1, <1>7 DEF CelConvert
  <2> QED BY <1>1, <2>1, GoodSpecials, Constants
<1> QED BY <1>3, <1>4, <1>5, <1>6, <1>7

LEMMA IntErased ==
  ASSUME NEW x, Good(x)
  PROVE  CelConvert("int", Erased(x)) = CelConvert("int", x)
<1>1. PICK c : c = Erased(x)
  OBVIOUS
<1>2. x.v \in Int /\ (x.t \notin {"int64", "negzero"} => c = x) /\ (x.t \in {"int64", "negzero"} => c = Num(x.v))
  BY <1>1, ErasedIs, GoodIs
<1>3. CASE x.t = "int64"
  <2>1. CelConvert("int", x) = x
    BY <1>3 DEF CelConvert
  <2>2. c.t = "num" /\ c.v = x.v
    BY <1>2, <1>3 DEF Num
  <2>3. CelConvert("int", c) = CelInt(Truncated(x.v, 2))
    BY <2>2 DEF CelConvert
  <2>4. x.v % 2 = 0 /\ x.v \in -(2 * Int64Max) .. 2 * Int64Max /\ x = [t |-> "int64", v |-> x.v]
    BY <1>3 DEF Good
  <2>5. PICK m : m = x.v \div 2
    OBVIOUS
  <2>6. Truncated(x.v, 2) = m /\ 2 * m = x.v /\ m \in Int
    BY <1>2, <2>4, <2>5, HalvedIs
  <2>7. m \in -Int64Max .. Int64Max
    BY <2>4, <2>6, Numbers
  <2>8. CelInt(m) = Int64(x.v)
    BY <2>6, <2>7, CelIntIs
  <2>9. Int64(x.v) = x
    BY <2>4 DEF Int64
  <2> QED BY <1>1, <2>1, <2>3, <2>6, <2>8, <2>9
<1>4. CASE x.t = "negzero"
  <2>1. c.t = "num" /\ c.v = x.v
    BY <1>2, <1>4 DEF Num
  <2> QED BY <1>1, <1>4, <2>1 DEF CelConvert
<1>5. CASE x.t \notin {"int64", "negzero"}
  BY <1>1, <1>2, <1>5
<1> QED BY <1>3, <1>4, <1>5

LEMMA DoubleConversionIs ==
  ASSUME NEW x, Good(x)
  PROVE  LET y == CelConvert("double", x) IN Good(y) /\ (IsDouble(y) \/ y.t = "error")
<1>1. PICK y : y = CelConvert("double", x)
  OBVIOUS
<1>2. x.v \in Int /\ x.t \in KnownTypes
  BY GoodIs
<1>3. CASE IsDouble(x)
  BY <1>1, <1>3 DEF CelConvert, IsDouble
<1>4. CASE x.t = "int64"
  <2>1. y = Num(x.v)
    BY <1>1, <1>4 DEF CelConvert, IsDouble
  <2> QED BY <1>1, <1>2, <2>1, GoodNum DEF IsDouble
<1>5. CASE x.t = "str"
  <2>1. y = ParseAs("num", x)
    BY <1>1, <1>5 DEF CelConvert, IsDouble
  <2>2. "num" \in Readings
    BY DEF Readings
  <2> QED BY <1>1, <2>1, <2>2, ParsedIs DEF IsDouble
<1>6. CASE ~IsDouble(x) /\ x.t \notin {"int64", "str"}
  <2>1. y = Err
    BY <1>1, <1>6 DEF CelConvert, IsDouble
  <2> QED BY <1>1, <2>1, GoodSpecials, Constants
<1> QED BY <1>3, <1>4, <1>5, <1>6

LEMMA TemporalConversionIs ==
  ASSUME NEW op \in {"timestamp", "duration"}, NEW x, Good(x)
  PROVE  LET y == CelConvert(op, x) IN
         /\ Good(y) /\ y.t \in {IF op = "timestamp" THEN "time" ELSE "dur", "error"}
         /\ x.t \notin {"str", "int64", IF op = "timestamp" THEN "time" ELSE "dur"} => y = Err
<1>1. PICK y : y = CelConvert(op, x)
  OBVIOUS
<1>2. PICK reading : reading = IF op = "timestamp" THEN "time" ELSE "dur"
  OBVIOUS
<1>3. reading \in {"time", "dur"} /\ reading \in Readings
  BY <1>2 DEF Readings
<1>4. x.v \in Int
  BY GoodIs
<1>5. CASE x.t = reading
  <2>1. y = x
    BY <1>1, <1>2, <1>3, <1>5 DEF CelConvert
  <2> QED BY <1>1, <1>2, <1>5, <2>1
<1>6. CASE x.t = "str"
  <2>1. y = ParseAs(reading, x)
    BY <1>1, <1>2, <1>3, <1>6 DEF CelConvert
  <2> QED BY <1>1, <1>2, <1>3, <1>6, <2>1, ParsedIs
<1>7. CASE x.t = "int64" /\ op = "timestamp"
  <2>1. y = [t |-> "time", v |-> x.v]
    BY <1>1, <1>7 DEF CelConvert
  <2> QED BY <1>1, <1>4, <1>7, <2>1, GoodOf
<1>8. CASE x.t \notin {reading, "str"} /\ ~(x.t = "int64" /\ op = "timestamp")
  <2>1. y = Err
    BY <1>1, <1>2, <1>3, <1>8 DEF CelConvert
  <2> QED BY <1>1, <2>1, GoodSpecials, Constants
<1> QED BY <1>2, <1>5, <1>6, <1>7, <1>8

LEMMA ConvertGood ==
  ASSUME NEW op \in Conversions, NEW x, Good(x)
  PROVE  Good(CelConvert(op, x))
BY StringIs, IntIs, DoubleConversionIs, TemporalConversionIs DEF Conversions

-----------------------------------------------------------------------------
(* The operators on which types have no bearing *)

LEMMA ListIs ==
  ASSUME NEW x, PlainList(x)
  PROVE  /\ x \in DOMAIN Members /\ IsFiniteSet(Members[x])
         /\ \A m \in Members[x] : m \in Value /\ m.t \in {"null", "num", "bool", "str"} /\ m # Undefined
<1>1. x \in DOMAIN Members /\ \A m \in Members[x] : m.t # "int64"
  BY DEF PlainList
<1>2. IsFiniteSet(Members[x]) /\ \A m \in Members[x] : m \in Value /\ m.t \in Scalars
  BY <1>1, MembersAssumption
<1> QED BY <1>1, <1>2, Constants DEF Scalars

LEMMA SizeIs ==
  ASSUME NEW x, Good(x)
  PROVE  Good(CelSize(x)) /\ CelSize(x).t \in {"int64", "error"} /\ CelSize(Erased(x)) = CelSize(x)
<1>1. PICK y, c : y = CelSize(x) /\ c = Erased(x)
  OBVIOUS
<1>2. x.v \in Int /\ x.t \in KnownTypes
  BY GoodIs
<1>3. CASE x.t = "str"
  <2>1. y = CelInt(x.v) /\ c = x
    BY <1>1, <1>3, ErasedIs DEF CelSize, IsCollection
  <2> QED BY <1>1, <1>2, <2>1, CelIntIs
<1>4. CASE x.t = "list"
  <2>1. y = CelInt(Cardinality(Members[x])) /\ c = x
    BY <1>1, <1>4, ErasedIs DEF CelSize, IsCollection
  <2>2. Cardinality(Members[x]) \in Int
    BY <1>4, ListIs, FS_CardinalityType DEF Good
  <2> QED BY <1>1, <2>1, <2>2, CelIntIs
<1>5. CASE x.t \notin {"str", "list"}
  <2>1. c.t \notin {"str", "list", "map"} /\ x.t # "map"
    BY <1>1, <1>2, <1>5, ErasedIs DEF KnownTypes
  <2>2. y = Err /\ CelSize(c) = Err
    BY <1>1, <1>5, <2>1 DEF CelSize, IsCollection
  <2> QED BY <1>1, <2>2, GoodSpecials, Constants
<1> QED BY <1>3, <1>4, <1>5

LEMMA BooleanErased ==
  ASSUME NEW x, Good(x)
  PROVE  AsBoolean(Erased(x)) = AsBoolean(x) /\ (Erased(x) = True <=> x = True)
<1>1. x.t = "bool" => Erased(x) = x
  BY ErasedIs
<1>2. x.t # "bool" => Erased(x).t # "bool"
  BY ErasedIs
<1> QED BY <1>1, <1>2, Constants DEF AsBoolean

LEMMA JunctionTri == \A d \in BOOLEAN : \A S : Junction(d, S) \in Tri
BY Constants DEF Junction, Tri, Bool

LEMMA JunctionErased ==
  ASSUME NEW d \in BOOLEAN, NEW S, NEW T, \A x \in S : Good(x) /\ Erased(x) \in T,
         \A y \in T : \E x \in S : y = Erased(x)
  PROVE  Junction(d, T) = Junction(d, S)
<1>1. \A x \in S : AsBoolean(Erased(x)) = AsBoolean(x)
  BY BooleanErased
<1>2. \A y : (\E x \in S : AsBoolean(x) = y) <=> \E x \in T : AsBoolean(x) = y
  BY <1>1
<1> QED BY <1>2 DEF Junction

LEMMA ExistsOneErased ==
  ASSUME NEW f, NEW g, DOMAIN f = DOMAIN g, \A i \in DOMAIN f : Good(f[i]) /\ g[i] = Erased(f[i])
  PROVE  ExistsOne(g) = ExistsOne(f)
<1>1. \A i \in DOMAIN f : AsBoolean(g[i]) = AsBoolean(f[i]) /\ (g[i] = True <=> f[i] = True)
  BY BooleanErased
<1>2. {i \in DOMAIN g : g[i] = True} = {i \in DOMAIN f : f[i] = True}
  BY <1>1
<1> QED BY <1>1, <1>2 DEF ExistsOne

LEMMA InErased ==
  ASSUME NEW a, NEW x, Good(a), Good(x)
  PROVE  In(Unsigned(Erased(a)), Erased(x)) = In(Unsigned(a), x)
<1>1. PICK l, c, y : l = Unsigned(a) /\ c = Erased(a) /\ y = Erased(x)
  OBVIOUS
<1>2. Good(c) /\ Good(l) /\ Unsigned(c) = c /\ c.v = l.v /\ (c = Err <=> l = Err) /\ (IsNumeric(l) <=> c.t = "num")
  <2>1. Good(c) /\ Good(l) /\ Unsigned(c) = c /\ c.v = l.v /\ (IsNumeric(l) <=> c.t = "num")
    BY <1>1, ErasedIs, UnsignedIs
  <2>2. (c = Err <=> a = Err) /\ (l = Err <=> a = Err)
    BY <1>1, ErasedIs, UnsignedIs, GoodIs
  <2> QED BY <2>1, <2>2
<1>3. IsNumeric(c) <=> IsNumeric(l)
  BY <1>1, <1>2, ErasedIs DEF IsNumeric
<1>4. ~IsNumeric(l) => c = l
  <2>1. ~IsNumeric(l) => a.t \notin {"int64", "negzero"}
    BY <1>1, UnsignedIs DEF IsNumeric
  <2> QED BY <1>1, <2>1, UnsignedIs, ErasedIs
<1>5. \A m : ValuesEqual(m, c) <=> ValuesEqual(m, l)
  <2> SUFFICES ASSUME NEW m PROVE ValuesEqual(m, c) <=> ValuesEqual(m, l)
    OBVIOUS
  <2>1. CASE ~IsNumeric(l)
    BY <1>4, <2>1
  <2>2. CASE IsNumeric(l) /\ IsNumeric(m)
    BY <1>2, <1>3, <2>2 DEF ValuesEqual
  <2>3. CASE IsNumeric(l) /\ ~IsNumeric(m)
    <3>1. m # l /\ m # c
      BY <1>3, <2>3
    <3> QED BY <2>3, <3>1 DEF ValuesEqual
  <2> QED BY <2>1, <2>2, <2>3
<1>6. (IsCollection(y) <=> IsCollection(x)) /\ (IsCollection(x) => y = x)
  BY <1>1, ErasedIs DEF IsCollection
<1>7. CASE ~IsCollection(x)
  BY <1>1, <1>6, <1>7 DEF In
<1>8. CASE IsCollection(x)
  <2>1. In(c, x) = In(l, x)
    BY <1>2, <1>5 DEF In
  <2> QED BY <1>1, <1>2, <1>6, <1>8, <2>1
<1> QED BY <1>7, <1>8

LEMMA SequencesErased ==
  ASSUME NEW a, NEW b, Good(a), Good(b)
  PROVE  /\ HasIntersection(Erased(a), Erased(b)) = HasIntersection(a, b)
         /\ StartsWith(Erased(a), Erased(b)) = StartsWith(a, b)
<1>1. PICK c, d : c = Erased(a) /\ d = Erased(b)
  OBVIOUS
<1>2. /\ (c.t = "list" <=> a.t = "list") /\ (d.t = "list" <=> b.t = "list")
      /\ (c.t = "str" <=> a.t = "str") /\ (d.t = "str" <=> b.t = "str")
      /\ (a.t \in {"list", "str"} => c = a) /\ (b.t \in {"list", "str"} => d = b)
  BY <1>1, ErasedIs
<1>3. HasIntersection(c, d) = HasIntersection(a, b)
  BY <1>2 DEF HasIntersection
<1>4. StartsWith(c, d) = StartsWith(a, b)
  BY <1>2 DEF StartsWith
<1> QED BY <1>1, <1>3, <1>4

\* What the predicate is given for what CEL is.
Erases(g, f) == DOMAIN g = DOMAIN f /\ \A i \in DOMAIN f : Good(f[i]) /\ g[i] = Erased(f[i])

-----------------------------------------------------------------------------
(* What a plan holds *)

\* A constant of a plan, or a member of a list.
Constant(x) ==
  /\ x \in Value /\ x.t \in {"null", "num", "str", "bool", "list"}
  /\ x.t = "list" => PlainList(x)

LEMMA ConstantIs ==
  ASSUME NEW x, Constant(x)
  PROVE  /\ Good(x) /\ x.t \notin {"undefined", "int64", "negzero", "nan", "error", "time", "dur"} /\ Erased(x) = x
         /\ x \in [t : Types, v : Int]
         /\ x.t = "null" => x = Null
<1>1. x \in [t : Types, v : Int] /\ WellFormed(x)
  BY DEF Constant, Value
<1>2. Good(x)
  BY <1>1 DEF Constant, WellFormed, Good, KnownTypes
<1>3. x.t \notin {"undefined", "int64", "negzero", "nan", "error", "time", "dur"}
  BY DEF Constant
<1> QED BY <1>1, <1>2, <1>3, ErasedIs, GoodIs

LEMMA TypedIs ==
  ASSUME NEW x, Constant(x), NEW hidden \in {"int64", "num"}
  PROVE  LET y == Typed(hidden, x) IN
         /\ Good(y) /\ Erased(y) = x /\ Unsigned(y) = y /\ y.v = x.v /\ y # NegativeZero
         /\ x.t # "num" \/ IsFraction(x) => y = x
         /\ x.t = "num" => y.t \in {"int64", "num"}
         /\ LiteralType(y) \in CheckerTypes
         /\ x.t = "num" => LiteralType(y) \in {"int", "double"}
         /\ IsFraction(x) => LiteralType(y) = "double"
<1>1. PICK y : y = Typed(hidden, x)
  OBVIOUS
<1>2. Good(x) /\ Erased(x) = x /\ x \in [t : Types, v : Int] /\ x.v \in Int
  BY ConstantIs
<1>3. x.t \in {"null", "num", "str", "bool", "list"}
  BY DEF Constant
<1>4. CASE y = x
  <2>1. LiteralType(x) = IF x.t = "num" THEN "double" ELSE x.t
    BY <1>3 DEF LiteralType
  <2>2. Unsigned(x) = x /\ x # NegativeZero
    BY <1>2, <1>3, UnsignedIs, GoodIs
  <2>3. LiteralType(x) \in CheckerTypes
    BY <1>3, <2>1 DEF CheckerTypes
  <2> QED BY <1>1, <1>2, <1>3, <1>4, <2>1, <2>2, <2>3 DEF IsFraction
<1>5. CASE y # x
  <2>1. /\ x.t = "num" /\ x.v % 2 # 1 /\ x.v \in -(2 * Int64Max) .. 2 * Int64Max
        /\ y = [x EXCEPT !.t = hidden]
    BY <1>1, <1>5 DEF Typed, IsFraction
  <2>2. y.t = hidden /\ y.v = x.v /\ hidden = "int64" /\ y = [t |-> "int64", v |-> x.v]
    BY <1>2, <1>5, <2>1
  <2>3. x.v % 2 = 0
    BY <1>2, <2>1
  <2>4. Good(y)
    BY <1>2, <2>1, <2>2, <2>3 DEF Good, KnownTypes
  <2>5. Erased(y) = Num(x.v) /\ x = Num(x.v)
    BY <1>2, <2>1, <2>2 DEF Erased, Num
  <2>6. LiteralType(y) = "int"
    BY <2>2 DEF LiteralType
  <2>7. Unsigned(y) = y /\ y # NegativeZero
    BY <2>2, <2>4, UnsignedIs, GoodIs
  <2> QED BY <1>1, <2>1, <2>2, <2>4, <2>5, <2>6, <2>7 DEF IsFraction, CheckerTypes
<1> QED BY <1>4, <1>5

LEMMA MemberIs ==
  ASSUME NEW list, PlainList(list), NEW m \in Members[list]
  PROVE  Constant(m) /\ m.t # "list" /\ m # Undefined
BY ListIs DEF Constant

LEMMA HiddenIs == \A x : HiddenTypes(x) \subseteq {"int64", "num"}
BY DEF HiddenTypes

-----------------------------------------------------------------------------
(* Sequences *)

LEMMA OwnMembers ==
  ASSUME NEW S, NEW s \in Seq(S)
  PROVE  s \in Seq({s[i] : i \in DOMAIN s})
<1>1. PICK T : T = {s[i] : i \in DOMAIN s}
  OBVIOUS
<1>2. Len(s) \in Nat /\ s \in [1 .. Len(s) -> S] /\ DOMAIN s = 1 .. Len(s)
  OBVIOUS
<1>3. \A i \in 1 .. Len(s) : s[i] \in T
  BY <1>1, <1>2
<1>4. s \in [1 .. Len(s) -> T]
  BY <1>2, <1>3
<1>5. s \in Seq(T)
  BY <1>2, <1>4
<1> QED BY <1>1, <1>5
=============================================================================
