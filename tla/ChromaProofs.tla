----------------------------- MODULE ChromaProofs -----------------------------
(***************************************************************************)
(* What TLAPS proves of the Chroma adapter: the predicate computes what    *)
(* CEL does without the policy's types, and pushdown and post-filter       *)
(* return what the condition is true of, for any plan over any metadata.   *)
(***************************************************************************)
EXTENDS ChromaAdapter, CelFacts

-----------------------------------------------------------------------------
(* The inductive invariant *)

\* What the adapter knows of an expression holds of its value.
StaticSays(static, x) ==
  /\ static \in {"attribute", "other"} => x.t \notin {"int64", "time", "dur"}
  /\ static = "other" => ~IsDouble(x)

\* Where the adapter knows a type the type-checker knew it too.
StaticKnows(static, type) ==
  /\ static = "ambiguous" => type \in {"int", "double"}
  /\ static \in {"int", "double"} => type = static
  /\ static = "timestamp" => type = "time"
  /\ static = "duration" => type = "dur"

\* A Where built for a condition is right of the record.
Exact(where, allows) == where.outcome = "translated" => (where.match <=> allows)
WheresExact(n) ==
  n.list = Undefined /\ IsCondition(n) =>
    Exact(n.where, n.cel[Root] = True) /\ Exact(n.whereNot, n.cel[Root] = False)

Wheres == [outcome : {"translated", "unsupported", "error"}, match : BOOLEAN]
Kinds == AllOperators \union {"value", "variable", "element"}

Shaped(n) ==
  /\ n.kind \in Kinds
  /\ n.list = Undefined \/ (n.list \in Literals /\ n.list.t = "list" /\ Members[n.list] # {})
  /\ DOMAIN n.cel = EnvsOf(n.list) /\ DOMAIN n.js = EnvsOf(n.list)
  /\ \A e \in EnvsOf(n.list) : Good(n.cel[e]) /\ Good(n.js[e]) /\ n.js[e].t # "int64"
  /\ n.static \in StaticTypes /\ n.celStatic \in CheckerTypes
  /\ n.refused \in BOOLEAN /\ n.reads \in BOOLEAN
  /\ n.where \in Wheres /\ n.whereNot \in Wheres
  /\ n.kind = "value" =>
       n.list = Undefined /\ n.lit \in Literals /\ \E hidden \in {"int64", "num"} : n.cel[Root] = Typed(hidden, n.lit)
  /\ n.kind = "variable" =>
       /\ n.list = Undefined /\ n.lit = Undefined /\ n.cel[Root] \in SentFor(n.stored)
       /\ n.stored \in Metadata /\ n.declared \in Declarations /\ Declares(n.declared, n.stored)

\* What the predicate computes of an operand is what CEL does, and what is known of it is so.
Faithful(n) ==
  /\ StaticKnows(n.static, n.celStatic)
  /\ \A e \in EnvsOf(n.list) :
       /\ CheckerSays(n.celStatic, n.cel[e]) /\ StaticSays(n.static, n.cel[e])
       /\ ~n.refused => n.js[e] = Erased(n.cel[e])
       /\ ~n.reads => n.cel[e] # NegativeZero
  /\ WheresExact(n)

\* The operands of an `and`, which splitCondition may split.
SplitOK(n) ==
  /\ DOMAIN n.parts = 1 .. 2
  /\ \A i \in 1 .. 2 : Shaped(n.parts[i])
  /\ n.list = Undefined => \A i \in 1 .. 2 : n.parts[i].list = Undefined
  /\ Admitted = {} =>
       /\ \A i \in 1 .. 2 : Faithful(n.parts[i]) /\ IsCondition(n.parts[i])
       /\ n.list = Undefined => (n.cel[Root] = True <=> \A i \in 1 .. 2 : n.parts[i].cel[Root] = True)

NodeOK(n) == Shaped(n) /\ (Admitted = {} => Faithful(n)) /\ (n.kind = "and" => SplitOK(n))

NodesOK(s) == s \in Seq({s[i] : i \in DOMAIN s}) /\ \A i \in DOMAIN s : NodeOK(s[i])

RecordOK ==
  /\ DOMAIN metadata \subseteq Refs
  /\ DOMAIN sent = DOMAIN metadata /\ DOMAIN mapper = DOMAIN metadata
  /\ \A r \in DOMAIN metadata :
       /\ metadata[r] \in Metadata /\ mapper[r] \in Declarations
       /\ Declares(mapper[r], metadata[r]) /\ sent[r] \in SentFor(metadata[r])

\* Pushdown and post-filter decide together what is returned.
AnswerOK ==
  Admitted = {} =>
    /\ phase \in {"translated", "candidates"} => (pushed /\ kept <=> root = True)
    /\ phase = "answered" => (returned <=> root = True)

IInv ==
  /\ RecordOK
  /\ allowed \in BOOLEAN
  /\ NodesOK(stack)
  /\ nodes \in 0 .. MaxNodes
  /\ phase \in {"reading", "refused", "translated", "candidates", "answered"}
  /\ Good(root)
  /\ pushed \in BOOLEAN /\ kept \in BOOLEAN /\ returned \in BOOLEAN
  /\ AnswerOK

-----------------------------------------------------------------------------
(* Arithmetic without the policy's types *)

\* A value, the type the checker gave it and the one the adapter knows.
Known(static, type, x) ==
  /\ static \in StaticTypes /\ type \in CheckerTypes /\ Good(x)
  /\ StaticKnows(static, type) /\ CheckerSays(type, x) /\ StaticSays(static, x)

LEMMA KnownIs ==
  ASSUME NEW s, NEW k, NEW x, Known(s, k, x)
  PROVE  /\ k = "int" => x.t \in {"int64", "error"}
         /\ k = "double" => x.t \in {"num", "nan", "negzero", "error"}
         /\ s = "ambiguous" => k \in {"int", "double"}
         /\ s \in {"int", "double"} => k = s
         /\ s = "timestamp" => x.t \in {"time", "error"} /\ k = "time"
         /\ s = "duration" => x.t \in {"dur", "error"} /\ k = "dur"
         /\ s \in {"int", "double", "ambiguous", "attribute", "other"} => x.t \notin {"time", "dur"}
         /\ s \in {"double", "attribute", "other"} => x.t # "int64"
         /\ s = "other" => ~IsDouble(x)
<1>1. Good(x) /\ StaticKnows(s, k) /\ CheckerSays(k, x) /\ StaticSays(s, x)
  BY DEF Known
<1>2. k = "int" => x.t \in {"int64", "error"}
  BY <1>1 DEF CheckerSays, LiteralType, Good, KnownTypes
<1>3. k = "double" => x.t \in {"num", "nan", "negzero", "error"}
  BY <1>1 DEF CheckerSays, LiteralType, Good, KnownTypes
<1>4. k = "time" => x.t \in {"time", "error"}
  BY <1>1 DEF CheckerSays, LiteralType, Good, KnownTypes
<1>5. k = "dur" => x.t \in {"dur", "error"}
  BY <1>1 DEF CheckerSays, LiteralType, Good, KnownTypes
<1> QED BY <1>1, <1>2, <1>3, <1>4, <1>5 DEF StaticKnows, StaticSays

\* What the predicate computes in, by what CEL's values are.
LEMMA ModeIs ==
  ASSUME NEW op \in Arithmetic, NEW l, NEW r, NEW lt, NEW rt, NEW a, NEW b, Known(l, lt, a), Known(r, rt, b),
         Matching(op, lt, rt) # {}, ~IsTemporal(l, r),
         ArithmeticMode(op, l, r) # "refused"
  PROVE  LET mode == ArithmeticMode(op, l, r) IN
         /\ a.t \notin {"time", "dur"} /\ b.t \notin {"time", "dur"}
         /\ mode \in {"int", "error", "dynamic"}
         /\ mode = "int" => a.t \in {"int64", "error"} /\ b.t \in {"int64", "error"} /\ lt = "int" /\ rt = "int"
         /\ mode = "error" => (a.t # "int64" \/ b.t # "int64") /\ (op = "mod" \/ ~IsDouble(a) \/ ~IsDouble(b))
                              /\ (op = "add" => a.t # "str" \/ b.t # "str")
         /\ mode = "dynamic" =>
              /\ op # "mod"
              /\ \/ a.t # "int64" /\ b.t # "int64"
                 \/ ~(IsDouble(Erased(a)) /\ IsDouble(Erased(b))) /\ (a.t # "str" \/ b.t # "str")
<1> DEFINE mode == ArithmeticMode(op, l, r)
<1>1. l \in StaticTypes \ {"timestamp", "duration"} /\ r \in StaticTypes \ {"timestamp", "duration"}
  BY DEF Known, IsTemporal, TemporalName
<1>2. lt \in CheckerTypes /\ rt \in CheckerTypes /\ Good(a) /\ Good(b)
  BY DEF Known
<1>3. "unknown" \notin {l, r}
  BY DEF ArithmeticMode
<1>4. l \in {"int", "double", "ambiguous", "attribute", "other"} /\ r \in {"int", "double", "ambiguous", "attribute", "other"}
  BY <1>1, <1>3 DEF StaticTypes
<1>5. a.t \notin {"time", "dur"} /\ b.t \notin {"time", "dur"}
  BY <1>4, KnownIs
<1>6. mode \in {"int", "error", "dynamic"}
  BY DEF ArithmeticMode
<1>7. ASSUME mode = "int"
      PROVE  a.t \in {"int64", "error"} /\ b.t \in {"int64", "error"} /\ lt = "int" /\ rt = "int"
  <2>1. l \in IntLike /\ r \in IntLike /\ (op = "mod" \/ l = "int" \/ r = "int")
    BY <1>3, <1>7 DEF ArithmeticMode
  <2>2. lt \in {"int", "double"} /\ rt \in {"int", "double"} /\ (l = "int" => lt = "int") /\ (r = "int" => rt = "int")
    BY <2>1, KnownIs DEF IntLike
  <2>3. lt = "int" /\ rt = "int"
    BY <1>2, <2>1, <2>2, MatchingIs
  <2> QED BY <2>3, KnownIs
<1>8. ASSUME mode = "error"
      PROVE  /\ a.t # "int64" \/ b.t # "int64"
             /\ op = "mod" \/ ~IsDouble(a) \/ ~IsDouble(b)
             /\ op = "add" => a.t # "str" \/ b.t # "str"
  <2>1. CASE op = "mod"
    <3>1. l \notin IntLike \/ r \notin IntLike
      BY <1>3, <1>8, <2>1 DEF ArithmeticMode
    <3>2. l \in {"double", "attribute", "other"} \/ r \in {"double", "attribute", "other"}
      BY <1>4, <3>1 DEF IntLike
    <3> QED BY <2>1, <3>2, KnownIs
  <2>2. CASE op # "mod"
    <3>1. \/ l = "int" /\ r \notin IntLike \union {"double"}
          \/ r = "int" /\ l \notin IntLike \union {"double"}
      BY <1>3, <1>8, <2>2 DEF ArithmeticMode, IntLike
    <3>2. \/ l = "int" /\ r \in {"attribute", "other"}
          \/ r = "int" /\ l \in {"attribute", "other"}
      BY <1>4, <3>1 DEF IntLike
    <3>3. \/ a.t \in {"int64", "error"} /\ b.t # "int64"
          \/ b.t \in {"int64", "error"} /\ a.t # "int64"
      BY <3>2, KnownIs
    <3> QED BY <3>3 DEF IsDouble
  <2> QED BY <2>1, <2>2
<1>9. ASSUME mode = "dynamic"
      PROVE  /\ op # "mod"
             /\ \/ a.t # "int64" /\ b.t # "int64"
                \/ ~(IsDouble(Erased(a)) /\ IsDouble(Erased(b))) /\ (a.t # "str" \/ b.t # "str")
  <2>1. op # "mod" /\ l # "int" /\ r # "int" /\ {l, r} \notin {{"ambiguous", "attribute"}, {"ambiguous"}}
    BY <1>3, <1>9 DEF ArithmeticMode
  <2>2. \/ l \in {"double", "attribute", "other"} /\ r \in {"double", "attribute", "other"}
        \/ (l = "ambiguous" /\ r = "double") \/ (r = "ambiguous" /\ l = "double")
        \/ l = "ambiguous" /\ r = "other"
        \/ r = "ambiguous" /\ l = "other"
    BY <1>4, <2>1
  <2>3. CASE l \in {"double", "attribute", "other"} /\ r \in {"double", "attribute", "other"}
    BY <2>1, <2>3, KnownIs
  <2>4. CASE (l = "ambiguous" /\ r = "double") \/ (r = "ambiguous" /\ l = "double")
    <3>1. lt = "double" /\ rt = "double"
      BY <1>2, <2>4, KnownIs, MatchingIs
    <3> QED BY <2>1, <3>1, KnownIs
  <2>5. CASE l = "ambiguous" /\ r = "other"
    <3>1. ~IsDouble(b) /\ b.t # "int64" /\ a.t # "str"
      BY <2>5, KnownIs
    <3> QED BY <1>2, <2>1, <3>1, ErasedIs DEF IsDouble
  <2>6. CASE r = "ambiguous" /\ l = "other"
    <3>1. ~IsDouble(a) /\ a.t # "int64" /\ b.t # "str"
      BY <2>6, KnownIs
    <3> QED BY <1>2, <2>1, <3>1, ErasedIs DEF IsDouble
  <2> QED BY <2>2, <2>3, <2>4, <2>5, <2>6
<1> QED BY <1>5, <1>6, <1>7, <1>8, <1>9

\* A temporal operand is known to be one, and so is the other.
LEMMA TemporalKnown ==
  ASSUME NEW op, NEW l, NEW r, NEW lt, NEW rt, NEW a, NEW b, Known(l, lt, a), Known(r, rt, b),
         TemporalStatic(op, l, r) # "none"
  PROVE  /\ lt = TemporalName(l) /\ rt = TemporalName(r)
         /\ a.t \in {lt, "error"} /\ b.t \in {rt, "error"}
         /\ lt \in {"time", "dur"} /\ rt \in {"time", "dur"} /\ TemporalType(op, lt, rt) = TemporalStatic(op, l, r)
<1>1. TemporalName(l) \in {"time", "dur"} /\ TemporalName(r) \in {"time", "dur"}
  BY TemporalIs DEF TemporalStatic
<1>2. (TemporalName(l) = "time" => l = "timestamp") /\ (TemporalName(l) = "dur" => l = "duration")
  BY DEF TemporalName
<1>3. (TemporalName(r) = "time" => r = "timestamp") /\ (TemporalName(r) = "dur" => r = "duration")
  BY DEF TemporalName
<1>4. lt = TemporalName(l) /\ a.t \in {lt, "error"}
  BY <1>1, <1>2, KnownIs
<1>5. rt = TemporalName(r) /\ b.t \in {rt, "error"}
  BY <1>1, <1>3, KnownIs
<1> QED BY <1>1, <1>4, <1>5 DEF TemporalStatic

LEMMA RunArithmeticIs ==
  ASSUME NEW op \in Arithmetic, NEW l, NEW r, NEW lt, NEW rt, NEW a, NEW b, Known(l, lt, a), Known(r, rt, b),
         Matching(op, lt, rt) # {},
         IF IsTemporal(l, r) THEN TemporalStatic(op, l, r) # "none"
         ELSE /\ ArithmeticMode(op, l, r) # "refused"
              /\ op = "div" /\ ArithmeticMode(op, l, r) = "dynamic" => b # NegativeZero
  PROVE  RunArithmetic(op, l, r, Erased(a), Erased(b)) = Erased(CelArithmetic(op, a, b))
<1>1. Good(a) /\ Good(b)
  BY DEF Known
<1>2. PICK c, d : c = Erased(a) /\ d = Erased(b)
  OBVIOUS
<1>3. PICK x : x = CelArithmetic(op, a, b)
  OBVIOUS
<1>4. Erased(Err) = Err
  BY Constants DEF Erased, Unsigned
<1>5. CASE a.t = "error" \/ b.t = "error"
  <2>1. x = Err
    BY <1>1, <1>3, <1>5, CelArithmeticErr
  <2>2. Err \in {c, d}
    BY <1>1, <1>2, <1>5, ErasedPair
  <2> QED BY <1>2, <1>3, <1>4, <2>1, <2>2 DEF RunArithmetic
<1>6. CASE a.t # "error" /\ b.t # "error"
  <2>1. Err \notin {c, d}
    BY <1>1, <1>2, <1>6, ErasedPair
  <2>2. CASE IsTemporal(l, r)
    <3>1. a.t \in {"time", "dur"} /\ b.t \in {"time", "dur"} /\ TemporalType(op, a.t, b.t) # "none"
      BY <1>6, <2>2, TemporalKnown
    <3>2. c = a /\ d = b
      BY <1>1, <1>2, <3>1, ErasedIs
    <3>3. RunArithmetic(op, l, r, c, d) = Temporal(op, a, b)
      BY <2>1, <2>2, <3>1, <3>2 DEF RunArithmetic
    <3>4. x = Temporal(op, a, b) /\ Good(x) /\ x.t \in {"time", "dur"}
      BY <1>1, <1>3, <3>1, CelArithmeticIs, TemporalGood, TemporalIs
    <3>5. Erased(x) = x
      BY <3>4, ErasedIs
    <3> QED BY <1>2, <1>3, <3>3, <3>4, <3>5
  <2>3. CASE ~IsTemporal(l, r)
    <3>1. PICK mode : mode = ArithmeticMode(op, l, r)
      OBVIOUS
    <3>2. ArithmeticMode(op, l, r) # "refused"
      BY <2>3
    <3>3. CASE mode = "int"
      <4>1. a.t = "int64" /\ b.t = "int64"
        <5>1. ArithmeticMode(op, l, r) = "int"
          BY <3>1, <3>3
        <5>2. a.t \in {"int64", "error"} /\ b.t \in {"int64", "error"}
          BY <2>3, <5>1, ModeIs
        <5> QED BY <1>6, <5>2
      <4>2. c.t = "num" /\ c.v = a.v /\ d.t = "num" /\ d.v = b.v
        BY <1>1, <1>2, <4>1, ErasedIs
      <4>3. a.v % 2 = 0 /\ b.v % 2 = 0
        BY <1>1, <4>1 DEF Good
      <4>4. ~IsFraction(c) /\ ~IsFraction(d) /\ {c.t, d.t} = {"num"}
        BY <4>2, <4>3 DEF IsFraction
      <4>5. RunArithmetic(op, l, r, c, d) = Erased(IntArithmetic(op, c.v \div 2, d.v \div 2))
        BY <2>1, <2>3, <3>1, <3>3, <4>4 DEF RunArithmetic
      <4>6. x = IntArithmetic(op, a.v \div 2, b.v \div 2)
        BY <1>1, <1>3, <4>1, CelArithmeticIs
      <4> QED BY <1>2, <1>3, <4>2, <4>5, <4>6
    <3>4. CASE mode = "error"
      <4>1. RunArithmetic(op, l, r, c, d) = Err
        BY <2>1, <2>3, <3>1, <3>4 DEF RunArithmetic
      <4>2. a.t \notin {"time", "dur"} /\ (a.t # "int64" \/ b.t # "int64") /\ (op = "mod" \/ ~IsDouble(a) \/ ~IsDouble(b))
            /\ (op = "add" => a.t # "str" \/ b.t # "str")
        <5>1. ArithmeticMode(op, l, r) = "error"
          BY <3>1, <3>4
        <5> QED BY <2>3, <5>1, ModeIs
      <4>3. x.t = "error" /\ Good(x)
        BY <1>1, <1>3, <4>2, CelArithmeticIs, TemporalIs DEF IsDouble
      <4>4. x = Err
        BY <4>3, GoodIs
      <4> QED BY <1>2, <1>3, <1>4, <4>1, <4>4
    <3>5. CASE mode = "dynamic"
      <4>1. /\ a.t \notin {"time", "dur"} /\ b.t \notin {"time", "dur"} /\ op # "mod"
            /\ \/ a.t # "int64" /\ b.t # "int64"
               \/ ~(IsDouble(c) /\ IsDouble(d)) /\ (a.t # "str" \/ b.t # "str")
        <5>1. ArithmeticMode(op, l, r) = "dynamic"
          BY <3>1, <3>5
        <5>2. /\ a.t \notin {"time", "dur"} /\ b.t \notin {"time", "dur"} /\ op # "mod"
              /\ \/ a.t # "int64" /\ b.t # "int64"
                 \/ ~(IsDouble(Erased(a)) /\ IsDouble(Erased(b))) /\ (a.t # "str" \/ b.t # "str")
          BY <2>3, <5>1, ModeIs
        <5> QED BY <1>2, <5>2
      <4>2. RunArithmetic(op, l, r, c, d) =
              IF IsDouble(c) /\ IsDouble(d) THEN DoubleArithmetic(op, c, d)
              ELSE IF op = "add" /\ c.t = "str" /\ d.t = "str" THEN [t |-> "str", v |-> c.v + d.v] ELSE Err
        BY <2>1, <2>3, <3>1, <3>5 DEF RunArithmetic
      <4>3. CASE a.t # "int64" /\ b.t # "int64"
        <5>1. (IsDouble(c) <=> IsDouble(a)) /\ (IsDouble(d) <=> IsDouble(b)) /\ (c.t = "str" <=> a.t = "str")
              /\ (d.t = "str" <=> b.t = "str") /\ c.v = a.v /\ d.v = b.v
          BY <1>1, <1>2, <4>3, ErasedIs DEF IsDouble
        <5>2. CASE IsDouble(a) /\ IsDouble(b)
          <6>1. op \notin {"add", "sub", "mod"} => b # NegativeZero
            BY <2>3, <3>1, <3>5 DEF Arithmetic
          <6>2. DoubleArithmetic(op, c, d) = DoubleArithmetic(op, a, b)
            BY <1>1, <1>2, <5>2, <6>1, DoubleUnsigned
          <6>3. x = DoubleArithmetic(op, a, b) /\ x.t \in {"num", "nan", "error"} /\ Good(x)
            BY <1>1, <1>3, <5>2, CelArithmeticIs
          <6>4. Erased(x) = x
            BY <6>3, ErasedIs
          <6> QED BY <1>2, <1>3, <4>2, <5>1, <5>2, <6>2, <6>3, <6>4
        <5>3. CASE ~(IsDouble(a) /\ IsDouble(b))
          <6>1. TemporalType(op, a.t, b.t) = "none"
            BY <4>1, TemporalIs
          <6>2. x = IF op = "add" /\ a.t = "str" /\ b.t = "str" THEN [t |-> "str", v |-> a.v + b.v] ELSE Err
            BY <1>3, <4>3, <5>3, <6>1 DEF CelArithmetic
          <6>3. RunArithmetic(op, l, r, c, d) = x
            BY <4>2, <5>1, <5>3, <6>2
          <6>4. x.t \in {"str", "error"} /\ Good(x)
            <7>1. Good(x) /\ (IsDouble(x) => IsDouble(a) /\ IsDouble(b))
              BY <1>1, <1>3, CelArithmeticIs
            <7>2. x.t \in {"int64", "num", "nan", "str", "time", "dur", "error"}
              BY <1>1, <1>3, CelArithmeticIs
            <7>3. x.t # "int64" /\ x.t \notin {"time", "dur"}
              BY <1>1, <1>3, <4>3, <6>1, CelArithmeticIs, TemporalIs
            <7> QED BY <5>3, <7>1, <7>2, <7>3 DEF IsDouble
          <6>5. Erased(x) = x
            BY <6>4, ErasedIs
          <6> QED BY <1>2, <1>3, <6>3, <6>5
        <5> QED BY <5>2, <5>3
      <4>4. CASE ~(a.t # "int64" /\ b.t # "int64")
        <5>1. ~(IsDouble(c) /\ IsDouble(d)) /\ (a.t # "str" \/ b.t # "str")
          BY <4>1, <4>4
        <5>2. c.t # "str" \/ d.t # "str"
          BY <1>1, <1>2, <5>1, ErasedIs
        <5>3. RunArithmetic(op, l, r, c, d) = Err
          BY <4>2, <5>1, <5>2
        <5>4. ~(a.t = "int64" /\ b.t = "int64")
          BY <1>1, <1>2, <5>1, ErasedIs DEF IsDouble
        <5>5. ~(IsDouble(a) /\ IsDouble(b))
          BY <4>4 DEF IsDouble
        <5>6. x.t = "error" /\ Good(x)
          BY <1>1, <1>3, <4>1, <5>1, <5>4, <5>5, CelArithmeticIs, TemporalIs DEF IsDouble
        <5>7. x = Err
          BY <5>6, GoodIs
        <5> QED BY <1>2, <1>3, <1>4, <5>3, <5>7
      <4> QED BY <4>3, <4>4
    <3> QED BY <2>3, <3>1, <3>2, <3>3, <3>4, <3>5, ModeIs
  <2> QED BY <2>2, <2>3
<1> QED BY <1>5, <1>6

LEMMA ArithmeticKnown ==
  ASSUME NEW op \in Arithmetic, NEW l, NEW r, NEW lt, NEW rt, NEW a, NEW b, Known(l, lt, a), Known(r, rt, b),
         Matching(op, lt, rt) # {},
         IF IsTemporal(l, r) THEN TemporalStatic(op, l, r) # "none" ELSE ArithmeticMode(op, l, r) # "refused"
  PROVE  Known(ArithmeticStatic(op, l, r), ResultType(op, lt, rt), CelArithmetic(op, a, b))
<1>1. Good(a) /\ Good(b) /\ lt \in CheckerTypes /\ rt \in CheckerTypes /\ CheckerSays(lt, a) /\ CheckerSays(rt, b)
  BY DEF Known
<1>2. PICK s, k, x : s = ArithmeticStatic(op, l, r) /\ k = ResultType(op, lt, rt) /\ x = CelArithmetic(op, a, b)
  OBVIOUS
<1>3. Good(x) /\ k \in CheckerTypes /\ CheckerSays(k, x)
  BY <1>1, <1>2, CelArithmeticIs, ResultTypeIs, CheckedArithmetic DEF CheckerTypes
<1>4. s \in StaticTypes
  BY <1>2 DEF ArithmeticStatic, StaticTypes
<1>5. CASE IsTemporal(l, r)
  <2>1. PICK type : type = TemporalStatic(op, l, r)
    OBVIOUS
  <2>2. type \in {"time", "dur"}
    BY <1>5, <2>1, TemporalIs DEF TemporalStatic
  <2>3. s = IF type = "time" THEN "timestamp" ELSE "duration"
    BY <1>2, <1>5, <2>1 DEF ArithmeticStatic
  <2>4. lt \in {"time", "dur"} /\ rt \in {"time", "dur"} /\ TemporalType(op, lt, rt) = type
    BY <2>1, <2>2, TemporalKnown
  <2>5. k = type
    BY <1>1, <1>2, <2>4, OverloadsLeft
  <2> QED BY <1>2, <1>3, <1>4, <2>2, <2>3, <2>5 DEF Known, StaticKnows, StaticSays
<1>6. CASE ~IsTemporal(l, r)
  <2>1. PICK mode : mode = ArithmeticMode(op, l, r)
    OBVIOUS
  <2>2. ArithmeticMode(op, l, r) # "refused"
    BY <1>6
  <2>3. a.t \notin {"time", "dur"} /\ b.t \notin {"time", "dur"} /\ ArithmeticMode(op, l, r) \in {"int", "error", "dynamic"}
    BY <1>6, <2>2, ModeIs
  <2>4. x.t \notin {"time", "dur"}
    BY <1>1, <1>2, <2>3, CelArithmeticIs, TemporalIs
  <2>5. s = IF mode = "int" THEN "int"
            ELSE IF mode = "dynamic" /\ "double" \in {l, r} THEN "double"
            ELSE IF mode = "dynamic" /\ "attribute" \in {l, r} THEN "attribute"
            ELSE "other"
    BY <1>2, <1>6, <2>1 DEF ArithmeticStatic
  <2>6. CASE mode = "int"
    <3>1. ArithmeticMode(op, l, r) = "int"
      BY <2>1, <2>6
    <3>2. lt = "int" /\ rt = "int"
      BY <1>6, <3>1, ModeIs
    <3>3. k = "int"
      BY <1>1, <1>2, <3>2, OverloadsLeft
    <3>4. s = "int"
      BY <2>5, <2>6
    <3> QED BY <1>2, <1>3, <1>4, <3>3, <3>4 DEF Known, StaticKnows, StaticSays
  <2>7. CASE mode = "error"
    <3>1. ArithmeticMode(op, l, r) = "error"
      BY <2>1, <2>7
    <3>2. (a.t # "int64" \/ b.t # "int64") /\ (op = "mod" \/ ~IsDouble(a) \/ ~IsDouble(b))
      BY <1>6, <3>1, ModeIs
    <3>3. x.t # "int64" /\ ~IsDouble(x)
      BY <1>1, <1>2, <3>2, CelArithmeticIs
    <3>4. s = "other"
      BY <2>5, <2>7
    <3> QED BY <1>2, <1>3, <1>4, <2>4, <3>3, <3>4 DEF Known, StaticKnows, StaticSays
  <2>8. CASE mode = "dynamic"
    <3>1. ArithmeticMode(op, l, r) = "dynamic"
      BY <2>1, <2>8
    <3>2. \/ a.t # "int64" /\ b.t # "int64"
          \/ ~(IsDouble(Erased(a)) /\ IsDouble(Erased(b)))
      BY <1>6, <3>1, ModeIs
    <3>3. x.t # "int64"
      BY <1>1, <1>2, <3>2, CelArithmeticIs, ErasedIs DEF IsDouble
    <3>4. CASE "double" \in {l, r}
      <4>1. lt = "double" \/ rt = "double"
        BY <3>4, KnownIs
      <4>2. k = "double"
        BY <1>1, <1>2, <4>1, OverloadsLeft
      <4>3. s = "double"
        BY <2>5, <2>8, <3>4
      <4> QED BY <1>2, <1>3, <1>4, <4>2, <4>3 DEF Known, StaticKnows, StaticSays
    <3>5. CASE "double" \notin {l, r} /\ "attribute" \in {l, r}
      <4>1. s = "attribute"
        BY <2>5, <2>8, <3>5
      <4> QED BY <1>2, <1>3, <1>4, <2>4, <3>3, <4>1 DEF Known, StaticKnows, StaticSays
    <3>6. CASE "double" \notin {l, r} /\ "attribute" \notin {l, r}
      <4>1. s = "other"
        BY <2>5, <2>8, <3>6
      <4>2. l = "other" \/ r = "other"
        <5>1. l \in StaticTypes /\ r \in StaticTypes
          BY DEF Known
        <5>2. l \notin {"timestamp", "duration"} /\ r \notin {"timestamp", "duration"}
          BY <1>6 DEF IsTemporal, TemporalName
        <5>3. "unknown" \notin {l, r} /\ {l, r} # {"ambiguous"}
          BY <3>1 DEF ArithmeticMode
        <5>4. ~(l \in IntLike /\ r \in IntLike)
          BY <3>1, <5>3 DEF ArithmeticMode, IntLike
        <5> QED BY <3>6, <5>1, <5>2, <5>3, <5>4 DEF StaticTypes, IntLike
      <4>3. ~IsDouble(a) \/ ~IsDouble(b)
        BY <4>2, KnownIs
      <4>4. ~IsDouble(x)
        BY <1>1, <1>2, <4>3, CelArithmeticIs
      <4> QED BY <1>2, <1>3, <1>4, <2>4, <3>3, <4>1, <4>4 DEF Known, StaticKnows, StaticSays
    <3> QED BY <3>4, <3>5, <3>6
  <2> QED BY <2>1, <2>3, <2>6, <2>7, <2>8
<1> QED BY <1>5, <1>6

-----------------------------------------------------------------------------
(* Comparisons and conversions without the policy's types *)

LEMMA CompareJsIs ==
  ASSUME NEW op \in Comparisons, NEW a, NEW b, Good(a), Good(b),
         ~(op \in Orderings /\ NaN \in {a, b} /\ Compare(op, a, b) = Err)
  PROVE  CompareJs(op, Erased(a), Erased(b)) = Compare(op, a, b)
<1>1. PICK c, d : c = Erased(a) /\ d = Erased(b)
  OBVIOUS
<1>2. Compare(op, c, d) = Compare(op, a, b)
  BY <1>1, CompareErased
<1>3. CASE op \in Orderings /\ NaN \in {c, d} /\ Err \notin {c, d}
  <2>1. (c = NaN <=> a = NaN) /\ (d = NaN <=> b = NaN)
    BY <1>1, ErasedIs, GoodIs
  <2>2. op \notin Equalities /\ Unsigned(c) = c /\ Unsigned(d) = d
    BY <1>1, <1>3, ErasedIs DEF Equalities, Orderings
  <2>3. Compare(op, c, d) \in {False, Err}
    BY <1>3, <2>2 DEF Compare
  <2>4. Compare(op, a, b) = False
    BY <1>2, <1>3, <2>1, <2>3
  <2> QED BY <1>1, <1>3, <2>4 DEF CompareJs
<1>4. CASE ~(op \in Orderings /\ NaN \in {c, d} /\ Err \notin {c, d})
  BY <1>1, <1>2, <1>4 DEF CompareJs
<1> QED BY <1>3, <1>4

LEMMA RunConversionIs ==
  ASSUME NEW op \in Conversions, NEW n, NEW x, Known(n.static, n.celStatic, x), ~n.reads => x # NegativeZero,
         ~ConversionRefused(op, n), ~(op \in {"timestamp", "duration"} /\ n.static = op),
         ~(op = "double" /\ IsDouble(x) /\ ~IsFinite(x))
  PROVE  RunConversion(op, n.static, Erased(x)) = Erased(CelConvert(op, x))
<1>1. PICK c, s : c = Erased(x) /\ s = n.static
  OBVIOUS
<1>2. Good(x) /\ Good(c) /\ x.v \in Int /\ c.v = x.v /\ s \in StaticTypes
  BY <1>1, ErasedIs, GoodIs DEF Known
<1>3. x.t \notin {"int64", "negzero"} => c = x
  BY <1>1, <1>2, ErasedIs
<1>4. x.t \in {"int64", "negzero"} => c = Num(x.v)
  BY <1>1, <1>2, ErasedIs
<1>5. CASE op = "string"
  <2>1. s \notin {"timestamp", "duration", "ambiguous", "unknown"} /\ (s \notin {"int", "other"} => ~n.reads)
    BY <1>1, <1>5 DEF ConversionRefused
  <2>2. Good(CelConvert("string", x)) /\ CelConvert("string", x).t \in {"str", "error"}
    BY <1>2, StringIs
  <2>3. Erased(CelConvert("string", x)) = CelConvert("string", x)
    BY <2>2, ErasedIs
  <2>4. CASE s = "int" /\ x.t = "int64"
    <3>1. c = Num(x.v)
      BY <1>4, <2>4
    <3>2. c.t = "num"
      BY <3>1 DEF Num
    <3>3. RunConversion(op, s, c) = CelConvert("string", Int64(c.v))
      BY <1>5, <2>4, <3>2 DEF RunConversion
    <3>4. Int64(c.v) = x
      BY <1>2, <2>4 DEF Int64, Good
    <3> QED BY <1>1, <1>5, <2>3, <3>3, <3>4
  <2>5. CASE ~(s = "int" /\ x.t = "int64")
    <3>1. x.t \notin {"int64", "negzero"}
      <4>1. CASE s = "int"
        <5>1. x.t \in {"int64", "error"}
          BY <1>1, <4>1, KnownIs
        <5> QED BY <2>5, <4>1, <5>1
      <4>2. CASE s = "other"
        BY <1>1, <4>2, KnownIs DEF IsDouble
      <4>3. CASE s \in {"double", "attribute"}
        <5>1. x # NegativeZero
          BY <2>1, <4>3
        <5> QED BY <1>1, <1>2, <4>3, <5>1, GoodIs, KnownIs
      <4> QED BY <1>2, <2>1, <4>1, <4>2, <4>3 DEF StaticTypes
    <3>2. c = x
      BY <1>3, <3>1
    <3>3. ~(s = "int" /\ c.t = "num")
      <4>1. s = "int" => x.t \in {"int64", "error"}
        BY <1>1, KnownIs
      <4> QED BY <3>2, <4>1
    <3>4. Erased(CelConvert(op, c)) = RunConversion(op, s, c)
      BY <1>5, <3>3 DEF RunConversion
    <3> QED BY <1>1, <3>2, <3>4
  <2> QED BY <2>4, <2>5
<1>6. CASE op = "int"
  <2>1. RunConversion(op, s, c) = Erased(CelConvert("int", c))
    BY <1>6 DEF RunConversion
  <2>2. CelConvert("int", c) = CelConvert("int", x)
    BY <1>1, <1>2, IntErased
  <2> QED BY <1>1, <1>6, <2>1, <2>2
<1>7. CASE op = "double"
  <2>1. RunConversion(op, s, c) = IF IsDouble(c) THEN IF IsFinite(c) THEN c ELSE Err ELSE Erased(CelConvert("double", c))
    BY <1>7 DEF RunConversion
  <2>2. CASE IsDouble(x)
    <3>1. IsDouble(c) /\ CelConvert("double", x) = x
      BY <1>1, <1>2, <2>2, ErasedIs DEF IsDouble, CelConvert
    <3>2. IsFinite(c)
      <4>1. x.t # "nan" /\ x.v \in -(2 * DoubleMax) .. 2 * DoubleMax
        BY <1>7, <2>2 DEF IsFinite
      <4>2. c.t # "nan"
        BY <1>1, <1>2, <4>1, ErasedIs
      <4> QED BY <1>2, <4>1, <4>2 DEF IsFinite
    <3> QED BY <1>1, <1>7, <2>1, <3>1, <3>2
  <2>3. CASE x.t = "int64"
    <3>1. c = Num(x.v) /\ c.t = "num" /\ c.v = x.v
      BY <1>2, <1>4, <2>3 DEF Num
    <3>2. x.v \in -(2 * Int64Max) .. 2 * Int64Max
      BY <1>2, <2>3 DEF Good
    <3>3. x.v \in -(2 * DoubleMax) .. 2 * DoubleMax
      BY <3>2, Numbers
    <3>4. IsDouble(c) /\ IsFinite(c)
      BY <3>1, <3>3 DEF IsDouble, IsFinite
    <3>5. CelConvert("double", x) = c
      BY <2>3, <3>1 DEF CelConvert, IsDouble
    <3>6. Erased(c) = c
      BY <1>1, <1>2, ErasedIs
    <3> QED BY <1>1, <1>7, <2>1, <3>4, <3>5, <3>6
  <2>4. CASE ~IsDouble(x) /\ x.t # "int64"
    <3>1. c = x
      BY <1>3, <2>4 DEF IsDouble
    <3> QED BY <1>1, <1>7, <2>1, <2>4, <3>1
  <2> QED BY <2>2, <2>3, <2>4
<1>8. CASE op \in {"timestamp", "duration"}
  <2>1. s \notin {"int", "ambiguous", "unknown", "timestamp", "duration"}
    BY <1>1, <1>8 DEF ConversionRefused, IntLike
  <2>2. x.t \notin {"int64", "time", "dur"}
    BY <1>1, <1>2, <2>1, KnownIs DEF StaticTypes
  <2>3. Erased(Err) = Err
    BY Constants DEF Erased, Unsigned
  <2>4. CASE x.t = "str"
    <3>1. c = x
      BY <1>3, <2>4
    <3>2. RunConversion(op, s, c) = Erased(CelConvert(op, c))
      BY <1>8, <2>4, <3>1 DEF RunConversion
    <3> QED BY <1>1, <3>1, <3>2
  <2>5. CASE x.t # "str"
    <3>1. c.t # "str"
      BY <1>1, <1>2, <2>5, ErasedIs
    <3>2. RunConversion(op, s, c) = Err
      BY <1>8, <3>1 DEF RunConversion
    <3>3. CelConvert(op, x) = Err
      BY <1>2, <1>8, <2>2, <2>5, TemporalConversionIs
    <3> QED BY <1>1, <2>3, <3>2, <3>3
  <2> QED BY <2>4, <2>5
<1> QED BY <1>5, <1>6, <1>7, <1>8 DEF Conversions

-----------------------------------------------------------------------------
(* The operators that Apply computes *)

\* The operators that Apply computes.
Applied == Junctions \union Macros \union {"not", "if", "in", "hasIntersection", "startsWith", "matches"}

LEMMA OperatorsAre ==
  ASSUME NEW op \in AllOperators
  PROVE  /\ op \in Comparisons \union Arithmetic \union Conversions \union {"size"} \/ op \in Applied
         /\ op \in Applied => op \notin Comparisons \union Arithmetic \union Conversions \union {"size"}
         /\ op \in Comparisons => op \notin Arithmetic \union Conversions \union {"size"}
         /\ op \in Arithmetic => op \notin Conversions \union {"size"}
         /\ op \in Conversions => op # "size"
         /\ op \notin {"value", "variable", "element"}
BY DEF AllOperators, Applied, Junctions, Macros, Comparisons, Equalities, Orderings, Arithmetic, Conversions

\* The places of an operator's operands.
LEMMA WidthIs ==
  ASSUME NEW op \in AllOperators
  PROVE  /\ Width(op) \in 1 .. 3 /\ 1 \in 1 .. Width(op)
         /\ op \notin Conversions \union {"not", "size"} => 2 \in 1 .. Width(op)
         /\ op = "if" => 3 \in 1 .. Width(op)
         /\ op \in Junctions \union Macros => Width(op) = 2 /\ 1 .. Width(op) = {1, 2}
BY DEF Width, AllOperators, Junctions, Macros, Conversions

LEMMA ApplyTri ==
  ASSUME NEW op \in Applied, NEW vals, NEW bodies
  PROVE  IF op = "if" THEN Apply(op, vals, bodies) \in {Err, vals[2], vals[3]} ELSE Apply(op, vals, bodies) \in Tri
<1>1. CASE op = "if"
  BY <1>1 DEF Apply, IfThenElse
<1>2. CASE op \in {"and", "or"}
  BY <1>2, JunctionTri DEF Apply
<1>3. CASE op = "not"
  BY <1>3, BoolIs DEF Apply, Not, Tri
<1>4. CASE op = "in"
  BY <1>4, BoolIs DEF Apply, In, Tri
<1>5. CASE op \in {"hasIntersection", "startsWith", "matches"}
  BY <1>5, BoolIs DEF Apply, HasIntersection, StartsWith, Tri
<1>6. CASE op \in {"exists", "all"}
  BY <1>6, JunctionTri DEF Apply, Exists, All, Tri
<1>7. CASE op = "existsOne"
  BY <1>7, BoolIs DEF Apply, ExistsOne, Tri
<1> QED BY <1>1, <1>2, <1>3, <1>4, <1>5, <1>6, <1>7 DEF Applied, Junctions, Macros

LEMMA ApplyErased ==
  ASSUME NEW op \in Applied, NEW f, NEW g, DOMAIN f = 1 .. Width(op), Erases(g, f), NEW p, NEW q, Erases(q, p)
  PROVE  Apply(op, g, q) = Erased(Apply(op, f, p))
<1>1. op \in AllOperators
  BY DEF Applied, AllOperators
<1>2. Good(f[1]) /\ g[1] = Erased(f[1])
  BY <1>1, WidthIs DEF Erases
<1>3. op # "not" => Good(f[2]) /\ g[2] = Erased(f[2])
  BY <1>1, WidthIs DEF Applied, Junctions, Macros, Conversions, Erases
<1>4. op = "if" => Good(f[3]) /\ g[3] = Erased(f[3])
  BY <1>1, WidthIs DEF Erases
<1>5. \A x \in Tri : Erased(x) = x
  BY GoodTri, ErasedIs
<1>6. CASE op = "if"
  <2>1. AsBoolean(g[1]) = AsBoolean(f[1]) /\ (g[1] = True <=> f[1] = True)
    BY <1>2, BooleanErased
  <2>2. IfThenElse(g[1], g[2], g[3]) = Erased(IfThenElse(f[1], f[2], f[3]))
    BY <1>3, <1>4, <1>5, <1>6, <2>1, Constants DEF IfThenElse, Tri
  <2> QED BY <1>6, <2>2 DEF Apply
<1>7. CASE op # "if"
  <2>1. Apply(op, f, p) \in Tri
    BY <1>7, ApplyTri
  <2>2. Apply(op, g, q) = Apply(op, f, p)
    <3>1. CASE op \in {"and", "or"}
      <4>1. ASSUME NEW d \in BOOLEAN PROVE Junction(d, {g[i] : i \in DOMAIN g}) = Junction(d, {f[i] : i \in DOMAIN f})
        <5>1. PICK S, T : S = {f[i] : i \in DOMAIN f} /\ T = {g[i] : i \in DOMAIN g}
          OBVIOUS
        <5>2. (\A x \in S : Good(x) /\ Erased(x) \in T) /\ \A y \in T : \E x \in S : y = Erased(x)
          BY <5>1 DEF Erases
        <5> QED BY <5>1, <5>2, JunctionErased
      <4> QED BY <3>1, <4>1 DEF Apply
    <3>2. CASE op = "not"
      <4>1. AsBoolean(g[1]) = AsBoolean(f[1]) /\ (g[1] = True <=> f[1] = True)
        BY <1>2, BooleanErased
      <4>2. Not(g[1]) = Not(f[1])
        BY <4>1 DEF Not, Bool
      <4> QED BY <3>2, <4>2 DEF Apply
    <3>3. CASE op = "in"
      <4>1. In(Unsigned(g[1]), g[2]) = In(Unsigned(f[1]), f[2])
        BY <1>2, <1>3, <3>3, InErased
      <4> QED BY <3>3, <4>1 DEF Apply
    <3>4. CASE op \in {"hasIntersection", "startsWith", "matches"}
      <4>1. HasIntersection(g[1], g[2]) = HasIntersection(f[1], f[2]) /\ StartsWith(g[1], g[2]) = StartsWith(f[1], f[2])
        BY <1>2, <1>3, <3>4, SequencesErased
      <4> QED BY <3>4, <4>1 DEF Apply
    <3>5. CASE op \in {"exists", "all", "existsOne"}
      <4>1. IsCollection(g[1]) <=> IsCollection(f[1])
        BY <1>2, ErasedIs DEF IsCollection
      <4>2. ASSUME NEW d \in BOOLEAN PROVE Junction(d, {q[i] : i \in DOMAIN q}) = Junction(d, {p[i] : i \in DOMAIN p})
        <5>1. PICK S, T : S = {p[i] : i \in DOMAIN p} /\ T = {q[i] : i \in DOMAIN q}
          OBVIOUS
        <5>2. (\A x \in S : Good(x) /\ Erased(x) \in T) /\ \A y \in T : \E x \in S : y = Erased(x)
          BY <5>1 DEF Erases
        <5> QED BY <5>1, <5>2, JunctionErased
      <4>3. ExistsOne(q) = ExistsOne(p)
        BY ExistsOneErased DEF Erases
      <4> QED BY <3>5, <4>1, <4>2, <4>3 DEF Apply, Exists, All
    <3> QED BY <1>7, <3>1, <3>2, <3>3, <3>4, <3>5 DEF Applied, Junctions, Macros
  <2> QED BY <1>5, <2>1, <2>2
<1> QED BY <1>6, <1>7

-----------------------------------------------------------------------------
(* One operator, in one environment *)

LEMMA RunArithmeticGood ==
  ASSUME NEW op \in Arithmetic, NEW l, NEW r, NEW a, NEW b, Good(a), Good(b)
  PROVE  Good(RunArithmetic(op, l, r, a, b)) /\ RunArithmetic(op, l, r, a, b).t # "int64"
<1>1. PICK x : x = RunArithmetic(op, l, r, a, b)
  OBVIOUS
<1>2. a.v \in Int /\ b.v \in Int
  BY GoodIs
<1>3. a.v \div 2 \in Int /\ b.v \div 2 \in Int /\ a.v + b.v \in Int
  BY <1>2
<1>4. \/ x = Err
      \/ TemporalType(op, a.t, b.t) # "none" /\ x = Temporal(op, a, b)
      \/ x = Erased(IntArithmetic(op, a.v \div 2, b.v \div 2))
      \/ x = DoubleArithmetic(op, a, b)
      \/ x = [t |-> "str", v |-> a.v + b.v]
  BY <1>1 DEF RunArithmetic
<1>5. CASE x = Err
  BY <1>1, <1>5, GoodSpecials, Constants
<1>6. CASE TemporalType(op, a.t, b.t) # "none" /\ x = Temporal(op, a, b)
  BY <1>1, <1>6, TemporalGood, TemporalIs
<1>7. CASE x = Erased(IntArithmetic(op, a.v \div 2, b.v \div 2))
  BY <1>1, <1>3, <1>7, IntArithmeticIs, ErasedIs
<1>8. CASE x = DoubleArithmetic(op, a, b)
  BY <1>1, <1>8, DoubleArithmeticIs DEF DoubleAnswer
<1>9. CASE x = [t |-> "str", v |-> a.v + b.v]
  BY <1>1, <1>3, <1>9, GoodOf
<1> QED BY <1>4, <1>5, <1>6, <1>7, <1>8, <1>9

LEMMA RunConversionGood ==
  ASSUME NEW op \in Conversions, NEW s, NEW x, Good(x), x.t # "int64"
  PROVE  Good(RunConversion(op, s, x)) /\ RunConversion(op, s, x).t # "int64"
<1>1. PICK y : y = RunConversion(op, s, x)
  OBVIOUS
<1>2. CASE op = "string" /\ s = "int" /\ x.t = "num"
  <2>1. y = Rendering("int64", x.v)
    BY <1>1, <1>2 DEF RunConversion, CelConvert, Int64
  <2> QED BY <1>1, <2>1, RenderingIs, GoodIs
<1>3. CASE ~(op = "string" /\ s = "int" /\ x.t = "num")
  <2>1. y \in {x, Err, Erased(CelConvert(op, x))}
    BY <1>1, <1>3 DEF RunConversion
  <2>2. Good(Erased(CelConvert(op, x))) /\ Erased(CelConvert(op, x)).t # "int64"
    BY ConvertGood, ErasedIs
  <2> QED BY <1>1, <2>1, <2>2, GoodSpecials, Constants
<1> QED BY <1>2, <1>3

LEMMA EvaluateCelGood ==
  ASSUME NEW op \in AllOperators, NEW f, DOMAIN f = 1 .. Width(op), \A i \in DOMAIN f : Good(f[i]), NEW p
  PROVE  Good(EvaluateCel(op, f, p))
<1>1. Good(f[1])
  BY WidthIs
<1>2. op \notin Conversions \union {"not", "size"} => Good(f[2])
  BY WidthIs
<1>3. op = "if" => Good(f[3])
  BY WidthIs
<1>4. CASE op \in Comparisons
  <2>1. EvaluateCel(op, f, p) = Compare(op, f[1], f[2])
    BY <1>4, OperatorsAre DEF EvaluateCel
  <2> QED BY <2>1, CompareTri, GoodTri
<1>5. CASE op \in Arithmetic
  <2>1. EvaluateCel(op, f, p) = CelArithmetic(op, f[1], f[2])
    BY <1>5, OperatorsAre DEF EvaluateCel
  <2>2. Good(f[2])
    BY <1>2, <1>5, OperatorsAre DEF Arithmetic
  <2> QED BY <1>1, <1>5, <2>1, <2>2, CelArithmeticIs
<1>6. CASE op \in Conversions
  <2>1. EvaluateCel(op, f, p) = CelConvert(op, f[1])
    BY <1>6, OperatorsAre DEF EvaluateCel
  <2> QED BY <1>1, <1>6, <2>1, ConvertGood
<1>7. CASE op = "size"
  <2>1. EvaluateCel(op, f, p) = CelSize(f[1])
    BY <1>7, OperatorsAre DEF EvaluateCel
  <2> QED BY <1>1, <2>1, SizeIs
<1>8. CASE op \in Applied
  <2>1. EvaluateCel(op, f, p) = Apply(op, f, p)
    BY <1>8, OperatorsAre DEF EvaluateCel
  <2>2. CASE op = "if"
    <3>1. Good(f[2]) /\ Good(f[3])
      BY <1>2, <1>3, <2>2 DEF Conversions
    <3>2. Apply(op, f, p) \in {Err, f[2], f[3]}
      BY <1>8, <2>2, ApplyTri
    <3> QED BY <2>1, <3>1, <3>2, GoodSpecials
  <2>3. CASE op # "if"
    BY <1>8, <2>1, <2>3, ApplyTri, GoodTri
  <2> QED BY <2>2, <2>3
<1> QED BY <1>4, <1>5, <1>6, <1>7, <1>8, OperatorsAre

LEMMA EvaluateJsGood ==
  ASSUME NEW op \in AllOperators, NEW f, DOMAIN f = 1 .. Width(op), \A i \in DOMAIN f : Good(f[i]) /\ f[i].t # "int64",
         NEW args, NEW p
  PROVE  Good(EvaluateJs(op, args, f, p)) /\ EvaluateJs(op, args, f, p).t # "int64"
<1>1. Good(f[1]) /\ f[1].t # "int64"
  BY WidthIs
<1>2. op \notin Conversions \union {"not", "size"} => Good(f[2]) /\ f[2].t # "int64"
  BY WidthIs
<1>3. op = "if" => Good(f[3]) /\ f[3].t # "int64"
  BY WidthIs
<1>4. CASE op \in Comparisons
  <2>1. EvaluateJs(op, args, f, p) = CompareJs(op, f[1], f[2])
    BY <1>4, OperatorsAre DEF EvaluateJs
  <2>2. CompareJs(op, f[1], f[2]) \in Tri
    BY CompareTri DEF CompareJs, Tri
  <2> QED BY <2>1, <2>2, GoodTri
<1>5. CASE op \in Arithmetic
  <2>1. EvaluateJs(op, args, f, p) = RunArithmetic(op, args[1].static, args[2].static, f[1], f[2])
    BY <1>5, OperatorsAre DEF EvaluateJs
  <2>2. Good(f[2])
    BY <1>2, <1>5, OperatorsAre DEF Arithmetic
  <2> QED BY <1>1, <1>5, <2>1, <2>2, RunArithmeticGood
<1>6. CASE op \in Conversions
  <2>1. EvaluateJs(op, args, f, p) = RunConversion(op, args[1].static, f[1])
    BY <1>6, OperatorsAre DEF EvaluateJs
  <2> QED BY <1>1, <1>6, <2>1, RunConversionGood
<1>7. CASE op = "size"
  <2>1. EvaluateJs(op, args, f, p) = Erased(CelSize(f[1]))
    BY <1>7, OperatorsAre DEF EvaluateJs
  <2> QED BY <1>1, <2>1, SizeIs, ErasedIs
<1>8. CASE op \in Applied
  <2>1. EvaluateJs(op, args, f, p) = Apply(op, f, p)
    BY <1>8, OperatorsAre DEF EvaluateJs
  <2>2. CASE op = "if"
    <3>1. Good(f[2]) /\ f[2].t # "int64" /\ Good(f[3]) /\ f[3].t # "int64"
      BY <1>2, <1>3, <2>2 DEF Conversions
    <3>2. Apply(op, f, p) \in {Err, f[2], f[3]}
      BY <1>8, <2>2, ApplyTri
    <3> QED BY <2>1, <3>1, <3>2, GoodSpecials, Constants
  <2>3. CASE op # "if"
    BY <1>8, <2>1, <2>3, ApplyTri, GoodTri
  <2> QED BY <2>2, <2>3
<1> QED BY <1>4, <1>5, <1>6, <1>7, <1>8, OperatorsAre

\* What the predicate may compute: it was compiled, and none of Disagreements is read.
Computable(op, args, f) ==
  /\ op \in Arithmetic =>
       /\ Known(args[1].static, args[1].celStatic, f[1])
       /\ Known(args[2].static, args[2].celStatic, f[2])
       /\ Matching(op, args[1].celStatic, args[2].celStatic) # {}
       /\ ~ArithmeticRefused(op, args[1], args[2])
       /\ ~args[2].reads => f[2] # NegativeZero
  /\ op \in Conversions =>
       /\ Known(args[1].static, args[1].celStatic, f[1])
       /\ ~ConversionRefused(op, args[1])
       /\ ~args[1].reads => f[1] # NegativeZero
       /\ ~(op \in {"timestamp", "duration"} /\ args[1].static = op)
       /\ ~(op = "double" /\ IsDouble(f[1]) /\ ~IsFinite(f[1]))
  /\ ~(op \in Orderings /\ NaN \in {f[1], f[2]} /\ Compare(op, f[1], f[2]) = Err)

\* What a node the predicate compiles computes in one environment is what CEL does.
LEMMA EvaluateFaithful ==
  ASSUME NEW op \in AllOperators, NEW args, NEW f, NEW g, DOMAIN f = 1 .. Width(op), Erases(g, f),
         NEW p, NEW q, Erases(q, p),
         Computable(op, args, f)
  PROVE  EvaluateJs(op, args, g, q) = Erased(EvaluateCel(op, f, p))
<1>1. Good(f[1]) /\ g[1] = Erased(f[1])
  BY WidthIs DEF Erases
<1>2. op \notin Conversions \union {"not", "size"} => Good(f[2]) /\ g[2] = Erased(f[2])
  BY WidthIs DEF Erases
<1>3. \A x \in Tri : Erased(x) = x
  BY GoodTri, ErasedIs
<1>4. CASE op \in Comparisons
  <2>1. EvaluateJs(op, args, g, q) = CompareJs(op, g[1], g[2]) /\ EvaluateCel(op, f, p) = Compare(op, f[1], f[2])
    BY <1>4, OperatorsAre DEF EvaluateJs, EvaluateCel
  <2>2. Good(f[2]) /\ g[2] = Erased(f[2])
    BY <1>2, <1>4, OperatorsAre DEF Comparisons, Equalities, Orderings
  <2>3. CompareJs(op, g[1], g[2]) = Compare(op, f[1], f[2])
    BY <1>1, <1>4, <2>2, CompareJsIs DEF Computable
  <2> QED BY <1>3, <2>1, <2>3, CompareTri
<1>5. CASE op \in Arithmetic
  <2>1. /\ EvaluateJs(op, args, g, q) = RunArithmetic(op, args[1].static, args[2].static, g[1], g[2])
        /\ EvaluateCel(op, f, p) = CelArithmetic(op, f[1], f[2])
    BY <1>5, OperatorsAre DEF EvaluateJs, EvaluateCel
  <2>2. g[2] = Erased(f[2])
    BY <1>2, <1>5, OperatorsAre DEF Arithmetic
  <2>3. IF IsTemporal(args[1].static, args[2].static) THEN TemporalStatic(op, args[1].static, args[2].static) # "none"
        ELSE /\ ArithmeticMode(op, args[1].static, args[2].static) # "refused"
             /\ op = "div" /\ ArithmeticMode(op, args[1].static, args[2].static) = "dynamic" => f[2] # NegativeZero
    BY <1>5 DEF ArithmeticRefused, Computable
  <2>4. /\ Known(args[1].static, args[1].celStatic, f[1]) /\ Known(args[2].static, args[2].celStatic, f[2])
        /\ Matching(op, args[1].celStatic, args[2].celStatic) # {}
    BY <1>5 DEF Computable
  <2> QED BY <1>1, <1>5, <2>1, <2>2, <2>3, <2>4, RunArithmeticIs
<1>6. CASE op \in Conversions
  <2>1. EvaluateJs(op, args, g, q) = RunConversion(op, args[1].static, g[1]) /\ EvaluateCel(op, f, p) = CelConvert(op, f[1])
    BY <1>6, OperatorsAre DEF EvaluateJs, EvaluateCel
  <2>2. PICK n, x : n = args[1] /\ x = f[1]
    OBVIOUS
  <2>3. /\ Known(n.static, n.celStatic, x) /\ (~n.reads => x # NegativeZero)
        /\ ~ConversionRefused(op, n) /\ ~(op \in {"timestamp", "duration"} /\ n.static = op)
        /\ ~(op = "double" /\ IsDouble(x) /\ ~IsFinite(x))
    BY <1>6, <2>2 DEF Computable
  <2>4. RunConversion(op, n.static, Erased(x)) = Erased(CelConvert(op, x))
    BY <1>6, <2>3, RunConversionIs
  <2> QED BY <1>1, <2>1, <2>2, <2>4
<1>7. CASE op = "size"
  <2>1. EvaluateJs(op, args, g, q) = Erased(CelSize(g[1])) /\ EvaluateCel(op, f, p) = CelSize(f[1])
    BY <1>7, OperatorsAre DEF EvaluateJs, EvaluateCel
  <2> QED BY <1>1, <2>1, SizeIs
<1>8. CASE op \in Applied
  <2>1. EvaluateJs(op, args, g, q) = Apply(op, g, q) /\ EvaluateCel(op, f, p) = Apply(op, f, p)
    BY <1>8, OperatorsAre DEF EvaluateJs, EvaluateCel
  <2>2. Apply(op, g, q) = Erased(Apply(op, f, p))
    BY <1>8, ApplyErased
  <2> QED BY <2>1, <2>2
<1> QED BY <1>4, <1>5, <1>6, <1>7, <1>8, OperatorsAre

-----------------------------------------------------------------------------
(* What a plan holds, and what an attribute may be *)

LEMMA LiteralIs == \A x \in Literals : Constant(x) /\ x # Undefined /\ (x.t = "list" => PlainList(x))
<1> SUFFICES ASSUME NEW x \in Literals PROVE Constant(x) /\ x # Undefined /\ (x.t = "list" => PlainList(x))
  OBVIOUS
<1>1. /\ x \in Value /\ x.t \in {"null", "num", "str", "bool", "list"}
      /\ x.t = "list" => \A m \in Members[x] : m.t # "int64"
  BY MetadataAssumption
<1>2. x.t = "list" => PlainList(x)
  BY <1>1 DEF Value, WellFormed, PlainList
<1> QED BY <1>1, <1>2, Constants DEF Constant

\* What the application sent, what is stored, and what the predicate reads.
LEMMA SentIs ==
  ASSUME NEW x \in Metadata, NEW s \in SentFor(x)
  PROVE  /\ Good(s) /\ s.t \in {"error", "num", "negzero", "str", "bool"}
         /\ x \in [t : Types, v : Int] /\ x.t \in {"undefined", "num", "str", "bool"}
         /\ x = Undefined <=> x.t = "undefined"
         /\ x = Undefined <=> s = Err
         /\ x # Undefined => Good(x) /\ Unsigned(s) = x /\ Erased(s) = x
         /\ x.t # "num" /\ x # Undefined => s = x
         /\ s.t = "bool" => s = x
<1>1. x \in Value /\ x.t \in {"undefined", "num", "str", "bool"}
  BY MetadataAssumption
<1>2. x \in [t : Types, v : Int] /\ WellFormed(x)
  BY <1>1 DEF Value
<1>3. x = Undefined <=> x.t = "undefined"
  BY <1>2 DEF WellFormed, Undefined
<1>4. x # Undefined => Good(x)
  BY <1>1, <1>2, <1>3 DEF WellFormed, Good, KnownTypes
<1>5. CASE x = Undefined
  <2>1. s = Err
    BY <1>5, Constants DEF SentFor, Num
  <2> QED BY <1>1, <1>2, <1>3, <1>5, <2>1, GoodSpecials, Constants
<1>6. CASE x # Undefined /\ s = NegativeZero
  <2>1. x = Num(0)
    BY <1>1, <1>6, Constants DEF SentFor
  <2>2. Erased(s) = Num(0) /\ Unsigned(s) = Num(0)
    BY <1>6, Constants DEF Erased, Unsigned
  <2> QED BY <1>1, <1>2, <1>3, <1>4, <1>6, <2>1, <2>2, GoodSpecials, Constants DEF Num
<1>7. CASE x # Undefined /\ s # NegativeZero
  <2>1. s = x
    BY <1>7 DEF SentFor
  <2>2. Erased(s) = x /\ Unsigned(s) = x
    BY <1>1, <1>3, <1>4, <1>7, <2>1, ErasedIs, UnsignedIs
  <2> QED BY <1>1, <1>2, <1>3, <1>4, <1>7, <2>1, <2>2, GoodIs
<1> QED BY <1>5, <1>6, <1>7

-----------------------------------------------------------------------------
(* What Chroma matches *)

LEMMA EqualIs ==
  ASSUME NEW x \in Metadata, x # Undefined, NEW lit, Constant(lit), NEW hidden \in {"int64", "num"},
         NEW y, y = Typed(hidden, lit)
  PROVE  /\ ValuesEqual(x, y) <=> x = lit
         /\ ValuesEqual(y, x) <=> x = lit
         /\ SameOrderedType(x, y) <=> SameOrderedType(x, lit)
         /\ SameOrderedType(y, x) <=> SameOrderedType(x, lit)
         /\ y.v = lit.v /\ x.v \in Int /\ y.v \in Int
<1>1. x \in [t : Types, v : Int] /\ x.t \in {"num", "str", "bool"}
  BY MetadataAssumption DEF Value, WellFormed, Undefined
<1>2. /\ y.v = lit.v /\ (lit.t # "num" => y = lit) /\ (lit.t = "num" => y.t \in {"int64", "num"})
  BY TypedIs
<1>3. lit \in [t : Types, v : Int] /\ lit.t # "int64"
  BY ConstantIs
<1>4. x.t = lit.t => (x = lit <=> x.v = lit.v)
  BY <1>1, <1>3
<1>5. CASE lit.t = "num"
  <2>1. IsNumeric(y) /\ (IsNumeric(x) <=> x.t = "num") /\ IsNumeric(lit) /\ y.t \notin {"str", "bool"}
    BY <1>1, <1>2, <1>5 DEF IsNumeric
  <2> QED BY <1>1, <1>2, <1>3, <1>4, <1>5, <2>1 DEF ValuesEqual, SameOrderedType
<1>6. CASE lit.t # "num"
  <2>1. y = lit /\ ~IsNumeric(lit)
    BY <1>2, <1>3, <1>6 DEF IsNumeric
  <2> QED BY <1>1, <1>3, <2>1 DEF ValuesEqual, SameOrderedType
<1> QED BY <1>5, <1>6

\* CEL's comparison of an attribute with a literal, by what is stored.
LEMMA ComparedIs ==
  ASSUME NEW op \in Comparisons, NEW x \in Metadata, NEW s \in SentFor(x), NEW lit, Constant(lit),
         NEW hidden \in {"int64", "num"}, NEW y, y = Typed(hidden, lit)
  PROVE  /\ x = Undefined => Compare(op, s, y) = Err /\ Compare(op, y, s) = Err
         /\ x # Undefined => Compare(op, s, y) = CompareValues(op, x, y) /\ Compare(op, y, s) = CompareValues(op, y, x)
<1>1. Good(y) /\ Unsigned(y) = y
  BY TypedIs
<1>2. y.t \notin {"error", "nan", "time", "dur"}
  BY TypedIs, ConstantIs
<1>3. y # Err /\ y # NaN
  BY <1>1, <1>2, GoodIs
<1>4. CASE x = Undefined
  <2>1. s = Err /\ Unsigned(s) = Err
    BY <1>4, SentIs, Constants DEF Unsigned
  <2> QED BY <1>4, <2>1 DEF Compare
<1>5. CASE x # Undefined
  <2>1. Unsigned(s) = x /\ Good(x) /\ x.t \in {"num", "str", "bool"}
    BY <1>5, SentIs
  <2>2. x # Err /\ x # NaN
    BY <2>1, GoodIs
  <2> QED BY <1>1, <1>2, <1>3, <1>5, <2>1, <2>2 DEF Compare
<1> QED BY <1>4, <1>5

LEMMA ComparedTo ==
  ASSUME NEW op \in Comparisons, NEW x \in Metadata, NEW s \in SentFor(x), NEW lit, Constant(lit),
         NEW hidden \in {"int64", "num"}, NEW y, y = Typed(hidden, lit)
  PROVE  /\ x # Undefined =>
              /\ op = "eq" => Compare(op, s, y) = Bool(x = lit)
              /\ op = "ne" => Compare(op, s, y) = Bool(x # lit)
              /\ op \in Orderings =>
                   Compare(op, s, y) = IF SameOrderedType(x, lit) THEN Bool(Ordered(op, x.v, lit.v)) ELSE Err
         /\ Compare(op, y, s) = Compare(Mirrored(op), s, y)
         /\ Compare(Negated(op), s, y) = True <=> Compare(op, s, y) = False
         /\ Mirrored(op) \in Comparisons /\ Negated(op) \in Comparisons
<1>1. Mirrored(op) \in Comparisons /\ Negated(op) \in Comparisons
  BY DEF Mirrored, Negated, Comparisons, Equalities, Orderings
<1>2. CASE x = Undefined
  BY <1>1, <1>2, ComparedIs, Constants
<1>3. CASE x # Undefined
  <2>1. /\ \A o \in Comparisons : Compare(o, s, y) = CompareValues(o, x, y) /\ Compare(o, y, s) = CompareValues(o, y, x)
    BY <1>3, ComparedIs
  <2>2. Good(x) /\ Good(y) /\ x # Err /\ y # Err
    BY <1>3, SentIs, TypedIs, ConstantIs, GoodIs
  <2>3. /\ ValuesEqual(x, y) <=> x = lit
        /\ ValuesEqual(y, x) <=> x = lit
        /\ SameOrderedType(x, y) <=> SameOrderedType(x, lit)
        /\ SameOrderedType(y, x) <=> SameOrderedType(x, lit)
        /\ y.v = lit.v /\ x.v \in Int /\ y.v \in Int
    BY <1>3, EqualIs
  <2>4. /\ CompareValues("eq", x, y) = Bool(x = lit) /\ CompareValues("eq", y, x) = Bool(x = lit)
        /\ CompareValues("ne", x, y) = Bool(x # lit) /\ CompareValues("ne", y, x) = Bool(x # lit)
    BY <2>2, <2>3 DEF CompareValues, Bool
  <2>5. ASSUME NEW o \in Orderings
        PROVE  /\ CompareValues(o, x, y) = IF SameOrderedType(x, lit) THEN Bool(Ordered(o, x.v, lit.v)) ELSE Err
               /\ CompareValues(o, y, x) = IF SameOrderedType(x, lit) THEN Bool(Ordered(o, lit.v, x.v)) ELSE Err
    BY <2>2, <2>3 DEF CompareValues, Bool, Orderings
  <2>6. ASSUME NEW o \in Orderings
        PROVE  /\ Mirrored(o) \in Orderings /\ Negated(o) \in Orderings
               /\ Ordered(o, lit.v, x.v) <=> Ordered(Mirrored(o), x.v, lit.v)
               /\ Ordered(Negated(o), x.v, lit.v) <=> ~Ordered(o, x.v, lit.v)
    BY <2>3 DEF Mirrored, Negated, Orderings, Ordered
  <2>7. CASE op \in Orderings
    <3>1. Compare(op, y, s) = Compare(Mirrored(op), s, y)
      BY <1>1, <2>1, <2>5, <2>6, <2>7 DEF Bool
    <3>2. Compare(Negated(op), s, y) = True <=> Compare(op, s, y) = False
      BY <1>1, <2>1, <2>5, <2>6, <2>7, BoolIs, Constants
    <3> QED BY <1>1, <1>3, <2>1, <2>5, <2>7, <3>1, <3>2 DEF Orderings
  <2>8. CASE op = "eq"
    <3>1. Mirrored(op) = "eq" /\ Negated(op) = "ne" /\ op \notin Orderings
      BY <2>8 DEF Mirrored, Negated, Orderings
    <3>2. Compare(op, s, y) = Bool(x = lit) /\ Compare(op, y, s) = Bool(x = lit) /\ Compare(Negated(op), s, y) = Bool(x # lit)
      BY <1>1, <2>1, <2>4, <2>8, <3>1
    <3>3. (Bool(x = lit) = True <=> Bool(x # lit) = False) /\ (Bool(x # lit) = True <=> Bool(x = lit) = False)
      BY Constants DEF Bool
    <3> QED BY <1>1, <1>3, <2>8, <3>1, <3>2, <3>3
  <2>9. CASE op = "ne"
    <3>1. Mirrored(op) = "ne" /\ Negated(op) = "eq" /\ op \notin Orderings
      BY <2>9 DEF Mirrored, Negated, Orderings
    <3>2. Compare(op, s, y) = Bool(x # lit) /\ Compare(op, y, s) = Bool(x # lit) /\ Compare(Negated(op), s, y) = Bool(x = lit)
      BY <1>1, <2>1, <2>4, <2>9, <3>1
    <3>3. (Bool(x = lit) = True <=> Bool(x # lit) = False) /\ (Bool(x # lit) = True <=> Bool(x = lit) = False)
      BY Constants DEF Bool
    <3> QED BY <1>1, <1>3, <2>9, <3>1, <3>2, <3>3
  <2> QED BY <2>7, <2>8, <2>9 DEF Comparisons, Equalities
<1> QED BY <1>2, <1>3

LEMMA CompareWhereShaped == \A d, x, op, lit : CompareWhere(d, x, op, lit) \in Wheres
<1>1. \A d, x, lit : Lowered(d, x, lit) \in BOOLEAN
  BY DEF Lowered
<1>2. \A op, a, b : Ordered(op, a, b) \in BOOLEAN
  BY DEF Ordered
<1>3. \A op, x, lit, float : ChromaMatches(op, x, lit, float) \in BOOLEAN
  BY <1>2 DEF ChromaMatches
<1>4. Unsupported \in Wheres /\ \A match \in BOOLEAN : Where(match) \in Wheres
  BY DEF Unsupported, Where, Wheres
<1> SUFFICES ASSUME NEW d, NEW x, NEW op, NEW lit PROVE CompareWhere(d, x, op, lit) \in Wheres
  OBVIOUS
<1>5. Where(Lowered(d, x, lit)) \in Wheres
  BY <1>1, <1>4
<1>6. Where(ChromaMatches(op, x, lit, d.numericType = "float")) \in Wheres
  BY <1>3, <1>4
<1> QED BY <1>4, <1>5, <1>6 DEF CompareWhere

\* inequalityWithoutNe: a spelling of != that a record without the key does not match.
LEMMA LoweredIs ==
  ASSUME NEW x \in Metadata, NEW d \in Declarations, Declares(d, x), NEW lit, Constant(lit), Lowers(d, lit)
  PROVE  Lowered(d, x, lit) <=> x # Undefined /\ x # lit
<1>1. x \in [t : Types, v : Int] /\ x.t \in {"undefined", "num", "str", "bool"} /\ (x = Undefined <=> x.t = "undefined")
  BY MetadataAssumption DEF Value, WellFormed, Undefined
<1>2. lit \in [t : Types, v : Int] /\ Good(lit)
  BY ConstantIs
<1>3. d.boolean \in BOOLEAN /\ (d.boolean => d.numericType = "none")
  BY MetadataAssumption DEF Declaration
<1>4. CASE d.boolean
  <2>1. lit.t = "bool" /\ lit \in {True, False}
    BY <1>2, <1>3, <1>4, GoodIs DEF Lowers
  <2>2. x.t \in {"undefined", "bool"}
    BY <1>4 DEF Declares
  <2>3. x # Undefined => Good(x)
    <3>1. x \in Value
      BY MetadataAssumption
    <3> QED BY <1>1, <3>1 DEF Value, WellFormed, Good, KnownTypes
  <2>4. x \in {Undefined, True, False}
    BY <1>1, <2>2, <2>3, GoodIs
  <2>5. Not(lit) = IF lit = True THEN False ELSE True
    BY <2>1, Constants DEF Not, AsBoolean, Bool
  <2>6. Lowered(d, x, lit) <=> x = Not(lit)
    BY <1>4 DEF Lowered
  <2>7. Undefined \notin {True, False}
    BY Constants
  <2> QED BY <2>1, <2>4, <2>5, <2>6, <2>7, Constants
<1>5. CASE ~d.boolean
  <2>1. d.numericType = "integer"
    BY <1>5 DEF Lowers
  <2>2. x.t \in {"undefined", "num"}
    BY <2>1 DEF Declares
  <2>3. Lowered(d, x, lit) <=> x.t = "num" /\ (lit.t = "num" => x.v # lit.v)
    BY <1>5 DEF Lowered
  <2> QED BY <1>1, <1>2, <2>2, <2>3
<1> QED BY <1>3, <1>4, <1>5

LEMMA TranslatedIs ==
  /\ \A match, P : Exact(Where(match), P) <=> (match <=> P)
  /\ \A P : Exact(Unsupported, P) /\ Exact(Malformed, P)
BY DEF Exact, Where, Unsupported, Malformed

\* What of a literal reaches the comparison itself.
LEMMA ComparedWhere ==
  ASSUME NEW d, NEW x, NEW op, NEW lit, ~(op = "ne" /\ Lowers(d, lit)), CompareWhere(d, x, op, lit).outcome = "translated"
  PROVE  /\ Accepts(op, lit) /\ (op \in {"ne", "nin"} => d.required)
         /\ CompareWhere(d, x, op, lit) = Where(ChromaMatches(op, x, lit, d.numericType = "float"))
         /\ op \in Orderings /\ IsFraction(lit) => d.numericType = "float"
BY Constants DEF CompareWhere, Unsupported

LEMMA EqualityWhere ==
  ASSUME NEW d \in Declarations, NEW x \in Metadata, NEW s \in SentFor(x), Declares(d, x), NEW lit, Constant(lit),
         NEW hidden \in {"int64", "num"}, NEW y, y = Typed(hidden, lit)
  PROVE  \A op \in Equalities : Exact(CompareWhere(d, x, op, lit), Compare(op, s, y) = True)
<1> SUFFICES ASSUME NEW op \in Equalities, CompareWhere(d, x, op, lit).outcome = "translated"
             PROVE  CompareWhere(d, x, op, lit).match <=> Compare(op, s, y) = True
  BY DEF Exact
<1>1. x # Undefined =>
        /\ op = "eq" => Compare(op, s, y) = Bool(x = lit)
        /\ op = "ne" => Compare(op, s, y) = Bool(x # lit)
  <2>1. op \in Comparisons
    BY DEF Comparisons
  <2>2. x # Undefined =>
          /\ op = "eq" => Compare(op, s, y) = Bool(x = lit)
          /\ op = "ne" => Compare(op, s, y) = Bool(x # lit)
          /\ op \in Orderings =>
               Compare(op, s, y) = IF SameOrderedType(x, lit) THEN Bool(Ordered(op, x.v, lit.v)) ELSE Err
    BY <2>1, ComparedTo
  <2> QED BY <2>2
<1>2. (Bool(x = lit) = True <=> x = lit) /\ (Bool(x # lit) = True <=> x # lit)
  BY Constants DEF Bool
<1>3. x = Undefined => Compare(op, s, y) = Err
  BY ComparedIs DEF Comparisons
<1>4. lit # Undefined
  BY ConstantIs, Constants
<1>5. Compare(op, s, y) = True <=> x # Undefined /\ (IF op = "eq" THEN x = lit ELSE x # lit)
  <2>1. CASE x = Undefined
    BY <1>3, <2>1, Constants
  <2>2. CASE x # Undefined /\ op = "eq"
    BY <1>1, <1>2, <2>2
  <2>3. CASE x # Undefined /\ op = "ne"
    BY <1>1, <1>2, <2>3
  <2> QED BY <2>1, <2>2, <2>3 DEF Equalities
<1>6. CASE op = "ne" /\ Lowers(d, lit)
  <2>1. CompareWhere(d, x, op, lit) = Where(Lowered(d, x, lit))
    BY <1>6 DEF CompareWhere
  <2> QED BY <1>5, <1>6, <2>1, LoweredIs DEF Where
<1>7. CASE ~(op = "ne" /\ Lowers(d, lit))
  <2>1. (op = "ne" => d.required) /\ CompareWhere(d, x, op, lit) = Where(ChromaMatches(op, x, lit, d.numericType = "float"))
    BY <1>7, ComparedWhere
  <2>2. op = "ne" => x # Undefined
    BY <2>1 DEF Declares
  <2>3. ChromaMatches(op, x, lit, d.numericType = "float") <=> IF op = "eq" THEN x = lit ELSE x # lit
    BY DEF ChromaMatches, Equalities, Orderings
  <2>4. CompareWhere(d, x, op, lit).match <=> IF op = "eq" THEN x = lit ELSE x # lit
    BY <2>1, <2>3 DEF Where
  <2> QED BY <1>4, <1>5, <2>2, <2>4 DEF Equalities
<1> QED BY <1>6, <1>7

LEMMA OrderingWhere ==
  ASSUME NEW d \in Declarations, NEW x \in Metadata, NEW s \in SentFor(x), NEW lit, Constant(lit),
         NEW hidden \in {"int64", "num"}, NEW y, y = Typed(hidden, lit)
  PROVE  \A op \in Orderings : Exact(CompareWhere(d, x, op, lit), Compare(op, s, y) = True)
<1> SUFFICES ASSUME NEW op \in Orderings, CompareWhere(d, x, op, lit).outcome = "translated"
             PROVE  CompareWhere(d, x, op, lit).match <=> Compare(op, s, y) = True
  BY DEF Exact
<1>1. op \in Comparisons /\ op \notin {"eq", "ne", "in", "nin"}
  BY DEF Comparisons, Orderings
<1>2. /\ Accepts(op, lit) /\ (IsFraction(lit) => d.numericType = "float")
      /\ CompareWhere(d, x, op, lit) = Where(ChromaMatches(op, x, lit, d.numericType = "float"))
  BY <1>1, ComparedWhere
<1>3. lit.t = "num"
  BY <1>2 DEF Accepts, Equalities, Orderings
<1>4. ChromaMatches(op, x, lit, d.numericType = "float") <=> x.t = "num" /\ Ordered(op, x.v, lit.v)
  BY <1>1, <1>2 DEF ChromaMatches
<1>5. SameOrderedType(x, lit) <=> x.t = "num"
  <2>1. x.t # "int64"
    BY SentIs
  <2> QED BY <1>3, <2>1 DEF SameOrderedType, IsNumeric
<1>6. x = Undefined => x.t # "num" /\ Compare(op, s, y) = Err
  BY <1>1, ComparedIs, Constants
<1>7. x # Undefined => Compare(op, s, y) = IF SameOrderedType(x, lit) THEN Bool(Ordered(op, x.v, lit.v)) ELSE Err
  BY <1>1, ComparedTo
<1>8. Bool(Ordered(op, x.v, lit.v)) = True <=> Ordered(op, x.v, lit.v)
  BY BoolIs
<1>9. CompareWhere(d, x, op, lit).match <=> x.t = "num" /\ Ordered(op, x.v, lit.v)
  BY <1>2, <1>4 DEF Where
<1> QED BY <1>5, <1>6, <1>7, <1>8, <1>9, Constants

LEMMA MembershipWhere ==
  ASSUME NEW d \in Declarations, NEW x \in Metadata, NEW s \in SentFor(x), Declares(d, x), NEW lit, Constant(lit)
  PROVE  /\ Exact(CompareWhere(d, x, "in", lit), In(Unsigned(s), lit) = True)
         /\ Exact(CompareWhere(d, x, "nin", lit), In(Unsigned(s), lit) = False)
<1>1. \A op : op \in {"in", "nin"} /\ CompareWhere(d, x, op, lit).outcome = "translated" =>
        /\ lit.t = "list" /\ \A m \in Members[lit] : IsChromaLiteral(m)
        /\ op = "nin" => d.required
        /\ CompareWhere(d, x, op, lit) = Where(ChromaMatches(op, x, lit, d.numericType = "float"))
  BY ComparedWhere DEF Accepts, Equalities, Orderings
<1>2. ChromaMatches("in", x, lit, d.numericType = "float") <=> x \in Members[lit]
  BY DEF ChromaMatches, Orderings
<1>3. ChromaMatches("nin", x, lit, d.numericType = "float") <=> x \notin Members[lit]
  BY DEF ChromaMatches, Orderings
<1>4. CASE lit.t = "list" /\ \A m \in Members[lit] : IsChromaLiteral(m)
  <2>1. \A m \in Members[lit] : m \in [t : Types, v : Int] /\ m.t \in {"num", "str", "bool"} /\ m # Undefined
    <3>1. ASSUME NEW m \in Members[lit] PROVE m \in [t : Types, v : Int] /\ m.t \in {"num", "str", "bool"} /\ m # Undefined
      <4>1. Constant(m) /\ IsChromaLiteral(m)
        BY <1>4, LiteralIs, MemberIs DEF Constant
      <4> QED BY <4>1, ConstantIs, Constants DEF IsChromaLiteral
    <3> QED BY <3>1
  <2>2. x = Undefined => In(Unsigned(s), lit) = Err /\ x \notin Members[lit]
    BY <2>1, SentIs, Constants DEF In, Unsigned
  <2>3. x # Undefined => Unsigned(s) = x /\ x # Err /\ x \in [t : Types, v : Int] /\ x.t \in {"num", "str", "bool"}
    BY SentIs, Constants
  <2>4. ASSUME x # Undefined PROVE \A m \in Members[lit] : ValuesEqual(m, x) <=> m = x
    BY <2>1, <2>3, <2>4 DEF ValuesEqual, IsNumeric
  <2>5. IsCollection(lit)
    BY <1>4 DEF IsCollection
  <2>6. ASSUME x # Undefined PROVE In(Unsigned(s), lit) = Bool(\E m \in Members[lit] : ValuesEqual(m, x))
    BY <2>3, <2>5, <2>6 DEF In
  <2>7. ASSUME x # Undefined
        PROVE  /\ In(Unsigned(s), lit) = True <=> x \in Members[lit]
               /\ In(Unsigned(s), lit) = False <=> x \notin Members[lit]
    <3>1. (\E m \in Members[lit] : ValuesEqual(m, x)) <=> x \in Members[lit]
      BY <2>4, <2>7
    <3> QED BY <2>6, <2>7, <3>1, BoolIs
  <2>8. d.required => x # Undefined
    BY DEF Declares
  <2> QED BY <1>1, <1>2, <1>3, <2>2, <2>7, <2>8, Constants DEF Exact, Where
<1>5. CASE ~(lit.t = "list" /\ \A m \in Members[lit] : IsChromaLiteral(m))
  BY <1>1, <1>5 DEF Exact
<1> QED BY <1>4, <1>5

-----------------------------------------------------------------------------
(* The leaves of a plan *)

LEMMA ValueNodeOK ==
  ASSUME NEW x \in Literals, NEW hidden \in {"int64", "num"}
  PROVE  NodeOK(ValueNode(x, hidden))
<1>1. PICK n, y : n = ValueNode(x, hidden) /\ y = Typed(hidden, x)
  OBVIOUS
<1>2. Constant(x)
  BY LiteralIs
<1>3. /\ Good(y) /\ Erased(y) = x /\ y # NegativeZero
      /\ (x.t # "num" \/ IsFraction(x) => y = x)
      /\ LiteralType(y) \in CheckerTypes
      /\ (x.t = "num" => LiteralType(y) \in {"int", "double"})
      /\ (IsFraction(x) => LiteralType(y) = "double")
  BY <1>1, <1>2, TypedIs
<1>4. Good(x) /\ x.t \notin {"int64", "nan", "negzero", "time", "dur"}
  BY <1>2, ConstantIs
<1>5. /\ n.kind = "value" /\ n.lit = x /\ n.list = Undefined
      /\ n.static = (IF x.t # "num" THEN "other" ELSE IF IsFraction(x) THEN "double" ELSE "ambiguous")
      /\ n.celStatic = LiteralType(y) /\ n.cel = [e \in {Root} |-> y] /\ n.js = [e \in {Root} |-> x]
      /\ n.refused = HoldsNull(x) /\ n.reads = FALSE /\ n.where = Malformed /\ n.whereNot = Malformed
  BY <1>1 DEF ValueNode
<1>6. Malformed \in Wheres /\ HoldsNull(x) \in BOOLEAN
  BY DEF Malformed, Wheres, HoldsNull
<1>7. EnvsOf(n.list) = {Root}
  BY <1>5 DEF EnvsOf
<1>8. Shaped(n)
  <2>1. n.static \in StaticTypes
    BY <1>5 DEF StaticTypes
  <2>2. \E h \in {"int64", "num"} : n.cel[Root] = Typed(h, n.lit)
    BY <1>1, <1>5
  <2> QED BY <1>3, <1>4, <1>5, <1>6, <1>7, <2>1, <2>2 DEF Shaped, Kinds
<1>9. Faithful(n)
  <2>1. StaticKnows(n.static, n.celStatic)
    BY <1>3, <1>5 DEF StaticKnows, IsFraction
  <2>2. StaticSays(n.static, y) /\ CheckerSays(n.celStatic, y)
    BY <1>3, <1>4, <1>5 DEF StaticSays, CheckerSays, IsDouble
  <2>3. WheresExact(n)
    BY <1>5 DEF WheresExact, Exact, Malformed
  <2> QED BY <1>3, <1>5, <1>7, <2>1, <2>2, <2>3 DEF Faithful
<1> QED BY <1>1, <1>5, <1>8, <1>9 DEF NodeOK

LEMMA VariableNodeOK ==
  ASSUME NEW d \in Declarations, NEW x \in Metadata, NEW s \in SentFor(x), Declares(d, x)
  PROVE  NodeOK(VariableNode(d, x, s))
<1>1. PICK n, js : n = VariableNode(d, x, s) /\ js = IF x = Undefined THEN Err ELSE x
  OBVIOUS
<1>2. /\ n.kind = "variable" /\ n.lit = Undefined /\ n.list = Undefined
      /\ n.static = (IF d.boolean THEN "other" ELSE "attribute") /\ n.celStatic = "dyn"
      /\ n.cel = [e \in {Root} |-> s] /\ n.js = [e \in {Root} |-> js]
      /\ n.refused = ~d.mapped /\ n.reads = TRUE /\ n.declared = d /\ n.stored = x
      /\ n.where = CompareWhere(d, x, "eq", True) /\ n.whereNot = CompareWhere(d, x, "ne", True)
  BY <1>1 DEF VariableNode
<1>3. EnvsOf(n.list) = {Root}
  BY <1>2 DEF EnvsOf
<1>4. /\ Good(s) /\ s.t \in {"error", "num", "negzero", "str", "bool"}
      /\ (x = Undefined <=> s = Err) /\ (x = Undefined <=> x.t = "undefined")
      /\ (x # Undefined => Good(x) /\ Erased(s) = x) /\ (x.t # "num" /\ x # Undefined => s = x) /\ (s.t = "bool" => s = x)
      /\ x.t \in {"undefined", "num", "str", "bool"}
  BY SentIs
<1>5. Good(js) /\ js.t # "int64" /\ js = Erased(s)
  BY <1>1, <1>4, GoodSpecials, ErasedIs, Constants
<1>6. Shaped(n)
  <2>1. n.static \in StaticTypes /\ n.celStatic \in CheckerTypes
    BY <1>2 DEF StaticTypes, CheckerTypes
  <2>2. n.where \in Wheres /\ n.whereNot \in Wheres
    BY <1>2, CompareWhereShaped
  <2>3. n.refused \in BOOLEAN /\ n.reads \in BOOLEAN
    BY <1>2
  <2> QED BY <1>2, <1>3, <1>4, <1>5, <2>1, <2>2, <2>3 DEF Shaped, Kinds
<1>7. ASSUME Admitted = {} PROVE Faithful(n)
  <2>1. StaticKnows(n.static, n.celStatic) /\ CheckerSays(n.celStatic, s)
    BY <1>2 DEF StaticKnows, CheckerSays
  <2>2. StaticSays(n.static, s)
    <3>1. d.boolean => x.t \in {"undefined", "bool"}
      BY DEF Declares
    <3>2. d.boolean => s.t \in {"error", "bool"}
      BY <1>4, <3>1, Constants
    <3> QED BY <1>2, <1>4, <3>2 DEF StaticSays, IsDouble
  <2>3. ASSUME IsCondition(n) PROVE Exact(n.where, s = True) /\ Exact(n.whereNot, s = False)
    <3>1. s.t \in {"bool", "error"}
      BY <1>2, <1>7, <2>3 DEF IsCondition
    <3>2. Constant(True) /\ Typed("num", True) = True
      BY DEF Constant, Value, Types, Scalars, WellFormed, True, Typed
    <3>3. Exact(n.where, Compare("eq", s, True) = True) /\ Exact(n.whereNot, Compare("ne", s, True) = True)
      BY <1>2, <3>2, EqualityWhere DEF Equalities
    <3>4. x # Undefined => Compare("eq", s, True) = Bool(x = True) /\ Compare("ne", s, True) = Bool(x # True)
      BY <3>2, ComparedTo DEF Comparisons, Equalities
    <3>5. x = Undefined => Compare("eq", s, True) = Err /\ Compare("ne", s, True) = Err
      BY <3>2, ComparedIs DEF Comparisons, Equalities
    <3>6. CASE x = Undefined
      BY <1>4, <3>3, <3>5, <3>6, Constants DEF Exact
    <3>7. CASE x # Undefined
      <4>1. s = x /\ s \in {True, False}
        BY <1>4, <3>1, <3>7, GoodIs
      <4>2. (Bool(x = True) = True <=> s = True) /\ (Bool(x # True) = True <=> s = False)
        BY <4>1, Constants DEF Bool
      <4> QED BY <3>3, <3>4, <3>7, <4>2 DEF Exact
    <3> QED BY <3>6, <3>7
  <2>4. WheresExact(n)
    BY <1>2, <2>3 DEF WheresExact
  <2> QED BY <1>2, <1>3, <1>5, <2>1, <2>2, <2>4 DEF Faithful
<1> QED BY <1>1, <1>2, <1>6, <1>7 DEF NodeOK

LEMMA ElementNodeOK ==
  ASSUME NEW list \in Literals, list.t = "list", ~HoldsNull(list), Members[list] # {}, NEW hidden \in {"int64", "num"},
         "mixedList" \in Admitted \/ ~MixedList(list, hidden)
  PROVE  NodeOK(ElementNode(list, hidden))
<1>1. PICK n, M : n = ElementNode(list, hidden) /\ M = Members[list]
  OBVIOUS
<1>2. /\ n.kind = "element" /\ n.list = list /\ n.static = ElementType(list) /\ n.celStatic = MemberType(hidden, list)
      /\ n.cel = [m \in M |-> Typed(hidden, m)] /\ n.js = [m \in M |-> m]
      /\ n.refused = FALSE /\ n.reads = FALSE /\ n.where = Unsupported /\ n.whereNot = Unsupported
  BY <1>1 DEF ElementNode
<1>3. list # Undefined /\ EnvsOf(list) = M
  BY <1>1, LiteralIs DEF EnvsOf
<1>4. ASSUME NEW m \in M
      PROVE  LET y == Typed(hidden, m) IN
             /\ Good(m) /\ m.t \in {"num", "str", "bool"}
             /\ Good(y) /\ Erased(y) = m /\ y # NegativeZero
             /\ (m.t # "num" \/ IsFraction(m) => y = m)
             /\ LiteralType(y) \in CheckerTypes
             /\ (m.t = "num" => LiteralType(y) \in {"int", "double"})
             /\ (IsFraction(m) => LiteralType(y) = "double")
  <2>1. Constant(m) /\ m.t # "list"
    BY <1>1, <1>4, LiteralIs, MemberIs
  <2>2. m.t # "null"
    <3>1. m.t = "null" => m = Null
      BY <2>1, ConstantIs
    <3> QED BY <1>1, <1>4, <3>1 DEF HoldsNull
  <2> QED BY <2>1, <2>2, ConstantIs, TypedIs DEF Constant
<1>5. PICK types : types = {LiteralType(Typed(hidden, m)) : m \in M}
  OBVIOUS
<1>6. /\ \A m \in M : LiteralType(Typed(hidden, m)) \in types
      /\ \A t \in types : \E m \in M : t = LiteralType(Typed(hidden, m))
      /\ types \subseteq CheckerTypes /\ \E t \in types : TRUE
  <2>1. \E m \in M : TRUE
    BY <1>1
  <2> QED BY <1>4, <1>5, <2>1
<1>7. n.celStatic \in CheckerTypes /\ \A t \in types : n.celStatic \in {t, "dyn"}
  <2>1. n.celStatic = IF \E t \in types : types = {t} THEN CHOOSE t \in types : TRUE ELSE "dyn"
    BY <1>1, <1>2, <1>5 DEF MemberType
  <2>2. CASE \E t \in types : types = {t}
    <3>1. n.celStatic \in types
      BY <2>1, <2>2
    <3> QED BY <1>6, <2>2, <3>1
  <2>3. CASE ~\E t \in types : types = {t}
    BY <2>1, <2>3 DEF CheckerTypes
  <2> QED BY <2>2, <2>3
<1>8. ASSUME NEW t, types = {t} PROVE n.celStatic = t
  <2>1. (CHOOSE u \in types : TRUE) \in types
    BY <1>6
  <2> QED BY <1>1, <1>2, <1>5, <1>8, <2>1 DEF MemberType
<1>9. PICK numbers : numbers = {m \in M : m.t = "num"}
  OBVIOUS
<1>10. n.static = IF numbers = {} THEN "other"
                  ELSE IF numbers # M THEN "unknown"
                  ELSE IF \A m \in numbers : IsFraction(m) THEN "double" ELSE "ambiguous"
  BY <1>1, <1>2, <1>9 DEF ElementType
<1>11. Shaped(n)
  <2>1. Unsupported \in Wheres
    BY DEF Unsupported, Wheres
  <2>2. n.static \in StaticTypes
    BY <1>10 DEF StaticTypes
  <2> QED BY <1>2, <1>3, <1>4, <1>7, <2>1, <2>2, ZenonT(60) DEF Shaped, Kinds
<1>12. ASSUME Admitted = {} PROVE Faithful(n)
  <2>1. ASSUME NEW m \in M PROVE StaticSays(n.static, n.cel[m]) /\ CheckerSays(n.celStatic, n.cel[m])
    <3>1. PICK y : y = Typed(hidden, m) /\ n.cel[m] = y
      BY <1>2, <2>1
    <3>2. n.static # "attribute" /\ (n.static = "other" => m.t # "num")
      BY <1>9, <1>10, <2>1
    <3>3. m.t # "num" => y.t \in {"str", "bool"}
      BY <1>4, <2>1, <3>1
    <3>4. StaticSays(n.static, y)
      BY <3>2, <3>3 DEF StaticSays, IsDouble
    <3>5. n.celStatic \in {LiteralType(y), "dyn"}
      BY <1>6, <1>7, <2>1, <3>1
    <3>6. CheckerSays(n.celStatic, y)
      BY <3>5 DEF CheckerSays
    <3> QED BY <3>1, <3>4, <3>6
  <2>2. StaticKnows(n.static, n.celStatic)
    <3>1. CASE n.static \in {"other", "unknown"}
      BY <3>1 DEF StaticKnows
    <3>2. CASE n.static = "double"
      <4>1. \A m \in M : IsFraction(m)
        BY <1>9, <1>10, <3>2
      <4>2. \A m \in M : LiteralType(Typed(hidden, m)) = "double"
        BY <1>4, <4>1
      <4>3. types = {"double"}
        BY <1>6, <4>2
      <4>4. n.celStatic = "double"
        BY <1>8, <4>3
      <4> QED BY <3>2, <4>4 DEF StaticKnows
    <3>3. CASE n.static = "ambiguous"
      <4>1. \A m \in M : m.t = "num"
        BY <1>9, <1>10, <3>3
      <4>2. \A t \in types : t \in {"int", "double"}
        BY <1>4, <1>6, <4>1
      <4>3. n.celStatic # "dyn"
        BY <1>2, <1>12, <3>3 DEF MixedList
      <4>4. n.celStatic \in {"int", "double"}
        BY <1>6, <1>7, <4>2, <4>3
      <4> QED BY <3>3, <4>4 DEF StaticKnows
    <3> QED BY <1>10, <3>1, <3>2, <3>3
  <2>3. WheresExact(n)
    BY <1>2, <1>3 DEF WheresExact
  <2> QED BY <1>2, <1>3, <1>4, <2>1, <2>2, <2>3 DEF Faithful
<1> QED BY <1>1, <1>2, <1>11, <1>12 DEF NodeOK

-----------------------------------------------------------------------------
(* The operands of an operator *)

LEMMA AtIs ==
  ASSUME NEW n, Shaped(n), NEW e, n.list = Undefined \/ e \in EnvsOf(n.list)
  PROVE  \E d \in EnvsOf(n.list) : At(n.cel, e) = n.cel[d] /\ At(n.js, e) = n.js[d]
<1>1. DOMAIN n.cel = EnvsOf(n.list) /\ DOMAIN n.js = EnvsOf(n.list)
  BY DEF Shaped
<1>2. CASE n.list = Undefined
  <2>1. Root \in EnvsOf(n.list)
    BY <1>2 DEF EnvsOf
  <2> QED BY <1>1, <2>1 DEF At
<1>3. CASE n.list # Undefined
  <2>1. n.list \in Literals /\ n.list.t = "list" /\ EnvsOf(n.list) = Members[n.list]
    BY <1>3 DEF Shaped, EnvsOf
  <2>2. Root \notin EnvsOf(n.list)
    BY <2>1, LiteralIs, MemberIs DEF Root
  <2> QED BY <1>1, <1>3, <2>2 DEF At
<1> QED BY <1>2, <1>3

LEMMA OperandIs ==
  ASSUME NEW n, Shaped(n), NEW e, n.list = Undefined \/ e \in EnvsOf(n.list)
  PROVE  /\ Good(At(n.cel, e)) /\ Good(At(n.js, e)) /\ At(n.js, e).t # "int64"
         /\ Faithful(n) =>
              /\ Known(n.static, n.celStatic, At(n.cel, e))
              /\ ~n.refused => At(n.js, e) = Erased(At(n.cel, e))
              /\ ~n.reads => At(n.cel, e) # NegativeZero
<1>1. PICK d \in EnvsOf(n.list) : At(n.cel, e) = n.cel[d] /\ At(n.js, e) = n.js[d]
  BY AtIs
<1>2. /\ Good(n.cel[d]) /\ Good(n.js[d]) /\ n.js[d].t # "int64"
      /\ n.static \in StaticTypes /\ n.celStatic \in CheckerTypes
  BY DEF Shaped
<1>3. Faithful(n) =>
        /\ StaticKnows(n.static, n.celStatic) /\ CheckerSays(n.celStatic, n.cel[d]) /\ StaticSays(n.static, n.cel[d])
        /\ ~n.refused => n.js[d] = Erased(n.cel[d])
        /\ ~n.reads => n.cel[d] # NegativeZero
  BY DEF Faithful
<1> QED BY <1>1, <1>2, <1>3 DEF Known

\* What is on the stack when an operator is read.
Accepted(op, args) ==
  /\ op \in AllOperators
  /\ DOMAIN args = 1 .. Width(op) /\ \A i \in 1 .. Width(op) : NodeOK(args[i])
  /\ WellFormedPlan(op, args) /\ AdmittedShape(op, args)

\* The operand a lambda's body stands for is evaluated by itself.
IsBody(op, i) == op \in Macros /\ i = 2

LEMMA ScopeIs ==
  ASSUME NEW op, NEW args, Accepted(op, args), NEW scope, scope = ScopeOf(op, args)
  PROVE  /\ scope = Undefined \/ (scope \in Literals /\ scope.t = "list" /\ Members[scope] # {})
         /\ \A i \in 1 .. Width(op) : ~IsBody(op, i) => args[i].list \in {Undefined, scope}
<1>1. PICK L : L = ListsOf(op, args)
  OBVIOUS
<1>2. \A l \in L : L = {l}
  BY <1>1 DEF Accepted, WellFormedPlan
<1>3. \A i \in 1 .. Width(op) :
        \/ args[i].list = Undefined
        \/ args[i].list \in Literals /\ args[i].list.t = "list" /\ Members[args[i].list] # {}
  BY DEF Accepted, NodeOK, Shaped
<1>4. \A i \in 1 .. Width(op) : ~IsBody(op, i) => args[i].list \in L \union {Undefined}
  BY <1>1 DEF ListsOf, IsBody, Accepted
<1>5. \A l \in L : l # Undefined /\ \E i \in 1 .. Width(op) : l = args[i].list
  BY <1>1 DEF ListsOf, Accepted
<1>6. scope = IF L = {} THEN Undefined ELSE CHOOSE l \in L : TRUE
  BY <1>1 DEF ScopeOf
<1>7. L # {} => scope \in L
  BY <1>6
<1> QED BY <1>2, <1>3, <1>4, <1>5, <1>6, <1>7

\* What an operator is evaluated over: its operands, and the readings of a lambda's body.
CelsOf(op, args, e) == [i \in DOMAIN args |-> IF op \in Macros /\ i = 2 THEN Null ELSE At(args[i].cel, e)]
JssOf(op, args, e) == [i \in DOMAIN args |-> IF op \in Macros /\ i = 2 THEN Null ELSE At(args[i].js, e)]
CelBodies(op, args) == [m \in Ranged(op, args) |-> At(args[2].cel, m)]
JsBodies(op, args) == [m \in Ranged(op, args) |-> At(args[2].js, m)]

LEMMA OperandsIs ==
  ASSUME NEW op, NEW args, Accepted(op, args), NEW e \in EnvsOf(ScopeOf(op, args)),
         NEW f, f = CelsOf(op, args, e), NEW g, g = JssOf(op, args, e)
  PROVE  /\ DOMAIN f = 1 .. Width(op) /\ DOMAIN g = 1 .. Width(op)
         /\ \A i \in 1 .. Width(op) : Good(f[i]) /\ Good(g[i]) /\ g[i].t # "int64"
         /\ \A i \in 1 .. Width(op) : ~IsBody(op, i) => f[i] = At(args[i].cel, e)
         /\ Admitted = {} => \A i \in 1 .. Width(op) : ~IsBody(op, i) =>
              Known(args[i].static, args[i].celStatic, f[i]) /\ (~args[i].reads => f[i] # NegativeZero)
         /\ Admitted = {} /\ (\A i \in 1 .. Width(op) : ~args[i].refused) => Erases(g, f)
<1>1. DOMAIN args = 1 .. Width(op) /\ \A i \in 1 .. Width(op) : NodeOK(args[i])
  BY DEF Accepted
<1>2. DOMAIN f = 1 .. Width(op) /\ DOMAIN g = 1 .. Width(op)
  BY <1>1 DEF CelsOf, JssOf
<1>3. ASSUME NEW i \in 1 .. Width(op)
      PROVE  /\ Good(f[i]) /\ Good(g[i]) /\ g[i].t # "int64"
             /\ ~IsBody(op, i) => f[i] = At(args[i].cel, e)
             /\ Admitted = {} /\ ~IsBody(op, i) =>
                  Known(args[i].static, args[i].celStatic, f[i]) /\ (~args[i].reads => f[i] # NegativeZero)
             /\ Admitted = {} /\ ~args[i].refused => g[i] = Erased(f[i])
  <2>1. CASE IsBody(op, i)
    <3>1. f[i] = Null /\ g[i] = Null
      BY <1>1, <1>3, <2>1 DEF CelsOf, JssOf, IsBody
    <3>2. Null = Erased(Null)
      BY GoodSpecials, ErasedIs, Constants
    <3> QED BY <2>1, <3>1, <3>2, GoodSpecials, Constants
  <2>2. CASE ~IsBody(op, i)
    <3>1. f[i] = At(args[i].cel, e) /\ g[i] = At(args[i].js, e)
      BY <1>1, <1>3, <2>2 DEF CelsOf, JssOf, IsBody
    <3>2. PICK n : n = args[i]
      OBVIOUS
    <3>3. NodeOK(n) /\ (n.list = Undefined \/ e \in EnvsOf(n.list))
      <4>1. PICK scope : scope = ScopeOf(op, args)
        OBVIOUS
      <4>2. args[i].list \in {Undefined, scope}
        BY <1>3, <2>2, <4>1, ScopeIs
      <4> QED BY <1>1, <1>3, <3>2, <4>1, <4>2
    <3>4. Shaped(n) /\ (Admitted = {} => Faithful(n))
      BY <3>3 DEF NodeOK
    <3>5. /\ Good(At(n.cel, e)) /\ Good(At(n.js, e)) /\ At(n.js, e).t # "int64"
          /\ Faithful(n) =>
               /\ Known(n.static, n.celStatic, At(n.cel, e))
               /\ ~n.refused => At(n.js, e) = Erased(At(n.cel, e))
               /\ ~n.reads => At(n.cel, e) # NegativeZero
      BY <3>3, <3>4, OperandIs
    <3> QED BY <2>2, <3>1, <3>2, <3>4, <3>5
  <2> QED BY <2>1, <2>2
<1> QED BY <1>2, <1>3 DEF Erases

LEMMA BodiesIs ==
  ASSUME NEW op, NEW args, Accepted(op, args), NEW p, p = CelBodies(op, args), NEW q, q = JsBodies(op, args)
  PROVE  Admitted = {} /\ (\A i \in 1 .. Width(op) : ~args[i].refused) => Erases(q, p)
<1>1. DOMAIN p = Ranged(op, args) /\ DOMAIN q = Ranged(op, args)
  BY DEF CelBodies, JsBodies
<1>2. ASSUME Admitted = {}, \A i \in 1 .. Width(op) : ~args[i].refused, NEW m \in Ranged(op, args)
      PROVE  Good(p[m]) /\ q[m] = Erased(p[m])
  <2>1. p[m] = At(args[2].cel, m) /\ q[m] = At(args[2].js, m)
    BY <1>2 DEF CelBodies, JsBodies
  <2>2. op \in Macros /\ args[1].lit.t = "list" /\ m \in Members[args[1].lit]
    BY <1>2 DEF Ranged
  <2>3. 2 \in 1 .. Width(op) /\ 1 \in 1 .. Width(op)
    BY <2>2, WidthIs DEF Accepted
  <2>4. PICK n : n = args[2]
    OBVIOUS
  <2>5. Shaped(n) /\ Faithful(n) /\ ~n.refused
    BY <1>2, <2>3, <2>4 DEF Accepted, NodeOK
  <2>6. n.list \in {Undefined, args[1].lit}
    BY <2>2, <2>4 DEF Accepted, WellFormedPlan
  <2>7. n.list # Undefined => m \in EnvsOf(n.list)
    BY <2>2, <2>6 DEF EnvsOf
  <2>8. Good(At(n.cel, m)) /\ At(n.js, m) = Erased(At(n.cel, m))
    BY <2>5, <2>7, OperandIs
  <2> QED BY <2>1, <2>4, <2>8
<1> QED BY <1>1, <1>2 DEF Erases

-----------------------------------------------------------------------------
(* What is known of an expression *)

LEMMA StaticShaped ==
  ASSUME NEW op, NEW args, Accepted(op, args)
  PROVE  StaticType(op, args) \in StaticTypes /\ CelStatic(op, args) \in CheckerTypes
<1>1. op = "if" => /\ args[2].static \in StaticTypes /\ args[3].static \in StaticTypes
                   /\ args[2].celStatic \in CheckerTypes /\ args[3].celStatic \in CheckerTypes
  <2>1. ASSUME op = "if" PROVE 2 \in 1 .. Width(op) /\ 3 \in 1 .. Width(op)
    BY <2>1 DEF Width, Conversions
  <2> QED BY <2>1 DEF Accepted, NodeOK, Shaped
<1>2. \A l, r : ArithmeticStatic(op, l, r) \in StaticTypes
  BY DEF ArithmeticStatic, StaticTypes
<1>3. \A a, b \in StaticTypes : JoinTypes(a, b) \in StaticTypes
  BY DEF JoinTypes, StaticTypes
<1>4. \A l, r : ResultType(op, l, r) \in CheckerTypes
  BY ResultTypeIs DEF CheckerTypes
<1>5. CASE op \in Arithmetic
  BY <1>2, <1>4, <1>5, OperatorsAre DEF StaticType, CelStatic, Accepted, Arithmetic
<1>6. CASE op = "if"
  BY <1>1, <1>3, <1>6 DEF StaticType, CelStatic, CheckerTypes, Arithmetic
<1>7. CASE op \notin Arithmetic /\ op # "if"
  BY <1>7 DEF StaticType, CelStatic, StaticTypes, CheckerTypes
<1> QED BY <1>5, <1>6, <1>7

\* The branches of a conditional have one type, or one of them is known to nobody.
LEMMA JoinIs ==
  ASSUME NEW a \in StaticTypes, NEW b \in StaticTypes, NEW ka \in CheckerTypes, NEW kb \in CheckerTypes, NEW x, NEW y,
         Known(a, ka, x), Known(b, kb, y), ka = kb \/ "dyn" \in {ka, kb}
  PROVE  LET s == JoinTypes(a, b)
             k == IF ka = kb THEN ka ELSE "dyn"
         IN StaticKnows(s, k) /\ CheckerSays(k, x) /\ CheckerSays(k, y) /\ StaticSays(s, x) /\ StaticSays(s, y)
<1>1. PICK s, k : s = JoinTypes(a, b) /\ k = IF ka = kb THEN ka ELSE "dyn"
  OBVIOUS
<1>2. /\ StaticKnows(a, ka) /\ CheckerSays(ka, x) /\ StaticSays(a, x)
      /\ StaticKnows(b, kb) /\ CheckerSays(kb, y) /\ StaticSays(b, y)
  BY DEF Known
<1>3. CheckerSays(k, x) /\ CheckerSays(k, y)
  BY <1>1, <1>2 DEF CheckerSays
<1>4. CASE a = b
  <2>1. s = a
    BY <1>1, <1>4 DEF JoinTypes
  <2>2. StaticKnows(s, k)
    BY <1>1, <1>2, <1>4, <2>1 DEF StaticKnows
  <2> QED BY <1>1, <1>2, <1>3, <1>4, <2>1, <2>2
<1>5. CASE {a, b} = {"ambiguous", "int"} \/ {a, b} = {"ambiguous", "double"}
  <2>1. (a = "ambiguous" /\ b \in {"int", "double"}) \/ (b = "ambiguous" /\ a \in {"int", "double"})
    BY <1>5
  <2>2. s = IF a = "ambiguous" THEN b ELSE a
    <3>1. a # b
      BY <2>1
    <3>2. {a, b} = {"ambiguous", "int"} => s = "int"
      BY <1>1, <3>1 DEF JoinTypes
    <3>3. {a, b} = {"ambiguous", "double"} => s = "double"
      BY <1>1, <3>1 DEF JoinTypes
    <3> QED BY <1>5, <2>1, <3>2, <3>3
  <2>3. ka \in {"int", "double"} /\ kb \in {"int", "double"}
    BY <1>2, <2>1 DEF StaticKnows
  <2>4. ka = kb
    BY <2>3
  <2>5. StaticKnows(s, k) /\ s \in {"int", "double"}
    BY <1>1, <1>2, <2>1, <2>2, <2>4 DEF StaticKnows
  <2> QED BY <1>1, <1>3, <2>5 DEF StaticSays
<1>6. CASE a # b /\ {a, b} \subseteq {"attribute", "double", "other"}
  <2>1. s = "attribute"
    BY <1>1, <1>6 DEF JoinTypes
  <2>2. x.t \notin {"int64", "time", "dur"} /\ y.t \notin {"int64", "time", "dur"}
    BY <1>6, KnownIs
  <2> QED BY <1>1, <1>3, <2>1, <2>2 DEF StaticKnows, StaticSays
<1>7. CASE /\ a # b /\ {a, b} # {"ambiguous", "int"} /\ {a, b} # {"ambiguous", "double"}
           /\ ~({a, b} \subseteq {"attribute", "double", "other"})
  <2>1. s = "unknown"
    BY <1>1, <1>7 DEF JoinTypes
  <2> QED BY <1>1, <1>3, <2>1 DEF StaticKnows, StaticSays
<1> QED BY <1>4, <1>5, <1>6, <1>7

LEMMA ResultKnown ==
  ASSUME NEW op, NEW args, Accepted(op, args), Admitted = {}, NEW e \in EnvsOf(ScopeOf(op, args)),
         NEW f, f = CelsOf(op, args, e), NEW p, NEW x, x = EvaluateCel(op, f, p)
  PROVE  /\ CheckerSays(CelStatic(op, args), x)
         /\ (\A i \in 1 .. Width(op) : ~args[i].reads) => x # NegativeZero
         /\ ~CompileRefused(op, args) => StaticKnows(StaticType(op, args), CelStatic(op, args)) /\ StaticSays(StaticType(op, args), x)
<1>1. op \in AllOperators /\ WellFormedPlan(op, args)
  BY DEF Accepted
<1>2. \A i \in 1 .. Width(op) : Good(f[i])
  BY OperandsIs
<1>3. \A i \in 1 .. Width(op) : ~IsBody(op, i) =>
        Known(args[i].static, args[i].celStatic, f[i]) /\ (~args[i].reads => f[i] # NegativeZero)
  BY OperandsIs
<1>4. \A y : Good(y) /\ y.t # "negzero" => y # NegativeZero
  BY GoodIs
<1>5. CASE op \in Arithmetic
  <2>1. PICK l, r : l = args[1] /\ r = args[2]
    OBVIOUS
  <2>2. x = CelArithmetic(op, f[1], f[2])
    BY <1>1, <1>5, OperatorsAre DEF EvaluateCel
  <2>3. Known(l.static, l.celStatic, f[1]) /\ Known(r.static, r.celStatic, f[2])
    BY <1>1, <1>3, <1>5, <2>1, WidthIs DEF IsBody, Macros, Arithmetic, Conversions
  <2>4. Good(f[1]) /\ Good(f[2]) /\ l.celStatic \in CheckerTypes /\ r.celStatic \in CheckerTypes
        /\ CheckerSays(l.celStatic, f[1]) /\ CheckerSays(r.celStatic, f[2])
    BY <2>3 DEF Known
  <2>5. CelStatic(op, args) = ResultType(op, l.celStatic, r.celStatic)
        /\ StaticType(op, args) = ArithmeticStatic(op, l.static, r.static)
    BY <1>5, <2>1 DEF CelStatic, StaticType, Arithmetic
  <2>6. CheckerSays(CelStatic(op, args), x)
    BY <1>5, <2>2, <2>4, <2>5, CheckedArithmetic
  <2>7. x # NegativeZero
    BY <1>4, <1>5, <2>2, <2>4, CelArithmeticIs
  <2>8. ASSUME ~CompileRefused(op, args)
        PROVE  Known(ArithmeticStatic(op, l.static, r.static), ResultType(op, l.celStatic, r.celStatic), x)
    <3>1. ~ArithmeticRefused(op, l, r)
      BY <1>5, <2>1, <2>8 DEF CompileRefused
    <3>2. IF IsTemporal(l.static, r.static) THEN TemporalStatic(op, l.static, r.static) # "none"
          ELSE ArithmeticMode(op, l.static, r.static) # "refused"
      BY <3>1 DEF ArithmeticRefused
    <3>3. Matching(op, l.celStatic, r.celStatic) # {}
      BY <1>1, <1>5, <2>1 DEF WellFormedPlan
    <3> QED BY <1>5, <2>2, <2>3, <3>2, <3>3, ArithmeticKnown
  <2> QED BY <2>5, <2>6, <2>7, <2>8 DEF Known
<1>6. CASE op = "if"
  <2>1. op \in Applied /\ op \notin Macros /\ op \notin Arithmetic /\ 2 \in 1 .. Width(op) /\ 3 \in 1 .. Width(op)
    BY <1>6 DEF Applied, Macros, Arithmetic, Width, Conversions
  <2>2. x \in {Err, f[2], f[3]}
    <3>1. x = Apply(op, f, p)
      BY <1>1, <2>1, OperatorsAre DEF EvaluateCel
    <3> QED BY <1>6, <2>1, <3>1, ApplyTri
  <2>3. PICK l, r : l = args[2] /\ r = args[3]
    OBVIOUS
  <2>4. /\ Known(l.static, l.celStatic, f[2]) /\ (~l.reads => f[2] # NegativeZero)
        /\ Known(r.static, r.celStatic, f[3]) /\ (~r.reads => f[3] # NegativeZero)
    BY <1>3, <2>1, <2>3 DEF IsBody
  <2>5. l.celStatic = r.celStatic \/ "dyn" \in {l.celStatic, r.celStatic}
    BY <1>1, <1>6, <2>3 DEF WellFormedPlan
  <2>6. /\ StaticType(op, args) = JoinTypes(l.static, r.static)
        /\ CelStatic(op, args) = IF l.celStatic = r.celStatic THEN l.celStatic ELSE "dyn"
    BY <1>6, <2>1, <2>3 DEF StaticType, CelStatic
  <2>7. /\ StaticKnows(StaticType(op, args), CelStatic(op, args))
        /\ CheckerSays(CelStatic(op, args), f[2]) /\ CheckerSays(CelStatic(op, args), f[3])
        /\ StaticSays(StaticType(op, args), f[2]) /\ StaticSays(StaticType(op, args), f[3])
    <3>1. l.static \in StaticTypes /\ r.static \in StaticTypes /\ l.celStatic \in CheckerTypes /\ r.celStatic \in CheckerTypes
      BY <2>4 DEF Known
    <3> QED BY <2>4, <2>5, <2>6, <3>1, JoinIs
  <2>8. CheckerSays(CelStatic(op, args), Err) /\ StaticSays(StaticType(op, args), Err)
    BY Constants DEF CheckerSays, StaticSays, IsDouble
  <2> QED BY <2>1, <2>2, <2>3, <2>4, <2>7, <2>8, Constants
<1>7. CASE op \in Conversions
  <2>1. x = CelConvert(op, f[1]) /\ Good(f[1]) /\ (~args[1].reads => f[1] # NegativeZero) /\ 1 \in 1 .. Width(op)
    BY <1>1, <1>2, <1>3, <1>7, OperatorsAre, WidthIs DEF EvaluateCel, IsBody
  <2>2. Good(x)
    BY <1>7, <2>1, ConvertGood
  <2>3. op \notin Arithmetic /\ op # "if" /\ op # "size"
    BY <1>7 DEF Conversions, Arithmetic
  <2>4. CASE op = "string"
    <3>1. x.t \in {"str", "error"}
      BY <2>1, <2>4, StringIs
    <3>2. CelStatic(op, args) = "str" /\ StaticType(op, args) = "other"
      BY <2>3, <2>4 DEF CelStatic, StaticType
    <3> QED BY <1>4, <2>2, <3>1, <3>2 DEF CheckerSays, LiteralType, StaticKnows, StaticSays, IsDouble
  <2>5. CASE op = "int"
    <3>1. x.t \in {"int64", "error"}
      BY <2>1, <2>5, IntIs
    <3>2. CelStatic(op, args) = "int" /\ StaticType(op, args) = "int"
      BY <2>3, <2>5 DEF CelStatic, StaticType
    <3> QED BY <1>4, <2>2, <3>1, <3>2 DEF CheckerSays, LiteralType, StaticKnows, StaticSays, IsDouble
  <2>6. CASE op = "double"
    <3>1. IsDouble(x) \/ x.t = "error"
      BY <2>1, <2>6, DoubleConversionIs
    <3>2. CelStatic(op, args) = "double" /\ StaticType(op, args) = "double"
      BY <2>3, <2>6 DEF CelStatic, StaticType
    <3>3. f[1] # NegativeZero => x # NegativeZero
      <4>1. ASSUME x = NegativeZero PROVE x = f[1]
        <5>1. x.t = "negzero"
          BY <4>1, Constants
        <5>2. CASE IsDouble(f[1])
          BY <2>1, <2>6, <5>2 DEF CelConvert, IsDouble
        <5>3. CASE ~IsDouble(f[1]) /\ f[1].t = "int64"
          BY <2>1, <2>6, <5>1, <5>3 DEF CelConvert, Num
        <5>4. CASE ~IsDouble(f[1]) /\ f[1].t = "str"
          <6>1. x = ParseAs("num", f[1])
            BY <2>1, <2>6, <5>4 DEF CelConvert, IsDouble
          <6> QED BY <5>1, <6>1, ParsedIs DEF Readings
        <5>5. CASE ~IsDouble(f[1]) /\ f[1].t \notin {"int64", "str"}
          BY <2>1, <2>6, <5>1, <5>5, Constants DEF CelConvert
        <5> QED BY <5>2, <5>3, <5>4, <5>5
      <4> QED BY <4>1
    <3> QED BY <2>1, <3>1, <3>2, <3>3 DEF CheckerSays, LiteralType, StaticKnows, StaticSays, IsDouble
  <2>7. CASE op \in {"timestamp", "duration"}
    <3>1. x.t \in {IF op = "timestamp" THEN "time" ELSE "dur", "error"}
      BY <2>1, <2>7, TemporalConversionIs
    <3>2. CelStatic(op, args) = (IF op = "timestamp" THEN "time" ELSE "dur") /\ StaticType(op, args) = op
      BY <2>3, <2>7 DEF CelStatic, StaticType
    <3> QED BY <1>4, <2>2, <2>7, <3>1, <3>2 DEF CheckerSays, LiteralType, StaticKnows, StaticSays, IsDouble
  <2> QED BY <1>7, <2>4, <2>5, <2>6, <2>7 DEF Conversions
<1>8. CASE op = "size"
  <2>1. x = CelSize(f[1]) /\ Good(f[1])
    BY <1>1, <1>2, <1>8, OperatorsAre, WidthIs DEF EvaluateCel
  <2>2. Good(x) /\ x.t \in {"int64", "error"}
    BY <2>1, SizeIs
  <2>3. CelStatic(op, args) = "int" /\ StaticType(op, args) = "int"
    BY <1>8 DEF CelStatic, StaticType, Arithmetic
  <2> QED BY <1>4, <2>2, <2>3 DEF CheckerSays, LiteralType, StaticKnows, StaticSays
<1>9. CASE op \in Comparisons \union (Applied \ {"if"})
  <2>1. x \in Tri
    <3>1. CASE op \in Comparisons
      BY <1>1, <3>1, OperatorsAre, CompareTri DEF EvaluateCel
    <3>2. CASE op \in Applied \ {"if"}
      <4>1. x = Apply(op, f, p)
        BY <1>1, <3>2, OperatorsAre DEF EvaluateCel
      <4> QED BY <3>2, <4>1, ApplyTri
    <3> QED BY <1>9, <3>1, <3>2
  <2>2. x.t \in {"bool", "error"} /\ Good(x)
    BY <2>1, GoodTri
  <2>3. CelStatic(op, args) = "bool" /\ StaticType(op, args) = "other"
    <3>1. op \notin Arithmetic \union {"if", "size", "int", "double", "string", "timestamp", "duration"}
      BY <1>1, <1>9, OperatorsAre DEF Conversions, Comparisons, Equalities, Orderings
    <3> QED BY <3>1 DEF CelStatic, StaticType
  <2> QED BY <1>4, <2>2, <2>3 DEF CheckerSays, LiteralType, StaticKnows, StaticSays, IsDouble
<1> QED BY <1>1, <1>5, <1>6, <1>7, <1>8, <1>9, OperatorsAre

-----------------------------------------------------------------------------
(* The Where of an operator *)

LEMMA CombineIs ==
  ASSUME NEW c \in BOOLEAN, NEW w, DOMAIN w = {1, 2}, w[1] \in Wheres, w[2] \in Wheres, NEW P, NEW Q
  PROVE  /\ Combine(c, w) \in Wheres
         /\ Exact(w[1], P) /\ Exact(w[2], Q) => Exact(Combine(c, w), IF c THEN P /\ Q ELSE P \/ Q)
<1>1. PICK thrown : thrown = {i \in DOMAIN w : w[i].outcome # "translated"}
  OBVIOUS
<1>2. CASE thrown # {}
  <2>1. PICK i : i = CHOOSE first \in thrown : \A j \in thrown : first <= j
    OBVIOUS
  <2>2. \E k \in thrown : \A j \in thrown : k <= j
    <3>1. thrown \subseteq {1, 2}
      BY <1>1
    <3>2. CASE 1 \in thrown
      BY <3>1, <3>2
    <3>3. CASE 1 \notin thrown
      <4>1. \A j \in thrown : j = 2
        BY <3>1, <3>3
      <4>2. 2 \in thrown
        BY <1>2, <4>1
      <4>3. \A j \in thrown : 2 <= j
        BY <4>1
      <4> QED BY <4>2, <4>3
    <3> QED BY <3>2, <3>3
  <2>3. i \in thrown
    BY <2>1, <2>2
  <2>4. Combine(c, w) = w[i]
    BY <1>1, <1>2, <2>1 DEF Combine
  <2>5. w[i] \in Wheres /\ w[i].outcome # "translated"
    BY <1>1, <2>3
  <2> QED BY <2>4, <2>5 DEF Exact
<1>3. CASE thrown = {}
  <2>1. Combine(c, w) = Where(IF c THEN \A i \in DOMAIN w : w[i].match ELSE \E i \in DOMAIN w : w[i].match)
    BY <1>1, <1>3 DEF Combine
  <2>2. /\ (\A i \in DOMAIN w : w[i].match) <=> w[1].match /\ w[2].match
        /\ (\E i \in DOMAIN w : w[i].match) <=> w[1].match \/ w[2].match
    OBVIOUS
  <2>3. PICK match : match = IF c THEN \A i \in DOMAIN w : w[i].match ELSE \E i \in DOMAIN w : w[i].match
    OBVIOUS
  <2>4. match \in BOOLEAN /\ (match <=> IF c THEN w[1].match /\ w[2].match ELSE w[1].match \/ w[2].match)
    BY <2>2, <2>3
  <2>5. Combine(c, w) = [outcome |-> "translated", match |-> match]
    BY <2>1, <2>3 DEF Where
  <2>6. w[1].outcome = "translated" /\ w[2].outcome = "translated"
    BY <1>1, <1>3
  <2> QED BY <2>4, <2>5, <2>6 DEF Exact, Wheres
<1> QED BY <1>2, <1>3

LEMMA PairIs ==
  ASSUME NEW a, NEW b, Good(a), Good(b)
  PROVE  /\ Junction(FALSE, {a, b}) = True <=> a = True /\ b = True
         /\ Junction(FALSE, {a, b}) = False <=> a = False \/ b = False
         /\ Junction(TRUE, {a, b}) = True <=> a = True \/ b = True
         /\ Junction(TRUE, {a, b}) = False <=> a = False /\ b = False
<1>1. \A x \in {a, b} : /\ AsBoolean(x) = True <=> x = True
                        /\ AsBoolean(x) = False <=> x = False
                        /\ AsBoolean(x) \in Tri
  BY GoodIs, Constants DEF AsBoolean, Tri
<1> QED BY <1>1, Constants DEF Junction, Tri, Bool

LEMMA MapComparisonShaped == \A op, args, negate : MapComparison(op, args, negate) \in Wheres
<1>1. Unsupported \in Wheres
  BY DEF Unsupported, Wheres
<1> QED BY <1>1, CompareWhereShaped DEF MapComparison

LEMMA MapComparisonIs ==
  ASSUME NEW op, NEW args, Accepted(op, args), Admitted = {}, NEW f, f = CelsOf(op, args, Root),
         ScopeOf(op, args) = Undefined, NEW p, NEW x, x = EvaluateCel(op, f, p)
  PROVE  Exact(MapComparison(op, args, FALSE), x = True) /\ Exact(MapComparison(op, args, TRUE), x = False)
<1>1. PICK l, r : l = args[1] /\ r = args[2]
  OBVIOUS
<1>2. CASE \/ op \notin Comparisons \union {"in"}
           \/ {l.kind, r.kind} # {"variable", "value"}
           \/ op = "in" /\ l.kind = "value"
  <2>1. MapComparison(op, args, TRUE) = Unsupported /\ MapComparison(op, args, FALSE) = Unsupported
    BY <1>1, <1>2 DEF MapComparison
  <2> QED BY <2>1, TranslatedIs
<1>3. CASE op \in Comparisons \union {"in"} /\ {l.kind, r.kind} = {"variable", "value"} /\ ~(op = "in" /\ l.kind = "value")
  <2>1. PICK key, value : IF l.kind = "value" THEN key = r /\ value = l ELSE key = l /\ value = r
    OBVIOUS
  <2>2. key.kind = "variable" /\ value.kind = "value"
    BY <1>3, <2>1
  <2>3. op \in AllOperators /\ 1 \in 1 .. Width(op) /\ 2 \in 1 .. Width(op) /\ ~IsBody(op, 1) /\ ~IsBody(op, 2)
    BY <1>3, WidthIs DEF IsBody, Macros, Comparisons, Equalities, Orderings, Conversions, AllOperators
  <2>4. NodeOK(l) /\ NodeOK(r) /\ f[1] = At(l.cel, Root) /\ f[2] = At(r.cel, Root)
    <3>1. Root \in EnvsOf(ScopeOf(op, args))
      BY DEF EnvsOf
    <3>2. PICK g : g = JssOf(op, args, Root)
      OBVIOUS
    <3>3. \A i \in 1 .. Width(op) : ~IsBody(op, i) => f[i] = At(args[i].cel, Root)
      BY <3>1, <3>2, OperandsIs
    <3> QED BY <1>1, <2>3, <3>3 DEF Accepted
  <2>5. Shaped(key) /\ Shaped(value)
    BY <2>1, <2>4 DEF NodeOK
  <2>6. PICK d, stored, s, lit, hidden, y :
          /\ d = key.declared /\ stored = key.stored /\ s = key.cel[Root] /\ lit = value.lit /\ y = value.cel[Root]
          /\ hidden \in {"int64", "num"} /\ y = Typed(hidden, lit)
    BY <2>2, <2>5 DEF Shaped
  <2>7. /\ d \in Declarations /\ stored \in Metadata /\ s \in SentFor(stored) /\ Declares(d, stored)
        /\ lit \in Literals /\ At(key.cel, Root) = s /\ At(value.cel, Root) = y
    BY <2>2, <2>5, <2>6 DEF Shaped, At, EnvsOf
  <2>8. Constant(lit)
    BY <2>7, LiteralIs
  <2>9. CASE op = "in"
    <3>1. x = In(Unsigned(s), y)
      <4>1. x = Apply(op, f, p)
        BY <2>9 DEF EvaluateCel, Comparisons, Equalities, Orderings, Arithmetic, Conversions
      <4>2. f[1] = s /\ f[2] = y
        BY <1>3, <2>1, <2>4, <2>7, <2>9
      <4> QED BY <2>9, <4>1, <4>2 DEF Apply
    <3>2. In(Unsigned(s), y) = In(Unsigned(s), lit)
      <4>1. lit.t # "num" => y = lit
        BY <2>6, <2>8, TypedIs
      <4>2. lit.t = "num" => ~IsCollection(y) /\ ~IsCollection(lit)
        BY <2>6, <2>8, TypedIs DEF IsCollection
      <4> QED BY <4>1, <4>2 DEF In
    <3>3. /\ MapComparison(op, args, FALSE) = CompareWhere(d, stored, "in", lit)
          /\ MapComparison(op, args, TRUE) = CompareWhere(d, stored, "nin", lit)
      <4>1. l.kind # "value"
        BY <1>3, <2>9
      <4>2. Negated("in") = "nin"
        BY DEF Negated
      <4> QED BY <1>1, <1>3, <2>1, <2>6, <2>9, <4>1, <4>2 DEF MapComparison
    <3>4. /\ Exact(CompareWhere(d, stored, "in", lit), In(Unsigned(s), lit) = True)
          /\ Exact(CompareWhere(d, stored, "nin", lit), In(Unsigned(s), lit) = False)
      BY <2>7, <2>8, MembershipWhere
    <3> QED BY <3>1, <3>2, <3>3, <3>4
  <2>10. CASE op \in Comparisons
    <3>1. PICK o : o = IF l.kind = "value" THEN Mirrored(op) ELSE op
      OBVIOUS
    <3>2. o \in Comparisons /\ Negated(o) \in Comparisons
      <4>1. Mirrored(op) \in Comparisons
        BY <2>10, <2>6, <2>7, <2>8, ComparedTo
      <4>2. o \in Comparisons
        BY <2>10, <3>1, <4>1
      <4> QED BY <2>6, <2>7, <2>8, <4>2, ComparedTo
    <3>3. x = Compare(o, s, y)
      <4>1. x = Compare(op, f[1], f[2])
        BY <2>3, <2>10, OperatorsAre DEF EvaluateCel
      <4>2. Compare(op, y, s) = Compare(Mirrored(op), s, y)
        BY <2>6, <2>7, <2>8, <2>10, ComparedTo
      <4> QED BY <2>1, <2>4, <2>7, <3>1, <4>1, <4>2
    <3>4. Compare(Negated(o), s, y) = True <=> Compare(o, s, y) = False
      BY <2>6, <2>7, <2>8, <3>2, ComparedTo
    <3>5. \A q \in Comparisons : Exact(CompareWhere(d, stored, q, lit), Compare(q, s, y) = True)
      <4>1. \A q \in Equalities : Exact(CompareWhere(d, stored, q, lit), Compare(q, s, y) = True)
        BY <2>6, <2>7, <2>8, EqualityWhere
      <4>2. \A q \in Orderings : Exact(CompareWhere(d, stored, q, lit), Compare(q, s, y) = True)
        BY <2>6, <2>7, <2>8, OrderingWhere
      <4> QED BY <4>1, <4>2 DEF Comparisons
    <3>6. /\ MapComparison(op, args, FALSE) = CompareWhere(d, stored, o, lit)
          /\ MapComparison(op, args, TRUE) = CompareWhere(d, stored, Negated(o), lit)
      BY <1>1, <1>3, <2>1, <2>6, <2>10, <3>1 DEF MapComparison
    <3>7. /\ Exact(CompareWhere(d, stored, o, lit), Compare(o, s, y) = True)
          /\ Exact(CompareWhere(d, stored, Negated(o), lit), Compare(Negated(o), s, y) = True)
      BY <3>2, <3>5
    <3> QED BY <3>3, <3>4, <3>6, <3>7 DEF Exact
  <2> QED BY <1>3, <2>9, <2>10
<1> QED BY <1>2, <1>3

\* The operands of a junction or a negation, read outside every lambda.
LEMMA ConditionsAre ==
  ASSUME NEW op \in Junctions \union {"not"}, NEW args, Accepted(op, args), NEW f, f = CelsOf(op, args, Root),
         ScopeOf(op, args) = Undefined, NEW i \in 1 .. Width(op)
  PROVE  /\ args[i].list = Undefined /\ IsCondition(args[i]) /\ f[i] = args[i].cel[Root] /\ Good(f[i])
         /\ args[i].where \in Wheres /\ args[i].whereNot \in Wheres
         /\ Admitted = {} => Exact(args[i].where, f[i] = True) /\ Exact(args[i].whereNot, f[i] = False)
<1>1. PICK n : n = args[i]
  OBVIOUS
<1>2. op \notin Macros /\ ~IsBody(op, i) /\ DOMAIN args = 1 .. Width(op)
  BY DEF Junctions, Macros, IsBody, Accepted
<1>3. n.list = Undefined
  <2>1. PICK scope : scope = ScopeOf(op, args)
    OBVIOUS
  <2>2. args[i].list \in {Undefined, scope}
    BY <1>2, <2>1, ScopeIs
  <2> QED BY <1>1, <2>1, <2>2
<1>4. IsCondition(n) /\ NodeOK(n)
  BY <1>1, <1>2 DEF Accepted, WellFormedPlan
<1>5. Shaped(n) /\ (Admitted = {} => Faithful(n))
  BY <1>4 DEF NodeOK
<1>6. f[i] = n.cel[Root]
  BY <1>1, <1>2, <1>3, <1>5 DEF CelsOf, IsBody, At, EnvsOf, Shaped
<1>7. Root \in EnvsOf(n.list)
  BY <1>3 DEF EnvsOf
<1>8. Good(n.cel[Root]) /\ n.where \in Wheres /\ n.whereNot \in Wheres
  BY <1>5, <1>7 DEF Shaped
<1>9. Admitted = {} => Exact(n.where, n.cel[Root] = True) /\ Exact(n.whereNot, n.cel[Root] = False)
  BY <1>3, <1>4, <1>5 DEF Faithful, WheresExact
<1> QED BY <1>1, <1>3, <1>4, <1>6, <1>8, <1>9

LEMMA MapOperandShaped ==
  ASSUME NEW op, NEW args, Accepted(op, args), NEW negate \in BOOLEAN
  PROVE  MapOperand(op, args, negate) \in Wheres
<1>1. DOMAIN args = 1 .. Width(op) /\ op \in AllOperators
  BY DEF Accepted
<1>2. \A i \in 1 .. Width(op) : args[i].where \in Wheres /\ args[i].whereNot \in Wheres
  BY DEF Accepted, NodeOK, Shaped
<1>3. CASE op \in Junctions
  <2>1. PICK w : w = [i \in DOMAIN args |-> IF negate THEN args[i].whereNot ELSE args[i].where]
    OBVIOUS
  <2>2. DOMAIN w = {1, 2} /\ w[1] \in Wheres /\ w[2] \in Wheres
    BY <1>1, <1>2, <1>3, <2>1, WidthIs
  <2>3. PICK c \in BOOLEAN : c = ((op = "and") # negate)
    OBVIOUS
  <2>4. MapOperand(op, args, negate) = Combine(c, w)
    BY <1>3, <2>1, <2>3 DEF MapOperand, Junctions
  <2> QED BY <2>2, <2>4, CombineIs
<1>4. CASE op = "not"
  <2>1. MapOperand(op, args, negate) \in {args[1].where, args[1].whereNot}
    BY <1>4 DEF MapOperand, Junctions, Width
  <2> QED BY <1>1, <1>2, <2>1, WidthIs
<1>5. CASE op \notin Junctions \union {"not"}
  <2>1. MapOperand(op, args, negate) \in {MapComparison(op, args, negate), Unsupported}
    BY <1>5 DEF MapOperand
  <2>2. Unsupported \in Wheres
    BY DEF Unsupported, Wheres
  <2> QED BY <2>1, <2>2, MapComparisonShaped
<1> QED BY <1>3, <1>4, <1>5

\* Chroma matches what CEL allows, under either polarity.
\* What CEL says of an operator outside every lambda.
SaysAtRoot(op, args, f, p, x) ==
  ScopeOf(op, args) = Undefined /\ f = CelsOf(op, args, Root) /\ x = EvaluateCel(op, f, p)

LEMMA MapOperandIs ==
  ASSUME NEW op, NEW args, Accepted(op, args), Admitted = {}, NEW f, NEW p, NEW x, SaysAtRoot(op, args, f, p, x)
  PROVE  Exact(MapOperand(op, args, FALSE), x = True) /\ Exact(MapOperand(op, args, TRUE), x = False)
<1>1. ScopeOf(op, args) = Undefined /\ f = CelsOf(op, args, Root) /\ x = EvaluateCel(op, f, p)
  BY DEF SaysAtRoot
<1>2. DOMAIN args = 1 .. Width(op) /\ op \in AllOperators
  BY DEF Accepted
<1>3. CASE op \in Junctions
  <2>1. Width(op) = 2 /\ 1 .. Width(op) = {1, 2} /\ DOMAIN f = {1, 2}
    BY <1>1, <1>2, <1>3, WidthIs DEF CelsOf
  <2>2. PICK a, b : a = f[1] /\ b = f[2]
    OBVIOUS
  <2>3. /\ Good(a) /\ Good(b)
        /\ \A i \in {1, 2} : args[i].where \in Wheres /\ args[i].whereNot \in Wheres
        /\ Exact(args[1].where, a = True) /\ Exact(args[1].whereNot, a = False)
        /\ Exact(args[2].where, b = True) /\ Exact(args[2].whereNot, b = False)
    BY <1>1, <1>3, <2>1, <2>2, ConditionsAre
  <2>4. PICK w, v : w = [i \in DOMAIN args |-> args[i].where] /\ v = [i \in DOMAIN args |-> args[i].whereNot]
    OBVIOUS
  <2>5. /\ DOMAIN w = {1, 2} /\ w[1] = args[1].where /\ w[2] = args[2].where
        /\ DOMAIN v = {1, 2} /\ v[1] = args[1].whereNot /\ v[2] = args[2].whereNot
    BY <1>2, <2>1, <2>4
  <2>6. {f[i] : i \in DOMAIN f} = {a, b}
    BY <2>1, <2>2
  <2>7. x = Apply(op, f, p)
    BY <1>1, <1>2, <1>3, OperatorsAre DEF EvaluateCel, Applied
  <2>8. CASE op = "and"
    <3>1. x = Junction(FALSE, {a, b})
      BY <2>6, <2>7, <2>8 DEF Apply
    <3>2. MapOperand(op, args, FALSE) = Combine(TRUE, w) /\ MapOperand(op, args, TRUE) = Combine(FALSE, v)
      BY <2>4, <2>8 DEF MapOperand, Junctions
    <3>3. Exact(Combine(TRUE, w), a = True /\ b = True) /\ Exact(Combine(FALSE, v), a = False \/ b = False)
      BY <2>3, <2>5, CombineIs
    <3>4. (x = True <=> a = True /\ b = True) /\ (x = False <=> a = False \/ b = False)
      BY <2>3, <3>1, PairIs
    <3> QED BY <3>2, <3>3, <3>4 DEF Exact
  <2>9. CASE op = "or"
    <3>1. x = Junction(TRUE, {a, b})
      BY <2>6, <2>7, <2>9 DEF Apply
    <3>2. MapOperand(op, args, FALSE) = Combine(FALSE, w) /\ MapOperand(op, args, TRUE) = Combine(TRUE, v)
      BY <2>4, <2>9 DEF MapOperand, Junctions
    <3>3. Exact(Combine(FALSE, w), a = True \/ b = True) /\ Exact(Combine(TRUE, v), a = False /\ b = False)
      BY <2>3, <2>5, CombineIs
    <3>4. (x = True <=> a = True \/ b = True) /\ (x = False <=> a = False /\ b = False)
      <4>1. (Junction(TRUE, {a, b}) = True <=> a = True \/ b = True) /\ (Junction(TRUE, {a, b}) = False <=> a = False /\ b = False)
        BY <2>3, PairIs
      <4> QED BY <3>1, <4>1
    <3> QED BY <3>2, <3>3, <3>4 DEF Exact
  <2> QED BY <1>3, <2>8, <2>9 DEF Junctions
<1>4. CASE op = "not"
  <2>1. Good(f[1]) /\ Exact(args[1].where, f[1] = True) /\ Exact(args[1].whereNot, f[1] = False)
    BY <1>1, <1>2, <1>4, WidthIs, ConditionsAre
  <2>2. x = Not(f[1])
    BY <1>1, <1>2, <1>4, OperatorsAre DEF EvaluateCel, Applied, Apply
  <2>3. (x = True <=> f[1] = False) /\ (x = False <=> f[1] = True)
    BY <2>1, <2>2, GoodIs, Constants DEF Not, AsBoolean, Bool
  <2>4. MapOperand(op, args, FALSE) = args[1].whereNot /\ MapOperand(op, args, TRUE) = args[1].where
    BY <1>4 DEF MapOperand, Junctions, Width
  <2> QED BY <2>1, <2>3, <2>4 DEF Exact
<1>5. CASE op \notin Junctions \union {"not"}
  <2>1. CASE Width(op) = 2
    <3>1. \A negate \in BOOLEAN : MapOperand(op, args, negate) = MapComparison(op, args, negate)
      BY <1>5, <2>1 DEF MapOperand
    <3>2. Exact(MapComparison(op, args, FALSE), x = True) /\ Exact(MapComparison(op, args, TRUE), x = False)
      BY <1>1, MapComparisonIs
    <3> QED BY <3>1, <3>2
  <2>2. CASE Width(op) # 2
    <3>1. \A negate \in BOOLEAN : MapOperand(op, args, negate) = Unsupported
      BY <1>5, <2>2 DEF MapOperand
    <3> QED BY <3>1, TranslatedIs
  <2> QED BY <2>1, <2>2
<1> QED BY <1>3, <1>4, <1>5

-----------------------------------------------------------------------------
(* The node of an operator *)

\* What CEL and the predicate compute of an operator in one environment.
LEMMA ReadingsIs ==
  ASSUME NEW op, NEW args, Accepted(op, args), NEW e \in EnvsOf(ScopeOf(op, args)),
         NEW f, f = CelsOf(op, args, e), NEW g, g = JssOf(op, args, e),
         NEW p, p = CelBodies(op, args), NEW q, q = JsBodies(op, args)
  PROVE  /\ Good(EvaluateCel(op, f, p))
         /\ Good(EvaluateJs(op, args, g, q)) /\ EvaluateJs(op, args, g, q).t # "int64"
         /\ Admitted = {} /\ ~CompileRefused(op, args) => EvaluateJs(op, args, g, q) = Erased(EvaluateCel(op, f, p))
<1>1. /\ op \in AllOperators /\ DOMAIN args = 1 .. Width(op)
      /\ WellFormedPlan(op, args) /\ AdmittedShape(op, args)
  BY DEF Accepted
<1>2. /\ DOMAIN f = 1 .. Width(op) /\ DOMAIN g = 1 .. Width(op)
      /\ \A i \in 1 .. Width(op) : Good(f[i]) /\ Good(g[i]) /\ g[i].t # "int64"
      /\ \A i \in 1 .. Width(op) : ~IsBody(op, i) => f[i] = At(args[i].cel, e)
  BY OperandsIs
<1>3. Good(EvaluateCel(op, f, p))
  BY <1>1, <1>2, EvaluateCelGood
<1>4. Good(EvaluateJs(op, args, g, q)) /\ EvaluateJs(op, args, g, q).t # "int64"
  BY <1>1, <1>2, EvaluateJsGood
<1>5. ASSUME Admitted = {}, ~CompileRefused(op, args)
      PROVE  EvaluateJs(op, args, g, q) = Erased(EvaluateCel(op, f, p))
  <2>1. \A i \in 1 .. Width(op) : ~args[i].refused
    BY <1>1, <1>5 DEF CompileRefused
  <2>2. Erases(g, f)
    BY <1>5, <2>1, OperandsIs
  <2>3. Erases(q, p)
    BY <1>5, <2>1, BodiesIs
  <2>4. \A i \in 1 .. Width(op) : ~IsBody(op, i) =>
          Known(args[i].static, args[i].celStatic, f[i]) /\ (~args[i].reads => f[i] # NegativeZero)
    BY <1>5, OperandsIs
  <2>5. ~NonFinite(op, args) /\ ~(op \in {"timestamp", "duration"} /\ args[1].static = op)
    BY <1>1, <1>5 DEF AdmittedShape
  <2>6. ASSUME op \in Arithmetic
        PROVE  /\ Known(args[1].static, args[1].celStatic, f[1]) /\ Known(args[2].static, args[2].celStatic, f[2])
               /\ Matching(op, args[1].celStatic, args[2].celStatic) # {}
               /\ ~ArithmeticRefused(op, args[1], args[2])
               /\ ~args[2].reads => f[2] # NegativeZero
    <3>1. 1 \in 1 .. Width(op) /\ 2 \in 1 .. Width(op) /\ ~IsBody(op, 1) /\ ~IsBody(op, 2)
      BY <1>1, <2>6, WidthIs DEF IsBody, Macros, Arithmetic, Conversions
    <3> QED BY <1>1, <1>5, <2>4, <2>6, <3>1 DEF WellFormedPlan, CompileRefused
  <2>7. ASSUME op \in Conversions
        PROVE  /\ Known(args[1].static, args[1].celStatic, f[1])
               /\ ~ConversionRefused(op, args[1])
               /\ ~args[1].reads => f[1] # NegativeZero
               /\ ~(op = "double" /\ IsDouble(f[1]) /\ ~IsFinite(f[1]))
    <3>1. 1 \in 1 .. Width(op) /\ ~IsBody(op, 1)
      BY <1>1, WidthIs DEF IsBody
    <3>2. ~(op = "double" /\ IsDouble(f[1]) /\ ~IsFinite(f[1]))
      BY <1>2, <2>5, <3>1 DEF NonFinite
    <3> QED BY <1>5, <2>4, <2>7, <3>1, <3>2 DEF CompileRefused
  <2>8. ~(op \in Orderings /\ NaN \in {f[1], f[2]} /\ Compare(op, f[1], f[2]) = Err)
    <3>1. ASSUME op \in Orderings PROVE 1 \in 1 .. Width(op) /\ 2 \in 1 .. Width(op) /\ ~IsBody(op, 1) /\ ~IsBody(op, 2)
      BY <1>1, <3>1, WidthIs DEF IsBody, Macros, Orderings, Conversions
    <3> QED BY <1>2, <2>5, <3>1 DEF NonFinite
  <2>9. Computable(op, args, f)
    BY <2>5, <2>6, <2>7, <2>8 DEF Computable
  <2> QED BY <1>1, <1>2, <2>2, <2>3, <2>9, EvaluateFaithful
<1> QED BY <1>3, <1>4, <1>5

\* What the node of an operator is made of.
Fields(op, args, n, scope) ==
  /\ n.kind = op /\ n.list = scope /\ n.refused = CompileRefused(op, args)
  /\ n.static = (IF CompileRefused(op, args) THEN "unknown" ELSE StaticType(op, args))
  /\ n.celStatic = CelStatic(op, args)
  /\ n.reads = (\E i \in 1 .. Width(op) : args[i].reads)
  /\ n.where = MapOperand(op, args, FALSE) /\ n.whereNot = MapOperand(op, args, TRUE)
  /\ op = "and" => n.parts = args
  /\ DOMAIN n.cel = EnvsOf(scope) /\ DOMAIN n.js = EnvsOf(scope)
  /\ \A e \in EnvsOf(scope) :
       /\ n.cel[e] = EvaluateCel(op, CelsOf(op, args, e), CelBodies(op, args))
       /\ n.js[e] = IF CompileRefused(op, args) THEN Err
                    ELSE EvaluateJs(op, args, JssOf(op, args, e), JsBodies(op, args))

LEMMA ExpressionFields ==
  ASSUME NEW op, NEW args, Accepted(op, args), NEW n, n = ExpressionNode(op, args), NEW scope, scope = ScopeOf(op, args)
  PROVE  Fields(op, args, n, scope)
<1>1. DOMAIN args = 1 .. Width(op)
  BY DEF Accepted
<1>2. /\ n.kind = op /\ n.list = scope /\ n.refused = CompileRefused(op, args)
      /\ n.static = (IF CompileRefused(op, args) THEN "unknown" ELSE StaticType(op, args))
      /\ n.celStatic = CelStatic(op, args)
      /\ n.reads = (\E i \in DOMAIN args : args[i].reads)
      /\ n.where = MapOperand(op, args, FALSE) /\ n.whereNot = MapOperand(op, args, TRUE)
      /\ n.parts = IF op \in Junctions THEN args ELSE <<>>
  BY DEF ExpressionNode
<1>3. /\ n.cel = [e \in EnvsOf(scope) |-> EvaluateCel(op, CelsOf(op, args, e), CelBodies(op, args))]
      /\ n.js = [e \in EnvsOf(scope) |->
                   IF CompileRefused(op, args) THEN Err
                   ELSE EvaluateJs(op, args, JssOf(op, args, e), JsBodies(op, args))]
  BY DEF ExpressionNode, CelsOf, JssOf, CelBodies, JsBodies
<1> QED BY <1>1, <1>2, <1>3 DEF Junctions, Fields

LEMMA ExpressionNodeOK ==
  ASSUME NEW op, NEW args, Accepted(op, args)
  PROVE  NodeOK(ExpressionNode(op, args))
<1>1. PICK n, scope : n = ExpressionNode(op, args) /\ scope = ScopeOf(op, args) /\ Fields(op, args, n, scope)
  BY ExpressionFields
<1>2. op \in AllOperators /\ DOMAIN args = 1 .. Width(op) /\ \A i \in 1 .. Width(op) : NodeOK(args[i])
  BY DEF Accepted
<1>3. /\ n.kind = op /\ n.list = scope /\ n.refused = CompileRefused(op, args)
      /\ n.static = (IF CompileRefused(op, args) THEN "unknown" ELSE StaticType(op, args))
      /\ n.celStatic = CelStatic(op, args)
      /\ n.reads = (\E i \in 1 .. Width(op) : args[i].reads)
      /\ n.where = MapOperand(op, args, FALSE) /\ n.whereNot = MapOperand(op, args, TRUE)
      /\ op = "and" => n.parts = args
      /\ DOMAIN n.cel = EnvsOf(scope) /\ DOMAIN n.js = EnvsOf(scope)
      /\ \A e \in EnvsOf(scope) :
           /\ n.cel[e] = EvaluateCel(op, CelsOf(op, args, e), CelBodies(op, args))
           /\ n.js[e] = IF CompileRefused(op, args) THEN Err
                        ELSE EvaluateJs(op, args, JssOf(op, args, e), JsBodies(op, args))
  BY <1>1 DEF Fields
<1>4. ASSUME NEW e \in EnvsOf(scope), NEW f, f = CelsOf(op, args, e), NEW p, p = CelBodies(op, args)
      PROVE  /\ n.cel[e] = EvaluateCel(op, f, p) /\ Good(n.cel[e]) /\ Good(n.js[e]) /\ n.js[e].t # "int64"
             /\ Admitted = {} /\ ~n.refused => n.js[e] = Erased(n.cel[e])
  <2>1. PICK g, q : g = JssOf(op, args, e) /\ q = JsBodies(op, args)
    OBVIOUS
  <2>2. n.cel[e] = EvaluateCel(op, f, p) /\ n.js[e] = IF CompileRefused(op, args) THEN Err ELSE EvaluateJs(op, args, g, q)
    BY <1>3, <1>4, <2>1
  <2>3. /\ Good(EvaluateCel(op, f, p))
        /\ Good(EvaluateJs(op, args, g, q)) /\ EvaluateJs(op, args, g, q).t # "int64"
        /\ Admitted = {} /\ ~CompileRefused(op, args) => EvaluateJs(op, args, g, q) = Erased(EvaluateCel(op, f, p))
    BY <1>1, <1>4, <2>1, ReadingsIs
  <2> QED BY <1>3, <2>2, <2>3, GoodSpecials, Constants
<1>5. Shaped(n)
  <2>1. n.static \in StaticTypes /\ n.celStatic \in CheckerTypes
    BY <1>3, StaticShaped DEF StaticTypes
  <2>2. n.where \in Wheres /\ n.whereNot \in Wheres
    BY <1>3, MapOperandShaped
  <2>3. n.refused \in BOOLEAN /\ n.reads \in BOOLEAN
    BY <1>3 DEF CompileRefused
  <2>4. n.list = Undefined \/ (n.list \in Literals /\ n.list.t = "list" /\ Members[n.list] # {})
    BY <1>1, <1>3, ScopeIs
  <2>5. n.kind \in Kinds /\ n.kind \notin {"value", "variable", "element"}
    BY <1>2, <1>3, OperatorsAre DEF Kinds
  <2>6. \A e \in EnvsOf(n.list) : Good(n.cel[e]) /\ Good(n.js[e]) /\ n.js[e].t # "int64"
    BY <1>3, <1>4
  <2> QED BY <1>3, <2>1, <2>2, <2>3, <2>4, <2>5, <2>6 DEF Shaped
<1>6. ASSUME Admitted = {} PROVE Faithful(n)
  <2>1. ASSUME NEW e \in EnvsOf(scope)
        PROVE  /\ CheckerSays(n.celStatic, n.cel[e]) /\ StaticSays(n.static, n.cel[e])
               /\ ~n.refused => n.js[e] = Erased(n.cel[e])
               /\ ~n.reads => n.cel[e] # NegativeZero
               /\ StaticKnows(n.static, n.celStatic)
    <3>1. PICK f, p : f = CelsOf(op, args, e) /\ p = CelBodies(op, args)
      OBVIOUS
    <3>2. n.cel[e] = EvaluateCel(op, f, p) /\ (~n.refused => n.js[e] = Erased(n.cel[e]))
      BY <1>4, <1>6, <2>1, <3>1
    <3>3. /\ CheckerSays(CelStatic(op, args), n.cel[e])
          /\ (\A i \in 1 .. Width(op) : ~args[i].reads) => n.cel[e] # NegativeZero
          /\ ~CompileRefused(op, args) =>
               StaticKnows(StaticType(op, args), CelStatic(op, args)) /\ StaticSays(StaticType(op, args), n.cel[e])
      BY <1>1, <1>6, <2>1, <3>1, <3>2, ResultKnown
    <3>4. \A k, y : StaticKnows("unknown", k) /\ StaticSays("unknown", y)
      BY DEF StaticKnows, StaticSays
    <3> QED BY <1>3, <3>2, <3>3, <3>4
  <2>2. WheresExact(n)
    <3>1. ASSUME scope = Undefined PROVE Exact(n.where, n.cel[Root] = True) /\ Exact(n.whereNot, n.cel[Root] = False)
      <4>1. Root \in EnvsOf(scope)
        BY <3>1 DEF EnvsOf
      <4>2. PICK f, p : f = CelsOf(op, args, Root) /\ p = CelBodies(op, args)
        OBVIOUS
      <4>3. n.cel[Root] = EvaluateCel(op, f, p)
        BY <1>4, <4>1, <4>2
      <4>4. PICK x : x = n.cel[Root] /\ x = EvaluateCel(op, f, p) /\ ScopeOf(op, args) = Undefined
        BY <1>1, <3>1, <4>3
      <4>5. Exact(MapOperand(op, args, FALSE), x = True) /\ Exact(MapOperand(op, args, TRUE), x = False)
        <5>1. SaysAtRoot(op, args, f, p, x)
          BY <4>2, <4>4 DEF SaysAtRoot
        <5> QED BY <1>6, <5>1, MapOperandIs
      <4> QED BY <1>3, <4>4, <4>5
    <3> QED BY <1>3, <3>1 DEF WheresExact
  <2>3. StaticKnows(n.static, n.celStatic)
    <3>1. \E e \in EnvsOf(scope) : TRUE
      BY <1>1, ScopeIs DEF EnvsOf
    <3> QED BY <2>1, <3>1
  <2> QED BY <1>3, <2>1, <2>2, <2>3 DEF Faithful
<1>7. ASSUME op = "and" PROVE SplitOK(n)
  <2>1. op \in Junctions \union {"not"} /\ op \notin Macros /\ Width(op) = 2
    BY <1>7 DEF Junctions, Macros, Width, Conversions
  <2>2. n.parts = args /\ DOMAIN n.parts = 1 .. 2
    BY <1>2, <1>3, <1>7, <2>1
  <2>3. \A i \in 1 .. 2 : NodeOK(args[i]) /\ IsCondition(args[i])
    BY <1>2, <2>1 DEF Accepted, WellFormedPlan
  <2>4. ASSUME scope = Undefined
        PROVE  /\ \A i \in 1 .. 2 : args[i].list = Undefined
               /\ n.cel[Root] = True <=> \A i \in 1 .. 2 : args[i].cel[Root] = True
    <3>1. PICK f, p : f = CelsOf(op, args, Root) /\ p = CelBodies(op, args)
      OBVIOUS
    <3>2. Root \in EnvsOf(scope)
      BY <2>4 DEF EnvsOf
    <3>3. n.cel[Root] = EvaluateCel(op, f, p)
      BY <1>4, <3>1, <3>2
    <3>4. \A i \in 1 .. 2 : args[i].list = Undefined /\ f[i] = args[i].cel[Root] /\ Good(f[i])
      <4>1. ScopeOf(op, args) = Undefined
        BY <1>1, <2>4
      <4>2. \A i \in 1 .. Width(op) : args[i].list = Undefined /\ f[i] = args[i].cel[Root] /\ Good(f[i])
        BY <2>1, <3>1, <4>1, ConditionsAre
      <4> QED BY <2>1, <4>2
    <3>5. PICK a, b : a = f[1] /\ b = f[2] /\ Good(a) /\ Good(b)
      BY <3>4
    <3>6. DOMAIN f = 1 .. 2
      BY <1>2, <2>1, <3>1 DEF CelsOf
    <3>7. {f[i] : i \in DOMAIN f} = {a, b}
      BY <3>5, <3>6
    <3>8. n.cel[Root] = Junction(FALSE, {a, b})
      <4>1. EvaluateCel(op, f, p) = Apply(op, f, p)
        BY <1>2, <1>7, OperatorsAre DEF EvaluateCel, Applied, Junctions
      <4> QED BY <1>7, <3>3, <3>7, <4>1 DEF Apply
    <3>9. n.cel[Root] = True <=> a = True /\ b = True
      <4>1. (Junction(FALSE, {a, b}) = True <=> a = True /\ b = True) /\ (Junction(FALSE, {a, b}) = False <=> a = False \/ b = False)
        <5>1. Good(a) /\ Good(b)
          BY <3>5
        <5> QED BY <5>1, PairIs
      <4> QED BY <3>8, <4>1
    <3> QED BY <3>4, <3>5, <3>9
  <2> QED BY <1>3, <2>2, <2>3, <2>4 DEF SplitOK, NodeOK
<1> QED BY <1>1, <1>3, <1>5, <1>6, <1>7 DEF NodeOK

-----------------------------------------------------------------------------
(* The stack *)

LEMMA NoNodes == NodesOK(<<>>)
BY DEF NodesOK

\* A node on top of others.
LEMMA Appended ==
  ASSUME NEW s, NodesOK(s), NEW n, NodeOK(n)
  PROVE  NodesOK(Append(s, n))
<1>1. PICK S : S = {s[i] : i \in DOMAIN s}
  OBVIOUS
<1>2. s \in Seq(S) /\ \A i \in 1 .. Len(s) : NodeOK(s[i])
  BY <1>1 DEF NodesOK
<1>3. PICK T : T = S \union {n}
  OBVIOUS
<1>4. s \in Seq(T) /\ Len(s) \in Nat
  BY <1>2, <1>3
<1>5. PICK u : u = Append(s, n)
  OBVIOUS
<1>6. u \in Seq(T) /\ Len(u) = Len(s) + 1 /\ (\A i \in 1 .. Len(s) : u[i] = s[i]) /\ u[Len(s) + 1] = n
  BY <1>3, <1>4, <1>5, AppendProperties
<1>7. \A i \in DOMAIN u : i \in 1 .. Len(s) \/ i = Len(s) + 1
  BY <1>4, <1>6
<1>8. \A i \in DOMAIN u : NodeOK(u[i])
  BY <1>2, <1>6, <1>7
<1>9. u \in Seq({u[i] : i \in DOMAIN u})
  BY <1>6, OwnMembers
<1> QED BY <1>5, <1>8, <1>9 DEF NodesOK

\* Part of a stack.
LEMMA Part ==
  ASSUME NEW s, NodesOK(s), NEW k \in Int, NEW l \in Int, 1 <= k, l <= Len(s), k <= l + 1
  PROVE  LET t == SubSeq(s, k, l) IN NodesOK(t) /\ DOMAIN t = 1 .. l - k + 1
<1>1. PICK S : S = {s[i] : i \in DOMAIN s}
  OBVIOUS
<1>2. s \in Seq(S) /\ \A i \in 1 .. Len(s) : NodeOK(s[i])
  BY <1>1 DEF NodesOK
<1>3. \A i \in k .. l : i \in 1 .. Len(s) /\ s[i] \in S
  BY <1>2
<1>4. PICK t : t = SubSeq(s, k, l)
  OBVIOUS
<1>5. t \in Seq(S) /\ Len(t) = (IF k <= l THEN l - k + 1 ELSE 0) /\ \A i \in 1 .. l - k + 1 : t[i] = s[k + i - 1]
  BY <1>3, <1>4, SubSeqProperties
<1>6. Len(t) = l - k + 1 /\ DOMAIN t = 1 .. l - k + 1
  BY <1>5
<1>7. \A i \in 1 .. l - k + 1 : k + i - 1 \in k .. l
  OBVIOUS
<1>8. \A i \in DOMAIN t : NodeOK(t[i])
  BY <1>2, <1>3, <1>5, <1>6, <1>7
<1>9. t \in Seq({t[i] : i \in DOMAIN t})
  BY <1>5, OwnMembers
<1> QED BY <1>4, <1>6, <1>8, <1>9 DEF NodesOK

\* What an operator consumes, and what it leaves.
LEMMA TopIs ==
  ASSUME NodesOK(stack), NEW k \in Nat, k <= Len(stack)
  PROVE  /\ NodesOK(Under(k))
         /\ DOMAIN Top(k) = 1 .. k /\ \A i \in 1 .. k : NodeOK(Top(k)[i])
<1>1. PICK l : l = Len(stack)
  OBVIOUS
<1>2. l \in Nat
  BY <1>1 DEF NodesOK
<1>3. NodesOK(SubSeq(stack, 1, l - k))
  <2>1. 1 \in Int /\ l - k \in Int /\ 1 <= 1 /\ l - k <= Len(stack) /\ 1 <= l - k + 1
    BY <1>1, <1>2
  <2> QED BY <2>1, Part
<1>4. PICK m : m = l - k + 1
  OBVIOUS
<1>5. PICK t : t = SubSeq(stack, m, l)
  OBVIOUS
<1>6. NodesOK(t) /\ DOMAIN t = 1 .. l - m + 1
  <2>1. m \in Int /\ l \in Int /\ 1 <= m /\ l <= Len(stack) /\ m <= l + 1
    BY <1>1, <1>2, <1>4
  <2> QED BY <1>5, <2>1, Part
<1>7. l - m + 1 = k
  BY <1>2, <1>4
<1>8. Under(k) = SubSeq(stack, 1, l - k) /\ Top(k) = t
  BY <1>1, <1>4, <1>5 DEF Under, Top
<1>9. DOMAIN t = 1 .. k /\ \A i \in 1 .. k : NodeOK(t[i])
  BY <1>6, <1>7 DEF NodesOK
<1> QED BY <1>3, <1>8, <1>9

-----------------------------------------------------------------------------
(* The inductive invariant holds *)

LEMMA InitIInv == Init => IInv
<1> SUFFICES ASSUME Init PROVE IInv
  OBVIOUS
<1>1. NodesOK(stack)
  BY NoNodes DEF Init
<1>2. 0 \in 0 .. MaxNodes
  BY BoundsAssumption
<1>3. RecordOK
  BY DEF Init, RecordOK
<1>4. AnswerOK /\ Good(root)
  BY GoodSpecials DEF Init, AnswerOK
<1> QED BY <1>1, <1>2, <1>3, <1>4 DEF Init, IInv

\* Every read pushes one node.
LEMMA ReadIInv ==
  ASSUME IInv, NEW rest, NodesOK(rest), NEW n, NodeOK(n), Read(rest, n), RecordOK'
  PROVE  IInv'
<1>1. NodesOK(Append(rest, n))
  BY Appended
<1>2. NodesOK(stack')
  BY <1>1 DEF Read
<1>3. nodes \in 0 .. MaxNodes /\ nodes < MaxNodes /\ nodes' = nodes + 1
  BY DEF IInv, Read
<1>4. nodes' \in 0 .. MaxNodes
  BY <1>3, BoundsAssumption
<1>5. /\ allowed' = allowed /\ phase' = phase /\ root' = root /\ pushed' = pushed /\ kept' = kept
      /\ returned' = returned
  BY DEF Read
<1>6. AnswerOK'
  BY <1>5 DEF IInv, AnswerOK
<1> QED BY <1>2, <1>4, <1>5, <1>6 DEF IInv

LEMMA RecordKept ==
  ASSUME RecordOK, UNCHANGED <<metadata, sent, mapper>>
  PROVE  RecordOK'
BY DEF RecordOK

LEMMA ReadValueIInv == IInv /\ ReadValue => IInv'
<1> SUFFICES ASSUME IInv, ReadValue PROVE IInv'
  OBVIOUS
<1>1. PICK x \in Literals, hidden \in {"int64", "num"} :
        Read(stack, ValueNode(x, hidden)) /\ UNCHANGED <<metadata, sent, mapper>>
  BY HiddenIs DEF ReadValue
<1>2. NodeOK(ValueNode(x, hidden))
  BY ValueNodeOK
<1>3. NodesOK(stack) /\ RecordOK'
  BY <1>1, RecordKept DEF IInv
<1> QED BY <1>1, <1>2, <1>3, ReadIInv

LEMMA ReadElementIInv == IInv /\ ReadElement => IInv'
<1> SUFFICES ASSUME IInv, ReadElement PROVE IInv'
  OBVIOUS
<1>1. PICK x \in {y \in Literals : y.t = "list" /\ ~HoldsNull(y) /\ Members[y] # {}}, hidden \in {"int64", "num"} :
        /\ "mixedList" \in Admitted \/ ~MixedList(x, hidden)
        /\ Read(stack, ElementNode(x, hidden)) /\ UNCHANGED <<metadata, sent, mapper>>
  BY HiddenIs DEF ReadElement
<1>2. NodeOK(ElementNode(x, hidden))
  BY <1>1, ElementNodeOK
<1>3. NodesOK(stack) /\ RecordOK'
  BY <1>1, RecordKept DEF IInv
<1> QED BY <1>1, <1>2, <1>3, ReadIInv

\* What is decided of a key stays so.
LEMMA DecideOK ==
  ASSUME RecordOK, NEW r \in Refs, Decide(r)
  PROVE  RecordOK' /\ r \in DOMAIN metadata'
<1>1. CASE r \in DOMAIN metadata
  <2>1. UNCHANGED <<metadata, sent, mapper>>
    BY <1>1 DEF Decide
  <2> QED BY <1>1, <2>1, RecordKept
<1>2. CASE r \notin DOMAIN metadata
  <2>1. PICK keys : keys = DOMAIN metadata \union {r}
    OBVIOUS
  <2>2. PICK x, d, attribute :
          /\ x \in Metadata /\ d \in Declarations /\ attribute \in SentFor(x) /\ Declares(d, x)
          /\ metadata' = [q \in keys |-> IF q = r THEN x ELSE metadata[q]]
          /\ sent' = [q \in keys |-> IF q = r THEN attribute ELSE sent[q]]
          /\ mapper' = [q \in keys |-> IF q = r THEN d ELSE mapper[q]]
    BY <1>2, <2>1 DEF Decide
  <2>3. DOMAIN metadata' = keys /\ DOMAIN sent' = keys /\ DOMAIN mapper' = keys /\ keys \subseteq Refs
    BY <2>1, <2>2 DEF RecordOK
  <2>4. ASSUME NEW q \in keys
        PROVE  /\ metadata'[q] \in Metadata /\ mapper'[q] \in Declarations
               /\ Declares(mapper'[q], metadata'[q]) /\ sent'[q] \in SentFor(metadata'[q])
    BY <2>1, <2>2, <2>4 DEF RecordOK
  <2> QED BY <2>1, <2>3, <2>4 DEF RecordOK
<1> QED BY <1>1, <1>2

LEMMA ReadVariableIInv == IInv /\ ReadVariable => IInv'
<1> SUFFICES ASSUME IInv, ReadVariable PROVE IInv'
  OBVIOUS
<1>1. PICK r \in Refs : Decide(r) /\ Read(stack, VariableNode(mapper'[r], metadata'[r], sent'[r]))
  BY DEF ReadVariable
<1>2. RecordOK' /\ r \in DOMAIN metadata'
  BY <1>1, DecideOK DEF IInv
<1>3. PICK d, x, s : d = mapper'[r] /\ x = metadata'[r] /\ s = sent'[r]
  OBVIOUS
<1>4. d \in Declarations /\ x \in Metadata /\ s \in SentFor(x) /\ Declares(d, x)
  BY <1>2, <1>3 DEF RecordOK
<1>5. NodeOK(VariableNode(d, x, s))
  BY <1>4, VariableNodeOK
<1>6. NodesOK(stack)
  BY DEF IInv
<1> QED BY <1>1, <1>2, <1>3, <1>5, <1>6, ReadIInv

LEMMA ReadExpressionIInv == IInv /\ ReadExpression => IInv'
<1> SUFFICES ASSUME IInv, ReadExpression PROVE IInv'
  OBVIOUS
<1>1. PICK op \in Operators :
        /\ Width(op) <= Len(stack)
        /\ WellFormedPlan(op, Top(Width(op))) /\ AdmittedShape(op, Top(Width(op)))
        /\ Read(Under(Width(op)), ExpressionNode(op, Top(Width(op)))) /\ UNCHANGED <<metadata, sent, mapper>>
  BY DEF ReadExpression
<1>2. op \in AllOperators
  BY BoundsAssumption
<1>3. Width(op) \in 1 .. 3
  BY <1>2, WidthIs
<1>4. PICK k, args, rest : k = Width(op) /\ args = Top(k) /\ rest = Under(k)
  OBVIOUS
<1>5. NodesOK(rest) /\ DOMAIN args = 1 .. k /\ \A i \in 1 .. k : NodeOK(args[i])
  <2>1. k \in Nat /\ k <= Len(stack) /\ NodesOK(stack)
    BY <1>1, <1>3, <1>4 DEF IInv
  <2> QED BY <1>4, <2>1, TopIs
<1>6. Accepted(op, args)
  BY <1>1, <1>2, <1>4, <1>5 DEF Accepted
<1>7. NodeOK(ExpressionNode(op, args))
  BY <1>6, ExpressionNodeOK
<1>8. RecordOK'
  BY <1>1, RecordKept DEF IInv
<1> QED BY <1>1, <1>4, <1>5, <1>7, <1>8, ReadIInv
\* A conjunction is true of what every conjunct is true of.
LEMMA AllTrue ==
  ASSUME NEW S, \A x \in S : Good(x)
  PROVE  Junction(FALSE, S) = True <=> \A x \in S : x = True
<1>1. \A x \in S : /\ AsBoolean(x) = True <=> x = True
                   /\ AsBoolean(x) \in Tri
  BY GoodIs, Constants DEF AsBoolean, Tri
<1> QED BY <1>1, Constants DEF Junction, Tri, Bool

\* A condition the call may answer for, outside every lambda.
Answerable(n) == Shaped(n) /\ Faithful(n) /\ IsCondition(n) /\ n.list = Undefined

LEMMA AnswerableIs ==
  ASSUME NEW n, Answerable(n)
  PROVE  /\ Good(n.cel[Root]) /\ Good(n.js[Root])
         /\ n.where.outcome = "translated" => (n.where.match <=> n.cel[Root] = True)
         /\ n.where.outcome \in {"translated", "unsupported", "error"}
         /\ ~n.refused => (n.js[Root] = True <=> n.cel[Root] = True)
<1>1. Root \in EnvsOf(n.list)
  BY DEF Answerable, EnvsOf
<1>2. Good(n.cel[Root]) /\ Good(n.js[Root]) /\ n.where \in Wheres
  BY <1>1 DEF Answerable, Shaped
<1>3. n.where.outcome = "translated" => (n.where.match <=> n.cel[Root] = True)
  BY DEF Answerable, Faithful, WheresExact, Exact
<1>4. ~n.refused => n.js[Root] = Erased(n.cel[Root])
  BY <1>1 DEF Answerable, Faithful
<1>5. ~n.refused => (n.js[Root] = True <=> n.cel[Root] = True)
  BY <1>2, <1>4, BooleanErased
<1> QED BY <1>2, <1>3, <1>5 DEF Wheres

\* What is pushed and what is kept of a condition are together all of it.
SplitExact(n, parts, R) ==
  LET match == \A i \in DOMAIN parts \ R : parts[i].where.match
      keep == Junction(FALSE, {parts[i].js[Root] : i \in R}) = True
  IN (match /\ keep) <=> n.cel[Root] = True

\* splitCondition: so it is of every condition it splits.
LEMMA SplitIs ==
  ASSUME NEW n, NodeOK(n), Admitted = {}, IsCondition(n), n.list = Undefined,
         n.where.outcome = "unsupported", ~SplitRefused(n),
         NEW parts, parts = Conjuncts(n), NEW R, R = Rest(n)
  PROVE  SplitExact(n, parts, R)
<1>1. Answerable(n)
  BY DEF NodeOK, Answerable
<1>2. (\A i \in DOMAIN parts : Answerable(parts[i]))
      /\ (n.cel[Root] = True <=> \A i \in DOMAIN parts : parts[i].cel[Root] = True)
  <2>1. CASE n.kind = "and"
    <3>1. parts = n.parts /\ SplitOK(n)
      BY <2>1 DEF Conjuncts, NodeOK
    <3>2. DOMAIN parts = 1 .. 2
      BY <3>1 DEF SplitOK
    <3>3. \A i \in 1 .. 2 : Answerable(parts[i])
      BY <3>1 DEF SplitOK, Answerable
    <3>4. n.cel[Root] = True <=> \A i \in 1 .. 2 : parts[i].cel[Root] = True
      BY <3>1 DEF SplitOK
    <3> QED BY <3>2, <3>3, <3>4
  <2>2. CASE n.kind # "and"
    <3>1. parts = <<n>>
      BY <2>2 DEF Conjuncts
    <3>2. DOMAIN parts = {1} /\ parts[1] = n
      BY <3>1
    <3> QED BY <1>1, <3>2
  <2> QED BY <2>1, <2>2
<1>3. R \subseteq DOMAIN parts /\ \A i \in DOMAIN parts : i \in R <=> parts[i].where.outcome = "unsupported"
  BY DEF Rest
<1>4. (\A i \in DOMAIN parts : parts[i].where.outcome # "error") /\ (\A i \in R : ~parts[i].refused)
  BY DEF SplitRefused
<1>5. \A i \in DOMAIN parts \ R : parts[i].where.match <=> parts[i].cel[Root] = True
  <2>1. ASSUME NEW i \in DOMAIN parts \ R PROVE parts[i].where.match <=> parts[i].cel[Root] = True
    <3>1. PICK m : m = parts[i]
      OBVIOUS
    <3>2. Answerable(m) /\ m.where.outcome \notin {"unsupported", "error"}
      BY <1>2, <1>3, <1>4, <3>1
    <3>3. m.where.match <=> m.cel[Root] = True
      BY <3>2, AnswerableIs
    <3> QED BY <3>1, <3>3
  <2> QED BY <2>1
<1>6. \A i \in R : Good(parts[i].js[Root]) /\ (parts[i].js[Root] = True <=> parts[i].cel[Root] = True)
  <2>1. ASSUME NEW i \in R PROVE Good(parts[i].js[Root]) /\ (parts[i].js[Root] = True <=> parts[i].cel[Root] = True)
    <3>1. PICK m : m = parts[i]
      OBVIOUS
    <3>2. Answerable(m) /\ ~m.refused
      BY <1>2, <1>3, <1>4, <3>1
    <3>3. Good(m.js[Root]) /\ (m.js[Root] = True <=> m.cel[Root] = True)
      BY <3>2, AnswerableIs
    <3> QED BY <3>1, <3>3
  <2> QED BY <2>1
<1>7. PICK S : S = {parts[i].js[Root] : i \in R}
  OBVIOUS
<1>8. Junction(FALSE, S) = True <=> \A x \in S : x = True
  BY <1>6, <1>7, AllTrue
<1>9. Junction(FALSE, S) = True <=> \A i \in R : parts[i].cel[Root] = True
  BY <1>6, <1>7, <1>8
<1>10. (\A i \in DOMAIN parts : parts[i].cel[Root] = True)
         <=> ((\A i \in DOMAIN parts \ R : parts[i].cel[Root] = True) /\ (\A i \in R : parts[i].cel[Root] = True))
  BY <1>3
<1> QED BY <1>2, <1>5, <1>7, <1>9, <1>10 DEF SplitExact

LEMMA TranslateIInv == IInv /\ Translate => IInv'
<1> SUFFICES ASSUME IInv, Translate PROVE IInv'
  OBVIOUS
<1>1. PICK n, parts, R : n = stack[1] /\ parts = Conjuncts(n) /\ R = Rest(n)
  OBVIOUS
<1>2. /\ phase = "reading" /\ Len(stack) = 1 /\ n.list = Undefined /\ IsCondition(n)
      /\ root' = n.cel[Root] /\ stack' = <<>>
      /\ metadata' = metadata /\ sent' = sent /\ mapper' = mapper
      /\ allowed' = allowed /\ nodes' = nodes /\ returned' = returned
  BY <1>1 DEF Translate
<1>3. \/ /\ n.where.outcome = "translated"
         /\ phase' = "translated" /\ pushed' = n.where.match /\ kept' = TRUE
      \/ phase' = "refused" /\ pushed' = pushed /\ kept' = kept
      \/ /\ n.where.outcome = "unsupported" /\ ~SplitRefused(n)
         /\ phase' = "translated"
         /\ pushed' = (\A i \in DOMAIN parts \ R : parts[i].where.match)
         /\ kept' = (Junction(FALSE, {parts[i].js[Root] : i \in R}) = True)
  BY <1>1 DEF Translate
<1>4. NodeOK(n)
  <2>1. DOMAIN stack = 1 .. 1
    BY <1>2 DEF IInv, NodesOK
  <2> QED BY <1>1, <2>1 DEF IInv, NodesOK
<1>5. Good(n.cel[Root]) /\ n.where \in Wheres
  BY <1>2, <1>4 DEF NodeOK, Shaped, EnvsOf
<1>6. pushed' \in BOOLEAN /\ kept' \in BOOLEAN /\ phase' \in {"refused", "translated"}
  BY <1>3, <1>5 DEF IInv, Wheres
<1>7. ASSUME Admitted = {}, phase' = "translated" PROVE (pushed' /\ kept') <=> root' = True
  <2>1. Answerable(n)
    BY <1>2, <1>4, <1>7 DEF NodeOK, Answerable
  <2>2. CASE n.where.outcome = "translated" /\ pushed' = n.where.match /\ kept' = TRUE
    <3>1. n.where.match <=> n.cel[Root] = True
      BY <2>1, <2>2, AnswerableIs
    <3> QED BY <1>2, <2>2, <3>1
  <2>3. CASE /\ n.where.outcome = "unsupported" /\ ~SplitRefused(n)
             /\ pushed' = (\A i \in DOMAIN parts \ R : parts[i].where.match)
             /\ kept' = (Junction(FALSE, {parts[i].js[Root] : i \in R}) = True)
    <3>1. SplitExact(n, parts, R)
      BY <1>1, <1>2, <1>4, <1>7, <2>3, SplitIs
    <3> QED BY <1>2, <2>3, <3>1 DEF SplitExact
  <2> QED BY <1>3, <1>7, <2>2, <2>3
<1>8. AnswerOK'
  BY <1>6, <1>7 DEF AnswerOK
<1>9. NodesOK(stack') /\ RecordOK'
  BY <1>2, NoNodes, RecordKept DEF IInv
<1> QED BY <1>2, <1>5, <1>6, <1>8, <1>9 DEF IInv

LEMMA TranslateUnconditionalIInv == IInv /\ TranslateUnconditional => IInv'
<1> SUFFICES ASSUME IInv, TranslateUnconditional PROVE IInv'
  OBVIOUS
<1>1. PICK answer \in BOOLEAN : root' = Bool(answer) /\ pushed' = answer
  BY DEF TranslateUnconditional
<1>2. /\ phase' = "translated" /\ kept' = TRUE
      /\ metadata' = metadata /\ sent' = sent /\ mapper' = mapper
      /\ allowed' = allowed /\ stack' = stack /\ nodes' = nodes /\ returned' = returned
  BY DEF TranslateUnconditional
<1>3. Good(root') /\ pushed' \in BOOLEAN /\ kept' \in BOOLEAN /\ (pushed' /\ kept' <=> root' = True)
  BY <1>1, <1>2, BoolIs, GoodTri
<1>4. AnswerOK'
  BY <1>2, <1>3 DEF AnswerOK
<1>5. NodesOK(stack') /\ RecordOK'
  BY <1>2, RecordKept DEF IInv
<1> QED BY <1>2, <1>3, <1>4, <1>5 DEF IInv

\* The search and the caller's filter change nothing that was decided.
LEMMA QueriedIInv ==
  ASSUME IInv, UNCHANGED <<metadata, sent, mapper, allowed, stack, nodes, root, pushed, kept>>,
         phase' \in {"reading", "refused", "translated", "candidates", "answered"}, returned' \in BOOLEAN, AnswerOK'
  PROVE  IInv'
<1>1. NodesOK(stack') /\ RecordOK'
  BY RecordKept DEF IInv
<1> QED BY <1>1 DEF IInv

LEMMA RunQueryIInv == IInv /\ RunQuery => IInv'
<1> SUFFICES ASSUME IInv, RunQuery PROVE IInv'
  OBVIOUS
<1>1. /\ phase = "translated" /\ phase' = "candidates" /\ returned' = returned
      /\ UNCHANGED <<metadata, sent, mapper, allowed, stack, nodes, root, pushed, kept>>
  BY DEF RunQuery
<1>2. AnswerOK' /\ returned' \in BOOLEAN
  BY <1>1 DEF IInv, AnswerOK
<1> QED BY <1>1, <1>2, QueriedIInv

LEMMA PostFilterIInv == IInv /\ PostFilter => IInv'
<1> SUFFICES ASSUME IInv, PostFilter PROVE IInv'
  OBVIOUS
<1>1. /\ phase = "candidates" /\ phase' = "answered" /\ returned' = (pushed /\ kept)
      /\ UNCHANGED <<metadata, sent, mapper, allowed, stack, nodes, root, pushed, kept>>
  BY DEF PostFilter
<1>2. AnswerOK' /\ returned' \in BOOLEAN
  BY <1>1 DEF IInv, AnswerOK
<1> QED BY <1>1, <1>2, QueriedIInv

LEMMA StepIInv == IInv /\ [Next]_vars => IInv'
<1> SUFFICES ASSUME IInv, [Next]_vars PROVE IInv'
  OBVIOUS
<1>1. CASE ReadValue
  BY <1>1, ReadValueIInv
<1>2. CASE ReadElement
  BY <1>2, ReadElementIInv
<1>3. CASE ReadVariable
  BY <1>3, ReadVariableIInv
<1>4. CASE ReadExpression
  BY <1>4, ReadExpressionIInv
<1>5. CASE Translate
  BY <1>5, TranslateIInv
<1>6. CASE TranslateUnconditional
  BY <1>6, TranslateUnconditionalIInv
<1>7. CASE RunQuery
  BY <1>7, RunQueryIInv
<1>8. CASE PostFilter
  BY <1>8, PostFilterIInv
<1>9. CASE UNCHANGED vars
  <2>1. /\ phase' = phase /\ returned' = returned
        /\ UNCHANGED <<metadata, sent, mapper, allowed, stack, nodes, root, pushed, kept>>
    BY <1>9 DEF vars
  <2>2. /\ AnswerOK' /\ returned' \in BOOLEAN
        /\ phase' \in {"reading", "refused", "translated", "candidates", "answered"}
    BY <2>1 DEF IInv, AnswerOK
  <2> QED BY <2>1, <2>2, QueriedIInv
<1> QED BY <1>1, <1>2, <1>3, <1>4, <1>5, <1>6, <1>7, <1>8, <1>9 DEF Next

LEMMA Inductive == Spec => []IInv
BY InitIInv, StepIInv, PTL DEF Spec

-----------------------------------------------------------------------------
(* The results *)

LEMMA GoodChroma == ASSUME NEW x, Good(x) PROVE x \in ChromaValue
<1>1. x \in [t : KnownTypes, v : Int]
  BY GoodIs
<1> QED BY <1>1 DEF ChromaValue, KnownTypes, Types, Scalars

\* index.ts and postFilter.ts: the call is typed whatever the mapper, the metadata and the plan, and
\* the predicate never computes with an int, which the plan it was compiled from does not carry.
THEOREM TypeCorrect == Spec => []TypeOK
<1>1. IInv => TypeOK
  <2> SUFFICES ASSUME IInv PROVE TypeOK
    OBVIOUS
  <2>1. ASSUME NEW i \in DOMAIN stack, NEW n, n = stack[i]
        PROVE  /\ n.static \in StaticTypes
               /\ \A e \in DOMAIN n.cel : n.cel[e] \in ChromaValue /\ n.js[e] \in ChromaValue
               /\ \A e \in DOMAIN n.js : n.js[e].t # "int64"
    <3>1. Shaped(n)
      BY <2>1 DEF IInv, NodesOK, NodeOK
    <3>2. /\ DOMAIN n.cel = EnvsOf(n.list) /\ DOMAIN n.js = EnvsOf(n.list) /\ n.static \in StaticTypes
          /\ \A e \in EnvsOf(n.list) : Good(n.cel[e]) /\ Good(n.js[e]) /\ n.js[e].t # "int64"
      BY <3>1 DEF Shaped
    <3>3. \A e \in EnvsOf(n.list) : n.cel[e] \in ChromaValue /\ n.js[e] \in ChromaValue
      BY <3>2, GoodChroma
    <3> QED BY <3>2, <3>3
  <2>2. root \in ChromaValue
    BY GoodChroma DEF IInv
  <2> QED BY <2>1, <2>2 DEF IInv, TypeOK, RecordOK
<1> QED BY <1>1, Inductive, PTL

\* postFilter.ts and cel.ts: where none of the listed disagreements is admitted, the predicate
\* computes what CEL does without the types the plan dropped, for any plan it does not refuse
\* and any record: an error for an error, and otherwise the same value.
THEOREM PredicateIsFaithful ==
  ASSUME Admitted = {}
  PROVE  Spec => []PredicateFaithful
<1>1. IInv => PredicateFaithful
  <2> SUFFICES ASSUME IInv PROVE PredicateFaithful
    OBVIOUS
  <2>1. ASSUME NEW i \in DOMAIN stack, NEW n, n = stack[i], ~n.refused, NEW e \in DOMAIN n.cel
        PROVE  Unsigned(n.js[e]) = Erased(n.cel[e])
    <3>1. Shaped(n) /\ Faithful(n)
      BY <2>1 DEF IInv, NodesOK, NodeOK
    <3>2. e \in EnvsOf(n.list) /\ Good(n.cel[e]) /\ n.js[e] = Erased(n.cel[e])
      BY <2>1, <3>1 DEF Shaped, Faithful
    <3>3. PICK x : x = n.cel[e]
      OBVIOUS
    <3>4. Unsigned(Erased(x)) = Erased(x)
      BY <3>2, <3>3, ErasedIs
    <3> QED BY <3>2, <3>3, <3>4
  <2> QED BY <2>1 DEF PredicateFaithful
<1> QED BY <1>1, Inductive, PTL

\* splitCondition and compare of index.ts: where none of the listed disagreements is admitted, a
\* Where matches exactly the records its condition is true of (false of, when negated), and the
\* search and the post-filter together return exactly the records the whole condition is true of.
THEOREM PushdownLosesNothing ==
  ASSUME Admitted = {}
  PROVE  Spec => []PushdownExact
<1>1. IInv => PushdownExact
  <2> SUFFICES ASSUME IInv PROVE PushdownExact
    OBVIOUS
  <2>1. phase = "answered" => (returned <=> root = True)
    BY DEF IInv, AnswerOK
  <2>2. ASSUME NEW i \in DOMAIN stack, NEW n, n = stack[i], n.list = Undefined, IsCondition(n)
        PROVE  /\ n.where.outcome = "translated" => (n.where.match <=> n.cel[Root] = True)
               /\ n.whereNot.outcome = "translated" => (n.whereNot.match <=> n.cel[Root] = False)
    <3>1. Faithful(n)
      BY <2>2 DEF IInv, NodesOK, NodeOK
    <3> QED BY <2>2, <3>1 DEF Faithful, WheresExact, Exact
  <2> QED BY <2>1, <2>2 DEF PushdownExact
<1> QED BY <1>1, Inductive, PTL
=============================================================================
