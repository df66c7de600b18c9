------------------------ MODULE ConvexEvaluatorProofs ------------------------
(***************************************************************************)
(* What TLAPS proves of the Convex adapter's evaluator: over the values a  *)
(* plan and a document hold it computes what CEL does with the types the   *)
(* plan dropped, and throws only where CEL divides by a zero, for any plan *)
(* over any document.                                                      *)
(***************************************************************************)
EXTENDS ConvexEvaluator, CelFacts, FunctionTheorems, WellFoundedInduction

-----------------------------------------------------------------------------
(* The inductive invariant *)

\* What evaluate() may return, and what of CEL's value it then is.
GoodJs(y) == y = Thrown \/ (Good(y) /\ y.t # "int64")
Renders(y, x) == y.t # "int64" /\ y \in {x, Erased(x)}

\* A list that a document or a plan holds.
Listed(l) == l \in DocValues \union Literals /\ l.t = "list"

Kinds == AllOperators \union {"value", "variable", "element"}

\* What a constant is known to be, and what an attribute.
ValueShaped(n) ==
  /\ n.static = "int" => n.cel[Root].t = "int64"
  /\ IsIntegral(n.lit) => n.static \in {"int", "double"}
  /\ IsFraction(n.lit) => n.cel[Root].t = "num"
VariableShaped(n) == n.js[Root] = n.cel[Root] /\ n.cel[Root].t # "int64"

\* What the adapter takes an expression to be it is, whatever the plan.
TypesHold(n) ==
  /\ n.int => n.static = "int"
  /\ \A e \in EnvsOf(n.scope) :
       /\ n.int => n.cel[e].t \in {"int64", "error"}
       /\ n.kind = "double" => IsDouble(n.cel[e]) \/ n.cel[e].t = "error"
       /\ n.temporal # "none" => n.cel[e].t \in {n.temporal, "error"}

Shaped(n) ==
  /\ n.kind \in Kinds /\ n.static \in CheckerTypes
  /\ n.scope = Undefined \/ Listed(n.scope)
  /\ DOMAIN n.cel = EnvsOf(n.scope) /\ DOMAIN n.js = EnvsOf(n.scope) /\ DOMAIN n.zeroed = EnvsOf(n.scope)
  /\ \A e \in EnvsOf(n.scope) : Good(n.cel[e]) /\ GoodJs(n.js[e])
  /\ n.numeric \in {"none", "int", "double"} /\ n.temporal \in {"none", "time", "dur"}
  /\ TypesHold(n)
  /\ n.kind \in {"value", "variable"} =>
       /\ n.scope = Undefined /\ ~n.int
       /\ "list" \in {n.cel[Root].t, n.js[Root].t} => Listed(n.js[Root]) /\ n.cel[Root] = n.js[Root]
  /\ n.kind = "value" => ValueShaped(n)
  /\ n.kind = "variable" => VariableShaped(n)
  /\ n.kind = "element" => ~n.int

\* A throw is of a division by zero, and any other answer is CEL's.
Faithful(n) ==
  ~n.refused =>
    \A e \in EnvsOf(n.scope) : IF n.js[e] = Thrown THEN n.zeroed[e] ELSE Renders(n.js[e], n.cel[e])

NodeOK(n) == Shaped(n) /\ (Admitted = {} => Faithful(n))

NodesOK(s) == s \in Seq({s[i] : i \in DOMAIN s}) /\ \A i \in DOMAIN s : NodeOK(s[i])

DocumentOK == DOMAIN doc \subseteq Refs /\ \A r \in DOMAIN doc : doc[r] \in DocValues

\* The post-filter knows of the document what CEL does.
AnswerOK ==
  Admitted = {} =>
    /\ phase = "translated" /\ answer # Thrown => (answer = True <=> root = True)
    /\ phase = "answered" => (returned <=> root = True)

IInv ==
  /\ DocumentOK
  /\ convention \in Conventions
  /\ NodesOK(stack)
  /\ nodes \in 0 .. MaxNodes
  /\ phase \in {"reading", "refused", "translated", "aborted", "answered"}
  /\ Good(root) /\ GoodJs(answer)
  /\ returned \in BOOLEAN
  /\ AnswerOK

-----------------------------------------------------------------------------
(* The operators, and what the loops search *)

LEMMA OperatorsAre ==
  ASSUME NEW op \in AllOperators
  PROVE  /\ op \notin {"value", "variable", "element"}
         /\ op \in Macros => op \notin Junctions \union Comparisons \union Arithmetic \union Conversions
                                    \union {"not", "if", "size", "in", "hasIntersection", "add", "sub", "string", "int", "double"}
         /\ op \in Junctions => op \notin Macros \union Comparisons \union Arithmetic \union Conversions \union {"if", "size"}
         /\ op \in Comparisons => op \notin Arithmetic \union Conversions \union {"not", "size", "if"}
         /\ op \in Arithmetic => op \notin Conversions \union {"not", "size", "if"}
         /\ op \in Conversions => op \notin {"not", "size", "if"}
BY DEF AllOperators, Junctions, Macros, Quantifiers, Comparisons, Equalities, Orderings, Arithmetic, Conversions

\* The places of an operator's operands.
LEMMA WidthIs ==
  ASSUME NEW op \in AllOperators
  PROVE  /\ Width(op) \in 1 .. 3 /\ 1 \in 1 .. Width(op)
         /\ op \notin Conversions \union {"not", "size"} => 2 \in 1 .. Width(op)
         /\ op = "if" => 3 \in 1 .. Width(op)
         /\ op \in Conversions \union {"not", "size"} => 1 .. Width(op) = {1}
         /\ op \in Junctions \union Macros \union Comparisons \union Arithmetic => Width(op) = 2 /\ 1 .. Width(op) = {1, 2}
BY DEF Width, AllOperators, Junctions, Macros, Quantifiers, Conversions, Comparisons, Equalities, Orderings, Arithmetic

LEMMA LeastIs ==
  ASSUME NEW S, S \subseteq Nat, S # {}
  PROVE  Least(S) \in S
<1>1. PICK x \in S : \A y \in S : <<y, x>> \notin OpToRel(<, Nat)
  BY WFMin, NatLessThanWellFounded, Zenon
<1>2. \A y \in S : ~(y < x)
  BY <1>1, Zenon DEF OpToRel
<1>3. \A y \in S : x <= y
  BY <1>2
<1> QED BY <1>3 DEF Least

\* The elements of a list, in the order a lambda is called for them.
LEMMA OrderIs ==
  ASSUME NEW S, IsFiniteSet(S), NEW s, s = CHOOSE f \in [1 .. Cardinality(S) -> S] : {f[i] : i \in DOMAIN f} = S
  PROVE  Cardinality(S) \in Nat /\ s \in [1 .. Cardinality(S) -> S]
<1>1. PICK k : k = Cardinality(S)
  OBVIOUS
<1>2. k \in Nat /\ ExistsBijection(1 .. k, S)
  BY <1>1, FS_CardinalityType
<1>3. PICK f \in [1 .. k -> S] : \A t \in S : \E i \in 1 .. k : f[i] = t
  BY <1>2 DEF ExistsBijection, Bijection, Surjection
<1>4. {f[i] : i \in DOMAIN f} = S
  BY <1>3
<1> QED BY <1>1, <1>2, <1>3, <1>4

LEMMA ListedIs ==
  ASSUME NEW l, Listed(l)
  PROVE  /\ PlainList(l) /\ l # Undefined /\ Constant(l)
         /\ \A S \in SUBSET Members[l] : LET k == ListOf(S) IN Good(k) /\ k.t = "list"
<1>1. l \in Value /\ l.t = "list"
  BY DocumentsAssumption, Constants DEF Listed
<1>2. /\ \A m \in Members[l] : m.t # "int64"
      /\ \A S \in SUBSET Members[l] : \E k \in DOMAIN Members : k.t = "list" /\ Members[k] = S
  BY ListsAssumption DEF Listed
<1>3. PlainList(l)
  BY <1>1, <1>2 DEF Value, WellFormed, PlainList
<1>4. ASSUME NEW S \in SUBSET Members[l] PROVE LET k == ListOf(S) IN Good(k) /\ k.t = "list"
  <2>1. PICK k : k = ListOf(S)
    OBVIOUS
  <2>2. k \in DOMAIN Members /\ k.t = "list" /\ Members[k] = S
    BY <1>2, <1>4, <2>1 DEF ListOf
  <2>3. PlainList(k) /\ k \in [t : {"list", "map"}, v : Int]
    BY <1>2, <1>4, <2>2, MembersAssumption DEF PlainList
  <2>4. Good(k)
    BY <2>2, <2>3 DEF Good, KnownTypes
  <2> QED BY <2>1, <2>2, <2>4
<1> QED BY <1>1, <1>3, <1>4, Constants DEF Constant

-----------------------------------------------------------------------------
(* What evaluate() returns *)

LEMMA ThrownIs ==
  /\ ~Good(Thrown) /\ Thrown.t = "thrown" /\ AsBoolean(Thrown) = Err /\ ~IsCollection(Thrown)
  /\ Thrown \notin Tri /\ Thrown # Err
<1>1. Thrown.t \notin KnownTypes
  BY DEF Thrown, KnownTypes
<1> QED BY <1>1, GoodIs, Constants DEF Thrown, AsBoolean, IsCollection, Tri

LEMMA TriJs == \A x \in Tri : GoodJs(x)
BY GoodTri DEF GoodJs

LEMMA ErasedJs ==
  ASSUME NEW x, Good(x)
  PROVE  GoodJs(Erased(x)) /\ Renders(Erased(x), x) /\ (x.t # "int64" => GoodJs(x) /\ Renders(x, x))
BY ErasedIs DEF GoodJs, Renders

LEMMA RendersIs ==
  ASSUME NEW y, NEW x, Good(x), Renders(y, x)
  PROVE  /\ Good(y) /\ GoodJs(y) /\ y # Thrown /\ y.t # "int64" /\ y.v = x.v
         /\ Erased(y) = Erased(x) /\ Unsigned(y) = Erased(x)
         /\ x.t \notin {"int64", "negzero"} => y = x
         /\ x.t = "int64" => y = Num(x.v)
         /\ x.t = "negzero" => y \in {NegativeZero, Num(0)}
         /\ y.t = "error" <=> x.t = "error"
         /\ y.t \in {x.t, "num"} /\ (y.t = "num" => x.t \in {"num", "int64", "negzero"})
         /\ y = True <=> x = True
<1>1. PICK z : z = Erased(x)
  OBVIOUS
<1>2. /\ Good(z) /\ z.t \notin {"int64", "negzero"} /\ z.v = x.v
      /\ (x.t \notin {"int64", "negzero"} => z = x)
      /\ z.t = (IF x.t \in {"int64", "negzero"} THEN "num" ELSE x.t)
      /\ (x.t \in {"int64", "negzero"} => z = Num(x.v))
      /\ Erased(z) = z /\ Unsigned(z) = z
  BY <1>1, ErasedIs
<1>3. y \in {x, z} /\ y.t # "int64"
  BY <1>1 DEF Renders
<1>4. Good(y) /\ y.v = x.v /\ Erased(y) = z
  BY <1>1, <1>2, <1>3
<1>5. Unsigned(y) = z
  BY <1>1, <1>2, <1>3 DEF Erased
<1>6. x.t = "negzero" => x = NegativeZero /\ x.v = 0
  BY GoodIs, Constants
<1>7. y # Thrown
  BY <1>4, ThrownIs
<1> QED BY <1>1, <1>2, <1>3, <1>4, <1>5, <1>6, <1>7, Constants DEF GoodJs

LEMMA BooleanIs ==
  ASSUME NEW x, Good(x)
  PROVE  /\ AsBoolean(x) \in Tri
         /\ AsBoolean(x) = True <=> x = True
         /\ AsBoolean(x) = False <=> x = False
BY GoodIs, Constants DEF AsBoolean, Tri

LEMMA BooleanAlike ==
  ASSUME NEW y, NEW x, Good(x), Renders(y, x)
  PROVE  AsBoolean(y) = AsBoolean(x) /\ Not(y) = Not(x)
<1>1. AsBoolean(y) = AsBoolean(x) /\ (y = True <=> x = True)
  BY RendersIs DEF AsBoolean
<1> QED BY <1>1 DEF Not

\* Neither the types of two numbers nor the sign of a zero have a bearing on these.
LEMMA ComparedAlike ==
  ASSUME NEW op \in Comparisons, NEW a, NEW b, Good(a), Good(b), NEW c, NEW d, Renders(c, a), Renders(d, b)
  PROVE  Compare(op, c, d) = Compare(op, a, b)
<1>1. Good(c) /\ Good(d) /\ Erased(c) = Erased(a) /\ Erased(d) = Erased(b)
  BY RendersIs
<1>2. Compare(op, Erased(a), Erased(b)) = Compare(op, a, b)
  BY CompareErased
<1>3. Compare(op, Erased(c), Erased(d)) = Compare(op, c, d)
  BY <1>1, CompareErased
<1> QED BY <1>1, <1>2, <1>3

LEMMA ReadAlike ==
  ASSUME NEW a, NEW b, Good(a), Good(b), NEW c, NEW d, Renders(c, a), Renders(d, b)
  PROVE  /\ In(Unsigned(c), d) = In(Unsigned(a), b)
         /\ HasIntersection(c, d) = HasIntersection(a, b)
         /\ StartsWith(c, d) = StartsWith(a, b)
<1>1. Good(c) /\ Good(d) /\ Erased(c) = Erased(a) /\ Erased(d) = Erased(b)
  BY RendersIs
<1>2. /\ In(Unsigned(Erased(a)), Erased(b)) = In(Unsigned(a), b)
      /\ In(Unsigned(Erased(c)), Erased(d)) = In(Unsigned(c), d)
  BY <1>1, InErased
<1>3. /\ HasIntersection(Erased(a), Erased(b)) = HasIntersection(a, b)
      /\ StartsWith(Erased(a), Erased(b)) = StartsWith(a, b)
  BY SequencesErased
<1>4. /\ HasIntersection(Erased(c), Erased(d)) = HasIntersection(c, d)
      /\ StartsWith(Erased(c), Erased(d)) = StartsWith(c, d)
  BY <1>1, SequencesErased
<1> QED BY <1>1, <1>2, <1>3, <1>4

LEMMA ReadTri == \A a, b : In(a, b) \in Tri /\ HasIntersection(a, b) \in Tri /\ StartsWith(a, b) \in Tri /\ Not(a) \in Tri
BY BoolIs DEF In, HasIntersection, StartsWith, Not, Tri

LEMMA SizeAlike ==
  ASSUME NEW a, Good(a), NEW c, Renders(c, a)
  PROVE  Renders(Erased(CelSize(c)), CelSize(a)) /\ Good(CelSize(a)) /\ CelSize(a).t \in {"int64", "error"}
<1>1. Good(c) /\ Erased(c) = Erased(a)
  BY RendersIs
<1>2. Good(CelSize(a)) /\ CelSize(a).t \in {"int64", "error"} /\ CelSize(Erased(a)) = CelSize(a)
  BY SizeIs
<1>3. CelSize(Erased(c)) = CelSize(c)
  BY <1>1, SizeIs
<1>4. PICK x : x = CelSize(a) /\ CelSize(c) = x
  BY <1>1, <1>2, <1>3
<1>5. Good(x)
  BY <1>2, <1>4
<1>6. Renders(Erased(x), x)
  BY <1>5, ErasedJs
<1> QED BY <1>2, <1>4, <1>6

-----------------------------------------------------------------------------
(* The operators that absorb an error *)

\* What evaluate() returns of operands, and of the elements of a list, for what CEL makes of them.
Answered(g, f) ==
  /\ DOMAIN g = DOMAIN f /\ DOMAIN f \subseteq Nat
  /\ \A i \in DOMAIN f : Good(f[i]) /\ (g[i] = Thrown \/ Renders(g[i], f[i]))

\* A throw is of one of them.
Absorbs(y, x, g) == IF y = Thrown THEN \E i \in DOMAIN g : g[i] = Thrown ELSE Renders(y, x)

LEMMA TriRenders == \A x \in Tri : Renders(x, x) /\ Good(x) /\ x # Thrown
BY GoodTri, ThrownIs DEF Renders

LEMMA JunctionAbsorbs ==
  ASSUME NEW d \in BOOLEAN, NEW f, NEW g, Answered(g, f)
  PROVE  Absorbs(RunJunction(d, g), Junction(d, {f[i] : i \in DOMAIN f}), g)
<1>1. PICK stops, V : stops = {i \in DOMAIN g : g[i] \in {Bool(d), Thrown}} /\ V = {f[i] : i \in DOMAIN f}
  OBVIOUS
<1>2. DOMAIN g = DOMAIN f /\ DOMAIN f \subseteq Nat
  BY DEF Answered
<1>3. Bool(d) \in {True, False} /\ Bool(d) # Err /\ Bool(~d) \in Tri
  BY Constants DEF Bool, Tri
<1>4. \A i \in DOMAIN f : Good(f[i]) /\ AsBoolean(f[i]) \in Tri /\ (AsBoolean(f[i]) = Bool(d) <=> f[i] = Bool(d))
  BY <1>3, BooleanIs DEF Answered
<1>5. \A i \in DOMAIN f : g[i] # Thrown => (g[i] = Bool(d) <=> f[i] = Bool(d)) /\ AsBoolean(g[i]) = AsBoolean(f[i])
  <2>1. ASSUME NEW i \in DOMAIN f, g[i] # Thrown
        PROVE  (g[i] = Bool(d) <=> f[i] = Bool(d)) /\ AsBoolean(g[i]) = AsBoolean(f[i])
    <3>1. PICK x, y : x = f[i] /\ y = g[i]
      OBVIOUS
    <3>2. Good(x) /\ Renders(y, x)
      BY <2>1, <3>1 DEF Answered
    <3>3. Good(y) /\ AsBoolean(y) = AsBoolean(x)
      BY <3>2, RendersIs, BooleanAlike
    <3>4. (AsBoolean(y) = True <=> y = True) /\ (AsBoolean(y) = False <=> y = False)
      BY <3>3, BooleanIs
    <3>5. (AsBoolean(x) = True <=> x = True) /\ (AsBoolean(x) = False <=> x = False)
      BY <3>2, BooleanIs
    <3> QED BY <1>3, <3>1, <3>3, <3>4, <3>5
  <2> QED BY <2>1
<1>6. RunJunction(d, g) = IF stops # {} THEN g[Least(stops)]
                          ELSE IF \E i \in DOMAIN g : AsBoolean(g[i]) = Err THEN Err ELSE Bool(~d)
  BY <1>1 DEF RunJunction
<1>7. Junction(d, V) = IF \E x \in V : AsBoolean(x) = Bool(d) THEN Bool(d)
                       ELSE IF \E x \in V : AsBoolean(x) = Err THEN Err ELSE Bool(~d)
  BY DEF Junction
<1>8. CASE stops # {}
  <2>1. PICK k : k = Least(stops)
    OBVIOUS
  <2>2. k \in stops
    BY <1>1, <1>2, <1>8, <2>1, LeastIs
  <2>3. k \in DOMAIN f /\ g[k] \in {Bool(d), Thrown} /\ RunJunction(d, g) = g[k]
    BY <1>1, <1>2, <1>6, <1>8, <2>1, <2>2
  <2>4. CASE g[k] = Thrown
    BY <1>2, <2>3, <2>4 DEF Absorbs
  <2>5. CASE g[k] # Thrown
    <3>1. g[k] = Bool(d) /\ f[k] = Bool(d)
      BY <1>5, <2>3, <2>5
    <3>2. Junction(d, V) = Bool(d)
      BY <1>1, <1>4, <1>7, <2>3, <3>1
    <3>3. Renders(Bool(d), Bool(d))
      BY <1>3, TriRenders DEF Tri
    <3> QED BY <1>1, <2>3, <2>5, <3>1, <3>2, <3>3 DEF Absorbs
  <2> QED BY <2>4, <2>5
<1>9. CASE stops = {}
  <2>1. \A i \in DOMAIN f : g[i] # Thrown /\ f[i] # Bool(d) /\ AsBoolean(g[i]) = AsBoolean(f[i]) /\ AsBoolean(f[i]) # Bool(d)
    BY <1>1, <1>2, <1>4, <1>5, <1>9
  <2>2. Junction(d, V) = IF \E i \in DOMAIN f : AsBoolean(f[i]) = Err THEN Err ELSE Bool(~d)
    BY <1>1, <1>7, <2>1
  <2>3. RunJunction(d, g) = Junction(d, V)
    BY <1>2, <1>6, <1>9, <2>1, <2>2
  <2>4. Junction(d, V) \in Tri
    BY <1>3, <2>2 DEF Tri
  <2> QED BY <1>1, <2>3, <2>4, TriRenders DEF Absorbs
<1> QED BY <1>8, <1>9

LEMMA QuantifierIsJunction ==
  ASSUME NEW op \in {"exists", "all"}, NEW q
  PROVE  RunQuantifier(op, q) = RunJunction(op = "exists", q)
<1>1. PICK d : d = (op = "exists")
  OBVIOUS
<1>2. d \in BOOLEAN /\ Decisive(op) = {Bool(d)}
  BY <1>1 DEF Decisive, Bool
<1>3. Bool(IF op = "existsOne" THEN Cardinality({i \in DOMAIN q : q[i] = True}) = 1 ELSE op = "all") = Bool(~d)
  BY <1>1 DEF Bool
<1>4. \A i : q[i] \in Decisive(op) \union {Thrown} <=> q[i] \in {Bool(d), Thrown}
  BY <1>2
<1>5. {i \in DOMAIN q : q[i] \in Decisive(op) \union {Thrown}} = {i \in DOMAIN q : q[i] \in {Bool(d), Thrown}}
  BY <1>4
<1> QED BY <1>1, <1>3, <1>5 DEF RunQuantifier, RunJunction

LEMMA ExistsOneAbsorbs ==
  ASSUME NEW p, NEW q, Answered(q, p)
  PROVE  Absorbs(RunQuantifier("existsOne", q), ExistsOne(p), q)
<1>1. PICK stops : stops = {i \in DOMAIN q : q[i] \in Decisive("existsOne") \union {Thrown}}
  OBVIOUS
<1>2. DOMAIN q = DOMAIN p /\ DOMAIN p \subseteq Nat
  BY DEF Answered
<1>3. \A i \in DOMAIN q : i \in stops <=> q[i] = Thrown
  BY <1>1 DEF Decisive
<1>4. CASE stops # {}
  <2>1. PICK k : k = Least(stops)
    OBVIOUS
  <2>2. k \in stops
    BY <1>1, <1>2, <1>4, <2>1, LeastIs
  <2>3. k \in DOMAIN q /\ q[k] = Thrown
    BY <1>1, <1>3, <2>2
  <2>4. RunQuantifier("existsOne", q) = q[k]
    BY <1>1, <1>4, <2>1 DEF RunQuantifier
  <2> QED BY <2>3, <2>4 DEF Absorbs
<1>5. CASE stops = {}
  <2>1. \A i \in DOMAIN p : AsBoolean(q[i]) = AsBoolean(p[i]) /\ (q[i] = True <=> p[i] = True)
    <3>1. ASSUME NEW i \in DOMAIN p PROVE AsBoolean(q[i]) = AsBoolean(p[i]) /\ (q[i] = True <=> p[i] = True)
      <4>1. PICK x, y : x = p[i] /\ y = q[i]
        OBVIOUS
      <4>2. Good(x) /\ Renders(y, x)
        BY <1>2, <1>3, <1>5, <3>1, <4>1 DEF Answered
      <4> QED BY <4>1, <4>2, BooleanAlike, RendersIs
    <3> QED BY <3>1
  <2>2. {i \in DOMAIN q : q[i] = True} = {i \in DOMAIN p : p[i] = True}
    BY <1>2, <2>1
  <2>3. PICK c : c = (Cardinality({i \in DOMAIN p : p[i] = True}) = 1)
    OBVIOUS
  <2>4. ExistsOne(p) = IF \E i \in DOMAIN p : AsBoolean(p[i]) = Err THEN Err ELSE Bool(c)
    BY <2>3 DEF ExistsOne
  <2>5. RunQuantifier("existsOne", q) = IF \E i \in DOMAIN q : AsBoolean(q[i]) = Err THEN Err ELSE Bool(c)
    BY <1>1, <1>5, <2>2, <2>3 DEF RunQuantifier
  <2>6. RunQuantifier("existsOne", q) = ExistsOne(p)
    BY <1>2, <2>1, <2>4, <2>5
  <2>7. ExistsOne(p) \in Tri
    BY <2>4, BoolIs DEF Tri
  <2> QED BY <2>6, <2>7, TriRenders DEF Absorbs
<1> QED BY <1>4, <1>5

\* filter() keeps a list of what the elements of a list are.
LEMMA KeptIs ==
  ASSUME NEW l, Listed(l), NEW items, \A i \in DOMAIN items : items[i] \in Members[l],
         NEW bodies, DOMAIN bodies = DOMAIN items
  PROVE  Good(Kept(items, bodies)) /\ Kept(items, bodies).t = "list"
<1>1. PICK S : S = {items[i] : i \in {j \in DOMAIN bodies : bodies[j] = True}}
  OBVIOUS
<1>2. S \in SUBSET Members[l]
  BY <1>1
<1>3. Good(ListOf(S)) /\ ListOf(S).t = "list"
  BY <1>2, ListedIs
<1> QED BY <1>1, <1>3 DEF Kept

LEMMA FilterAbsorbs ==
  ASSUME NEW p, NEW q, Answered(q, p), NEW items, Good(Kept(items, p)), Kept(items, p).t = "list"
  PROVE  Absorbs(RunFilter(items, q),
                 IF \E i \in DOMAIN p : AsBoolean(p[i]) = Err THEN Err ELSE Kept(items, p), q)
<1>1. PICK stops, x : /\ stops = {i \in DOMAIN q : AsBoolean(q[i]) = Err}
                      /\ x = IF \E i \in DOMAIN p : AsBoolean(p[i]) = Err THEN Err ELSE Kept(items, p)
  OBVIOUS
<1>2. DOMAIN q = DOMAIN p /\ DOMAIN p \subseteq Nat
  BY DEF Answered
<1>3. \A i \in DOMAIN p : q[i] # Thrown => AsBoolean(q[i]) = AsBoolean(p[i]) /\ (q[i] = True <=> p[i] = True)
  <2>1. ASSUME NEW i \in DOMAIN p, q[i] # Thrown
        PROVE  AsBoolean(q[i]) = AsBoolean(p[i]) /\ (q[i] = True <=> p[i] = True)
    <3>1. PICK a, b : a = p[i] /\ b = q[i]
      OBVIOUS
    <3>2. Good(a) /\ Renders(b, a)
      BY <2>1, <3>1 DEF Answered
    <3> QED BY <3>1, <3>2, BooleanAlike, RendersIs
  <2> QED BY <2>1
<1>4. CASE stops # {}
  <2>1. PICK k : k = Least(stops)
    OBVIOUS
  <2>2. k \in stops
    BY <1>1, <1>2, <1>4, <2>1, LeastIs
  <2>3. k \in DOMAIN q /\ AsBoolean(q[k]) = Err
    BY <1>1, <2>2
  <2>4. RunFilter(items, q) = IF q[k] = Thrown THEN Thrown ELSE Err
    BY <1>1, <1>4, <2>1 DEF RunFilter
  <2>5. q[k] # Thrown => x = Err
    BY <1>1, <1>2, <1>3, <2>3
  <2>6. Renders(Err, Err) /\ Err # Thrown
    BY TriRenders DEF Tri
  <2> QED BY <1>1, <2>3, <2>4, <2>5, <2>6 DEF Absorbs
<1>5. CASE stops = {}
  <2>1. \A i \in DOMAIN p : q[i] # Thrown /\ AsBoolean(q[i]) # Err
    BY <1>1, <1>2, <1>5, ThrownIs
  <2>2. \A i \in DOMAIN p : AsBoolean(p[i]) # Err /\ (q[i] = True <=> p[i] = True)
    BY <1>3, <2>1
  <2>3. {i \in DOMAIN q : q[i] = True} = {i \in DOMAIN p : p[i] = True}
    BY <1>2, <2>2
  <2>4. Kept(items, q) = Kept(items, p)
    BY <2>3 DEF Kept
  <2>5. RunFilter(items, q) = Kept(items, p) /\ x = Kept(items, p)
    BY <1>1, <1>5, <2>2, <2>4 DEF RunFilter
  <2>6. Renders(x, x) /\ x # Thrown
    BY <2>5, ErasedJs, ThrownIs
  <2> QED BY <1>1, <2>5, <2>6 DEF Absorbs
<1> QED BY <1>4, <1>5

\* The macros: a throw is of the list, or of the body for one of its elements.
LEMMA MacroAbsorbs ==
  ASSUME NEW op \in Macros, NEW a, Good(a), NEW c, c = Thrown \/ Renders(c, a), NEW p, NEW q, Answered(q, p),
         NEW items, IsCollection(a) => Good(Kept(items, p)) /\ Kept(items, p).t = "list"
  PROVE  IF RunMacro(op, c, items, q) = Thrown THEN c = Thrown \/ \E i \in DOMAIN q : q[i] = Thrown
         ELSE Renders(RunMacro(op, c, items, q), CelMacro(op, a, items, p))
<1>1. CASE c = Thrown
  BY <1>1 DEF RunMacro
<1>2. CASE c # Thrown /\ ~IsCollection(a)
  <2>1. ~IsCollection(c)
    BY <1>2, RendersIs DEF IsCollection
  <2>2. RunMacro(op, c, items, q) = Err /\ CelMacro(op, a, items, p) = Err
    BY <1>2, <2>1 DEF RunMacro, CelMacro
  <2> QED BY <2>2, TriRenders DEF Tri
<1>3. CASE c # Thrown /\ IsCollection(a)
  <2>1. IsCollection(c)
    BY <1>3, RendersIs DEF IsCollection
  <2>2. RunMacro(op, c, items, q) = IF op = "filter" THEN RunFilter(items, q) ELSE RunQuantifier(op, q)
    BY <1>3, <2>1 DEF RunMacro
  <2>3. Absorbs(RunMacro(op, c, items, q), CelMacro(op, a, items, p), q)
    <3>1. CASE op = "filter"
      <4>1. CelMacro(op, a, items, p) = IF \E i \in DOMAIN p : AsBoolean(p[i]) = Err THEN Err ELSE Kept(items, p)
        BY <1>3, <3>1 DEF CelMacro
      <4> QED BY <1>3, <2>2, <3>1, <4>1, FilterAbsorbs
    <3>2. CASE op = "existsOne"
      <4>1. CelMacro(op, a, items, p) = ExistsOne(p)
        BY <1>3, <3>2 DEF CelMacro
      <4> QED BY <2>2, <3>2, <4>1, ExistsOneAbsorbs
    <3>3. CASE op \in {"exists", "all"}
      <4>1. PICK d \in BOOLEAN : d = (op = "exists")
        OBVIOUS
      <4>2. CelMacro(op, a, items, p) = Junction(d, {p[i] : i \in DOMAIN p})
        BY <1>3, <3>3, <4>1 DEF CelMacro
      <4>3. RunMacro(op, c, items, q) = RunJunction(d, q)
        BY <2>2, <3>3, <4>1, QuantifierIsJunction
      <4>4. Absorbs(RunJunction(d, q), Junction(d, {p[i] : i \in DOMAIN p}), q)
        BY JunctionAbsorbs
      <4> QED BY <4>2, <4>3, <4>4
    <3> QED BY <3>1, <3>2, <3>3 DEF Macros, Quantifiers
  <2> QED BY <2>3 DEF Absorbs
<1> QED BY <1>1, <1>2, <1>3

LEMMA IfAbsorbs ==
  ASSUME NEW f, NEW g, Answered(g, f), DOMAIN f = 1 .. 3
  PROVE  Absorbs(RunIf(g), IfThenElse(f[1], f[2], f[3]), g)
<1>1. DOMAIN g = 1 .. 3 /\ \A i \in 1 .. 3 : Good(f[i]) /\ (g[i] = Thrown \/ Renders(g[i], f[i]))
  BY DEF Answered
<1>2. CASE g[1] = Thrown
  BY <1>1, <1>2 DEF RunIf, Absorbs
<1>3. CASE g[1] # Thrown
  <2>1. AsBoolean(g[1]) = AsBoolean(f[1]) /\ (g[1] = True <=> f[1] = True)
    <3>1. PICK x, y : x = f[1] /\ y = g[1]
      OBVIOUS
    <3>2. Good(x) /\ Renders(y, x)
      BY <1>1, <1>3, <3>1
    <3> QED BY <3>1, <3>2, BooleanAlike, RendersIs
  <2>2. \/ RunIf(g) = Err /\ IfThenElse(f[1], f[2], f[3]) = Err
        \/ RunIf(g) = g[2] /\ IfThenElse(f[1], f[2], f[3]) = f[2]
        \/ RunIf(g) = g[3] /\ IfThenElse(f[1], f[2], f[3]) = f[3]
    <3>1. RunIf(g) = IfThenElse(g[1], g[2], g[3])
      BY <1>3 DEF RunIf
    <3>2. CASE AsBoolean(f[1]) = Err
      <4>1. f[1] # True
        BY <3>2, Constants DEF AsBoolean
      <4> QED BY <2>1, <3>1, <3>2, <4>1 DEF IfThenElse
    <3>3. CASE AsBoolean(f[1]) # Err /\ f[1] = True
      BY <2>1, <3>1, <3>3 DEF IfThenElse
    <3>4. CASE AsBoolean(f[1]) # Err /\ f[1] # True
      BY <2>1, <3>1, <3>4 DEF IfThenElse
    <3> QED BY <3>2, <3>3, <3>4
  <2>3. Renders(Err, Err) /\ Err # Thrown
    BY TriRenders DEF Tri
  <2> QED BY <1>1, <2>2, <2>3 DEF Absorbs
<1> QED BY <1>2, <1>3

LEMMA CelIfIs ==
  ASSUME NEW a, NEW b, NEW c
  PROVE  IfThenElse(a, b, c) \in {Err, b, c}
<1>1. AsBoolean(a) = Err => a # True
  BY Constants DEF AsBoolean
<1> QED BY <1>1 DEF IfThenElse

-----------------------------------------------------------------------------
(* Whatever the plan, what the loops return is a value *)

LEMMA LoopsJs ==
  ASSUME NEW g, DOMAIN g \subseteq Nat, \A i \in DOMAIN g : GoodJs(g[i]), NEW d \in BOOLEAN, NEW op
  PROVE  GoodJs(RunJunction(d, g)) /\ GoodJs(RunQuantifier(op, g))
<1>1. GoodJs(Err) /\ GoodJs(Bool(~d)) /\ \A P : GoodJs(Bool(P))
  BY TriJs, BoolIs DEF Tri
<1>2. GoodJs(RunJunction(d, g))
  <2>1. PICK stops : stops = {i \in DOMAIN g : g[i] \in {Bool(d), Thrown}}
    OBVIOUS
  <2>2. stops # {} => Least(stops) \in stops
    BY <2>1, LeastIs
  <2>3. stops # {} => GoodJs(g[Least(stops)])
    BY <2>1, <2>2
  <2>4. RunJunction(d, g) = IF stops # {} THEN g[Least(stops)]
                            ELSE IF \E i \in DOMAIN g : AsBoolean(g[i]) = Err THEN Err ELSE Bool(~d)
    BY <2>1 DEF RunJunction
  <2> QED BY <1>1, <2>3, <2>4
<1>3. GoodJs(RunQuantifier(op, g))
  <2>1. PICK stops, b : /\ stops = {i \in DOMAIN g : g[i] \in Decisive(op) \union {Thrown}}
                        /\ b = IF op = "existsOne" THEN Cardinality({i \in DOMAIN g : g[i] = True}) = 1 ELSE op = "all"
    OBVIOUS
  <2>2. stops # {} => Least(stops) \in stops
    BY <2>1, LeastIs
  <2>3. stops # {} => GoodJs(g[Least(stops)])
    BY <2>1, <2>2
  <2>4. RunQuantifier(op, g) = IF stops # {} THEN g[Least(stops)]
                               ELSE IF \E i \in DOMAIN g : AsBoolean(g[i]) = Err THEN Err ELSE Bool(b)
    BY <2>1 DEF RunQuantifier
  <2> QED BY <1>1, <2>3, <2>4
<1> QED BY <1>2, <1>3

LEMMA MacroJs ==
  ASSUME NEW op, NEW c, NEW items, NEW q, DOMAIN q \subseteq Nat, \A i \in DOMAIN q : GoodJs(q[i]),
         IsCollection(c) => Good(Kept(items, q)) /\ Kept(items, q).t = "list"
  PROVE  GoodJs(RunMacro(op, c, items, q))
<1>1. GoodJs(Thrown) /\ GoodJs(Err)
  BY TriJs DEF GoodJs, Tri
<1>2. GoodJs(RunQuantifier(op, q))
  BY LoopsJs
<1>3. IsCollection(c) => GoodJs(RunFilter(items, q))
  BY <1>1 DEF RunFilter, GoodJs
<1> QED BY <1>1, <1>2, <1>3 DEF RunMacro

LEMMA CelMacroIs ==
  ASSUME NEW op \in Macros, NEW c, NEW items, NEW p, IsCollection(c) => Good(Kept(items, p)) /\ Kept(items, p).t = "list"
  PROVE  Good(CelMacro(op, c, items, p)) /\ (op # "filter" => CelMacro(op, c, items, p) \in Tri)
<1>1. Good(Err) /\ Err \in Tri
  BY GoodSpecials DEF Tri
<1>2. \A S : Junction(TRUE, S) \in Tri /\ Junction(FALSE, S) \in Tri
  BY JunctionTri
<1>3. ExistsOne(p) \in Tri
  BY BoolIs DEF ExistsOne, Tri
<1> QED BY <1>1, <1>2, <1>3, GoodTri DEF CelMacro, Macros, Quantifiers

-----------------------------------------------------------------------------
(* Arithmetic *)

\* What is known of an operand that CEL takes to be x and evaluate() to be y.
Operand(n, x, y) ==
  /\ Good(x) /\ GoodJs(y)
  /\ n.static \in CheckerTypes /\ n.temporal \in {"none", "time", "dur"}
  /\ n.int => n.static = "int" /\ x.t \in {"int64", "error"}
  /\ n.kind = "double" => IsDouble(x) \/ x.t = "error"
  /\ n.temporal # "none" => x.t \in {n.temporal, "error"}
  /\ n.kind \in {"value", "variable", "element"} => ~n.int
  /\ n.kind = "value" =>
       /\ n.static = "int" => x.t = "int64"
       /\ IsIntegral(n.lit) => n.static \in {"int", "double"}
       /\ IsFraction(n.lit) => x.t = "num"
  /\ n.kind = "variable" => y = x /\ x.t # "int64"

\* A double operand is no int.
LEMMA DoubleOperandIs ==
  ASSUME NEW n, NEW x, NEW y, Operand(n, x, y), IsDoubleOperand(n)
  PROVE  x.t # "int64" /\ (n.int => x.t = "error")
BY DEF Operand, IsDoubleOperand, IsDouble

\* The operands of what is certainly int are ints, unless they are errors.
LEMMA IntOperandsAre ==
  ASSUME NEW op, NEW args, DOMAIN args = {1, 2}, NEW a, NEW b, NEW c, NEW d,
         Operand(args[1], a, c), Operand(args[2], b, d),
         Matching(op, args[1].static, args[2].static) # {}, op \in Arithmetic, IsIntExpression(op, args)
  PROVE  a.t \in {"int64", "error"} /\ b.t \in {"int64", "error"} /\ ResultType(op, args[1].static, args[2].static) = "int"
<1>1. PICK l, r : l = args[1] /\ r = args[2]
  OBVIOUS
<1>2. IsIntOperand(l) /\ IsIntOperand(r) /\ (l.int \/ r.int)
  BY <1>1 DEF IsIntExpression, Arithmetic
<1>3. /\ l.static \in CheckerTypes /\ r.static \in CheckerTypes
      /\ (l.int => l.static = "int") /\ (r.int => r.static = "int")
  BY <1>1 DEF Operand
<1>4. l.static = "int" \/ r.static = "int"
  BY <1>2, <1>3
<1>5. /\ (l.static = "int" => r.static \in {"int", "dyn"}) /\ (r.static = "int" => l.static \in {"int", "dyn"})
  BY <1>1, <1>3, MatchingIs
<1>6. a.t \in {"int64", "error"}
  BY <1>1, <1>2, <1>3, <1>4, <1>5 DEF IsIntOperand, Operand
<1>7. b.t \in {"int64", "error"}
  BY <1>1, <1>2, <1>3, <1>4, <1>5 DEF IsIntOperand, Operand
<1>8. ResultType(op, l.static, r.static) = "int"
  BY <1>1, <1>3, <1>4, OverloadsLeft
<1> QED BY <1>1, <1>6, <1>7, <1>8

LEMMA IntArithmeticJs ==
  ASSUME NEW op, NEW c, NEW d, Good(c), Good(d)
  PROVE  GoodJs(RunIntArithmetic(op, c, d)) /\ Good(RunIntArithmetic(op, c, d))
<1>1. PICK m, n : m = Unsigned(c).v \div 2 /\ n = Unsigned(d).v \div 2
  OBVIOUS
<1>2. m \in Int /\ n \in Int
  BY <1>1, UnsignedIs, GoodIs
<1>3. PICK x : x = IntArithmetic(op, m, n)
  OBVIOUS
<1>4. Good(x)
  BY <1>2, <1>3, IntArithmeticIs
<1>5. Good(Erased(x)) /\ GoodJs(Erased(x))
  BY <1>4, ErasedJs, ErasedIs
<1>6. Good(Err) /\ GoodJs(Err)
  BY GoodSpecials, TriJs DEF Tri
<1> QED BY <1>1, <1>3, <1>5, <1>6 DEF RunIntArithmetic

\* Whatever the plan, arithmetic returns a value or throws.
LEMMA ArithmeticJs ==
  ASSUME NEW op, NEW args, NEW c, NEW d, Good(c), Good(d), c.t # "int64", d.t # "int64"
  PROVE  GoodJs(RunArithmetic(op, args, c, d))
<1>1. GoodJs(Err) /\ GoodJs(Thrown)
  BY TriJs DEF Tri, GoodJs
<1>2. c.v + d.v \in Int /\ c.v - d.v \in Int
  BY GoodIs
<1>3. PICK k, v : k = TemporalKind(op, args) /\ v = IF op = "add" THEN c.v + d.v ELSE c.v - d.v
  OBVIOUS
<1>4. k # "none" => GoodJs([t |-> k, v |-> v])
  <2>1. k \in {"none", "time", "dur"}
    BY <1>3, TemporalIs DEF TemporalKind, TemporalName
  <2> QED BY <1>2, <1>3, <2>1, GoodOf DEF GoodJs
<1>5. GoodJs(RunIntArithmetic(op, c, d))
  BY IntArithmeticJs
<1>6. GoodJs([t |-> "str", v |-> c.v + d.v])
  BY <1>2, GoodOf DEF GoodJs
<1>7. GoodJs(RunNumbers(op, args, c, d))
  <2>1. GoodJs(DoubleArithmetic(op, c, d))
    BY DoubleArithmeticIs DEF DoubleAnswer, GoodJs
  <2> QED BY <1>1, <1>5, <2>1 DEF RunNumbers
<1> QED BY <1>1, <1>3, <1>4, <1>5, <1>6, <1>7 DEF RunArithmetic

\* Two operands the checker accepts of a plan that is not refused and admits no disagreement.
Pair(op, args, a, b, c, d) ==
  /\ op \in Arithmetic /\ DOMAIN args = {1, 2}
  /\ Operand(args[1], a, c) /\ Operand(args[2], b, d) /\ Renders(c, a) /\ Renders(d, b)
  /\ Matching(op, args[1].static, args[2].static) # {} /\ ~Invalid(op, args)
  /\ args[1].kind # "value" \/ args[2].kind # "value"
  /\ ~IsIntExpression(op, args) =>
       /\ (a.t = "int64" => args[1].int) /\ (b.t = "int64" => args[2].int)
       /\ args[1].int /\ IsDouble(b) => IsDoubleOperand(args[2])
       /\ args[2].int /\ IsDouble(a) => IsDoubleOperand(args[1])
  /\ op \in {"add", "sub"} =>
       /\ a.t \in {"time", "dur"} => args[1].temporal # "none"
       /\ b.t \in {"time", "dur"} => args[2].temporal # "none"

\* CEL's answer, or a throw where it divides by a zero.
Divided(op, a, b, y) ==
  IF y = Thrown THEN op = "div" /\ Unsigned(b) = Num(0) /\ IsDouble(a) /\ Unsigned(a) # Num(0)
  ELSE Renders(y, CelArithmetic(op, a, b))

LEMMA ErrDivided ==
  ASSUME NEW op, NEW a, NEW b, CelArithmetic(op, a, b) = Err
  PROVE  Divided(op, a, b, Err)
BY TriRenders DEF Divided, Tri

LEMMA PairIs ==
  ASSUME NEW op, NEW args, NEW a, NEW b, NEW c, NEW d, Pair(op, args, a, b, c, d)
  PROVE  /\ op \in Arithmetic /\ Good(a) /\ Good(b) /\ Good(c) /\ Good(d) /\ c.t # "int64" /\ d.t # "int64"
         /\ a.t = "error" \/ b.t = "error" => CelArithmetic(op, a, b) = Err
         /\ (c.t = "error" <=> a.t = "error") /\ (d.t = "error" <=> b.t = "error")
         /\ Renders(c, a) /\ Renders(d, b)
<1>1. op \in Arithmetic /\ Good(a) /\ Good(b) /\ Renders(c, a) /\ Renders(d, b)
  BY DEF Pair, Operand
<1>2. Good(c) /\ c.t # "int64" /\ (c.t = "error" <=> a.t = "error")
  BY <1>1, RendersIs
<1>3. Good(d) /\ d.t # "int64" /\ (d.t = "error" <=> b.t = "error")
  BY <1>1, RendersIs
<1>4. a.t = "error" \/ b.t = "error" => CelArithmetic(op, a, b) = Err
  BY <1>1, CelArithmeticErr
<1> QED BY <1>1, <1>2, <1>3, <1>4

\* Timestamps and durations.
LEMMA TemporalDivided ==
  ASSUME NEW op \in {"add", "sub"}, NEW args, NEW a, NEW b, NEW c, NEW d, Pair(op, args, a, b, c, d),
         args[1].temporal # "none" \/ args[2].temporal # "none"
  PROVE  Divided(op, a, b, RunArithmetic(op, args, c, d))
<1>1. PICK tl, tr, k : tl = args[1].temporal /\ tr = args[2].temporal /\ k = TemporalType(op, tl, tr)
  OBVIOUS
<1>2. /\ tl \in {"none", "time", "dur"} /\ tr \in {"none", "time", "dur"}
      /\ (tl # "none" => a.t \in {tl, "error"}) /\ (tr # "none" => b.t \in {tr, "error"})
      /\ (a.t \in {"time", "dur"} => tl # "none") /\ (b.t \in {"time", "dur"} => tr # "none")
  BY <1>1 DEF Pair, Operand
<1>3. PICK y : y = RunArithmetic(op, args, c, d)
  OBVIOUS
<1>4. y = IF k # "none" /\ {c.t, d.t} \subseteq {"time", "dur"}
          THEN [t |-> k, v |-> IF op = "add" THEN c.v + d.v ELSE c.v - d.v] ELSE Err
  <2>1. \E i \in DOMAIN args : args[i].temporal # "none"
    BY DEF Pair
  <2>2. TemporalKind(op, args) = k
    BY <1>1 DEF TemporalKind
  <2> QED BY <1>3, <2>1, <2>2 DEF RunArithmetic
<1>5. k # "none" => tl # "none" /\ tr # "none"
  BY <1>1, TemporalIs
<1>6. /\ op \in Arithmetic /\ Good(a) /\ Good(b)
      /\ (a.t = "error" \/ b.t = "error" => CelArithmetic(op, a, b) = Err)
      /\ Renders(c, a) /\ Renders(d, b)
  BY PairIs
<1>7. (c.t \in {"time", "dur"} \/ a.t \in {"time", "dur"} => c = a) /\ (d.t \in {"time", "dur"} \/ b.t \in {"time", "dur"} => d = b)
  BY <1>6, RendersIs
<1>8. CASE k # "none" /\ {c.t, d.t} \subseteq {"time", "dur"}
  <2>1. c = a /\ d = b /\ a.t = tl /\ b.t = tr
    BY <1>2, <1>5, <1>7, <1>8
  <2>2. TemporalType(op, a.t, b.t) = k
    BY <1>1, <2>1
  <2>3. CelArithmetic(op, a, b) = Temporal(op, a, b) /\ Good(Temporal(op, a, b)) /\ Temporal(op, a, b).t = k
    BY <1>6, <1>8, <2>2, CelArithmeticIs, TemporalGood
  <2>4. y = Temporal(op, a, b)
    BY <1>4, <1>8, <2>1, <2>2 DEF Temporal
  <2>5. k # "int64" /\ y # Thrown
    BY <1>1, <2>3, <2>4, TemporalIs, ThrownIs
  <2> QED BY <1>3, <2>3, <2>4, <2>5 DEF Divided, Renders
<1>9. CASE ~(k # "none" /\ {c.t, d.t} \subseteq {"time", "dur"})
  <2>1. CelArithmetic(op, a, b) = Err
    <3>1. CASE a.t = "error" \/ b.t = "error"
      BY <1>6, <3>1
    <3>2. CASE a.t # "error" /\ b.t # "error" /\ a.t \in {"time", "dur"} /\ b.t \in {"time", "dur"}
      <4>1. a.t = tl /\ b.t = tr /\ c = a /\ d = b
        BY <1>2, <1>7, <3>2
      <4>2. k = "none"
        BY <1>9, <3>2, <4>1
      <4>3. TemporalType(op, a.t, b.t) = "none"
        BY <1>1, <4>1, <4>2
      <4> QED BY <3>2, <4>3 DEF CelArithmetic, IsDouble
    <3>3. CASE a.t # "error" /\ b.t # "error" /\ ~(a.t \in {"time", "dur"} /\ b.t \in {"time", "dur"})
      <4>1. a.t \in {"time", "dur"} \/ b.t \in {"time", "dur"}
        BY <1>1, <1>2, <3>3
      <4>2. TemporalType(op, a.t, b.t) = "none"
        BY <3>3, TemporalIs
      <4> QED BY <3>3, <4>1, <4>2 DEF CelArithmetic, IsDouble
    <3> QED BY <3>1, <3>2, <3>3
  <2> QED BY <1>3, <1>4, <1>9, <2>1, ErrDivided
<1> QED BY <1>8, <1>9

\* What is certainly int.
LEMMA IntDivided ==
  ASSUME NEW op, NEW args, NEW a, NEW b, NEW c, NEW d, Pair(op, args, a, b, c, d), IsIntExpression(op, args)
  PROVE  Divided(op, a, b, RunIntArithmetic(op, c, d))
<1>1. /\ op \in Arithmetic /\ Good(a) /\ Good(b)
      /\ (a.t = "error" \/ b.t = "error" => CelArithmetic(op, a, b) = Err)
      /\ (c.t = "error" <=> a.t = "error") /\ (d.t = "error" <=> b.t = "error")
      /\ Renders(c, a) /\ Renders(d, b)
  BY PairIs
<1>2. a.t \in {"int64", "error"} /\ b.t \in {"int64", "error"}
  BY IntOperandsAre DEF Pair
<1>3. CASE a.t = "error" \/ b.t = "error"
  <2>1. c.t = "error" \/ d.t = "error"
    BY <1>1, <1>3
  <2>2. \A x : x.t = "error" => ~IsIntegral(Unsigned(x))
    BY Constants DEF IsIntegral, Unsigned
  <2>3. RunIntArithmetic(op, c, d) = Err
    BY <2>1, <2>2 DEF RunIntArithmetic
  <2> QED BY <1>1, <1>3, <2>3, ErrDivided
<1>4. CASE a.t = "int64" /\ b.t = "int64"
  <2>1. c = Num(a.v) /\ d = Num(b.v)
    BY <1>1, <1>4, RendersIs
  <2>2. a.v \in Int /\ b.v \in Int /\ a.v % 2 = 0 /\ b.v % 2 = 0
    BY <1>1, <1>4, GoodIs DEF Good
  <2>3. \A v \in Int : v % 2 = 0 => Unsigned(Num(v)) = Num(v) /\ Num(v).v = v /\ IsIntegral(Num(v))
    BY Constants DEF Unsigned, Num, IsIntegral, IsFraction
  <2>4. PICK x : x = IntArithmetic(op, a.v \div 2, b.v \div 2)
    OBVIOUS
  <2>5. RunIntArithmetic(op, c, d) = Erased(x)
    BY <2>1, <2>2, <2>3, <2>4 DEF RunIntArithmetic
  <2>6. CelArithmetic(op, a, b) = x /\ Good(CelArithmetic(op, a, b))
    BY <1>1, <1>4, <2>4, CelArithmeticIs
  <2>7. Renders(Erased(x), x) /\ Good(Erased(x))
    BY <2>6, ErasedJs, ErasedIs
  <2>8. Erased(x) # Thrown
    BY <2>7, ThrownIs
  <2> QED BY <2>5, <2>6, <2>7, <2>8 DEF Divided
<1> QED BY <1>2, <1>3, <1>4

\* Two doubles: a zero the document does not hold has no sign to divide by.
LEMMA NumbersDivided ==
  ASSUME NEW op, NEW args, NEW a, NEW b, NEW c, NEW d, Pair(op, args, a, b, c, d), ~IsIntExpression(op, args),
         IsDouble(a), IsDouble(b)
  PROVE  Divided(op, a, b, RunNumbers(op, args, c, d))
<1>1. op \in Arithmetic /\ Good(a) /\ Good(b) /\ Good(c) /\ Good(d) /\ Renders(c, a) /\ Renders(d, b)
  BY PairIs
<1>2. /\ Unsigned(c) = Erased(a) /\ Erased(c) = Erased(a) /\ c.v = a.v
      /\ (a.t \notin {"int64", "negzero"} => c = a) /\ (a.t = "negzero" => c \in {NegativeZero, Num(0)})
  BY <1>1, RendersIs
<1>3. /\ Unsigned(d) = Erased(b) /\ Erased(d) = Erased(b) /\ d.v = b.v
      /\ (b.t \notin {"int64", "negzero"} => d = b) /\ (b.t = "negzero" => d \in {NegativeZero, Num(0)})
  BY <1>1, RendersIs
<1>4. Unsigned(c) = Unsigned(a) /\ Unsigned(d) = Unsigned(b)
  BY <1>2, <1>3 DEF Erased, IsDouble
<1>5. IsDouble(c) /\ IsDouble(d) /\ (c = NaN <=> a = NaN) /\ (d = NaN <=> b = NaN)
  BY <1>2, <1>3, Constants DEF IsDouble, Num, NegativeZero, NaN
<1>6. PICK x : x = CelArithmetic(op, a, b)
  OBVIOUS
<1>7. x = DoubleArithmetic(op, a, b) /\ Good(x) /\ x.t # "int64" /\ x # Thrown
  <2>1. CelArithmetic(op, a, b) = DoubleArithmetic(op, a, b) /\ Good(CelArithmetic(op, a, b))
        /\ CelArithmetic(op, a, b).t \in {"num", "nan", "error"}
    BY <1>1, CelArithmeticIs
  <2> QED BY <1>6, <2>1, ThrownIs
<1>8. Divided(op, a, b, x)
  BY <1>6, <1>7 DEF Divided, Renders
<1>9. CASE op \in {"add", "sub"}
  <2>1. DoubleArithmetic(op, Erased(a), Erased(b)) = DoubleArithmetic(op, a, b)
    BY <1>1, <1>9, DoubleUnsigned
  <2>2. DoubleArithmetic(op, Erased(c), Erased(d)) = DoubleArithmetic(op, c, d)
    BY <1>1, <1>5, <1>9, DoubleUnsigned
  <2>3. RunNumbers(op, args, c, d) = DoubleArithmetic(op, c, d)
    BY <1>9 DEF RunNumbers
  <2> QED BY <1>2, <1>3, <1>7, <1>8, <2>1, <2>2, <2>3
<1>10. CASE op = "div"
  <2>1. CASE Unsigned(d) = Num(0) /\ Unsigned(c) # Num(0) /\ args[2].kind # "variable"
    <3>1. RunNumbers(op, args, c, d) = Thrown
      BY <1>10, <2>1 DEF RunNumbers
    <3> QED BY <1>4, <1>10, <2>1, <3>1 DEF Divided
  <2>2. CASE ~(Unsigned(d) = Num(0) /\ Unsigned(c) # Num(0) /\ args[2].kind # "variable")
    <3>1. RunNumbers(op, args, c, d) = DoubleArithmetic(op, c, d)
      BY <1>10, <2>2 DEF RunNumbers
    <3>2. PICK m, n : m = Unsigned(a).v /\ n = Unsigned(b).v
      OBVIOUS
    <3>3. /\ DoubleArithmetic(op, a, b) = IF a = NaN \/ b = NaN THEN NaN ELSE DoubleQuotient(m, n, b)
          /\ DoubleArithmetic(op, c, d) = IF a = NaN \/ b = NaN THEN NaN ELSE DoubleQuotient(m, n, d)
      BY <1>4, <1>5, <1>10, <3>2 DEF DoubleArithmetic
    <3>4. CASE b = d
      BY <1>7, <1>8, <3>1, <3>3, <3>4
    <3>5. CASE b # d
      <4>1. b.t = "negzero" /\ Unsigned(d) = Num(0)
        <5>1. b.t = "negzero"
          BY <1>3, <3>5 DEF IsDouble
        <5> QED BY <1>3, <1>4, <5>1 DEF Unsigned
      <4>2. args[2].kind # "variable"
        BY <3>5 DEF Pair, Operand
      <4>3. Unsigned(a) = Num(0) /\ Unsigned(b) = Num(0)
        BY <1>4, <2>2, <4>1, <4>2
      <4>4. m = 0 /\ n = 0
        BY <3>2, <4>3 DEF Num
      <4>5. DoubleQuotient(m, n, b) = NaN /\ DoubleQuotient(m, n, d) = NaN
        BY <4>4 DEF DoubleQuotient
      <4> QED BY <1>7, <1>8, <3>1, <3>3, <4>5
    <3> QED BY <3>4, <3>5
  <2> QED BY <2>1, <2>2
<1>11. CASE op = "mod"
  <2>1. x = Err
    BY <1>1, <1>7, <1>11, DoubleArithmeticIs
  <2>2. \E i \in DOMAIN args : IsVariable(args[i])
    <3>1. PICK l, r : l = args[1] /\ r = args[2] /\ DOMAIN args = {1, 2}
      BY DEF Pair
    <3>2. ASSUME ~IsVariable(l), ~IsVariable(r) PROVE FALSE
      <4>1. IsIntOperand(l) /\ IsIntOperand(r)
        BY <1>11, <3>1, <3>2 DEF Pair, Invalid
      <4>2. l.int \/ r.int
        BY <3>1, <4>1 DEF Pair, IsIntOperand
      <4>3. IsIntExpression(op, args)
        BY <1>1, <3>1, <4>1, <4>2 DEF IsIntExpression
      <4> QED BY <4>3
    <3> QED BY <3>1, <3>2
  <2>3. RunNumbers(op, args, c, d) = Err
    BY <1>11, <2>2 DEF RunNumbers
  <2> QED BY <1>8, <2>1, <2>3
<1> QED BY <1>1, <1>9, <1>10, <1>11 DEF Arithmetic

LEMMA ArithmeticDivided ==
  ASSUME NEW op, NEW args, NEW a, NEW b, NEW c, NEW d, Pair(op, args, a, b, c, d)
  PROVE  Divided(op, a, b, RunArithmetic(op, args, c, d))
<1>1. PICK l, r, y : l = args[1] /\ r = args[2] /\ y = RunArithmetic(op, args, c, d)
  OBVIOUS
<1>2. /\ op \in Arithmetic /\ Good(a) /\ Good(b) /\ Good(c) /\ Good(d) /\ c.t # "int64" /\ d.t # "int64"
      /\ (a.t = "error" \/ b.t = "error" => CelArithmetic(op, a, b) = Err)
      /\ Renders(c, a) /\ Renders(d, b)
  BY PairIs
<1>3. DOMAIN args = {1, 2} /\ Operand(l, a, c) /\ Operand(r, b, d)
  BY <1>1 DEF Pair
<1>4. CASE op \in {"add", "sub"} /\ (l.temporal # "none" \/ r.temporal # "none")
  BY <1>1, <1>4, TemporalDivided
<1>5. CASE ~(op \in {"add", "sub"} /\ (l.temporal # "none" \/ r.temporal # "none"))
  <2>1. TemporalType(op, a.t, b.t) = "none"
    <3>1. ASSUME TemporalType(op, a.t, b.t) # "none" PROVE FALSE
      <4>1. op \in {"add", "sub"} /\ a.t \in {"time", "dur"}
        BY <3>1, TemporalIs
      <4>2. l.temporal # "none"
        BY <1>1, <4>1 DEF Pair
      <4> QED BY <1>5, <4>1, <4>2
    <3> QED BY <3>1
  <2>2. ~(op \in {"add", "sub"} /\ \E i \in DOMAIN args : args[i].temporal # "none")
    BY <1>1, <1>3, <1>5
  <2>3. CASE IsIntExpression(op, args)
    <3>1. y = RunIntArithmetic(op, c, d)
      BY <1>1, <2>2, <2>3 DEF RunArithmetic
    <3> QED BY <1>1, <2>3, <3>1, IntDivided
  <2>4. CASE ~IsIntExpression(op, args)
    <3>1. /\ (a.t = "int64" => l.int) /\ (b.t = "int64" => r.int)
          /\ (l.int /\ IsDouble(b) => IsDoubleOperand(r)) /\ (r.int /\ IsDouble(a) => IsDoubleOperand(l))
      BY <1>1, <2>4 DEF Pair
    <3>2. y = IF (l.int \/ r.int) /\ (IsDoubleOperand(l) \/ IsDoubleOperand(r)) THEN Err
              ELSE IF op = "add" /\ c.t = "str" /\ d.t = "str" THEN [t |-> "str", v |-> c.v + d.v]
              ELSE IF IsDouble(c) /\ IsDouble(d) THEN RunNumbers(op, args, c, d) ELSE Err
      BY <1>1, <1>3, <2>2, <2>4 DEF RunArithmetic
    <3>3. CelArithmetic(op, a, b) =
            IF a.t = "int64" /\ b.t = "int64" THEN IntArithmetic(op, a.v \div 2, b.v \div 2)
            ELSE IF IsDouble(a) /\ IsDouble(b) THEN DoubleArithmetic(op, a, b)
            ELSE IF op = "add" /\ a.t = "str" /\ b.t = "str" THEN [t |-> "str", v |-> a.v + b.v]
            ELSE Err
      BY <2>1 DEF CelArithmetic
    <3>4. /\ (IsDouble(c) <=> a.t \in {"num", "nan", "negzero", "int64"}) /\ (c.t = "str" <=> a.t = "str") /\ c.v = a.v
          /\ (IsDouble(d) <=> b.t \in {"num", "nan", "negzero", "int64"}) /\ (d.t = "str" <=> b.t = "str") /\ d.v = b.v
      <4>1. /\ c.v = a.v /\ (a.t \notin {"int64", "negzero"} => c = a) /\ (a.t = "int64" => c = Num(a.v))
            /\ (a.t = "negzero" => c \in {NegativeZero, Num(0)})
        BY <1>2, RendersIs
      <4>2. /\ d.v = b.v /\ (b.t \notin {"int64", "negzero"} => d = b) /\ (b.t = "int64" => d = Num(b.v))
            /\ (b.t = "negzero" => d \in {NegativeZero, Num(0)})
        BY <1>2, RendersIs
      <4> QED BY <4>1, <4>2 DEF IsDouble, Num, NegativeZero
    <3>5. CASE (l.int \/ r.int) /\ (IsDoubleOperand(l) \/ IsDoubleOperand(r))
      <4>1. CelArithmetic(op, a, b) = Err
        <5>1. /\ (IsDoubleOperand(l) => a.t # "int64" /\ (l.int => a.t = "error"))
              /\ (IsDoubleOperand(r) => b.t # "int64" /\ (r.int => b.t = "error"))
          BY <1>3, DoubleOperandIs
        <5>2. (l.int => a.t \in {"int64", "error"}) /\ (r.int => b.t \in {"int64", "error"})
          BY <1>3 DEF Operand
        <5>3. CASE a.t = "error" \/ b.t = "error"
          BY <1>2, <5>3
        <5>4. CASE ~(a.t = "error" \/ b.t = "error")
          <6>1. (a.t = "int64" /\ b.t # "int64") \/ (b.t = "int64" /\ a.t # "int64")
            BY <3>5, <5>1, <5>2, <5>4
          <6> QED BY <3>3, <6>1 DEF IsDouble
        <5> QED BY <5>3, <5>4
      <4> QED BY <1>1, <3>2, <3>5, <4>1, ErrDivided
    <3>6. CASE ~((l.int \/ r.int) /\ (IsDoubleOperand(l) \/ IsDoubleOperand(r)))
      <4>1. CASE op = "add" /\ c.t = "str" /\ d.t = "str"
        <5>1. CelArithmetic(op, a, b) = [t |-> "str", v |-> c.v + d.v] /\ y = [t |-> "str", v |-> c.v + d.v]
          BY <3>2, <3>3, <3>4, <3>6, <4>1 DEF IsDouble
        <5>2. [t |-> "str", v |-> c.v + d.v] # Thrown
          BY DEF Thrown
        <5> QED BY <1>1, <5>1, <5>2 DEF Divided, Renders
      <4>2. CASE ~(op = "add" /\ c.t = "str" /\ d.t = "str") /\ IsDouble(c) /\ IsDouble(d)
        <5>1. ~(a.t = "int64" /\ b.t = "int64")
          <6>1. ASSUME a.t = "int64", b.t = "int64" PROVE FALSE
            <7>1. l.int /\ r.int /\ IsIntOperand(l) /\ IsIntOperand(r)
              BY <1>3, <3>1, <6>1 DEF IsIntOperand, Operand
            <7> QED BY <1>1, <1>2, <1>3, <2>4, <7>1 DEF IsIntExpression
          <6> QED BY <6>1
        <5>2. IsDouble(a) /\ IsDouble(b)
          BY <3>1, <3>4, <3>6, <4>2, <5>1 DEF IsDouble
        <5>3. y = RunNumbers(op, args, c, d)
          BY <3>2, <3>6, <4>2
        <5> QED BY <1>1, <2>4, <5>2, <5>3, NumbersDivided
      <4>3. CASE ~(op = "add" /\ c.t = "str" /\ d.t = "str") /\ ~(IsDouble(c) /\ IsDouble(d))
        <5>1. y = Err
          BY <3>2, <3>6, <4>3
        <5>2. CelArithmetic(op, a, b) = Err
          BY <3>3, <3>4, <4>3 DEF IsDouble
        <5> QED BY <1>1, <5>1, <5>2, ErrDivided
      <4> QED BY <4>1, <4>2, <4>3
    <3> QED BY <3>5, <3>6
  <2> QED BY <2>3, <2>4
<1> QED BY <1>4, <1>5

-----------------------------------------------------------------------------
(* Comparisons and conversions *)

LEMMA TimesCompared ==
  ASSUME NEW op \in Comparisons, NEW m \in Int, NEW n \in Int, NEW type \in {"time", "dur"},
         NEW a, a = [t |-> type, v |-> m], NEW b, b = [t |-> type, v |-> n]
  PROVE  Compare(op, Bigint(a), Bigint(b)) = Compare(op, a, b)
<1>1. CASE type = "dur"
  BY <1>1 DEF Bigint
<1>2. CASE type = "time"
  <2>1. PICK c, d : c = Int64(2 * m) /\ d = Int64(2 * n)
    OBVIOUS
  <2>2. Bigint(a) = c /\ Bigint(b) = d
    BY <1>2, <2>1 DEF Bigint
  <2>3. /\ Unsigned(c) = c /\ Unsigned(d) = d /\ Unsigned(a) = a /\ Unsigned(b) = b
        /\ Err \notin {a, b, c, d} /\ NaN \notin {a, b, c, d}
    BY <1>2, <2>1 DEF Unsigned, Int64, NegativeZero, NaN, Err
  <2>4. Compare(op, c, d) = CompareValues(op, c, d)
    BY <2>1, <2>3 DEF Compare, Int64
  <2>5. Compare(op, a, b) = IF op \in Orderings THEN Bool(Ordered(op, m, n)) ELSE CompareValues(op, a, b)
    BY <1>2, <2>3 DEF Compare
  <2>6. CASE op \in Orderings
    <3>1. CompareValues(op, c, d) = Bool(Ordered(op, c.v, d.v))
      BY <2>1, <2>3, <2>6 DEF CompareValues, Orderings, SameOrderedType, IsNumeric, Int64
    <3>2. Ordered(op, 2 * m, 2 * n) <=> Ordered(op, m, n)
      BY DEF Ordered
    <3>3. c.v = 2 * m /\ d.v = 2 * n
      BY <2>1 DEF Int64
    <3>4. Bool(Ordered(op, 2 * m, 2 * n)) = Bool(Ordered(op, m, n))
      BY <3>2 DEF Bool
    <3> QED BY <2>2, <2>4, <2>5, <2>6, <3>1, <3>3, <3>4
  <2>7. CASE op \notin Orderings
    <3>1. op = "eq" \/ op = "ne"
      BY <2>7 DEF Comparisons, Equalities
    <3>2. ValuesEqual(c, d) <=> ValuesEqual(a, b)
      BY <1>2, <2>1 DEF ValuesEqual, IsNumeric, Int64
    <3>3. CompareValues(op, c, d) = CompareValues(op, a, b)
      BY <2>3, <3>1, <3>2 DEF CompareValues, Bool
    <3> QED BY <2>2, <2>4, <2>5, <2>7, <3>3
  <2> QED BY <2>6, <2>7
<1> QED BY <1>1, <1>2

\* Comparison: a time is compared with a time, and a NaN ordered with a number.
LEMMA ComparisonRenders ==
  ASSUME NEW op \in Comparisons, NEW a, NEW b, Good(a), Good(b), NEW c, NEW d, Renders(c, a), Renders(d, b),
         a.t \in {"time", "dur"} \/ b.t \in {"time", "dur"} => a.t = b.t,
         op \in Orderings /\ NaN \in {a, b} => Compare(op, a, b) # Err
  PROVE  RunComparison(op, c, d) = Compare(op, a, b)
<1>1. Good(c) /\ (c.t = "error" <=> a.t = "error") /\ (a.t \notin {"int64", "negzero"} => c = a) /\ c.t \in {a.t, "num"}
  BY RendersIs
<1>2. Good(d) /\ (d.t = "error" <=> b.t = "error") /\ (b.t \notin {"int64", "negzero"} => d = b) /\ d.t \in {b.t, "num"}
  BY RendersIs
<1>3. (c = NaN <=> a = NaN) /\ (c = Err <=> a = Err)
  <2>1. (a = NaN <=> a.t = "nan") /\ (a = Err <=> a.t = "error")
    BY GoodIs
  <2>2. (c = NaN <=> c.t = "nan") /\ (c = Err <=> c.t = "error")
    BY <1>1, GoodIs
  <2> QED BY <1>1, <2>1, <2>2
<1>4. (d = NaN <=> b = NaN) /\ (d = Err <=> b = Err)
  <2>1. (b = NaN <=> b.t = "nan") /\ (b = Err <=> b.t = "error")
    BY GoodIs
  <2>2. (d = NaN <=> d.t = "nan") /\ (d = Err <=> d.t = "error")
    BY <1>2, GoodIs
  <2> QED BY <1>2, <2>1, <2>2
<1>5. CASE op \in Orderings /\ NaN \in {c, d} /\ Err \notin {c, d}
  <2>1. RunComparison(op, c, d) = False
    BY <1>5 DEF RunComparison
  <2>2. NaN \in {a, b} /\ Compare(op, a, b) # Err
    BY <1>3, <1>4, <1>5
  <2>3. (Unsigned(a) = NaN <=> a = NaN) /\ (Unsigned(b) = NaN <=> b = NaN)
    BY UnsignedIs
  <2>4. op \notin Equalities
    BY <1>5 DEF Equalities, Orderings
  <2>5. Compare(op, a, b) \in {Err, False}
    BY <2>2, <2>3, <2>4 DEF Compare
  <2> QED BY <2>1, <2>2, <2>5
<1>6. CASE ~(op \in Orderings /\ NaN \in {c, d} /\ Err \notin {c, d})
  <2>1. RunComparison(op, c, d) = Compare(op, Bigint(c), Bigint(d))
    BY <1>6 DEF RunComparison
  <2>2. CASE a.t \in {"time", "dur"} \/ b.t \in {"time", "dur"}
    <3>1. a.t \in {"time", "dur"} /\ a.t = b.t /\ c = a /\ d = b
      BY <1>1, <1>2, <2>2
    <3>2. PICK type, m, n : type = a.t /\ m = a.v /\ n = b.v
      OBVIOUS
    <3>3. m \in Int /\ n \in Int /\ a = [t |-> type, v |-> m] /\ b = [t |-> type, v |-> n]
      <4>1. a \in [t : KnownTypes, v : Int] /\ b \in [t : KnownTypes, v : Int]
        BY GoodIs
      <4> QED BY <3>1, <3>2, <4>1
    <3>4. Compare(op, Bigint(a), Bigint(b)) = Compare(op, a, b)
      BY <3>1, <3>2, <3>3, TimesCompared
    <3> QED BY <2>1, <3>1, <3>4
  <2>3. CASE ~(a.t \in {"time", "dur"} \/ b.t \in {"time", "dur"})
    <3>1. Bigint(c) = c /\ Bigint(d) = d
      BY <1>1, <1>2, <2>3 DEF Bigint
    <3> QED BY <2>1, <3>1, ComparedAlike
  <2> QED BY <2>2, <2>3
<1> QED BY <1>5, <1>6

\* Whatever the plan, a conversion returns a value.
LEMMA ConversionJs ==
  ASSUME NEW op \in Conversions, NEW arg, NEW y, Good(y), y.t # "int64"
  PROVE  GoodJs(RunConversion(op, arg, y)) /\ Good(RunConversion(op, arg, y))
<1>1. PICK z : z = RunConversion(op, arg, y)
  OBVIOUS
<1>2. Good(Err) /\ GoodJs(Err)
  BY GoodSpecials, TriJs DEF Tri
<1>3. CASE op \in {"timestamp", "duration"}
  <2>1. Good(CelConvert(op, y)) /\ CelConvert(op, y).t # "int64"
    BY <1>3, TemporalConversionIs
  <2> QED BY <1>1, <1>2, <1>3, <2>1 DEF RunConversion, GoodJs
<1>4. CASE op \notin {"timestamp", "duration"} /\ y.t = "dur"
  BY <1>2, <1>4 DEF RunConversion
<1>5. CASE op \notin {"timestamp", "duration"} /\ y.t # "dur" /\ op = "string" /\ arg.numeric = "int" /\ IsIntegral(y)
  <2>1. z = CelConvert("string", Int64(y.v))
    BY <1>1, <1>5 DEF RunConversion
  <2>2. z = Rendering("int64", y.v)
    BY <2>1 DEF CelConvert, Int64
  <2>3. Good(z) /\ z.t = "str"
    BY <2>2, RenderingIs, GoodIs
  <2> QED BY <1>1, <2>3 DEF GoodJs
<1>6. CASE op = "double" /\ IsDouble(y)
  <2>1. z \in {y, Err}
    BY <1>1, <1>6 DEF RunConversion, IsDouble
  <2> QED BY <1>1, <1>2, <2>1 DEF GoodJs
<1>7. CASE /\ op \notin {"timestamp", "duration"} /\ y.t # "dur" /\ ~(op = "string" /\ arg.numeric = "int" /\ IsIntegral(y))
           /\ ~(op = "double" /\ IsDouble(y))
  <2>1. PICK x : x = CelConvert(op, Bigint(y))
    OBVIOUS
  <2>2. z = Erased(x)
    BY <1>1, <1>7, <2>1 DEF RunConversion
  <2>3. CASE y.t # "time"
    <3>1. x = CelConvert(op, y)
      BY <2>1, <2>3 DEF Bigint
    <3>2. Good(x)
      BY <3>1, ConvertGood
    <3> QED BY <1>1, <2>2, <3>2, ErasedJs, ErasedIs
  <2>4. CASE y.t = "time"
    <3>1. PICK n \in Int : n = 2 * y.v
      BY GoodIs
    <3>2. x = CelConvert(op, Int64(n))
      BY <2>1, <2>4, <3>1 DEF Bigint
    <3>3. op \in {"string", "int", "double"}
      BY <1>7 DEF Conversions
    <3>4. CASE op = "string"
      <4>1. x = Rendering("int64", n)
        BY <3>2, <3>4 DEF CelConvert, Int64
      <4>2. Good(x)
        BY <4>1, RenderingIs
      <4> QED BY <1>1, <2>2, <4>2, ErasedJs, ErasedIs
    <3>5. CASE op = "int"
      <4>1. x = Int64(n)
        BY <3>2, <3>5 DEF CelConvert, Int64
      <4>2. Erased(x) = Num(n)
        BY <4>1 DEF Erased, Int64
      <4> QED BY <1>1, <2>2, <4>2, GoodNum DEF GoodJs
    <3>6. CASE op = "double"
      <4>1. x = Num(n)
        BY <3>2, <3>6 DEF CelConvert, Int64, IsDouble
      <4>2. Good(x)
        BY <4>1, GoodNum
      <4> QED BY <1>1, <2>2, <4>2, ErasedJs, ErasedIs
    <3> QED BY <3>3, <3>4, <3>5, <3>6
  <2> QED BY <2>3, <2>4
<1> QED BY <1>3, <1>4, <1>5, <1>6, <1>7

\* What is converted, of a plan that is not refused and admits no disagreement.
Convertible(op, arg, x, y) ==
  /\ op \in Conversions /\ Good(x) /\ Renders(y, x)
  /\ x.t \notin {"time", "dur"}
  /\ op = "timestamp" => x.t # "int64"
  /\ op = "double" /\ IsDouble(x) => IsFinite(x)
  /\ op = "string" =>
       /\ x # NegativeZero \/ y # Num(0)
       /\ arg.numeric = "int" => ~(IsIntegral(x) /\ Abs(x.v) >= 2 * Rendered)
       /\ arg.numeric # "int" => ~(x.t = "int64" /\ Abs(x.v) >= 2 * Rendered)

LEMMA StringRenders ==
  ASSUME NEW arg, NEW x, NEW y, Convertible("string", arg, x, y)
  PROVE  Renders(RunConversion("string", arg, y), CelConvert("string", x))
<1>1. PICK z, r : z = CelConvert("string", x) /\ r = RunConversion("string", arg, y)
  OBVIOUS
<1>2. Good(x) /\ Renders(y, x) /\ x.t \notin {"time", "dur"}
  BY DEF Convertible
<1>3. /\ Good(y) /\ y.v = x.v /\ y.t \in {x.t, "num"}
      /\ (x.t \notin {"int64", "negzero"} => y = x) /\ (x.t = "int64" => y = Num(x.v))
      /\ (x.t = "negzero" => y \in {NegativeZero, Num(0)})
  BY <1>2, RendersIs
<1>4. Good(z) /\ z.t \in {"str", "error"}
  BY <1>1, <1>2, StringIs
<1>5. Renders(z, z) /\ Erased(z) = z
  BY <1>4, ErasedIs DEF Renders
<1>6. r = IF arg.numeric = "int" /\ IsIntegral(y) THEN CelConvert("string", Int64(y.v)) ELSE Erased(CelConvert("string", y))
  BY <1>1, <1>2, <1>3 DEF RunConversion, Bigint
<1>7. \A n \in Int : /\ CelConvert("string", Int64(n)) = Rendering("int64", n) /\ CelConvert("string", Num(n)) = Rendering("num", n)
                     /\ ~(Abs(n) >= 2 * Rendered) => Rendering("num", n) = Rendering("int64", n)
  BY DEF CelConvert, Int64, Num, Rendering
<1>8. x.v \in Int /\ x \in [t : KnownTypes, v : Int]
  BY <1>2, GoodIs
<1>9. CASE x.t = "int64"
  <2>1. x = Int64(x.v) /\ x.v % 2 = 0
    BY <1>2, <1>8, <1>9 DEF Int64, Good
  <2>2. z = Rendering("int64", x.v)
    BY <1>1, <1>7, <1>8, <2>1
  <2>3. IsIntegral(y) /\ y = Num(x.v)
    BY <1>3, <1>9, <2>1 DEF IsIntegral, IsFraction, Num
  <2>4. CASE arg.numeric = "int"
    BY <1>1, <1>3, <1>5, <1>6, <1>7, <1>8, <2>2, <2>3, <2>4
  <2>5. CASE arg.numeric # "int"
    <3>1. ~(Abs(x.v) >= 2 * Rendered)
      BY <1>9, <2>5 DEF Convertible
    <3>2. CelConvert("string", y) = z
      BY <1>7, <1>8, <2>2, <2>3, <3>1
    <3> QED BY <1>1, <1>5, <1>6, <2>5, <3>2
  <2> QED BY <2>4, <2>5
<1>10. CASE x.t = "num"
  <2>1. x = Num(x.v) /\ y = x
    BY <1>3, <1>8, <1>10 DEF Num
  <2>2. CASE arg.numeric = "int" /\ IsIntegral(y)
    <3>1. ~(Abs(x.v) >= 2 * Rendered)
      BY <2>1, <2>2 DEF Convertible
    <3>2. z = Rendering("num", x.v) /\ r = Rendering("int64", x.v)
      BY <1>1, <1>6, <1>7, <1>8, <2>1, <2>2
    <3> QED BY <1>1, <1>5, <1>7, <1>8, <3>1, <3>2
  <2>3. CASE ~(arg.numeric = "int" /\ IsIntegral(y))
    BY <1>1, <1>5, <1>6, <2>1, <2>3
  <2> QED BY <2>2, <2>3
<1>11. CASE x.t \notin {"int64", "num"}
  <2>1. y = x
    <3>1. x.t = "negzero" => x = NegativeZero
      BY <1>2, GoodIs
    <3>2. ~(x = NegativeZero /\ y = Num(0))
      BY DEF Convertible
    <3> QED BY <1>3, <1>11, <3>1, <3>2
  <2>2. ~IsIntegral(y)
    BY <1>11, <2>1 DEF IsIntegral
  <2> QED BY <1>1, <1>5, <1>6, <2>1, <2>2
<1> QED BY <1>9, <1>10, <1>11

LEMMA DoubleRenders ==
  ASSUME NEW arg, NEW x, NEW y, Convertible("double", arg, x, y)
  PROVE  Renders(RunConversion("double", arg, y), CelConvert("double", x))
<1>1. PICK z, r : z = CelConvert("double", x) /\ r = RunConversion("double", arg, y)
  OBVIOUS
<1>2. Good(x) /\ Renders(y, x) /\ x.t \notin {"time", "dur"} /\ (IsDouble(x) => IsFinite(x))
  BY DEF Convertible
<1>3. /\ Good(y) /\ y.v = x.v /\ y.t \in {x.t, "num"} /\ y.t # "int64"
      /\ (x.t \notin {"int64", "negzero"} => y = x) /\ (x.t = "int64" => y = Num(x.v))
      /\ (x.t = "negzero" => y \in {NegativeZero, Num(0)})
  BY <1>2, RendersIs
<1>4. r = IF IsDouble(y) THEN IF IsFinite(y) THEN y ELSE Err ELSE Erased(CelConvert("double", y))
  BY <1>1, <1>2, <1>3 DEF RunConversion, Bigint
<1>5. CASE x.t = "int64"
  <2>1. z = Num(x.v) /\ y = z /\ IsDouble(y)
    BY <1>1, <1>3, <1>5 DEF CelConvert, IsDouble, Num
  <2>2. IsFinite(y)
    <3>1. x.v \in -(2 * Int64Max) .. 2 * Int64Max
      BY <1>2, <1>5 DEF Good
    <3>2. x.v \in -(2 * DoubleMax) .. 2 * DoubleMax
      BY <3>1, Numbers
    <3> QED BY <2>1, <3>2 DEF IsFinite, Num
  <2> QED BY <1>1, <1>3, <1>4, <2>1, <2>2 DEF Renders
<1>6. CASE IsDouble(x)
  <2>1. z = x /\ IsDouble(y)
    BY <1>1, <1>3, <1>6 DEF CelConvert, IsDouble, Num, NegativeZero
  <2>2. IsFinite(y)
    BY <1>2, <1>3, <1>6, <2>1 DEF IsFinite, IsDouble
  <2> QED BY <1>1, <1>2, <1>4, <2>1, <2>2
<1>7. CASE x.t # "int64" /\ ~IsDouble(x)
  <2>1. y = x
    BY <1>3, <1>7 DEF IsDouble
  <2>2. r = Erased(z)
    BY <1>1, <1>4, <1>7, <2>1
  <2>3. Good(z)
    BY <1>1, <1>2, DoubleConversionIs
  <2> QED BY <1>1, <2>2, <2>3, ErasedJs
<1> QED BY <1>5, <1>6, <1>7

LEMMA ConversionRenders ==
  ASSUME NEW op, NEW arg, NEW x, NEW y, Convertible(op, arg, x, y)
  PROVE  Renders(RunConversion(op, arg, y), CelConvert(op, x))
<1>1. op \in Conversions /\ Good(x) /\ Renders(y, x) /\ x.t \notin {"time", "dur"} /\ (op = "timestamp" => x.t # "int64")
  BY DEF Convertible
<1>2. /\ Good(y) /\ y.t \in {x.t, "num"} /\ y.t # "int64" /\ Erased(y) = Erased(x)
      /\ (x.t \notin {"int64", "negzero"} => y = x)
  BY <1>1, RendersIs
<1>3. CASE op = "string"
  BY <1>3, StringRenders
<1>4. CASE op = "double"
  BY <1>4, DoubleRenders
<1>5. CASE op = "int"
  <2>1. RunConversion(op, arg, y) = Erased(CelConvert("int", y))
    BY <1>1, <1>2, <1>5 DEF RunConversion, Bigint
  <2>2. CelConvert("int", Erased(y)) = CelConvert("int", y)
    BY <1>2, IntErased
  <2>3. CelConvert("int", Erased(x)) = CelConvert("int", x)
    BY <1>1, IntErased
  <2>4. PICK z : z = CelConvert("int", x)
    OBVIOUS
  <2>5. Good(z)
    BY <1>1, <2>4, IntIs
  <2>6. Renders(Erased(z), z)
    BY <2>5, ErasedJs
  <2> QED BY <1>2, <1>5, <2>1, <2>2, <2>3, <2>4, <2>6
<1>6. CASE op \in {"timestamp", "duration"}
  <2>1. CASE x.t = "str"
    <3>1. y = x /\ RunConversion(op, arg, y) = CelConvert(op, x)
      BY <1>2, <1>6, <2>1 DEF RunConversion
    <3>2. CelConvert(op, x).t # "int64"
      BY <1>1, <1>6, TemporalConversionIs
    <3> QED BY <3>1, <3>2 DEF Renders
  <2>2. CASE x.t # "str"
    <3>1. RunConversion(op, arg, y) = Err
      BY <1>2, <1>6, <2>2 DEF RunConversion
    <3>2. CelConvert(op, x) = Err
      BY <1>1, <1>6, <2>2 DEF CelConvert
    <3> QED BY <3>1, <3>2, TriRenders DEF Tri
  <2> QED BY <2>1, <2>2
<1> QED BY <1>1, <1>3, <1>4, <1>5, <1>6 DEF Conversions

-----------------------------------------------------------------------------
(* Constants, attributes and elements *)

LEMMA LiteralIs ==
  ASSUME NEW x \in Literals
  PROVE  Constant(x) /\ (x.t = "list" => Listed(x))
<1>1. x \in Value /\ x.t \in {"null", "num", "str", "bool", "list"}
  BY DocumentsAssumption
<1>2. x.t = "list" => Listed(x)
  BY DEF Listed
<1> QED BY <1>1, <1>2, ListedIs DEF Constant

\* The type a constant was written with, and its sign.
LEMMA WrittenIs ==
  ASSUME NEW x, Constant(x), NEW hidden, hidden \in {"int64", "num"} \/ (hidden = "negzero" /\ x = Num(0))
  PROVE  LET y == Typed(hidden, x) IN
         /\ Good(y) /\ Erased(y) = x /\ Renders(x, y) /\ GoodJs(x)
         /\ x.t # "num" \/ IsFraction(x) => y = x
         /\ LiteralType(y) \in CheckerTypes /\ (LiteralType(y) = "int" => y.t = "int64")
         /\ x.t = "num" => LiteralType(y) \in {"int", "double"} /\ y.t # "list"
<1>1. PICK y : y = Typed(hidden, x)
  OBVIOUS
<1>2. Good(x) /\ x.t # "int64"
  BY ConstantIs
<1>3. /\ Good(y) /\ Erased(y) = x /\ (x.t # "num" \/ IsFraction(x) => y = x)
      /\ LiteralType(y) \in CheckerTypes
      /\ (x.t = "num" => LiteralType(y) \in {"int", "double"} /\ y.t # "list")
  <2>1. CASE hidden \in {"int64", "num"}
    BY <1>1, <2>1, TypedIs
  <2>2. CASE hidden = "negzero" /\ x = Num(0)
    <3>1. 0 \in -(2 * Int64Max) .. 2 * Int64Max
      BY Numbers
    <3>2. ~IsFraction(x)
      BY <2>2 DEF IsFraction, Num
    <3>3. y = NegativeZero
      BY <1>1, <2>2, <3>1, <3>2 DEF Typed, Num, NegativeZero
    <3>4. Erased(y) = Num(0)
      BY <3>3 DEF Erased, Unsigned, NegativeZero
    <3> QED BY <2>2, <3>2, <3>3, <3>4, GoodSpecials DEF LiteralType, CheckerTypes, NegativeZero, Num
  <2> QED BY <2>1, <2>2
<1>4. Renders(x, y) /\ GoodJs(x)
  BY <1>2, <1>3 DEF Renders, GoodJs
<1>5. LiteralType(y) = "int" => y.t = "int64"
  BY <1>3, GoodIs DEF LiteralType, KnownTypes
<1> QED BY <1>1, <1>3, <1>4, <1>5

LEMMA ValueNodeOK ==
  ASSUME NEW x \in Literals, NEW hidden, hidden \in {"int64", "num"} \/ (hidden = "negzero" /\ x = Num(0))
  PROVE  NodeOK(ValueNode(x, hidden))
<1>1. PICK n, y : n = ValueNode(x, hidden) /\ y = Typed(hidden, x)
  OBVIOUS
<1>2. Constant(x) /\ (x.t = "list" => Listed(x))
  BY LiteralIs
<1>3. /\ Good(y) /\ Renders(x, y) /\ GoodJs(x)
      /\ (x.t # "num" \/ IsFraction(x) => y = x)
      /\ LiteralType(y) \in CheckerTypes /\ (LiteralType(y) = "int" => y.t = "int64")
      /\ (x.t = "num" => LiteralType(y) \in {"int", "double"} /\ y.t # "list")
  BY <1>1, <1>2, WrittenIs
<1>4. /\ n.kind = "value" /\ n.lit = x /\ n.scope = Undefined /\ n.static = LiteralType(y)
      /\ n.cel = [e \in {Root} |-> y] /\ n.js = [e \in {Root} |-> x]
      /\ n.numeric \in {"none", "double"} /\ n.int = FALSE /\ n.temporal = "none"
      /\ DOMAIN n.zeroed = {Root}
  BY <1>1 DEF ValueNode, Leaf
<1>5. EnvsOf(n.scope) = {Root}
  BY <1>4 DEF EnvsOf
<1>6. n.kind \in Kinds
  BY <1>4 DEF Kinds
<1>7. ValueShaped(n)
  BY <1>3, <1>4 DEF ValueShaped, IsIntegral, IsFraction
<1>8. TypesHold(n)
  BY <1>4 DEF TypesHold
<1>9. "list" \in {n.cel[Root].t, n.js[Root].t} => Listed(n.js[Root]) /\ n.cel[Root] = n.js[Root]
  BY <1>2, <1>3, <1>4 
<1>10. Shaped(n)
  BY <1>3, <1>4, <1>5, <1>6, <1>7, <1>8, <1>9 DEF Shaped
<1>11. Faithful(n)
  BY <1>3, <1>4, <1>5, ThrownIs DEF Faithful, GoodJs, Renders
<1> QED BY <1>1, <1>10, <1>11 DEF NodeOK

LEMMA VariableNodeOK ==
  ASSUME NEW x \in DocValues
  PROVE  NodeOK(VariableNode(x))
<1>1. PICK n, y : n = VariableNode(x) /\ y = LookUp(x)
  OBVIOUS
<1>2. Good(y) /\ y.t # "int64" /\ (y.t = "list" => Listed(y)) /\ Sent(x) = y
  <2>1. CASE x = NegativeZero
    <3>1. y = x /\ Sent(x) = y
      BY <1>1, <2>1, Constants DEF LookUp, Sent, NegativeZero, Null, Undefined
    <3> QED BY <2>1, <3>1, GoodSpecials DEF NegativeZero
  <2>2. CASE x # NegativeZero
    <3>1. x \in Value /\ x.t \in {"undefined", "null", "num", "str", "bool", "list"}
      BY <2>2, DocumentsAssumption
    <3>2. x.t = "list" => Listed(x) /\ PlainList(x)
      BY ListedIs DEF Listed
    <3>3. x.t # "undefined" => Constant(x)
      BY <3>1, <3>2 DEF Constant
    <3>4. x.t = "undefined" => x = Undefined
      BY <3>1 DEF Value, WellFormed, Undefined
    <3>5. y = (IF x = Undefined \/ (x = Null /\ convention = "omitted") THEN Err ELSE x) /\ Sent(x) = y
      BY <1>1 DEF LookUp, Sent
    <3>6. Good(Err) /\ Err.t = "error"
      BY GoodSpecials, Constants
    <3>7. y \in {Err, x} /\ (x.t = "undefined" => y = Err)
      BY <3>4, <3>5
    <3> QED BY <3>1, <3>2, <3>3, <3>5, <3>6, <3>7, ConstantIs
  <2> QED BY <2>1, <2>2
<1>3. /\ n.kind = "variable" /\ n.scope = Undefined /\ n.static = "dyn"
      /\ n.cel = [e \in {Root} |-> y] /\ n.js = [e \in {Root} |-> y]
      /\ n.numeric = "none" /\ n.int = FALSE /\ n.temporal = "none"
      /\ DOMAIN n.zeroed = {Root}
  BY <1>1, <1>2 DEF VariableNode, Leaf
<1>4. EnvsOf(n.scope) = {Root}
  BY <1>3 DEF EnvsOf
<1>5. n.kind \in Kinds /\ n.static \in CheckerTypes
  BY <1>3 DEF Kinds, CheckerTypes
<1>6. TypesHold(n) /\ VariableShaped(n)
  BY <1>2, <1>3 DEF TypesHold, VariableShaped
<1>7. Renders(y, y) /\ GoodJs(y) /\ y # Thrown
  BY <1>2, ThrownIs DEF Renders, GoodJs
<1>8. Shaped(n)
  BY <1>2, <1>3, <1>4, <1>5, <1>6, <1>7 DEF Shaped
<1>9. Faithful(n)
  BY <1>3, <1>4, <1>7 DEF Faithful
<1> QED BY <1>1, <1>8, <1>9 DEF NodeOK

\* An element of a list, whatever type the checker gives it.
ElementOf(n, list, hidden) ==
  /\ n.kind = "element" /\ n.scope = list
  /\ n.cel = [m \in Members[list] |-> Typed(hidden, m)] /\ n.js = [m \in Members[list] |-> m]
  /\ n.numeric = "none" /\ n.int = FALSE /\ n.temporal = "none" /\ DOMAIN n.zeroed = Members[list]

LEMMA ElementOK ==
  ASSUME NEW list, Listed(list), NEW hidden \in {"int64", "num"}, NEW n, ElementOf(n, list, hidden), n.static \in CheckerTypes
  PROVE  NodeOK(n)
<1>1. PICK M : M = Members[list]
  OBVIOUS
<1>2. PlainList(list) /\ list # Undefined
  BY ListedIs
<1>3. EnvsOf(n.scope) = M
  BY <1>1, <1>2 DEF EnvsOf, ElementOf
<1>4. ASSUME NEW m \in M PROVE LET y == Typed(hidden, m) IN Good(y) /\ Renders(m, y) /\ GoodJs(m) /\ m # Thrown
  <2>1. Constant(m)
    BY <1>1, <1>2, MemberIs
  <2>2. m # Thrown
    BY <2>1, ConstantIs, ThrownIs
  <2> QED BY <2>1, <2>2, WrittenIs
<1>5. n.kind \in Kinds /\ TypesHold(n)
  BY DEF Kinds, TypesHold, ElementOf
<1>6. Shaped(n)
  BY <1>1, <1>3, <1>4, <1>5 DEF Shaped, ElementOf
<1>7. Faithful(n)
  BY <1>1, <1>3, <1>4 DEF Faithful, ElementOf
<1> QED BY <1>6, <1>7 DEF NodeOK

LEMMA ElementNodeOK ==
  ASSUME NEW list, Listed(list), NEW hidden \in {"int64", "num"}
  PROVE  NodeOK(ElementNode(list, hidden)) /\ NodeOK([ElementNode(list, hidden) EXCEPT !.static = "dyn"])
<1>1. PICK n, u : n = ElementNode(list, hidden) /\ u = [n EXCEPT !.static = "dyn"]
  OBVIOUS
<1>2. PICK base : base = Leaf("element", MemberType(hidden, list), [m \in Members[list] |-> Typed(hidden, m)],
                              [m \in Members[list] |-> m])
  OBVIOUS
<1>3. n = [base EXCEPT !.scope = list]
  BY <1>1, <1>2 DEF ElementNode
<1>4. ElementOf(n, list, hidden) /\ n.static = MemberType(hidden, list)
  BY <1>2, <1>3 DEF Leaf, ElementOf
<1>5. DOMAIN n = {"kind", "lit", "scope", "static", "cel", "js", "refused", "numeric", "int", "temporal", "untyped", "zeroed"}
  BY <1>2, <1>3 DEF Leaf
<1>6. u.static = "dyn" /\ \A k \in DOMAIN n \ {"static"} : u[k] = n[k]
  BY <1>1, <1>5
<1>7. ElementOf(u, list, hidden) /\ u.static = "dyn"
  BY <1>4, <1>5, <1>6 DEF ElementOf
<1>8. PICK types : types = {LiteralType(Typed(hidden, m)) : m \in Members[list]}
  OBVIOUS
<1>9. types \subseteq CheckerTypes
  <2>1. \A m \in Members[list] : Constant(m)
    BY ListedIs, MemberIs
  <2> QED BY <1>8, <2>1, TypedIs
<1>10. n.static \in CheckerTypes
  <2>1. n.static = IF \E t \in types : types = {t} THEN CHOOSE t \in types : TRUE ELSE "dyn"
    BY <1>4, <1>8 DEF MemberType
  <2> QED BY <1>9, <2>1 DEF CheckerTypes
<1>11. u.static \in CheckerTypes
  BY <1>7, Zenon DEF CheckerTypes
<1>12. NodeOK(n)
  BY <1>4, <1>10, ElementOK
<1>13. NodeOK(u)
  BY <1>7, <1>11, ElementOK
<1> QED BY <1>1, <1>12, <1>13

-----------------------------------------------------------------------------
(* The operands of an operator *)

LEMMA AtIs ==
  ASSUME NEW n, Shaped(n), NEW e, n.scope = Undefined \/ e \in EnvsOf(n.scope)
  PROVE  \E d \in EnvsOf(n.scope) :
           /\ n.scope = Undefined => d = Root
           /\ At(n.cel, e) = n.cel[d] /\ At(n.js, e) = n.js[d] /\ At(n.zeroed, e) = n.zeroed[d]
<1>1. DOMAIN n.cel = EnvsOf(n.scope) /\ DOMAIN n.js = EnvsOf(n.scope) /\ DOMAIN n.zeroed = EnvsOf(n.scope)
  BY DEF Shaped
<1>2. CASE n.scope = Undefined
  <2>1. Root \in EnvsOf(n.scope)
    BY <1>2 DEF EnvsOf
  <2> QED BY <1>1, <2>1 DEF At
<1>3. CASE n.scope # Undefined
  <2>1. Listed(n.scope) /\ EnvsOf(n.scope) = Members[n.scope]
    BY <1>3 DEF Shaped, EnvsOf
  <2>2. Root \notin EnvsOf(n.scope)
    BY <2>1, ListedIs, MemberIs DEF Root
  <2> QED BY <1>1, <1>3, <2>2 DEF At
<1> QED BY <1>2, <1>3

\* An operand is known, and answered for.
Told(y, x, zeroed) == IF y = Thrown THEN zeroed ELSE Renders(y, x)

LEMMA OperandIs ==
  ASSUME NEW n, Shaped(n), NEW e, n.scope = Undefined \/ e \in EnvsOf(n.scope)
  PROVE  /\ Operand(n, At(n.cel, e), At(n.js, e))
         /\ Faithful(n) /\ ~n.refused => Told(At(n.js, e), At(n.cel, e), At(n.zeroed, e))
<1>1. PICK d \in EnvsOf(n.scope) :
        /\ n.scope = Undefined => d = Root
        /\ At(n.cel, e) = n.cel[d] /\ At(n.js, e) = n.js[d] /\ At(n.zeroed, e) = n.zeroed[d]
  BY AtIs
<1>2. PICK x, y : x = n.cel[d] /\ y = n.js[d]
  OBVIOUS
<1>3. /\ n.static \in CheckerTypes /\ n.temporal \in {"none", "time", "dur"} /\ Good(x) /\ GoodJs(y) /\ TypesHold(n)
      /\ (n.kind \in {"value", "variable", "element"} => ~n.int)
  BY <1>2 DEF Shaped
<1>4. /\ n.int => n.static = "int" /\ x.t \in {"int64", "error"}
      /\ n.kind = "double" => IsDouble(x) \/ x.t = "error"
      /\ n.temporal # "none" => x.t \in {n.temporal, "error"}
  BY <1>2, <1>3 DEF TypesHold
<1>5. n.kind \in {"value", "variable"} => x = n.cel[Root] /\ y = n.js[Root]
  BY <1>1, <1>2 DEF Shaped
<1>6. (n.kind = "value" => ValueShaped(n)) /\ (n.kind = "variable" => VariableShaped(n))
  BY DEF Shaped
<1>7. Operand(n, x, y)
  BY <1>3, <1>4, <1>5, <1>6 DEF Operand, ValueShaped, VariableShaped
<1>8. Faithful(n) /\ ~n.refused => IF n.js[d] = Thrown THEN n.zeroed[d] ELSE Renders(n.js[d], n.cel[d])
  BY DEF Faithful
<1> QED BY <1>1, <1>2, <1>7, <1>8 DEF Told

\* What is on the stack when an operator is read.
Accepted(op, args) ==
  /\ op \in AllOperators
  /\ DOMAIN args = 1 .. Width(op) /\ \A i \in 1 .. Width(op) : NodeOK(args[i])
  /\ WellFormedPlan(op, args) /\ AdmittedShape(op, args)

\* The operand a lambda's body stands for is evaluated by itself.
IsBody(op, i) == op \in Macros /\ i = 2

LEMMA ScopeIs ==
  ASSUME NEW op, NEW args, Accepted(op, args), NEW scope, scope = ScopeOf(op, args)
  PROVE  /\ scope = Undefined \/ Listed(scope)
         /\ \A i \in 1 .. Width(op) : ~IsBody(op, i) => args[i].scope \in {Undefined, scope}
<1>1. PICK L : L = ScopesOf(op, args)
  OBVIOUS
<1>2. \A l \in L : L = {l}
  BY <1>1 DEF Accepted, WellFormedPlan
<1>3. \A i \in 1 .. Width(op) : args[i].scope = Undefined \/ Listed(args[i].scope)
  BY DEF Accepted, NodeOK, Shaped
<1>4. \A i \in 1 .. Width(op) : ~IsBody(op, i) => args[i].scope \in L \union {Undefined}
  BY <1>1 DEF ScopesOf, IsBody, Accepted
<1>5. \A l \in L : l # Undefined /\ \E i \in 1 .. Width(op) : l = args[i].scope
  BY <1>1 DEF ScopesOf, Accepted
<1>6. scope = IF L = {} THEN Undefined ELSE CHOOSE l \in L : TRUE
  BY <1>1 DEF ScopeOf
<1>7. L # {} => scope \in L
  BY <1>6
<1> QED BY <1>2, <1>3, <1>4, <1>5, <1>6, <1>7

\* What an operator is evaluated over: its operands, and the readings of a lambda's body.
CelsOf(op, args, e) == Values(op, args, [i \in DOMAIN args |-> args[i].cel], e)
JssOf(op, args, e) == Values(op, args, [i \in DOMAIN args |-> args[i].js], e)
CelBodies(op, args) == [i \in DOMAIN Items(op, args) |-> At(args[2].cel, Items(op, args)[i])]
JsBodies(op, args) == [i \in DOMAIN Items(op, args) |-> At(args[2].js, Items(op, args)[i])]

\* Every operand of a plan that is not refused is answered for.
Unrefused(op, args) == Admitted = {} /\ \A i \in 1 .. Width(op) : ~args[i].refused

LEMMA OperandsAre ==
  ASSUME NEW op, NEW args, Accepted(op, args), NEW e \in EnvsOf(ScopeOf(op, args)),
         NEW f, f = CelsOf(op, args, e), NEW g, g = JssOf(op, args, e)
  PROVE  /\ DOMAIN f = 1 .. Width(op) /\ DOMAIN g = 1 .. Width(op)
         /\ \A i \in 1 .. Width(op) : Good(f[i]) /\ GoodJs(g[i])
         /\ \A i \in 1 .. Width(op) : ~IsBody(op, i) => Operand(args[i], f[i], g[i])
         /\ Unrefused(op, args) => \A i \in 1 .. Width(op) : ~IsBody(op, i) => Told(g[i], f[i], At(args[i].zeroed, e))
         /\ \A i \in 1 .. Width(op) : ~IsBody(op, i) => f[i] = At(args[i].cel, e) /\ g[i] = At(args[i].js, e)
<1>1. DOMAIN args = 1 .. Width(op) /\ \A i \in 1 .. Width(op) : NodeOK(args[i])
  BY DEF Accepted
<1>2. DOMAIN f = 1 .. Width(op) /\ DOMAIN g = 1 .. Width(op)
  BY <1>1 DEF CelsOf, JssOf, Values
<1>3. ASSUME NEW i \in 1 .. Width(op)
      PROVE  /\ Good(f[i]) /\ GoodJs(g[i])
             /\ ~IsBody(op, i) => f[i] = At(args[i].cel, e) /\ g[i] = At(args[i].js, e)
             /\ ~IsBody(op, i) => Operand(args[i], f[i], g[i])
             /\ Unrefused(op, args) /\ ~IsBody(op, i) => Told(g[i], f[i], At(args[i].zeroed, e))
  <2>1. CASE IsBody(op, i)
    <3>1. f[i] = Null /\ g[i] = Null
      BY <1>1, <1>3, <2>1 DEF CelsOf, JssOf, Values, IsBody
    <3> QED BY <2>1, <3>1, GoodSpecials, Constants DEF GoodJs
  <2>2. CASE ~IsBody(op, i)
    <3>1. f[i] = At(args[i].cel, e) /\ g[i] = At(args[i].js, e)
      BY <1>1, <1>3, <2>2 DEF CelsOf, JssOf, Values, IsBody
    <3>2. PICK n : n = args[i]
      OBVIOUS
    <3>3. NodeOK(n) /\ (n.scope = Undefined \/ e \in EnvsOf(n.scope))
      <4>1. PICK scope : scope = ScopeOf(op, args)
        OBVIOUS
      <4>2. args[i].scope \in {Undefined, scope}
        BY <1>3, <2>2, <4>1, ScopeIs
      <4> QED BY <1>1, <1>3, <3>2, <4>1, <4>2
    <3>4. Shaped(n) /\ (Admitted = {} => Faithful(n))
      BY <3>3 DEF NodeOK
    <3>5. /\ Operand(n, At(n.cel, e), At(n.js, e))
          /\ Faithful(n) /\ ~n.refused => Told(At(n.js, e), At(n.cel, e), At(n.zeroed, e))
      BY <3>3, <3>4, OperandIs
    <3>6. Good(At(n.cel, e)) /\ GoodJs(At(n.js, e))
      BY <3>5 DEF Operand
    <3>7. Unrefused(op, args) => Admitted = {} /\ ~n.refused
      BY <1>3, <3>2 DEF Unrefused
    <3> QED BY <2>2, <3>1, <3>2, <3>4, <3>5, <3>6, <3>7
  <2> QED BY <2>1, <2>2
<1> QED BY <1>2, <1>3

\* A macro's list, and the elements its lambda is called for.
LEMMA ItemsAre ==
  ASSUME NEW op \in Macros, NEW args, Accepted(op, args), NEW items, items = Items(op, args),
         NEW x, x = At(args[1].cel, Root), NEW y, y = At(args[1].js, Root)
  PROVE  /\ DOMAIN items \subseteq Nat
         /\ args[1].scope = Undefined /\ y = args[1].js[Root] /\ x = args[1].cel[Root]
         /\ \A i \in DOMAIN items : Listed(y) /\ items[i] \in Members[y]
         /\ "list" \in {x.t, y.t} => x = y /\ Listed(y)
<1>1. PICK n : n = args[1]
  OBVIOUS
<1>2. Shaped(n) /\ n.kind \in {"value", "variable"}
  <2>1. 1 \in 1 .. Width(op)
    BY WidthIs DEF Accepted
  <2> QED BY <1>1, <2>1 DEF Accepted, NodeOK, WellFormedPlan
<1>3. n.scope = Undefined /\ ("list" \in {n.cel[Root].t, n.js[Root].t} => Listed(n.js[Root]) /\ n.cel[Root] = n.js[Root])
  BY <1>2 DEF Shaped
<1>4. x = n.cel[Root] /\ y = n.js[Root]
  <2>1. DOMAIN n.cel = {Root} /\ DOMAIN n.js = {Root}
    BY <1>2, <1>3 DEF Shaped, EnvsOf
  <2> QED BY <1>1, <2>1 DEF At
<1>5. CASE y.t # "list"
  <2>1. items = <<>>
    BY <1>1, <1>4, <1>5 DEF Items
  <2>2. DOMAIN items = {}
    BY <2>1
  <2> QED BY <1>1, <1>3, <1>4, <2>2
<1>6. CASE y.t = "list"
  <2>1. PICK S : S = Members[y]
    OBVIOUS
  <2>2. items = CHOOSE s \in [1 .. Cardinality(S) -> S] : {s[i] : i \in DOMAIN s} = S
    BY <1>1, <1>4, <1>6, <2>1 DEF Items
  <2>3. Listed(y)
    BY <1>3, <1>4, <1>6
  <2>4. IsFiniteSet(S)
    BY <2>1, <2>3, ListedIs, ListIs
  <2>5. Cardinality(S) \in Nat /\ items \in [1 .. Cardinality(S) -> S]
    BY <2>2, <2>4, OrderIs
  <2> QED BY <1>1, <1>3, <1>4, <2>1, <2>3, <2>5
<1> QED BY <1>5, <1>6

LEMMA BodiesAre ==
  ASSUME NEW op \in Macros, NEW args, Accepted(op, args), NEW items, items = Items(op, args),
         NEW p, p = CelBodies(op, args), NEW q, q = JsBodies(op, args)
  PROVE  /\ DOMAIN p = DOMAIN items /\ DOMAIN q = DOMAIN items
         /\ \A i \in DOMAIN items : Good(p[i]) /\ GoodJs(q[i])
         /\ Unrefused(op, args) => \A i \in DOMAIN items : Told(q[i], p[i], At(args[2].zeroed, items[i]))
<1>1. DOMAIN p = DOMAIN items /\ DOMAIN q = DOMAIN items
  BY DEF CelBodies, JsBodies
<1>2. PICK n, y : n = args[2] /\ y = At(args[1].js, Root)
  OBVIOUS
<1>3. y = args[1].js[Root] /\ \A i \in DOMAIN items : Listed(y) /\ items[i] \in Members[y]
  BY <1>2, ItemsAre
<1>4. 2 \in 1 .. Width(op)
  BY WidthIs, OperatorsAre DEF Accepted
<1>5. Shaped(n) /\ n.scope \in {Undefined, y} /\ (Admitted = {} => Faithful(n)) /\ (Unrefused(op, args) => Admitted = {} /\ ~n.refused)
  BY <1>2, <1>3, <1>4 DEF Accepted, NodeOK, WellFormedPlan, Unrefused
<1>6. ASSUME NEW i \in DOMAIN items
      PROVE  /\ Good(p[i]) /\ GoodJs(q[i])
             /\ Unrefused(op, args) => Told(q[i], p[i], At(args[2].zeroed, items[i]))
  <2>1. PICK e : e = items[i]
    OBVIOUS
  <2>2. p[i] = At(n.cel, e) /\ q[i] = At(n.js, e)
    BY <1>2, <1>6, <2>1 DEF CelBodies, JsBodies
  <2>3. n.scope = Undefined \/ e \in EnvsOf(n.scope)
    BY <1>3, <1>5, <1>6, <2>1 DEF EnvsOf
  <2>4. /\ Operand(n, At(n.cel, e), At(n.js, e))
        /\ Faithful(n) /\ ~n.refused => Told(At(n.js, e), At(n.cel, e), At(n.zeroed, e))
    BY <1>5, <2>3, OperandIs
  <2>5. Good(At(n.cel, e)) /\ GoodJs(At(n.js, e))
    BY <2>4 DEF Operand
  <2> QED BY <1>2, <1>5, <2>1, <2>2, <2>4, <2>5
<1> QED BY <1>1, <1>6

\* What filter() would keep of a macro's list is one.
LEMMA KeptOfItems ==
  ASSUME NEW op \in Macros, NEW args, Accepted(op, args), NEW e \in EnvsOf(ScopeOf(op, args)),
         NEW f, f = CelsOf(op, args, e), NEW g, g = JssOf(op, args, e),
         NEW items, items = Items(op, args), NEW bodies, DOMAIN bodies = DOMAIN items
  PROVE  IsCollection(f[1]) \/ IsCollection(g[1]) => Good(Kept(items, bodies)) /\ Kept(items, bodies).t = "list"
<1>1. PICK n, x, y : n = args[1] /\ x = At(n.cel, Root) /\ y = At(n.js, Root)
  OBVIOUS
<1>2. /\ n.scope = Undefined /\ y = n.js[Root] /\ x = n.cel[Root]
      /\ (\A i \in DOMAIN items : Listed(y) /\ items[i] \in Members[y])
      /\ ("list" \in {x.t, y.t} => x = y /\ Listed(y))
  BY <1>1, ItemsAre
<1>3. 1 \in 1 .. Width(op) /\ ~IsBody(op, 1)
  BY WidthIs DEF Accepted, IsBody
<1>4. f[1] = At(n.cel, e) /\ g[1] = At(n.js, e) /\ Good(f[1]) /\ GoodJs(g[1])
  BY <1>1, <1>3, OperandsAre
<1>5. f[1] = x /\ g[1] = y
  <2>1. DOMAIN n.cel = {Root} /\ DOMAIN n.js = {Root}
    BY <1>1, <1>2, <1>3 DEF Accepted, NodeOK, Shaped, EnvsOf
  <2> QED BY <1>2, <1>4, <2>1 DEF At
<1>6. ASSUME IsCollection(f[1]) \/ IsCollection(g[1]) PROVE Listed(y)
  <2>1. x.t \in KnownTypes /\ (y = Thrown \/ y.t \in KnownTypes)
    BY <1>4, <1>5, GoodIs DEF GoodJs
  <2>2. "list" \in {x.t, y.t}
    BY <1>5, <1>6, <2>1, ThrownIs DEF IsCollection, KnownTypes
  <2> QED BY <1>2, <2>2
<1>7. Listed(y) => Good(Kept(items, bodies)) /\ Kept(items, bodies).t = "list"
  BY <1>2, KeptIs
<1> QED BY <1>6, <1>7

-----------------------------------------------------------------------------
(* What is known of an expression *)

\* The branch that an operator takes of each switch.
CelBranch(op, f, items, p, x) ==
  /\ op \in Macros => x = CelMacro(op, f[1], items, p)
  /\ op \in Junctions => x = Junction(op = "or", {f[1], f[2]})
  /\ op = "not" => x = Not(f[1])
  /\ op = "if" => x = IfThenElse(f[1], f[2], f[3])
  /\ op \in Comparisons => x = Compare(op, f[1], f[2])
  /\ op \in Arithmetic => x = CelArithmetic(op, f[1], f[2])
  /\ op \in Conversions => x = CelConvert(op, f[1])
  /\ op = "size" => x = CelSize(f[1])
  /\ op = "in" => x = In(Unsigned(f[1]), f[2])
  /\ op = "hasIntersection" => x = HasIntersection(f[1], f[2])
  /\ op \in {"startsWith", "matches"} => x = StartsWith(f[1], f[2])

LEMMA CelEvaluateIs ==
  ASSUME NEW op \in AllOperators, NEW f, NEW items, NEW p, NEW x, x = CelEvaluate(op, f, items, p)
  PROVE  CelBranch(op, f, items, p, x)
<1>1. CASE op \in Macros
  BY <1>1, OperatorsAre DEF CelBranch, CelEvaluate, Macros, Quantifiers, Junctions, Comparisons, Equalities, Orderings, Arithmetic, Conversions
<1>2. CASE op \in Junctions
  BY <1>2, OperatorsAre DEF CelBranch, CelEvaluate, Macros, Quantifiers, Junctions, Comparisons, Equalities, Orderings, Arithmetic, Conversions
<1>3. CASE op \in Comparisons
  BY <1>3, OperatorsAre DEF CelBranch, CelEvaluate, Macros, Quantifiers, Junctions, Comparisons, Equalities, Orderings, Arithmetic, Conversions
<1>4. CASE op \in Arithmetic
  BY <1>4, OperatorsAre DEF CelBranch, CelEvaluate, Macros, Quantifiers, Junctions, Comparisons, Equalities, Orderings, Arithmetic, Conversions
<1>5. CASE op \in Conversions
  BY <1>5, OperatorsAre DEF CelBranch, CelEvaluate, Macros, Quantifiers, Junctions, Comparisons, Equalities, Orderings, Arithmetic, Conversions
<1>6. CASE op \in {"not", "if", "size", "in", "hasIntersection", "startsWith", "matches"}
  BY <1>6 DEF CelBranch, CelEvaluate, Macros, Quantifiers, Junctions, Comparisons, Equalities, Orderings, Arithmetic, Conversions
<1> QED BY <1>1, <1>2, <1>3, <1>4, <1>5, <1>6 DEF CelBranch, AllOperators

StrictBranch(op, args, g, y) ==
  /\ op = "not" => y = Not(g[1])
  /\ op \in Comparisons => y = RunComparison(op, g[1], g[2])
  /\ op \in Arithmetic => y = RunArithmetic(op, args, g[1], g[2])
  /\ op \in Conversions => y = RunConversion(op, args[1], g[1])
  /\ op = "size" => y = Erased(CelSize(g[1]))
  /\ op = "in" => y = In(Unsigned(g[1]), g[2])
  /\ op = "hasIntersection" => y = HasIntersection(g[1], g[2])
  /\ op \in {"startsWith", "matches"} => y = StartsWith(g[1], g[2])

LEMMA RunStrictIs ==
  ASSUME NEW op \in AllOperators, op \notin Macros \union Junctions \union {"if"}, NEW args, NEW g,
         NEW y, y = RunStrict(op, args, g)
  PROVE  StrictBranch(op, args, g, y)
<1>1. CASE op \in Comparisons
  BY <1>1, OperatorsAre DEF StrictBranch, RunStrict, Comparisons, Equalities, Orderings, Arithmetic, Conversions
<1>2. CASE op \in Arithmetic
  BY <1>2, OperatorsAre DEF StrictBranch, RunStrict, Comparisons, Equalities, Orderings, Arithmetic, Conversions
<1>3. CASE op \in Conversions
  BY <1>3, OperatorsAre DEF StrictBranch, RunStrict, Comparisons, Equalities, Orderings, Arithmetic, Conversions
<1>4. CASE op \in {"not", "size", "in", "hasIntersection", "startsWith", "matches"}
  BY <1>4 DEF StrictBranch, RunStrict, Comparisons, Equalities, Orderings, Arithmetic, Conversions
<1> QED BY <1>1, <1>2, <1>3, <1>4 DEF StrictBranch, AllOperators

Branch(op, args, g, items, q, y) ==
  /\ op \in Macros => y = RunMacro(op, g[1], items, q)
  /\ op \in Junctions => y = RunJunction(op = "or", g)
  /\ op = "if" => y = RunIf(g)
  /\ op \notin Macros \union Junctions \union {"if"} =>
         y = IF \E i \in DOMAIN g : g[i] = Thrown THEN Thrown ELSE RunStrict(op, args, g)

LEMMA EvaluateIs ==
  ASSUME NEW op \in AllOperators, NEW args, NEW g, NEW items, NEW q, NEW y, y = Evaluate(op, args, g, items, q)
  PROVE  Branch(op, args, g, items, q, y)
<1>1. CASE op \in Macros
  BY <1>1, OperatorsAre DEF Branch, Evaluate, Macros, Quantifiers, Junctions
<1>2. CASE op \in Junctions
  BY <1>2, OperatorsAre DEF Branch, Evaluate, Macros, Quantifiers, Junctions
<1>3. CASE op = "if"
  BY <1>3 DEF Branch, Evaluate, Macros, Quantifiers, Junctions
<1>4. CASE op \notin Macros \union Junctions \union {"if"}
  BY <1>4 DEF Branch, Evaluate
<1> QED BY <1>1, <1>2, <1>3, <1>4

\* Whatever the plan, an expression has a value for CEL and one for evaluate(), which may throw.
LEMMA CelGood ==
  ASSUME NEW op, NEW args, Accepted(op, args), NEW e \in EnvsOf(ScopeOf(op, args)),
         NEW f, f = CelsOf(op, args, e), NEW items, items = Items(op, args), NEW p, p = CelBodies(op, args)
  PROVE  Good(CelEvaluate(op, f, items, p))
<1>1. PICK g, x : g = JssOf(op, args, e) /\ x = CelEvaluate(op, f, items, p)
  OBVIOUS
<1>2. CelBranch(op, f, items, p, x)
  BY <1>1, CelEvaluateIs DEF Accepted
<1>3. op \in AllOperators /\ DOMAIN f = 1 .. Width(op) /\ \A i \in 1 .. Width(op) : Good(f[i])
  BY <1>1, OperandsAre DEF Accepted
<1>4. \A y \in Tri : Good(y)
  BY GoodTri
<1>5. CASE op \in Macros
  <2>1. x = CelMacro(op, f[1], items, p)
    BY <1>2, <1>5 DEF CelBranch
  <2>2. IsCollection(f[1]) => Good(Kept(items, p)) /\ Kept(items, p).t = "list"
    BY <1>1, <1>5, BodiesAre, KeptOfItems
  <2> QED BY <1>1, <1>5, <2>1, <2>2, CelMacroIs
<1>6. CASE op \in Comparisons
  <2>1. x = Compare(op, f[1], f[2])
    BY <1>2, <1>6 DEF CelBranch
  <2> QED BY <1>1, <1>4, <2>1, CompareTri
<1>7. CASE op \in Arithmetic
  <2>1. x = CelArithmetic(op, f[1], f[2])
    BY <1>2, <1>7 DEF CelBranch
  <2>2. 1 \in 1 .. Width(op) /\ 2 \in 1 .. Width(op)
    BY <1>3, <1>7, WidthIs, OperatorsAre
  <2> QED BY <1>1, <1>3, <1>7, <2>1, <2>2, CelArithmeticIs
<1>8. CASE op \in Conversions
  <2>1. x = CelConvert(op, f[1])
    BY <1>2, <1>8 DEF CelBranch
  <2> QED BY <1>1, <1>3, <1>8, <2>1, WidthIs, ConvertGood
<1>9. CASE op \in Junctions
  <2>1. PICK d \in BOOLEAN : d = (op = "or")
    OBVIOUS
  <2>2. x = Junction(d, {f[1], f[2]})
    BY <1>2, <1>9, <2>1 DEF CelBranch
  <2>3. Junction(d, {f[1], f[2]}) \in Tri
    BY <2>1, JunctionTri
  <2> QED BY <1>1, <1>4, <2>2, <2>3
<1>10. CASE op = "if"
  <2>1. x = IfThenElse(f[1], f[2], f[3])
    BY <1>2, <1>10 DEF CelBranch
  <2>2. x \in {Err, f[2], f[3]}
    BY <2>1, CelIfIs
  <2> QED BY <1>1, <1>3, <1>10, <2>2, WidthIs, GoodSpecials DEF Conversions
<1>11. CASE op \notin Macros \union Comparisons \union Arithmetic \union Conversions \union Junctions \union {"if"}
  <2>1. op \in {"not", "size", "in", "hasIntersection", "startsWith", "matches"}
    BY <1>3, <1>11 DEF AllOperators
  <2>2. CASE op = "size"
    <3>1. x = CelSize(f[1])
      BY <1>2, <2>2 DEF CelBranch
    <3> QED BY <1>1, <1>3, <3>1, WidthIs, SizeIs
  <2>3. CASE op # "size"
    <3>1. x \in {Not(f[1]), In(Unsigned(f[1]), f[2]), HasIntersection(f[1], f[2]), StartsWith(f[1], f[2])}
      BY <1>2, <2>1, <2>3 DEF CelBranch
    <3>2. x \in Tri
      BY <3>1, ReadTri
    <3> QED BY <1>1, <1>4, <3>2
  <2> QED BY <2>2, <2>3
<1> QED BY <1>5, <1>6, <1>7, <1>8, <1>9, <1>10, <1>11

\* An operator that evaluates its operands returns a value, or throws, when they are values.
LEMMA StrictJs ==
  ASSUME NEW op \in AllOperators, op \notin Macros \union Junctions \union {"if"}, NEW args, NEW g,
         \A i \in 1 .. Width(op) : Good(g[i]) /\ g[i].t # "int64"
  PROVE  GoodJs(RunStrict(op, args, g))
<1>1. PICK y : y = RunStrict(op, args, g)
  OBVIOUS
<1>2. StrictBranch(op, args, g, y)
  BY <1>1, RunStrictIs
<1>3. 1 \in 1 .. Width(op)
  BY WidthIs
<1>4. \A x \in Tri : GoodJs(x)
  BY TriJs
<1>5. CASE op \in Comparisons
  <2>1. y = RunComparison(op, g[1], g[2])
    BY <1>2, <1>5 DEF StrictBranch
  <2>2. \A a, b : RunComparison(op, a, b) \in Tri
    BY CompareTri DEF RunComparison, Tri
  <2> QED BY <1>1, <1>4, <2>1, <2>2
<1>6. CASE op \in Arithmetic
  <2>1. y = RunArithmetic(op, args, g[1], g[2])
    BY <1>2, <1>6 DEF StrictBranch
  <2>2. 2 \in 1 .. Width(op)
    BY <1>6, WidthIs, OperatorsAre
  <2> QED BY <1>1, <1>3, <2>1, <2>2, ArithmeticJs
<1>7. CASE op \in Conversions
  <2>1. y = RunConversion(op, args[1], g[1])
    BY <1>2, <1>7 DEF StrictBranch
  <2>2. GoodJs(RunConversion(op, args[1], g[1]))
    BY <1>3, <1>7, ConversionJs
  <2> QED BY <1>1, <2>1, <2>2
<1>8. CASE op \notin Comparisons \union Arithmetic \union Conversions
  <2>1. op \in {"not", "size", "in", "hasIntersection", "startsWith", "matches"}
    BY <1>8 DEF AllOperators
  <2>2. CASE op = "size"
    <3>1. y = Erased(CelSize(g[1]))
      BY <1>2, <2>2 DEF StrictBranch
    <3>2. Good(CelSize(g[1]))
      BY <1>3, SizeIs
    <3> QED BY <1>1, <3>1, <3>2, ErasedJs
  <2>3. CASE op # "size"
    <3>1. y \in {Not(g[1]), In(Unsigned(g[1]), g[2]), HasIntersection(g[1], g[2]), StartsWith(g[1], g[2])}
      BY <1>2, <2>1, <2>3 DEF StrictBranch
    <3>2. y \in Tri
      BY <3>1, ReadTri
    <3> QED BY <1>1, <1>4, <3>2
  <2> QED BY <2>2, <2>3
<1> QED BY <1>5, <1>6, <1>7, <1>8

LEMMA JsGood ==
  ASSUME NEW op, NEW args, Accepted(op, args), NEW e \in EnvsOf(ScopeOf(op, args)),
         NEW g, g = JssOf(op, args, e), NEW items, items = Items(op, args), NEW q, q = JsBodies(op, args)
  PROVE  GoodJs(Evaluate(op, args, g, items, q))
<1>1. PICK f, y : f = CelsOf(op, args, e) /\ y = Evaluate(op, args, g, items, q)
  OBVIOUS
<1>2. Branch(op, args, g, items, q, y)
  BY <1>1, EvaluateIs DEF Accepted
<1>3. op \in AllOperators /\ DOMAIN g = 1 .. Width(op) /\ \A i \in 1 .. Width(op) : GoodJs(g[i])
  BY <1>1, OperandsAre DEF Accepted
<1>4. GoodJs(Thrown) /\ GoodJs(Err)
  BY TriJs DEF GoodJs, Tri
<1>5. CASE op \in Macros
  <2>1. y = RunMacro(op, g[1], items, q)
    BY <1>2, <1>5 DEF Branch
  <2>2. DOMAIN q = DOMAIN items /\ DOMAIN items \subseteq Nat /\ \A i \in DOMAIN q : GoodJs(q[i])
    BY <1>5, BodiesAre, ItemsAre
  <2>3. IsCollection(g[1]) => Good(Kept(items, q)) /\ Kept(items, q).t = "list"
    BY <1>1, <1>5, <2>2, KeptOfItems
  <2> QED BY <1>1, <2>1, <2>2, <2>3, MacroJs
<1>6. CASE op \in Junctions
  <2>1. PICK d \in BOOLEAN : d = (op = "or")
    OBVIOUS
  <2>2. y = RunJunction(d, g)
    BY <1>2, <1>6, <2>1 DEF Branch
  <2>3. DOMAIN g \subseteq Nat
    BY <1>3, WidthIs
  <2> QED BY <1>1, <1>3, <2>2, <2>3, LoopsJs
<1>7. CASE op = "if"
  <2>1. y = RunIf(g)
    BY <1>2, <1>7 DEF Branch
  <2>2. y \in {Thrown, Err, g[2], g[3]}
    BY <2>1, CelIfIs DEF RunIf
  <2> QED BY <1>1, <1>3, <1>4, <1>7, <2>2, WidthIs DEF Conversions
<1>8. CASE op \notin Macros \union Junctions \union {"if"}
  <2>1. y = IF \E i \in DOMAIN g : g[i] = Thrown THEN Thrown ELSE RunStrict(op, args, g)
    BY <1>2, <1>8 DEF Branch
  <2>2. CASE \E i \in DOMAIN g : g[i] = Thrown
    BY <1>1, <1>4, <2>1, <2>2
  <2>3. CASE ~\E i \in DOMAIN g : g[i] = Thrown
    <3>1. \A i \in 1 .. Width(op) : Good(g[i]) /\ g[i].t # "int64"
      BY <1>3, <2>3 DEF GoodJs
    <3> QED BY <1>1, <1>3, <1>8, <2>1, <2>3, <3>1, StrictJs
  <2> QED BY <2>2, <2>3
<1> QED BY <1>5, <1>6, <1>7, <1>8

\* The types that the adapter reads off an expression.
LEMMA StaticIs ==
  ASSUME NEW op, NEW args, Accepted(op, args)
  PROVE  CelStatic(op, args) \in CheckerTypes
<1>1. op \in AllOperators /\ (op = "if" => args[2].static \in CheckerTypes)
  BY WidthIs DEF Accepted, NodeOK, Shaped
<1>2. CASE op \in Arithmetic
  <2>1. CelStatic(op, args) = ResultType(op, args[1].static, args[2].static)
    BY <1>1, <1>2, OperatorsAre DEF CelStatic, Arithmetic
  <2> QED BY <2>1, ResultTypeIs DEF CheckerTypes
<1>3. CASE op = "if"
  <2>1. CelStatic(op, args) \in {args[2].static, "dyn"}
    BY <1>3 DEF CelStatic, Arithmetic
  <2> QED BY <1>1, <1>3, <2>1 DEF CheckerTypes
<1>4. CASE op \notin Arithmetic \union {"if"}
  <2>1. CelStatic(op, args) \in {"int", "double", "str", "list", TemporalName("timestamp"), TemporalName("duration"), "bool"}
    BY <1>4 DEF CelStatic
  <2> QED BY <2>1 DEF CheckerTypes, TemporalName
<1> QED BY <1>2, <1>3, <1>4

LEMMA ReadTypesAre ==
  ASSUME NEW op, NEW args, Accepted(op, args)
  PROVE  NumericType(op, args) \in {"none", "int", "double"} /\ TemporalKind(op, args) \in {"none", "time", "dur"}
<1>1. op = "if" => args[2].numeric \in {"none", "int", "double"} /\ args[3].numeric \in {"none", "int", "double"}
  BY WidthIs DEF Accepted, NodeOK, Shaped, Conversions
<1>2. NumericType(op, args) \in {"none", "int", "double"}
  <2>1. PICK P \in BOOLEAN : P = IsIntExpression(op, args)
    BY DEF IsIntExpression
  <2>2. CASE P
    <3>1. op # "double" /\ op # "if"
      BY <2>1, <2>2 DEF IsIntExpression, Arithmetic
    <3> QED BY <2>1, <2>2, <3>1 DEF NumericType
  <2>3. CASE ~P /\ op = "if"
    <3>1. NumericType(op, args) \in {args[2].numeric, args[3].numeric}
      BY <2>1, <2>3 DEF NumericType
    <3> QED BY <1>1, <2>3, <3>1
  <2>4. CASE ~P /\ op # "if"
    <3>1. NumericType(op, args) \in {"double", "none"}
      BY <2>1, <2>4 DEF NumericType
    <3> QED BY <3>1
  <2> QED BY <2>2, <2>3, <2>4
<1>3. TemporalKind(op, args) \in {"none", "time", "dur"}
  <2>1. CASE op \in {"add", "sub"}
    BY <2>1, TemporalIs DEF TemporalKind
  <2>2. CASE op \notin {"add", "sub"}
    BY <2>2 DEF TemporalKind, TemporalName
  <2> QED BY <2>1, <2>2
<1> QED BY <1>2, <1>3

\* ... hold of its value, or it has none.
LEMMA TypesAreHeld ==
  ASSUME NEW op, NEW args, Accepted(op, args), NEW e \in EnvsOf(ScopeOf(op, args)),
         NEW f, f = CelsOf(op, args, e), NEW items, items = Items(op, args), NEW p, p = CelBodies(op, args),
         NEW x, x = CelEvaluate(op, f, items, p)
  PROVE  /\ IsIntExpression(op, args) => CelStatic(op, args) = "int" /\ x.t \in {"int64", "error"}
         /\ op = "double" => IsDouble(x) \/ x.t = "error"
         /\ TemporalKind(op, args) # "none" => x.t \in {TemporalKind(op, args), "error"}
<1>1. PICK g : g = JssOf(op, args, e)
  OBVIOUS
<1>2. CelBranch(op, f, items, p, x)
  BY CelEvaluateIs DEF Accepted
<1>3. op \in AllOperators /\ DOMAIN args = 1 .. Width(op) /\ 1 \in 1 .. Width(op)
  BY WidthIs DEF Accepted
<1>4. \A i \in 1 .. Width(op) : Good(f[i]) /\ (~IsBody(op, i) => Operand(args[i], f[i], g[i]))
  BY <1>1, OperandsAre
<1>5. PICK a, b, c, d : a = f[1] /\ b = f[2] /\ c = g[1] /\ d = g[2]
  OBVIOUS
<1>6. Good(a)
  BY <1>3, <1>4, <1>5
<1>7. ASSUME op \in Arithmetic
      PROVE  /\ x = CelArithmetic(op, a, b) /\ DOMAIN args = {1, 2}
             /\ Operand(args[1], a, c) /\ Operand(args[2], b, d) /\ Good(b)
             /\ Matching(op, args[1].static, args[2].static) # {}
  <2>1. x = CelArithmetic(op, a, b)
    BY <1>2, <1>5, <1>7 DEF CelBranch
  <2>2. 2 \in 1 .. Width(op) /\ DOMAIN args = {1, 2}
    BY <1>3, <1>7, WidthIs
  <2>3. ~IsBody(op, 1) /\ ~IsBody(op, 2)
    BY <1>3, <1>7, OperatorsAre DEF IsBody
  <2>4. Matching(op, args[1].static, args[2].static) # {}
    BY <1>7 DEF Accepted, WellFormedPlan
  <2> QED BY <1>3, <1>4, <1>5, <2>1, <2>2, <2>3, <2>4
<1>8. ASSUME op \in Conversions PROVE x = CelConvert(op, a)
  BY <1>2, <1>5, <1>8 DEF CelBranch
<1>9. ASSUME IsIntExpression(op, args) PROVE CelStatic(op, args) = "int" /\ x.t \in {"int64", "error"}
  <2>1. CASE op \in Arithmetic
    <3>1. a.t \in {"int64", "error"} /\ b.t \in {"int64", "error"} /\ ResultType(op, args[1].static, args[2].static) = "int"
      BY <1>7, <1>9, <2>1, IntOperandsAre
    <3>2. CelStatic(op, args) = "int"
      BY <1>3, <2>1, <3>1, OperatorsAre DEF CelStatic, Arithmetic
    <3>3. x.t \in {"int64", "error"}
      <4>1. CASE a.t = "int64" /\ b.t = "int64"
        BY <1>6, <1>7, <2>1, <4>1, CelArithmeticIs
      <4>2. CASE a.t = "error" \/ b.t = "error"
        BY <1>6, <1>7, <2>1, <4>2, CelArithmeticErr, Constants
      <4> QED BY <3>1, <4>1, <4>2
    <3> QED BY <3>2, <3>3
  <2>2. CASE op = "size"
    <3>1. x = CelSize(a)
      BY <1>2, <1>5, <2>2 DEF CelBranch
    <3>2. CelStatic(op, args) = "int"
      BY <2>2 DEF CelStatic, Arithmetic
    <3> QED BY <1>6, <3>1, <3>2, SizeIs
  <2>3. CASE op = "int"
    <3>1. x = CelConvert("int", a)
      BY <1>8, <2>3 DEF Conversions
    <3>2. CelStatic(op, args) = "int"
      BY <2>3 DEF CelStatic, Arithmetic
    <3> QED BY <1>6, <3>1, <3>2, IntIs
  <2> QED BY <1>9, <2>1, <2>2, <2>3 DEF IsIntExpression
<1>10. ASSUME op = "double" PROVE IsDouble(x) \/ x.t = "error"
  <2>1. x = CelConvert("double", a)
    BY <1>8, <1>10 DEF Conversions
  <2> QED BY <1>6, <2>1, DoubleConversionIs
<1>11. ASSUME TemporalKind(op, args) # "none" PROVE x.t \in {TemporalKind(op, args), "error"}
  <2>1. CASE op \in {"add", "sub"}
    <3>1. PICK l, r, kind : l = args[1].temporal /\ r = args[2].temporal /\ kind = TemporalKind(op, args)
      OBVIOUS
    <3>2. kind = TemporalType(op, l, r) /\ op \in Arithmetic
      BY <2>1, <3>1 DEF TemporalKind, Arithmetic
    <3>3. l # "none" /\ r # "none"
      BY <1>11, <3>1, <3>2, TemporalIs
    <3>4. a.t \in {l, "error"} /\ b.t \in {r, "error"} /\ Good(b) /\ x = CelArithmetic(op, a, b)
      BY <1>7, <3>1, <3>2, <3>3 DEF Operand
    <3>5. CASE a.t = "error" \/ b.t = "error"
      BY <1>6, <3>2, <3>4, <3>5, CelArithmeticErr, Constants
    <3>6. CASE a.t = l /\ b.t = r
      <4>1. x = Temporal(op, a, b) /\ Temporal(op, a, b).t = kind
        BY <1>6, <1>11, <3>1, <3>2, <3>4, <3>6, CelArithmeticIs, TemporalGood
      <4> QED BY <3>1, <4>1
    <3> QED BY <3>4, <3>5, <3>6
  <2>2. CASE op \notin {"add", "sub"}
    <3>1. op \in {"timestamp", "duration"} /\ TemporalKind(op, args) = TemporalName(op)
      BY <1>11, <2>2 DEF TemporalKind, TemporalName
    <3>2. x = CelConvert(op, a)
      BY <1>8, <3>1 DEF Conversions
    <3>3. x.t \in {IF op = "timestamp" THEN "time" ELSE "dur", "error"}
      BY <1>6, <3>1, <3>2, TemporalConversionIs
    <3> QED BY <3>1, <3>3 DEF TemporalName
  <2> QED BY <2>1, <2>2
<1> QED BY <1>9, <1>10, <1>11

-----------------------------------------------------------------------------
(* An expression of a plan that is not refused *)

\* Where what is below an expression throws, or it divides.
Below(op, args, e) ==
  \/ \E i \in DOMAIN args \ (IF op \in Macros THEN {2} ELSE {}) : At(args[i].zeroed, e)
  \/ \E i \in DOMAIN Items(op, args) : At(args[2].zeroed, Items(op, args)[i])

Zeroed(op, args, e) == Below(op, args, e) \/ DividesByZero(op, CelsOf(op, args, e))

\* No shape that the adapter mistakes is in the plan.
LEMMA NoDisagreement ==
  ASSUME NEW op, NEW args, Accepted(op, args), Unrefused(op, args), NEW e \in EnvsOf(ScopeOf(op, args)),
         NEW f, f = CelsOf(op, args, e)
  PROVE  /\ op \in Arithmetic /\ ~IsIntExpression(op, args) =>
              /\ \A i \in {1, 2} : f[i].t = "int64" => args[i].int
              /\ \A i \in {1, 2} : args[i].int /\ IsDouble(f[3 - i]) => IsDoubleOperand(args[3 - i])
         /\ op = "string" /\ ~args[1].untyped /\ args[1].numeric # "int" =>
              ~(f[1].t = "int64" /\ Abs(f[1].v) >= 2 * Rendered)
         /\ op = "string" /\ args[1].numeric = "int" => ~(IsIntegral(f[1]) /\ Abs(f[1].v) >= 2 * Rendered)
         /\ op \in Conversions => \A i \in DOMAIN f : f[i].t \notin {"time", "dur"}
         /\ op = "timestamp" => f[1].t # "int64"
         /\ op \in {"add", "sub"} => \A i \in DOMAIN f : f[i].t \in {"time", "dur"} => args[i].temporal # "none"
         /\ op \in Comparisons /\ (\E i \in DOMAIN f : f[i].t \in {"time", "dur"}) => f[1].t = f[2].t
         /\ op \in Orderings /\ NaN \in {f[1], f[2]} => Compare(op, f[1], f[2]) # Err
         /\ op = "double" /\ IsDouble(f[1]) => IsFinite(f[1])
<1>1. f \in Met(op, args)
  BY DEF Met, CelsOf
<1>2. /\ ~UntypedInt(op, args) /\ ~HiddenDouble(op, args) /\ ~HiddenTime(op, args)
      /\ ~NonFinite(op, args) /\ ~OpenBranch(op, args)
  BY DEF Accepted, AdmittedShape, Unrefused
<1>3. op \in Arithmetic /\ ~IsIntExpression(op, args) => \A i \in {1, 2} : f[i].t = "int64" => args[i].int
  BY <1>1, <1>2 DEF UntypedInt
<1>4. op \in Arithmetic /\ ~IsIntExpression(op, args) =>
        \A i \in {1, 2} : args[i].int /\ IsDouble(f[3 - i]) => IsDoubleOperand(args[3 - i])
  BY <1>1, <1>2 DEF HiddenDouble
<1>5. op = "string" /\ ~args[1].untyped /\ args[1].numeric # "int" =>
        ~(f[1].t = "int64" /\ Abs(f[1].v) >= 2 * Rendered)
  BY <1>1, <1>2 DEF UntypedInt
<1>6. op = "string" /\ args[1].numeric = "int" => ~(IsIntegral(f[1]) /\ Abs(f[1].v) >= 2 * Rendered)
  BY <1>1, <1>2 DEF OpenBranch
<1>7. PICK times : times = {i \in DOMAIN f : f[i].t \in {"time", "dur"}}
  OBVIOUS
<1>8. /\ ~(op \in Conversions /\ times # {})
      /\ ~(op = "timestamp" /\ f[1].t = "int64")
      /\ ~(op \in {"add", "sub"} /\ \E i \in times : args[i].temporal = "none")
      /\ ~(op \in Comparisons /\ times # {} /\ f[1].t # f[2].t)
  BY <1>1, <1>2, <1>7 DEF HiddenTime
<1>9. /\ ~(op \in Orderings /\ NaN \in {f[1], f[2]} /\ Compare(op, f[1], f[2]) = Err)
      /\ ~(op = "double" /\ IsDouble(f[1]) /\ ~IsFinite(f[1]))
  BY <1>1, <1>2 DEF NonFinite
<1> QED BY <1>3, <1>4, <1>5, <1>6, <1>7, <1>8, <1>9

\* What a lambda computes of each element, or throws.
LEMMA MacroTold ==
  ASSUME NEW op \in Macros, NEW args, Accepted(op, args), Unrefused(op, args), NEW e \in EnvsOf(ScopeOf(op, args)),
         NEW f, f = CelsOf(op, args, e), NEW g, g = JssOf(op, args, e), NEW items, items = Items(op, args),
         NEW p, p = CelBodies(op, args), NEW q, q = JsBodies(op, args)
  PROVE  Told(RunMacro(op, g[1], items, q), CelMacro(op, f[1], items, p), Below(op, args, e))
<1>1. PICK a, c : a = f[1] /\ c = g[1]
  OBVIOUS
<1>2. 1 \in 1 .. Width(op) /\ ~IsBody(op, 1) /\ DOMAIN args = 1 .. Width(op)
  BY WidthIs DEF Accepted, IsBody
<1>3. Good(a) /\ Told(c, a, At(args[1].zeroed, e))
  BY <1>1, <1>2, OperandsAre
<1>4. DOMAIN p = DOMAIN items /\ DOMAIN q = DOMAIN items /\ DOMAIN items \subseteq Nat
  BY BodiesAre, ItemsAre
<1>5. \A i \in DOMAIN items : Good(p[i]) /\ Told(q[i], p[i], At(args[2].zeroed, items[i]))
  BY BodiesAre
<1>6. Answered(q, p)
  BY <1>4, <1>5 DEF Answered, Told
<1>7. IsCollection(a) => Good(Kept(items, p)) /\ Kept(items, p).t = "list"
  BY <1>1, <1>4, KeptOfItems
<1>8. c = Thrown \/ Renders(c, a)
  BY <1>3 DEF Told
<1>9. PICK y, x : y = RunMacro(op, c, items, q) /\ x = CelMacro(op, a, items, p)
  OBVIOUS
<1>10. IF y = Thrown THEN c = Thrown \/ \E i \in DOMAIN q : q[i] = Thrown ELSE Renders(y, x)
  BY <1>3, <1>6, <1>7, <1>8, <1>9, MacroAbsorbs
<1>11. CASE y = Thrown
  <2>1. CASE c = Thrown
    <3>1. At(args[1].zeroed, e)
      BY <1>3, <2>1 DEF Told
    <3>2. 1 \in DOMAIN args \ {2}
      BY <1>2
    <3> QED BY <1>1, <1>9, <1>11, <3>1, <3>2 DEF Below, Told
  <2>2. CASE \E i \in DOMAIN q : q[i] = Thrown
    <3>1. PICK i \in DOMAIN items : q[i] = Thrown
      BY <1>4, <2>2
    <3>2. At(args[2].zeroed, items[i])
      BY <1>5, <3>1 DEF Told
    <3> QED BY <1>1, <1>9, <1>11, <3>1, <3>2 DEF Below, Told
  <2> QED BY <1>10, <1>11, <2>1, <2>2
<1>12. CASE y # Thrown
  BY <1>1, <1>9, <1>10, <1>12 DEF Told
<1> QED BY <1>11, <1>12

\* The operands of an operator that is no macro.
LEMMA OperandsTold ==
  ASSUME NEW op, op \notin Macros, NEW args, Accepted(op, args), Unrefused(op, args), NEW e \in EnvsOf(ScopeOf(op, args)),
         NEW f, f = CelsOf(op, args, e), NEW g, g = JssOf(op, args, e)
  PROVE  /\ Answered(g, f) /\ DOMAIN g = 1 .. Width(op)
         /\ (\E i \in DOMAIN g : g[i] = Thrown) => Below(op, args, e)
<1>1. DOMAIN f = 1 .. Width(op) /\ DOMAIN g = 1 .. Width(op) /\ DOMAIN args = 1 .. Width(op)
  BY OperandsAre DEF Accepted
<1>2. \A i \in 1 .. Width(op) : ~IsBody(op, i)
  BY DEF IsBody
<1>3. \A i \in 1 .. Width(op) : Good(f[i]) /\ Told(g[i], f[i], At(args[i].zeroed, e))
  BY <1>2, OperandsAre
<1>4. 1 .. Width(op) \subseteq Nat
  BY WidthIs DEF Accepted
<1>5. Answered(g, f)
  BY <1>1, <1>3, <1>4 DEF Answered, Told
<1>6. ASSUME NEW i \in DOMAIN g, g[i] = Thrown PROVE Below(op, args, e)
  <2>1. At(args[i].zeroed, e) /\ i \in DOMAIN args
    BY <1>1, <1>3, <1>6 DEF Told
  <2> QED BY <2>1 DEF Below
<1> QED BY <1>1, <1>5, <1>6

\* The hypotheses that arithmetic and conversion have of their operands.
LEMMA PairHolds ==
  ASSUME NEW op \in Arithmetic, NEW args, Accepted(op, args), Unrefused(op, args), ~Invalid(op, args),
         NEW e \in EnvsOf(ScopeOf(op, args)), NEW f, f = CelsOf(op, args, e), NEW g, g = JssOf(op, args, e),
         \A i \in 1 .. Width(op) : Renders(g[i], f[i])
  PROVE  Pair(op, args, f[1], f[2], g[1], g[2])
<1>1. /\ 1 .. Width(op) = {1, 2} /\ DOMAIN args = {1, 2} /\ DOMAIN f = {1, 2}
      /\ ~IsBody(op, 1) /\ ~IsBody(op, 2)
  <2>1. op \in AllOperators /\ op \notin Macros /\ DOMAIN args = 1 .. Width(op)
    BY OperatorsAre DEF Accepted
  <2>2. 1 .. Width(op) = {1, 2}
    BY <2>1, WidthIs
  <2>3. DOMAIN f = 1 .. Width(op)
    BY OperandsAre
  <2> QED BY <2>1, <2>2, <2>3 DEF IsBody
<1>2. PICK a, b, c, d : a = f[1] /\ b = f[2] /\ c = g[1] /\ d = g[2]
  OBVIOUS
<1>3. Operand(args[1], a, c) /\ Operand(args[2], b, d) /\ Renders(c, a) /\ Renders(d, b)
  BY <1>1, <1>2, OperandsAre
<1>4. Matching(op, args[1].static, args[2].static) # {} /\ (args[1].kind # "value" \/ args[2].kind # "value")
  BY <1>1 DEF Accepted, WellFormedPlan
<1>5. ASSUME ~IsIntExpression(op, args)
      PROVE  /\ (a.t = "int64" => args[1].int) /\ (b.t = "int64" => args[2].int)
             /\ args[1].int /\ IsDouble(b) => IsDoubleOperand(args[2])
             /\ args[2].int /\ IsDouble(a) => IsDoubleOperand(args[1])
  <2>1. /\ \A i \in {1, 2} : f[i].t = "int64" => args[i].int
        /\ \A i \in {1, 2} : args[i].int /\ IsDouble(f[3 - i]) => IsDoubleOperand(args[3 - i])
    BY <1>5, NoDisagreement
  <2>2. /\ args[1].int /\ IsDouble(f[3 - 1]) => IsDoubleOperand(args[3 - 1])
        /\ args[2].int /\ IsDouble(f[3 - 2]) => IsDoubleOperand(args[3 - 2])
    BY <2>1
  <2> QED BY <1>2, <2>1, <2>2
<1>6. op \in {"add", "sub"} => \A i \in DOMAIN f : f[i].t \in {"time", "dur"} => args[i].temporal # "none"
  BY NoDisagreement
<1>7. op \in {"add", "sub"} =>
        /\ a.t \in {"time", "dur"} => args[1].temporal # "none"
        /\ b.t \in {"time", "dur"} => args[2].temporal # "none"
  BY <1>1, <1>2, <1>6
<1>8. Pair(op, args, a, b, c, d)
  BY <1>1, <1>3, <1>4, <1>5, <1>7 DEF Pair
<1> QED BY <1>2, <1>8

LEMMA ConvertibleHolds ==
  ASSUME NEW op \in Conversions, NEW args, Accepted(op, args), Unrefused(op, args), ~Invalid(op, args),
         NEW e \in EnvsOf(ScopeOf(op, args)), NEW f, f = CelsOf(op, args, e), NEW g, g = JssOf(op, args, e),
         Renders(g[1], f[1])
  PROVE  Convertible(op, args[1], f[1], g[1])
<1>1. 1 .. Width(op) = {1} /\ DOMAIN args = {1} /\ DOMAIN f = {1} /\ ~IsBody(op, 1)
  <2>1. op \in AllOperators /\ DOMAIN args = 1 .. Width(op)
    BY DEF Accepted
  <2>2. 1 .. Width(op) = {1}
    BY <2>1, WidthIs
  <2>3. DOMAIN f = 1 .. Width(op)
    BY OperandsAre
  <2> QED BY <2>1, <2>2, <2>3 DEF IsBody
<1>2. PICK n, x, y : n = args[1] /\ x = f[1] /\ y = g[1]
  OBVIOUS
<1>3. Good(x) /\ Renders(y, x) /\ x = At(n.cel, e) /\ y = At(n.js, e)
  BY <1>1, <1>2, OperandsAre
<1>4. x.t \notin {"time", "dur"} /\ (op = "timestamp" => x.t # "int64") /\ (op = "double" /\ IsDouble(x) => IsFinite(x))
  <2>1. /\ \A i \in DOMAIN f : f[i].t \notin {"time", "dur"}
        /\ op = "timestamp" => f[1].t # "int64"
        /\ op = "double" /\ IsDouble(f[1]) => IsFinite(f[1])
    BY NoDisagreement
  <2> QED BY <1>1, <1>2, <2>1
<1>5. ASSUME op = "string"
      PROVE  /\ x # NegativeZero \/ y # Num(0)
             /\ n.numeric = "int" => ~(IsIntegral(x) /\ Abs(x.v) >= 2 * Rendered)
             /\ n.numeric # "int" => ~(x.t = "int64" /\ Abs(x.v) >= 2 * Rendered)
  <2>1. ~n.untyped
    BY <1>2, <1>5 DEF Invalid
  <2>2. /\ n.numeric = "int" => ~(IsIntegral(x) /\ Abs(x.v) >= 2 * Rendered)
        /\ n.numeric # "int" => ~(x.t = "int64" /\ Abs(x.v) >= 2 * Rendered)
    BY <1>2, <1>5, <2>1, NoDisagreement
  <2>3. ~LostSign(op, args)
    BY DEF Accepted, AdmittedShape, Unrefused
  <2>4. Shaped(n) /\ (n.scope = Undefined \/ e \in EnvsOf(n.scope))
    <3>1. Shaped(n)
      BY <1>1, <1>2 DEF Accepted, NodeOK
    <3>2. PICK scope : scope = ScopeOf(op, args)
      OBVIOUS
    <3>3. n.scope \in {Undefined, scope}
      BY <1>1, <1>2, <3>2, ScopeIs
    <3> QED BY <3>1, <3>2, <3>3
  <2>5. PICK d \in DOMAIN n.cel : At(n.cel, e) = n.cel[d] /\ At(n.js, e) = n.js[d]
    BY <2>4, AtIs DEF Shaped
  <2>6. ~(n.cel[d] = NegativeZero /\ n.js[d] = Num(0))
    BY <1>2, <1>5, <2>3, <2>5 DEF LostSign
  <2> QED BY <1>3, <2>2, <2>5, <2>6
<1>6. Convertible(op, n, x, y)
  BY <1>3, <1>4, <1>5 DEF Convertible
<1> QED BY <1>2, <1>6

\* Where every operand has a value, so has the operator, unless it divides by a zero.
LEMMA StrictTold ==
  ASSUME NEW op, op \notin Macros \union Junctions \union {"if"}, NEW args, Accepted(op, args), Unrefused(op, args),
         ~Invalid(op, args), NEW e \in EnvsOf(ScopeOf(op, args)), NEW f, f = CelsOf(op, args, e),
         NEW g, g = JssOf(op, args, e), \A i \in 1 .. Width(op) : Renders(g[i], f[i]),
         NEW x, NEW y, CelBranch(op, f, Items(op, args), CelBodies(op, args), x), StrictBranch(op, args, g, y)
  PROVE  Told(y, x, DividesByZero(op, f))
<1>1. op \in AllOperators /\ 1 \in 1 .. Width(op) /\ DOMAIN f = 1 .. Width(op) /\ \A i \in 1 .. Width(op) : Good(f[i])
  BY WidthIs, OperandsAre DEF Accepted
<1>2. PICK a, b, c, d : a = f[1] /\ b = f[2] /\ c = g[1] /\ d = g[2]
  OBVIOUS
<1>3. Good(a) /\ Renders(c, a)
  BY <1>1, <1>2
<1>4. op \notin Conversions \union {"not", "size"} => Good(b) /\ Renders(d, b) /\ 2 \in 1 .. Width(op)
  BY <1>1, <1>2, WidthIs
<1>5. \A z \in Tri : Told(z, z, DividesByZero(op, f))
  BY TriRenders DEF Told
<1>6. CASE op \in Comparisons
  <2>1. x = Compare(op, a, b) /\ y = RunComparison(op, c, d)
    BY <1>2, <1>6 DEF CelBranch, StrictBranch
  <2>2. op \notin Conversions \union {"not", "size"}
    BY <1>1, <1>6, OperatorsAre
  <2>3. a.t \in {"time", "dur"} \/ b.t \in {"time", "dur"} => a.t = b.t
    BY <1>1, <1>2, <1>4, <1>6, <2>2, NoDisagreement
  <2>4. op \in Orderings /\ NaN \in {a, b} => Compare(op, a, b) # Err
    BY <1>2, NoDisagreement
  <2>5. y = x
    BY <1>3, <1>4, <1>6, <2>1, <2>2, <2>3, <2>4, ComparisonRenders
  <2>6. x \in Tri
    BY <2>1, CompareTri
  <2> QED BY <1>5, <2>5, <2>6
<1>7. CASE op \in Arithmetic
  <2>1. x = CelArithmetic(op, a, b) /\ y = RunArithmetic(op, args, c, d)
    BY <1>2, <1>7 DEF CelBranch, StrictBranch
  <2>2. Pair(op, args, a, b, c, d)
    BY <1>2, <1>7, PairHolds
  <2>3. Divided(op, a, b, y)
    BY <2>1, <2>2, ArithmeticDivided
  <2> QED BY <1>2, <2>1, <2>3 DEF Divided, Told, DividesByZero
<1>8. CASE op \in Conversions
  <2>1. x = CelConvert(op, a) /\ y = RunConversion(op, args[1], c)
    BY <1>2, <1>8 DEF CelBranch, StrictBranch
  <2>2. Convertible(op, args[1], a, c)
    BY <1>2, <1>3, <1>8, ConvertibleHolds
  <2>3. Renders(y, x)
    BY <2>1, <2>2, ConversionRenders
  <2>4. Good(x)
    BY <1>3, <1>8, <2>1, ConvertGood
  <2> QED BY <2>3, <2>4, RendersIs DEF Told
<1>9. CASE op = "size"
  <2>1. x = CelSize(a) /\ y = Erased(CelSize(c))
    BY <1>2, <1>9 DEF CelBranch, StrictBranch
  <2>2. Renders(y, x) /\ Good(x)
    BY <1>3, <2>1, SizeAlike
  <2> QED BY <2>2, RendersIs DEF Told
<1>10. CASE op = "not"
  <2>1. x = Not(a) /\ y = Not(c)
    BY <1>2, <1>10 DEF CelBranch, StrictBranch
  <2>2. x = y /\ x \in Tri
    BY <1>3, <2>1, BooleanAlike, ReadTri
  <2> QED BY <1>5, <2>2
<1>11. CASE op \in {"in", "hasIntersection", "startsWith", "matches"}
  <2>1. Good(b) /\ Renders(d, b)
    BY <1>4, <1>11 DEF Conversions
  <2>2. /\ op = "in" => x = In(Unsigned(a), b) /\ y = In(Unsigned(c), d)
        /\ op = "hasIntersection" => x = HasIntersection(a, b) /\ y = HasIntersection(c, d)
        /\ op \in {"startsWith", "matches"} => x = StartsWith(a, b) /\ y = StartsWith(c, d)
    BY <1>2 DEF CelBranch, StrictBranch
  <2>3. x = y /\ x \in Tri
    BY <1>3, <1>11, <2>1, <2>2, ReadAlike, ReadTri
  <2> QED BY <1>5, <2>3
<1> QED BY <1>1, <1>6, <1>7, <1>8, <1>9, <1>10, <1>11 DEF AllOperators

LEMMA ExpressionTold ==
  ASSUME NEW op, NEW args, Accepted(op, args), Unrefused(op, args), ~Invalid(op, args),
         NEW e \in EnvsOf(ScopeOf(op, args)), NEW f, f = CelsOf(op, args, e), NEW g, g = JssOf(op, args, e),
         NEW items, items = Items(op, args), NEW p, p = CelBodies(op, args), NEW q, q = JsBodies(op, args),
         NEW x, x = CelEvaluate(op, f, items, p), NEW y, y = Evaluate(op, args, g, items, q)
  PROVE  Told(y, x, Zeroed(op, args, e))
<1>1. op \in AllOperators
  BY DEF Accepted
<1>2. CelBranch(op, f, items, p, x) /\ Branch(op, args, g, items, q, y)
  BY <1>1, CelEvaluateIs, EvaluateIs
<1>3. CASE op \in Macros
  <2>1. x = CelMacro(op, f[1], items, p) /\ y = RunMacro(op, g[1], items, q)
    BY <1>2, <1>3 DEF CelBranch, Branch
  <2>2. Told(RunMacro(op, g[1], items, q), CelMacro(op, f[1], items, p), Below(op, args, e))
    BY <1>3, MacroTold
  <2> QED BY <2>1, <2>2 DEF Told, Zeroed
<1>4. ASSUME op \notin Macros
      PROVE  /\ Answered(g, f) /\ DOMAIN g = 1 .. Width(op) /\ DOMAIN f = 1 .. Width(op)
             /\ (\E i \in DOMAIN g : g[i] = Thrown) => Below(op, args, e)
  BY <1>4, OperandsTold, OperandsAre
<1>5. ASSUME op \notin Macros, Absorbs(y, x, g) PROVE Told(y, x, Zeroed(op, args, e))
  BY <1>4, <1>5 DEF Absorbs, Told, Zeroed
<1>6. CASE op \in Junctions
  <2>1. op \notin Macros /\ 1 .. Width(op) = {1, 2}
    BY <1>1, <1>6, OperatorsAre, WidthIs
  <2>2. PICK decisive \in BOOLEAN : decisive = (op = "or")
    OBVIOUS
  <2>3. x = Junction(decisive, {f[1], f[2]}) /\ y = RunJunction(decisive, g)
    BY <1>2, <1>6, <2>2 DEF CelBranch, Branch
  <2>4. {f[i] : i \in DOMAIN f} = {f[1], f[2]}
    BY <1>4, <2>1
  <2>5. Answered(g, f)
    BY <1>4, <2>1
  <2>6. decisive \in BOOLEAN
    OBVIOUS
  <2>7. Absorbs(RunJunction(decisive, g), Junction(decisive, {f[i] : i \in DOMAIN f}), g)
    BY <2>5, <2>6, JunctionAbsorbs, Zenon
  <2> QED BY <1>5, <2>1, <2>3, <2>4, <2>7
<1>7. CASE op = "if"
  <2>1. op \notin Macros /\ Width(op) = 3
    BY <1>7 DEF Macros, Quantifiers, Width, Conversions
  <2>2. x = IfThenElse(f[1], f[2], f[3]) /\ y = RunIf(g)
    BY <1>2, <1>7 DEF CelBranch, Branch
  <2>3. Absorbs(y, x, g)
    BY <1>4, <2>1, <2>2, IfAbsorbs
  <2> QED BY <1>5, <2>1, <2>3
<1>8. CASE op \notin Macros \union Junctions \union {"if"}
  <2>1. y = IF \E i \in DOMAIN g : g[i] = Thrown THEN Thrown ELSE RunStrict(op, args, g)
    BY <1>2, <1>8 DEF Branch
  <2>2. CASE \E i \in DOMAIN g : g[i] = Thrown
    BY <1>4, <1>8, <2>1, <2>2 DEF Told, Zeroed
  <2>3. CASE ~\E i \in DOMAIN g : g[i] = Thrown
    <3>1. \A i \in 1 .. Width(op) : Renders(g[i], f[i])
      BY <1>4, <1>8, <2>3 DEF Answered
    <3>2. y = RunStrict(op, args, g)
      BY <2>1, <2>3
    <3>3. StrictBranch(op, args, g, y)
      BY <1>1, <1>8, <3>2, RunStrictIs
    <3>4. Told(y, x, DividesByZero(op, f))
      BY <1>2, <1>8, <3>1, <3>3, StrictTold
    <3> QED BY <3>4 DEF Told, Zeroed
  <2> QED BY <2>2, <2>3
<1> QED BY <1>3, <1>6, <1>7, <1>8

-----------------------------------------------------------------------------
(* Its node *)

Fields(op, args, n, scope) ==
  /\ n.kind = op /\ n.scope = scope /\ n.static = CelStatic(op, args)
  /\ n.refused <=> Invalid(op, args) \/ \E i \in 1 .. Width(op) : args[i].refused
  /\ n.numeric = NumericType(op, args) /\ n.int = IsIntExpression(op, args) /\ n.temporal = TemporalKind(op, args)
  /\ DOMAIN n.cel = EnvsOf(scope) /\ DOMAIN n.js = EnvsOf(scope) /\ DOMAIN n.zeroed = EnvsOf(scope)
  /\ \A e \in EnvsOf(scope) :
       /\ n.cel[e] = CelEvaluate(op, CelsOf(op, args, e), Items(op, args), CelBodies(op, args))
       /\ n.js[e] = Evaluate(op, args, JssOf(op, args, e), Items(op, args), JsBodies(op, args))
       /\ n.zeroed[e] <=> Zeroed(op, args, e)

LEMMA ExpressionFields ==
  ASSUME NEW op, NEW args, Accepted(op, args), NEW n, n = ExpressionNode(op, args), NEW scope, scope = ScopeOf(op, args)
  PROVE  Fields(op, args, n, scope)
<1>1. DOMAIN args = 1 .. Width(op)
  BY DEF Accepted
<1>2. /\ n.kind = op /\ n.scope = scope /\ n.static = CelStatic(op, args)
      /\ n.refused = (Invalid(op, args) \/ \E i \in DOMAIN args : args[i].refused)
      /\ n.numeric = NumericType(op, args) /\ n.int = IsIntExpression(op, args) /\ n.temporal = TemporalKind(op, args)
  BY DEF ExpressionNode
<1>3. n.cel = [e \in EnvsOf(scope) |->
                 CelEvaluate(op, CelsOf(op, args, e), Items(op, args), CelBodies(op, args))]
  <2>1. CelBodies(op, args) = [i \in DOMAIN Items(op, args) |->
                                 At([j \in DOMAIN args |-> args[j].cel][2], Items(op, args)[i])]
    <3>1. Items(op, args) = <<>> \/ 2 \in DOMAIN args
      BY <1>1, WidthIs DEF Accepted, Items
    <3>2. CASE Items(op, args) = <<>>
      BY <3>2 DEF CelBodies
    <3>3. CASE 2 \in DOMAIN args
      BY <3>3 DEF CelBodies
    <3> QED BY <3>1, <3>2, <3>3
  <2> QED BY <2>1 DEF ExpressionNode, CelsOf
<1>4. n.js = [e \in EnvsOf(scope) |->
                Evaluate(op, args, JssOf(op, args, e), Items(op, args), JsBodies(op, args))]
  <2>1. JsBodies(op, args) = [i \in DOMAIN Items(op, args) |->
                                At([j \in DOMAIN args |-> args[j].js][2], Items(op, args)[i])]
    <3>1. Items(op, args) = <<>> \/ 2 \in DOMAIN args
      BY <1>1, WidthIs DEF Accepted, Items
    <3>2. CASE Items(op, args) = <<>>
      BY <3>2 DEF JsBodies
    <3>3. CASE 2 \in DOMAIN args
      BY <3>3 DEF JsBodies
    <3> QED BY <3>1, <3>2, <3>3
  <2> QED BY <2>1 DEF ExpressionNode, JssOf
<1>5. n.zeroed = [e \in EnvsOf(scope) |-> Zeroed(op, args, e)]
  BY DEF ExpressionNode, CelsOf, Zeroed, Below
<1> QED BY <1>1, <1>2, <1>3, <1>5, <1>4 DEF Fields

\* The checker knows as an int what the adapter takes for one.
LEMMA IntStatic ==
  ASSUME NEW op, NEW args, Accepted(op, args), IsIntExpression(op, args)
  PROVE  CelStatic(op, args) = "int"
<1>1. CASE op \in Arithmetic
  <2>1. DOMAIN args = {1, 2} /\ NodeOK(args[1]) /\ NodeOK(args[2]) /\ Matching(op, args[1].static, args[2].static) # {}
    BY <1>1, WidthIs DEF Accepted, WellFormedPlan
  <2>2. PICK l, r : l = args[1] /\ r = args[2]
    OBVIOUS
  <2>3. l.int \/ r.int
    BY <1>1, <2>1, <2>2 DEF IsIntExpression, Arithmetic
  <2>4. l.static \in CheckerTypes /\ r.static \in CheckerTypes /\ (l.static = "int" \/ r.static = "int")
    BY <2>1, <2>2, <2>3 DEF NodeOK, Shaped, TypesHold
  <2>5. ResultType(op, l.static, r.static) = "int"
    BY <2>1, <2>2, <2>4, OverloadsLeft
  <2>6. CelStatic(op, args) = ResultType(op, l.static, r.static)
    BY <1>1, <2>2 DEF CelStatic, Arithmetic
  <2> QED BY <2>5, <2>6
<1>2. CASE op \in {"size", "int"}
  BY <1>2 DEF CelStatic, Arithmetic
<1> QED BY <1>1, <1>2 DEF IsIntExpression

LEMMA ExpressionNodeOK ==
  ASSUME NEW op, NEW args, Accepted(op, args)
  PROVE  NodeOK(ExpressionNode(op, args))
<1>1. PICK n, scope : n = ExpressionNode(op, args) /\ scope = ScopeOf(op, args) /\ Fields(op, args, n, scope)
  BY ExpressionFields
<1>2. /\ n.kind = op /\ n.scope = scope /\ n.static = CelStatic(op, args)
      /\ n.refused <=> Invalid(op, args) \/ \E i \in 1 .. Width(op) : args[i].refused
      /\ n.numeric = NumericType(op, args) /\ n.int = IsIntExpression(op, args) /\ n.temporal = TemporalKind(op, args)
      /\ DOMAIN n.cel = EnvsOf(scope) /\ DOMAIN n.js = EnvsOf(scope) /\ DOMAIN n.zeroed = EnvsOf(scope)
  BY <1>1 DEF Fields
<1>3. ASSUME NEW e \in EnvsOf(scope)
      PROVE  /\ Good(n.cel[e]) /\ GoodJs(n.js[e])
             /\ n.int => n.static = "int" /\ n.cel[e].t \in {"int64", "error"}
             /\ op = "double" => IsDouble(n.cel[e]) \/ n.cel[e].t = "error"
             /\ n.temporal # "none" => n.cel[e].t \in {n.temporal, "error"}
             /\ Admitted = {} /\ ~n.refused => Told(n.js[e], n.cel[e], n.zeroed[e])
  <2>1. PICK f, g, items, p, q : /\ f = CelsOf(op, args, e) /\ g = JssOf(op, args, e) /\ items = Items(op, args)
                                 /\ p = CelBodies(op, args) /\ q = JsBodies(op, args)
    OBVIOUS
  <2>2. PICK x, y : x = CelEvaluate(op, f, items, p) /\ y = Evaluate(op, args, g, items, q)
    OBVIOUS
  <2>3. n.cel[e] = x /\ n.js[e] = y /\ (n.zeroed[e] <=> Zeroed(op, args, e))
    BY <1>1, <1>3, <2>1, <2>2 DEF Fields
  <2>4. e \in EnvsOf(ScopeOf(op, args))
    BY <1>1, <1>3
  <2>5. Good(x)
    BY <2>1, <2>2, <2>4, CelGood
  <2>6. GoodJs(y)
    BY <2>1, <2>2, <2>4, JsGood
  <2>7. /\ IsIntExpression(op, args) => CelStatic(op, args) = "int" /\ x.t \in {"int64", "error"}
        /\ op = "double" => IsDouble(x) \/ x.t = "error"
        /\ TemporalKind(op, args) # "none" => x.t \in {TemporalKind(op, args), "error"}
    BY <2>1, <2>2, <2>4, TypesAreHeld
  <2>8. ASSUME Admitted = {}, ~n.refused PROVE Told(y, x, Zeroed(op, args, e))
    <3>1. Unrefused(op, args) /\ ~Invalid(op, args)
      BY <1>2, <2>8 DEF Unrefused
    <3> QED BY <2>1, <2>2, <2>4, <3>1, ExpressionTold
  <2>9. Admitted = {} /\ ~n.refused => Told(n.js[e], n.cel[e], n.zeroed[e])
    BY <2>3, <2>8 DEF Told
  <2> QED BY <1>2, <2>3, <2>5, <2>6, <2>7, <2>9
<1>4. op \in AllOperators /\ op \notin {"value", "variable", "element"}
  BY OperatorsAre DEF Accepted
<1>5. scope = Undefined \/ Listed(scope)
  BY <1>1, ScopeIs
<1>6. n.int => n.static = "int"
  BY <1>2, IntStatic
<1>7. TypesHold(n)
  BY <1>2, <1>3, <1>6 DEF TypesHold
<1>8. n.kind \in Kinds /\ n.static \in CheckerTypes
  BY <1>2, <1>4, StaticIs DEF Kinds
<1>9. n.numeric \in {"none", "int", "double"} /\ n.temporal \in {"none", "time", "dur"}
  BY <1>2, ReadTypesAre
<1>10. Shaped(n)
  BY <1>2, <1>3, <1>4, <1>5, <1>7, <1>8, <1>9 DEF Shaped
<1>11. Admitted = {} => Faithful(n)
  BY <1>2, <1>3 DEF Faithful, Told
<1> QED BY <1>1, <1>10, <1>11 DEF NodeOK

-----------------------------------------------------------------------------
(* What is on the stack *)

LEMMA NoNodes == NodesOK(<<>>)
BY DEF NodesOK

\* A node on top of others.
LEMMA Appended ==
  ASSUME NEW s, NodesOK(s), NEW n, NodeOK(n)
  PROVE  NodesOK(Append(s, n))
<1>1. PICK S : S = {s[i] : i \in DOMAIN s}
  OBVIOUS
<1>2. s \in Seq(S) /\ \A i \in 1 .. Len(s) : NodeOK(s[i])
  BY <1>1 DEF NodesOK
<1>3. PICK T : T = S \union {n}
  OBVIOUS
<1>4. s \in Seq(T) /\ Len(s) \in Nat
  BY <1>2, <1>3
<1>5. PICK u : u = Append(s, n)
  OBVIOUS
<1>6. u \in Seq(T) /\ Len(u) = Len(s) + 1 /\ (\A i \in 1 .. Len(s) : u[i] = s[i]) /\ u[Len(s) + 1] = n
  BY <1>3, <1>4, <1>5, AppendProperties
<1>7. \A i \in DOMAIN u : i \in 1 .. Len(s) \/ i = Len(s) + 1
  BY <1>4, <1>6
<1>8. \A i \in DOMAIN u : NodeOK(u[i])
  BY <1>2, <1>6, <1>7
<1>9. u \in Seq({u[i] : i \in DOMAIN u})
  BY <1>6, OwnMembers
<1> QED BY <1>5, <1>8, <1>9 DEF NodesOK

\* Part of a stack.
LEMMA Part ==
  ASSUME NEW s, NodesOK(s), NEW k \in Int, NEW l \in Int, 1 <= k, l <= Len(s), k <= l + 1
  PROVE  LET t == SubSeq(s, k, l) IN NodesOK(t) /\ DOMAIN t = 1 .. l - k + 1
<1>1. PICK S : S = {s[i] : i \in DOMAIN s}
  OBVIOUS
<1>2. s \in Seq(S) /\ \A i \in 1 .. Len(s) : NodeOK(s[i])
  BY <1>1 DEF NodesOK
<1>3. \A i \in k .. l : i \in 1 .. Len(s) /\ s[i] \in S
  BY <1>2
<1>4. PICK t : t = SubSeq(s, k, l)
  OBVIOUS
<1>5. t \in Seq(S) /\ Len(t) = (IF k <= l THEN l - k + 1 ELSE 0) /\ \A i \in 1 .. l - k + 1 : t[i] = s[k + i - 1]
  BY <1>3, <1>4, SubSeqProperties
<1>6. Len(t) = l - k + 1 /\ DOMAIN t = 1 .. l - k + 1
  BY <1>5
<1>7. \A i \in 1 .. l - k + 1 : k + i - 1 \in k .. l
  OBVIOUS
<1>8. \A i \in DOMAIN t : NodeOK(t[i])
  BY <1>2, <1>3, <1>5, <1>6, <1>7
<1>9. t \in Seq({t[i] : i \in DOMAIN t})
  BY <1>5, OwnMembers
<1> QED BY <1>4, <1>6, <1>8, <1>9 DEF NodesOK

\* What an operator consumes, and what it leaves.
LEMMA TopIs ==
  ASSUME NodesOK(stack), NEW k \in Nat, k <= Len(stack)
  PROVE  /\ NodesOK(Under(k))
         /\ DOMAIN Top(k) = 1 .. k /\ \A i \in 1 .. k : NodeOK(Top(k)[i])
<1>1. PICK l : l = Len(stack)
  OBVIOUS
<1>2. l \in Nat
  BY <1>1 DEF NodesOK
<1>3. NodesOK(SubSeq(stack, 1, l - k))
  <2>1. 1 \in Int /\ l - k \in Int /\ 1 <= 1 /\ l - k <= Len(stack) /\ 1 <= l - k + 1
    BY <1>1, <1>2
  <2> QED BY <2>1, Part
<1>4. PICK m : m = l - k + 1
  OBVIOUS
<1>5. PICK t : t = SubSeq(stack, m, l)
  OBVIOUS
<1>6. NodesOK(t) /\ DOMAIN t = 1 .. l - m + 1
  <2>1. m \in Int /\ l \in Int /\ 1 <= m /\ l <= Len(stack) /\ m <= l + 1
    BY <1>1, <1>2, <1>4
  <2> QED BY <1>5, <2>1, Part
<1>7. l - m + 1 = k
  BY <1>2, <1>4
<1>8. Under(k) = SubSeq(stack, 1, l - k) /\ Top(k) = t
  BY <1>1, <1>4, <1>5 DEF Under, Top
<1>9. DOMAIN t = 1 .. k /\ \A i \in 1 .. k : NodeOK(t[i])
  BY <1>6, <1>7 DEF NodesOK
<1> QED BY <1>3, <1>8, <1>9

-----------------------------------------------------------------------------
(* The inductive invariant holds *)

LEMMA InitIInv == Init => IInv
<1> SUFFICES ASSUME Init PROVE IInv
  OBVIOUS
<1>1. NodesOK(stack)
  BY NoNodes DEF Init
<1>2. 0 \in 0 .. MaxNodes
  BY BoundsAssumption
<1>3. DocumentOK
  BY DEF Init, DocumentOK
<1>4. AnswerOK /\ Good(root) /\ GoodJs(answer)
  BY GoodSpecials, Constants DEF Init, AnswerOK, GoodJs
<1> QED BY <1>1, <1>2, <1>3, <1>4 DEF Init, IInv

\* Every read pushes one node.
LEMMA ReadIInv ==
  ASSUME IInv, NEW rest, NodesOK(rest), NEW n, NodeOK(n), Read(rest, n), DocumentOK'
  PROVE  IInv'
<1>1. NodesOK(Append(rest, n))
  BY Appended
<1>2. NodesOK(stack')
  BY <1>1 DEF Read
<1>3. nodes \in 0 .. MaxNodes /\ nodes < MaxNodes /\ nodes' = nodes + 1
  BY DEF IInv, Read
<1>4. nodes' \in 0 .. MaxNodes
  BY <1>3, BoundsAssumption
<1>5. convention' = convention /\ phase' = phase /\ root' = root /\ answer' = answer /\ returned' = returned
  BY DEF Read
<1>6. AnswerOK'
  BY <1>5 DEF IInv, AnswerOK
<1> QED BY <1>2, <1>4, <1>5, <1>6 DEF IInv

LEMMA DocumentKept == ASSUME DocumentOK, UNCHANGED doc PROVE DocumentOK'
BY DEF DocumentOK

LEMMA ReadValueIInv == IInv /\ ReadValue => IInv'
<1> SUFFICES ASSUME IInv, ReadValue PROVE IInv'
  OBVIOUS
<1>1. PICK x \in Literals : \E hidden \in IF x.t = "list" THEN {"num"} ELSE HiddenTypes(x) \union Signs(x) :
        Read(stack, ValueNode(x, hidden)) /\ UNCHANGED doc
  BY DEF ReadValue
<1>2. PICK hidden \in IF x.t = "list" THEN {"num"} ELSE HiddenTypes(x) \union Signs(x) :
        Read(stack, ValueNode(x, hidden)) /\ UNCHANGED doc
  BY <1>1
<1>3. hidden \in {"int64", "num"} \/ (hidden = "negzero" /\ x = Num(0))
  BY HiddenIs DEF Signs
<1>4. NodeOK(ValueNode(x, hidden))
  BY <1>3, ValueNodeOK
<1>5. NodesOK(stack) /\ DocumentOK'
  BY <1>2, DocumentKept DEF IInv
<1> QED BY <1>2, <1>4, <1>5, ReadIInv

LEMMA ReadElementIInv == IInv /\ ReadElement => IInv'
<1> SUFFICES ASSUME IInv, ReadElement PROVE IInv'
  OBVIOUS
<1>1. NodesOK(stack) /\ DocumentOK /\ DocumentOK'
  BY DocumentKept DEF IInv, ReadElement
<1>2. CASE \E x \in {y \in Literals : y.t = "list"} : \E hidden \in HiddenTypes(x) :
             Members[x] # {} /\ Read(stack, ElementNode(x, hidden))
  <2>1. PICK x \in {y \in Literals : y.t = "list"}, hidden \in {"int64", "num"} : Read(stack, ElementNode(x, hidden))
    BY <1>2, HiddenIs
  <2>2. NodeOK(ElementNode(x, hidden))
    BY <2>1, ElementNodeOK DEF Listed
  <2> QED BY <1>1, <2>1, <2>2, ReadIInv
<1>3. CASE \E r \in DOMAIN doc :
             doc[r].t = "list" /\ Members[doc[r]] # {} /\ Read(stack, [ElementNode(doc[r], "num") EXCEPT !.static = "dyn"])
  <2>1. PICK r \in DOMAIN doc : doc[r].t = "list" /\ Read(stack, [ElementNode(doc[r], "num") EXCEPT !.static = "dyn"])
    BY <1>3
  <2>2. PICK l : l = doc[r]
    OBVIOUS
  <2>3. Listed(l)
    BY <1>1, <2>1, <2>2 DEF DocumentOK, Listed
  <2>4. NodeOK([ElementNode(l, "num") EXCEPT !.static = "dyn"])
    BY <2>3, ElementNodeOK
  <2> QED BY <1>1, <2>1, <2>2, <2>4, ReadIInv
<1> QED BY <1>2, <1>3 DEF ReadElement

LEMMA ReadVariableIInv == IInv /\ ReadVariable => IInv'
<1> SUFFICES ASSUME IInv, ReadVariable PROVE IInv'
  OBVIOUS
<1>1. PICK r \in Refs, x \in DocValues :
        /\ doc' = [q \in DOMAIN doc \union {r} |-> IF q = r THEN x ELSE doc[q]]
        /\ Read(stack, VariableNode(x))
  BY DEF ReadVariable
<1>2. DocumentOK'
  BY <1>1 DEF IInv, DocumentOK
<1>3. NodesOK(stack) /\ NodeOK(VariableNode(x))
  BY VariableNodeOK DEF IInv
<1> QED BY <1>1, <1>2, <1>3, ReadIInv

LEMMA ReadExpressionIInv == IInv /\ ReadExpression => IInv'
<1> SUFFICES ASSUME IInv, ReadExpression PROVE IInv'
  OBVIOUS
<1>1. PICK op \in Operators :
        /\ Width(op) <= Len(stack)
        /\ WellFormedPlan(op, Top(Width(op))) /\ AdmittedShape(op, Top(Width(op)))
        /\ Read(Under(Width(op)), ExpressionNode(op, Top(Width(op)))) /\ UNCHANGED doc
  BY DEF ReadExpression
<1>2. op \in AllOperators
  BY BoundsAssumption
<1>3. Width(op) \in 1 .. 3
  BY <1>2, WidthIs
<1>4. PICK k, args, rest : k = Width(op) /\ args = Top(k) /\ rest = Under(k)
  OBVIOUS
<1>5. NodesOK(rest) /\ DOMAIN args = 1 .. k /\ \A i \in 1 .. k : NodeOK(args[i])
  <2>1. k \in Nat /\ k <= Len(stack) /\ NodesOK(stack)
    BY <1>1, <1>3, <1>4 DEF IInv
  <2> QED BY <1>4, <2>1, TopIs
<1>6. Accepted(op, args)
  BY <1>1, <1>2, <1>4, <1>5 DEF Accepted
<1>7. NodeOK(ExpressionNode(op, args))
  BY <1>6, ExpressionNodeOK
<1>8. DocumentOK'
  BY <1>1, DocumentKept DEF IInv
<1> QED BY <1>1, <1>4, <1>5, <1>7, <1>8, ReadIInv

LEMMA TranslateIInv == IInv /\ Translate => IInv'
<1> SUFFICES ASSUME IInv, Translate PROVE IInv'
  OBVIOUS
<1>1. PICK n : n = stack[1]
  OBVIOUS
<1>2. /\ phase = "reading" /\ Len(stack) = 1 /\ n.scope = Undefined
      /\ root' = n.cel[Root] /\ answer' = n.js[Root] /\ stack' = <<>>
      /\ phase' = IF n.refused THEN "refused" ELSE "translated"
      /\ doc' = doc /\ convention' = convention /\ nodes' = nodes /\ returned' = returned
  BY <1>1 DEF Translate
<1>3. NodeOK(n)
  <2>1. DOMAIN stack = 1 .. 1
    BY <1>2 DEF IInv, NodesOK
  <2> QED BY <1>1, <2>1 DEF IInv, NodesOK
<1>4. Root \in EnvsOf(n.scope)
  BY <1>2 DEF EnvsOf
<1>5. Good(root') /\ GoodJs(answer')
  BY <1>2, <1>3, <1>4 DEF NodeOK, Shaped
<1>6. ASSUME Admitted = {}, phase' = "translated", answer' # Thrown PROVE answer' = True <=> root' = True
  <2>1. ~n.refused /\ Faithful(n)
    BY <1>2, <1>3, <1>6 DEF NodeOK
  <2>2. Renders(answer', root')
    BY <1>2, <1>4, <1>6, <2>1 DEF Faithful
  <2> QED BY <1>5, <2>2, RendersIs
<1>7. AnswerOK'
  BY <1>2, <1>6 DEF AnswerOK
<1>8. NodesOK(stack') /\ DocumentOK'
  BY <1>2, NoNodes, DocumentKept DEF IInv
<1> QED BY <1>2, <1>5, <1>7, <1>8 DEF IInv

LEMMA RunPostFilterIInv == IInv /\ RunPostFilter => IInv'
<1> SUFFICES ASSUME IInv, RunPostFilter PROVE IInv'
  OBVIOUS
<1>1. /\ phase = "translated" /\ phase' = (IF answer = Thrown THEN "aborted" ELSE "answered")
      /\ returned' = (answer = True)
      /\ doc' = doc /\ convention' = convention /\ stack' = stack /\ nodes' = nodes
      /\ root' = root /\ answer' = answer
  BY DEF RunPostFilter
<1>2. AnswerOK'
  BY <1>1 DEF IInv, AnswerOK
<1>3. NodesOK(stack') /\ DocumentOK' /\ returned' \in BOOLEAN
  BY <1>1, DocumentKept DEF IInv
<1> QED BY <1>1, <1>2, <1>3 DEF IInv

LEMMA StepIInv == IInv /\ [Next]_vars => IInv'
<1> SUFFICES ASSUME IInv, [Next]_vars PROVE IInv'
  OBVIOUS
<1>1. CASE ReadValue
  BY <1>1, ReadValueIInv
<1>2. CASE ReadElement
  BY <1>2, ReadElementIInv
<1>3. CASE ReadVariable
  BY <1>3, ReadVariableIInv
<1>4. CASE ReadExpression
  BY <1>4, ReadExpressionIInv
<1>5. CASE Translate
  BY <1>5, TranslateIInv
<1>6. CASE RunPostFilter
  BY <1>6, RunPostFilterIInv
<1>7. CASE UNCHANGED vars
  <2>1. /\ doc' = doc /\ convention' = convention /\ stack' = stack /\ nodes' = nodes /\ phase' = phase
        /\ root' = root /\ answer' = answer /\ returned' = returned
    BY <1>7 DEF vars
  <2>2. AnswerOK' /\ NodesOK(stack') /\ DocumentOK'
    BY <2>1, DocumentKept DEF IInv, AnswerOK
  <2> QED BY <2>1, <2>2 DEF IInv
<1> QED BY <1>1, <1>2, <1>3, <1>4, <1>5, <1>6, <1>7 DEF Next

LEMMA Inductive == Spec => []IInv
BY InitIInv, StepIInv, PTL DEF Spec

-----------------------------------------------------------------------------
(* The results *)

LEMMA GoodEvaluator == ASSUME NEW x, Good(x) PROVE x \in EvaluatorValue /\ x # Thrown
<1>1. x \in [t : KnownTypes, v : Int]
  BY GoodIs
<1>2. x \in EvaluatorValue
  BY <1>1 DEF EvaluatorValue, KnownTypes, Types, Scalars
<1> QED BY <1>2, ThrownIs

LEMMA GoodJsEvaluator == ASSUME NEW y, GoodJs(y) PROVE y \in EvaluatorValue /\ y.t # "int64"
<1>1. Thrown \in EvaluatorValue
  BY DEF EvaluatorValue, Thrown
<1> QED BY <1>1, GoodEvaluator, ThrownIs DEF GoodJs

\* evaluate.ts and cel.ts: the evaluator is typed whatever the plan and the document, CEL's own
\* value is never a throw, and what evaluate() returns is never an int: numbers lose that type.
THEOREM TypeCorrect == Spec => []TypeOK
<1>1. IInv => TypeOK
  <2> SUFFICES ASSUME IInv PROVE TypeOK
    OBVIOUS
  <2>1. ASSUME NEW i \in DOMAIN stack, NEW n, n = stack[i]
        PROVE  /\ n.numeric \in {"none", "int", "double"} /\ n.temporal \in {"none", "time", "dur"}
               /\ \A e \in DOMAIN n.cel : n.cel[e] \in EvaluatorValue /\ n.cel[e] # Thrown
               /\ \A e \in DOMAIN n.js : n.js[e] \in EvaluatorValue /\ n.js[e].t # "int64"
    <3>1. Shaped(n)
      BY <2>1 DEF IInv, NodesOK, NodeOK
    <3>2. /\ DOMAIN n.cel = EnvsOf(n.scope) /\ DOMAIN n.js = EnvsOf(n.scope)
          /\ n.numeric \in {"none", "int", "double"} /\ n.temporal \in {"none", "time", "dur"}
          /\ \A e \in EnvsOf(n.scope) : Good(n.cel[e]) /\ GoodJs(n.js[e])
      BY <3>1 DEF Shaped
    <3> QED BY <3>2, GoodEvaluator, GoodJsEvaluator
  <2>2. root \in EvaluatorValue /\ answer \in EvaluatorValue
    BY GoodEvaluator, GoodJsEvaluator DEF IInv
  <2> QED BY <2>1, <2>2 DEF IInv, TypeOK, DocumentOK
<1> QED BY <1>1, Inductive, PTL

\* The loops, arithmetic, comparisons and conversions of evaluate.ts and cel.ts: where none of the
\* listed disagreements is admitted, what evaluate() returns of any plan it does not refuse, over any
\* document, is what CEL computes with the types the plan dropped, an error for an error; and the
\* post-filter returns exactly the documents on which the condition is true.
THEOREM EvaluatorIsFaithful ==
  ASSUME Admitted = {}
  PROVE  Spec => []EvaluatorFaithful
<1>1. IInv => EvaluatorFaithful
  <2> SUFFICES ASSUME IInv PROVE EvaluatorFaithful
    OBVIOUS
  <2>1. phase = "answered" => (returned <=> root = True)
    BY DEF IInv, AnswerOK
  <2>2. ASSUME NEW i \in DOMAIN stack, NEW n, n = stack[i], ~n.refused, NEW e \in DOMAIN n.cel, n.js[e] # Thrown
        PROVE  Unsigned(n.js[e]) = Erased(n.cel[e])
    <3>1. Shaped(n) /\ Faithful(n)
      BY <2>2 DEF IInv, NodesOK, NodeOK
    <3>2. PICK x, y : x = n.cel[e] /\ y = n.js[e]
      OBVIOUS
    <3>3. e \in EnvsOf(n.scope)
      BY <2>2, <3>1 DEF Shaped
    <3>4. Good(x) /\ Renders(y, x)
      BY <2>2, <3>1, <3>2, <3>3 DEF Shaped, Faithful
    <3> QED BY <3>2, <3>4, RendersIs
  <2> QED BY <2>1, <2>2 DEF EvaluatorFaithful
<1> QED BY <1>1, Inductive, PTL

\* divideByZero of evaluate.ts and the operators that absorb an error: where none of the listed
\* disagreements is admitted, evaluate() throws, and ends the query for every document, only on an
\* expression in which CEL divides a number other than zero by a zero.
THEOREM OnlyAZeroThrows ==
  ASSUME Admitted = {}
  PROVE  Spec => []ThrowsOnlyAtZero
<1>1. IInv => ThrowsOnlyAtZero
  <2> SUFFICES ASSUME IInv PROVE ThrowsOnlyAtZero
    OBVIOUS
  <2>1. ASSUME NEW i \in DOMAIN stack, NEW n, n = stack[i], ~n.refused, NEW e \in DOMAIN n.js, n.js[e] = Thrown
        PROVE  n.zeroed[e]
    <3>1. Shaped(n) /\ Faithful(n)
      BY <2>1 DEF IInv, NodesOK, NodeOK
    <3> QED BY <2>1, <3>1 DEF Shaped, Faithful
  <2> QED BY <2>1 DEF ThrowsOnlyAtZero
<1> QED BY <1>1, Inductive, PTL
=============================================================================
