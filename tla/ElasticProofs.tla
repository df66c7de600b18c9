----------------------------- MODULE ElasticProofs -----------------------------
(***************************************************************************)
(* What TLAPS proves of the Elasticsearch adapter, for any attributes,     *)
(* documents, declarations, literals, lookups and size of plan.            *)
(***************************************************************************)
EXTENDS ElasticsearchAdapter, FiniteSetTheorems, SequenceTheorems, TLAPS

-----------------------------------------------------------------------------
(* Values *)

Plain == {"num", "str", "bool"}

\* What an attribute, an element or a literal may be: neither an error nor an int64.
Storable == {x \in Value : x.t \in Plain \union {"undefined", "null", "list", "map"}}

LEMMA Constants ==
  /\ True \in CelValue /\ False \in CelValue /\ Null \in CelValue /\ Err \in CelValue
  /\ Undefined \in Storable /\ Null \in Storable /\ Storable \subseteq Value
  /\ True # False /\ True # Err /\ False # Err /\ Null # Err /\ Null # Undefined /\ Err # Undefined
  /\ Bool(TRUE) = True /\ Bool(FALSE) = False
  /\ \A b : Bool(b) \in {True, False}
  /\ \A b, c \in BOOLEAN : Bool(b) = Bool(c) <=> b = c
BY DEF CelValue, Value, Types, Scalars, WellFormed, True, False, Bool, Null, Undefined, Err,
       Storable, Plain

LEMMA StorableFacts ==
  ASSUME NEW x \in Storable
  PROVE  /\ x \in Value /\ x.v \in Int /\ x # Err
         /\ x = Null <=> x.t = "null"
         /\ x = Undefined <=> x.t = "undefined"
         /\ x # Undefined => x \in CelValue
         /\ x.t \in {"list", "map"} <=> IsCollection(x)
         /\ x.t \in {"list", "map"} => x \in DOMAIN Members
         /\ \A y \in Storable : x = y <=> x.t = y.t /\ x.v = y.v
BY DEF Storable, Plain, Value, WellFormed, CelValue, Null, Undefined, Err, IsCollection

\* What is kept inside an array, and the literals of a plan.
LEMMA ContentsAreStorable ==
  /\ \A x \in Literals : x \in Storable /\ x # Undefined
  /\ \A x \in DocValues : x \in Storable
  /\ \A x \in DOMAIN Members : \A m \in Members[x] :
       m \in Storable /\ ~IsCollection(m) /\ m # Undefined
  /\ \A x \in DOMAIN Objects : \A e \in Objects[x] : e \in Storable /\ ~IsCollection(e)
<1>1. \A x \in Literals \union DocValues : x \in Storable
  BY ElasticValuesAssumption, Constants DEF Storable, Plain, CelValue, Value, Types, Scalars
<1>2. \A x \in DOMAIN Members : \A m \in Members[x] :
        m \in Value /\ m.t \in Scalars /\ m.t # "int64"
  BY MembersAssumption, ElasticValuesAssumption
<1>3. \A x \in DOMAIN Objects : \A e \in Objects[x] : e \in Storable /\ ~IsCollection(e)
  BY ObjectsAssumption DEF Storable, Plain, IsCollection
<1> QED
  BY <1>1, <1>2, <1>3, ElasticValuesAssumption DEF Storable, Plain, Scalars, IsCollection, Undefined

\* What the index holds of a value.
LEMMA TermsFacts ==
  ASSUME NEW x \in Storable
  PROVE  /\ x.t \in Plain => Terms(x) = {x}
         /\ x.t = "list" => Terms(x) = Members[x] \ {Null}
         /\ x.t \in {"undefined", "null", "map"} => Terms(x) = {}
BY DEF Terms, Plain

\* Two storable values are equal for CEL when they are the same.
LEMMA EqualValues ==
  \A x, y \in Storable : ValuesEqual(x, y) <=> x = y
<1>1. \A x, y \in Storable : IsNumeric(x) /\ IsNumeric(y) => (x.v = y.v <=> x = y)
  <2>1. \A x \in Storable : IsNumeric(x) => x.t = "num"
    BY DEF IsNumeric, Storable, Plain
  <2> QED BY <2>1, StorableFacts
<1> QED BY <1>1 DEF ValuesEqual

LEMMA CompareFacts ==
  ASSUME NEW op \in Comparisons, NEW x \in Storable, NEW v \in Storable
  PROVE  CompareValues(op, x, v) =
           IF op = "eq" THEN Bool(x = v) ELSE IF op = "ne" THEN Bool(x # v)
           ELSE IF x.t = v.t /\ x.t \in Plain THEN Bool(Ordered(op, x.v, v.v)) ELSE Err
<1>1. Err \notin {x, v}
  BY StorableFacts
<1>2. SameOrderedType(x, v) <=> x.t = v.t /\ x.t \in Plain
  BY DEF SameOrderedType, IsNumeric, Storable, Plain
<1>3. ValuesEqual(x, v) <=> x = v
  BY EqualValues
<1>4. CASE op = "eq"
  BY <1>1, <1>3, <1>4 DEF CompareValues, Bool
<1>5. CASE op = "ne"
  BY <1>1, <1>3, <1>5 DEF CompareValues, Bool
<1>6. CASE op \in Orderings
  BY <1>1, <1>2, <1>6 DEF CompareValues, Orderings
<1> QED BY <1>4, <1>5, <1>6 DEF Comparisons, Equalities

\* Nothing compares with an absent attribute.
LEMMA CompareErr ==
  \A op \in Comparisons : \A v :
    CompareValues(op, Err, v) = Err /\ CompareValues(op, v, Err) = Err
BY DEF CompareValues

-----------------------------------------------------------------------------
(* The leaves *)

\* What the caller's declaration says of the value of a field.
FieldHolds(f, x) ==
  /\ x \in Storable
  /\ f.type # "undeclared" =>
       \/ x \in {Undefined, Null}
       \/ x.t \in Plain /\ x.t = f.type
       \/ x.t = "list" /\ \A m \in Members[x] : m = Null \/ m.t = f.type

\* Nothing the index loses.
Indexed(f, x) ==
  /\ x = Null => f.explicitNull
  /\ x.t = "list" => Null \notin Members[x]

\* What CEL says of a leaf.
CelLeaf(op, v, first, x) ==
  IF first THEN CelOf(op, Attribute(x), v) ELSE CelOf(op, v, Attribute(x))

\* The clause is right on x, and misses it only for a null.
LeafOK(f, op, v, first, x, p) ==
  /\ LeafMatches(f, op, v, first, x, p) => CelLeaf(op, v, first, x) = Bool(p)
  /\ Indexed(f, x) /\ CelLeaf(op, v, first, x) = Bool(p) => LeafMatches(f, op, v, first, x, p)

Fields == AllDeclarations

\* A comparison is the same one with the field on the left.
LEMMA LeafComparison ==
  ASSUME NEW op \in Comparisons, NEW v \in Storable, NEW first \in BOOLEAN, NEW x \in Storable
  PROVE  LET n == NormalizeLeafOperator(op, first) IN
         /\ n \in Comparisons /\ (n \in Equalities <=> op \in Equalities)
         /\ n \in Equalities => n = op
         /\ x = Undefined => CelLeaf(op, v, first, x) = Err
         /\ x # Undefined => CelLeaf(op, v, first, x) = CompareValues(n, x, v)
<1> DEFINE n == NormalizeLeafOperator(op, first)
<1>1. n \in Comparisons /\ (n \in Equalities <=> op \in Equalities) /\ (n \in Equalities => n = op)
  BY DEF NormalizeLeafOperator, Comparisons, Equalities, Orderings
<1>2. x = Undefined => CelLeaf(op, v, first, x) = Err
  BY CompareErr DEF CelLeaf, CelOf, Attribute, Comparisons, Equalities, Orderings
<1>3. ASSUME x # Undefined PROVE CelLeaf(op, v, first, x) = CompareValues(n, x, v)
  <2>1. CASE first
    BY <1>3, <2>1 DEF CelLeaf, CelOf, Attribute, NormalizeLeafOperator, Comparisons,
                               Equalities, Orderings
  <2>2. CASE ~first
    <3>1. CelLeaf(op, v, first, x) = CompareValues(op, v, x)
      BY <1>3, <2>2 DEF CelLeaf, CelOf, Attribute, Comparisons, Equalities, Orderings
    <3>2. x.v \in Int /\ v.v \in Int
      BY StorableFacts
    <3>3. CASE op \in Equalities
      <4>1. n = op
        BY <1>1, <3>3
      <4> QED BY <3>1, <3>3, <4>1, CompareFacts DEF Equalities, Comparisons, Bool
    <3>4. CASE op \in Orderings
      <4>1. Ordered(op, v.v, x.v) <=> Ordered(n, x.v, v.v)
        BY <2>2, <3>2, <3>4 DEF Ordered, NormalizeLeafOperator, Orderings
      <4>2. n \in Orderings /\ \A o \in Orderings : o # "eq" /\ o # "ne"
        BY <1>1, <3>4 DEF Comparisons, Equalities, Orderings
      <4> QED BY <1>1, <3>1, <3>4, <4>1, <4>2, CompareFacts DEF Bool
    <3> QED BY <3>3, <3>4 DEF Comparisons
  <2> QED BY <2>1, <2>2
<1> QED BY <1>1, <1>2, <1>3

\* A leaf the plan may hold, on a field that holds x.
Leaf(f, op, v, first, x) ==
  /\ f \in Fields /\ op \in LeafOperators /\ v \in Literals /\ first \in BOOLEAN
  /\ FieldHolds(f, x) /\ SuitsOperator(op, first, x)
  /\ op = "in" /\ first => IsCollection(v)
  /\ op = "hasIntersection" => v.t = "list"

LEMMA NullLeaf ==
  ASSUME NEW f, NEW op, NEW v, NEW first, NEW x, Leaf(f, op, v, first, x), NEW p \in BOOLEAN,
         ~LeafRefused(f, op, v, first, p), v = Null
  PROVE  LeafOK(f, op, v, first, x, p)
<1>1. (op = "eq" /\ ~p) \/ (op = "ne" /\ p)
  BY DEF LeafRefused, NullLeafRefused
<1>2. x \in Storable /\ ~IsCollection(x) /\ v \in Storable /\ op \in Comparisons /\ first \in BOOLEAN
  BY <1>1, ContentsAreStorable, Constants
     DEF Leaf, FieldHolds, SuitsOperator, ScalarOperators, Comparisons, Equalities, IsCollection,
         Undefined, Null
<1>3. LeafMatches(f, op, v, first, x, p) <=> Terms(x) # {}
  BY DEF LeafMatches, Exists
<1>4. CASE x.t \in {"undefined", "null"}
  <2>1. ~LeafMatches(f, op, v, first, x, p)
    BY <1>2, <1>3, <1>4, TermsFacts
  <2>2. x = Undefined \/ x = Null
    BY <1>2, <1>4, StorableFacts
  <2>3. x # Undefined => CelLeaf(op, v, first, x) = CompareValues(op, x, v)
    BY <1>1, <1>2, LeafComparison DEF Equalities
  <2>4. x = Undefined => CelLeaf(op, v, first, x) = Err
    BY <1>2, LeafComparison
  <2>5. x = Null => CelLeaf(op, v, first, x) = Bool(op = "eq")
    BY <1>1, <1>2, <2>3, CompareFacts, Constants
  <2> QED BY <1>1, <2>1, <2>2, <2>4, <2>5, Constants DEF LeafOK
<1>5. CASE x.t \in Plain
  <2>1. LeafMatches(f, op, v, first, x, p)
    BY <1>2, <1>3, <1>5, TermsFacts
  <2>2. x # Undefined /\ x # Null
    BY <1>2, <1>5, StorableFacts DEF Plain
  <2>3. CelLeaf(op, v, first, x) = CompareValues(op, x, v)
    BY <1>1, <1>2, <2>2, LeafComparison DEF Equalities
  <2>4. CelLeaf(op, v, first, x) = Bool(op = "ne")
    BY <1>1, <1>2, <2>2, <2>3, CompareFacts
  <2> QED BY <1>1, <2>1, <2>4, Constants DEF LeafOK
<1> QED BY <1>2, <1>4, <1>5 DEF Storable, IsCollection

\* An operand and a field that compare are scalars.
LEMMA ScalarLeaf ==
  ASSUME NEW f, NEW op \in ScalarOperators, NEW v, NEW first, NEW x, Leaf(f, op, v, first, x),
         NEW p \in BOOLEAN, ~LeafRefused(f, op, v, first, p), v # Null
  PROVE  /\ v \in Storable /\ v.t \in Plain /\ x \in Storable /\ f.type \in Plain
         /\ x = Undefined \/ (x = Null /\ Terms(x) = {}) \/ (x.t = f.type /\ Terms(x) = {x})
         /\ Terms(Undefined) = {}
<1>1. v \in Storable /\ v # Undefined /\ x \in Storable
  BY ContentsAreStorable DEF Leaf, FieldHolds
<1>2. ~IsCollection(v) /\ f.type # "undeclared"
  BY DEF LeafRefused, NonScalarOperand
<1>3. v.t \in Plain
  BY <1>1, <1>2, StorableFacts DEF Storable
<1>4. ~IsCollection(x)
  BY <1>1, Constants DEF Leaf, SuitsOperator, ScalarOperators, Comparisons, Equalities, Orderings,
                         IsCollection, Undefined, Null
<1>5. f.type \in Plain
  BY <1>2 DEF Leaf, Fields, AllDeclarations, Plain
<1>6. x = Undefined \/ x = Null \/ (x.t \in Plain /\ x.t = f.type)
  BY <1>2, <1>4 DEF Leaf, FieldHolds, IsCollection
<1>7. Terms(Undefined) = {} /\ Terms(Null) = {}
  BY DEF Terms, Undefined, Null
<1> QED BY <1>1, <1>3, <1>5, <1>6, <1>7, TermsFacts

LEMMA MismatchLeaf ==
  ASSUME NEW f, NEW op, NEW v, NEW first, NEW x, Leaf(f, op, v, first, x), NEW p \in BOOLEAN,
         ~LeafRefused(f, op, v, first, p), v # Null,
         TypeMismatch(f, NormalizeLeafOperator(op, first), v)
  PROVE  LeafOK(f, op, v, first, x, p)
<1> DEFINE n == NormalizeLeafOperator(op, first)
<1>1. op \in ScalarOperators /\ n \in ScalarOperators
      /\ (v.t # f.type \/ (n = "startsWith" /\ f.type # "str"))
  BY DEF TypeMismatch, NormalizeLeafOperator, ScalarOperators, Comparisons, Equalities, Orderings,
         Leaf, LeafOperators
<1>2. /\ v \in Storable /\ v.t \in Plain /\ x \in Storable /\ f.type \in Plain
      /\ x = Undefined \/ (x = Null /\ Terms(x) = {}) \/ (x.t = f.type /\ Terms(x) = {x})
      /\ Terms(Undefined) = {}
  BY <1>1, ScalarLeaf
<1>3. LeafMatches(f, op, v, first, x, p) <=> n \in Equalities /\ (n = "ne") = p /\ Terms(x) # {}
  BY DEF LeafMatches, Exists
<1>4. first \in BOOLEAN
  BY DEF Leaf
<1>5. CASE op \in Comparisons
  <2>1. /\ n \in Comparisons /\ (n \in Equalities => n = op) /\ v.t # f.type
        /\ x = Undefined => CelLeaf(op, v, first, x) = Err
        /\ x # Undefined => CelLeaf(op, v, first, x) = CompareValues(n, x, v)
    BY <1>1, <1>2, <1>4, <1>5, LeafComparison DEF Comparisons, Equalities, Orderings
  <2>2. x # v
    BY <1>2, <2>1, StorableFacts, Constants DEF Plain, Null, Undefined
  <2>3. x # Undefined => CelLeaf(op, v, first, x) = IF n \in Equalities THEN Bool(n = "ne") ELSE Err
    <3>1. x.t = v.t => x.t \notin Plain
      BY <1>2, <2>1 DEF Undefined, Null, Plain
    <3> QED BY <1>2, <2>1, <2>2, <3>1, CompareFacts DEF Equalities
  <2>4. CASE x = Undefined
    BY <1>2, <1>3, <2>1, <2>4, Constants DEF LeafOK
  <2>5. CASE x = Null
    <3>1. Indexed(f, x) => f.explicitNull
      BY <2>5 DEF Indexed
    <3>2. n \in Equalities => ~f.explicitNull
      BY <1>2, <2>1 DEF LeafRefused, ExplicitNullCompared, CarriesNull, Equalities, Plain
    <3> QED BY <1>2, <1>3, <2>3, <2>5, <3>1, <3>2, Constants DEF LeafOK
  <2>6. CASE x # Undefined /\ x # Null
    <3>1. LeafMatches(f, op, v, first, x, p) <=> n \in Equalities /\ (n = "ne") = p
      BY <1>2, <1>3, <2>6
    <3>2. (n = "ne") = p => Bool(n = "ne") = Bool(p)
      OBVIOUS
    <3> QED BY <2>3, <2>6, <3>1, <3>2, Constants DEF LeafOK
  <2> QED BY <2>4, <2>5, <2>6
<1>6. CASE op = "startsWith"
  <2>1. n = "startsWith" /\ first
    BY <1>4, <1>6 DEF NormalizeLeafOperator, LeafRefused
  <2>2. ~LeafMatches(f, op, v, first, x, p)
    BY <1>3, <2>1 DEF Equalities
  <2>3. ~(Attribute(x).t = "str" /\ v.t = "str")
    <3>1. Err.t # "str" /\ Null.t # "str" /\ Null # Undefined
      BY DEF Err, Null, Undefined
    <3> QED BY <1>1, <1>2, <2>1, <3>1 DEF Attribute
  <2>4. CelLeaf(op, v, first, x) = Err
    BY <1>6, <2>1, <2>3 DEF CelLeaf, CelOf, StringTest, Comparisons, Equalities, Orderings
  <2> QED BY <2>2, <2>4, Constants DEF LeafOK
<1> QED BY <1>1, <1>5, <1>6 DEF ScalarOperators

LEMMA EqualityLeaf ==
  ASSUME NEW f, NEW op \in Equalities, NEW v, NEW first, NEW x, Leaf(f, op, v, first, x),
         NEW p \in BOOLEAN, ~LeafRefused(f, op, v, first, p), v # Null, v.t = f.type
  PROVE  LeafOK(f, op, v, first, x, p)
<1>1. op \in ScalarOperators /\ op \in Comparisons /\ first \in BOOLEAN
  BY DEF ScalarOperators, Comparisons, Leaf
<1>2. /\ v \in Storable /\ v.t \in Plain /\ x \in Storable /\ f.type \in Plain
      /\ x = Undefined \/ (x = Null /\ Terms(x) = {}) \/ (x.t = f.type /\ Terms(x) = {x})
      /\ Terms(Undefined) = {}
  BY <1>1, ScalarLeaf
<1>3. NormalizeLeafOperator(op, first) = op
  BY <1>1, <1>2, LeafComparison
<1>4. ~TypeMismatch(f, op, v)
  BY DEF TypeMismatch, Equalities
<1>5. LeafMatches(f, op, v, first, x, p) <=>
        IF (op = "eq") = p THEN TermMatches(x, v) ELSE DefinedAndNot(x, TermMatches(x, v))
  BY <1>3, <1>4 DEF LeafMatches, Equalities, Orderings
<1>6. CASE x \in {Undefined, Null}
  <2>1. ~LeafMatches(f, op, v, first, x, p)
    BY <1>2, <1>5, <1>6, StorableFacts DEF TermMatches, DefinedAndNot, Exists, Plain, Null, Undefined
  <2>2. x = Undefined => CelLeaf(op, v, first, x) = Err
    BY <1>1, <1>2, LeafComparison
  <2>3. x = Null => ~Indexed(f, x)
    BY <1>2 DEF Indexed, LeafRefused, ExplicitNullCompared, CarriesNull, Equalities, Plain
  <2> QED BY <1>6, <2>1, <2>2, <2>3, Constants DEF LeafOK
<1>7. CASE x \notin {Undefined, Null}
  <2>1. Terms(x) = {x} /\ x.t = v.t
    BY <1>2, <1>7
  <2>2. TermMatches(x, v) <=> x = v
    BY <1>2, <2>1, StorableFacts DEF TermMatches
  <2>3. DefinedAndNot(x, TermMatches(x, v)) <=> x # v
    BY <2>1, <2>2 DEF DefinedAndNot, Exists
  <2>4. CelLeaf(op, v, first, x) = IF op = "eq" THEN Bool(x = v) ELSE Bool(x # v)
    BY <1>1, <1>2, <1>3, <1>7, LeafComparison, CompareFacts DEF Equalities
  <2>5. CASE x = v
    <3>1. CelLeaf(op, v, first, x) = Bool(op = "eq")
      BY <2>4, <2>5
    <3>2. LeafMatches(f, op, v, first, x, p) <=> (op = "eq") = p
      BY <1>5, <2>2, <2>3, <2>5
    <3> QED BY <3>1, <3>2, Constants DEF LeafOK
  <2>6. CASE x # v
    <3>1. CelLeaf(op, v, first, x) = Bool(op # "eq")
      BY <2>4, <2>6
    <3>2. LeafMatches(f, op, v, first, x, p) <=> (op = "eq") # p
      BY <1>5, <2>2, <2>3, <2>6
    <3> QED BY <3>1, <3>2, Constants DEF LeafOK
  <2> QED BY <2>5, <2>6
<1> QED BY <1>6, <1>7

LEMMA OrderingLeaf ==
  ASSUME NEW f, NEW op \in Orderings, NEW v, NEW first, NEW x, Leaf(f, op, v, first, x),
         NEW p \in BOOLEAN, ~LeafRefused(f, op, v, first, p), v # Null, v.t = f.type
  PROVE  LeafOK(f, op, v, first, x, p)
<1> DEFINE n == NormalizeLeafOperator(op, first)
<1>1. op \in ScalarOperators /\ op \in Comparisons /\ first \in BOOLEAN
  BY DEF ScalarOperators, Comparisons, Leaf
<1>2. /\ v \in Storable /\ v.t \in Plain /\ x \in Storable /\ f.type \in Plain
      /\ x = Undefined \/ (x = Null /\ Terms(x) = {}) \/ (x.t = f.type /\ Terms(x) = {x})
      /\ Terms(Undefined) = {}
  BY <1>1, ScalarLeaf
<1>3. n \in Orderings
  BY DEF NormalizeLeafOperator, Orderings
<1>4. ~TypeMismatch(f, n, v)
  BY <1>3 DEF TypeMismatch, Orderings
<1>5. LeafMatches(f, op, v, first, x, p) <=>
        RangeOrPrefixMatches(IF p THEN n ELSE NegatedRange(n), x, v)
  BY <1>3, <1>4 DEF LeafMatches, Equalities, Orderings
<1>6. /\ n \in Comparisons /\ n \notin Equalities
      /\ x = Undefined => CelLeaf(op, v, first, x) = Err
  BY <1>1, <1>2, <1>3, LeafComparison DEF Equalities, Orderings
<1>7. x # Undefined => CelLeaf(op, v, first, x) = CompareValues(n, x, v)
  BY <1>1, <1>2, LeafComparison
<1>8. CASE x \in {Undefined, Null}
  <2>1. ~LeafMatches(f, op, v, first, x, p)
    BY <1>2, <1>5, <1>8, StorableFacts DEF RangeOrPrefixMatches, Plain, Null, Undefined
  <2>2. x = Null => CelLeaf(op, v, first, x) = Err
    <3>1. Null # Undefined /\ Null \in Storable /\ Null.t \notin Plain
      BY Constants DEF Null, Plain
    <3> QED BY <1>2, <1>3, <1>6, <1>7, <3>1, CompareFacts DEF Orderings
  <2> QED BY <1>6, <1>8, <2>1, <2>2, Constants DEF LeafOK
<1>9. CASE x \notin {Undefined, Null}
  <2>1. Terms(x) = {x} /\ x.t = v.t /\ x.t \in Plain /\ x.v \in Int /\ v.v \in Int
    BY <1>2, <1>9, StorableFacts
  <2>2. CelLeaf(op, v, first, x) = Bool(Ordered(n, x.v, v.v))
    BY <1>2, <1>3, <1>6, <1>7, <1>9, <2>1, CompareFacts DEF Equalities
  <2>3. \A o \in Orderings : RangeOrPrefixMatches(o, x, v) <=> Ordered(o, x.v, v.v)
    BY <2>1 DEF RangeOrPrefixMatches, Orderings
  <2>4. NegatedRange(n) \in Orderings /\ (Ordered(NegatedRange(n), x.v, v.v) <=> ~Ordered(n, x.v, v.v))
    BY <1>3, <2>1 DEF NegatedRange, Ordered, Orderings
  <2>5. LeafMatches(f, op, v, first, x, p) <=> (Ordered(n, x.v, v.v) <=> p)
    BY <1>3, <1>5, <2>3, <2>4
  <2>6. CASE Ordered(n, x.v, v.v)
    BY <2>2, <2>5, <2>6, Constants DEF LeafOK, Bool
  <2>7. CASE ~Ordered(n, x.v, v.v)
    BY <2>2, <2>5, <2>7, Constants DEF LeafOK, Bool
  <2> QED BY <2>6, <2>7
<1> QED BY <1>8, <1>9

LEMMA PrefixLeaf ==
  ASSUME NEW f, NEW op, op = "startsWith", NEW v, NEW first, NEW x, Leaf(f, op, v, first, x),
         NEW p \in BOOLEAN, ~LeafRefused(f, op, v, first, p), v # Null,
         ~TypeMismatch(f, op, v)
  PROVE  LeafOK(f, op, v, first, x, p)
<1>1. op \in ScalarOperators
  BY DEF ScalarOperators
<1>2. first /\ NormalizeLeafOperator(op, first) = op
  BY DEF LeafRefused, NormalizeLeafOperator
<1>3. v.t = "str" /\ f.type = "str"
  BY <1>1 DEF TypeMismatch
<1>4. /\ v \in Storable /\ x \in Storable
      /\ x = Undefined \/ (x = Null /\ Terms(x) = {}) \/ (x.t = f.type /\ Terms(x) = {x})
      /\ Terms(Undefined) = {}
  BY <1>1, ScalarLeaf
<1>5. LeafMatches(f, op, v, first, x, p) <=>
        IF p THEN RangeOrPrefixMatches(op, x, v)
        ELSE DefinedAndNot(x, RangeOrPrefixMatches(op, x, v))
  BY <1>2 DEF LeafMatches, Equalities, Orderings
<1>6. CelLeaf(op, v, first, x) = StringTest(Attribute(x), v)
  BY <1>2 DEF CelLeaf, CelOf, Comparisons, Equalities, Orderings
<1>7. CASE x \in {Undefined, Null}
  <2>1. ~LeafMatches(f, op, v, first, x, p)
    <3>1. Terms(x) = {}
      BY <1>4, <1>7 DEF Terms, Null
    <3> QED BY <1>5, <3>1 DEF RangeOrPrefixMatches, DefinedAndNot, Exists
  <2>2. Attribute(x).t # "str"
    BY <1>7 DEF Attribute, Err, Null
  <2>3. CelLeaf(op, v, first, x) = Err
    BY <1>6, <2>2 DEF StringTest
  <2> QED BY <2>1, <2>3, Constants DEF LeafOK
<1>8. CASE x \notin {Undefined, Null}
  <2>1. Terms(x) = {x} /\ x.t = "str"
    BY <1>3, <1>4, <1>8
  <2>2. CelLeaf(op, v, first, x) = Bool(StartsWith(x, v))
    BY <1>3, <1>6, <1>8, <2>1 DEF StringTest, Attribute
  <2>3. RangeOrPrefixMatches(op, x, v) <=> StartsWith(x, v)
    BY <2>1 DEF RangeOrPrefixMatches
  <2>4. LeafMatches(f, op, v, first, x, p) <=> (StartsWith(x, v) <=> p)
    BY <1>5, <2>1, <2>3 DEF DefinedAndNot, Exists
  <2>5. CASE StartsWith(x, v)
    BY <2>2, <2>4, <2>5, Constants DEF LeafOK, Bool
  <2>6. CASE ~StartsWith(x, v)
    BY <2>2, <2>4, <2>6, Constants DEF LeafOK, Bool
  <2> QED BY <2>5, <2>6
<1> QED BY <1>7, <1>8

LEMMA MemberLeaf ==
  ASSUME NEW f, NEW op, NEW v, NEW first, NEW x, Leaf(f, op, v, first, x), op = "in", ~first,
         NEW p \in BOOLEAN, ~LeafRefused(f, op, v, first, p), v # Null
  PROVE  LeafOK(f, op, v, first, x, p)
<1>1. /\ p /\ f.type # "undeclared" /\ ~IsCollection(v)
      /\ v \in Storable /\ v # Undefined /\ x \in Storable
  BY ContentsAreStorable DEF Leaf, FieldHolds, LeafRefused, NonScalarOperand
<1>2. LeafMatches(f, op, v, first, x, p) <=> v.t = f.type /\ TermMatches(x, v)
  BY DEF LeafMatches, NormalizeLeafOperator, TypeMismatch, ScalarOperators, Comparisons,
         Equalities, Orderings
<1>3. CelLeaf(op, v, first, x) = In(v, Attribute(x))
  BY DEF CelLeaf, CelOf, Comparisons, Equalities, Orderings
<1>4. CASE x \in {Undefined, Null}
  <2>1. ~LeafMatches(f, op, v, first, x, p)
    BY <1>2, <1>4 DEF TermMatches, Terms, Undefined, Null
  <2>2. ~IsCollection(Attribute(x))
    BY <1>4 DEF Attribute, IsCollection, Err, Null
  <2>3. CelLeaf(op, v, first, x) = Err
    BY <1>3, <2>2 DEF In
  <2> QED BY <2>1, <2>3, Constants DEF LeafOK
<1>5. CASE x \notin {Undefined, Null}
  <2>1. IsCollection(x)
    BY <1>5 DEF Leaf, SuitsOperator, ScalarOperators, Comparisons, Equalities, Orderings
  <2>2. x.t = "list" /\ \A m \in Members[x] : m = Null \/ m.t = f.type
    BY <1>1, <1>5, <2>1 DEF Leaf, FieldHolds, IsCollection, Plain
  <2>3. x \in DOMAIN Members /\ Terms(x) = Members[x] \ {Null}
    BY <1>1, <2>2, StorableFacts, TermsFacts
  <2>4. \A m \in Members[x] : m \in Storable /\ (ValuesEqual(m, v) <=> m = v)
    BY <1>1, <2>3, ContentsAreStorable, EqualValues
  <2>5. CelLeaf(op, v, first, x) = Bool(v \in Members[x])
    <3>1. In(v, x) = Bool(\E m \in Members[x] : ValuesEqual(m, v))
      BY <1>1, <2>1, StorableFacts DEF In
    <3> QED BY <1>3, <1>5, <2>4, <3>1 DEF Attribute, Bool
  <2>6. v.t = f.type /\ TermMatches(x, v) <=> v \in Members[x]
    <3>1. \A m \in Members[x] : m.t = v.t /\ m.v = v.v <=> m = v
      BY <1>1, <2>4, StorableFacts
    <3>2. v \in Members[x] => v.t = f.type
      BY <2>2
    <3> QED BY <2>2, <2>3, <3>1, <3>2 DEF TermMatches
  <2> QED BY <1>1, <1>2, <2>5, <2>6, Constants DEF LeafOK, Bool
<1> QED BY <1>4, <1>5

\* The members of a list a field of a type may hold: those of the type.
LEMMA TypedTerms ==
  ASSUME NEW f, NEW v \in Storable, v.t = "list", NEW x \in Storable,
         \A held \in Terms(x) : held \in Storable /\ held.t = f.type
  PROVE  AnyTermMatches(x, TypedMembers(f, v)) <=> \E held \in Terms(x) : held \in Members[v]
<1>1. \A m \in Members[v] : m \in Storable
  BY ContentsAreStorable, StorableFacts
<1>2. \A held \in Terms(x), m \in Members[v] : held.t = m.t /\ held.v = m.v <=> held = m
  BY <1>1, StorableFacts
<1> QED BY <1>2 DEF AnyTermMatches, TypedMembers, TermMatches

LEMMA ListLeaf ==
  ASSUME NEW f, NEW op, NEW v, NEW first, NEW x, Leaf(f, op, v, first, x), op = "in", first,
         NEW p \in BOOLEAN, ~LeafRefused(f, op, v, first, p)
  PROVE  LeafOK(f, op, v, first, x, p)
<1>1. /\ f.type # "undeclared" /\ v.t = "list" /\ v # Null
      /\ v \in Storable /\ x \in Storable
  <2>1. v.t = "list" /\ v # Null
    BY DEF Leaf, LeafRefused, NonScalarOperand, IsCollection, Null
  <2> QED BY <2>1, ContentsAreStorable DEF Leaf, FieldHolds, LeafRefused
<1>2. v \in DOMAIN Members /\ \A m \in Members[v] : m \in Storable
  BY <1>1, StorableFacts, ContentsAreStorable
<1>3. LeafMatches(f, op, v, first, x, p) <=>
        IF p THEN AnyTermMatches(x, TypedMembers(f, v))
        ELSE DefinedAndNot(x, AnyTermMatches(x, TypedMembers(f, v)))
  BY <1>1 DEF LeafMatches, NormalizeLeafOperator, TypeMismatch, ScalarOperators, Comparisons,
         Equalities, Orderings
<1>4. CelLeaf(op, v, first, x) = In(Attribute(x), v)
  BY DEF CelLeaf, CelOf, Comparisons, Equalities, Orderings
<1>5. x # Undefined => CelLeaf(op, v, first, x) = Bool(x \in Members[v])
  <2>1. x # Undefined => In(x, v) = Bool(\E m \in Members[v] : ValuesEqual(m, x))
    BY <1>1, StorableFacts DEF In, IsCollection
  <2>2. \A m \in Members[v] : ValuesEqual(m, x) <=> m = x
    BY <1>1, <1>2, EqualValues
  <2> QED BY <1>4, <2>1, <2>2 DEF Attribute, Bool
<1>6. CASE x \in {Undefined, Null}
  <2>1. ~LeafMatches(f, op, v, first, x, p)
    <3>1. Terms(x) = {}
      BY <1>6 DEF Terms, Undefined, Null
    <3> QED BY <1>3, <3>1 DEF AnyTermMatches, TermMatches, DefinedAndNot, Exists
  <2>2. x = Undefined => CelLeaf(op, v, first, x) = Err
    BY <1>4 DEF In, Attribute
  <2>3. CASE x = Null
    <3>1. Indexed(f, x) => f.explicitNull
      BY <2>3 DEF Indexed
    <3>2. f.explicitNull => CarriesNull(v)
      BY DEF LeafRefused, ExplicitNullCompared
    <3>3. CarriesNull(v) => ~p /\ Null \in Members[v]
      BY <1>1 DEF LeafRefused, CarriesNull
    <3>4. Indexed(f, x) => CelLeaf(op, v, first, x) = True /\ Bool(p) = False
      BY <1>5, <2>3, <3>1, <3>2, <3>3, Constants DEF Bool
    <3> QED BY <2>1, <3>4, Constants DEF LeafOK
  <2> QED BY <1>6, <2>1, <2>2, <2>3, Constants DEF LeafOK
<1>7. CASE x \notin {Undefined, Null}
  <2>1. ~IsCollection(x)
    BY <1>7 DEF Leaf, SuitsOperator, ScalarOperators, Comparisons, Equalities, Orderings
  <2>2. x.t = f.type /\ x.t \in Plain
    BY <1>1, <1>7, <2>1 DEF Leaf, FieldHolds, IsCollection
  <2>3. Terms(x) = {x}
    BY <1>1, <2>2, TermsFacts
  <2>4. AnyTermMatches(x, TypedMembers(f, v)) <=> x \in Members[v]
    BY <1>1, <2>2, <2>3, TypedTerms
  <2>5. LeafMatches(f, op, v, first, x, p) <=> (x \in Members[v] <=> p)
    BY <1>3, <2>3, <2>4 DEF DefinedAndNot, Exists
  <2>6. CASE x \in Members[v]
    BY <1>5, <1>7, <2>5, <2>6, Constants DEF LeafOK, Bool
  <2>7. CASE x \notin Members[v]
    BY <1>5, <1>7, <2>5, <2>7, Constants DEF LeafOK, Bool
  <2> QED BY <2>6, <2>7
<1> QED BY <1>6, <1>7

LEMMA IntersectionLeaf ==
  ASSUME NEW f, NEW op, NEW v, NEW first, NEW x, Leaf(f, op, v, first, x),
         op = "hasIntersection", NEW p \in BOOLEAN, ~LeafRefused(f, op, v, first, p)
  PROVE  LeafOK(f, op, v, first, x, p)
<1>1. /\ p /\ f.type # "undeclared" /\ v.t = "list" /\ v # Null /\ Null \notin Members[v]
      /\ v \in Storable /\ x \in Storable /\ first \in BOOLEAN
  <2>1. v.t = "list" /\ v # Null
    BY DEF Leaf, Null
  <2> QED BY <2>1, ContentsAreStorable DEF Leaf, FieldHolds, LeafRefused, CarriesNull
<1>2. v \in DOMAIN Members /\ \A m \in Members[v] : m \in Storable
  BY <1>1, StorableFacts, ContentsAreStorable
<1>3. LeafMatches(f, op, v, first, x, p) <=> AnyTermMatches(x, TypedMembers(f, v))
  BY <1>1 DEF LeafMatches, NormalizeLeafOperator, TypeMismatch, ScalarOperators, Comparisons,
         Equalities, Orderings
<1>4. CelLeaf(op, v, first, x) =
        IF first THEN Intersects(Attribute(x), v) ELSE Intersects(v, Attribute(x))
  BY DEF CelLeaf, CelOf, Comparisons, Equalities, Orderings
<1>5. CASE x \in {Undefined, Null}
  <2>1. Terms(x) = {} /\ Attribute(x).t # "list"
    BY <1>5 DEF Terms, Attribute, Undefined, Null, Err
  <2>2. ~LeafMatches(f, op, v, first, x, p)
    BY <1>3, <2>1 DEF AnyTermMatches, TermMatches
  <2>3. CelLeaf(op, v, first, x) = Err
    BY <1>4, <2>1 DEF Intersects
  <2> QED BY <2>2, <2>3, Constants DEF LeafOK
<1>6. CASE x \notin {Undefined, Null}
  <2>1. x.t = "list" /\ \A m \in Members[x] : m = Null \/ m.t = f.type
    <3>1. x.t = "list"
      BY <1>1, <1>6 DEF Leaf, SuitsOperator, ScalarOperators, Comparisons, Equalities, Orderings
    <3> QED BY <1>1, <1>6, <3>1 DEF Leaf, FieldHolds, Plain
  <2>2. x \in DOMAIN Members /\ Terms(x) = Members[x] \ {Null}
    BY <1>1, <2>1, StorableFacts, TermsFacts
  <2>3. \A m \in Members[x] : m \in Storable
    BY <2>2, ContentsAreStorable
  <2>4. AnyTermMatches(x, TypedMembers(f, v)) <=> \E m \in Members[x] : m \in Members[v]
    BY <1>1, <2>1, <2>2, <2>3, TypedTerms
  <2>5. \A m \in Members[x], n \in Members[v] :
          (ValuesEqual(m, n) <=> m = n) /\ (ValuesEqual(n, m) <=> m = n)
    BY <1>2, <2>3, EqualValues
  <2>6. /\ Intersects(x, v) = Bool(\E m \in Members[x] : m \in Members[v])
        /\ Intersects(v, x) = Bool(\E m \in Members[x] : m \in Members[v])
    BY <1>1, <2>1, <2>5 DEF Intersects, Bool
  <2>7. CelLeaf(op, v, first, x) = Bool(\E m \in Members[x] : m \in Members[v])
    BY <1>1, <1>4, <1>6, <2>6 DEF Attribute
  <2> QED BY <1>1, <1>3, <2>4, <2>7, Constants DEF LeafOK, Bool
<1> QED BY <1>5, <1>6

\* The clause of every leaf is right.
LEMMA LeafIsRight ==
  ASSUME NEW f, NEW op, NEW v, NEW first, NEW x, Leaf(f, op, v, first, x), NEW p \in BOOLEAN,
         ~LeafRefused(f, op, v, first, p)
  PROVE  LeafOK(f, op, v, first, x, p)
<1>1. op \in LeafOperators /\ first \in BOOLEAN
  BY DEF Leaf
<1>2. CASE v = Null
  BY <1>2, NullLeaf
<1>3. CASE v # Null /\ TypeMismatch(f, NormalizeLeafOperator(op, first), v)
  BY <1>3, MismatchLeaf
<1>4. CASE v # Null /\ ~TypeMismatch(f, NormalizeLeafOperator(op, first), v)
  <2>1. op \in ScalarOperators => v.t = f.type
    BY <1>4 DEF TypeMismatch, NormalizeLeafOperator, ScalarOperators, Comparisons, Equalities,
                Orderings
  <2>2. CASE op \in Equalities
    BY <1>4, <2>1, <2>2, EqualityLeaf DEF ScalarOperators, Comparisons
  <2>3. CASE op \in Orderings
    BY <1>4, <2>1, <2>3, OrderingLeaf DEF ScalarOperators, Comparisons
  <2>4. CASE op = "startsWith"
    BY <1>4, <2>4, PrefixLeaf DEF NormalizeLeafOperator
  <2>5. CASE op = "in"
    BY <1>1, <1>4, <2>5, MemberLeaf, ListLeaf
  <2>6. CASE op = "hasIntersection"
    BY <2>6, IntersectionLeaf
  <2> QED BY <1>1, <2>2, <2>3, <2>4, <2>5, <2>6 DEF LeafOperators, ScalarOperators, Comparisons
<1> QED BY <1>2, <1>3, <1>4

-----------------------------------------------------------------------------
(* The conditions *)

Scope == {"root"} \union Attributes

ConditionsOf(s) ==
  [scope : {s}, val : [Documents(s) -> CelValue], refused : [BOOLEAN -> BOOLEAN],
   match : [BOOLEAN -> SUBSET Documents(s)]]

\* Both clauses of a condition are right: what they match is proven, and what they miss is lost. A
\* plan that uses an array as a scalar, or a scalar as an array, is promised nothing.
Right(c) ==
  ~MisusedShapes => \A p \in BOOLEAN, d \in Documents(c.scope) :
    /\ d \in c.match[p] => c.val[d] = Bool(p)
    /\ ~HoldsNull /\ ~c.refused[p] /\ c.val[d] = Bool(p) => d \in c.match[p]

Good == {c \in UNION {ConditionsOf(s) : s \in Scope} : Right(c)}

\* The document is as the caller declares it.
Declared ==
  /\ doc \in [Attributes -> DocValues] /\ options \in [Attributes -> Declarations]
  /\ \A a \in Attributes : HoldsWhatIsDeclared(a)

LEMMA GoodFacts ==
  ASSUME NEW c \in Good
  PROVE  /\ c.scope \in Scope /\ c \in ConditionsOf(c.scope) /\ WellTyped(c) /\ Right(c)
         /\ \A d \in Documents(c.scope) : c.val[d] \in CelValue
<1>1. PICK s \in Scope : c \in ConditionsOf(s)
  BY DEF Good
<1>2. c.scope = s
  BY <1>1 DEF ConditionsOf
<1> QED BY <1>1, <1>2 DEF Good, ConditionsOf, WellTyped, Scope

LEMMA MakeGood ==
  ASSUME NEW s \in Scope, NEW val \in [Documents(s) -> CelValue], NEW refused \in [BOOLEAN -> BOOLEAN],
         NEW match \in [BOOLEAN -> SUBSET Documents(s)],
         ~MisusedShapes => \A p \in BOOLEAN, d \in Documents(s) :
           /\ d \in match[p] => val[d] = Bool(p)
           /\ ~HoldsNull /\ ~refused[p] /\ val[d] = Bool(p) => d \in match[p]
  PROVE  [scope |-> s, val |-> val, refused |-> refused, match |-> match] \in Good
<1> DEFINE c == [scope |-> s, val |-> val, refused |-> refused, match |-> match]
<1>1. c \in ConditionsOf(s)
  BY DEF ConditionsOf
<1>2. Right(c)
  BY DEF Right
<1> QED BY <1>1, <1>2 DEF Good

\* The elements of a nested array are read by lambdas over it alone.
LEMMA ScopeFacts ==
  ASSUME NEW a \in Attributes
  PROVE  /\ a # "root" /\ a \in Scope /\ "root" \in Scope
         /\ Documents("root") = {TheDocument} /\ Documents(a) = Elements(a)
         /\ \A d : Held("root", a, d) = doc[a] /\ Held(a, a, d) = d
BY AttributesAssumption DEF Scope, Documents, Held

\* A field holds what its declaration says, in the root scope and in that of a lambda.
LEMMA HeldFacts ==
  ASSUME Declared, NEW a \in Attributes, NEW scope \in {"root", a}, NEW d \in Documents(scope)
  PROVE  LET f == Field(scope, a)  x == Held(scope, a, d) IN
         /\ f \in Fields /\ FieldHolds(f, x) /\ x \in Storable
         /\ ~HoldsNull => Indexed(f, x)
<1> DEFINE o == options[a]
<1>1. o \in AllDeclarations /\ doc[a] \in Storable
  BY OptionsAssumption, ContentsAreStorable DEF Declared
<1>2. HoldsWhatIsDeclared(a)
  BY DEF Declared
<1>3. CASE scope = "root"
  <2>1. /\ Held(scope, a, d) = doc[a]
        /\ Field(scope, a) = [o EXCEPT !.type = IF o.shape \in {"nested", "object"} THEN "undeclared" ELSE @]
    BY <1>3 DEF Held, Field
  <2>2. Field(scope, a) \in Fields /\ Field(scope, a).explicitNull = o.explicitNull
        /\ Field(scope, a).type = IF o.shape \in {"nested", "object"} THEN "undeclared" ELSE o.type
    BY <1>1, <2>1 DEF Fields, AllDeclarations
  <2>3. FieldHolds(Field(scope, a), doc[a])
    BY <1>1, <1>2, <2>2 DEF FieldHolds, HoldsWhatIsDeclared, Plain
  <2>4. doc[a] = Null => o.explicitNull
    <3>1. Null \notin DOMAIN Objects /\ Null.t = "null" /\ Null # Undefined
      BY ObjectsAssumption DEF Null, Undefined
    <3> QED BY <1>2, <3>1 DEF HoldsWhatIsDeclared
  <2>5. ~HoldsNull => (doc[a].t = "list" => Null \notin Members[doc[a]])
    BY DEF HoldsNull
  <2> QED BY <1>1, <2>1, <2>2, <2>3, <2>4, <2>5 DEF Indexed
<1>4. CASE scope = a
  <2>1. Held(scope, a, d) = d /\ d \in Elements(a) /\ scope # "root"
    BY <1>4, ScopeFacts
  <2>2. doc[a] \in DOMAIN Objects /\ d \in Objects[doc[a]]
    BY <2>1 DEF Elements
  <2>3. doc[a].t = "list" /\ doc[a] # Undefined /\ doc[a] # Null
    BY <2>2, ObjectsAssumption DEF Undefined, Null
  <2>4. d \in {Undefined, Null} \/ o.type = "undeclared" \/ d.t = o.type
    BY <1>2, <2>2, <2>3 DEF HoldsWhatIsDeclared
  <2>5. d \in Storable /\ ~IsCollection(d)
    BY <2>2, ContentsAreStorable
  <2>6. Field(scope, a) = [mapped |-> TRUE, type |-> o.type, shape |-> "plain", explicitNull |-> FALSE]
    BY <2>1 DEF Field
  <2>7. Field(scope, a) \in Fields /\ Field(scope, a).type = o.type
    BY <1>1, <2>6 DEF Fields, AllDeclarations
  <2>8. o.type # "undeclared" => o.type \in Plain
    BY <1>1 DEF AllDeclarations, Plain
  <2>9. FieldHolds(Field(scope, a), d)
    BY <2>4, <2>5, <2>7, <2>8 DEF FieldHolds
  <2>10. ~HoldsNull => d # Null
    BY <2>1 DEF HoldsNull
  <2>11. d.t # "list"
    BY <2>5 DEF IsCollection
  <2> QED BY <2>1, <2>5, <2>7, <2>9, <2>10, <2>11 DEF Indexed
<1> QED BY <1>3, <1>4

\* What CEL says of a leaf is one of its outcomes.
LEMMA CelTypes ==
  /\ \A op \in Comparisons : \A x, y : CompareValues(op, x, y) \in CelValue
  /\ \A op \in LeafOperators : \A x, y : CelOf(op, x, y) \in CelValue
  /\ \A x \in Storable : Attribute(x) \in CelValue
  /\ \A b : Bool(b) \in CelValue
<1>1. \A b : Bool(b) \in CelValue
  BY Constants DEF Bool
<1>2. \A op \in Comparisons : \A x, y : CompareValues(op, x, y) \in CelValue
  BY <1>1, Constants DEF CompareValues
<1>3. \A x, y : In(x, y) \in CelValue /\ StringTest(x, y) \in CelValue /\ Intersects(x, y) \in CelValue
  BY <1>1, Constants DEF In, StringTest, Intersects
<1>4. \A op \in LeafOperators : \A x, y : CelOf(op, x, y) \in CelValue
  BY <1>2, <1>3 DEF CelOf, LeafOperators, ScalarOperators, Comparisons, Equalities, Orderings
<1>5. \A x \in Storable : Attribute(x) \in CelValue
  BY StorableFacts, Constants DEF Attribute
<1> QED BY <1>1, <1>2, <1>4, <1>5

LEMMA LeafGood ==
  ASSUME Declared, NEW a \in Attributes, NEW scope \in {"root", a}, NEW op \in LeafOperators,
         NEW v \in Literals, NEW first \in BOOLEAN,
         op = "in" /\ first => IsCollection(v), op = "hasIntersection" => v.t = "list",
         MisusedShapes \/ \A d \in Documents(scope) : SuitsOperator(op, first, Held(scope, a, d))
  PROVE  LeafCondition(scope, a, op, v, first) \in Good
<1> DEFINE f == Field(scope, a)
           val == [d \in Documents(scope) |-> CelLeaf(op, v, first, Held(scope, a, d))]
           refused == [p \in BOOLEAN |-> LeafRefused(f, op, v, first, p)]
           match == [p \in BOOLEAN |-> {d \in Documents(scope) :
                       ~LeafRefused(f, op, v, first, p)
                         /\ LeafMatches(f, op, v, first, Held(scope, a, d), p)}]
<1>1. LeafCondition(scope, a, op, v, first) =
        [scope |-> scope, val |-> val, refused |-> refused, match |-> match]
  BY DEF LeafCondition, Condition, CelLeaf
<1>2. val \in [Documents(scope) -> CelValue]
  BY CelTypes DEF CelLeaf
<1>3. refused \in [BOOLEAN -> BOOLEAN]
  BY DEF LeafRefused
<1>4. match \in [BOOLEAN -> SUBSET Documents(scope)]
  OBVIOUS
<1>5. ASSUME ~MisusedShapes, NEW p \in BOOLEAN, NEW d \in Documents(scope)
      PROVE  /\ d \in match[p] => val[d] = Bool(p)
             /\ ~HoldsNull /\ ~refused[p] /\ val[d] = Bool(p) => d \in match[p]
  <2>1. /\ f \in Fields /\ FieldHolds(f, Held(scope, a, d))
        /\ ~HoldsNull => Indexed(f, Held(scope, a, d))
    BY HeldFacts
  <2>2. Leaf(f, op, v, first, Held(scope, a, d))
    BY <1>5, <2>1 DEF Leaf
  <2>3. ~LeafRefused(f, op, v, first, p) => LeafOK(f, op, v, first, Held(scope, a, d), p)
    BY <2>2, LeafIsRight
  <2> QED BY <2>1, <2>3 DEF LeafOK
<1>6. scope \in Scope
  BY DEF Scope
<1> HIDE DEF val, refused, match
<1> QED BY <1>1, <1>2, <1>3, <1>4, <1>5, <1>6, MakeGood

\* A bare variable is read as the boolean it holds.
LEMMA VariableGood ==
  ASSUME Declared, NEW a \in Attributes, NEW scope \in {"root", a},
         \A d \in Documents(scope) : Held(scope, a, d).t \in {"undefined", "null", "bool"}
  PROVE  VariableCondition(scope, a) \in Good
<1> DEFINE refuses == ~Field(scope, a).mapped
           val == [d \in Documents(scope) |-> Attribute(Held(scope, a, d))]
           refused == [p \in BOOLEAN |-> refuses]
           match == [p \in BOOLEAN |-> {d \in Documents(scope) :
                       ~refuses /\ TermMatches(Held(scope, a, d), Bool(p))}]
<1>1. VariableCondition(scope, a) = [scope |-> scope, val |-> val, refused |-> refused, match |-> match]
  BY DEF VariableCondition, Condition
<1>2. val \in [Documents(scope) -> CelValue]
  BY HeldFacts, CelTypes
<1>3. refused \in [BOOLEAN -> BOOLEAN] /\ match \in [BOOLEAN -> SUBSET Documents(scope)]
  OBVIOUS
<1>4. ASSUME NEW p \in BOOLEAN, NEW d \in Documents(scope)
      PROVE  /\ d \in match[p] => val[d] = Bool(p)
             /\ ~HoldsNull /\ ~refused[p] /\ val[d] = Bool(p) => d \in match[p]
  <2> DEFINE x == Held(scope, a, d)
  <2>1. x \in Storable /\ Bool(p) \in Storable /\ Bool(p).t = "bool"
    <3>1. True \in Storable /\ False \in Storable /\ True.t = "bool" /\ False.t = "bool"
      BY DEF True, False, Storable, Value, WellFormed, Types, Scalars, Plain
    <3>2. Bool(p) = True \/ Bool(p) = False
      BY DEF Bool
    <3>3. x \in Storable
      BY HeldFacts
    <3> QED BY <3>1, <3>2, <3>3
  <2>2. CASE x.t = "bool"
    <3>1. Terms(x) = {x} /\ x # Undefined /\ (x.v = Bool(p).v <=> x = Bool(p))
      BY <2>1, <2>2, TermsFacts, StorableFacts DEF Plain, Undefined
    <3> QED BY <3>1 DEF TermMatches, Attribute
  <2>3. CASE x.t # "bool"
    <3>1. x = Undefined \/ x = Null
      BY <2>1, <2>3, StorableFacts
    <3>2. ~TermMatches(x, Bool(p))
      BY <2>1, <3>1, TermsFacts DEF TermMatches, Undefined, Null
    <3>3. d \notin match[p]
      BY <3>2
    <3>4. val[d] = Null \/ val[d] = Err
      BY <3>1, Constants DEF Attribute
    <3>5. Bool(p) # Null /\ Bool(p) # Err
      BY Constants DEF Bool, Null, True, False, Err
    <3> QED BY <3>3, <3>4, <3>5
  <2> QED BY <2>2, <2>3
<1>5. scope \in Scope
  BY DEF Scope
<1> HIDE DEF val, refused, match
<1> QED BY <1>1, <1>2, <1>3, <1>4, <1>5, MakeGood

\* The keys of a lookup that decide are the ones whose value decides.
LEMMA LookedUpFacts ==
  ASSUME NEW lookup \in Lookups, NEW op \in Equalities, NEW v \in Storable, ~IsCollection(v),
         NEW h \in Storable, ~IsCollection(h)
  PROVE  /\ \A k \in DOMAIN lookup :
              /\ k \in Storable /\ k # Null /\ k.t \in Plain
              /\ ValuesEqual(lookup[k], v) <=> lookup[k] = v
         /\ h \in {Undefined, Null} \/ h \notin DOMAIN lookup =>
              LookedUp(lookup, Attribute(h), op, v) = Err
         /\ h \in DOMAIN lookup =>
              LookedUp(lookup, Attribute(h), op, v) = Bool((lookup[h] = v) <=> (op = "eq"))
<1>1. \A k \in DOMAIN lookup : k \in Storable /\ lookup[k] \in Storable /\ k # Null /\ k.t \in Plain
  <2>1. \A k \in DOMAIN lookup :
          /\ k \in Value /\ lookup[k] \in Value /\ k # Null
          /\ k.t \in {"null"} \union Plain /\ lookup[k].t \in {"null"} \union Plain
    BY LookupsAssumption DEF Plain
  <2> QED BY <2>1, StorableFacts DEF Storable
<1>2. \A k \in DOMAIN lookup : ValuesEqual(lookup[k], v) <=> lookup[k] = v
  BY <1>1, EqualValues
<1>3. \A k \in DOMAIN lookup : ~ValuesEqual(k, Err)
  BY <1>1, StorableFacts DEF ValuesEqual, IsNumeric, Err, Plain
<1>4. \A k \in DOMAIN lookup : ValuesEqual(k, h) <=> k = h
  BY <1>1, EqualValues
<1>5. h \in {Undefined, Null} \/ h \notin DOMAIN lookup => LookedUp(lookup, Attribute(h), op, v) = Err
  BY <1>1, <1>3, <1>4 DEF LookedUp, Attribute
<1>6. ASSUME h \in DOMAIN lookup
      PROVE  LookedUp(lookup, Attribute(h), op, v) = Bool((lookup[h] = v) <=> (op = "eq"))
  <2>1. Attribute(h) = h
    BY <1>1, <1>6 DEF Attribute, Undefined, Plain
  <2>2. (CHOOSE k \in DOMAIN lookup : ValuesEqual(k, h)) = h
    BY <1>4, <1>6
  <2>3. LookedUp(lookup, Attribute(h), op, v) = CompareValues(op, lookup[h], v)
    BY <1>4, <1>6, <2>1, <2>2 DEF LookedUp
  <2>4. CompareValues(op, lookup[h], v) =
          IF op = "eq" THEN Bool(lookup[h] = v) ELSE Bool(lookup[h] # v)
    BY <1>1, <1>6, CompareFacts DEF Comparisons, Equalities
  <2>5. CASE op = "eq"
    BY <2>3, <2>4, <2>5 DEF Bool
  <2>6. CASE op # "eq"
    BY <2>3, <2>4, <2>6 DEF Bool
  <2> QED BY <2>5, <2>6
<1> QED BY <1>1, <1>2, <1>5, <1>6

LEMMA LookupGood ==
  ASSUME Declared, NEW a \in Attributes, NEW scope \in {"root", a}, NEW lookup \in Lookups,
         NEW op \in Comparisons, NEW v \in Literals,
         MisusedShapes \/ \A d \in Documents(scope) : SuitsOperator("eq", TRUE, Held(scope, a, d))
  PROVE  LookupCondition(scope, a, lookup, op, v) \in Good
<1> DEFINE f == Field(scope, a)
           Keys(p) == {k \in DOMAIN lookup :
                         k.t = f.type /\ ValuesEqual(lookup[k], v) = ((op = "eq") = p)}
           refuses == ~f.mapped \/ op \notin Equalities \/ IsCollection(v) \/ f.type = "undeclared"
           val == [d \in Documents(scope) |-> LookedUp(lookup, Attribute(Held(scope, a, d)), op, v)]
           refused == [p \in BOOLEAN |-> refuses]
           match == [p \in BOOLEAN |-> {d \in Documents(scope) :
                       ~refuses /\ AnyTermMatches(Held(scope, a, d), Keys(p))}]
<1>1. LookupCondition(scope, a, lookup, op, v) =
        [scope |-> scope, val |-> val, refused |-> refused, match |-> match]
  BY DEF LookupCondition, Condition
<1>2. val \in [Documents(scope) -> CelValue]
  BY CelTypes, Constants DEF LookedUp
<1>3. refused \in [BOOLEAN -> BOOLEAN] /\ match \in [BOOLEAN -> SUBSET Documents(scope)]
  OBVIOUS
<1>4. ASSUME ~MisusedShapes, NEW p \in BOOLEAN, NEW d \in Documents(scope)
      PROVE  /\ d \in match[p] => val[d] = Bool(p)
             /\ ~HoldsNull /\ ~refused[p] /\ val[d] = Bool(p) => d \in match[p]
  <2> DEFINE h == Held(scope, a, d)
  <2> SUFFICES ASSUME ~refuses
               PROVE  AnyTermMatches(h, Keys(p)) <=> val[d] = Bool(p)
    OBVIOUS
  <2>1. h \in Storable /\ FieldHolds(f, h) /\ f.type # "undeclared" /\ op \in Equalities
    BY HeldFacts
  <2>2. ~IsCollection(h)
    BY <1>4, <2>1, Constants DEF SuitsOperator, ScalarOperators, Comparisons, Equalities, IsCollection,
           Undefined, Null
  <2>3. v \in Storable /\ ~IsCollection(v)
    BY ContentsAreStorable
  <2>4. /\ \A k \in DOMAIN lookup :
              /\ k \in Storable /\ k # Null /\ k.t \in Plain
              /\ ValuesEqual(lookup[k], v) <=> lookup[k] = v
        /\ h \in {Undefined, Null} \/ h \notin DOMAIN lookup => val[d] = Err
        /\ h \in DOMAIN lookup => val[d] = Bool((lookup[h] = v) <=> (op = "eq"))
    BY <2>1, <2>2, <2>3, LookedUpFacts
  <2>5. CASE h \in {Undefined, Null}
    <3>1. Terms(h) = {}
      BY <2>1, <2>5, TermsFacts DEF Undefined, Null
    <3> QED BY <2>4, <2>5, <3>1, Constants DEF AnyTermMatches, TermMatches
  <2>6. CASE h \notin {Undefined, Null}
    <3>1. h.t = f.type /\ Terms(h) = {h}
      BY <2>1, <2>2, <2>6, TermsFacts DEF FieldHolds, IsCollection
    <3>2. \A k \in Keys(p) : TermMatches(h, k) <=> k = h
      BY <2>1, <2>4, <3>1, StorableFacts DEF TermMatches
    <3>3. AnyTermMatches(h, Keys(p)) <=> h \in Keys(p)
      BY <3>2 DEF AnyTermMatches
    <3>4. h \in Keys(p) <=> h \in DOMAIN lookup /\ ((lookup[h] = v) = ((op = "eq") = p))
      <4>1. \A k \in DOMAIN lookup : ValuesEqual(lookup[k], v) \in BOOLEAN
        BY DEF ValuesEqual
      <4>2. \A k \in DOMAIN lookup : ValuesEqual(lookup[k], v) = (lookup[k] = v)
        BY <2>4, <4>1
      <4> QED BY <3>1, <4>2
    <3>5. CASE h \in DOMAIN lookup
      <4>1. (lookup[h] = v) = ((op = "eq") = p) <=> ((lookup[h] = v) <=> (op = "eq")) = p
        OBVIOUS
      <4> DEFINE same == (lookup[h] = v) <=> (op = "eq")
      <4>2. val[d] = Bool(same) /\ same \in BOOLEAN
        BY <2>4, <3>5
      <4>3. AnyTermMatches(h, Keys(p)) <=> (same = p)
        BY <3>3, <3>4, <3>5, <4>1
      <4> HIDE DEF same, val
      <4> QED BY <4>2, <4>3, Constants
    <3>6. CASE h \notin DOMAIN lookup
      BY <2>4, <3>3, <3>4, <3>6, Constants
    <3> QED BY <3>5, <3>6
  <2> QED BY <2>5, <2>6
<1>5. scope \in Scope
  BY DEF Scope
<1> HIDE DEF val, refused, match
<1> QED BY <1>1, <1>2, <1>3, <1>4, <1>5, MakeGood

\* How many elements an array that fits its declaration has: the presence query tells none from some.
LEMMA SizeFacts ==
  ASSUME Declared, NEW a \in Attributes, options[a].shape \in {"nested", "collection"}
  PROVE  \/ SizeOf(Attribute(doc[a])) = Err /\ ~CollectionPresent(a)
         \/ \E n \in Nat :
              /\ SizeOf(Attribute(doc[a])) = [t |-> "num", v |-> n]
              /\ CollectionPresent(a) => n > 0
              /\ ~HoldsNull /\ n > 0 => CollectionPresent(a)
<1> DEFINE x == doc[a]
<1>1. x \in Storable /\ HoldsWhatIsDeclared(a)
  BY ContentsAreStorable DEF Declared
<1>2. Undefined \notin DOMAIN Objects /\ Null \notin DOMAIN Objects /\ Err \notin DOMAIN Objects
  BY ObjectsAssumption DEF Undefined, Null, Err
<1>3. SizeOf(Err) = Err /\ SizeOf(Null) = Err
  BY <1>2 DEF SizeOf, Err, Null, IsCollection
<1>4. CASE x \in {Undefined, Null}
  <2>1. SizeOf(Attribute(x)) = Err
    BY <1>3, <1>4, Constants DEF Attribute
  <2>2. Elements(a) = {}
    BY <1>2, <1>4 DEF Elements
  <2>3. ~Exists(x)
    BY <1>4 DEF Exists, Terms, Undefined, Null
  <2> QED BY <2>1, <2>2, <2>3 DEF CollectionPresent
<1>5. CASE options[a].shape = "nested" /\ x \in DOMAIN Objects
  <2>1. Attribute(x) = x /\ IsFiniteSet(Objects[x]) /\ x.t = "list"
    BY <1>2, <1>5, ObjectsAssumption DEF Attribute
  <2>2. SizeOf(x) = [t |-> "num", v |-> Cardinality(Objects[x])]
    BY <1>5, <2>1 DEF SizeOf
  <2>3. Cardinality(Objects[x]) \in Nat /\ (Cardinality(Objects[x]) = 0 <=> Objects[x] = {})
    BY <2>1, FS_CardinalityType, FS_EmptySet
  <2>4. CollectionPresent(a) <=> Objects[x] # {}
    BY <1>5 DEF CollectionPresent, Elements
  <2> QED BY <2>1, <2>2, <2>3, <2>4
<1>6. CASE options[a].shape = "collection" /\ x.t = "list" /\ x \notin DOMAIN Objects
  <2>1. Attribute(x) = x /\ x \in DOMAIN Members
    BY <1>1, <1>6, StorableFacts DEF Attribute, Undefined
  <2>2. IsFiniteSet(Members[x])
    BY <2>1, MembersAssumption
  <2>3. SizeOf(x) = [t |-> "num", v |-> Cardinality(Members[x])]
    BY <1>6, <2>1 DEF SizeOf, IsCollection
  <2>4. Cardinality(Members[x]) \in Nat /\ (Cardinality(Members[x]) = 0 <=> Members[x] = {})
    BY <2>2, FS_CardinalityType, FS_EmptySet
  <2>5. CollectionPresent(a) <=> Members[x] \ {Null} # {}
    BY <1>1, <1>6, TermsFacts DEF CollectionPresent, Exists
  <2>6. ~HoldsNull => Null \notin Members[x]
    BY <1>6 DEF HoldsNull
  <2> QED BY <2>1, <2>3, <2>4, <2>5, <2>6
<1> QED BY <1>1, <1>4, <1>5, <1>6 DEF HoldsWhatIsDeclared

LEMMA SizeGood ==
  ASSUME Declared, NEW a \in Attributes, NEW op \in Comparisons, NEW n \in 0 .. 2,
         NEW first \in BOOLEAN
  PROVE  SizeCondition(a, op, n, first) \in Good
<1> DEFINE norm == NormalizeLeafOperator(op, first)
           count == [t |-> "num", v |-> n]
           size == SizeOf(Attribute(doc[a]))
           Refuses(p) ==
             \/ ~options[a].mapped \/ options[a].shape \notin {"nested", "collection"}
             \/ <<norm, n>> \notin IF p THEN NonEmptyTests ELSE EmptyTests
           result == IF first THEN CompareValues(op, size, count) ELSE CompareValues(op, count, size)
           val == [d \in Documents("root") |-> result]
           refused == [p \in BOOLEAN |-> Refuses(p)]
           match == [p \in BOOLEAN |-> {d \in Documents("root") : ~Refuses(p) /\ CollectionPresent(a)}]
<1>1. SizeCondition(a, op, n, first) =
        [scope |-> "root", val |-> val, refused |-> refused, match |-> match]
  BY DEF SizeCondition, Condition
<1>2. val \in [Documents("root") -> CelValue]
  BY CelTypes
<1>3. refused \in [BOOLEAN -> BOOLEAN] /\ match \in [BOOLEAN -> SUBSET Documents("root")]
  BY OptionsAssumption DEF Declared, AllDeclarations
<1>4. ASSUME NEW p \in BOOLEAN, ~Refuses(p)
      PROVE  /\ CollectionPresent(a) => result = Bool(p)
             /\ ~HoldsNull /\ result = Bool(p) => CollectionPresent(a)
  <2>1. options[a].shape \in {"nested", "collection"}
    BY <1>4
  <2>2. count \in Storable
    BY DEF Storable, Plain, Value, WellFormed, Types, Scalars
  <2>3. CASE size = Err /\ ~CollectionPresent(a)
    <3>1. result = Err
      BY <2>3, CompareErr
    <3> QED BY <2>3, <3>1, Constants DEF Bool
  <2>4. ASSUME NEW m \in Nat, size = [t |-> "num", v |-> m],
               CollectionPresent(a) => m > 0, ~HoldsNull /\ m > 0 => CollectionPresent(a)
        PROVE  /\ CollectionPresent(a) => result = Bool(p)
               /\ ~HoldsNull /\ result = Bool(p) => CollectionPresent(a)
    <3>1. size \in Storable /\ size # Undefined /\ Attribute(size) = size
      BY <2>4 DEF Storable, Plain, Value, WellFormed, Types, Scalars, Undefined, Attribute
    <3>2. CelLeaf(op, count, first, size) = CompareValues(norm, size, count) /\ norm \in Comparisons
      BY <2>2, <3>1, LeafComparison
    <3>3. CelLeaf(op, count, first, size) = result
      BY <3>1 DEF CelLeaf, CelOf, Comparisons, Equalities, Orderings
    <3>4. CompareValues(norm, size, count) =
            IF norm = "eq" THEN Bool(m = n) ELSE IF norm = "ne" THEN Bool(m # n)
            ELSE Bool(Ordered(norm, m, n))
      <4>1. size = count <=> m = n
        BY <2>4
      <4>2. size.t = "num" /\ count.t = "num" /\ size.v = m /\ count.v = n /\ "num" \in Plain
        BY <2>4 DEF Plain
      <4> QED BY <2>2, <3>1, <3>2, <4>1, <4>2, CompareFacts
    <3>5. CASE p
      <4>1. <<norm, n>> \in NonEmptyTests
        BY <1>4, <3>5
      <4>2. result = Bool(m > 0)
        BY <3>2, <3>3, <3>4, <4>1 DEF NonEmptyTests, Ordered, Bool
      <4> HIDE DEF result
      <4> QED BY <2>4, <3>5, <4>2, Constants DEF Bool
    <3>6. CASE ~p
      <4>1. <<norm, n>> \in EmptyTests
        BY <1>4, <3>6
      <4>2. result = Bool(~(m > 0))
        BY <3>2, <3>3, <3>4, <4>1 DEF EmptyTests, Ordered, Bool
      <4> QED BY <2>4, <3>6, <4>2, Constants
    <3> QED BY <3>5, <3>6
  <2>5. \/ size = Err /\ ~CollectionPresent(a)
        \/ \E m \in Nat : /\ size = [t |-> "num", v |-> m]
                          /\ CollectionPresent(a) => m > 0
                          /\ ~HoldsNull /\ m > 0 => CollectionPresent(a)
    BY <2>1, SizeFacts
  <2> HIDE DEF size, result
  <2> QED BY <2>3, <2>4, <2>5
<1>5. ASSUME NEW p \in BOOLEAN, NEW d \in Documents("root")
      PROVE  /\ d \in match[p] => val[d] = Bool(p)
             /\ ~HoldsNull /\ ~refused[p] /\ val[d] = Bool(p) => d \in match[p]
  <2> HIDE DEF result, Refuses
  <2> QED BY <1>4
<1> HIDE DEF val, refused, match
<1> QED BY <1>1, <1>2, <1>3, <1>5, ScopeFacts, MakeGood DEF Scope

LEMMA FlatExistsGood ==
  ASSUME Declared, NEW a \in Attributes, NEW v \in Literals, MisusedShapes \/ doc[a] \notin DOMAIN Objects
  PROVE  FlatExistsCondition(a, v) \in Good
<1> DEFINE o == options[a]
           x == doc[a]
           Refuses(p) == ~p \/ ~o.mapped \/ o.shape # "collection"
                           \/ LeafRefused([o EXCEPT !.explicitNull = FALSE], "eq", v, TRUE, TRUE)
           result == IF x.t = "list" THEN Bool(\E m \in Members[x] : ValuesEqual(m, v)) ELSE Err
           matches == LeafMatches(o, "eq", v, TRUE, x, TRUE)
           val == [d \in Documents("root") |-> result]
           refused == [p \in BOOLEAN |-> Refuses(p)]
           match == [p \in BOOLEAN |-> {d \in Documents("root") : ~Refuses(p) /\ matches}]
<1>1. FlatExistsCondition(a, v) = [scope |-> "root", val |-> val, refused |-> refused, match |-> match]
  BY DEF FlatExistsCondition, Condition
<1>2. val \in [Documents("root") -> CelValue]
  BY CelTypes, Constants
<1>3. refused \in [BOOLEAN -> BOOLEAN] /\ match \in [BOOLEAN -> SUBSET Documents("root")]
  OBVIOUS
<1>4. ASSUME ~MisusedShapes, NEW p \in BOOLEAN, ~Refuses(p)
      PROVE  matches <=> result = Bool(p)
  <2>1. p /\ o.shape = "collection" /\ v # Null /\ ~IsCollection(v) /\ o.type # "undeclared"
    <3>1. o \in AllDeclarations
      BY OptionsAssumption DEF Declared
    <3>2. [o EXCEPT !.explicitNull = FALSE].type = o.type
      BY <3>1 DEF AllDeclarations
    <3> QED BY <1>4, <3>2 DEF LeafRefused, NullLeafRefused, NonScalarOperand, ScalarOperators,
                              Comparisons, Equalities
  <2>2. x \in Storable /\ HoldsWhatIsDeclared(a) /\ v \in Storable
    BY ContentsAreStorable DEF Declared
  <2>3. x \in {Undefined, Null} \/ (x.t = "list" /\ \A m \in Members[x] : m = Null \/ m.t = o.type)
    BY <1>4, <2>1, <2>2 DEF HoldsWhatIsDeclared
  <2>4. matches <=> v.t = o.type /\ TermMatches(x, v)
    BY <2>1 DEF LeafMatches, NormalizeLeafOperator, TypeMismatch, ScalarOperators, Comparisons,
                Equalities, Orderings
  <2>5. CASE x \in {Undefined, Null}
    <3>1. Terms(x) = {} /\ x.t # "list"
      BY <2>5 DEF Terms, Undefined, Null
    <3>2. result = Err
      BY <3>1
    <3> QED BY <2>4, <3>1, <3>2, Constants DEF TermMatches, Bool
  <2>6. CASE x.t = "list" /\ \A m \in Members[x] : m = Null \/ m.t = o.type
    <3>1. x \in DOMAIN Members /\ Terms(x) = Members[x] \ {Null}
      BY <2>2, <2>6, StorableFacts, TermsFacts
    <3>2. \A m \in Members[x] : m \in Storable /\ (ValuesEqual(m, v) <=> m = v)
      BY <2>2, <3>1, ContentsAreStorable, EqualValues
    <3>3. \A m \in Members[x] \ {Null} : v.t = o.type => (m.v = v.v <=> m = v)
      BY <2>2, <2>6, <3>2, StorableFacts
    <3>4. matches <=> v \in Members[x]
      BY <2>1, <2>4, <2>6, <3>1, <3>3 DEF TermMatches
    <3>5. result = Bool(v \in Members[x])
      BY <2>6, <3>2 DEF Bool
    <3> QED BY <2>1, <3>4, <3>5, Constants DEF Bool
  <2> QED BY <2>3, <2>5, <2>6
<1>5. ASSUME ~MisusedShapes, NEW p \in BOOLEAN, NEW d \in Documents("root")
      PROVE  /\ d \in match[p] => val[d] = Bool(p)
             /\ ~HoldsNull /\ ~refused[p] /\ val[d] = Bool(p) => d \in match[p]
  <2> HIDE DEF result, Refuses, matches
  <2> QED BY <1>4, <1>5
<1> HIDE DEF val, refused, match
<1> QED BY <1>1, <1>2, <1>3, <1>5, ScopeFacts, MakeGood DEF Scope

LEMMA ProjectionGood ==
  ASSUME Declared, NEW a \in Attributes, NEW v \in Literals, v.t = "list"
  PROVE  ProjectionCondition(a, v) \in Good
<1> DEFINE o == options[a]
           x == doc[a]
           Refuses(p) == ~p \/ ~o.mapped \/ o.shape # "nested" \/ CarriesNull(v)
                            \/ o.type = "undeclared"
           result == IF x \notin DOMAIN Objects \/ Undefined \in Elements(a) THEN Err
                     ELSE Bool(\E e \in Elements(a), m \in Members[v] : ValuesEqual(e, m))
           matches == /\ \E e \in Elements(a) : AnyTermMatches(e, TypedMembers(o, v))
                      /\ \A e \in Elements(a) : Exists(e)
           val == [d \in Documents("root") |-> result]
           refused == [p \in BOOLEAN |-> Refuses(p)]
           match == [p \in BOOLEAN |-> {d \in Documents("root") : ~Refuses(p) /\ matches}]
<1>1. ProjectionCondition(a, v) = [scope |-> "root", val |-> val, refused |-> refused, match |-> match]
  BY DEF ProjectionCondition, Condition
<1>2. val \in [Documents("root") -> CelValue]
  BY CelTypes, Constants
<1>3. refused \in [BOOLEAN -> BOOLEAN] /\ match \in [BOOLEAN -> SUBSET Documents("root")]
  OBVIOUS
<1>4. ASSUME NEW p \in BOOLEAN, ~Refuses(p)
      PROVE  (matches => result = Bool(p)) /\ (~HoldsNull /\ result = Bool(p) => matches)
  <2>1. p /\ o.shape = "nested" /\ o.type # "undeclared" /\ v \in Storable /\ Bool(p) = True
    BY <1>4, ContentsAreStorable, Constants
  <2>2. CASE x \notin DOMAIN Objects
    BY <2>1, <2>2, Constants DEF Elements
  <2>3. CASE x \in DOMAIN Objects
    <3>1. Elements(a) = Objects[x] /\ x.t = "list"
      BY <2>3, ObjectsAssumption DEF Elements
    <3>2. \A e \in Elements(a) :
            e \in Storable /\ ~IsCollection(e) /\ (e \in {Undefined, Null} \/ e.t = o.type)
      <4>1. HoldsWhatIsDeclared(a) /\ x # Undefined /\ x # Null
        BY <3>1 DEF Declared, Undefined, Null
      <4>2. \A e \in Objects[x] : e \in {Undefined, Null} \/ e.t = o.type
        BY <2>1, <2>3, <3>1, <4>1 DEF HoldsWhatIsDeclared
      <4> QED BY <2>3, <3>1, <4>2, ContentsAreStorable
    <3>3. ~Exists(Undefined) /\ ~Exists(Null)
      BY DEF Exists, Terms, Undefined, Null
    <3>4. \A e \in Elements(a) \ {Undefined, Null} :
            /\ Terms(e) = {e} /\ Exists(e)
            /\ AnyTermMatches(e, TypedMembers(o, v)) <=> e \in Members[v]
      <4> SUFFICES ASSUME NEW e \in Elements(a) \ {Undefined, Null}
                   PROVE  /\ Terms(e) = {e} /\ Exists(e)
                          /\ AnyTermMatches(e, TypedMembers(o, v)) <=> e \in Members[v]
        OBVIOUS
      <4>1. e \in Storable /\ e.t = o.type /\ e.t \in Plain
        BY <3>2, StorableFacts DEF Storable, IsCollection
      <4>2. Terms(e) = {e}
        BY <4>1, TermsFacts
      <4> QED BY <2>1, <4>1, <4>2, TypedTerms DEF Exists
    <3>5. v \in DOMAIN Members /\ \A m \in Members[v] : m \in Storable /\ m # Undefined
      BY <2>1, StorableFacts, ContentsAreStorable
    <3>6. CASE Undefined \in Elements(a)
      BY <2>1, <3>3, <3>6, Constants
    <3>7. CASE Undefined \notin Elements(a)
      <4>1. result = Bool(\E e \in Elements(a) : e \in Members[v])
        <5>1. \A e \in Elements(a), m \in Members[v] : ValuesEqual(e, m) <=> e = m
          BY <3>2, <3>5, EqualValues
        <5> QED BY <2>3, <3>7, <5>1 DEF Bool
      <4>2. Null \notin Members[v]
        BY <1>4 DEF CarriesNull
      <4>3. ~HoldsNull => Null \notin Elements(a)
        BY DEF HoldsNull
      <4>4. ASSUME matches PROVE result = Bool(p)
        <5>1. Null \notin Elements(a)
          BY <3>3, <4>4
        <5>2. \E e \in Elements(a) : e \in Members[v]
          BY <3>4, <3>7, <4>4, <5>1
        <5> QED BY <2>1, <4>1, <5>2 DEF Bool
      <4>5. ASSUME ~HoldsNull, result = Bool(p) PROVE matches
        <5>1. \E e \in Elements(a) : e \in Members[v]
          BY <2>1, <4>1, <4>5, Constants DEF Bool
        <5> QED BY <3>4, <3>7, <4>3, <4>5, <5>1
      <4> QED BY <4>4, <4>5
    <3> QED BY <3>6, <3>7
  <2> QED BY <2>2, <2>3
<1>5. ASSUME NEW p \in BOOLEAN, NEW d \in Documents("root")
      PROVE  /\ d \in match[p] => val[d] = Bool(p)
             /\ ~HoldsNull /\ ~refused[p] /\ val[d] = Bool(p) => d \in match[p]
  <2> HIDE DEF result, Refuses, matches
  <2> QED BY <1>4
<1> HIDE DEF val, refused, match
<1> QED BY <1>1, <1>2, <1>3, <1>5, ScopeFacts, MakeGood DEF Scope

-----------------------------------------------------------------------------
(* The conditions over conditions *)

LEMMA JunctionFacts ==
  ASSUME NEW S, S \subseteq CelValue, NEW decisive \in BOOLEAN
  PROVE  /\ Junction(decisive, S) \in CelValue
         /\ Junction(decisive, S) = Bool(decisive) <=> \E x \in S : x = Bool(decisive)
         /\ Junction(decisive, S) = Bool(~decisive) <=> \A x \in S : x = Bool(~decisive)
<1>1. \A x \in CelValue : /\ AsBoolean(x) \in {True, False, Err}
                          /\ AsBoolean(x) = True <=> x = True
                          /\ AsBoolean(x) = False <=> x = False
  BY DEF CelValue, Value, WellFormed, AsBoolean, True, False, Err
<1>2. CASE decisive
  BY <1>1, <1>2, Constants DEF Junction, Bool
<1>3. CASE ~decisive
  BY <1>1, <1>3, Constants DEF Junction, Bool
<1> QED BY <1>2, <1>3

\* Does a document match the joined clauses of the operands? De Morgan: the polarity decides which
\* way they are joined.
JoinedMatch(decisive, args, p, d) ==
  IF decisive = p THEN \E i \in DOMAIN args : d \in args[i].match[p]
  ELSE \A i \in DOMAIN args : d \in args[i].match[p]

Joined(decisive, args, d) == Junction(decisive, {args[i].val[d] : i \in DOMAIN args})

LEMMA JoinedFacts ==
  ASSUME NEW decisive \in BOOLEAN, NEW args \in Seq(Good), NEW s,
         \A i \in DOMAIN args : args[i].scope = s,
         NEW p \in BOOLEAN, NEW d \in Documents(s)
  PROVE  /\ Joined(decisive, args, d) \in CelValue
         /\ ~MisusedShapes /\ JoinedMatch(decisive, args, p, d) => Joined(decisive, args, d) = Bool(p)
         /\ (/\ ~MisusedShapes /\ ~HoldsNull /\ \A i \in DOMAIN args : ~args[i].refused[p]
             /\ Joined(decisive, args, d) = Bool(p)) => JoinedMatch(decisive, args, p, d)
<1> DEFINE S == {args[i].val[d] : i \in DOMAIN args}
           joined == Joined(decisive, args, d)
<1>1. \A i \in DOMAIN args : /\ args[i] \in Good /\ args[i].val[d] \in CelValue
                             /\ ~MisusedShapes /\ d \in args[i].match[p] => args[i].val[d] = Bool(p)
                             /\ ~MisusedShapes /\ ~HoldsNull /\ ~args[i].refused[p] /\ args[i].val[d] = Bool(p) =>
                                  d \in args[i].match[p]
  <2> SUFFICES ASSUME NEW i \in DOMAIN args
               PROVE  /\ args[i] \in Good /\ args[i].val[d] \in CelValue
                      /\ ~MisusedShapes /\ d \in args[i].match[p] => args[i].val[d] = Bool(p)
                      /\ ~MisusedShapes /\ ~HoldsNull /\ ~args[i].refused[p] /\ args[i].val[d] = Bool(p) =>
                           d \in args[i].match[p]
    OBVIOUS
  <2>1. args[i] \in Good /\ args[i].scope = s
    OBVIOUS
  <2>2. Right(args[i]) /\ args[i].val[d] \in CelValue
    BY <2>1, GoodFacts
  <2> QED BY <2>1, <2>2 DEF Right
<1>2. /\ joined \in CelValue
      /\ joined = Bool(decisive) <=> \E x \in S : x = Bool(decisive)
      /\ joined = Bool(~decisive) <=> \A x \in S : x = Bool(~decisive)
  <2>1. S \subseteq CelValue
    BY <1>1
  <2> HIDE DEF S
  <2>2. joined = Junction(decisive, S)
    BY DEF Joined, S
  <2> HIDE DEF joined
  <2> QED BY <2>1, <2>2, JunctionFacts
<1>3. CASE decisive = p
  BY <1>1, <1>2, <1>3 DEF JoinedMatch
<1>4. CASE decisive # p
  <2>1. Bool(~decisive) = Bool(p)
    BY <1>4 DEF Bool
  <2>2. joined = Bool(p) <=> \A i \in DOMAIN args : args[i].val[d] = Bool(p)
    BY <1>2, <2>1
  <2> QED BY <1>1, <1>2, <1>4, <2>2 DEF JoinedMatch
<1> QED BY <1>3, <1>4

LEMMA JunctionGood ==
  ASSUME NEW op \in {"and", "or"}, NEW args \in Seq(Good), args # <<>>,
         \A i \in DOMAIN args : args[i].scope = args[1].scope
  PROVE  JunctionCondition(op, args) \in Good
<1> DEFINE s == args[1].scope
           decisive == (op = "or")
           Refuses(p) == \E i \in DOMAIN args : args[i].refused[p]
           val == [d \in Documents(s) |-> Joined(decisive, args, d)]
           refused == [p \in BOOLEAN |-> Refuses(p)]
           match == [p \in BOOLEAN |-> {d \in Documents(s) :
                       ~Refuses(p) /\ JoinedMatch(decisive, args, p, d)}]
<1>1. s \in Scope
  BY GoodFacts
<1>2. \A p \in BOOLEAN : ((op = "and") = p) <=> (decisive # p)
  OBVIOUS
<1>3. JunctionCondition(op, args) =
        [scope |-> s, val |-> val, refused |-> refused, match |-> match]
  BY <1>2 DEF JunctionCondition, Condition, JoinedMatch, Joined
<1>4. ASSUME NEW p \in BOOLEAN, NEW d \in Documents(s)
      PROVE  /\ val[d] \in CelValue
             /\ ~MisusedShapes /\ JoinedMatch(decisive, args, p, d) => val[d] = Bool(p)
             /\ ~MisusedShapes /\ ~HoldsNull /\ ~Refuses(p) /\ val[d] = Bool(p) => JoinedMatch(decisive, args, p, d)
  <2> HIDE DEF decisive
  <2>1. decisive \in BOOLEAN
    BY DEF decisive
  <2> QED BY <2>1, JoinedFacts
<1>5. val \in [Documents(s) -> CelValue]
  BY <1>4
<1>6. refused \in [BOOLEAN -> BOOLEAN] /\ match \in [BOOLEAN -> SUBSET Documents(s)]
  OBVIOUS
<1>7. ASSUME ~MisusedShapes, NEW p \in BOOLEAN, NEW d \in Documents(s)
      PROVE  /\ d \in match[p] => val[d] = Bool(p)
             /\ ~HoldsNull /\ ~refused[p] /\ val[d] = Bool(p) => d \in match[p]
  <2> HIDE DEF val, Refuses
  <2> QED BY <1>4, <1>7
<1> HIDE DEF val, refused, match
<1> QED BY <1>1, <1>3, <1>5, <1>6, <1>7, MakeGood

LEMMA NotGood ==
  ASSUME NEW arg \in Good
  PROVE  NotCondition(arg) \in Good
<1> DEFINE s == arg.scope
           val == [d \in Documents(s) |-> Not(arg.val[d])]
           refused == [p \in BOOLEAN |-> arg.refused[~p]]
           match == [p \in BOOLEAN |-> {d \in Documents(s) : ~arg.refused[~p] /\ d \in arg.match[~p]}]
<1>1. NotCondition(arg) = [scope |-> s, val |-> val, refused |-> refused, match |-> match]
  BY DEF NotCondition, Condition
<1>2. s \in Scope /\ arg \in ConditionsOf(s) /\ Right(arg) /\ \A d \in Documents(s) : arg.val[d] \in CelValue
  BY GoodFacts
<1>3. \A x \in CelValue : Not(x) \in CelValue /\ \A p \in BOOLEAN : Not(x) = Bool(p) <=> x = Bool(~p)
  BY Constants DEF Not, AsBoolean, Bool, CelValue, Value, WellFormed, True, False, Err
<1>4. val \in [Documents(s) -> CelValue]
  BY <1>2, <1>3
<1>5. refused \in [BOOLEAN -> BOOLEAN] /\ match \in [BOOLEAN -> SUBSET Documents(s)]
  BY <1>2 DEF ConditionsOf
<1>6. ASSUME ~MisusedShapes, NEW p \in BOOLEAN, NEW d \in Documents(s)
      PROVE  /\ d \in match[p] => val[d] = Bool(p)
             /\ ~HoldsNull /\ ~refused[p] /\ val[d] = Bool(p) => d \in match[p]
  <2>1. val[d] = Bool(p) <=> arg.val[d] = Bool(~p)
    BY <1>2, <1>3
  <2> HIDE DEF val
  <2> QED BY <1>2, <1>6, <2>1 DEF Right
<1> HIDE DEF val, refused, match
<1> QED BY <1>1, <1>2, <1>4, <1>5, <1>6, MakeGood

\* An element whose body has the polarity decides the macro.
LEMMA MacroGood ==
  ASSUME NEW op \in {"exists", "all"}, NEW a \in Attributes, NEW body \in Good, body.scope = a,
         options \in [Attributes -> Declarations]
  PROVE  MacroCondition(op, a, body) \in Good
<1> DEFINE decisive == (op = "exists")
           Refuses(p) == ~options[a].mapped \/ options[a].shape # "nested" \/ decisive # p
                           \/ body.refused[p]
           Matches(p) == \E e \in Elements(a) : e \in body.match[p]
           result == IF doc[a] \in DOMAIN Objects
                     THEN Junction(decisive, {body.val[e] : e \in Elements(a)}) ELSE Err
           val == [d \in Documents("root") |-> result]
           refused == [p \in BOOLEAN |-> Refuses(p)]
           match == [p \in BOOLEAN |-> {d \in Documents("root") : ~Refuses(p) /\ Matches(p)}]
<1>1. MacroCondition(op, a, body) =
        [scope |-> "root", val |-> val, refused |-> refused, match |-> match]
  BY DEF MacroCondition, Condition
<1>2. body \in ConditionsOf(a) /\ Right(body) /\ Documents(a) = Elements(a)
      /\ \A e \in Elements(a) : body.val[e] \in CelValue
  BY GoodFacts, ScopeFacts
<1>3. LET joined == Junction(decisive, {body.val[e] : e \in Elements(a)}) IN
      /\ joined \in CelValue
      /\ joined = Bool(decisive) <=> \E e \in Elements(a) : body.val[e] = Bool(decisive)
  <2> DEFINE S == {body.val[e] : e \in Elements(a)}
  <2>1. S \subseteq CelValue
    BY <1>2
  <2>2. decisive \in BOOLEAN
    OBVIOUS
  <2>3. \A b \in BOOLEAN : (\E x \in S : x = Bool(b)) <=> \E e \in Elements(a) : body.val[e] = Bool(b)
    OBVIOUS
  <2> HIDE DEF S, decisive
  <2>4. Junction(decisive, S) \in CelValue /\ (Junction(decisive, S) = Bool(decisive) <=> \E x \in S : x = Bool(decisive))
    BY <2>1, <2>2, JunctionFacts
  <2>5. Junction(decisive, S) = Bool(decisive) <=> \E e \in Elements(a) : body.val[e] = Bool(decisive)
    BY <2>2, <2>3, <2>4
  <2> QED BY <2>4, <2>5 DEF S
<1>4. val \in [Documents("root") -> CelValue]
  BY <1>3, Constants
<1>5. refused \in [BOOLEAN -> BOOLEAN] /\ match \in [BOOLEAN -> SUBSET Documents("root")]
  BY <1>2, OptionsAssumption DEF ConditionsOf, AllDeclarations
<1>6. ASSUME ~MisusedShapes, NEW p \in BOOLEAN, ~Refuses(p)
      PROVE  (Matches(p) => result = Bool(p)) /\ (~HoldsNull /\ result = Bool(p) => Matches(p))
  <2>1. decisive = p /\ ~body.refused[p]
    BY <1>6
  <2>2. \A e \in Elements(a) : /\ e \in body.match[p] => body.val[e] = Bool(p)
                               /\ ~HoldsNull /\ body.val[e] = Bool(p) => e \in body.match[p]
    BY <1>2, <1>6, <2>1 DEF Right
  <2>3. CASE doc[a] \in DOMAIN Objects
    <3>1. result = Bool(p) <=> \E e \in Elements(a) : body.val[e] = Bool(p)
      BY <1>3, <2>1, <2>3
    <3> QED BY <2>2, <3>1
  <2>4. CASE doc[a] \notin DOMAIN Objects
    BY <2>4, Constants DEF Elements, Bool
  <2> QED BY <2>3, <2>4
<1>7. ASSUME ~MisusedShapes, NEW p \in BOOLEAN, NEW d \in Documents("root")
      PROVE  /\ d \in match[p] => val[d] = Bool(p)
             /\ ~HoldsNull /\ ~refused[p] /\ val[d] = Bool(p) => d \in match[p]
  <2> HIDE DEF result, Refuses, Matches
  <2> QED BY <1>6, <1>7
<1> HIDE DEF val, refused, match
<1> QED BY <1>1, <1>4, <1>5, <1>7, ScopeFacts, MakeGood DEF Scope

\* Every field of a substituted list has to be there, which no null and no absent one is.
LEMMA FoldGood ==
  ASSUME Declared, NEW op \in {"exists", "all"}, NEW args \in Seq(Good),
         \A i \in DOMAIN args : args[i].scope = "root", NEW fields \in SUBSET Attributes,
         MisusedShapes \/ \A a \in fields : ~IsCollection(doc[a])
  PROVE  FoldCondition(op, args, fields) \in Good
<1> DEFINE decisive == (op = "exists")
           Refuses(p) ==
             \/ \E i \in DOMAIN args : args[i].refused[p]
             \/ \E a \in fields : ~options[a].mapped \/ Field("root", a).type = "undeclared"
                                    \/ options[a].explicitNull
           absent == \E a \in fields : doc[a] = Undefined
           Matches(d, p) == (\A a \in fields : Exists(doc[a])) /\ JoinedMatch(decisive, args, p, d)
           val == [d \in Documents("root") |-> IF absent THEN Err ELSE Joined(decisive, args, d)]
           refused == [p \in BOOLEAN |-> Refuses(p)]
           match == [p \in BOOLEAN |-> {d \in Documents("root") : ~Refuses(p) /\ Matches(d, p)}]
<1>1. \A p \in BOOLEAN : ((op = "all") = p) <=> (decisive # p)
  OBVIOUS
<1>2. FoldCondition(op, args, fields) =
        [scope |-> "root", val |-> val, refused |-> refused, match |-> match]
  BY <1>1 DEF FoldCondition, Condition, JoinedMatch, Joined
<1>3. ASSUME NEW p \in BOOLEAN, NEW d \in Documents("root")
      PROVE  /\ Joined(decisive, args, d) \in CelValue
             /\ ~MisusedShapes /\ JoinedMatch(decisive, args, p, d) => Joined(decisive, args, d) = Bool(p)
             /\ ~MisusedShapes /\ ~HoldsNull /\ ~Refuses(p) /\ Joined(decisive, args, d) = Bool(p) =>
                  JoinedMatch(decisive, args, p, d)
  <2> HIDE DEF decisive
  <2>1. decisive \in BOOLEAN
    BY DEF decisive
  <2> QED BY <2>1, JoinedFacts
<1>4. val \in [Documents("root") -> CelValue]
  BY <1>3, Constants
<1>5. refused \in [BOOLEAN -> BOOLEAN] /\ match \in [BOOLEAN -> SUBSET Documents("root")]
  OBVIOUS
<1>6. ASSUME ~MisusedShapes, NEW p \in BOOLEAN, ~Refuses(p)
      PROVE  (\A a \in fields : Exists(doc[a])) <=> ~absent
  <2> SUFFICES ASSUME NEW a \in fields
               PROVE  Exists(doc[a]) <=> doc[a] # Undefined
    OBVIOUS
  <2>1. ~options[a].explicitNull /\ Field("root", a).type # "undeclared" /\ ~IsCollection(doc[a])
    BY <1>6
  <2>2. PICK d : d \in Documents("root")
    BY ScopeFacts
  <2>3. /\ Held("root", a, d) = doc[a] /\ doc[a] \in Storable /\ FieldHolds(Field("root", a), doc[a])
    BY HeldFacts, ScopeFacts, <2>2
  <2>4. doc[a] # Null
    <3>1. Null \notin DOMAIN Objects /\ Null.t = "null" /\ Null # Undefined
      BY ObjectsAssumption DEF Null, Undefined
    <3> QED BY <2>1, <3>1 DEF Declared, HoldsWhatIsDeclared
  <2>5. CASE doc[a] = Undefined
    BY <2>5 DEF Exists, Terms, Undefined
  <2>6. CASE doc[a] # Undefined
    <3>1. doc[a].t \in Plain
      BY <2>1, <2>3, <2>4, <2>6 DEF FieldHolds, IsCollection
    <3> QED BY <2>3, <2>6, <3>1, TermsFacts DEF Exists
  <2> QED BY <2>5, <2>6
<1>7. ASSUME ~MisusedShapes, NEW p \in BOOLEAN, NEW d \in Documents("root")
      PROVE  /\ d \in match[p] => val[d] = Bool(p)
             /\ ~HoldsNull /\ ~refused[p] /\ val[d] = Bool(p) => d \in match[p]
  <2>1. Err # Bool(p)
    BY Constants DEF Bool
  <2> HIDE DEF Refuses, absent, decisive
  <2> QED BY <1>3, <1>6, <1>7, <2>1
<1> HIDE DEF val, refused, match
<1> QED BY <1>2, <1>4, <1>5, <1>7, ScopeFacts, MakeGood DEF Scope

LEMMA RefusedGood ==
  ASSUME NEW s \in Scope, NEW val \in [Documents(s) -> CelValue]
  PROVE  RefusedCondition(s, val) \in Good
<1> DEFINE refused == [p \in BOOLEAN |-> TRUE]
           match == [p \in BOOLEAN |-> {d \in Documents(s) : ~TRUE /\ FALSE}]
<1>1. RefusedCondition(s, val) =
        [scope |-> s, val |-> [d \in Documents(s) |-> val[d]], refused |-> refused, match |-> match]
  BY DEF RefusedCondition, Condition, Nothing
<1>2. [d \in Documents(s) |-> val[d]] = val
  OBVIOUS
<1>3. refused \in [BOOLEAN -> BOOLEAN] /\ match \in [BOOLEAN -> SUBSET Documents(s)]
  OBVIOUS
<1>4. \A p \in BOOLEAN : refused[p] /\ match[p] = {}
  OBVIOUS
<1> HIDE DEF refused, match
<1> QED BY <1>1, <1>2, <1>3, <1>4, MakeGood

\* A plan without a condition, or of a kind the adapter does not know.
Unconditional(kind) ==
  LET Refuses(p) == kind = "unknown"
      Matches(d, p) == (kind = "allowed") = p
  IN Condition("root", [d \in Documents("root") |-> Bool(kind = "allowed")], Refuses, Matches)

LEMMA UnconditionalGood ==
  ASSUME NEW kind \in {"allowed", "denied", "unknown"}
  PROVE  /\ Unconditional(kind) \in Good /\ Unconditional(kind).scope = "root"
         /\ kind # "unknown" => ~Unconditional(kind).refused[TRUE]
<1> DEFINE allowed == kind = "allowed"
           val == [d \in Documents("root") |-> Bool(allowed)]
           refused == [p \in BOOLEAN |-> kind = "unknown"]
           match == [p \in BOOLEAN |-> {d \in Documents("root") : kind # "unknown" /\ allowed = p}]
<1>1. Unconditional(kind) = [scope |-> "root", val |-> val, refused |-> refused, match |-> match]
  BY DEF Unconditional, Condition
<1>2. val \in [Documents("root") -> CelValue]
  BY CelTypes
<1>3. refused \in [BOOLEAN -> BOOLEAN] /\ match \in [BOOLEAN -> SUBSET Documents("root")]
  OBVIOUS
<1>4. ASSUME NEW p \in BOOLEAN, NEW d \in Documents("root")
      PROVE  /\ d \in match[p] => val[d] = Bool(p)
             /\ ~HoldsNull /\ ~refused[p] /\ val[d] = Bool(p) => d \in match[p]
  BY Constants DEF Bool
<1>5. kind # "unknown" => ~refused[TRUE]
  OBVIOUS
<1> HIDE DEF val, refused, match
<1>6. [scope |-> "root", val |-> val, refused |-> refused, match |-> match] \in Good
  BY <1>2, <1>3, <1>4, ScopeFacts, MakeGood DEF Scope
<1>7. Unconditional(kind).scope = "root" /\ Unconditional(kind).refused = refused
  BY <1>1
<1>8. kind # "unknown" => ~Unconditional(kind).refused[TRUE]
  BY <1>5, <1>7
<1> QED BY <1>1, <1>6, <1>7, <1>8

-----------------------------------------------------------------------------
(* The behaviour *)

\* What is kept of the search: it is made for a plan that has a clause, and finds what it matches.
Searched ==
  /\ phase \in {"reading", "refused", "translated", "answered"}
  /\ returned \in BOOLEAN
  /\ phase \in {"translated", "answered"} => ~root.refused[TRUE]
  /\ phase # "answered" => ~returned
  /\ phase = "answered" => (returned <=> TheDocument \in root.match[TRUE])

IInv ==
  /\ Declared
  /\ stack \in Seq(Good)
  /\ nodes \in 0 .. MaxNodes
  /\ root \in Good /\ root.scope = "root"
  /\ Searched

\* The document and its declaration stay, and with them what is right of a condition.
LEMMA GoodStays ==
  ASSUME UNCHANGED config
  PROVE  Good' = Good /\ (Declared => Declared')
<1>1. doc' = doc /\ options' = options
  BY DEF config
<1>2. \A a : Elements(a)' = Elements(a) /\ HoldsWhatIsDeclared(a)' = HoldsWhatIsDeclared(a)
  BY <1>1 DEF Elements, HoldsWhatIsDeclared
<1>3. \A s : Documents(s)' = Documents(s)
  BY <1>2 DEF Documents
<1>4. HoldsNull' <=> HoldsNull
  BY <1>1, <1>2 DEF HoldsNull
<1>5. \A s : ConditionsOf(s)' = ConditionsOf(s)
  BY <1>3 DEF ConditionsOf
<1>6. \A c : Right(c)' <=> Right(c)
  BY <1>3, <1>4 DEF Right
<1>7. Good' = Good
  BY <1>5, <1>6 DEF Good, Scope
<1>8. Declared => Declared'
  BY <1>1, <1>2 DEF Declared
<1> QED BY <1>7, <1>8

LEMMA StackSplit ==
  ASSUME NEW S, stack \in Seq(S), NEW n \in Nat, n <= Len(stack)
  PROVE  Top(n) \in Seq(S) /\ Len(Top(n)) = n /\ DOMAIN Top(n) = 1 .. n /\ Under(n) \in Seq(S)
<1>1. Len(stack) \in Nat /\ \A i \in 1 .. Len(stack) : stack[i] \in S
  OBVIOUS
<1>2. Top(n) \in Seq(S) /\ Len(Top(n)) = n
  BY <1>1, SubSeqProperties DEF Top
<1>3. Under(n) \in Seq(S)
  BY <1>1, SubSeqProperties DEF Under
<1> QED BY <1>2, <1>3

\* Reading a good condition.
LEMMA ReadGood ==
  ASSUME IInv, NEW rest \in Seq(Good), NEW c \in Good, Read(rest, c)
  PROVE  IInv'
<1>1. UNCHANGED config /\ Append(rest, c) \in Seq(Good)
  BY AppendProperties DEF Read
<1>2. stack' \in Seq(Good') /\ root' \in Good' /\ Declared'
  BY <1>1, GoodStays DEF Read, IInv
<1>3. nodes' \in 0 .. MaxNodes
  BY PlanBoundsAssumption DEF Read, Room, IInv
<1>4. Searched'
  BY DEF Read, IInv, Searched
<1>5. root'.scope = "root"
  BY DEF Read, IInv
<1> QED BY <1>2, <1>3, <1>4, <1>5 DEF IInv

LEMMA InitGood == Init => IInv
<1> SUFFICES ASSUME Init PROVE IInv
  OBVIOUS
<1>1. [d \in Documents("root") |-> Err] \in [Documents("root") -> CelValue]
  BY Constants
<1>2. root \in Good
  BY <1>1, RefusedGood, ScopeFacts DEF Init, Scope
<1>3. root.scope = "root"
  BY DEF Init, RefusedCondition, Condition
<1>4. Declared
  BY DEF Init, Declared
<1>5. stack \in Seq(Good) /\ nodes \in 0 .. MaxNodes
  BY PlanBoundsAssumption DEF Init
<1>6. Searched
  BY DEF Init, Searched
<1> QED BY <1>2, <1>3, <1>4, <1>5, <1>6 DEF IInv

\* A scope of an attribute is the root or the lambda over it.
LEMMA ScopesOf ==
  ASSUME NEW a \in Attributes, NEW scope \in Scopes(a)
  PROVE  scope \in {"root", a} /\ scope \in Scope
BY DEF Scopes, Scope

LEMMA MembershipIsBoolean == \A e, S : (e \in S) \in BOOLEAN
OBVIOUS

\* Every action keeps the conditions good.
LEMMA StepGood == IInv /\ [Next]_vars => IInv'
<1> SUFFICES ASSUME IInv, [Next]_vars PROVE IInv'
  OBVIOUS
<1>1. Declared /\ stack \in Seq(Good) /\ options \in [Attributes -> Declarations]
  BY DEF IInv, Declared
<1>2. CASE ReadLeaf
  <2>1. PICK a \in Attributes, op \in LeafOperators, v \in Literals, first \in BOOLEAN :
          \E scope \in Scopes(a) :
            /\ op = "in" /\ first => IsCollection(v)
            /\ op = "hasIntersection" => v.t = "list" /\ scope = "root"
            /\ MisusedShapes \/ \A d \in Documents(scope) : SuitsOperator(op, first, Held(scope, a, d))
            /\ Read(stack, LeafCondition(scope, a, op, v, first))
    BY <1>2 DEF ReadLeaf
  <2>2. PICK scope \in Scopes(a) :
            /\ op = "in" /\ first => IsCollection(v)
            /\ op = "hasIntersection" => v.t = "list" /\ scope = "root"
            /\ MisusedShapes \/ \A d \in Documents(scope) : SuitsOperator(op, first, Held(scope, a, d))
            /\ Read(stack, LeafCondition(scope, a, op, v, first))
    BY <2>1
  <2>3. scope \in {"root", a}
    BY ScopesOf
  <2>4. LeafCondition(scope, a, op, v, first) \in Good
    BY <1>1, <2>2, <2>3, LeafGood
  <2> QED BY <1>1, <2>2, <2>4, ReadGood
<1>3. CASE ReadVariable
  <2>1. PICK a \in Attributes : \E scope \in Scopes(a) :
            /\ \A d \in Documents(scope) : Held(scope, a, d).t \in {"undefined", "null", "bool"}
            /\ Read(stack, VariableCondition(scope, a))
    BY <1>3 DEF ReadVariable
  <2>2. PICK scope \in Scopes(a) :
            /\ \A d \in Documents(scope) : Held(scope, a, d).t \in {"undefined", "null", "bool"}
            /\ Read(stack, VariableCondition(scope, a))
    BY <2>1
  <2>3. VariableCondition(scope, a) \in Good
    BY <1>1, <2>2, ScopesOf, VariableGood
  <2> QED BY <1>1, <2>2, <2>3, ReadGood
<1>4. CASE ReadLookup
  <2>1. PICK a \in Attributes, lookup \in Lookups, op \in Comparisons, x \in Literals :
          \E scope \in Scopes(a) :
            /\ MisusedShapes \/ \A d \in Documents(scope) : SuitsOperator("eq", TRUE, Held(scope, a, d))
            /\ Read(stack, LookupCondition(scope, a, lookup, op, x))
    BY <1>4 DEF ReadLookup
  <2>2. PICK scope \in Scopes(a) :
            /\ MisusedShapes \/ \A d \in Documents(scope) : SuitsOperator("eq", TRUE, Held(scope, a, d))
            /\ Read(stack, LookupCondition(scope, a, lookup, op, x))
    BY <2>1
  <2>3. LookupCondition(scope, a, lookup, op, x) \in Good
    BY <1>1, <2>2, ScopesOf, LookupGood
  <2> QED BY <1>1, <2>2, <2>3, ReadGood
<1>5. CASE ReadSize
  <2>1. PICK a \in Attributes, op \in Comparisons, n \in 0 .. 2, first \in BOOLEAN :
          Read(stack, SizeCondition(a, op, n, first))
    BY <1>5 DEF ReadSize
  <2>2. SizeCondition(a, op, n, first) \in Good
    BY <1>1, SizeGood
  <2> QED BY <1>1, <2>1, <2>2, ReadGood
<1>6. CASE ReadFlatExists
  <2>1. PICK a \in Attributes, v \in Literals :
          /\ MisusedShapes \/ doc[a] \notin DOMAIN Objects
          /\ Read(stack, FlatExistsCondition(a, v))
    BY <1>6 DEF ReadFlatExists
  <2>2. FlatExistsCondition(a, v) \in Good
    BY <1>1, <2>1, FlatExistsGood
  <2> QED BY <1>1, <2>1, <2>2, ReadGood
<1>7. CASE ReadProjection
  <2>1. PICK a \in Attributes, v \in Literals : v.t = "list" /\ Read(stack, ProjectionCondition(a, v))
    BY <1>7 DEF ReadProjection
  <2>2. ProjectionCondition(a, v) \in Good
    BY <1>1, <2>1, ProjectionGood
  <2> QED BY <1>1, <2>1, <2>2, ReadGood
<1>8. CASE ReadRefused
  <2>1. PICK a \in Attributes : \E scope \in Scopes(a) :
          \E val \in [Documents(scope) -> {True, False, Err}] : Read(stack, RefusedCondition(scope, val))
    BY <1>8 DEF ReadRefused
  <2>2. PICK scope \in Scopes(a) :
          \E val \in [Documents(scope) -> {True, False, Err}] : Read(stack, RefusedCondition(scope, val))
    BY <2>1
  <2>3. PICK val \in [Documents(scope) -> {True, False, Err}] :
          Read(stack, RefusedCondition(scope, val))
    BY <2>2
  <2>4. val \in [Documents(scope) -> CelValue]
    BY Constants
  <2>5. RefusedCondition(scope, val) \in Good
    BY <2>4, ScopesOf, RefusedGood
  <2> QED BY <1>1, <2>3, <2>5, ReadGood
<1>9. CASE ReadJunction
  <2>1. PICK op \in {"and", "or"}, n \in 1 .. MaxWidth :
          /\ n <= Len(stack)
          /\ \A i \in 1 .. n : Top(n)[i].scope = Top(n)[1].scope
          /\ Read(Under(n), JunctionCondition(op, Top(n)))
    BY <1>9 DEF ReadJunction
  <2>2. n \in Nat /\ n >= 1
    BY PlanBoundsAssumption
  <2>3. Top(n) \in Seq(Good) /\ Len(Top(n)) = n /\ DOMAIN Top(n) = 1 .. n /\ Under(n) \in Seq(Good)
    BY <1>1, <2>1, <2>2, StackSplit
  <2>4. Top(n) # <<>>
    BY <2>2, <2>3
  <2>5. JunctionCondition(op, Top(n)) \in Good
    BY <2>1, <2>3, <2>4, JunctionGood
  <2> QED BY <2>1, <2>3, <2>5, ReadGood
<1>10. CASE ReadNot \/ ReadMacro
  <2>1. stack # <<>>
    BY <1>10 DEF ReadNot, ReadMacro
  <2>2. 1 \in Nat /\ 1 <= Len(stack)
    BY <1>1, <2>1
  <2>3. Top(1) \in Seq(Good) /\ Len(Top(1)) = 1 /\ Under(1) \in Seq(Good)
    BY <1>1, <2>2, StackSplit
  <2>4. Top(1)[1] \in Good
    BY <2>3
  <2>5. CASE ReadNot
    <3>1. NotCondition(Top(1)[1]) \in Good
      BY <2>4, NotGood
    <3> QED BY <2>3, <2>5, <3>1, ReadGood DEF ReadNot
  <2>6. CASE ReadMacro
    <3>1. PICK op \in {"exists", "all"}, a \in Attributes :
            Top(1)[1].scope = a /\ Read(Under(1), MacroCondition(op, a, Top(1)[1]))
      BY <2>6 DEF ReadMacro
    <3>2. MacroCondition(op, a, Top(1)[1]) \in Good
      BY <1>1, <2>4, <3>1, MacroGood
    <3> QED BY <2>3, <3>1, <3>2, ReadGood
  <2> QED BY <1>10, <2>5, <2>6
<1>11. CASE ReadFold
  <2>1. PICK op \in {"exists", "all"}, n \in 0 .. MaxWidth, fields \in SUBSET Attributes :
          /\ n <= Len(stack)
          /\ \A i \in 1 .. n : Top(n)[i].scope = "root"
          /\ MisusedShapes \/ \A a \in fields : ~IsCollection(doc[a])
          /\ Read(Under(n), FoldCondition(op, Top(n), fields))
    BY <1>11 DEF ReadFold
  <2>2. n \in Nat
    BY PlanBoundsAssumption
  <2>3. Top(n) \in Seq(Good) /\ DOMAIN Top(n) = 1 .. n /\ Under(n) \in Seq(Good)
    BY <1>1, <2>1, <2>2, StackSplit
  <2>4. FoldCondition(op, Top(n), fields) \in Good
    BY <1>1, <2>1, <2>3, FoldGood
  <2> QED BY <2>1, <2>3, <2>4, ReadGood
<1>12. CASE Translate
  <2>1. UNCHANGED config /\ stack[1] \in Good /\ root' = stack[1] /\ stack[1].scope = "root"
    BY <1>1, <1>12 DEF Translate
  <2>2. <<>> \in Seq(Good)
    OBVIOUS
  <2>3. stack' \in Seq(Good') /\ root' \in Good' /\ Declared'
    BY <1>1, <1>12, <2>1, <2>2, GoodStays DEF Translate
  <2>4. Searched'
    BY <1>12 DEF Translate, IInv, Searched
  <2> QED BY <1>12, <2>1, <2>3, <2>4 DEF Translate, IInv
<1>13. CASE TranslateUnconditional
  <2>1. PICK kind \in {"allowed", "denied", "unknown"} :
          /\ root' = Unconditional(kind)
          /\ phase' = IF kind = "unknown" THEN "refused" ELSE "translated"
    BY <1>13 DEF TranslateUnconditional, Unconditional
  <2>2. /\ Unconditional(kind) \in Good /\ Unconditional(kind).scope = "root"
        /\ kind # "unknown" => ~Unconditional(kind).refused[TRUE]
    BY UnconditionalGood
  <2>3. phase = "reading" /\ UNCHANGED <<config, stack, nodes, returned>>
    BY <1>13 DEF TranslateUnconditional
  <2>4. stack' \in Seq(Good') /\ root' \in Good' /\ Declared'
    BY <1>1, <2>1, <2>2, <2>3, GoodStays
  <2>5. Searched'
    BY <2>1, <2>2, <2>3 DEF IInv, Searched
  <2> QED BY <2>1, <2>2, <2>3, <2>4, <2>5 DEF IInv
<1>14. CASE Search
  <2>1. UNCHANGED config
    BY <1>14 DEF Search
  <2>2. stack' \in Seq(Good') /\ root' \in Good' /\ Declared'
    BY <1>14, <2>1, GoodStays DEF Search, IInv
  <2>3. Searched'
    <3>1. phase = "translated" /\ phase' = "answered" /\ root' = root
          /\ returned' = (TheDocument \in root.match[TRUE])
      BY <1>14 DEF Search
    <3>2. TheDocument' = TheDocument
      BY DEF TheDocument
    <3>3. ~root.refused[TRUE]
      BY <3>1 DEF IInv, Searched
    <3>4. returned' \in BOOLEAN /\ (returned' <=> TheDocument \in root.match[TRUE])
      BY <3>1, MembershipIsBoolean
    <3> QED BY <3>1, <3>2, <3>3, <3>4 DEF Searched
  <2> QED BY <1>14, <2>2, <2>3 DEF Search, IInv
<1>15. CASE UNCHANGED vars
  <2>1. UNCHANGED config
    BY <1>15 DEF vars, config
  <2>2. stack' \in Seq(Good') /\ root' \in Good' /\ Declared'
    BY <1>15, <2>1, GoodStays DEF vars, IInv
  <2> QED BY <1>15, <2>2 DEF vars, IInv, Searched
<1> QED BY <1>2, <1>3, <1>4, <1>5, <1>6, <1>7, <1>8, <1>9, <1>10, <1>11, <1>12, <1>13, <1>14, <1>15
        DEF Next

LEMMA AlwaysGood == Spec => []IInv
BY InitGood, StepGood, PTL DEF Spec

\* Type correctness: a clause of a nested query never matches a document outside its scope, whatever
\* the plan does with the shapes of the attributes.
THEOREM TypeCorrect == Spec => []TypeOK
<1>1. IInv => TypeOK
  <2> SUFFICES ASSUME IInv PROVE TypeOK
    OBVIOUS
  <2>1. \A i \in DOMAIN stack : stack[i] \in Good
    BY DEF IInv
  <2>2. \A i \in DOMAIN stack : WellTyped(stack[i])
    BY <2>1, GoodFacts
  <2>3. WellTyped(root)
    BY GoodFacts DEF IInv
  <2> QED BY <2>2, <2>3 DEF IInv, Searched, Declared, TypeOK
<1> QED BY <1>1, AlwaysGood, PTL

\* Where no plan mistakes a scalar for an array or an array for a scalar, no missing field, null,
\* empty array or coerced term proves a condition of PlanWalker true or false.
THEOREM NothingUnprovenMatches == ASSUME ~MisusedShapes PROVE Spec => []MatchesAreProven
<1>1. IInv => MatchesAreProven
  <2> SUFFICES ASSUME IInv, NEW i \in DOMAIN stack, NEW p \in BOOLEAN
               PROVE  Proves(stack[i], p)
    BY DEF MatchesAreProven
  <2>1. stack[i] \in Good
    BY DEF IInv
  <2>2. Right(stack[i]) /\ stack[i] \in ConditionsOf(stack[i].scope)
    BY <2>1, GoodFacts
  <2>3. stack[i].match[p] \subseteq Documents(stack[i].scope)
    BY <2>2 DEF ConditionsOf
  <2> QED BY <2>2, <2>3 DEF Right, Proves
<1> QED BY <1>1, AlwaysGood, PTL

\* And a clause that is not refused misses no document, save one with a null inside an array.
THEOREM OnlyNullsCanBeLost == ASSUME ~MisusedShapes PROVE Spec => []OnlyNullsAreLost
<1>1. IInv => OnlyNullsAreLost
  <2> SUFFICES ASSUME IInv, NEW i \in DOMAIN stack, NEW p \in BOOLEAN,
                      ~stack[i].refused[p], ~HoldsNull
               PROVE  Finds(stack[i], p)
    BY DEF OnlyNullsAreLost
  <2>1. stack[i] \in Good
    BY DEF IInv
  <2>2. Right(stack[i])
    BY <2>1, GoodFacts
  <2> QED BY <2>2 DEF Right, Finds
<1> QED BY <1>1, AlwaysGood, PTL

-----------------------------------------------------------------------------
(* The contract *)

LEMMA ReadStutters ==
  ASSUME NEW rest, NEW c, Read(rest, c)
  PROVE  UNCHANGED Contract!vars
<1>1. phase = "reading" /\ UNCHANGED <<config, phase, returned>>
  BY DEF Read, Room
<1>2. HoldsNull' = HoldsNull
  BY <1>1 DEF HoldsNull, Elements, config
<1>3. Outcome' = Outcome /\ VerdictName' = VerdictName
  BY <1>1 DEF Outcome, VerdictName
<1> QED BY <1>1, <1>2, <1>3 DEF Contract!vars

\* A finished translation names a verdict, and leaves the document alone.
LEMMA TranslationImplements ==
  ASSUME phase = "reading", phase' \in {"refused", "translated"}, UNCHANGED <<config, returned>>
  PROVE  Contract!Next
<1>1. Outcome = "pending" /\ VerdictName = "unknown" /\ HoldsNull' = HoldsNull
  BY DEF Outcome, VerdictName, HoldsNull, Elements, config
<1>2. Outcome' \in {"refused", "translated"} /\ VerdictName' \in {"allow", "deny", "error"}
  BY DEF Outcome, VerdictName
<1> QED BY <1>1, <1>2 DEF Contract!Next, Contract!Translate, Contract!Refuse, Contract!Verdicts

\* The search answers with what the clause matches: the document when it is allowed, unless lost.
LEMMA SearchImplements ==
  ASSUME ~MisusedShapes, IInv, Search
  PROVE  Contract!Answer
<1>1. /\ phase = "translated" /\ phase' = "answered" /\ UNCHANGED <<doc, options, root>>
      /\ returned' = (TheDocument \in root.match[TRUE])
  BY DEF Search, config
<1>2. HoldsNull' = HoldsNull /\ HoldsNull \in BOOLEAN
  BY <1>1 DEF HoldsNull, Elements
<1>3. Outcome = "translated" /\ Outcome' = "answered"
  BY <1>1 DEF Outcome
<1>4. VerdictName' = VerdictName /\ (VerdictName = "allow" <=> Verdict = True)
  BY <1>1 DEF VerdictName, Verdict, TheDocument
<1>5. root \in Good /\ root.scope = "root" /\ ~root.refused[TRUE]
  BY <1>1 DEF IInv, Searched
<1>6. Right(root) /\ TheDocument \in Documents("root")
  BY <1>5, GoodFacts, ScopeFacts DEF Documents
<1>7. /\ TheDocument \in root.match[TRUE] => Verdict = True
      /\ ~HoldsNull /\ Verdict = True => TheDocument \in root.match[TRUE]
  BY <1>5, <1>6, Constants DEF Right, Verdict
<1>8. returned' \in {VerdictName = "allow", VerdictName = "allow" /\ ~HoldsNull}
  <2>1. returned' \in BOOLEAN /\ (returned' <=> TheDocument \in root.match[TRUE])
    BY <1>1, MembershipIsBoolean
  <2> QED BY <1>2, <1>4, <1>7, <2>1
<1> QED BY <1>2, <1>3, <1>4, <1>8 DEF Contract!Answer

LEMMA StepImplements ==
  ASSUME ~MisusedShapes, IInv, [Next]_vars
  PROVE  [Contract!Next]_(Contract!vars)
<1>1. CASE \/ ReadLeaf \/ ReadVariable \/ ReadLookup \/ ReadSize \/ ReadFlatExists \/ ReadProjection
           \/ ReadRefused \/ ReadJunction \/ ReadNot \/ ReadMacro \/ ReadFold
  <2>1. \E rest, c : Read(rest, c)
    BY <1>1 DEF ReadLeaf, ReadVariable, ReadLookup, ReadSize, ReadFlatExists, ReadProjection,
                ReadRefused, ReadJunction, ReadNot, ReadMacro, ReadFold
  <2> QED BY <2>1, ReadStutters
<1>2. CASE Translate
  BY <1>2, TranslationImplements DEF Translate
<1>3. CASE TranslateUnconditional
  BY <1>3, TranslationImplements DEF TranslateUnconditional
<1>4. CASE Search
  BY <1>4, SearchImplements DEF Contract!Next
<1>5. CASE UNCHANGED vars
  BY <1>5 DEF vars, Contract!vars, Outcome, VerdictName, Verdict, TheDocument, HoldsNull, Elements
<1> QED BY <1>1, <1>2, <1>3, <1>4, <1>5 DEF Next

\* A plan is translated or refused; the search returns a document that CEL allows, and loses one it
\* allows only where a null sits inside an array.
THEOREM AdapterImplementsContract == ASSUME ~MisusedShapes PROVE Spec => ImplementsContract
<1>1. Init => Contract!Init
  BY DEF Init, Contract!Init, Outcome, VerdictName, HoldsNull
<1>2. IInv /\ [Next]_vars => [Contract!Next]_(Contract!vars)
  BY StepImplements
<1> QED BY <1>1, <1>2, AlwaysGood, PTL DEF Spec, Contract!Spec, ImplementsContract
===============================================================================
