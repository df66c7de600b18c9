---------------------------- MODULE MongooseProofs ----------------------------
(***************************************************************************)
(* What TLAPS proves of the Mongoose adapter: the filter buildFilter and   *)
(* translateNot emit for a condition matches only what CEL allows or       *)
(* denies, and loses only what a guard keeps out, for any mapper entries,  *)
(* documents, constants and size of plan.                                  *)
(***************************************************************************)
EXTENDS MongooseAdapter, FiniteSetTheorems, SequenceTheorems, TLAPS

-----------------------------------------------------------------------------
(* Values *)

\* A plan and a document hold no int64, bytes or map.
PlainTypes == {"null", "num", "str", "bool", "list", "error"}
Plain == {x \in Value : x.t \in PlainTypes}

\* What a list may hold.
Item == {x \in Value : x.t \in {"null", "num", "str", "bool"}}

\* What a path may store.
Cells == {x \in Value : x.t \in {"null", "undefined", "num", "str", "bool", "list"}}

Tri == {True, False, Err}
Lists == {"list", "many"}

LEMMA Constants ==
  /\ True # False /\ True # Err /\ False # Err /\ Null # Err /\ Undefined # Err /\ Null # Undefined
  /\ True # Null /\ False # Null /\ True # Undefined /\ False # Undefined
  /\ Bool(TRUE) = True /\ Bool(FALSE) = False
  /\ True.t = "bool" /\ False.t = "bool" /\ Err.t = "error" /\ Null.t = "null" /\ Undefined.t = "undefined"
  /\ True.v = 1 /\ False.v = 0 /\ Null.v = 0 /\ Err.v = 0
BY DEF True, False, Err, Null, Undefined, Bool

LEMMA BoolIs ==
  ASSUME NEW P
  PROVE  /\ Bool(P) = True <=> P
         /\ Bool(P) = False <=> ~P
         /\ Bool(P) \in {True, False} /\ Bool(P) # Err /\ Bool(P).t = "bool"
BY Constants DEF Bool

LEMMA TriPlain == Tri \subseteq Plain /\ Null \in Plain /\ \A x \in Tri : x.t \in {"bool", "error"}
BY DEF Tri, True, False, Err, Null, Plain, PlainTypes, Value, Types, Scalars, WellFormed

\* The special values, by their tags; a value is its tag and its integer.
LEMMA ValueIs ==
  ASSUME NEW x \in Value
  PROVE  /\ x.v \in Int
         /\ x = Err <=> x.t = "error"
         /\ x = Null <=> x.t = "null"
         /\ x = Undefined <=> x.t = "undefined"
         /\ x.t = "bool" <=> x \in {True, False}
         /\ x.t = "str" => x.v >= 0
         /\ x.t = "list" => x \in DOMAIN Members
         /\ \A y \in Value : x = y <=> x.t = y.t /\ x.v = y.v
<1>1. x \in [t : Types, v : Int] /\ WellFormed(x)
  BY DEF Value
<1>2. x.v \in Int /\ x = [t |-> x.t, v |-> x.v]
  BY <1>1
<1>3. /\ x = Err <=> x.t = "error"
      /\ x = Null <=> x.t = "null"
      /\ x = Undefined <=> x.t = "undefined"
  BY <1>1, <1>2 DEF WellFormed, Err, Null, Undefined
<1>4. x.t = "bool" <=> x \in {True, False}
  BY <1>1, <1>2 DEF WellFormed, True, False
<1>5. (x.t = "str" => x.v >= 0) /\ (x.t = "list" => x \in DOMAIN Members)
  BY <1>1 DEF WellFormed
<1>6. ASSUME NEW y \in Value PROVE x = y <=> x.t = y.t /\ x.v = y.v
  <2>1. y = [t |-> y.t, v |-> y.v]
    BY DEF Value
  <2> QED BY <1>2, <2>1
<1> QED BY <1>2, <1>3, <1>4, <1>5, <1>6

LEMMA PlainIs ==
  ASSUME NEW x \in Plain
  PROVE  /\ x \in Value /\ x \in CelValue /\ x.t \in PlainTypes /\ x.t # "int64" /\ x # Undefined
         /\ x.t = "list" => IsCollection(x)
         /\ IsCollection(x) => x.t = "list"
         /\ IsNumeric(x) <=> x.t = "num"
BY ValueIs DEF Plain, PlainTypes, CelValue, IsCollection, IsNumeric

LEMMA NumPlain == \A n \in Int : [t |-> "num", v |-> n] \in Plain
BY DEF Plain, PlainTypes, Value, Types, Scalars, WellFormed

LEMMA StrPlain == \A n \in Nat : [t |-> "str", v |-> n] \in Plain
BY DEF Plain, PlainTypes, Value, Types, Scalars, WellFormed

\* A list has a name for each of its parts.
LEMMA ListIs ==
  ASSUME NEW x \in Value, x.t = "list"
  PROVE  /\ x \in DOMAIN Members /\ IsFiniteSet(Members[x]) /\ Members[x] \subseteq Item /\ IsCollection(x)
         /\ \A S \in SUBSET Members[x] : ListOf(S) \in Plain /\ ListOf(S).t = "list" /\ Members[ListOf(S)] = S
         /\ \A y \in Value : y.t = "list" /\ Members[y] = Members[x] => y = x
<1>1. x \in DOMAIN Members
  BY ValueIs
<1>2. IsFiniteSet(Members[x]) /\ \A m \in Members[x] : m \in Value /\ m.t \in Scalars
  BY <1>1, MembersAssumption
<1>3. /\ \A m \in Members[x] : m.t # "int64"
      /\ \A S \in SUBSET Members[x] : \E k \in DOMAIN Members : k.t = "list" /\ Members[k] = S
      /\ \A k \in DOMAIN Members : k.t = "list" /\ Members[k] = Members[x] => k = x
  BY <1>1, ListsAssumption
<1>4. Members[x] \subseteq Item
  BY <1>2, <1>3 DEF Item, Scalars
<1>5. ASSUME NEW S \in SUBSET Members[x]
      PROVE  ListOf(S) \in Plain /\ ListOf(S).t = "list" /\ Members[ListOf(S)] = S
  <2>1. \E k \in DOMAIN Members : k.t = "list" /\ Members[k] = S
    BY <1>3
  <2>2. PICK k : k = ListOf(S)
    OBVIOUS
  <2>3. k \in DOMAIN Members /\ k.t = "list" /\ Members[k] = S
    BY <2>1, <2>2 DEF ListOf
  <2>4. k \in [t : {"list", "map"}, v : Int]
    BY <2>3, MembersAssumption
  <2>5. k \in Plain
    BY <2>3, <2>4 DEF Plain, PlainTypes, Value, Types, WellFormed
  <2> QED BY <2>2, <2>3, <2>5
<1>6. \A y \in Value : y.t = "list" /\ Members[y] = Members[x] => y = x
  BY <1>3, ValueIs
<1> QED BY <1>1, <1>2, <1>4, <1>5, <1>6 DEF IsCollection

LEMMA ItemIs ==
  ASSUME NEW x \in Item
  PROVE  x \in Plain /\ x \in Value /\ x \in Cells /\ ~IsCollection(x) /\ x # Undefined /\ x # Err
         /\ x.t \in {"null", "num", "str", "bool"} /\ x.t # "list"
BY ValueIs DEF Item, Plain, PlainTypes, Cells, IsCollection

-----------------------------------------------------------------------------
(* What CEL answers *)

LEMMA EqualIs == ASSUME NEW x \in Plain, NEW y \in Plain PROVE ValuesEqual(x, y) <=> x = y
<1>1. x \in Value /\ y \in Value /\ (IsNumeric(x) <=> x.t = "num") /\ (IsNumeric(y) <=> y.t = "num")
  BY PlainIs
<1> QED BY <1>1, ValueIs DEF ValuesEqual

LEMMA CompareIs ==
  ASSUME NEW op \in Comparisons, NEW x \in Plain, NEW y \in Plain
  PROVE  LET z == CompareValues(op, x, y) IN
         /\ z \in Tri
         /\ z = Err <=> x = Err \/ y = Err \/ (op \in Orderings /\ ~SameOrderedType(x, y))
         /\ op = "eq" /\ z # Err => (z = True <=> x = y)
         /\ op = "ne" /\ z # Err => (z = True <=> x # y)
         /\ op \in Orderings /\ z # Err => (z = True <=> Ordered(op, x.v, y.v))
<1>1. CASE x = Err \/ y = Err
  BY <1>1 DEF CompareValues, Tri
<1>2. CASE x # Err /\ y # Err /\ op = "eq"
  BY <1>2, EqualIs, BoolIs, Constants DEF CompareValues, Tri, Orderings
<1>3. CASE x # Err /\ y # Err /\ op = "ne"
  BY <1>3, EqualIs, BoolIs, Constants DEF CompareValues, Tri, Orderings
<1>4. CASE x # Err /\ y # Err /\ op \in Orderings
  <2>1. op # "eq" /\ op # "ne"
    BY <1>4 DEF Orderings
  <2>2. CompareValues(op, x, y) = IF SameOrderedType(x, y) THEN Bool(Ordered(op, x.v, y.v)) ELSE Err
    BY <1>4, <2>1 DEF CompareValues
  <2> QED BY <1>4, <2>1, <2>2, BoolIs, Constants DEF Tri
<1> QED BY <1>1, <1>2, <1>3, <1>4 DEF Comparisons, Equalities

\* A junction says what decides it, or what every operand says.
LEMMA JunctionIs ==
  ASSUME NEW d \in BOOLEAN, NEW S, S \subseteq Plain
  PROVE  LET z == Junction(d, S) IN
         /\ z \in Tri
         /\ z = Bool(d) <=> Bool(d) \in S
         /\ z = Bool(~d) <=> \A x \in S : x = Bool(~d)
<1>1. ASSUME NEW x \in S
      PROVE  /\ AsBoolean(x) = Bool(d) <=> x = Bool(d)
             /\ AsBoolean(x) # Bool(d) /\ AsBoolean(x) # Err <=> x = Bool(~d)
  <2>1. x \in Value /\ (x.t = "bool" <=> x \in {True, False})
    BY PlainIs, ValueIs
  <2> QED BY <2>1, Constants DEF AsBoolean, Bool
<1>2. Bool(d) \in {True, False} /\ Bool(~d) \in {True, False} /\ Bool(d) # Bool(~d)
  BY Constants DEF Bool
<1>3. CASE \E x \in S : AsBoolean(x) = Bool(d)
  BY <1>1, <1>2, <1>3 DEF Junction, Tri
<1>4. CASE ~\E x \in S : AsBoolean(x) = Bool(d)
  <2>1. CASE \E x \in S : AsBoolean(x) = Err
    BY <1>1, <1>2, <1>4, <2>1, Constants DEF Junction, Tri
  <2>2. CASE ~\E x \in S : AsBoolean(x) = Err
    BY <1>1, <1>2, <1>4, <2>2 DEF Junction, Tri
  <2> QED BY <2>1, <2>2
<1> QED BY <1>3, <1>4

LEMMA NotIs ==
  ASSUME NEW x \in Plain
  PROVE  /\ Not(x) \in Tri
         /\ Not(x) = True <=> x = False
         /\ Not(x) = False <=> x = True
<1>1. x \in Value /\ (x.t = "bool" <=> x \in {True, False})
  BY PlainIs, ValueIs
<1> QED BY <1>1, Constants DEF Not, AsBoolean, Bool, Tri

LEMMA IfIs ==
  ASSUME NEW c \in Plain, NEW a, NEW b
  PROVE  IfThenElse(c, a, b) = IF c = True THEN a ELSE IF c = False THEN b ELSE Err
<1>1. c \in Value /\ (c.t = "bool" <=> c \in {True, False})
  BY PlainIs, ValueIs
<1> QED BY <1>1, Constants DEF IfThenElse, AsBoolean

LEMMA PlusIs ==
  ASSUME NEW x \in Plain, NEW y \in Plain
  PROVE  LET z == Plus(x, y) IN
         /\ z \in Plain
         /\ z # Err <=> x.t = y.t /\ x.t \in {"num", "str"}
         /\ z # Err => z.t = x.t /\ z = [t |-> x.t, v |-> x.v + y.v]
<1>1. x \in Value /\ y \in Value /\ x.v \in Int /\ y.v \in Int
  BY PlainIs, ValueIs
<1>2. (x = Err <=> x.t = "error") /\ (y = Err <=> y.t = "error")
  BY <1>1, ValueIs
<1>3. CASE x.t = "num" /\ y.t = "num"
  <2>1. Plus(x, y) = [t |-> "num", v |-> x.v + y.v]
    BY <1>2, <1>3 DEF Plus
  <2>2. [t |-> "num", v |-> x.v + y.v] \in Plain
    BY <1>1, NumPlain
  <2> QED BY <1>3, <2>1, <2>2 DEF Err
<1>4. CASE x.t = "str" /\ y.t = "str"
  <2>1. Plus(x, y) = [t |-> "str", v |-> x.v + y.v]
    BY <1>2, <1>4 DEF Plus
  <2>2. x.v >= 0 /\ y.v >= 0
    BY <1>1, <1>4, ValueIs
  <2>3. x.v + y.v \in Nat
    BY <1>1, <2>2
  <2>4. [t |-> "str", v |-> x.v + y.v] \in Plain
    BY <2>3, StrPlain
  <2> QED BY <1>4, <2>1, <2>4 DEF Err
<1>5. CASE ~(x.t = "num" /\ y.t = "num") /\ ~(x.t = "str" /\ y.t = "str")
  <2>1. Plus(x, y) = Err
    BY <1>5 DEF Plus
  <2> QED BY <1>5, <2>1, TriPlain DEF Tri
<1> QED BY <1>3, <1>4, <1>5

LEMMA StartsIs ==
  ASSUME NEW x, NEW y
  PROVE  /\ StartsWith(x, y) \in Tri
         /\ StartsWith(x, y) # Err <=> x.t = "str" /\ y.t = "str"
         /\ StartsWith(x, y) = True <=> x.t = "str" /\ y.t = "str" /\ IsPrefix(y, x)
BY BoolIs, Constants DEF StartsWith, Tri

LEMMA SizeIs ==
  ASSUME NEW x \in Plain
  PROVE  /\ SizeOf(x) \in Plain
         /\ SizeOf(x) # Err <=> x.t \in {"str", "list"}
         /\ SizeOf(x) # Err => SizeOf(x).t = "num"
<1>1. x \in Value /\ x.v \in Int /\ (IsCollection(x) <=> x.t = "list")
  BY PlainIs, ValueIs
<1>2. CASE x.t = "str"
  BY <1>1, <1>2, NumPlain DEF SizeOf, Err
<1>3. CASE x.t = "list"
  <2>1. Cardinality(Members[x]) \in Int
    BY <1>1, <1>3, ListIs, FS_CardinalityType
  <2> QED BY <1>1, <1>3, <2>1, NumPlain DEF SizeOf, Err
<1>4. CASE x.t \notin {"str", "list"}
  BY <1>1, <1>4, TriPlain DEF SizeOf, Tri
<1> QED BY <1>2, <1>3, <1>4

LEMMA ElementIs ==
  ASSUME NEW x \in Value
  PROVE  /\ Element(x) \in Item \union {Err}
         /\ Element(x) # Err <=> x.t = "list" /\ Members[x] # {}
         /\ Element(x) # Err => Element(x) \in Members[x]
<1>1. CASE x.t = "list" /\ Members[x] # {}
  <2>1. Element(x) \in Members[x]
    BY <1>1 DEF Element
  <2>2. Element(x) \in Item
    BY <1>1, <2>1, ListIs
  <2> QED BY <1>1, <2>1, <2>2, ItemIs
<1>2. CASE ~(x.t = "list" /\ Members[x] # {})
  BY <1>2 DEF Element
<1> QED BY <1>1, <1>2

\* Reading a list: by membership, since a plan and a document hold no int64.
LEMMA InIs ==
  ASSUME NEW x \in Plain, NEW y \in Plain
  PROVE  /\ In(x, y) \in Tri
         /\ In(x, y) # Err <=> x # Err /\ y.t = "list"
         /\ In(x, y) = True <=> x # Err /\ y.t = "list" /\ x \in Members[y]
<1>1. y \in Value /\ (IsCollection(y) <=> y.t = "list")
  BY PlainIs
<1>2. ASSUME y.t = "list" PROVE (\E m \in Members[y] : ValuesEqual(m, x)) <=> x \in Members[y]
  BY <1>1, <1>2, ListIs, ItemIs, EqualIs
<1> QED BY <1>1, <1>2, BoolIs, Constants DEF In, Tri

LEMMA ListsAre ==
  ASSUME NEW x \in Plain, NEW y \in Plain
  PROVE  /\ HasIntersection(x, y) \in Tri /\ IsSubset(x, y) \in Tri
         /\ HasIntersection(x, y) # Err <=> x.t = "list" /\ y.t = "list"
         /\ IsSubset(x, y) # Err <=> x.t = "list" /\ y.t = "list"
         /\ HasIntersection(x, y) = True <=> x.t = "list" /\ y.t = "list" /\ Members[x] \intersect Members[y] # {}
         /\ IsSubset(x, y) = True <=> x.t = "list" /\ y.t = "list" /\ Members[x] \subseteq Members[y]
<1>1. x \in Value /\ y \in Value
  BY PlainIs
<1>2. ASSUME x.t = "list", y.t = "list" PROVE Meets(x, y) <=> Members[x] \intersect Members[y] # {}
  <2>1. Members[x] \subseteq Item /\ Members[y] \subseteq Item
    BY <1>1, <1>2, ListIs
  <2>2. \A a \in Members[x], b \in Members[y] : ValuesEqual(a, b) <=> a = b
    BY <2>1, ItemIs, EqualIs
  <2> QED BY <2>2 DEF Meets
<1>3. /\ HasIntersection(x, y) \in Tri
      /\ HasIntersection(x, y) # Err <=> x.t = "list" /\ y.t = "list"
      /\ HasIntersection(x, y) = True <=> x.t = "list" /\ y.t = "list" /\ Members[x] \intersect Members[y] # {}
  BY <1>2, Constants DEF HasIntersection, Bool, Tri
<1>4. /\ IsSubset(x, y) \in Tri
      /\ IsSubset(x, y) # Err <=> x.t = "list" /\ y.t = "list"
      /\ IsSubset(x, y) = True <=> x.t = "list" /\ y.t = "list" /\ Members[x] \subseteq Members[y]
  BY Constants DEF IsSubset, Bool, Tri
<1> QED BY <1>3, <1>4

LEMMA SetsAre ==
  ASSUME NEW x \in Plain, NEW y \in Plain
  PROVE  /\ Except(x, y) \in Plain /\ Intersect(x, y) \in Plain
         /\ Except(x, y).t \in {"list", "error"} /\ Intersect(x, y).t \in {"list", "error"}
         /\ Except(x, y).t = "list" <=> x.t = "list" /\ y.t = "list"
         /\ Intersect(x, y).t = "list" <=> x.t = "list" /\ y.t = "list"
         /\ x.t = "list" /\ y.t = "list" =>
              /\ Members[Except(x, y)] = Members[x] \ Members[y]
              /\ Members[Intersect(x, y)] = Members[x] \intersect Members[y]
<1>1. x \in Value /\ y \in Value
  BY PlainIs
<1>2. CASE x.t = "list" /\ y.t = "list"
  <2>1. Members[x] \ Members[y] \in SUBSET Members[x] /\ Members[x] \intersect Members[y] \in SUBSET Members[x]
    OBVIOUS
  <2> QED BY <1>1, <1>2, <2>1, ListIs DEF Except, Intersect
<1>3. CASE ~(x.t = "list" /\ y.t = "list")
  BY <1>3, TriPlain, Constants DEF Except, Intersect, Tri
<1> QED BY <1>2, <1>3

\* A macro over what its body says of the elements.
LEMMA MacroIs ==
  ASSUME NEW x \in Plain, NEW S, S \subseteq Plain
  PROVE  /\ Exists(x, S) \in Tri /\ All(x, S) \in Tri
         /\ x.t # "list" => Exists(x, S) = Err /\ All(x, S) = Err
         /\ x.t = "list" =>
              /\ Exists(x, S) = True <=> True \in S
              /\ Exists(x, S) = False <=> \A y \in S : y = False
              /\ All(x, S) = True <=> \A y \in S : y = True
              /\ All(x, S) = False <=> False \in S
<1>1. IsCollection(x) <=> x.t = "list"
  BY PlainIs
<1>2. Bool(TRUE) = True /\ Bool(FALSE) = False /\ Bool(~TRUE) = False /\ Bool(~FALSE) = True
  BY DEF Bool
<1>3. /\ Junction(TRUE, S) \in Tri
      /\ Junction(TRUE, S) = Bool(TRUE) <=> Bool(TRUE) \in S
      /\ Junction(TRUE, S) = Bool(~TRUE) <=> \A y \in S : y = Bool(~TRUE)
  BY JunctionIs
<1>4. /\ Junction(FALSE, S) \in Tri
      /\ Junction(FALSE, S) = Bool(FALSE) <=> Bool(FALSE) \in S
      /\ Junction(FALSE, S) = Bool(~FALSE) <=> \A y \in S : y = Bool(~FALSE)
  BY JunctionIs
<1> QED BY <1>1, <1>2, <1>3, <1>4 DEF Exists, All, Tri

-----------------------------------------------------------------------------
(* What holds of a node. E are the elements of the relation, A says that there is a relation, and L *)
(* that an element is a null the mapper takes for an absent attribute.                               *)

Envs(E, scope) == IF scope = "element" THEN E ELSE {Root}

FilterTyped(f, F) ==
  /\ f.throws \in BOOLEAN /\ f.aborts \in BOOLEAN
  /\ ~f.throws => f.match \in [F -> BOOLEAN]

NodeTyped(n, E, A) ==
  /\ n.kind \in AllOperators \union {"value", "variable"}
  /\ n.shape \in Shapes \union {"none"}
  /\ n.scope \in {"none", "root", "element"}
  /\ n.type \in {"none", "num", "str", "bool", "mixed"}
  /\ n.lit \in Cells
  /\ n.nullable \in BOOLEAN /\ n.elementNullable \in BOOLEAN /\ n.aggThrows \in BOOLEAN
  /\ n.exprGuard \in BOOLEAN /\ n.typed \in BOOLEAN
  /\ n.scope = "element" => A
  /\ n.val \in [Envs(E, n.scope) -> Plain]
  /\ DOMAIN n.agg = Envs(E, n.scope)
  /\ n.guard \in [Envs(E, n.scope) -> BOOLEAN]
  /\ FilterTyped(n.yes, Envs(E, n.scope))
  /\ FilterTyped(n.no, Envs(E, n.scope))

ValueFine(n) ==
  /\ n.lit \in Plain /\ n.lit.t # "error"
  /\ n.shape = "none" /\ n.scope = "none" /\ ~n.nullable
  /\ n.type = (IF n.lit.t \in {"num", "str", "bool"} THEN n.lit.t ELSE "none")
  /\ n.val[Root] = n.lit /\ n.agg[Root] = n.lit /\ n.guard[Root]
  /\ ~n.aggThrows /\ ~n.exprGuard /\ n.typed
  /\ n.yes.throws /\ n.no.throws

\* What is stored at a path, what the application sends for it, and whether its guards hold.
CellFine(n, x, v, g) ==
  /\ x \in Cells
  /\ x.t = "list" => n.shape \in Lists
  /\ n.shape \in Lists => x.t \in {"null", "undefined", "list"}
  /\ v = IF x = Undefined \/ (n.nullable /\ x = Null) THEN Err ELSE x
  /\ g = VariableGuard(n.shape, n.nullable, x)
  /\ n.type # "none" => \A m \in IF IsCollection(x) THEN Members[x] ELSE {x} : m.t = n.type \/ Missing(m)
  /\ x = Undefined /\ ~n.nullable => n.shape \in {"one", "list", "many"}

VariableFine(n, E, A, L) ==
  /\ n.shape \in Shapes
  /\ n.lit = Undefined
  /\ n.scope = (IF n.shape = "element" THEN "element" ELSE "root")
  /\ n.type \in {"none", "num", "str", "bool"}
  /\ ~n.aggThrows /\ ~n.exprGuard /\ n.typed
  /\ \A e \in Envs(E, n.scope) : CellFine(n, n.agg[e], n.val[e], n.guard[e])
  /\ n.shape = "element" =>
       /\ \A e \in E : n.agg[e] = e
       /\ n.nullable /\ Null \in E => L
  /\ n.shape = "many" =>
       /\ A
       /\ Elements(n.agg[Root]) = E
       /\ n.elementNullable /\ Null \in E => L \/ ~n.guard[Root]

\* A projection of the relation: a list of its elements, when each has one.
MapFine(n, E, A, L) ==
  /\ n.shape = "many" /\ n.scope = "root" /\ n.lit = Undefined /\ A
  /\ n.agg[Root] \in Cells /\ n.agg[Root].t \in {"null", "undefined", "list"}
  /\ Elements(n.agg[Root]) = E
  /\ n.val[Root] = IF n.agg[Root].t = "list" /\ ~(n.nullable /\ Null \in E) THEN n.agg[Root] ELSE Err
  /\ n.type # "none" => \A m \in E : m.t = n.type \/ m = Null
  /\ n.nullable /\ Null \in E => L
  /\ n.aggThrows /\ n.yes.throws /\ n.no.throws

ExpressionFine(n) == n.shape = "none" /\ n.lit = Undefined /\ n.scope # "none" /\ ~n.nullable

\* What the pipeline computes, if it does.
Computes(a, v) == a # Err => a = v /\ v # Err

Agrees(n, E) ==
  n.shape \notin Lists /\ n.typed /\ ~n.aggThrows =>
    \A e \in Envs(E, n.scope) : n.guard[e] => Computes(n.agg[e], n.val[e])

TypeTold(n, E) ==
  n.shape \notin Lists /\ n.type \in {"num", "str", "bool"} =>
    \A e \in Envs(E, n.scope) : n.val[e].t \in {n.type, "error", "null"}

\* What may keep a document out: an element's null, or outside a lambda a guard.
Lost(n, e, L) == L \/ (n.scope # "element" /\ ~n.guard[e])

IsTri(x) == x.t \in {"bool", "error"}

Allows(f, e, v, lost, atRoot) ==
  Runs(f) => /\ f.match[e] => v = True \/ (atRoot /\ ~IsTri(v))
             /\ v = True => f.match[e] \/ lost

Denies(f, e, v, lost) ==
  Runs(f) => /\ f.match[e] /\ IsTri(v) => v = False
             /\ v = False => f.match[e] \/ lost

\* No guard of an element that $elemMatch cannot hold is lost.
ElementGuarded(n, E, L) ==
  n.scope = "element" /\ ~n.exprGuard /\ (~n.yes.throws \/ ~n.no.throws) =>
    \A e \in E : n.guard[e] \/ L

Proven(n, E, L) ==
  /\ \A e \in Envs(E, n.scope) :
       /\ Allows(n.yes, e, n.val[e], Lost(n, e, L), n.scope = "root")
       /\ Denies(n.no, e, n.val[e], Lost(n, e, L))
  /\ ElementGuarded(n, E, L)

IsEmpty(x) == x.t = "list" /\ Members[x] = {}
Holds(x) == x.t = "list" /\ Members[x] # {}

\* except() and intersect() are read through a comparison with the empty list.
SetProven(n, L) ==
  /\ n.scope = "root" /\ n.val[Root].t \in {"list", "error"}
  /\ Runs(n.yes) => /\ n.yes.match[Root] => IsEmpty(n.val[Root])
                    /\ IsEmpty(n.val[Root]) => n.yes.match[Root] \/ Lost(n, Root, L)
  /\ Runs(n.no) => /\ n.no.match[Root] => Holds(n.val[Root])
                   /\ Holds(n.val[Root]) => n.no.match[Root] \/ Lost(n, Root, L)

ReadsFine(n, E, L) ==
  IF n.kind \in SetOperations THEN SetProven(n, L) ELSE n.shape \notin Lists => Proven(n, E, L)

NodeFine(n, E, A, L) ==
  /\ NodeTyped(n, E, A)
  /\ n.kind = "value" => ValueFine(n)
  /\ n.kind = "variable" => VariableFine(n, E, A, L)
  /\ n.kind = "map" => MapFine(n, E, A, L)
  /\ n.kind \notin {"value", "variable", "map"} => ExpressionFine(n)
  /\ Agrees(n, E)
  /\ TypeTold(n, E)
  /\ Admitted = {} => ReadsFine(n, E, L)

\* A later reading adds references, and leaves the relation as it is once it has been read.
LEMMA Grows ==
  ASSUME NEW n, NEW E, NEW A, NEW L, NEW F, NEW B, NEW M,
         NodeFine(n, E, A, L), A => B /\ E = F, L => M
  PROVE  NodeFine(n, F, B, M)
<1>1. n.scope = "element" => A
  BY DEF NodeFine, NodeTyped
<1>2. Envs(E, n.scope) = Envs(F, n.scope)
  BY <1>1 DEF Envs
<1>3. NodeTyped(n, F, B)
  BY <1>1, <1>2 DEF NodeFine, NodeTyped
<1>4. n.kind = "variable" => VariableFine(n, F, B, M)
  <2> SUFFICES ASSUME n.kind = "variable", VariableFine(n, E, A, L) PROVE VariableFine(n, F, B, M)
    BY DEF NodeFine
  <2>1. n.shape = "element" => n.scope = "element"
    BY DEF VariableFine
  <2> QED BY <1>1, <1>2, <2>1 DEF VariableFine
<1>5. n.kind = "map" => MapFine(n, F, B, M)
  BY DEF NodeFine, MapFine
<1>6. Agrees(n, F) /\ TypeTold(n, F)
  BY <1>2 DEF NodeFine, Agrees, TypeTold
<1>7. ASSUME Admitted = {} PROVE ReadsFine(n, F, M)
  <2>1. ReadsFine(n, E, L)
    BY <1>7 DEF NodeFine
  <2>2. \A e : Lost(n, e, L) => Lost(n, e, M)
    BY DEF Lost
  <2>3. CASE n.kind \in SetOperations
    BY <2>1, <2>2, <2>3 DEF ReadsFine, SetProven
  <2>4. CASE n.kind \notin SetOperations /\ n.shape \notin Lists
    <3>1. Proven(n, E, L)
      BY <2>1, <2>4 DEF ReadsFine
    <3>2. ElementGuarded(n, F, M)
      BY <1>1, <3>1 DEF Proven, ElementGuarded
    <3>3. \A e \in Envs(F, n.scope) :
            /\ Allows(n.yes, e, n.val[e], Lost(n, e, M), n.scope = "root")
            /\ Denies(n.no, e, n.val[e], Lost(n, e, M))
      BY <1>2, <2>2, <3>1 DEF Proven, Allows, Denies
    <3> QED BY <2>4, <3>2, <3>3 DEF ReadsFine, Proven
  <2>5. CASE n.kind \notin SetOperations /\ n.shape \in Lists
    BY <2>5 DEF ReadsFine
  <2> QED BY <2>3, <2>4, <2>5
<1> QED BY <1>3, <1>4, <1>5, <1>6, <1>7 DEF NodeFine

-----------------------------------------------------------------------------
(* The operands of an expression *)

\* The environment an operand is read in.
Place(n, e) == IF n.scope = "element" THEN e ELSE Root

\* An operand, seen from an environment of the expression: what CEL says of it, what the pipeline
\* computes for it and whether its guards hold.
LEMMA OperandIs ==
  ASSUME NEW n, NEW E, NEW A, NEW L, NodeFine(n, E, A, L),
         NEW scope, n.scope = "element" => scope = "element", NEW e \in Envs(E, scope)
  PROVE  LET v == At(n.val, e)
             a == At(n.agg, e)
             g == At(n.guard, e)
             d == Place(n, e)
         IN /\ d \in Envs(E, n.scope) /\ v = n.val[d] /\ a = n.agg[d] /\ g = n.guard[d]
            /\ v \in Plain /\ g \in BOOLEAN
            /\ n.shape \notin Lists /\ n.typed /\ ~n.aggThrows /\ g => Computes(a, v)
            /\ n.shape \notin Lists /\ n.type \in {"num", "str", "bool"} => v.t \in {n.type, "error", "null"}
            /\ n.kind = "value" => v = n.lit /\ a = n.lit /\ g
            /\ n.kind = "variable" => CellFine(n, a, v, g)
<1>1. PICK d : d = Place(n, e)
  OBVIOUS
<1>2. NodeTyped(n, E, A)
  BY DEF NodeFine
<1>3. d \in Envs(E, n.scope) /\ At(n.val, e) = n.val[d] /\ At(n.agg, e) = n.agg[d] /\ At(n.guard, e) = n.guard[d]
  <2>1. DOMAIN n.val = Envs(E, n.scope) /\ DOMAIN n.agg = Envs(E, n.scope) /\ DOMAIN n.guard = Envs(E, n.scope)
    BY <1>2 DEF NodeTyped
  <2> QED BY <1>1, <2>1 DEF Envs, At, Place
<1>4. n.val[d] \in Plain /\ n.guard[d] \in BOOLEAN
  BY <1>2, <1>3 DEF NodeTyped
<1>5. n.shape \notin Lists /\ n.typed /\ ~n.aggThrows /\ n.guard[d] => Computes(n.agg[d], n.val[d])
  BY <1>3 DEF NodeFine, Agrees
<1>6. n.shape \notin Lists /\ n.type \in {"num", "str", "bool"} => n.val[d].t \in {n.type, "error", "null"}
  BY <1>3 DEF NodeFine, TypeTold
<1>7. n.kind = "value" => n.val[d] = n.lit /\ n.agg[d] = n.lit /\ n.guard[d]
  BY <1>1 DEF NodeFine, ValueFine, Place
<1>8. n.kind = "variable" => CellFine(n, n.agg[d], n.val[d], n.guard[d])
  BY <1>3 DEF NodeFine, VariableFine
<1> QED BY <1>1, <1>3, <1>4, <1>5, <1>6, <1>7, <1>8

LEMMA TruthyIs ==
  ASSUME NEW x \in Plain
  PROVE  /\ x \in {True, False} => (Truthy(x) <=> x = True)
         /\ x = True => Truthy(x)
         /\ Truthy(x) /\ x.t = "bool" => x = True
<1>1. x \in Value /\ (x.t = "bool" <=> x \in {True, False})
  BY PlainIs, ValueIs
<1>2. True # [t |-> "num", v |-> 0] /\ ~Missing(True) /\ ~Missing(False)
  BY Constants DEF True, Missing
<1> QED BY <1>1, <1>2, Constants DEF Truthy

\* The two orders agree on two values of one type.
LEMMA BsonIs ==
  ASSUME NEW op \in Comparisons, NEW x \in Plain, NEW y \in Plain, x # Err, y # Err,
         op \in Orderings => SameOrderedType(x, y)
  PROVE  Bool(BsonCompare(op, x, y)) = CompareValues(op, x, y)
<1>1. x \in Value /\ y \in Value /\ x.v \in Int /\ y.v \in Int /\ x.t # "int64" /\ y.t # "int64"
  BY PlainIs, ValueIs
<1>2. CASE op = "eq"
  BY <1>2, EqualIs DEF CompareValues, BsonCompare, Bool
<1>3. CASE op = "ne"
  BY <1>3, EqualIs DEF CompareValues, BsonCompare, Bool
<1>4. CASE op \in Orderings
  <2>1. op # "eq" /\ op # "ne" /\ x.t = y.t
    BY <1>1, <1>4 DEF Orderings, SameOrderedType, IsNumeric
  <2>2. CompareValues(op, x, y) = Bool(Ordered(op, x.v, y.v))
    BY <1>4, <2>1 DEF CompareValues
  <2>3. (BsonLess(x, y) <=> x.v < y.v) /\ (BsonLess(y, x) <=> y.v < x.v)
    <3>1. PICK k : k = BsonRank(x.t)
      OBVIOUS
    <3>2. ~(BsonRank(x.t) < BsonRank(y.t)) /\ ~(BsonRank(y.t) < BsonRank(x.t))
      <4>1. BsonRank(x.t) = BsonRank(y.t)
        BY <2>1
      <4>2. BsonRank(x.t) \in Int
        BY DEF BsonRank
      <4> QED BY <4>1, <4>2
    <3> QED BY <2>1, <3>2 DEF BsonLess
  <2>4. BsonCompare(op, x, y) <=> Ordered(op, x.v, y.v)
    <3>1. CASE op = "lt"
      BY <1>1, <2>3, <3>1 DEF BsonCompare, Ordered
    <3>2. CASE op = "le"
      BY <1>1, <2>3, <3>2 DEF BsonCompare, Ordered
    <3>3. CASE op = "gt"
      BY <1>1, <2>3, <3>3 DEF BsonCompare, Ordered
    <3>4. CASE op = "ge"
      BY <1>1, <2>3, <3>4 DEF BsonCompare, Ordered
    <3> QED BY <1>4, <3>1, <3>2, <3>3, <3>4 DEF Orderings
  <2>5. CASE Ordered(op, x.v, y.v)
    <3>1. Bool(BsonCompare(op, x, y)) = True
      BY <2>4, <2>5 DEF Bool
    <3>2. Bool(Ordered(op, x.v, y.v)) = True
      BY <2>5 DEF Bool
    <3> QED BY <2>2, <3>1, <3>2
  <2>6. CASE ~Ordered(op, x.v, y.v)
    <3>1. Bool(BsonCompare(op, x, y)) = False
      BY <2>4, <2>6 DEF Bool
    <3>2. Bool(Ordered(op, x.v, y.v)) = False
      BY <2>6 DEF Bool
    <3> QED BY <2>2, <3>1, <3>2
  <2> QED BY <2>5, <2>6
<1> QED BY <1>2, <1>3, <1>4 DEF Comparisons, Equalities

-----------------------------------------------------------------------------
(* What the pipeline computes, operator by operator *)

LEMMA AddComputes ==
  ASSUME NEW args, NEW a, NEW b, NEW v \in Plain, NEW w \in Plain,
         a = v, b = w, Plus(v, w) # Err,
         args[1].kind = "value" => v = args[1].lit,
         args[2].kind = "value" => w = args[2].lit,
         args[1].kind \notin {"value", "variable"} /\ args[1].type = "str" => v.t \in {"str", "error", "null"},
         args[2].kind \notin {"value", "variable"} /\ args[2].type = "str" => w.t \in {"str", "error", "null"}
  PROVE  Computes(Add(args, a, b), Plus(v, w))
<1>1. v.t = w.t /\ v.t \in {"num", "str"} /\ Plus(v, w) = [t |-> v.t, v |-> v.v + w.v]
  BY PlusIs
<1>2. ~Missing(a) /\ ~Missing(b)
  BY <1>1, Constants DEF Missing
<1>3. v.t = "num" => ~Concatenates(args)
  <2> SUFFICES ASSUME v.t = "num", NEW i \in 1 .. 2
               PROVE  /\ ~(args[i].kind = "value" /\ args[i].lit.t = "str")
                      /\ ~(args[i].kind \notin {"value", "variable"} /\ args[i].type = "str")
    BY DEF Concatenates
  <2>1. CASE i = 1
    BY <2>1
  <2>2. CASE i = 2
    BY <1>1, <2>2
  <2> QED BY <2>1, <2>2
<1>4. CASE v.t = (IF Concatenates(args) THEN "str" ELSE "num")
  <2>1. Add(args, a, b) = [t |-> v.t, v |-> v.v + w.v]
    BY <1>1, <1>2, <1>4 DEF Add
  <2> QED BY <1>1, <2>1 DEF Computes
<1>5. CASE v.t # (IF Concatenates(args) THEN "str" ELSE "num")
  <2>1. Add(args, a, b) = Err
    BY <1>1, <1>2, <1>5 DEF Add
  <2> QED BY <2>1 DEF Computes
<1> QED BY <1>4, <1>5

LEMMA DividedIs == ASSUME NEW op, NEW a \in Int, NEW b \in Int, b # 0 PROVE Divided(op, a, b) \in Int
<1>1. PICK c, n : c = (IF b < 0 THEN -b ELSE b) /\ n = (IF b < 0 THEN -a ELSE a)
  OBVIOUS
<1>2. c \in Nat /\ c > 0 /\ n \in Int
  BY <1>1
<1>3. n \div c \in Int /\ a % c \in Int
  BY <1>2
<1>4. (-1) * a = -a /\ 1 * a = a /\ (-1) * b = -b /\ 1 * b = b
  OBVIOUS
<1>5. Divided(op, a, b) = IF op = "div" THEN n \div c ELSE a % c
  BY <1>1, <1>4 DEF Divided
<1> QED BY <1>3, <1>5

LEMMA DivideComputes ==
  ASSUME NEW op \in {"div", "mod"}, NEW args, NEW v \in Plain, v.t = "num", ~DivideThrows(op, args)
  PROVE  /\ Computes(Divide(op, v, args[2].lit), DividedBy(op, args, v, args[2].lit))
         /\ DividedBy(op, args, v, args[2].lit).t \in {"num", "error"}
<1>1. args[2].lit.t = "num" /\ args[2].lit.v # 0 /\ (op = "mod" => args[1].kind = "size")
  BY DEF DivideThrows
<1>2. ~Missing(v)
  BY Constants DEF Missing
<1> QED BY <1>1, <1>2 DEF Divide, DividedBy, Computes, Err

LEMMA JunctionComputes ==
  ASSUME NEW op \in Junctions, NEW a, NEW b, NEW v \in Plain, NEW w \in Plain, IsTri(v), IsTri(w),
         Computes(a, v), Computes(b, w)
  PROVE  Computes(AggregateJunction(op = "or", a, b), Junction(op = "or", {v, w}))
<1>1. PICK d \in BOOLEAN : d = (op = "or")
  OBVIOUS
<1>2. v \in Tri /\ w \in Tri
  BY PlainIs, ValueIs DEF IsTri, Tri
<1>3. /\ Junction(d, {v, w}) \in Tri
      /\ Junction(d, {v, w}) = Bool(d) <=> Bool(d) \in {v, w}
      /\ Junction(d, {v, w}) = Bool(~d) <=> \A x \in {v, w} : x = Bool(~d)
  BY JunctionIs
<1>4. CASE a = Err
  BY <1>1, <1>4 DEF AggregateJunction, Computes
<1>5. CASE a # Err /\ a = Bool(d)
  <2>1. Truthy(a) <=> d
    BY <1>5, Constants, TruthyIs, TriPlain DEF Bool, Tri
  <2>2. AggregateJunction(d, a, b) = Bool(d) /\ Bool(d) # Err
    BY <1>5, <2>1, BoolIs DEF AggregateJunction, Truthy
  <2>3. v = Bool(d)
    BY <1>5 DEF Computes
  <2> QED BY <1>1, <1>3, <2>2, <2>3 DEF Computes
<1>6. CASE a # Err /\ a # Bool(d)
  <2>1. a = Bool(~d) /\ v = Bool(~d) /\ Bool(d) # Bool(~d) /\ Bool(~d) # Err
    BY <1>2, <1>6, Constants DEF Computes, Tri, Bool
  <2>2. Truthy(a) <=> ~d
    BY <2>1, Constants, TruthyIs, TriPlain DEF Bool, Tri
  <2>3. AggregateJunction(d, a, b) = IF b = Err THEN Err ELSE Bool(Truthy(b))
    BY <1>6, <2>2 DEF AggregateJunction, Truthy
  <2>4. CASE b = Err
    BY <1>1, <2>3, <2>4 DEF Computes
  <2>5. CASE b # Err
    <3>1. b = w /\ w \in {True, False}
      BY <1>2, <2>5 DEF Computes, Tri
    <3>2. Bool(Truthy(b)) = w
      BY <3>1, TruthyIs, Constants DEF Bool
    <3>3. w = Bool(d) \/ w = Bool(~d)
      BY <3>1 DEF Bool
    <3>4. Junction(d, {v, w}) = w
      BY <1>3, <2>1, <3>3
    <3> QED BY <1>1, <2>3, <2>5, <3>1, <3>2, <3>4 DEF Computes
  <2> QED BY <2>4, <2>5
<1> QED BY <1>4, <1>5, <1>6

-----------------------------------------------------------------------------
(* The operands of a plan's expression *)

NodeOK(n) == NodeFine(n, ElementEnvs, Array # {}, NullElement)

Well(op, args) ==
  /\ op \in AllOperators
  /\ \E k \in Widths(op) : DOMAIN args = 1 .. k
  /\ \A i \in DOMAIN args : NodeOK(args[i])
  /\ WellFormedPlan(op, args)
  /\ ElementEnvs \subseteq Item

\* Every operator but the macros and map() reads its operands where it stands.
Inside(op) == op \notin Macros \union {"map"}

Binary == Junctions \union Comparisons \union Macros
  \union {"in", "add", "div", "mod", "startsWith", "matches", "map", "hasIntersection", "isSubset", "except", "intersect"}

LEMMA WidthIs ==
  ASSUME NEW op, NEW args, Well(op, args)
  PROVE  /\ op \in {"not", "size", "index"} \union ConditionalLists => DOMAIN args = 1 .. 1
         /\ op \in {"if"} \union Folds => DOMAIN args = 1 .. 3
         /\ op \in Binary => DOMAIN args = 1 .. 2
         /\ 1 \in DOMAIN args
BY DEF Well, Widths, Binary, AllOperators, Junctions, Comparisons, Equalities, Orderings, Macros, ConditionalLists, Folds

LEMMA ShapeIs ==
  ASSUME NEW n, NodeOK(n)
  PROVE  /\ n.shape \in Lists => n.kind \in {"variable", "map"}
         /\ n.kind = "map" => n.shape = "many"
         /\ n.scope \in {"none", "root", "element"}
         /\ n.scope = "none" => n.kind = "value"
         /\ n.kind = "value" => n.scope = "none"
         /\ n.kind # "value" => n.lit = Undefined
BY DEF NodeOK, NodeFine, NodeTyped, ValueFine, VariableFine, MapFine, ExpressionFine, Lists, Shapes

LEMMA ScopeIs ==
  ASSUME NEW op, NEW args, Well(op, args)
  PROVE  LET s == ScopeOf(args) IN
         /\ s \in {"root", "element"}
         /\ \A i \in DOMAIN args : args[i].scope = "element" => s = "element"
         /\ s = "element" => Array # {}
         /\ s = "root" => \A i \in DOMAIN args : args[i].scope \in {"none", "root"}
         /\ s = "element" /\ ~OuterReference(op, args) /\ Inside(op) =>
              \A i \in DOMAIN args : args[i].scope \in {"none", "element"}
<1>1. ScopeOf(args) # "none"
  BY DEF Well, WellFormedPlan
<1>2. \A i \in DOMAIN args : args[i].scope \in {"none", "root", "element"} /\ (args[i].scope = "element" => Array # {})
  BY ShapeIs DEF Well, NodeOK, NodeFine, NodeTyped
<1> QED BY <1>1, <1>2 DEF ScopeOf, OuterReference, Inside

\* A list is read only where one is meant.
LEMMA ScalarOperands ==
  ASSUME NEW op, NEW args, Well(op, args), NEW i \in DOMAIN args
  PROVE  /\ op \in Junctions \union Comparisons \union ConditionalLists \union Folds
                     \union {"not", "if", "add", "div", "mod", "startsWith", "matches"} => args[i].shape \notin Lists
         /\ op \in {"size", "index"} /\ args[i].shape \in Lists => args[i].kind = "variable" /\ args[i].shape = "list"
         /\ args[i].kind \in SetOperations => op \in Equalities /\ EmptinessTest(args, i)
         /\ args[i].kind = "map" => op \in {"in", "hasIntersection"}
         /\ op = "in" /\ i = 1 => args[i].shape \notin Lists \/ args[i].kind = "map"
<1>1. WellFormedPlan(op, args) /\ NodeOK(args[i])
  BY DEF Well
<1>2. args[i].shape \in Lists => args[i].kind \in {"variable", "map"}
  BY <1>1, ShapeIs
<1>3. /\ args[i].kind \in SetOperations => op \in Equalities /\ EmptinessTest(args, i)
      /\ args[i].kind = "map" => op \in {"in", "hasIntersection"}
  BY <1>1 DEF WellFormedPlan
<1>4. args[i].kind = "variable" /\ args[i].shape \in {"list", "many"} =>
        \/ op \in {"hasIntersection", "isSubset"} \union SetOperations
        \/ op = "in" /\ i = 2
        \/ op \in Macros \union {"map"} /\ i = 1
        \/ op \in {"size", "index"} /\ args[i].shape = "list"
  BY <1>1 DEF WellFormedPlan
<1> QED BY <1>2, <1>3, <1>4 DEF Lists, SetOperations, Macros, Junctions, Comparisons, Equalities, Orderings,
      ConditionalLists, Folds

\* An operand of an operator that reads it where it stands.
LEMMA WellOperand ==
  ASSUME NEW op, NEW args, Well(op, args), NEW i \in DOMAIN args,
         NEW e \in Envs(ElementEnvs, ScopeOf(args))
  PROVE  LET n == args[i]
             v == At(n.val, e)
             a == At(n.agg, e)
             g == At(n.guard, e)
             d == Place(n, e)
         IN /\ NodeOK(n)
            /\ d \in Envs(ElementEnvs, n.scope) /\ v = n.val[d] /\ a = n.agg[d] /\ g = n.guard[d]
            /\ v \in Plain /\ g \in BOOLEAN
            /\ n.shape \notin Lists /\ n.typed /\ ~n.aggThrows /\ g => Computes(a, v)
            /\ n.shape \notin Lists /\ n.type \in {"num", "str", "bool"} => v.t \in {n.type, "error", "null"}
            /\ n.kind = "value" => v = n.lit /\ a = n.lit /\ g
            /\ n.kind = "variable" => CellFine(n, a, v, g)
<1>1. NodeOK(args[i]) /\ (args[i].scope = "element" => ScopeOf(args) = "element")
  BY ScopeIs DEF Well
<1> QED BY <1>1, OperandIs DEF NodeOK

-----------------------------------------------------------------------------
(* The pipeline agrees with CEL behind the guards *)

\* The operators of AGGREGATION_OPERATORS.
Tabled == Comparisons \union Junctions
  \union {"not", "if", "add", "div", "mod", "size", "index", "startsWith", "matches"}

\* In an environment where the guards of every operand hold, and the pipeline can be built.
Computable(op, args, e) ==
  /\ \A i \in DOMAIN args : args[i].typed /\ At(args[i].guard, e)
  /\ HasOverload(op, args, e)
  /\ ~AggregateThrows(op, args)

\* What the pipeline reads of the operands.
Inputs(args, e) == [i \in DOMAIN args |-> At(args[i].agg, e)]

LEMMA OperandComputes ==
  ASSUME NEW op, NEW args, Well(op, args), NEW e \in Envs(ElementEnvs, ScopeOf(args)), Computable(op, args, e),
         NEW i \in DOMAIN args
  PROVE  LET v == At(args[i].val, e)
             a == At(args[i].agg, e)
         IN /\ v \in Plain
            /\ args[i].shape \notin Lists => Computes(a, v)
            /\ args[i].kind = "value" => v = args[i].lit /\ a = args[i].lit
            /\ a.t \in {"str", "list"} /\ a # Err => v = a
<1>1. ~args[i].aggThrows /\ args[i].typed /\ At(args[i].guard, e)
  BY DEF Computable, AggregateThrows
<1>2. args[i].shape \notin Lists => Computes(At(args[i].agg, e), At(args[i].val, e))
  BY <1>1, WellOperand
<1>3. ASSUME args[i].shape \in Lists PROVE args[i].kind = "variable"
  <2>1. NodeOK(args[i])
    BY DEF Well
  <2>2. args[i].kind \in {"variable", "map"}
    BY <1>3, <2>1, ShapeIs
  <2>3. args[i].kind = "map" => args[i].aggThrows
    BY <2>1 DEF NodeOK, NodeFine, MapFine
  <2> QED BY <1>1, <2>2, <2>3
<1>4. args[i].kind = "variable" => CellFine(args[i], At(args[i].agg, e), At(args[i].val, e), At(args[i].guard, e))
  BY WellOperand
<1>5. ASSUME At(args[i].agg, e).t \in {"str", "list"}, At(args[i].agg, e) # Err
      PROVE  At(args[i].val, e) = At(args[i].agg, e)
  <2>1. CASE args[i].shape \notin Lists
    BY <1>2, <1>5, <2>1 DEF Computes
  <2>2. CASE args[i].shape \in Lists
    BY <1>3, <1>4, <1>5, <2>2, Constants DEF CellFine
  <2> QED BY <2>1, <2>2
<1> QED BY <1>2, <1>5, WellOperand

LEMMA OverloadIs ==
  ASSUME NEW op, NEW args, NEW e, HasOverload(op, args, e)
  PROVE  /\ op \in Junctions \union {"not"} => \A i \in DOMAIN args : IsTri(At(args[i].val, e))
         /\ op \in {"if"} \union ConditionalLists => IsTri(At(args[1].val, e))
         /\ (\A i \in DOMAIN args : At(args[i].val, e) # Err) =>
              /\ op \in Orderings => SameOrderedType(At(args[1].val, e), At(args[2].val, e))
              /\ op = "add" => Plus(At(args[1].val, e), At(args[2].val, e)) # Err
              /\ op \in {"div", "mod"} => At(args[1].val, e).t = "num"
<1>1. op \in Junctions \union {"not"} => \A i \in DOMAIN args : IsTri(At(args[i].val, e))
  BY DEF HasOverload, IsTri
<1>2. op \in {"if"} \union ConditionalLists => op \notin Junctions \union {"not"}
  BY DEF ConditionalLists, Junctions
<1>3. op \in {"if"} \union ConditionalLists => IsTri(At(args[1].val, e))
  BY <1>2 DEF HasOverload, IsTri
<1> QED BY <1>1, <1>3 DEF HasOverload

\* What CEL says of an expression, operator by operator.
LEMMA EvaluateIs ==
  ASSUME NEW op, NEW args, NEW e
  PROVE  /\ op = "not" => Evaluate(op, args, e) = Not(At(args[1].val, e))
         /\ op = "in" => Evaluate(op, args, e) = In(At(args[1].val, e), At(args[2].val, e))
         /\ op = "if" => Evaluate(op, args, e) = IfThenElse(At(args[1].val, e), At(args[2].val, e), At(args[3].val, e))
         /\ op = "add" => Evaluate(op, args, e) = Plus(At(args[1].val, e), At(args[2].val, e))
         /\ op = "size" => Evaluate(op, args, e) = SizeOf(At(args[1].val, e))
         /\ op = "index" => Evaluate(op, args, e) = Element(At(args[1].val, e))
         /\ op = "hasIntersection" => Evaluate(op, args, e) = HasIntersection(At(args[1].val, e), At(args[2].val, e))
         /\ op = "isSubset" => Evaluate(op, args, e) = IsSubset(At(args[1].val, e), At(args[2].val, e))
         /\ op = "except" => Evaluate(op, args, e) = Except(At(args[1].val, e), At(args[2].val, e))
         /\ op = "intersect" => Evaluate(op, args, e) = Intersect(At(args[1].val, e), At(args[2].val, e))
         /\ op \in Comparisons => Evaluate(op, args, e) = CompareValues(op, At(args[1].val, e), At(args[2].val, e))
         /\ op \in {"div", "mod"} => Evaluate(op, args, e) = DividedBy(op, args, At(args[1].val, e), At(args[2].val, e))
         /\ op \in {"startsWith", "matches"} => Evaluate(op, args, e) = StartsWith(At(args[1].val, e), At(args[2].val, e))
         /\ op \in ConditionalLists => Evaluate(op, args, e) = IfThenElse(At(args[1].val, e), Bool(op \in {"inThen", "inBoth"}), Bool(op \in {"inElse", "inBoth"}))
<1> USE DEF Evaluate, Comparisons, Equalities, Orderings, ConditionalLists, Folds
<1>1. op = "not" => Evaluate(op, args, e) = Not(At(args[1].val, e))
  OBVIOUS
<1>2. op = "in" => Evaluate(op, args, e) = In(At(args[1].val, e), At(args[2].val, e))
  OBVIOUS
<1>3. op = "if" => Evaluate(op, args, e) = IfThenElse(At(args[1].val, e), At(args[2].val, e), At(args[3].val, e))
  OBVIOUS
<1>4. op = "add" => Evaluate(op, args, e) = Plus(At(args[1].val, e), At(args[2].val, e))
  OBVIOUS
<1>5. op = "size" => Evaluate(op, args, e) = SizeOf(At(args[1].val, e))
  OBVIOUS
<1>6. op = "index" => Evaluate(op, args, e) = Element(At(args[1].val, e))
  OBVIOUS
<1>7. op = "hasIntersection" => Evaluate(op, args, e) = HasIntersection(At(args[1].val, e), At(args[2].val, e))
  OBVIOUS
<1>8. op = "isSubset" => Evaluate(op, args, e) = IsSubset(At(args[1].val, e), At(args[2].val, e))
  OBVIOUS
<1>9. op = "except" => Evaluate(op, args, e) = Except(At(args[1].val, e), At(args[2].val, e))
  OBVIOUS
<1>10. op = "intersect" => Evaluate(op, args, e) = Intersect(At(args[1].val, e), At(args[2].val, e))
  OBVIOUS
<1>11. ASSUME op \in Comparisons PROVE Evaluate(op, args, e) = CompareValues(op, At(args[1].val, e), At(args[2].val, e))
  <2>1. CASE op = "eq"
    BY <2>1
  <2>2. CASE op = "ne"
    BY <2>2
  <2>3. CASE op = "lt"
    BY <2>3
  <2>4. CASE op = "le"
    BY <2>4
  <2>5. CASE op = "gt"
    BY <2>5
  <2>6. CASE op = "ge"
    BY <2>6
  <2> QED BY <1>11, <2>1, <2>2, <2>3, <2>4, <2>5, <2>6 DEF Comparisons, Equalities, Orderings
<1>12. ASSUME op \in {"div", "mod"} PROVE Evaluate(op, args, e) = DividedBy(op, args, At(args[1].val, e), At(args[2].val, e))
  <2>1. CASE op = "div"
    BY <2>1
  <2>2. CASE op = "mod"
    BY <2>2
  <2> QED BY <1>12, <2>1, <2>2
<1>13. ASSUME op \in {"startsWith", "matches"} PROVE Evaluate(op, args, e) = StartsWith(At(args[1].val, e), At(args[2].val, e))
  <2>1. CASE op = "startsWith"
    BY <2>1
  <2>2. CASE op = "matches"
    BY <2>2
  <2> QED BY <1>13, <2>1, <2>2
<1>14. ASSUME op \in ConditionalLists PROVE Evaluate(op, args, e) = IfThenElse(At(args[1].val, e), Bool(op \in {"inThen", "inBoth"}), Bool(op \in {"inElse", "inBoth"}))
  <2>1. CASE op = "inThen"
    BY <2>1
  <2>2. CASE op = "inElse"
    BY <2>2
  <2>3. CASE op = "inBoth"
    BY <2>3
  <2>4. CASE op = "inNeither"
    BY <2>4
  <2> QED BY <1>14, <2>1, <2>2, <2>3, <2>4 DEF ConditionalLists
<1> QED BY <1>1, <1>2, <1>3, <1>4, <1>5, <1>6, <1>7, <1>8, <1>9, <1>10, <1>11, <1>12, <1>13, <1>14

\* What the pipeline computes of operands that it could compute.
LEMMA AggregateIs ==
  ASSUME NEW op, NEW args, NEW vals, \A i \in DOMAIN vals : vals[i] # Err
  PROVE  /\ op = "not" => Aggregate(op, args, vals) = Bool(~Truthy(vals[1]))
         /\ op = "add" => Aggregate(op, args, vals) = Add(args, vals[1], vals[2])
         /\ op = "size" => Aggregate(op, args, vals) = (IF vals[1].t \in {"str", "list"} THEN SizeOf(vals[1]) ELSE Null)
         /\ op = "index" => Aggregate(op, args, vals) = (IF Element(vals[1]) # Err THEN Element(vals[1])
                          ELSE IF Missing(vals[1]) THEN Null ELSE IF vals[1].t = "list" THEN Undefined ELSE Err)
         /\ op = "startsWith" => Aggregate(op, args, vals) = (IF vals[1].t = "str" /\ vals[2].t = "str" THEN StartsWith(vals[1], vals[2]) ELSE Null)
         /\ op = "matches" => Aggregate(op, args, vals) = (IF Missing(vals[1]) THEN False ELSE StartsWith(vals[1], vals[2]))
         /\ op \in Comparisons => Aggregate(op, args, vals) = Bool(BsonCompare(op, vals[1], vals[2]))
         /\ op \in {"div", "mod"} => Aggregate(op, args, vals) = Divide(op, vals[1], vals[2])
<1>1. op = "not" => Aggregate(op, args, vals) = Bool(~Truthy(vals[1]))
  BY DEF Aggregate, Comparisons, Equalities, Orderings, Junctions
<1>2. op = "add" => Aggregate(op, args, vals) = Add(args, vals[1], vals[2])
  BY DEF Aggregate, Comparisons, Equalities, Orderings, Junctions
<1>3. op = "size" => Aggregate(op, args, vals) = (IF vals[1].t \in {"str", "list"} THEN SizeOf(vals[1]) ELSE Null)
  BY DEF Aggregate, Comparisons, Equalities, Orderings, Junctions
<1>4. op = "index" => Aggregate(op, args, vals) = (IF Element(vals[1]) # Err THEN Element(vals[1])
                          ELSE IF Missing(vals[1]) THEN Null ELSE IF vals[1].t = "list" THEN Undefined ELSE Err)
  BY DEF Aggregate, Comparisons, Equalities, Orderings, Junctions
<1>5. op = "startsWith" => Aggregate(op, args, vals) = (IF vals[1].t = "str" /\ vals[2].t = "str" THEN StartsWith(vals[1], vals[2]) ELSE Null)
  BY DEF Aggregate, Comparisons, Equalities, Orderings, Junctions
<1>6. op = "matches" => Aggregate(op, args, vals) = (IF Missing(vals[1]) THEN False ELSE StartsWith(vals[1], vals[2]))
  BY DEF Aggregate, Comparisons, Equalities, Orderings, Junctions
<1>7. ASSUME op \in Comparisons PROVE Aggregate(op, args, vals) = Bool(BsonCompare(op, vals[1], vals[2]))
  <2>1. CASE op = "eq"
    BY <2>1 DEF Aggregate, Comparisons, Equalities, Orderings, Junctions
  <2>2. CASE op = "ne"
    BY <2>2 DEF Aggregate, Comparisons, Equalities, Orderings, Junctions
  <2>3. CASE op = "lt"
    BY <2>3 DEF Aggregate, Comparisons, Equalities, Orderings, Junctions
  <2>4. CASE op = "le"
    BY <2>4 DEF Aggregate, Comparisons, Equalities, Orderings, Junctions
  <2>5. CASE op = "gt"
    BY <2>5 DEF Aggregate, Comparisons, Equalities, Orderings, Junctions
  <2>6. CASE op = "ge"
    BY <2>6 DEF Aggregate, Comparisons, Equalities, Orderings, Junctions
  <2> QED BY <1>7, <2>1, <2>2, <2>3, <2>4, <2>5, <2>6 DEF Comparisons, Equalities, Orderings
<1>8. ASSUME op \in {"div", "mod"} PROVE Aggregate(op, args, vals) = Divide(op, vals[1], vals[2])
  <2>1. CASE op = "div"
    BY <2>1 DEF Aggregate, Comparisons, Equalities, Orderings, Junctions
  <2>2. CASE op = "mod"
    BY <2>2 DEF Aggregate, Comparisons, Equalities, Orderings, Junctions
  <2> QED BY <1>8, <2>1, <2>2
<1> QED BY <1>1, <1>2, <1>3, <1>4, <1>5, <1>6, <1>7, <1>8

LEMMA AggregateFails ==
  ASSUME NEW op, NEW args, NEW vals, op # "if", op \notin Junctions, NEW i \in DOMAIN vals, vals[i] = Err
  PROVE  Aggregate(op, args, vals) = Err
BY DEF Aggregate

LEMMA PairAgrees ==
  ASSUME NEW op \in Comparisons \union {"add", "div", "mod"}, NEW args, Well(op, args),
         NEW e \in Envs(ElementEnvs, ScopeOf(args)), Computable(op, args, e)
  PROVE  Computes(Aggregate(op, args, Inputs(args, e)), Evaluate(op, args, e))
<1>1. DOMAIN args = 1 .. 2
  BY WidthIs DEF Binary
<1>2. PICK a, b, v, w : a = At(args[1].agg, e) /\ b = At(args[2].agg, e) /\ v = At(args[1].val, e) /\ w = At(args[2].val, e)
  OBVIOUS
<1>3. 1 \in DOMAIN args /\ 2 \in DOMAIN args
  BY <1>1
<1>4. v \in Plain /\ w \in Plain
  BY <1>2, <1>3, OperandComputes
<1>5. args[1].shape \notin Lists /\ args[2].shape \notin Lists
  BY <1>3, ScalarOperands
<1>6. Computes(a, v) /\ Computes(b, w)
  BY <1>2, <1>3, <1>5, OperandComputes
<1>7. op \notin Junctions /\ op # "if" /\ op # "not"
  BY DEF Junctions, Comparisons, Equalities, Orderings
<1>8. PICK vals : vals = Inputs(args, e)
  OBVIOUS
<1>11. DOMAIN vals = 1 .. 2 /\ vals[1] = a /\ vals[2] = b
  BY <1>1, <1>2, <1>8 DEF Inputs
<1>9. CASE a = Err \/ b = Err
  <2>1. \E i \in DOMAIN vals : vals[i] = Err
    BY <1>11, <1>9
  <2>2. Aggregate(op, args, vals) = Err
    BY <1>7, <2>1, AggregateFails
  <2> QED BY <1>8, <2>2 DEF Computes
<1>10. CASE a # Err /\ b # Err
  <2>1. a = v /\ b = w /\ v # Err /\ w # Err
    BY <1>6, <1>10 DEF Computes
  <2>2. \A i \in DOMAIN args : At(args[i].val, e) # Err
    BY <1>1, <1>2, <2>1
  <2>3. HasOverload(op, args, e)
    BY DEF Computable
  <2>4. \A i \in DOMAIN vals : vals[i] # Err
    BY <1>11, <1>10
  <2>5. CASE op \in Comparisons
    <3>1. Aggregate(op, args, vals) = Bool(BsonCompare(op, a, b))
      BY <1>11, <2>4, <2>5, AggregateIs
    <3>2. Evaluate(op, args, e) = CompareValues(op, v, w)
      BY <1>2, <2>5, EvaluateIs
    <3>3. op \in Orderings => SameOrderedType(v, w)
      BY <1>2, <2>2, <2>3, OverloadIs
    <3>4. Bool(BsonCompare(op, a, b)) = CompareValues(op, v, w)
      BY <1>4, <2>1, <2>5, <3>3, BsonIs
    <3>5. Bool(BsonCompare(op, a, b)) # Err
      BY BoolIs
    <3> QED BY <1>8, <3>1, <3>2, <3>4, <3>5 DEF Computes
  <2>6. CASE op = "add"
    <3>1. Aggregate(op, args, vals) = Add(args, a, b)
      BY <1>11, <2>4, <2>6, AggregateIs
    <3>2. Evaluate(op, args, e) = Plus(v, w)
      BY <1>2, <2>6, EvaluateIs
    <3>3. Plus(v, w) # Err
      BY <1>2, <2>2, <2>3, <2>6, OverloadIs
    <3>4. /\ args[1].kind = "value" => v = args[1].lit
          /\ args[2].kind = "value" => w = args[2].lit
      BY <1>2, <1>3, OperandComputes
    <3>5. /\ args[1].type = "str" => v.t \in {"str", "error", "null"}
          /\ args[2].type = "str" => w.t \in {"str", "error", "null"}
      BY <1>2, <1>3, <1>5, WellOperand
    <3>6. Computes(Add(args, a, b), Plus(v, w))
      BY <1>4, <2>1, <3>3, <3>4, <3>5, AddComputes
    <3> QED BY <1>8, <3>1, <3>2, <3>6
  <2>7. CASE op \in {"div", "mod"}
    <3>1. Aggregate(op, args, vals) = Divide(op, a, b)
      BY <1>11, <2>4, <2>7, AggregateIs
    <3>2. Evaluate(op, args, e) = DividedBy(op, args, v, w)
      BY <1>2, <2>7, EvaluateIs
    <3>3. v.t = "num"
      BY <1>2, <2>2, <2>3, <2>7, OverloadIs
    <3>4. ~DivideThrows(op, args)
      BY <2>7 DEF Computable, AggregateThrows
    <3>5. args[2].kind = "value"
      BY <3>4 DEF DivideThrows
    <3>6. w = args[2].lit
      BY <1>2, <1>3, <3>5, OperandComputes
    <3>7. Computes(Divide(op, v, args[2].lit), DividedBy(op, args, v, args[2].lit))
      BY <1>4, <2>7, <3>3, <3>4, DivideComputes
    <3> QED BY <1>8, <2>1, <3>1, <3>2, <3>6, <3>7
  <2> QED BY <1>8, <2>5, <2>6, <2>7
<1> QED BY <1>9, <1>10

\* An environment of an expression, and what its operands take there.
Reading(op, args, e) ==
  /\ Well(op, args)
  /\ e \in Envs(ElementEnvs, ScopeOf(args))
  /\ Computable(op, args, e)

LEMMA JunctionAgrees ==
  ASSUME NEW op \in Junctions, NEW args, NEW e, Reading(op, args, e)
  PROVE  Computes(Aggregate(op, args, Inputs(args, e)), Evaluate(op, args, e))
<1>1. DOMAIN args = 1 .. 2
  BY WidthIs DEF Reading, Binary
<1>2. PICK a, b, v, w : a = At(args[1].agg, e) /\ b = At(args[2].agg, e) /\ v = At(args[1].val, e) /\ w = At(args[2].val, e)
  OBVIOUS
<1>3. PICK vals : vals = Inputs(args, e)
  OBVIOUS
<1>4. vals[1] = a /\ vals[2] = b
  BY <1>1, <1>2, <1>3 DEF Inputs
<1>5. 1 \in DOMAIN args /\ 2 \in DOMAIN args
  BY <1>1
<1>6. v \in Plain /\ w \in Plain
  BY <1>2, <1>5, OperandComputes DEF Reading
<1>7. args[1].shape \notin Lists /\ args[2].shape \notin Lists
  BY <1>5, ScalarOperands DEF Reading
<1>8. Computes(a, v) /\ Computes(b, w)
  BY <1>2, <1>5, <1>7, OperandComputes DEF Reading
<1>9. IsTri(v) /\ IsTri(w)
  BY <1>2, <1>5, OverloadIs DEF Reading, Computable
<1>10. Aggregate(op, args, vals) = AggregateJunction(op = "or", a, b)
  BY <1>4 DEF Aggregate, Junctions
<1>11. {At(args[i].val, e) : i \in DOMAIN args} = {v, w}
  <2>1. \A x : x \in {At(args[i].val, e) : i \in 1 .. 2} <=> x = At(args[1].val, e) \/ x = At(args[2].val, e)
    OBVIOUS
  <2> QED BY <1>1, <1>2, <2>1
<1>12. Evaluate(op, args, e) = Junction(op = "or", {v, w})
  <2>1. CASE op = "and"
    <3>1. Evaluate(op, args, e) = Junction(FALSE, {v, w})
      <4>1. Evaluate(op, args, e) = Junction(FALSE, {At(args[i].val, e) : i \in DOMAIN args})
        BY <2>1 DEF Evaluate, Comparisons, Equalities, Orderings, ConditionalLists, Folds
      <4> QED BY <1>11, <4>1, Zenon
    <3>2. Junction(op = "or", {v, w}) = Junction(FALSE, {v, w})
      BY <2>1 DEF Junction, Bool
    <3> QED BY <3>1, <3>2
  <2>2. CASE op = "or"
    <3>1. Evaluate(op, args, e) = Junction(TRUE, {v, w})
      <4>1. Evaluate(op, args, e) = Junction(TRUE, {At(args[i].val, e) : i \in DOMAIN args})
        BY <2>2 DEF Evaluate, Comparisons, Equalities, Orderings, ConditionalLists, Folds
      <4> QED BY <1>11, <4>1, Zenon
    <3>2. Junction(op = "or", {v, w}) = Junction(TRUE, {v, w})
      BY <2>2 DEF Junction, Bool
    <3> QED BY <3>1, <3>2
  <2> QED BY <2>1, <2>2 DEF Junctions
<1> QED BY <1>3, <1>6, <1>8, <1>9, <1>10, <1>12, JunctionComputes

LEMMA NotAgrees ==
  ASSUME NEW args, NEW e, Reading("not", args, e)
  PROVE  Computes(Aggregate("not", args, Inputs(args, e)), Evaluate("not", args, e))
<1>1. DOMAIN args = 1 .. 1
  BY WidthIs DEF Reading
<1>2. PICK a, v : a = At(args[1].agg, e) /\ v = At(args[1].val, e)
  OBVIOUS
<1>3. PICK vals : vals = Inputs(args, e)
  OBVIOUS
<1>4. DOMAIN vals = 1 .. 1 /\ vals[1] = a
  BY <1>1, <1>2, <1>3 DEF Inputs
<1>5. v \in Plain /\ Computes(a, v)
  <2>1. 1 \in DOMAIN args
    BY <1>1
  <2>2. args[1].shape \notin Lists
    BY <2>1, ScalarOperands DEF Reading
  <2> QED BY <1>2, <2>1, <2>2, OperandComputes DEF Reading
<1>6. v \in Tri
  <2>1. IsTri(v)
    BY <1>1, <1>2, OverloadIs DEF Reading, Computable
  <2> QED BY <1>5, <2>1, PlainIs, ValueIs DEF IsTri, Tri
<1>7. Evaluate("not", args, e) = Not(v)
  BY <1>2, EvaluateIs
<1>8. CASE a = Err
  <2>1. Aggregate("not", args, vals) = Err
    BY <1>4, <1>8, AggregateFails DEF Junctions
  <2> QED BY <1>3, <2>1 DEF Computes
<1>9. CASE a # Err
  <2>1. a = v /\ v \in {True, False}
    BY <1>5, <1>6, <1>9 DEF Computes, Tri
  <2>2. Aggregate("not", args, vals) = Bool(~Truthy(a))
    BY <1>4, <1>9, AggregateIs
  <2>3. Bool(~Truthy(a)) = Not(v)
    BY <1>5, <2>1, TruthyIs, NotIs, Constants DEF Bool
  <2>4. Not(v) # Err
    BY <1>5, <2>1, NotIs, Constants
  <2> QED BY <1>3, <1>7, <2>2, <2>3, <2>4 DEF Computes
<1> QED BY <1>8, <1>9

LEMMA IfAgrees ==
  ASSUME NEW args, NEW e, Reading("if", args, e)
  PROVE  Computes(Aggregate("if", args, Inputs(args, e)), Evaluate("if", args, e))
<1>1. DOMAIN args = 1 .. 3
  BY WidthIs DEF Reading
<1>2. PICK a, b, c, v, w, x :
        /\ a = At(args[1].agg, e) /\ b = At(args[2].agg, e) /\ c = At(args[3].agg, e)
        /\ v = At(args[1].val, e) /\ w = At(args[2].val, e) /\ x = At(args[3].val, e)
  OBVIOUS
<1>3. PICK vals : vals = Inputs(args, e)
  OBVIOUS
<1>4. vals[1] = a /\ vals[2] = b /\ vals[3] = c
  BY <1>1, <1>2, <1>3 DEF Inputs
<1>5. 1 \in DOMAIN args /\ 2 \in DOMAIN args /\ 3 \in DOMAIN args
  BY <1>1
<1>6. args[1].shape \notin Lists /\ args[2].shape \notin Lists /\ args[3].shape \notin Lists
  BY <1>5, ScalarOperands DEF Reading
<1>7. v \in Plain /\ Computes(a, v) /\ Computes(b, w) /\ Computes(c, x)
  BY <1>2, <1>5, <1>6, OperandComputes DEF Reading
<1>8. v \in Tri
  <2>1. IsTri(v)
    BY <1>2, OverloadIs DEF Reading, Computable
  <2> QED BY <1>7, <2>1, PlainIs, ValueIs DEF IsTri, Tri
<1>9. Evaluate("if", args, e) = IF v = True THEN w ELSE IF v = False THEN x ELSE Err
  BY <1>2, <1>7, EvaluateIs, IfIs
<1>10. Aggregate("if", args, vals) = IF a = Err THEN Err ELSE IF Truthy(a) THEN b ELSE c
  BY <1>4 DEF Aggregate
<1>11. CASE a = Err
  BY <1>3, <1>10, <1>11 DEF Computes
<1>12. CASE a # Err
  <2>1. a = v /\ v \in {True, False}
    BY <1>7, <1>8, <1>12 DEF Computes, Tri
  <2>2. Truthy(a) <=> v = True
    BY <1>7, <2>1, TruthyIs
  <2> QED BY <1>3, <1>7, <1>9, <1>10, <1>12, <2>1, <2>2, Constants
<1> QED BY <1>11, <1>12

\* The operators whose guard is their own.
LEMMA GuardedAgrees ==
  ASSUME NEW op \in Guarded, NEW args, NEW e, Reading(op, args, e),
         OwnGuard(op, Inputs(args, e), Aggregate(op, args, Inputs(args, e)))
  PROVE  Computes(Aggregate(op, args, Inputs(args, e)), Evaluate(op, args, e))
<1>1. PICK vals : vals = Inputs(args, e)
  OBVIOUS
<1>2. PICK a, b, v, w : a = At(args[1].agg, e) /\ b = At(args[2].agg, e) /\ v = At(args[1].val, e) /\ w = At(args[2].val, e)
  OBVIOUS
<1>3. op # "if" /\ op \notin Junctions /\ 1 \in DOMAIN args
  BY WidthIs DEF Guarded, Junctions, Reading
<1>4. DOMAIN vals = DOMAIN args /\ vals[1] = a /\ (2 \in DOMAIN args => vals[2] = b)
  BY <1>1, <1>2, <1>3 DEF Inputs
<1>5. v \in Plain /\ (a.t \in {"str", "list"} /\ a # Err => v = a)
  BY <1>2, <1>3, OperandComputes DEF Reading
<1>6. a.t \in {"str", "list"} => a # Err
  BY Constants
<1>7. CASE \E i \in DOMAIN vals : vals[i] = Err
  BY <1>1, <1>3, <1>7, AggregateFails DEF Computes
<1>8. CASE \A i \in DOMAIN vals : vals[i] # Err
  <2>1. CASE op = "size"
    <3>1. Aggregate(op, args, vals) = IF a.t \in {"str", "list"} THEN SizeOf(a) ELSE Null
      BY <1>4, <1>8, <2>1, AggregateIs
    <3>2. Aggregate(op, args, vals) # Null
      BY <1>1, <2>1 DEF OwnGuard
    <3>3. a.t \in {"str", "list"} /\ v = a
      BY <1>5, <1>6, <3>1, <3>2
    <3>4. Evaluate(op, args, e) = SizeOf(v)
      BY <1>2, <2>1, EvaluateIs
    <3> QED BY <1>1, <1>5, <3>1, <3>3, <3>4, SizeIs DEF Computes
  <2>2. CASE op = "index"
    <3>1. a.t = "list" /\ Members[a] # {}
      BY <1>1, <1>4, <2>2 DEF OwnGuard
    <3>2. v = a /\ v \in Value
      BY <1>5, <1>6, <3>1, PlainIs
    <3>3. Element(a) # Err
      BY <3>1, <3>2, ElementIs
    <3>4. Aggregate(op, args, vals) = Element(a)
      BY <1>4, <1>8, <2>2, <3>3, AggregateIs
    <3>5. Evaluate(op, args, e) = Element(v)
      BY <1>2, <2>2, EvaluateIs
    <3> QED BY <1>1, <3>2, <3>3, <3>4, <3>5 DEF Computes
  <2>3. CASE op = "startsWith"
    <3>1. 2 \in DOMAIN args
      BY <2>3, WidthIs DEF Binary, Reading
    <3>2. Aggregate(op, args, vals) = IF a.t = "str" /\ b.t = "str" THEN StartsWith(a, b) ELSE Null
      BY <1>4, <1>8, <2>3, <3>1, AggregateIs
    <3>3. Aggregate(op, args, vals) # Null
      BY <1>1, <2>3 DEF OwnGuard
    <3>4. a.t = "str" /\ b.t = "str"
      BY <3>2, <3>3
    <3>5. v = a /\ w = b
      BY <1>2, <1>3, <3>1, <3>4, Constants, OperandComputes DEF Reading
    <3>6. Evaluate(op, args, e) = StartsWith(v, w)
      BY <1>2, <2>3, EvaluateIs
    <3> QED BY <1>1, <3>2, <3>4, <3>5, <3>6, StartsIs DEF Computes
  <2>4. CASE op = "matches"
    <3>1. 2 \in DOMAIN args
      BY <2>4, WidthIs DEF Binary, Reading
    <3>2. a.t = "str"
      BY <1>1, <1>4, <2>4 DEF OwnGuard
    <3>3. args[2].kind = "value" /\ args[2].lit.t = "str"
      BY <2>4 DEF Reading, Computable, AggregateThrows
    <3>4. v = a /\ w = args[2].lit /\ b = w
      BY <1>2, <1>5, <1>6, <3>1, <3>2, <3>3, OperandComputes DEF Reading
    <3>5. ~Missing(a)
      BY <3>2, Constants DEF Missing
    <3>6. Aggregate(op, args, vals) = StartsWith(a, b)
      BY <1>4, <1>8, <2>4, <3>1, <3>5, AggregateIs
    <3>7. Evaluate(op, args, e) = StartsWith(v, w)
      BY <1>2, <2>4, EvaluateIs
    <3> QED BY <1>1, <3>2, <3>3, <3>4, <3>6, <3>7, StartsIs DEF Computes
  <2> QED BY <2>1, <2>2, <2>3, <2>4 DEF Guarded
<1> QED BY <1>7, <1>8

LEMMA Agreement ==
  ASSUME NEW op, NEW args, NEW e, Reading(op, args, e),
         OwnGuard(op, Inputs(args, e), Aggregate(op, args, Inputs(args, e)))
  PROVE  Computes(Aggregate(op, args, Inputs(args, e)), Evaluate(op, args, e))
<1>1. op \in Tabled
  BY DEF Reading, Computable, AggregateThrows, Tabled
<1>2. CASE op \in Comparisons \union {"add", "div", "mod"}
  BY <1>2, PairAgrees DEF Reading
<1>3. CASE op \in Junctions
  BY <1>3, JunctionAgrees
<1>4. CASE op \in {"not", "if"}
  BY <1>4, NotAgrees, IfAgrees
<1>5. CASE op \in Guarded
  BY <1>5, GuardedAgrees
<1> QED BY <1>1, <1>2, <1>3, <1>4, <1>5 DEF Tabled, Guarded

-----------------------------------------------------------------------------
(* The record of an expression *)

ScopeFor(op, args) == IF op \in Macros \union {"map"} THEN "root" ELSE ScopeOf(args)
Places(op, args) == Envs(ElementEnvs, ScopeFor(op, args))

LEMMA BareHead ==
  ASSUME NEW op, NEW args, NEW n, n = BareExpression(op, args)
  PROVE  /\ n.kind = op /\ n.lit = Undefined /\ n.no = Refusal
         /\ n.shape = IF op = "map" THEN args[1].shape ELSE "none"
         /\ n.type = IF op = "map" THEN args[2].type ELSE CelScalarType(op, args)
         /\ n.scope = ScopeFor(op, args)
         /\ DOMAIN n.val = Places(op, args) /\ \A e \in Places(op, args) : n.val[e] = Evaluate(op, args, e)
<1>1. EnvsOf(ScopeFor(op, args)) = Places(op, args)
  BY DEF EnvsOf, Places, Envs
<1>2. DOMAIN n.val = Places(op, args) /\ \A e \in Places(op, args) : n.val[e] = Evaluate(op, args, e)
  BY <1>1 DEF BareExpression, ScopeFor
<1> QED BY <1>2 DEF BareExpression, ScopeFor

LEMMA BareParts ==
  ASSUME NEW op, NEW args, NEW n, n = BareExpression(op, args)
  PROVE  /\ DOMAIN n.agg = Places(op, args) /\ n.guard \in [Places(op, args) -> BOOLEAN]
         /\ n.yes = BuildFilter(op, args, n.agg, n.aggThrows)
<1>1. EnvsOf(ScopeFor(op, args)) = Places(op, args)
  BY DEF EnvsOf, Places, Envs
<1>2. DOMAIN n.agg = Places(op, args) /\ n.guard \in [Places(op, args) -> BOOLEAN]
  BY <1>1 DEF BareExpression, ScopeFor
<1>3. n.yes = BuildFilter(op, args, n.agg, n.aggThrows)
  BY DEF BareExpression, AggregateThrows
<1> QED BY <1>2, <1>3

LEMMA BareIs ==
  ASSUME NEW op, NEW args, NEW n, n = BareExpression(op, args)
  PROVE  /\ n.nullable \in BOOLEAN /\ (n.nullable <=> op = "map" /\ args[2].nullable) /\ n.elementNullable \in BOOLEAN
         /\ n.aggThrows \in BOOLEAN /\ (n.aggThrows <=> AggregateThrows(op, args))
         /\ n.exprGuard \in BOOLEAN
         /\ n.exprGuard <=> op \in Guarded \/ \E i \in Outside(op, args) : args[i].exprGuard
         /\ \A e \in Places(op, args) : n.listShape[e] <=> \A i \in ListsRead(op, args) : IsCollection(At(args[i].agg, e))
         /\ n.typed \in BOOLEAN
         /\ n.typed <=> /\ \A i \in DOMAIN args : args[i].typed
                       /\ \A e \in Places(op, args) : HasOverload(op, args, e)
<1>1. EnvsOf(ScopeFor(op, args)) = Places(op, args)
  BY DEF EnvsOf, Places, Envs
<1>2. /\ n.nullable \in BOOLEAN /\ (n.nullable <=> op = "map" /\ args[2].nullable) /\ n.elementNullable \in BOOLEAN
      /\ n.exprGuard \in BOOLEAN
      /\ n.exprGuard <=> op \in Guarded \/ \E i \in Outside(op, args) : args[i].exprGuard
  BY DEF BareExpression
<1>4. n.aggThrows \in BOOLEAN /\ (n.aggThrows <=> AggregateThrows(op, args))
  BY DEF BareExpression, AggregateThrows
<1>5. \A e \in Places(op, args) : n.listShape[e] <=> \A i \in ListsRead(op, args) : IsCollection(At(args[i].agg, e))
  BY <1>1 DEF BareExpression, ScopeFor
<1>6. /\ n.typed \in BOOLEAN
      /\ n.typed <=> /\ \A i \in DOMAIN args : args[i].typed
                    /\ \A e \in Places(op, args) : HasOverload(op, args, e)
  BY <1>1 DEF BareExpression, ScopeFor
<1> QED BY <1>2, <1>4, <1>5, <1>6

\* Where the operands are read where the expression stands.
LEMMA BareInside ==
  ASSUME NEW op, NEW args, Inside(op), NEW n, n = BareExpression(op, args)
  PROVE  /\ n.scope = ScopeOf(args) /\ Places(op, args) = Envs(ElementEnvs, ScopeOf(args))
         /\ \A e \in Places(op, args) :
              /\ n.agg[e] = Aggregate(op, args, Inputs(args, e))
              /\ n.guard[e] \in BOOLEAN
              /\ n.guard[e] <=> Guards(args, e) /\ OwnGuard(op, Inputs(args, e), n.agg[e])
         /\ n.exprGuard <=> op \in Guarded \/ \E i \in DOMAIN args : args[i].exprGuard
<1>1. op \notin Macros \union {"map"} /\ Outside(op, args) = DOMAIN args /\ op # "map"
  BY DEF Inside, Outside
<1>2. EnvsOf(ScopeOf(args)) = Envs(ElementEnvs, ScopeOf(args))
  BY DEF EnvsOf, Envs
<1>3. n.scope = ScopeOf(args) /\ Places(op, args) = Envs(ElementEnvs, ScopeOf(args))
  BY <1>1 DEF BareExpression, Places, ScopeFor
<1>4. n.exprGuard <=> op \in Guarded \/ \E i \in DOMAIN args : args[i].exprGuard
  BY <1>1 DEF BareExpression
<1>5. ASSUME NEW e \in Places(op, args)
      PROVE  n.agg[e] = Aggregate(op, args, Inputs(args, e))
  BY <1>1, <1>2, <1>3 DEF BareExpression, Inputs
<1>6. ASSUME NEW e \in Places(op, args)
      PROVE  /\ n.guard[e] \in BOOLEAN
             /\ n.guard[e] <=> Guards(args, e) /\ OwnGuard(op, Inputs(args, e), n.agg[e])
  BY <1>1, <1>2, <1>3 DEF BareExpression, Inputs, Guards
<1> QED BY <1>3, <1>4, <1>5, <1>6

LEMMA BareOutside ==
  ASSUME NEW op, NEW args, ~Inside(op), NEW n, n = BareExpression(op, args)
  PROVE  /\ n.scope = "root" /\ Places(op, args) = {Root}
         /\ op = "map" => n.agg[Root] = args[1].agg[Root]
         /\ n.guard[Root] \in BOOLEAN /\ (n.guard[Root] <=> At(args[1].guard, Root))
<1>1. op \in Macros \union {"map"} /\ Outside(op, args) = {1}
  BY DEF Inside, Outside
<1>2. EnvsOf("root") = {Root} /\ Places(op, args) = {Root}
  BY <1>1 DEF EnvsOf, Places, ScopeFor, Envs
<1>3. n.scope = "root"
  BY <1>1 DEF BareExpression
<1>4. op = "map" => n.agg[Root] = args[1].agg[Root]
  BY <1>1, <1>2 DEF BareExpression
<1>5. n.guard[Root] \in BOOLEAN /\ (n.guard[Root] <=> At(args[1].guard, Root))
  <2>1. CASE op = "exists"
    BY <1>1, <1>2, <2>1 DEF BareExpression, OwnGuard
  <2>2. CASE op = "all"
    BY <1>1, <1>2, <2>2 DEF BareExpression, OwnGuard
  <2>3. CASE op = "existsOne"
    BY <1>1, <1>2, <2>3 DEF BareExpression, OwnGuard
  <2>4. CASE op = "map"
    BY <1>1, <1>2, <2>4 DEF BareExpression, OwnGuard
  <2> QED BY <1>1, <2>1, <2>2, <2>3, <2>4 DEF Macros
<1> QED BY <1>2, <1>3, <1>4, <1>5

LEMMA ExpressionIs ==
  ASSUME NEW op, NEW args, NEW m, m = BareExpression(op, args), NEW n, n = ExpressionNode(op, args)
  PROVE  /\ n.no = TranslateNot(m, args)
         /\ n.kind = op /\ n.lit = m.lit /\ n.shape = m.shape /\ n.nullable = m.nullable
         /\ n.elementNullable = m.elementNullable /\ n.type = m.type /\ n.scope = m.scope /\ n.val = m.val
         /\ n.agg = m.agg /\ n.guard = m.guard /\ n.aggThrows = m.aggThrows /\ n.exprGuard = m.exprGuard
         /\ n.yes = m.yes /\ n.typed = m.typed
BY SMTT(30) DEF ExpressionNode, BareExpression

-----------------------------------------------------------------------------
(* What CEL says of an expression *)

\* A macro and map() read the elements of a relation.
LEMMA MacroOperands ==
  ASSUME NEW op, NEW args, Well(op, args), ~Inside(op)
  PROVE  LET x == args[1].agg[Root]
             v == At(args[1].val, Root)
             g == At(args[1].guard, Root)
         IN /\ DOMAIN args = 1 .. 2 /\ NodeOK(args[1]) /\ NodeOK(args[2])
            /\ args[1].kind = "variable" /\ args[1].shape = "many" /\ args[1].scope = "root" /\ Array # {}
            /\ At(args[1].agg, Root) = x /\ v = args[1].val[Root] /\ g = args[1].guard[Root]
            /\ CellFine(args[1], x, v, g) /\ Elements(x) = ElementEnvs /\ v \in Plain /\ g \in BOOLEAN
            /\ args[2].scope = "element" /\ args[2].shape \notin Lists /\ args[2].kind \notin SetOperations
            /\ DOMAIN args[2].val = ElementEnvs /\ \A m \in ElementEnvs : args[2].val[m] \in Plain
<1>1. op \in Macros \union {"map"}
  BY DEF Inside
<1>2. DOMAIN args = 1 .. 2
  <2>1. op \in Binary
    BY <1>1 DEF Binary
  <2> QED BY <2>1, WidthIs
<1>3. NodeOK(args[1]) /\ NodeOK(args[2])
  <2>1. 1 \in DOMAIN args /\ 2 \in DOMAIN args
    BY <1>2
  <2> QED BY <2>1 DEF Well
<1>4. args[1].kind = "variable" /\ args[1].shape = "many" /\ args[2].scope = "element"
  BY <1>1 DEF Well, WellFormedPlan
<1>5. VariableFine(args[1], ElementEnvs, Array # {}, NullElement)
  BY <1>3, <1>4 DEF NodeOK, NodeFine
<1>6. args[1].scope = "root" /\ Elements(args[1].agg[Root]) = ElementEnvs /\ Array # {}
  BY <1>4, <1>5 DEF VariableFine
<1>7. Root \in Envs(ElementEnvs, "root") /\ Root \in Envs(ElementEnvs, args[1].scope)
  BY <1>6 DEF Envs
<1>8. /\ DOMAIN args[1].val = Envs(ElementEnvs, "root") /\ DOMAIN args[1].agg = Envs(ElementEnvs, "root")
      /\ DOMAIN args[1].guard = Envs(ElementEnvs, "root")
      /\ args[1].val[Root] \in Plain /\ args[1].guard[Root] \in BOOLEAN
  BY <1>3, <1>6, <1>7 DEF NodeOK, NodeFine, NodeTyped
<1>9. CellFine(args[1], args[1].agg[Root], args[1].val[Root], args[1].guard[Root])
  BY <1>5, <1>7 DEF VariableFine
<1>10. args[2].shape \notin Lists
  <2>1. args[2].kind = "variable" => args[2].shape = "element"
    BY <1>3, <1>4 DEF NodeOK, NodeFine, VariableFine
  <2>2. args[2].kind # "map"
    BY <1>3, <1>4 DEF NodeOK, NodeFine, MapFine
  <2> QED BY <1>3, <2>1, <2>2, ShapeIs DEF Lists
<1>11. args[2].kind \notin SetOperations
  <2>1. 2 \in DOMAIN args
    BY <1>2
  <2> QED BY <1>1, <2>1, ScalarOperands DEF Macros, Equalities
<1>12. DOMAIN args[2].val = ElementEnvs /\ \A m \in ElementEnvs : args[2].val[m] \in Plain
  BY <1>3, <1>4 DEF NodeOK, NodeFine, NodeTyped, Envs
<1> QED BY <1>2, <1>3, <1>4, <1>6, <1>7, <1>8, <1>9, <1>10, <1>11, <1>12 DEF At

\* What the body says of the elements.
Bodies(args) == {args[2].val[m] : m \in Elements(At(args[1].val, Root))}

LEMMA BodiesAre ==
  ASSUME NEW op, NEW args, Well(op, args), ~Inside(op)
  PROVE  LET x == args[1].agg[Root]
             v == At(args[1].val, Root)
         IN /\ Bodies(args) \subseteq Plain
            /\ v.t = "list" => /\ v = x /\ Members[v] = ElementEnvs /\ Members[v] = Elements(v)
                               /\ \A y : y \in Bodies(args) <=> \E m \in ElementEnvs : y = args[2].val[m]
            /\ v.t # "list" => Bodies(args) = {}
            /\ v.t = "list" <=> x.t = "list" /\ v # Err
            /\ x.t = "list" => v = x /\ v # Err
            /\ x.t = "list" <=> IsCollection(x)
<1>1. PICK x, v, g : x = args[1].agg[Root] /\ v = At(args[1].val, Root) /\ g = At(args[1].guard, Root)
  OBVIOUS
<1>2. CellFine(args[1], x, v, g) /\ Elements(x) = ElementEnvs /\ v \in Plain /\ args[1].shape = "many"
  BY <1>1, MacroOperands
<1>3. \A m \in ElementEnvs : args[2].val[m] \in Plain
  BY MacroOperands
<1>4. v.t = "list" => v = x
  BY <1>2, Constants DEF CellFine
<1>5. x.t \in {"null", "undefined", "list"} /\ x \in Value
  BY <1>2 DEF CellFine, Lists, Cells
<1>6. x.t = "list" <=> IsCollection(x)
  BY <1>5 DEF IsCollection
<1>7. x.t = "list" => v = x /\ v # Err
  BY <1>2, Constants DEF CellFine
<1>8. IsCollection(v) <=> v.t = "list"
  BY <1>2, PlainIs
<1>9. v.t = "list" => Members[v] = ElementEnvs /\ Members[v] = Elements(v)
  BY <1>2, <1>4, <1>6 DEF Elements
<1>10. v.t # "list" => Elements(v) = {}
  BY <1>8 DEF Elements
<1>11. Bodies(args) = {args[2].val[m] : m \in Elements(v)}
  BY <1>1 DEF Bodies
<1>12. Bodies(args) \subseteq Plain
  BY <1>3, <1>9, <1>10, <1>11
<1> QED BY <1>1, <1>4, <1>6, <1>7, <1>9, <1>10, <1>11, <1>12

\* The operators that answer a boolean, or an error.
Answers == Junctions \union Comparisons \union ConditionalLists \union Folds
  \union {"not", "in", "startsWith", "matches", "hasIntersection", "isSubset", "exists", "all"}

LEMMA EvaluateInside ==
  ASSUME NEW op, NEW args, Well(op, args), Inside(op), NEW e \in Places(op, args)
  PROVE  Evaluate(op, args, e) \in Plain /\ (op \in Answers => Evaluate(op, args, e) \in Tri)
<1>1. Places(op, args) = Envs(ElementEnvs, ScopeOf(args))
  BY DEF Places, ScopeFor, Inside
<1>2. \A i \in DOMAIN args : At(args[i].val, e) \in Plain
  BY <1>1, WellOperand
<1>3. Tri \subseteq Plain /\ Bool(TRUE) \in Tri /\ Bool(FALSE) \in Tri /\ Err \in Tri
  BY TriPlain, Constants DEF Tri
<1>4. op \in Binary => At(args[1].val, e) \in Plain /\ At(args[2].val, e) \in Plain
  BY <1>2, WidthIs
<1>5. CASE op \in Junctions
  <2>1. PICK S : S = {At(args[i].val, e) : i \in DOMAIN args}
    OBVIOUS
  <2>2. S \subseteq Plain
    BY <1>2, <2>1
  <2>3. CASE op = "and"
    <3>1. Evaluate(op, args, e) = Junction(FALSE, S)
      BY <2>1, <2>3 DEF Evaluate, Comparisons, Equalities, Orderings, ConditionalLists, Folds
    <3>2. Junction(FALSE, S) \in Tri
      BY <2>2, JunctionIs
    <3> QED BY <1>3, <3>1, <3>2
  <2>4. CASE op = "or"
    <3>1. Evaluate(op, args, e) = Junction(TRUE, S)
      BY <2>1, <2>4 DEF Evaluate, Comparisons, Equalities, Orderings, ConditionalLists, Folds
    <3>2. Junction(TRUE, S) \in Tri
      BY <2>2, JunctionIs
    <3> QED BY <1>3, <3>1, <3>2
  <2> QED BY <1>5, <2>3, <2>4 DEF Junctions
<1>6. CASE op \in Comparisons
  <2>1. op \in Binary
    BY <1>6 DEF Binary
  <2>2. PICK x, y : x = At(args[1].val, e) /\ y = At(args[2].val, e)
    OBVIOUS
  <2>3. Evaluate(op, args, e) = CompareValues(op, x, y)
    BY <1>6, <2>2, EvaluateIs
  <2>4. CompareValues(op, x, y) \in Tri
    BY <1>4, <1>6, <2>1, <2>2, CompareIs
  <2> QED BY <1>3, <2>3, <2>4
<1>7. CASE op = "not"
  BY <1>2, <1>3, <1>7, WidthIs, EvaluateIs, NotIs
<1>8. CASE op \in {"in", "startsWith", "matches", "hasIntersection", "isSubset"}
  <2>1. At(args[1].val, e) \in Plain /\ At(args[2].val, e) \in Plain
    BY <1>4, <1>8 DEF Binary
  <2>2. PICK x \in Plain, y \in Plain : x = At(args[1].val, e) /\ y = At(args[2].val, e)
    BY <2>1
  <2>3. In(x, y) \in Tri /\ StartsWith(x, y) \in Tri /\ HasIntersection(x, y) \in Tri /\ IsSubset(x, y) \in Tri
    BY InIs, StartsIs, ListsAre
  <2>4. Evaluate(op, args, e) \in {In(x, y), StartsWith(x, y), HasIntersection(x, y), IsSubset(x, y)}
    BY <1>8, <2>2, EvaluateIs
  <2> QED BY <1>3, <2>3, <2>4
<1>9. CASE op \in ConditionalLists
  <2>1. At(args[1].val, e) \in Plain
    BY <1>2, <1>9, WidthIs
  <2>2. PICK b, c : b = Bool(op \in {"inThen", "inBoth"}) /\ c = Bool(op \in {"inElse", "inBoth"})
    OBVIOUS
  <2>3. b \in Tri /\ c \in Tri
    BY <2>2, BoolIs DEF Tri
  <2>4. Evaluate(op, args, e) = IfThenElse(At(args[1].val, e), b, c)
    BY <1>9, <2>2, EvaluateIs
  <2> QED BY <1>3, <2>1, <2>3, <2>4, IfIs
<1>10. CASE op \in Folds
  <2>1. 1 \in DOMAIN args /\ 2 \in DOMAIN args /\ 3 \in DOMAIN args
    BY <1>10, WidthIs
  <2>2. PICK S : S = {CompareValues("eq", At(args[i].val, e), At(args[3].val, e)) : i \in 1 .. 2}
    OBVIOUS
  <2>3. S \subseteq Plain
    <3>1. "eq" \in Comparisons
      BY DEF Comparisons, Equalities
    <3>2. \A i \in 1 .. 2 : CompareValues("eq", At(args[i].val, e), At(args[3].val, e)) \in Tri
      BY <1>2, <2>1, <3>1, CompareIs
    <3> QED BY <1>3, <2>2, <3>2
  <2>4. Junction(TRUE, S) \in Tri /\ Junction(FALSE, S) \in Tri
    BY <2>3, JunctionIs
  <2>5. CASE op = "existsOf"
    <3>1. Evaluate(op, args, e) = IF Err \in {At(args[1].val, e), At(args[2].val, e)} THEN Err ELSE Junction(op = "existsOf", S)
      BY <2>2, <2>5 DEF Evaluate, Comparisons, Equalities, Orderings, ConditionalLists, Folds
    <3>2. Junction(op = "existsOf", S) = Junction(TRUE, S)
      BY <2>5 DEF Junction, Bool
    <3> QED BY <1>3, <2>4, <3>1, <3>2
  <2>6. CASE op = "allOf"
    <3>1. Evaluate(op, args, e) = IF Err \in {At(args[1].val, e), At(args[2].val, e)} THEN Err ELSE Junction(op = "existsOf", S)
      BY <2>2, <2>6 DEF Evaluate, Comparisons, Equalities, Orderings, ConditionalLists, Folds
    <3>2. Junction(op = "existsOf", S) = Junction(FALSE, S)
      BY <2>6 DEF Junction, Bool
    <3> QED BY <1>3, <2>4, <3>1, <3>2
  <2> QED BY <1>10, <2>5, <2>6 DEF Folds
<1>11. ASSUME op \in {"if", "add", "div", "mod", "size", "index", "except", "intersect"}
       PROVE  op \notin Answers
  BY <1>11 DEF Answers, Junctions, Comparisons, Equalities, Orderings, ConditionalLists, Folds
<1>12. CASE op = "if"
  <2>1. 1 \in DOMAIN args /\ 2 \in DOMAIN args /\ 3 \in DOMAIN args
    BY <1>12, WidthIs
  <2> QED BY <1>2, <1>3, <1>11, <1>12, <2>1, EvaluateIs, IfIs
<1>13. CASE op = "add"
  BY <1>4, <1>11, <1>13, EvaluateIs, PlusIs DEF Binary
<1>14. CASE op \in {"div", "mod"}
  <2>1. At(args[1].val, e) \in Plain /\ At(args[2].val, e) \in Plain
    BY <1>4, <1>14 DEF Binary
  <2>2. DividedBy(op, args, At(args[1].val, e), At(args[2].val, e)) \in Plain
    <3>1. At(args[1].val, e).v \in Int /\ At(args[2].val, e).v \in Int
      BY <2>1, PlainIs, ValueIs
    <3>2. At(args[2].val, e).v # 0 => Divided(op, At(args[1].val, e).v, At(args[2].val, e).v) \in Int
      BY <3>1, DividedIs
    <3> QED BY <1>3, <3>2, NumPlain DEF DividedBy
  <2> QED BY <1>11, <1>14, <2>2, EvaluateIs
<1>15. CASE op = "size"
  BY <1>2, <1>11, <1>15, WidthIs, EvaluateIs, SizeIs
<1>16. CASE op = "index"
  BY <1>2, <1>3, <1>11, <1>16, WidthIs, EvaluateIs, ElementIs, PlainIs, ItemIs
<1>17. CASE op \in {"except", "intersect"}
  BY <1>4, <1>11, <1>17, EvaluateIs, SetsAre DEF Binary
<1>18. op \in AllOperators
  BY DEF Well
<1> QED BY <1>5, <1>6, <1>7, <1>8, <1>9, <1>10, <1>12, <1>13, <1>14, <1>15, <1>16, <1>17, <1>18 DEF AllOperators, Inside

LEMMA EvaluateOutside ==
  ASSUME NEW op, NEW args, Well(op, args), ~Inside(op)
  PROVE  LET v == At(args[1].val, Root)
             z == Evaluate(op, args, Root)
         IN /\ z \in Plain
            /\ op = "exists" => z = Exists(v, Bodies(args)) /\ z \in Tri
            /\ op = "all" => z = All(v, Bodies(args)) /\ z \in Tri
            /\ op = "map" => z = IF v.t = "list" /\ Err \notin Bodies(args) THEN ListOf(Bodies(args)) ELSE Err
            /\ op = "existsOne" => z = Err
<1>1. PICK v : v = At(args[1].val, Root)
  OBVIOUS
<1>2. v \in Plain /\ Bodies(args) \subseteq Plain
  BY <1>1, MacroOperands, BodiesAre
<1>3. Err \in Plain /\ Tri \subseteq Plain
  BY TriPlain DEF Tri
<1>4. CASE op = "exists"
  <2>1. Evaluate(op, args, Root) = Exists(v, Bodies(args))
    BY <1>1, <1>4 DEF Evaluate, Bodies, Comparisons, Equalities, Orderings, ConditionalLists, Folds
  <2>2. Exists(v, Bodies(args)) \in Tri
    BY <1>2, MacroIs
  <2> QED BY <1>1, <1>3, <1>4, <2>1, <2>2
<1>5. CASE op = "all"
  <2>1. Evaluate(op, args, Root) = All(v, Bodies(args))
    BY <1>1, <1>5 DEF Evaluate, Bodies, Comparisons, Equalities, Orderings, ConditionalLists, Folds
  <2>2. All(v, Bodies(args)) \in Tri
    BY <1>2, MacroIs
  <2> QED BY <1>1, <1>3, <1>5, <2>1, <2>2
<1>6. CASE op = "map"
  <2>1. Evaluate(op, args, Root) = IF IsCollection(v) /\ Err \notin Bodies(args) THEN ListOf(Bodies(args)) ELSE Err
    BY <1>1, <1>6 DEF Evaluate, Bodies, Comparisons, Equalities, Orderings, ConditionalLists, Folds
  <2>2. IsCollection(v) <=> v.t = "list"
    BY <1>2, PlainIs
  <2>3. ASSUME v.t = "list", Err \notin Bodies(args) PROVE ListOf(Bodies(args)) \in Plain
    <3>1. Members[v] = ElementEnvs /\ \A y \in Bodies(args) : \E m \in ElementEnvs : y = args[2].val[m]
      BY <1>1, <2>3, BodiesAre
    <3>2. args[2].kind = "variable" /\ NodeOK(args[2]) /\ args[2].scope = "element"
      BY <1>6, MacroOperands DEF Well, WellFormedPlan
    <3>3. ASSUME NEW m \in ElementEnvs PROVE args[2].val[m] \in {m, Err}
      <4>1. VariableFine(args[2], ElementEnvs, Array # {}, NullElement)
        BY <3>2 DEF NodeOK, NodeFine
      <4>2. args[2].agg[m] = m /\ CellFine(args[2], m, args[2].val[m], args[2].guard[m])
        BY <3>2, <4>1 DEF VariableFine, Envs
      <4> QED BY <4>2 DEF CellFine
    <3>4. Bodies(args) \subseteq Members[v]
      BY <2>3, <3>1, <3>3
    <3> QED BY <1>2, <2>3, <3>4, PlainIs, ListIs
  <2> QED BY <1>1, <1>3, <1>6, <2>1, <2>2, <2>3
<1>7. CASE op = "existsOne"
  BY <1>1, <1>3, <1>7 DEF Evaluate, Comparisons, Equalities, Orderings, ConditionalLists, Folds
<1> QED BY <1>1, <1>4, <1>5, <1>6, <1>7 DEF Inside, Macros

LEMMA EvaluatePlain ==
  ASSUME NEW op, NEW args, Well(op, args), NEW e \in Places(op, args)
  PROVE  Evaluate(op, args, e) \in Plain /\ (op \in Answers => Evaluate(op, args, e) \in Tri)
<1>1. CASE Inside(op)
  BY <1>1, EvaluateInside
<1>2. CASE ~Inside(op)
  <2>1. e = Root
    BY <1>2 DEF Places, ScopeFor, Envs, Inside
  <2>2. op \in Answers => op \in {"exists", "all"}
    BY <1>2 DEF Inside, Macros, Answers, Junctions, Comparisons, Equalities, Orderings, ConditionalLists, Folds
  <2> QED BY <1>2, <2>1, <2>2, EvaluateOutside
<1> QED BY <1>1, <1>2

\* The type an expression has for the translation.
LEMMA TypeIs ==
  ASSUME NEW op, NEW args
  PROVE  LET t == CelScalarType(op, args) IN
         /\ op \in {"size", "div", "mod"} => t = "num"
         /\ op \in Comparisons \union Junctions \union {"not", "matches", "startsWith"} => t = "bool"
         /\ op \notin Comparisons \union Junctions
              \union {"add", "if", "size", "div", "mod", "not", "matches", "startsWith"} => t = "none"
         /\ op = "add" => /\ t \in {"str", "num"} => args[1].type = t \/ args[2].type = t
                          /\ t \in {"str", "num", "mixed", "none"}
         /\ op = "if" => \/ t \in {"mixed", "none"}
                         \/ args[2].type = t /\ args[3].type = t
<1>1. CASE op = "add"
  BY <1>1 DEF CelScalarType, Comparisons, Equalities, Orderings, Junctions
<1>2. CASE op \in {"size", "div", "mod"}
  BY <1>2 DEF CelScalarType, Comparisons, Equalities, Orderings, Junctions
<1>3. CASE op = "if"
  <2>1. CelScalarType(op, args) =
          IF \E i \in 2 .. 3 : args[i].type = "mixed" THEN "mixed"
          ELSE IF \E i \in 2 .. 3 : args[i].type = "none" THEN "none"
          ELSE IF args[2].type = args[3].type THEN args[2].type ELSE "mixed"
    BY <1>3 DEF CelScalarType, Comparisons, Equalities, Orderings, Junctions
  <2> QED BY <1>3, <2>1 DEF Comparisons, Equalities, Orderings, Junctions
<1>4. CASE op \in Comparisons \union Junctions \union {"not", "matches", "startsWith"}
  <2>1. op \notin {"add", "size", "div", "mod", "if"}
    BY <1>4 DEF Comparisons, Equalities, Orderings, Junctions
  <2>2. CelScalarType(op, args) = "bool"
    BY <1>4, <2>1 DEF CelScalarType
  <2> QED BY <1>4, <2>1, <2>2
<1>5. CASE op \notin Comparisons \union Junctions
             \union {"add", "if", "size", "div", "mod", "not", "matches", "startsWith"}
  <2>1. CelScalarType(op, args) = "none"
    BY <1>5 DEF CelScalarType
  <2> QED BY <1>5, <2>1
<1> QED BY <1>1, <1>2, <1>3, <1>4, <1>5

ScalarTypes == {"none", "num", "str", "bool", "mixed"}

LEMMA TypeToldBy ==
  ASSUME NEW op, NEW args, Well(op, args), Inside(op), NEW e \in Places(op, args)
  PROVE  LET t == CelScalarType(op, args) IN
         /\ t \in ScalarTypes
         /\ t \in {"num", "str", "bool"} => Evaluate(op, args, e).t \in {t, "error", "null"}
<1>1. PICK t : t = CelScalarType(op, args)
  OBVIOUS
<1>2. Places(op, args) = Envs(ElementEnvs, ScopeOf(args))
  BY DEF Places, ScopeFor, Inside
<1>3. \A i \in DOMAIN args : args[i].type \in ScalarTypes
  BY DEF Well, NodeOK, NodeFine, NodeTyped, ScalarTypes
<1>4. \A i \in DOMAIN args : /\ At(args[i].val, e) \in Plain
                             /\ args[i].shape \notin Lists /\ args[i].type \in {"num", "str", "bool"} =>
                                  At(args[i].val, e).t \in {args[i].type, "error", "null"}
  BY <1>2, WellOperand
<1>5. CASE op = "add"
  <2>1. 1 \in DOMAIN args /\ 2 \in DOMAIN args
    BY <1>5, WidthIs DEF Binary
  <2>2. PICK x \in Plain, y \in Plain : x = At(args[1].val, e) /\ y = At(args[2].val, e)
    BY <1>4, <2>1
  <2>3. args[1].shape \notin Lists /\ args[2].shape \notin Lists
    BY <1>5, <2>1, ScalarOperands
  <2>4. Evaluate(op, args, e) = Plus(x, y)
    BY <1>5, <2>2, EvaluateIs
  <2>5. Plus(x, y) # Err => x.t = y.t /\ x.t \in {"num", "str"} /\ Plus(x, y).t = x.t
    BY PlusIs
  <2>6. t \in {"str", "num"} => args[1].type = t \/ args[2].type = t
    BY <1>1, <1>5, TypeIs
  <2>7. t \in {"str", "num", "mixed", "none"}
    BY <1>1, <1>5, TypeIs
  <2>8. args[1].type \in {"str", "num"} => x.t \in {args[1].type, "error", "null"}
    BY <1>4, <2>1, <2>2, <2>3
  <2>9. args[2].type \in {"str", "num"} => y.t \in {args[2].type, "error", "null"}
    BY <1>4, <2>1, <2>2, <2>3
  <2> QED BY <1>1, <2>4, <2>5, <2>6, <2>7, <2>8, <2>9, Constants DEF ScalarTypes
<1>6. CASE op \in {"size", "div", "mod"}
  <2>1. t = "num"
    BY <1>1, <1>6, TypeIs
  <2>2. Evaluate(op, args, e).t \in {"num", "error"}
    <3>1. CASE op = "size"
      <4>1. At(args[1].val, e) \in Plain
        BY <1>4, <1>6, <3>1, WidthIs
      <4> QED BY <3>1, <4>1, EvaluateIs, SizeIs, Constants
    <3>2. CASE op \in {"div", "mod"}
      <4>1. Evaluate(op, args, e) = DividedBy(op, args, At(args[1].val, e), At(args[2].val, e))
        BY <3>2, EvaluateIs
      <4> QED BY <4>1, Constants DEF DividedBy
    <3> QED BY <1>6, <3>1, <3>2
  <2> QED BY <1>1, <2>1, <2>2 DEF ScalarTypes
<1>7. CASE op = "if"
  <2>1. 1 \in DOMAIN args /\ 2 \in DOMAIN args /\ 3 \in DOMAIN args
    BY <1>7, WidthIs
  <2>2. args[2].shape \notin Lists /\ args[3].shape \notin Lists
    BY <1>7, <2>1, ScalarOperands
  <2>3. Evaluate(op, args, e) \in {At(args[2].val, e), At(args[3].val, e), Err}
    BY <1>4, <1>7, <2>1, EvaluateIs, IfIs
  <2>4. t \in {"mixed", "none"} \/ (args[2].type = t /\ args[3].type = t)
    BY <1>1, <1>7, TypeIs
  <2> QED BY <1>1, <1>3, <1>4, <2>1, <2>2, <2>3, <2>4, Constants DEF ScalarTypes
<1>8. CASE op \in Comparisons \union Junctions \union {"not", "matches", "startsWith"}
  <2>1. t = "bool"
    BY <1>1, <1>8, TypeIs
  <2>2. Evaluate(op, args, e) \in Tri
    BY <1>8, EvaluateInside DEF Answers
  <2> QED BY <1>1, <2>1, <2>2, TriPlain DEF ScalarTypes
<1>9. CASE op \notin Comparisons \union Junctions
             \union {"add", "if", "size", "div", "mod", "not", "matches", "startsWith"}
  <2>1. t = "none"
    BY <1>1, <1>9, TypeIs
  <2> QED BY <1>1, <2>1 DEF ScalarTypes
<1> QED BY <1>5, <1>6, <1>7, <1>8, <1>9

\* Behind its guards the pipeline computes what CEL computes.
LEMMA BareAgrees ==
  ASSUME NEW op, NEW args, Well(op, args), NEW n, n = BareExpression(op, args)
  PROVE  Agrees(n, ElementEnvs)
<1>1. n.scope = ScopeFor(op, args)
  BY BareHead
<1>2. Envs(ElementEnvs, n.scope) = Places(op, args)
  BY <1>1 DEF Places
<1>3. SUFFICES ASSUME n.shape \notin Lists, n.typed, ~n.aggThrows, NEW e \in Places(op, args), n.guard[e]
               PROVE  Computes(n.agg[e], n.val[e])
  BY <1>2 DEF Agrees
<1>4. ~AggregateThrows(op, args)
  BY <1>3, BareIs
<1>5. Inside(op)
  BY <1>4 DEF AggregateThrows, Inside, Macros, Comparisons, Equalities, Orderings, Junctions
<1>6. /\ \A i \in DOMAIN args : args[i].typed
      /\ HasOverload(op, args, e)
  BY <1>3, BareIs
<1>7. /\ Places(op, args) = Envs(ElementEnvs, ScopeOf(args))
      /\ n.agg[e] = Aggregate(op, args, Inputs(args, e))
      /\ Guards(args, e) /\ OwnGuard(op, Inputs(args, e), n.agg[e])
  BY <1>3, <1>5, BareInside
<1>8. Reading(op, args, e)
  <2>1. Computable(op, args, e)
    BY <1>4, <1>6, <1>7, Zenon DEF Computable, Guards
  <2> QED BY <1>3, <1>7, <2>1 DEF Reading
<1>9. n.val[e] = Evaluate(op, args, e)
  BY <1>3, BareHead
<1>10. Computes(Aggregate(op, args, Inputs(args, e)), Evaluate(op, args, e))
  BY <1>7, <1>8, Agreement
<1> QED BY <1>7, <1>9, <1>10

-----------------------------------------------------------------------------
(* Leaf queries *)

LEMMA CellIs ==
  ASSUME NEW n, n.nullable \in BOOLEAN, NEW x, NEW v, NEW g, CellFine(n, x, v, g)
  PROVE  /\ x \in Value /\ x \in Cells /\ x # Err
         /\ Missing(x) <=> x = Null \/ x = Undefined
         /\ v = Err <=> x = Undefined \/ (n.nullable /\ x = Null)
         /\ v # Err => v = x
         /\ v # Err /\ Missing(x) => x = Null /\ ~n.nullable
         /\ g <=> /\ n.nullable => ~Missing(x) /\ Null \notin Elements(x)
                  /\ n.shape = "one" => x # Undefined
         /\ n.shape \notin Lists =>
              /\ ~IsCollection(x) /\ Elements(x) = {} /\ x.t # "list"
              /\ g => v # Err
              /\ n.type # "none" => x.t = n.type \/ Missing(x)
              /\ x = Undefined /\ ~n.nullable => n.shape = "one"
              /\ n.shape # "one" /\ ~g => x \in {Null, Undefined} /\ n.nullable
<1>1. x \in Value /\ x.t \in {"null", "undefined", "num", "str", "bool", "list"}
  BY DEF CellFine, Cells
<1>2. x \in Cells /\ x # Err
  BY <1>1, Constants DEF CellFine
<1>3. v = IF x = Undefined \/ (n.nullable /\ x = Null) THEN Err ELSE x
  BY DEF CellFine
<1>4. g <=> /\ n.nullable => ~Missing(x) /\ Null \notin Elements(x)
            /\ n.shape = "one" => x # Undefined
  BY DEF CellFine, VariableGuard
<1>5. ASSUME n.shape \notin Lists PROVE ~IsCollection(x) /\ Elements(x) = {} /\ x.t # "list"
  <2>1. x.t # "list"
    BY <1>5 DEF CellFine
  <2> QED BY <1>1, <2>1 DEF IsCollection, Elements
<1>6. n.shape \notin Lists /\ n.type # "none" => x.t = n.type \/ Missing(x)
  BY <1>5 DEF CellFine
<1>7. n.shape \notin Lists /\ x = Undefined /\ ~n.nullable => n.shape = "one"
  BY DEF CellFine, Lists
<1> QED BY <1>1, <1>2, <1>3, <1>4, <1>5, <1>6, <1>7 DEF Missing

LEMMA QueryIs ==
  ASSUME NEW x, NEW lit
  PROVE  /\ QueryMatches("eq", x, lit) <=> IF lit = Null THEN Missing(x) ELSE x = lit
         /\ QueryMatches("ne", x, lit) <=> IF lit = Null THEN ~Missing(x) ELSE x # lit
         /\ \A op \in Orderings : QueryMatches(op, x, lit) <=> SameOrderedType(x, lit) /\ Ordered(op, x.v, lit.v)
         /\ QueryMatches("in", x, lit) <=> x \in Members[lit] \/ (Missing(x) /\ Null \in Members[lit])
         /\ QueryMatches("startsWith", x, lit) <=> x.t = "str" /\ lit.t = "str" /\ IsPrefix(lit, x)
         /\ QueryMatches("present", x, lit) <=> x # Undefined
         /\ QueryMatches("anything", x, lit)
         /\ ~QueryMatches("nothing", x, lit)
<1>1. QueryMatches("eq", x, lit) <=> IF lit = Null THEN Missing(x) ELSE x = lit
  BY DEF QueryMatches, Orderings
<1>2. QueryMatches("ne", x, lit) <=> IF lit = Null THEN ~Missing(x) ELSE x # lit
  BY DEF QueryMatches, Orderings
<1>3. ASSUME NEW op \in Orderings
      PROVE  QueryMatches(op, x, lit) <=> SameOrderedType(x, lit) /\ Ordered(op, x.v, lit.v)
  <2>1. CASE op = "lt"
    BY <2>1 DEF QueryMatches, Orderings
  <2>2. CASE op = "le"
    BY <2>2 DEF QueryMatches, Orderings
  <2>3. CASE op = "gt"
    BY <2>3 DEF QueryMatches, Orderings
  <2>4. CASE op = "ge"
    BY <2>4 DEF QueryMatches, Orderings
  <2> QED BY <2>1, <2>2, <2>3, <2>4 DEF Orderings
<1>4. QueryMatches("in", x, lit) <=> x \in Members[lit] \/ (Missing(x) /\ Null \in Members[lit])
  BY DEF QueryMatches, Orderings
<1>5. QueryMatches("startsWith", x, lit) <=> x.t = "str" /\ lit.t = "str" /\ IsPrefix(lit, x)
  BY DEF QueryMatches, Orderings
<1>6. QueryMatches("present", x, lit) <=> x # Undefined
  BY DEF QueryMatches, Orderings
<1>7. QueryMatches("anything", x, lit) /\ ~QueryMatches("nothing", x, lit)
  BY DEF QueryMatches, Orderings
<1> QED BY <1>1, <1>2, <1>3, <1>4, <1>5, <1>6, <1>7

\* A leaf query runs, on the path or on the elements of a relation.
LEMMA LeafIs ==
  ASSUME NEW field, NEW test, NEW lit, NEW nullable, NEW required
  PROVE  LET f == EmitLeafComparison(field, test, lit, nullable, required) IN
         /\ FilterTyped(f, DOMAIN field.agg) /\ ~f.throws /\ ~f.aborts
         /\ \A e \in DOMAIN field.agg :
              /\ field.shape = "many" =>
                   (f.match[e] <=> \E m \in Elements(field.agg[e]) : GuardedMatches(test, m, lit, nullable, required))
              /\ field.shape # "many" =>
                   (f.match[e] <=> GuardedMatches(test, field.agg[e], lit, nullable, required))
<1>1. PICK f : f = EmitLeafComparison(field, test, lit, nullable, required)
  OBVIOUS
<1>2. f.throws = FALSE /\ f.aborts = FALSE
  BY <1>1 DEF EmitLeafComparison, Filter
<1>3. f.match = [e \in DOMAIN field.agg |->
        IF field.shape = "many"
        THEN \E m \in Elements(field.agg[e]) : GuardedMatches(test, m, lit, nullable, required)
        ELSE GuardedMatches(test, field.agg[e], lit, nullable, required)]
  BY <1>1 DEF EmitLeafComparison, Filter
<1>4. f.match \in [DOMAIN field.agg -> BOOLEAN]
  BY <1>3 DEF GuardedMatches
<1> QED BY <1>1, <1>2, <1>3, <1>4 DEF FilterTyped

\* A scalar path and a constant that is not a list.
ScalarField(field) == NodeOK(field) /\ field.kind = "variable" /\ field.shape \notin Lists
LeafConstant(lit) == lit \in Plain /\ lit # Err /\ lit.t # "list"

LEMMA FieldIs ==
  ASSUME NEW field, NodeOK(field), field.kind = "variable"
  PROVE  /\ field.nullable \in BOOLEAN /\ field.elementNullable \in BOOLEAN /\ field.type \in {"none", "num", "str", "bool"}
         /\ DOMAIN field.agg = Envs(ElementEnvs, field.scope) /\ DOMAIN field.val = Envs(ElementEnvs, field.scope)
         /\ field.scope = (IF field.shape = "element" THEN "element" ELSE "root")
         /\ field.shape \in Shapes /\ field.lit = Undefined /\ ~field.aggThrows /\ ~field.exprGuard /\ field.typed
         /\ \A e \in DOMAIN field.agg : /\ CellFine(field, field.agg[e], field.val[e], field.guard[e])
                                        /\ field.val[e] \in Plain /\ field.guard[e] \in BOOLEAN
BY DEF NodeOK, NodeFine, NodeTyped, VariableFine

LEMMA EqualLeaf ==
  ASSUME NEW field, ScalarField(field), NEW lit, LeafConstant(lit), NEW op \in Equalities,
         ~(op = "ne" /\ field.shape = "one" /\ ~field.nullable),
         NEW e \in DOMAIN field.agg
  PROVE  LET f == CompareConstant(op, field, lit) IN
         /\ FilterTyped(f, DOMAIN field.agg) /\ ~f.aborts
         /\ ~f.throws => (f.match[e] <=> CompareValues(op, field.val[e], lit) = True)
<1>1. PICK x, v, g : x = field.agg[e] /\ v = field.val[e] /\ g = field.guard[e]
  OBVIOUS
<1>2. CellFine(field, x, v, g) /\ v \in Plain /\ field.nullable \in BOOLEAN
  BY <1>1, FieldIs DEF ScalarField
<1>3. /\ x \in Value /\ (v = Err <=> x = Undefined \/ (field.nullable /\ x = Null)) /\ (v # Err => v = x)
      /\ (Missing(x) <=> x = Null \/ x = Undefined)
      /\ field.type # "none" => x.t = field.type \/ Missing(x)
      /\ x = Undefined /\ ~field.nullable => field.shape = "one"
  BY <1>2, CellIs DEF ScalarField
<1>4. lit \in Plain /\ lit # Err /\ lit.t # "list" /\ lit # Undefined
  BY PlainIs DEF LeafConstant
<1>5. field.shape # "many"
  BY DEF ScalarField, Lists
<1>6. op \notin Orderings /\ op \in Comparisons /\ op \in {"eq", "ne"}
  BY DEF Equalities, Orderings, Comparisons
<1>7. CompareValues(op, v, lit) = True <=> v # Err /\ (op = "eq" <=> v = lit)
  BY <1>2, <1>4, <1>6, CompareIs, Constants DEF Tri
<1>8. CASE ~CanEqual(field.type, lit)
  <2>1. field.type # "none" /\ lit # Null /\ lit.t # field.type
    BY <1>8 DEF CanEqual
  <2>2. v # Err => v # lit
    BY <1>3, <2>1, Constants
  <2>3. PICK test : test = IF op = "eq" THEN "nothing" ELSE IF field.scope = "root" THEN "anything" ELSE "present"
    OBVIOUS
  <2>4. CompareConstant(op, field, lit) = EmitLeafComparison(field, test, lit, op = "ne" /\ field.nullable, FALSE)
    BY <1>6, <1>8, <2>3 DEF CompareConstant, Equalities
  <2>5. PICK f : f = EmitLeafComparison(field, test, lit, op = "ne" /\ field.nullable, FALSE)
    OBVIOUS
  <2>6. FilterTyped(f, DOMAIN field.agg) /\ ~f.aborts
    BY <2>5, LeafIs
  <2>7. f.match[e] <=> GuardedMatches(test, x, lit, op = "ne" /\ field.nullable, FALSE)
    BY <1>1, <1>5, <2>5, LeafIs
  <2>8. GuardedMatches(test, x, lit, op = "ne" /\ field.nullable, FALSE) <=>
          ((op = "ne" /\ field.nullable) => ~Missing(x)) /\ QueryMatches(test, x, lit)
    BY DEF GuardedMatches
  <2>9. CASE op = "eq"
    <3>1. ~QueryMatches(test, x, lit)
      BY <2>3, <2>9, QueryIs
    <3> QED BY <1>1, <1>7, <2>2, <2>4, <2>5, <2>6, <2>7, <2>8, <2>9, <3>1
  <2>10. CASE op = "ne"
    <3>1. QueryMatches(test, x, lit) \/ x = Undefined
      BY <2>3, <2>10, QueryIs
    <3>2. QueryMatches(test, x, lit) => x # Undefined \/ field.scope = "root"
      BY <2>3, <2>10, QueryIs
    <3>3. x = Undefined => field.nullable
      BY <1>3, <2>10
    <3> QED BY <1>1, <1>3, <1>7, <2>2, <2>4, <2>5, <2>6, <2>7, <2>8, <2>10, <3>1, <3>3
  <2> QED BY <1>6, <2>9, <2>10
<1>9. CASE CanEqual(field.type, lit)
  <2>1. CompareConstant(op, field, lit) = EmitValueComparison(field, op, lit, lit)
    BY <1>6, <1>9 DEF CompareConstant
  <2>2. CarriesNull(lit) <=> lit = Null
    BY <1>4 DEF CarriesNull
  <2>3. PICK f : f = EmitLeafComparison(field, op, lit, field.nullable, CarriesNull(lit))
    OBVIOUS
  <2>4. FilterTyped(f, DOMAIN field.agg) /\ ~f.aborts
    BY <2>3, LeafIs
  <2>5. f.match[e] <=> GuardedMatches(op, x, lit, field.nullable, CarriesNull(lit))
    BY <1>1, <1>5, <2>3, LeafIs
  <2>6. f.match[e] <=> /\ field.nullable => ~Missing(x)
                       /\ lit = Null => x # Undefined
                       /\ QueryMatches(op, x, lit)
    BY <2>2, <2>5 DEF GuardedMatches
  <2>7. QueryMatches(op, x, lit) <=> IF op = "eq" THEN (IF lit = Null THEN Missing(x) ELSE x = lit)
                                     ELSE (IF lit = Null THEN ~Missing(x) ELSE x # lit)
    BY <1>6, QueryIs
  <2>8. f.match[e] <=> v # Err /\ (op = "eq" <=> v = lit)
    BY <1>3, <1>4, <1>6, <2>6, <2>7
  <2>9. CompareConstant(op, field, lit) \in {f, Refusal}
    BY <2>1, <2>3 DEF EmitValueComparison, RefusedIf
  <2>10. FilterTyped(Refusal, DOMAIN field.agg) /\ ~Refusal.aborts /\ Refusal.throws
    BY DEF Refusal, FilterTyped
  <2> QED BY <1>1, <1>7, <2>4, <2>8, <2>9, <2>10
<1> QED BY <1>8, <1>9

LEMMA OrderedLeaf ==
  ASSUME NEW field, ScalarField(field), NEW lit, LeafConstant(lit), NEW op \in Orderings, NEW e \in DOMAIN field.agg
  PROVE  LET f == CompareConstant(op, field, lit) IN
         /\ FilterTyped(f, DOMAIN field.agg) /\ ~f.aborts /\ ~f.throws
         /\ f.match[e] <=> CompareValues(op, field.val[e], lit) = True
<1>1. PICK x, v, g : x = field.agg[e] /\ v = field.val[e] /\ g = field.guard[e]
  OBVIOUS
<1>2. CellFine(field, x, v, g) /\ v \in Plain /\ field.nullable \in BOOLEAN
  BY <1>1, FieldIs DEF ScalarField
<1>3. /\ x \in Value /\ (v = Err <=> x = Undefined \/ (field.nullable /\ x = Null)) /\ (v # Err => v = x)
      /\ (Missing(x) <=> x = Null \/ x = Undefined)
      /\ field.type # "none" => x.t = field.type \/ Missing(x)
  BY <1>2, CellIs DEF ScalarField
<1>4. lit \in Plain /\ lit # Err /\ lit.t # "list" /\ lit.t \in PlainTypes /\ (lit = Null <=> lit.t = "null")
  BY PlainIs, ValueIs DEF LeafConstant
<1>5. field.shape # "many"
  BY DEF ScalarField, Lists
<1>6. op \in Comparisons /\ op \notin {"eq", "ne"}
  BY DEF Equalities, Orderings, Comparisons
<1>7. CompareValues(op, v, lit) = True <=> v # Err /\ SameOrderedType(v, lit) /\ Ordered(op, v.v, lit.v)
  BY <1>2, <1>4, <1>6, CompareIs, Constants DEF Tri
<1>8. SameOrderedType(x, lit) => ~Missing(x) /\ lit.t \in {"num", "str", "bool"} /\ x.t = lit.t
  <2>1. x.t # "int64" /\ lit.t # "int64"
    BY <1>2, <1>4 DEF CellFine, Cells, PlainTypes
  <2> QED BY <1>3, <1>4, <2>1, Constants DEF SameOrderedType, IsNumeric, PlainTypes
<1>9. CASE ~CanOrder(field.type, lit)
  <2>1. CompareConstant(op, field, lit) = EmitLeafComparison(field, "nothing", lit, FALSE, FALSE)
    BY <1>9 DEF CompareConstant
  <2>2. PICK f : f = EmitLeafComparison(field, "nothing", lit, FALSE, FALSE)
    OBVIOUS
  <2>3. FilterTyped(f, DOMAIN field.agg) /\ ~f.aborts /\ ~f.throws /\ ~f.match[e]
    <3>1. FilterTyped(f, DOMAIN field.agg) /\ ~f.aborts /\ ~f.throws
      BY <2>2, LeafIs
    <3>2. f.match[e] <=> GuardedMatches("nothing", x, lit, FALSE, FALSE)
      BY <1>1, <1>5, <2>2, LeafIs
    <3> QED BY <3>1, <3>2, QueryIs DEF GuardedMatches
  <2>4. v # Err => ~SameOrderedType(v, lit)
    BY <1>3, <1>8, <1>9 DEF CanOrder
  <2> QED BY <1>1, <1>7, <2>1, <2>2, <2>3, <2>4
<1>10. CASE CanOrder(field.type, lit)
  <2>1. lit # Null
    BY <1>4, <1>10 DEF CanOrder
  <2>2. ~CarriesNull(lit) /\ ~NullRefused(lit)
    BY <1>4, <2>1 DEF CarriesNull, NullRefused
  <2>3. PICK f : f = EmitLeafComparison(field, op, lit, field.nullable, CarriesNull(lit))
    OBVIOUS
  <2>4. CompareConstant(op, field, lit) = f
    <3>1. op \notin Equalities
      BY <1>6 DEF Equalities
    <3>2. CompareConstant(op, field, lit) = EmitValueComparison(field, op, lit, lit)
      BY <1>10, <3>1 DEF CompareConstant
    <3> QED BY <2>2, <2>3, <3>2 DEF EmitValueComparison, RefusedIf
  <2>5. FilterTyped(f, DOMAIN field.agg) /\ ~f.aborts /\ ~f.throws
    BY <2>3, LeafIs
  <2>6. f.match[e] <=> GuardedMatches(op, x, lit, field.nullable, CarriesNull(lit))
    BY <1>1, <1>5, <2>3, LeafIs
  <2>7. f.match[e] <=> (field.nullable => ~Missing(x)) /\ SameOrderedType(x, lit) /\ Ordered(op, x.v, lit.v)
    BY <2>2, <2>6, QueryIs DEF GuardedMatches
  <2> QED BY <1>1, <1>3, <1>7, <1>8, <2>4, <2>5, <2>7
<1> QED BY <1>9, <1>10

LEMMA MirrorIs ==
  ASSUME NEW op \in Comparisons, NEW x \in Plain, NEW y \in Plain
  PROVE  /\ Mirrored(op) \in Comparisons /\ (Mirrored(op) = "ne" <=> op = "ne")
         /\ op \in Equalities => Mirrored(op) = op
         /\ op \in Orderings => Mirrored(op) \in Orderings
         /\ CompareValues(Mirrored(op), y, x) = CompareValues(op, x, y)
<1>1. x.v \in Int /\ y.v \in Int /\ (SameOrderedType(x, y) <=> SameOrderedType(y, x))
  BY PlainIs, ValueIs DEF SameOrderedType
<1>2. ValuesEqual(x, y) <=> ValuesEqual(y, x)
  BY EqualIs
<1>3. CASE op \in Equalities
  <2>1. Mirrored(op) = op /\ op \notin Orderings
    BY <1>3 DEF Mirrored, Equalities, Orderings
  <2>2. CompareValues(op, y, x) = CompareValues(op, x, y)
    BY <1>2, <1>3 DEF CompareValues, Equalities, Bool
  <2> QED BY <1>3, <2>1, <2>2
<1>4. ASSUME op \in Orderings, NEW r \in Orderings, Ordered(r, y.v, x.v) <=> Ordered(op, x.v, y.v)
      PROVE  CompareValues(r, y, x) = CompareValues(op, x, y)
  <2>1. r \notin {"eq", "ne"} /\ op \notin {"eq", "ne"}
    BY <1>4 DEF Orderings
  <2>2. CompareValues(r, y, x) = (IF Err \in {x, y} THEN Err ELSE
                                  IF SameOrderedType(x, y) THEN Bool(Ordered(op, x.v, y.v)) ELSE Err)
    BY <1>1, <1>4, <2>1 DEF CompareValues, Bool
  <2>3. CompareValues(op, x, y) = (IF Err \in {x, y} THEN Err ELSE
                                   IF SameOrderedType(x, y) THEN Bool(Ordered(op, x.v, y.v)) ELSE Err)
    BY <2>1 DEF CompareValues, Bool
  <2> QED BY <2>2, <2>3
<1>5. CASE op = "lt"
  <2>1. Mirrored(op) = "gt" /\ "gt" \in Orderings /\ op \in Orderings /\ op \notin Equalities
    BY <1>5 DEF Mirrored, Orderings, Equalities
  <2>2. Ordered("gt", y.v, x.v) <=> Ordered(op, x.v, y.v)
    BY <1>1, <1>5 DEF Ordered
  <2> QED BY <1>4, <1>5, <2>1, <2>2 DEF Comparisons
<1>6. CASE op = "le"
  <2>1. Mirrored(op) = "ge" /\ "ge" \in Orderings /\ op \in Orderings /\ op \notin Equalities
    BY <1>6 DEF Mirrored, Orderings, Equalities
  <2>2. Ordered("ge", y.v, x.v) <=> Ordered(op, x.v, y.v)
    BY <1>1, <1>6 DEF Ordered
  <2> QED BY <1>4, <1>6, <2>1, <2>2 DEF Comparisons
<1>7. CASE op = "gt"
  <2>1. Mirrored(op) = "lt" /\ "lt" \in Orderings /\ op \in Orderings /\ op \notin Equalities
    BY <1>7 DEF Mirrored, Orderings, Equalities
  <2>2. Ordered("lt", y.v, x.v) <=> Ordered(op, x.v, y.v)
    BY <1>1, <1>7 DEF Ordered
  <2> QED BY <1>4, <1>7, <2>1, <2>2 DEF Comparisons
<1>8. CASE op = "ge"
  <2>1. Mirrored(op) = "le" /\ "le" \in Orderings /\ op \in Orderings /\ op \notin Equalities
    BY <1>8 DEF Mirrored, Orderings, Equalities
  <2>2. Ordered("le", y.v, x.v) <=> Ordered(op, x.v, y.v)
    BY <1>1, <1>8 DEF Ordered
  <2> QED BY <1>4, <1>8, <2>1, <2>2 DEF Comparisons
<1> QED BY <1>3, <1>5, <1>6, <1>7, <1>8 DEF Comparisons, Orderings

LEMMA ComplementIs ==
  ASSUME NEW op \in Orderings, NEW x \in Plain, NEW y \in Plain
  PROVE  /\ Complemented(op) \in Orderings
         /\ CompareValues(Complemented(op), x, y) = True <=> CompareValues(op, x, y) = False
<1>1. x.v \in Int /\ y.v \in Int
  BY PlainIs, ValueIs
<1>2. \A r \in Orderings :
        /\ CompareValues(r, x, y) = True <=> x # Err /\ y # Err /\ SameOrderedType(x, y) /\ Ordered(r, x.v, y.v)
        /\ CompareValues(r, x, y) = False <=> x # Err /\ y # Err /\ SameOrderedType(x, y) /\ ~Ordered(r, x.v, y.v)
  <2>1. TAKE r \in Orderings
  <2>2. r \in Comparisons
    BY DEF Comparisons
  <2> QED BY <2>2, CompareIs, Constants DEF Tri, Orderings
<1>3. Complemented(op) \in Orderings /\ (Ordered(Complemented(op), x.v, y.v) <=> ~Ordered(op, x.v, y.v))
  <2>1. CASE op = "lt"
    BY <1>1, <2>1 DEF Complemented, Ordered, Orderings
  <2>2. CASE op = "le"
    BY <1>1, <2>2 DEF Complemented, Ordered, Orderings
  <2>3. CASE op = "gt"
    BY <1>1, <2>3 DEF Complemented, Ordered, Orderings
  <2>4. CASE op = "ge"
    BY <1>1, <2>4 DEF Complemented, Ordered, Orderings
  <2> QED BY <2>1, <2>2, <2>3, <2>4 DEF Orderings
<1> QED BY <1>2, <1>3

\* A comparison of a field with a constant, in either order.
LEMMA CompareLeaf ==
  ASSUME NEW field, ScalarField(field), NEW lit, LeafConstant(lit), NEW op \in Comparisons,
         ~(op = "ne" /\ field.shape = "one" /\ ~field.nullable),
         NEW e \in DOMAIN field.agg
  PROVE  LET f == CompareConstant(op, field, lit)
             m == CompareConstant(Mirrored(op), field, lit)
         IN /\ FilterTyped(f, DOMAIN field.agg) /\ ~f.aborts
            /\ ~f.throws => (f.match[e] <=> CompareValues(op, field.val[e], lit) = True)
            /\ FilterTyped(m, DOMAIN field.agg) /\ ~m.aborts
            /\ ~m.throws => (m.match[e] <=> CompareValues(op, lit, field.val[e]) = True)
<1>1. field.val[e] \in Plain /\ lit \in Plain
  BY FieldIs DEF ScalarField, LeafConstant
<1>2. CASE op \in Equalities
  <2>1. Mirrored(op) = op /\ CompareValues(op, lit, field.val[e]) = CompareValues(op, field.val[e], lit)
    BY <1>1, <1>2, MirrorIs
  <2> QED BY <1>2, <2>1, EqualLeaf
<1>3. CASE op \in Orderings
  <2>1. /\ Mirrored(op) \in Orderings
        /\ CompareValues(Mirrored(op), field.val[e], lit) = CompareValues(op, lit, field.val[e])
    BY <1>1, <1>3, MirrorIs
  <2>2. PICK r \in Orderings : r = Mirrored(op)
    BY <2>1
  <2>3. PICK f : f = CompareConstant(op, field, lit)
    OBVIOUS
  <2>4. PICK m : m = CompareConstant(r, field, lit)
    OBVIOUS
  <2>5. FilterTyped(f, DOMAIN field.agg) /\ ~f.aborts /\ (f.match[e] <=> CompareValues(op, field.val[e], lit) = True)
    BY <1>3, <2>3, OrderedLeaf
  <2>6. FilterTyped(m, DOMAIN field.agg) /\ ~m.aborts /\ (m.match[e] <=> CompareValues(r, field.val[e], lit) = True)
    BY <2>4, OrderedLeaf
  <2> QED BY <2>1, <2>2, <2>3, <2>4, <2>5, <2>6
<1> QED BY <1>2, <1>3 DEF Comparisons

-----------------------------------------------------------------------------
(* Every filter is a function of the environments its expression stands in *)

LEMMA RefusalIs == ASSUME NEW F PROVE FilterTyped(Refusal, F) /\ Refusal.throws /\ ~Refusal.aborts
BY DEF Refusal, FilterTyped

LEMMA ValueComparisonIs ==
  ASSUME NEW field, NEW test, NEW lit, NEW constant
  PROVE  LET f == EmitValueComparison(field, test, lit, constant) IN
         /\ FilterTyped(f, DOMAIN field.agg) /\ ~f.aborts
         /\ f.throws <=> NullRefused(constant)
         /\ ~f.throws => f = EmitLeafComparison(field, test, lit, field.nullable, CarriesNull(constant))
<1>1. PICK g : g = EmitLeafComparison(field, test, lit, field.nullable, CarriesNull(constant))
  OBVIOUS
<1>2. FilterTyped(g, DOMAIN field.agg) /\ ~g.throws /\ ~g.aborts
  BY <1>1, LeafIs
<1> QED BY <1>1, <1>2, RefusalIs DEF EmitValueComparison, RefusedIf

LEMMA CompareConstantTyped ==
  ASSUME NEW op, NEW field, NEW lit
  PROVE  FilterTyped(CompareConstant(op, field, lit), DOMAIN field.agg)
<1>1. PICK test, nullable :
        CompareConstant(op, field, lit) \in
          {EmitLeafComparison(field, test, lit, nullable, FALSE), EmitLeafComparison(field, "nothing", lit, FALSE, FALSE),
           EmitValueComparison(field, op, lit, lit)}
  BY DEF CompareConstant
<1>2. FilterTyped(EmitLeafComparison(field, test, lit, nullable, FALSE), DOMAIN field.agg)
  BY LeafIs
<1>3. FilterTyped(EmitLeafComparison(field, "nothing", lit, FALSE, FALSE), DOMAIN field.agg)
  BY LeafIs
<1>4. FilterTyped(EmitValueComparison(field, op, lit, lit), DOMAIN field.agg)
  BY ValueComparisonIs
<1> QED BY <1>1, <1>2, <1>3, <1>4

\* An aggregation expression is read at the root.
LEMMA EmitExprIs ==
  ASSUME NEW scope, NEW refused, NEW agg, NEW match \in [DOMAIN agg -> BOOLEAN]
  PROVE  LET f == EmitExpr(scope, refused, agg, match) IN
         /\ FilterTyped(f, DOMAIN agg)
         /\ f.throws <=> scope = "element" \/ refused
         /\ ~f.throws => f.match = match /\ (f.aborts <=> agg[Root] = Err)
<1>1. PICK f : f = [match |-> match, throws |-> FALSE, aborts |-> agg[Root] = Err]
  OBVIOUS
<1>2. FilterTyped(f, DOMAIN agg) /\ f.match = match /\ ~f.throws /\ (f.aborts <=> agg[Root] = Err)
  BY <1>1 DEF FilterTyped
<1>3. EmitExpr(scope, refused, agg, match) = IF scope = "element" \/ refused THEN Refusal ELSE f
  BY <1>1 DEF EmitExpr, RefusedIf
<1>4. FilterTyped(Refusal, DOMAIN agg) /\ Refusal.throws
  BY RefusalIs
<1>5. CASE scope = "element" \/ refused
  BY <1>3, <1>4, <1>5
<1>6. CASE ~(scope = "element" \/ refused)
  BY <1>2, <1>3, <1>6
<1> QED BY <1>5, <1>6

LEMMA PairIs ==
  ASSUME NEW op, NEW args, Well(op, args), DOMAIN args = 1 .. 2
  PROVE  /\ 1 \in DOMAIN args /\ 2 \in DOMAIN args
         /\ NodeOK(args[1]) /\ NodeOK(args[2])
<1>1. 1 \in DOMAIN args /\ 2 \in DOMAIN args
  OBVIOUS
<1> QED BY <1>1 DEF Well

\* The one operand that is not a constant gives the expression its scope.
LEMMA SoleScope ==
  ASSUME NEW op, NEW args, Well(op, args), DOMAIN args = 1 .. 2, NEW i \in 1 .. 2, args[3 - i].kind = "value"
  PROVE  ScopeOf(args) = args[i].scope
<1>1. NodeOK(args[1]) /\ NodeOK(args[2])
  BY PairIs
<1>2. ScopeOf(args) # "none"
  BY DEF Well, WellFormedPlan
<1>3. \A j \in 1 .. 2 : args[j].scope \in {"none", "root", "element"}
  BY <1>1, ShapeIs
<1>4. CASE i = 1
  <2>1. args[2].scope = "none"
    BY <1>1, <1>4, ShapeIs
  <2> QED BY <1>2, <1>3, <1>4, <2>1 DEF ScopeOf
<1>5. CASE i = 2
  <2>1. args[1].scope = "none"
    BY <1>1, <1>5, ShapeIs
  <2> QED BY <1>2, <1>3, <1>5, <2>1 DEF ScopeOf
<1> QED BY <1>4, <1>5

LEMMA FiltersTyped ==
  ASSUME NEW n, NodeOK(n)
  PROVE  /\ FilterTyped(n.yes, Envs(ElementEnvs, n.scope)) /\ FilterTyped(n.no, Envs(ElementEnvs, n.scope))
         /\ n.yes.throws \in BOOLEAN /\ n.yes.aborts \in BOOLEAN /\ n.no.throws \in BOOLEAN /\ n.no.aborts \in BOOLEAN
         /\ DOMAIN n.agg = Envs(ElementEnvs, n.scope) /\ DOMAIN n.val = Envs(ElementEnvs, n.scope)
BY DEF NodeOK, NodeFine, NodeTyped, FilterTyped

LEMMA ComparisonTyped ==
  ASSUME NEW op, NEW args, Well(op, args), DOMAIN args = 1 .. 2, NEW q,
         NEW agg, DOMAIN agg = Envs(ElementEnvs, ScopeOf(args))
  PROVE  FilterTyped(TranslateComparison(q, args, agg), Envs(ElementEnvs, ScopeOf(args)))
<1>1. PICK F : F = Envs(ElementEnvs, ScopeOf(args))
  OBVIOUS
<1>2. NodeOK(args[1]) /\ NodeOK(args[2])
  BY PairIs
<1>3. FilterTyped(Refusal, F)
  BY RefusalIs
<1>4. CASE q \in Equalities /\ \E i \in 1 .. 2 : EmptinessTest(args, i)
  <2>1. PICK i : i = CHOOSE j \in 1 .. 2 : EmptinessTest(args, j)
    OBVIOUS
  <2>2. i \in 1 .. 2 /\ EmptinessTest(args, i)
    BY <1>4, <2>1
  <2>3. args[3 - i].kind = "value" /\ NodeOK(args[i])
    BY <1>2, <2>2 DEF EmptinessTest, IsEmptyList
  <2>4. ScopeOf(args) = args[i].scope
    BY <2>2, <2>3, SoleScope
  <2>5. TranslateComparison(q, args, agg) = IF q = "eq" THEN args[i].yes ELSE args[i].no
    BY <1>4, <2>1 DEF TranslateComparison
  <2> QED BY <2>3, <2>4, <2>5, FiltersTyped
<1>5. CASE ~(q \in Equalities /\ \E i \in 1 .. 2 : EmptinessTest(args, i))
  <2>1. CASE \E i \in 1 .. 2 : args[i].kind = "variable" /\ args[3 - i].lit.t = "list"
    <3>1. TranslateComparison(q, args, agg) = Refusal
      BY <1>5, <2>1 DEF TranslateComparison
    <3> QED BY <1>1, <1>3, <3>1
  <2>2. CASE ~\E i \in 1 .. 2 : args[i].kind = "variable" /\ args[3 - i].lit.t = "list"
    <3>1. CASE args[1].kind = "variable" /\ args[2].kind = "value"
      <4>1. TranslateComparison(q, args, agg) = CompareConstant(q, args[1], args[2].lit)
        BY <1>5, <2>2, <3>1 DEF TranslateComparison
      <4>2. ScopeOf(args) = args[1].scope
        BY <3>1, SoleScope
      <4> QED BY <1>2, <4>1, <4>2, CompareConstantTyped, FiltersTyped
    <3>2. CASE args[1].kind = "value" /\ args[2].kind = "variable"
      <4>1. TranslateComparison(q, args, agg) = CompareConstant(Mirrored(q), args[2], args[1].lit)
        BY <1>5, <2>2, <3>2 DEF TranslateComparison
      <4>2. ScopeOf(args) = args[2].scope
        BY <3>2, SoleScope
      <4> QED BY <1>2, <4>1, <4>2, CompareConstantTyped, FiltersTyped
    <3>3. CASE ~(args[1].kind = "variable" /\ args[2].kind = "value") /\ ~(args[1].kind = "value" /\ args[2].kind = "variable")
      <4>1. PICK match : match = [e \in DOMAIN agg |->
              /\ ~(q \in Orderings /\ IsUnorderable(args))
              /\ Guards(args, e) /\ agg[e] = True]
        OBVIOUS
      <4>2. PICK refused : refused = (\/ args[1].kind = "if" /\ args[2].kind = "if"
                                      \/ args[1].aggThrows \/ args[2].aggThrows
                                      \/ q \in Orderings /\ Mixed(args))
        OBVIOUS
      <4>3. match \in [DOMAIN agg -> BOOLEAN]
        BY <4>1
      <4>4. TranslateComparison(q, args, agg) = EmitExpr(ScopeOf(args), refused, agg, match)
        BY <1>5, <2>2, <3>3, <4>1, <4>2 DEF TranslateComparison
      <4> QED BY <4>3, <4>4, EmitExprIs
    <3> QED BY <3>1, <3>2, <3>3
  <2> QED BY <2>1, <2>2
<1> QED BY <1>4, <1>5

\* What buildFilter emits, operator by operator.
LEMMA BuildIs ==
  ASSUME NEW op, NEW args, NEW agg, NEW aggThrows, ~OuterReference(op, args)
  PROVE  /\ op \in Junctions => BuildFilter(op, args, agg, aggThrows) = Join(op, ScopeOf(args), Positive(args))
         /\ op = "not" => BuildFilter(op, args, agg, aggThrows) = args[1].no
         /\ op \in Comparisons => BuildFilter(op, args, agg, aggThrows) = TranslateComparison(op, args, agg)
         /\ op = "in" => BuildFilter(op, args, agg, aggThrows) = TranslateIn(args)
         /\ op \in ConditionalLists => BuildFilter(op, args, agg, aggThrows) = ConditionalMembership(op, args[1])
         /\ op = "matches" => BuildFilter(op, args, agg, aggThrows) = TranslateMatches(args)
         /\ op = "startsWith" => BuildFilter(op, args, agg, aggThrows) = TranslateStringPredicate(args, agg, aggThrows)
         /\ op = "hasIntersection" => BuildFilter(op, args, agg, aggThrows) = TranslateHasIntersection(args)
         /\ op \in Macros => BuildFilter(op, args, agg, aggThrows) = Quantifier(op, args)
         /\ op \in Folds => BuildFilter(op, args, agg, aggThrows) = FoldConstructedList(op, args)
         /\ op \in {"add", "div", "mod", "size", "index", "map"} => BuildFilter(op, args, agg, aggThrows) = Refusal
<1> USE DEF BuildFilter, Junctions, Comparisons, Equalities, Orderings, ConditionalLists, SetOperations, Macros, Folds
<1>1. ASSUME op \in Junctions PROVE BuildFilter(op, args, agg, aggThrows) = Join(op, ScopeOf(args), Positive(args))
  <2>1. CASE op = "and"
    BY <2>1
  <2>2. CASE op = "or"
    BY <2>2
  <2> QED BY <1>1, <2>1, <2>2 DEF Junctions
<1>2. op = "not" => BuildFilter(op, args, agg, aggThrows) = args[1].no
  OBVIOUS
<1>3. ASSUME op \in Comparisons PROVE BuildFilter(op, args, agg, aggThrows) = TranslateComparison(op, args, agg)
  <2>1. CASE op = "eq"
    BY <2>1
  <2>2. CASE op = "ne"
    BY <2>2
  <2>3. CASE op = "lt"
    BY <2>3
  <2>4. CASE op = "le"
    BY <2>4
  <2>5. CASE op = "gt"
    BY <2>5
  <2>6. CASE op = "ge"
    BY <2>6
  <2> QED BY <1>3, <2>1, <2>2, <2>3, <2>4, <2>5, <2>6 DEF Comparisons, Equalities, Orderings
<1>4. op = "in" => BuildFilter(op, args, agg, aggThrows) = TranslateIn(args)
  OBVIOUS
<1>5. ASSUME op \in ConditionalLists PROVE BuildFilter(op, args, agg, aggThrows) = ConditionalMembership(op, args[1])
  <2>1. CASE op = "inThen"
    BY <2>1
  <2>2. CASE op = "inElse"
    BY <2>2
  <2>3. CASE op = "inBoth"
    BY <2>3
  <2>4. CASE op = "inNeither"
    BY <2>4
  <2> QED BY <1>5, <2>1, <2>2, <2>3, <2>4 DEF ConditionalLists
<1>6. op = "matches" => BuildFilter(op, args, agg, aggThrows) = TranslateMatches(args)
  OBVIOUS
<1>7. op = "startsWith" => BuildFilter(op, args, agg, aggThrows) = TranslateStringPredicate(args, agg, aggThrows)
  OBVIOUS
<1>8. op = "hasIntersection" => BuildFilter(op, args, agg, aggThrows) = TranslateHasIntersection(args)
  OBVIOUS
<1>9. ASSUME op \in Macros PROVE BuildFilter(op, args, agg, aggThrows) = Quantifier(op, args)
  <2>1. CASE op = "exists"
    BY <2>1
  <2>2. CASE op = "all"
    BY <2>2
  <2>3. CASE op = "existsOne"
    BY <2>3
  <2> QED BY <1>9, <2>1, <2>2, <2>3 DEF Macros
<1>10. ASSUME op \in Folds PROVE BuildFilter(op, args, agg, aggThrows) = FoldConstructedList(op, args)
  <2>1. CASE op = "existsOf"
    BY <2>1
  <2>2. CASE op = "allOf"
    BY <2>2
  <2> QED BY <1>10, <2>1, <2>2 DEF Folds
<1>11. op \in {"add", "div", "mod", "size", "index", "map"} => BuildFilter(op, args, agg, aggThrows) = Refusal
  OBVIOUS
<1> QED BY <1>1, <1>2, <1>3, <1>4, <1>5, <1>6, <1>7, <1>8, <1>9, <1>10, <1>11

LEMMA BuildSetsIs ==
  ASSUME NEW op, NEW args, NEW agg, NEW aggThrows, ~OuterReference(op, args)
  PROVE  /\ op = "isSubset" => BuildFilter(op, args, agg, aggThrows) = EveryElementIn("all", args[1], args[2], FALSE)
         /\ op \in SetOperations => BuildFilter(op, args, agg, aggThrows) = Emptiness(op, args, TRUE)
<1> USE DEF BuildFilter, Junctions, Comparisons, Equalities, Orderings, ConditionalLists, SetOperations, Macros, Folds
<1>1. op = "isSubset" => BuildFilter(op, args, agg, aggThrows) = EveryElementIn("all", args[1], args[2], FALSE)
  OBVIOUS
<1>2. ASSUME op \in SetOperations PROVE BuildFilter(op, args, agg, aggThrows) = Emptiness(op, args, TRUE)
  <2>1. CASE op = "except"
    BY <2>1
  <2>2. CASE op = "intersect"
    BY <2>2
  <2> QED BY <1>2, <2>1, <2>2 DEF SetOperations
<1> QED BY <1>1, <1>2

LEMMA BuildIfIs ==
  ASSUME NEW args, NEW agg, NEW aggThrows, ~OuterReference("if", args)
  PROVE  BuildFilter("if", args, agg, aggThrows) =
           EmitExpr(ScopeOf(args), aggThrows, agg,
                    [e \in DOMAIN agg |-> (\A i \in DOMAIN args : At(args[i].guard, e)) /\ Truthy(agg[e])])
BY DEF BuildFilter, Junctions, Comparisons, Equalities, Orderings, ConditionalLists, SetOperations, Macros, Folds

\* An operand alone gives the expression its scope.
LEMMA LoneScope ==
  ASSUME NEW op, NEW args, Well(op, args), DOMAIN args = 1 .. 1
  PROVE  1 \in DOMAIN args /\ NodeOK(args[1]) /\ ScopeOf(args) = args[1].scope /\ args[1].scope \in {"root", "element"}
<1>1. 1 \in DOMAIN args /\ \A i \in DOMAIN args : i = 1
  OBVIOUS
<1>2. NodeOK(args[1])
  BY <1>1 DEF Well
<1>3. ScopeOf(args) # "none"
  BY DEF Well, WellFormedPlan
<1>4. args[1].scope \in {"none", "root", "element"}
  BY <1>2, ShapeIs
<1> QED BY <1>1, <1>2, <1>3, <1>4 DEF ScopeOf

\* Only a constant holds a string or a list.
LEMMA LitIs ==
  ASSUME NEW n, NodeOK(n), n.lit.t # "undefined"
  PROVE  n.kind = "value" /\ n.lit \in Plain /\ n.lit # Err /\ n.lit \in Value
<1>1. n.kind = "value"
  BY ShapeIs, Constants
<1> QED BY <1>1, ValueIs DEF NodeOK, NodeFine, ValueFine, Plain

\* A conjunction, or a disjunction, of filters.
LEMMA JoinIs ==
  ASSUME NEW op, NEW scope, NEW filters
  PROVE  LET f == Join(op, scope, filters) IN
         /\ FilterTyped(f, Envs(ElementEnvs, scope))
         /\ f.throws <=> \E i \in DOMAIN filters : filters[i].throws
         /\ ~f.throws =>
              /\ f.aborts <=> \E i \in DOMAIN filters : filters[i].aborts
              /\ \A e \in Envs(ElementEnvs, scope) :
                   /\ op = "and" => (f.match[e] <=> \A i \in DOMAIN filters : filters[i].match[e])
                   /\ op # "and" => (f.match[e] <=> \E i \in DOMAIN filters : filters[i].match[e])
<1>1. PICK f : f = [match |-> [e \in EnvsOf(scope) |->
                      IF op = "and" THEN \A i \in DOMAIN filters : filters[i].match[e]
                      ELSE \E i \in DOMAIN filters : filters[i].match[e]],
                    throws |-> FALSE, aborts |-> \E i \in DOMAIN filters : filters[i].aborts]
  OBVIOUS
<1>2. EnvsOf(scope) = Envs(ElementEnvs, scope)
  BY DEF EnvsOf, Envs
<1>3. /\ FilterTyped(f, Envs(ElementEnvs, scope)) /\ ~f.throws
      /\ f.aborts <=> \E i \in DOMAIN filters : filters[i].aborts
  BY <1>1, <1>2 DEF FilterTyped
<1>4. \A e \in Envs(ElementEnvs, scope) :
        /\ op = "and" => (f.match[e] <=> \A i \in DOMAIN filters : filters[i].match[e])
        /\ op # "and" => (f.match[e] <=> \E i \in DOMAIN filters : filters[i].match[e])
  BY <1>1, <1>2
<1>5. Join(op, scope, filters) = IF \E i \in DOMAIN filters : filters[i].throws THEN Refusal ELSE f
  BY <1>1 DEF Join, RefusedIf
<1>6. CASE \E i \in DOMAIN filters : filters[i].throws
  BY <1>5, <1>6, RefusalIs
<1>7. CASE ~\E i \in DOMAIN filters : filters[i].throws
  BY <1>3, <1>4, <1>5, <1>7
<1> QED BY <1>6, <1>7

LEMMA MembershipIs ==
  ASSUME NEW list, NEW needles
  PROVE  LET f == EmitUncastListMembership(list, needles) IN
         /\ FilterTyped(f, DOMAIN list.agg)
         /\ f.throws <=> convention = "omitted" /\ Null \in needles
         /\ ~f.throws =>
              /\ ~f.aborts
              /\ \A e \in DOMAIN list.agg :
                   f.match[e] <=> list.guard[e] /\ Elements(list.agg[e]) \intersect needles # {}
<1>1. PICK f : f = Filter([e \in DOMAIN list.agg |-> list.guard[e] /\ Elements(list.agg[e]) \intersect needles # {}])
  OBVIOUS
<1>2. FilterTyped(f, DOMAIN list.agg) /\ ~f.throws /\ ~f.aborts
  BY <1>1 DEF Filter, FilterTyped
<1>3. \A e \in DOMAIN list.agg : f.match[e] <=> list.guard[e] /\ Elements(list.agg[e]) \intersect needles # {}
  BY <1>1 DEF Filter
<1>4. EmitUncastListMembership(list, needles) = IF convention = "omitted" /\ Null \in needles THEN Refusal ELSE f
  BY <1>1 DEF EmitUncastListMembership, RefusedIf
<1>5. CASE convention = "omitted" /\ Null \in needles
  BY <1>4, <1>5, RefusalIs
<1>6. CASE ~(convention = "omitted" /\ Null \in needles)
  BY <1>2, <1>3, <1>4, <1>6
<1> QED BY <1>5, <1>6

\* An intersection with a projection of the relation.
LEMMA ProjectionIs ==
  ASSUME NEW map, NEW values, NEW negated
  PROVE  LET f == TranslateMapIntersection(map, values, negated) IN
         /\ FilterTyped(f, DOMAIN map.agg)
         /\ f.throws <=> map.shape # "many"
         /\ ~f.throws =>
              /\ ~f.aborts
              /\ \A e \in DOMAIN map.agg :
                   f.match[e] <=>
                     /\ map.nullable => \A m \in Elements(map.agg[e]) : ~Missing(m)
                     /\ negated => /\ IsCollection(map.agg[e])
                                   /\ \A m \in Elements(map.agg[e]) : m \notin values \/ ~CanEqual(map.type, m)
                     /\ ~negated => \E m \in Elements(map.agg[e]) : m \in values /\ CanEqual(map.type, m)
<1>1. PICK f : f = Filter([e \in DOMAIN map.agg |->
                      /\ map.nullable => \A m \in Elements(map.agg[e]) : ~Missing(m)
                      /\ IF negated THEN IsCollection(map.agg[e])
                                         /\ Elements(map.agg[e]) \intersect {v \in values : CanEqual(map.type, v)} = {}
                         ELSE Elements(map.agg[e]) \intersect {v \in values : CanEqual(map.type, v)} # {}])
  OBVIOUS
<1>2. FilterTyped(f, DOMAIN map.agg) /\ ~f.throws /\ ~f.aborts
  BY <1>1 DEF Filter, FilterTyped
<1>3. ASSUME NEW e \in DOMAIN map.agg
      PROVE  f.match[e] <=>
               /\ map.nullable => \A m \in Elements(map.agg[e]) : ~Missing(m)
               /\ IF negated THEN IsCollection(map.agg[e])
                                  /\ Elements(map.agg[e]) \intersect {v \in values : CanEqual(map.type, v)} = {}
                  ELSE Elements(map.agg[e]) \intersect {v \in values : CanEqual(map.type, v)} # {}
  BY <1>1 DEF Filter
<1>4. ASSUME NEW e \in DOMAIN map.agg
      PROVE  f.match[e] <=>
                     /\ map.nullable => \A m \in Elements(map.agg[e]) : ~Missing(m)
                     /\ negated => /\ IsCollection(map.agg[e])
                                   /\ \A m \in Elements(map.agg[e]) : m \notin values \/ ~CanEqual(map.type, m)
                     /\ ~negated => \E m \in Elements(map.agg[e]) : m \in values /\ CanEqual(map.type, m)
  BY <1>3
<1>5. TranslateMapIntersection(map, values, negated) = IF map.shape # "many" THEN Refusal ELSE f
  BY <1>1 DEF TranslateMapIntersection, RefusedIf
<1>6. CASE map.shape # "many"
  BY <1>5, <1>6, RefusalIs
<1>7. CASE map.shape = "many"
  BY <1>2, <1>4, <1>5, <1>7
<1> QED BY <1>6, <1>7

\* What is asked of each element of the relation.
Matching(relation, list, m) ==
  GuardedMatches("in", m, WithoutUnequal(relation.type, list.lit), relation.elementNullable, CarriesNull(list.lit))

LEMMA RelationIs ==
  ASSUME NEW quantifier, NEW relation, NEW list, NEW negate \in BOOLEAN
  PROVE  LET f == RelationMembership(quantifier, relation, list, negate)
             asked(m) == IF negate THEN ~Matching(relation, list, m) ELSE Matching(relation, list, m)
         IN
         /\ FilterTyped(f, DOMAIN relation.agg)
         /\ f.throws <=> NullRefused(list.lit) \/ (negate /\ relation.elementNullable)
         /\ ~f.throws =>
              /\ ~f.aborts
              /\ \A e \in DOMAIN relation.agg :
                   /\ quantifier = "all" =>
                        (f.match[e] <=> IsCollection(relation.agg[e]) /\ \A m \in Elements(relation.agg[e]) : asked(m))
                   /\ quantifier # "all" => (f.match[e] <=> \E m \in Elements(relation.agg[e]) : asked(m))
<1> DEFINE asked(m) == IF negate THEN ~Matching(relation, list, m) ELSE Matching(relation, list, m)
<1>1. PICK f : f = Filter([e \in DOMAIN relation.agg |->
                      IF quantifier = "all"
                      THEN IsCollection(relation.agg[e]) /\ \A m \in Elements(relation.agg[e]) : Matching(relation, list, m) # negate
                      ELSE \E m \in Elements(relation.agg[e]) : Matching(relation, list, m) # negate])
  OBVIOUS
<1>2. FilterTyped(f, DOMAIN relation.agg) /\ ~f.throws /\ ~f.aborts
  BY <1>1 DEF Filter, FilterTyped
<1>3. \A m : Matching(relation, list, m) # negate <=> asked(m)
  BY DEF Matching, GuardedMatches
<1>4. \A e \in DOMAIN relation.agg :
        /\ quantifier = "all" => (f.match[e] <=> IsCollection(relation.agg[e]) /\ \A m \in Elements(relation.agg[e]) : asked(m))
        /\ quantifier # "all" => (f.match[e] <=> \E m \in Elements(relation.agg[e]) : asked(m))
  <2> HIDE DEF asked
  <2> QED BY <1>1, <1>3 DEF Filter
<1>5. RelationMembership(quantifier, relation, list, negate) =
        IF NullRefused(list.lit) \/ (negate /\ relation.elementNullable) THEN Refusal ELSE f
  BY <1>1 DEF RelationMembership, RefusedIf, Matching
<1>6. CASE NullRefused(list.lit) \/ (negate /\ relation.elementNullable)
  BY <1>5, <1>6, RefusalIs
<1>7. CASE ~(NullRefused(list.lit) \/ (negate /\ relation.elementNullable))
  BY <1>2, <1>4, <1>5, <1>7
<1> QED BY <1>6, <1>7

\* The membership of one constant of a list.
MemberOf(list, collection, m) == TranslateIn(<<[list EXCEPT !.lit = m], collection>>)

LEMMA UnrolledIs ==
  ASSUME NEW quantifier, NEW list, NEW collection, NEW negate \in BOOLEAN
  PROVE  LET f == ConstantMembership(quantifier, list, collection, negate)
             asked(m, e) == IF negate THEN /\ ~MemberOf(list, collection, m).match[e] /\ collection.guard[e]
                                           /\ IsCollection(collection.agg[e])
                            ELSE MemberOf(list, collection, m).match[e]
             elements == Members[list.lit]
         IN
         /\ FilterTyped(f, DOMAIN collection.agg)
         /\ f.throws <=> \/ \E m \in elements : MemberOf(list, collection, m).throws
                         \/ elements # {} /\ negate /\ collection.shape = "many" /\ collection.nullable
         /\ ~f.throws =>
              /\ ~f.aborts
              /\ \A e \in DOMAIN collection.agg :
                   /\ quantifier = "all" => (f.match[e] <=> \A m \in elements : asked(m, e))
                   /\ quantifier # "all" => (f.match[e] <=> \E m \in elements : asked(m, e))
<1> DEFINE asked(m, e) == IF negate THEN /\ ~MemberOf(list, collection, m).match[e] /\ collection.guard[e]
                                         /\ IsCollection(collection.agg[e])
                          ELSE MemberOf(list, collection, m).match[e]
           elements == Members[list.lit]
           refused == \/ \E m \in elements : MemberOf(list, collection, m).throws
                      \/ elements # {} /\ negate /\ collection.shape = "many" /\ collection.nullable
<1>1. PICK f : f = Filter([e \in DOMAIN collection.agg |->
                      IF quantifier = "all" THEN \A m \in elements : asked(m, e) ELSE \E m \in elements : asked(m, e)])
  OBVIOUS
<1>2. FilterTyped(f, DOMAIN collection.agg) /\ ~f.throws /\ ~f.aborts
  BY <1>1 DEF Filter, FilterTyped
<1>3. \A e \in DOMAIN collection.agg :
        /\ quantifier = "all" => (f.match[e] <=> \A m \in elements : asked(m, e))
        /\ quantifier # "all" => (f.match[e] <=> \E m \in elements : asked(m, e))
  <2> HIDE DEF asked
  <2> QED BY <1>1 DEF Filter
<1>4. ConstantMembership(quantifier, list, collection, negate) = IF refused THEN Refusal ELSE f
  BY <1>1 DEF ConstantMembership, RefusedIf, MemberOf
<1>5. CASE refused
  BY <1>4, <1>5, RefusalIs
<1>6. CASE ~refused
  BY <1>2, <1>3, <1>4, <1>6
<1> QED BY <1>5, <1>6

LEMMA EveryTyped ==
  ASSUME NEW quantifier, NEW collection, NEW other, NEW negate \in BOOLEAN, NEW F,
         collection.shape = "many" /\ other.lit.t = "list" => DOMAIN collection.agg = F,
         collection.lit.t = "list" /\ other.kind = "variable" => DOMAIN other.agg = F
  PROVE  FilterTyped(EveryElementIn(quantifier, collection, other, negate), F)
<1>1. CASE collection.shape = "many" /\ other.lit.t = "list"
  <2>1. EveryElementIn(quantifier, collection, other, negate) = RelationMembership(quantifier, collection, other, negate)
    BY <1>1 DEF EveryElementIn
  <2> QED BY <1>1, <2>1, RelationIs
<1>2. CASE ~(collection.shape = "many" /\ other.lit.t = "list") /\ collection.lit.t = "list" /\ other.kind = "variable"
  <2>1. EveryElementIn(quantifier, collection, other, negate) = ConstantMembership(quantifier, collection, other, negate)
    BY <1>2 DEF EveryElementIn
  <2> QED BY <1>2, <2>1, UnrolledIs
<1>3. CASE ~(collection.shape = "many" /\ other.lit.t = "list") /\ ~(collection.lit.t = "list" /\ other.kind = "variable")
  <2>1. EveryElementIn(quantifier, collection, other, negate) = Refusal
    BY <1>3 DEF EveryElementIn
  <2> QED BY <2>1, RefusalIs
<1> QED BY <1>1, <1>2, <1>3

\* Two operands, one of them a constant.
LEMMA BesideConstant ==
  ASSUME NEW op, NEW args, Well(op, args), DOMAIN args = 1 .. 2
  PROVE  /\ NodeOK(args[1]) /\ NodeOK(args[2])
         /\ args[1].lit.t # "undefined" => /\ args[1].kind = "value" /\ ScopeOf(args) = args[2].scope
                                           /\ DOMAIN args[2].agg = Envs(ElementEnvs, ScopeOf(args))
         /\ args[2].lit.t # "undefined" => /\ args[2].kind = "value" /\ ScopeOf(args) = args[1].scope
                                           /\ DOMAIN args[1].agg = Envs(ElementEnvs, ScopeOf(args))
         /\ args[1].kind = "value" => DOMAIN args[2].agg = Envs(ElementEnvs, ScopeOf(args)) /\ ScopeOf(args) = args[2].scope
         /\ args[2].kind = "value" => DOMAIN args[1].agg = Envs(ElementEnvs, ScopeOf(args)) /\ ScopeOf(args) = args[1].scope
<1>1. NodeOK(args[1]) /\ NodeOK(args[2])
  BY PairIs
<1>2. args[1].lit.t # "undefined" => args[1].kind = "value"
  BY <1>1, LitIs
<1>3. args[2].lit.t # "undefined" => args[2].kind = "value"
  BY <1>1, LitIs
<1>4. args[1].kind = "value" => ScopeOf(args) = args[2].scope
  <2>1. 2 \in 1 .. 2 /\ 3 - 2 = 1
    OBVIOUS
  <2> QED BY <2>1, SoleScope
<1>5. args[2].kind = "value" => ScopeOf(args) = args[1].scope
  <2>1. 1 \in 1 .. 2 /\ 3 - 1 = 2
    OBVIOUS
  <2> QED BY <2>1, SoleScope
<1>6. DOMAIN args[1].agg = Envs(ElementEnvs, args[1].scope) /\ DOMAIN args[2].agg = Envs(ElementEnvs, args[2].scope)
  BY <1>1, FiltersTyped
<1> QED BY <1>1, <1>2, <1>3, <1>4, <1>5, <1>6

\* The operand that lists constants is the one that is not the collection.
LEMMA InTyped ==
  ASSUME NEW args, NEW F,
         args[1].kind = "variable" /\ args[2].kind = "value" => DOMAIN args[1].agg = F,
         args[1].kind = "value" => DOMAIN args[2].agg = F
  PROVE  FilterTyped(TranslateIn(args), F)
<1>1. FilterTyped(Refusal, F)
  BY RefusalIs
<1>2. CASE args[1].kind = "variable" /\ args[2].kind = "value"
  <2>1. CASE args[2].lit.t # "list"
    <3>1. TranslateIn(args) = Refusal
      BY <1>2, <2>1 DEF TranslateIn
    <3> QED BY <1>1, <3>1
  <2>2. CASE args[2].lit.t = "list"
    <3>1. TranslateIn(args) = EmitValueComparison(args[1], "in", WithoutUnequal(args[1].type, args[2].lit), args[2].lit)
      BY <1>2, <2>2 DEF TranslateIn
    <3> QED BY <1>2, <3>1, ValueComparisonIs
  <2> QED BY <2>1, <2>2
<1>3. CASE ~(args[1].kind = "variable" /\ args[2].kind = "value")
  <2>1. CASE args[1].kind # "value"
    <3>1. TranslateIn(args) = Refusal
      BY <1>3, <2>1 DEF TranslateIn
    <3> QED BY <1>1, <3>1
  <2>2. CASE args[1].kind = "value"
    <3>1. \/ TranslateIn(args) = Refusal
          \/ TranslateIn(args) = TranslateMapIntersection(args[2], {args[1].lit}, FALSE)
          \/ TranslateIn(args) = EmitLeafComparison(args[2], "nothing", args[1].lit, FALSE, FALSE)
          \/ TranslateIn(args) = EmitValueComparison(args[2], "eq", args[1].lit, args[1].lit)
          \/ TranslateIn(args) = EmitUncastListMembership(args[2], {args[1].lit})
      BY <1>3, <2>2 DEF TranslateIn
    <3>2. DOMAIN args[2].agg = F
      BY <2>2
    <3>3. FilterTyped(TranslateMapIntersection(args[2], {args[1].lit}, FALSE), F)
      BY <3>2, ProjectionIs
    <3>4. FilterTyped(EmitLeafComparison(args[2], "nothing", args[1].lit, FALSE, FALSE), F)
      BY <3>2, LeafIs
    <3>5. FilterTyped(EmitValueComparison(args[2], "eq", args[1].lit, args[1].lit), F)
      BY <3>2, ValueComparisonIs
    <3>6. FilterTyped(EmitUncastListMembership(args[2], {args[1].lit}), F)
      BY <3>2, MembershipIs
    <3> QED BY <1>1, <3>1, <3>3, <3>4, <3>5, <3>6
  <2> QED BY <2>1, <2>2
<1> QED BY <1>2, <1>3

\* Which of the two operands hasIntersection() takes for the collection.
LEMMA CollectionIs ==
  ASSUME NEW op, NEW args, Well(op, args), DOMAIN args = 1 .. 2
  PROVE  LET collection == CollectionFirst(args)[1]
             list == CollectionFirst(args)[2]
         IN /\ NodeOK(collection) /\ NodeOK(list)
            /\ \/ collection = args[1] /\ list = args[2]
               \/ collection = args[2] /\ list = args[1]
            /\ list.lit.t = "list" => /\ list.kind = "value" /\ ScopeOf(args) = collection.scope
                                      /\ DOMAIN collection.agg = Envs(ElementEnvs, ScopeOf(args))
<1>1. \/ CollectionFirst(args)[1] = args[1] /\ CollectionFirst(args)[2] = args[2]
      \/ CollectionFirst(args)[1] = args[2] /\ CollectionFirst(args)[2] = args[1]
  BY DEF CollectionFirst
<1> QED BY <1>1, BesideConstant

LEMMA IntersectionTyped ==
  ASSUME NEW op, NEW args, Well(op, args), DOMAIN args = 1 .. 2
  PROVE  FilterTyped(TranslateHasIntersection(args), Envs(ElementEnvs, ScopeOf(args)))
<1>1. PICK c : c = CollectionFirst(args)[1]
  OBVIOUS
<1>2. PICK l : l = CollectionFirst(args)[2]
  OBVIOUS
<1>3. PICK F : F = Envs(ElementEnvs, ScopeOf(args))
  OBVIOUS
<1>4. l.lit.t = "list" => DOMAIN c.agg = F
  BY <1>1, <1>2, <1>3, CollectionIs
<1>5. PICK values : values = WithoutUnequal(c.type, l.lit)
  OBVIOUS
<1>6. \/ TranslateHasIntersection(args) = Refusal
      \/ /\ l.lit.t = "list"
         /\ \/ TranslateHasIntersection(args) = TranslateMapIntersection(c, Members[l.lit], FALSE)
            \/ TranslateHasIntersection(args) = EmitUncastListMembership(c, Members[values])
            \/ TranslateHasIntersection(args) = EmitLeafComparison(c, "in", values, FALSE, CarriesNull(values))
  <2>1. CASE \E i \in 1 .. 2 : args[i].kind = "value" /\ NullRefused(args[i].lit)
    BY <2>1 DEF TranslateHasIntersection
  <2>2. CASE ~\E i \in 1 .. 2 : args[i].kind = "value" /\ NullRefused(args[i].lit)
    <3>1. TranslateHasIntersection(args) =
            IF l.lit.t # "list" THEN Refusal
            ELSE IF c.kind = "map" THEN TranslateMapIntersection(c, Members[l.lit], FALSE)
            ELSE IF c.kind # "variable" THEN Refusal
            ELSE IF c.shape = "list" /\ Members[values] # {} THEN EmitUncastListMembership(c, Members[values])
            ELSE EmitLeafComparison(c, "in", values, FALSE, CarriesNull(values))
      BY <2>2, <1>1, <1>2, <1>5 DEF TranslateHasIntersection
    <3> QED BY <3>1
  <2> QED BY <2>1, <2>2
<1>7. FilterTyped(Refusal, F)
  BY RefusalIs
<1>8. CASE l.lit.t = "list"
  <2>1. DOMAIN c.agg = F
    BY <1>4, <1>8
  <2>2. FilterTyped(TranslateMapIntersection(c, Members[l.lit], FALSE), F)
    BY <2>1, ProjectionIs
  <2>3. FilterTyped(EmitUncastListMembership(c, Members[values]), F)
    BY <2>1, MembershipIs
  <2>4. FilterTyped(EmitLeafComparison(c, "in", values, FALSE, CarriesNull(values)), F)
    BY <2>1, LeafIs
  <2> QED BY <1>3, <1>6, <1>7, <2>2, <2>3, <2>4
<1> QED BY <1>3, <1>6, <1>7, <1>8

\* A macro reads its body's filter in the elements.
LEMMA QuantifierIs ==
  ASSUME NEW op \in Macros, NEW args, Well(op, args)
  PROVE  LET f == Quantifier(op, args)
             x == args[1].agg[Root]
             body == args[2].yes
         IN
         /\ FilterTyped(f, {Root})
         /\ f.throws <=> op = "existsOne" \/ body.throws
         /\ ~f.throws =>
              /\ f.aborts <=> body.aborts
              /\ op = "all" => (f.match[Root] <=> IsCollection(x) /\ \A m \in Elements(x) : body.match[m])
              /\ op # "all" => (f.match[Root] <=> \E m \in Elements(x) : body.match[m])
<1> DEFINE x == args[1].agg[Root]
           body == args[2].yes
<1>1. /\ NodeOK(args[1]) /\ NodeOK(args[2])
      /\ args[1].shape = "many" /\ args[1].scope = "root"
  BY MacroOperands DEF Inside
<1>2. DOMAIN args[1].agg = {Root}
  BY <1>1, FiltersTyped DEF Envs
<1>3. body.throws \in BOOLEAN /\ body.aborts \in BOOLEAN
  BY <1>1, FiltersTyped
<1>4. PICK f : f = [match |-> [e \in DOMAIN args[1].agg |->
                      IF op = "all" THEN IsCollection(args[1].agg[e]) /\ \A m \in Elements(args[1].agg[e]) : body.match[m]
                      ELSE \E m \in Elements(args[1].agg[e]) : body.match[m]],
                    throws |-> FALSE, aborts |-> body.aborts]
  OBVIOUS
<1>5. FilterTyped(f, {Root}) /\ ~f.throws /\ (f.aborts <=> body.aborts)
  BY <1>2, <1>3, <1>4 DEF FilterTyped
<1>6. /\ op = "all" => (f.match[Root] <=> IsCollection(x) /\ \A m \in Elements(x) : body.match[m])
      /\ op # "all" => (f.match[Root] <=> \E m \in Elements(x) : body.match[m])
  BY <1>2, <1>4
<1>7. Quantifier(op, args) = IF op = "existsOne" \/ args[1].shape # "many" \/ body.throws THEN Refusal ELSE f
  BY <1>4 DEF Quantifier, RefusedIf
<1>8. CASE op = "existsOne" \/ body.throws
  BY <1>7, <1>8, RefusalIs
<1>9. CASE ~(op = "existsOne" \/ body.throws)
  BY <1>1, <1>5, <1>6, <1>7, <1>9
<1> QED BY <1>8, <1>9

LEMMA MatchesTyped ==
  ASSUME NEW op, NEW args, Well(op, args), DOMAIN args = 1 .. 2
  PROVE  FilterTyped(TranslateMatches(args), Envs(ElementEnvs, ScopeOf(args)))
<1>1. CASE args[1].kind = "variable" /\ args[2].lit.t = "str"
  <2>1. DOMAIN args[1].agg = Envs(ElementEnvs, ScopeOf(args))
    BY <1>1, BesideConstant
  <2>2. TranslateMatches(args) = EmitLeafComparison(args[1], "startsWith", args[2].lit, FALSE, FALSE)
    BY <1>1 DEF TranslateMatches
  <2> QED BY <2>1, <2>2, LeafIs
<1>2. CASE ~(args[1].kind = "variable" /\ args[2].lit.t = "str")
  <2>1. TranslateMatches(args) = Refusal
    BY <1>2 DEF TranslateMatches
  <2> QED BY <2>1, RefusalIs
<1> QED BY <1>1, <1>2

\* A pattern the field's leaf expresses; the rest is computed.
StartLeaf(args) == args[1].kind = "variable" /\ args[2].lit.t = "str" /\ args[1].type \in {"none", "str"}

LEMMA StringPredicateIs ==
  ASSUME NEW op, NEW args, Well(op, args), DOMAIN args = 1 .. 2,
         NEW agg, DOMAIN agg = Envs(ElementEnvs, ScopeOf(args)), NEW aggThrows
  PROVE  LET f == TranslateStringPredicate(args, agg, aggThrows) IN
         /\ FilterTyped(f, Envs(ElementEnvs, ScopeOf(args)))
         /\ StartLeaf(args) => f = EmitLeafComparison(args[1], "startsWith", args[2].lit, args[1].nullable, FALSE)
         /\ ~StartLeaf(args) =>
              /\ f.throws <=> ScopeOf(args) = "element" \/ aggThrows
              /\ ~f.throws => /\ f.aborts <=> agg[Root] = Err
                              /\ \A e \in DOMAIN agg : f.match[e] <=> Guards(args, e) /\ agg[e] = True
<1>1. CASE StartLeaf(args)
  <2>1. DOMAIN args[1].agg = Envs(ElementEnvs, ScopeOf(args))
    BY <1>1, BesideConstant DEF StartLeaf
  <2>2. TranslateStringPredicate(args, agg, aggThrows) =
          EmitLeafComparison(args[1], "startsWith", args[2].lit, args[1].nullable, FALSE)
    BY <1>1 DEF TranslateStringPredicate, StartLeaf
  <2> QED BY <1>1, <2>1, <2>2, LeafIs
<1>2. CASE ~StartLeaf(args)
  <2>1. PICK match : match = [e \in DOMAIN agg |-> Guards(args, e) /\ agg[e] = True]
    OBVIOUS
  <2>2. match \in [DOMAIN agg -> BOOLEAN] /\ \A e \in DOMAIN agg : match[e] <=> Guards(args, e) /\ agg[e] = True
    BY <2>1
  <2>3. TranslateStringPredicate(args, agg, aggThrows) = EmitExpr(ScopeOf(args), aggThrows, agg, match)
    BY <1>2, <2>1 DEF TranslateStringPredicate, StartLeaf
  <2>4. PICK f : f = EmitExpr(ScopeOf(args), aggThrows, agg, match)
    OBVIOUS
  <2>5. /\ FilterTyped(f, DOMAIN agg)
        /\ f.throws <=> ScopeOf(args) = "element" \/ aggThrows
        /\ ~f.throws => f.match = match /\ (f.aborts <=> agg[Root] = Err)
    BY <2>2, <2>4, EmitExprIs
  <2> QED BY <1>2, <2>2, <2>3, <2>4, <2>5
<1> QED BY <1>1, <1>2

LEMMA ConditionalIs ==
  ASSUME NEW op \in ConditionalLists, NEW c, NodeOK(c), c.scope # "none"
  PROVE  LET f == ConditionalMembership(op, c) IN
         /\ FilterTyped(f, Envs(ElementEnvs, c.scope))
         /\ op = "inThen" => f = c.yes
         /\ op = "inElse" => f = c.no
         /\ op \in {"inBoth", "inNeither"} =>
              /\ f.throws <=> c.yes.throws \/ c.no.throws
              /\ ~f.throws =>
                   /\ f.aborts <=> c.yes.aborts \/ c.no.aborts
                   /\ \A e \in Envs(ElementEnvs, c.scope) :
                        /\ op = "inBoth" => (f.match[e] <=> c.yes.match[e] \/ c.no.match[e])
                        /\ op = "inNeither" => (f.match[e] <=> c.yes.match[e] /\ c.no.match[e])
<1>1. FilterTyped(c.yes, Envs(ElementEnvs, c.scope)) /\ FilterTyped(c.no, Envs(ElementEnvs, c.scope))
  BY FiltersTyped
<1>2. CASE op = "inThen"
  BY <1>1, <1>2 DEF ConditionalMembership
<1>3. CASE op = "inElse"
  BY <1>1, <1>3 DEF ConditionalMembership
<1>4. CASE op \in {"inBoth", "inNeither"}
  <2>1. PICK s : s = <<c.yes, c.no>>
    OBVIOUS
  <2>2. DOMAIN s = {1, 2} /\ s[1] = c.yes /\ s[2] = c.no
    BY <2>1
  <2>3. CASE op = "inBoth"
    <3>1. ConditionalMembership(op, c) = Join("or", c.scope, s)
      BY <2>1, <2>3 DEF ConditionalMembership
    <3> QED BY <2>2, <2>3, <3>1, JoinIs
  <2>4. CASE op = "inNeither"
    <3>1. ConditionalMembership(op, c) = Join("and", c.scope, s)
      BY <2>1, <2>4 DEF ConditionalMembership
    <3> QED BY <2>2, <2>4, <3>1, JoinIs
  <2> QED BY <1>4, <2>3, <2>4
<1> QED BY <1>2, <1>3, <1>4 DEF ConditionalLists

\* The operands of a constructed list are scalars of the document.
LEMMA FoldOperands ==
  ASSUME NEW op \in Folds, NEW args, Well(op, args)
  PROVE  /\ DOMAIN args = 1 .. 3 /\ args[3].kind = "value" /\ NodeOK(args[3]) /\ args[3].lit.t # "error" /\ args[3].lit \in Plain
         /\ \A i \in 1 .. 2 : /\ NodeOK(args[i]) /\ args[i].kind = "variable" /\ args[i].shape \in {"field", "one"}
                              /\ args[i].scope = "root" /\ DOMAIN args[i].agg = {Root}
         /\ ScopeOf(args) = "root"
<1>1. DOMAIN args = 1 .. 3
  BY WidthIs
<1>2. 1 \in DOMAIN args /\ 2 \in DOMAIN args /\ 3 \in DOMAIN args
  BY <1>1
<1>3. NodeOK(args[1]) /\ NodeOK(args[2]) /\ NodeOK(args[3])
  BY <1>2 DEF Well
<1>4. /\ \A i \in 1 .. 2 : args[i].kind = "variable" /\ args[i].shape \in {"field", "one"}
      /\ args[3].kind = "value"
  BY DEF Well, WellFormedPlan
<1>5. args[3].scope = "none"
  BY <1>3, <1>4, ShapeIs
<1>6. \A i \in 1 .. 2 : NodeOK(args[i]) /\ args[i].scope = "root"
  BY <1>3, <1>4, FieldIs
<1>7. \A i \in 1 .. 2 : DOMAIN args[i].agg = {Root}
  BY <1>6, FiltersTyped DEF Envs
<1>8. \A i \in DOMAIN args : args[i].scope # "element"
  BY <1>1, <1>5, <1>6
<1>9. ScopeOf(args) = "root"
  BY <1>2, <1>6, <1>8 DEF ScopeOf
<1>10. args[3].lit.t # "error" /\ args[3].lit \in Plain
  BY <1>3, <1>4 DEF NodeOK, NodeFine, ValueFine
<1> QED BY <1>1, <1>3, <1>4, <1>6, <1>7, <1>9, <1>10

LEMMA FoldIs ==
  ASSUME NEW op \in Folds, NEW args, Well(op, args)
  PROVE  LET f == FoldConstructedList(op, args)
             c(i) == CompareConstant("eq", args[i], args[3].lit)
         IN
         /\ FilterTyped(f, {Root})
         /\ ~f.throws =>
              /\ args[3].lit.t # "list" /\ ~c(1).throws /\ ~c(2).throws
              /\ f.aborts <=> c(1).aborts \/ c(2).aborts
              /\ op = "existsOf" => (f.match[Root] <=> Guards(args, Root) /\ (c(1).match[Root] \/ c(2).match[Root]))
              /\ op = "allOf" => (f.match[Root] <=> Guards(args, Root) /\ c(1).match[Root] /\ c(2).match[Root])
<1> DEFINE b(i) == TranslateComparison("eq", <<args[i], args[3]>>, args[i].agg)
           c(i) == CompareConstant("eq", args[i], args[3].lit)
           j == IF op = "existsOf" THEN "or" ELSE "and"
<1>1. PICK bodies : bodies = [i \in 1 .. 2 |-> b(i)]
  OBVIOUS
<1>2. DOMAIN bodies = 1 .. 2 /\ bodies[1] = b(1) /\ bodies[2] = b(2)
  BY <1>1
<1>3. PICK folded : folded = Join(j, "root", bodies)
  OBVIOUS
<1>4. /\ FilterTyped(folded, {Root})
      /\ folded.throws <=> b(1).throws \/ b(2).throws
      /\ ~folded.throws =>
           /\ folded.aborts <=> b(1).aborts \/ b(2).aborts
           /\ j = "and" => (folded.match[Root] <=> b(1).match[Root] /\ b(2).match[Root])
           /\ j # "and" => (folded.match[Root] <=> b(1).match[Root] \/ b(2).match[Root])
  <2>1. Envs(ElementEnvs, "root") = {Root}
    BY DEF Envs
  <2>2. /\ FilterTyped(folded, {Root})
        /\ folded.throws <=> \E i \in DOMAIN bodies : bodies[i].throws
        /\ ~folded.throws =>
             /\ folded.aborts <=> \E i \in DOMAIN bodies : bodies[i].aborts
             /\ j = "and" => (folded.match[Root] <=> \A i \in DOMAIN bodies : bodies[i].match[Root])
             /\ j # "and" => (folded.match[Root] <=> \E i \in DOMAIN bodies : bodies[i].match[Root])
    BY <1>3, <2>1, JoinIs
  <2> HIDE DEF b, j
  <2> QED BY <1>2, <2>2
<1>5. ScopeOf(args) = "root"
  BY FoldOperands
<1>10. PICK g : g = [e \in {Root} |-> Guards(args, e) /\ folded.match[e]]
  OBVIOUS
<1>6. PICK f : f = [folded EXCEPT !.match = g]
  OBVIOUS
<1>7. FoldConstructedList(op, args) = IF folded.throws THEN Refusal ELSE f
  BY <1>1, <1>3, <1>5, <1>6, <1>10 DEF FoldConstructedList, RefusedIf
<1>8. CASE folded.throws
  BY <1>7, <1>8, RefusalIs
<1>9. CASE ~folded.throws
  <2>1. PICK match, aborts : folded = [match |-> match, throws |-> FALSE, aborts |-> aborts]
    BY <1>3, <1>9 DEF Join, RefusedIf, Refusal
  <2>2. f = [match |-> g, throws |-> FALSE, aborts |-> folded.aborts]
    BY <1>6, <2>1
  <2>3. FilterTyped(f, {Root}) /\ ~f.throws /\ f.aborts = folded.aborts
    BY <1>4, <1>9, <1>10, <2>2 DEF FilterTyped
  <2>4. f.match[Root] <=> Guards(args, Root) /\ folded.match[Root]
    BY <1>10, <2>2
  <2>5. ASSUME NEW i \in 1 .. 2 PROVE b(i) = (IF args[3].lit.t = "list" THEN Refusal ELSE c(i))
    <3>1. args[3].kind = "value" /\ args[i].kind = "variable"
      BY <2>5, FoldOperands
    <3>2. PICK s : s = <<args[i], args[3]>>
      OBVIOUS
    <3>3. s[1] = args[i] /\ s[2] = args[3]
      BY <3>2
    <3>4. ~\E k \in 1 .. 2 : EmptinessTest(s, k)
      BY <3>1, <3>3 DEF EmptinessTest, SetOperations
    <3>5. (\E k \in 1 .. 2 : s[k].kind = "variable" /\ s[3 - k].lit.t = "list") <=> args[3].lit.t = "list"
      BY <3>1, <3>3
    <3>6. TranslateComparison("eq", s, args[i].agg) = IF args[3].lit.t = "list" THEN Refusal ELSE c(i)
      BY <3>1, <3>3, <3>4, <3>5 DEF TranslateComparison
    <3> QED BY <3>2, <3>6
  <2>6. args[3].lit.t # "list" /\ b(1) = c(1) /\ b(2) = c(2)
    BY <1>4, <1>9, <2>5, RefusalIs
  <2>7. FoldConstructedList(op, args) = f /\ ~f.throws
    BY <1>7, <1>9, <2>3
  <2>8. /\ folded.aborts <=> c(1).aborts \/ c(2).aborts
        /\ j = "and" => (folded.match[Root] <=> c(1).match[Root] /\ c(2).match[Root])
        /\ j # "and" => (folded.match[Root] <=> c(1).match[Root] \/ c(2).match[Root])
    BY <1>4, <1>9, <2>6
  <2>9. ~c(1).throws /\ ~c(2).throws
    BY <1>4, <1>9, <2>6
  <2>10. (op = "existsOf" => j # "and") /\ (op = "allOf" => j = "and")
    OBVIOUS
  <2> HIDE DEF b, j
  <2> QED BY <2>3, <2>4, <2>6, <2>7, <2>8, <2>9, <2>10
<1> QED BY <1>8, <1>9

\* $nor, behind the guards.
LEMMA NorIs ==
  ASSUME NEW n, NEW F, FilterTyped(n.yes, F)
  PROVE  LET f == Nor(n) IN
         /\ FilterTyped(f, F)
         /\ f.throws <=> \/ n.kind \in Macros \union Folds \/ ~NullableGuardIsExact(n) \/ n.yes.throws
                         \/ UnguardableList(n)
         /\ ~f.throws =>
              /\ f.aborts <=> n.yes.aborts \/ (n.scope = "element" /\ n.exprGuard)
              /\ \A e \in F : f.match[e] <=> ~n.yes.match[e] /\ n.guard[e] /\ n.listShape[e]
<1> DEFINE refused == \/ n.kind \in Macros \union Folds \/ ~NullableGuardIsExact(n) \/ n.yes.throws
                      \/ UnguardableList(n)
<1>1. PICK f : f = [match |-> [e \in DOMAIN n.yes.match |-> ~n.yes.match[e] /\ n.guard[e] /\ n.listShape[e]],
                    throws |-> FALSE,
                    aborts |-> n.yes.aborts \/ (n.scope = "element" /\ n.exprGuard)]
  OBVIOUS
<1>2. Nor(n) = IF refused THEN Refusal ELSE f
  BY <1>1 DEF Nor, RefusedIf
<1>3. CASE refused
  BY <1>2, <1>3, RefusalIs
<1>4. CASE ~refused
  <2>1. DOMAIN n.yes.match = F
    BY <1>4 DEF FilterTyped
  <2>2. FilterTyped(f, F) /\ ~f.throws /\ (f.aborts <=> n.yes.aborts \/ (n.scope = "element" /\ n.exprGuard))
    BY <1>1, <2>1 DEF FilterTyped
  <2>3. \A e \in F : f.match[e] <=> ~n.yes.match[e] /\ n.guard[e] /\ n.listShape[e]
    BY <1>1, <2>1
  <2> QED BY <1>2, <1>4, <2>2, <2>3
<1> QED BY <1>3, <1>4

LEMMA PairEveryTyped ==
  ASSUME NEW op, NEW args, Well(op, args), DOMAIN args = 1 .. 2, NEW quantifier, NEW negate \in BOOLEAN
  PROVE  /\ FilterTyped(EveryElementIn(quantifier, args[1], args[2], negate), Envs(ElementEnvs, ScopeOf(args)))
         /\ FilterTyped(EveryElementIn(quantifier, args[2], args[1], negate), Envs(ElementEnvs, ScopeOf(args)))
<1>1. PICK F : F = Envs(ElementEnvs, ScopeOf(args))
  OBVIOUS
<1>2. args[1].lit.t = "list" => DOMAIN args[2].agg = F
  BY <1>1, BesideConstant
<1>3. args[2].lit.t = "list" => DOMAIN args[1].agg = F
  BY <1>1, BesideConstant
<1> QED BY <1>1, <1>2, <1>3, EveryTyped

\* What except() and intersect() compare with the empty list.
Swapped(op, args) == op = "intersect" /\ args[2].kind = "variable" /\ args[1].kind # "variable"

LEMMA EmptinessIs ==
  ASSUME NEW op \in SetOperations, NEW args, NEW empty \in BOOLEAN
  PROVE  LET quantifier == IF empty THEN "all" ELSE "exists"
             negate == IF op = "intersect" THEN empty ELSE ~empty
         IN /\ negate \in BOOLEAN
            /\ Swapped(op, args) => Emptiness(op, args, empty) = EveryElementIn(quantifier, args[2], args[1], negate)
            /\ ~Swapped(op, args) => Emptiness(op, args, empty) = EveryElementIn(quantifier, args[1], args[2], negate)
<1>1. CASE Swapped(op, args)
  BY <1>1 DEF Emptiness, Swapped, SetOperations
<1>2. CASE ~Swapped(op, args)
  BY <1>2 DEF Emptiness, Swapped, SetOperations
<1> QED BY <1>1, <1>2

LEMMA EmptinessTyped ==
  ASSUME NEW op \in SetOperations, NEW args, Well(op, args), NEW empty \in BOOLEAN
  PROVE  FilterTyped(Emptiness(op, args, empty), Envs(ElementEnvs, ScopeOf(args)))
<1>1. DOMAIN args = 1 .. 2
  BY WidthIs DEF Binary, SetOperations
<1>2. PICK negate \in BOOLEAN : negate = (IF op = "intersect" THEN empty ELSE ~empty)
  OBVIOUS
<1>3. CASE Swapped(op, args)
  BY <1>1, <1>2, <1>3, EmptinessIs, PairEveryTyped
<1>4. CASE ~Swapped(op, args)
  BY <1>1, <1>2, <1>4, EmptinessIs, PairEveryTyped
<1> QED BY <1>3, <1>4

LEMMA IfTyped ==
  ASSUME NEW args, NEW agg, NEW aggThrows, NEW F, DOMAIN agg = F
  PROVE  LET f == EmitExpr(ScopeOf(args), aggThrows, agg,
                           [e \in DOMAIN agg |-> (\A i \in DOMAIN args : At(args[i].guard, e)) /\ Truthy(agg[e])])
         IN /\ FilterTyped(f, F)
            /\ f.throws <=> ScopeOf(args) = "element" \/ aggThrows
            /\ ~f.throws => /\ f.aborts <=> agg[Root] = Err
                            /\ \A e \in F : f.match[e] <=> Guards(args, e) /\ Truthy(agg[e])
<1>1. PICK match : match = [e \in DOMAIN agg |-> (\A i \in DOMAIN args : At(args[i].guard, e)) /\ Truthy(agg[e])]
  OBVIOUS
<1>2. match \in [DOMAIN agg -> BOOLEAN] /\ \A e \in F : match[e] <=> Guards(args, e) /\ Truthy(agg[e])
  BY <1>1 DEF Guards
<1>3. PICK f : f = EmitExpr(ScopeOf(args), aggThrows, agg, match)
  OBVIOUS
<1>4. /\ FilterTyped(f, DOMAIN agg)
      /\ f.throws <=> ScopeOf(args) = "element" \/ aggThrows
      /\ ~f.throws => f.match = match /\ (f.aborts <=> agg[Root] = Err)
  BY <1>2, <1>3, EmitExprIs
<1> QED BY <1>1, <1>2, <1>3, <1>4

\* Every filter buildFilter emits is a function of the environments of its expression.
LEMMA BuildTyped ==
  ASSUME NEW op, NEW args, Well(op, args), NEW agg, DOMAIN agg = Places(op, args), NEW aggThrows
  PROVE  FilterTyped(BuildFilter(op, args, agg, aggThrows), Places(op, args))
<1>1. PICK f : f = BuildFilter(op, args, agg, aggThrows)
  OBVIOUS
<1>2. PICK F : F = Places(op, args)
  OBVIOUS
<1>3. CASE OuterReference(op, args)
  <2>1. f = Refusal
    BY <1>1, <1>3 DEF BuildFilter
  <2> QED BY <1>1, <2>1, RefusalIs
<1>4. CASE ~OuterReference(op, args)
  <2> USE <1>1, <1>2, <1>4
  <2>1. Inside(op) => F = Envs(ElementEnvs, ScopeOf(args))
    BY DEF Places, ScopeFor, Inside
  <2>2. ~Inside(op) => F = {Root}
    BY DEF Places, ScopeFor, Inside, Envs
  <2>3. CASE op \in Junctions
    <3>1. f = Join(op, ScopeOf(args), Positive(args))
      BY <2>3, BuildIs
    <3>4. Inside(op)
      BY <2>3 DEF Inside, Macros, Junctions
    <3> QED BY <3>4, <2>1, <3>1, JoinIs
  <2>4. CASE op = "not"
    <3>1. f = args[1].no
      BY <2>4, BuildIs
    <3>4. Inside(op)
      BY <2>4 DEF Inside, Macros
    <3>5. DOMAIN args = 1 .. 1
      BY <2>4, WidthIs
    <3> QED BY <3>4, <3>5, <2>1, <3>1, LoneScope, FiltersTyped
  <2>5. CASE op \in Comparisons
    <3>1. f = TranslateComparison(op, args, agg)
      BY <2>5, BuildIs
    <3>4. Inside(op)
      BY <2>5 DEF Inside, Macros, Comparisons, Equalities, Orderings
    <3>5. DOMAIN args = 1 .. 2
      BY <2>5, WidthIs DEF Comparisons, Equalities, Orderings, Binary
    <3> QED BY <3>4, <3>5, <2>1, <3>1, ComparisonTyped
  <2>6. CASE op = "in"
    <3>1. f = TranslateIn(args)
      BY <2>6, BuildIs
    <3>4. Inside(op)
      BY <2>6 DEF Inside, Macros
    <3>5. DOMAIN args = 1 .. 2
      BY <2>6, WidthIs DEF Binary
    <3>2. /\ args[1].kind = "variable" /\ args[2].kind = "value" => DOMAIN args[1].agg = F
          /\ args[1].kind = "value" => DOMAIN args[2].agg = F
      BY <2>1, <3>4, <3>5, BesideConstant
    <3> QED BY <3>4, <3>5, <3>1, <3>2, InTyped
  <2>7. CASE op \in ConditionalLists
    <3>1. f = ConditionalMembership(op, args[1])
      BY <2>7, BuildIs
    <3>4. Inside(op)
      BY <2>7 DEF Inside, Macros, ConditionalLists
    <3>5. DOMAIN args = 1 .. 1
      BY <2>7, WidthIs DEF ConditionalLists
    <3>2. NodeOK(args[1]) /\ ScopeOf(args) = args[1].scope /\ args[1].scope # "none"
      BY <3>4, <3>5, LoneScope
    <3> QED BY <3>4, <3>5, <2>1, <2>7, <3>1, <3>2, ConditionalIs
  <2>8. CASE op = "matches"
    <3>1. f = TranslateMatches(args)
      BY <2>8, BuildIs
    <3>4. Inside(op)
      BY <2>8 DEF Inside, Macros
    <3>5. DOMAIN args = 1 .. 2
      BY <2>8, WidthIs DEF Binary
    <3> QED BY <3>4, <3>5, <2>1, <3>1, MatchesTyped
  <2>9. CASE op = "startsWith"
    <3>1. f = TranslateStringPredicate(args, agg, aggThrows)
      BY <2>9, BuildIs
    <3>4. Inside(op)
      BY <2>9 DEF Inside, Macros
    <3>5. DOMAIN args = 1 .. 2
      BY <2>9, WidthIs DEF Binary
    <3>6. DOMAIN agg = Envs(ElementEnvs, ScopeOf(args))
      BY <2>1, <3>4
    <3>7. FilterTyped(TranslateStringPredicate(args, agg, aggThrows), Envs(ElementEnvs, ScopeOf(args)))
      BY <3>5, <3>6, StringPredicateIs
    <3> QED BY <2>1, <3>1, <3>4, <3>7
  <2>10. CASE op = "hasIntersection"
    <3>1. f = TranslateHasIntersection(args)
      BY <2>10, BuildIs
    <3>4. Inside(op)
      BY <2>10 DEF Inside, Macros
    <3>5. DOMAIN args = 1 .. 2
      BY <2>10, WidthIs DEF Binary
    <3> QED BY <3>4, <3>5, <2>1, <3>1, IntersectionTyped
  <2>11. CASE op = "isSubset"
    <3>1. f = EveryElementIn("all", args[1], args[2], FALSE)
      BY <2>11, BuildSetsIs
    <3>4. Inside(op)
      BY <2>11 DEF Inside, Macros
    <3>5. DOMAIN args = 1 .. 2
      BY <2>11, WidthIs DEF Binary
    <3> QED BY <3>4, <3>5, <2>1, <3>1, PairEveryTyped
  <2>12. CASE op \in SetOperations
    <3>1. f = Emptiness(op, args, TRUE)
      BY <2>12, BuildSetsIs
    <3>4. Inside(op)
      BY <2>12 DEF Inside, Macros, SetOperations
    <3> QED BY <3>4, <2>1, <2>12, <3>1, EmptinessTyped
  <2>13. CASE op \in Macros
    <3>1. f = Quantifier(op, args)
      BY <2>13, BuildIs
    <3>4. ~Inside(op)
      BY <2>13 DEF Inside
    <3> QED BY <3>4, <2>2, <2>13, <3>1, QuantifierIs
  <2>14. CASE op \in Folds
    <3>1. f = FoldConstructedList(op, args)
      BY <2>14, BuildIs
    <3>4. Inside(op)
      BY <2>14 DEF Inside, Macros, Folds
    <3>3. ScopeOf(args) = "root"
      BY <2>14, FoldOperands
    <3>2. F = {Root}
      BY <2>1, <3>3, <3>4 DEF Envs
    <3> QED BY <2>14, <3>1, <3>2, FoldIs
  <2>15. CASE op = "if"
    <3>1. DOMAIN agg = F
      OBVIOUS
    <3>2. f = EmitExpr(ScopeOf(args), aggThrows, agg,
                       [e \in DOMAIN agg |-> (\A i \in DOMAIN args : At(args[i].guard, e)) /\ Truthy(agg[e])])
      BY <2>15, BuildIfIs
    <3> QED BY <3>1, <3>2, IfTyped
  <2>16. CASE op \in {"add", "div", "mod", "size", "index", "map"}
    <3>1. f = Refusal
      BY <2>16, BuildIs
    <3> QED BY <3>1, RefusalIs
  <2> QED BY <2>3, <2>4, <2>5, <2>6, <2>7, <2>8, <2>9, <2>10, <2>11, <2>12, <2>13, <2>14, <2>15, <2>16
          DEF Well, AllOperators, SetOperations
<1> QED BY <1>3, <1>4

\* So is every filter translateNot emits.
LEMMA NegationTyped ==
  ASSUME NEW op, NEW args, Well(op, args), NEW n, n = BareExpression(op, args)
  PROVE  FilterTyped(TranslateNot(n, args), Places(op, args))
<1>1. PICK f : f = TranslateNot(n, args)
  OBVIOUS
<1>2. PICK F : F = Places(op, args)
  OBVIOUS
<1>3. n.kind = op /\ n.scope = ScopeFor(op, args) /\ DOMAIN n.agg = F /\ FilterTyped(n.yes, F)
  <2>1. n.kind = op /\ n.scope = ScopeFor(op, args)
    BY BareHead
  <2>2. DOMAIN n.agg = Places(op, args)
    BY BareParts
  <2>3. n.yes = BuildFilter(op, args, n.agg, n.aggThrows)
    BY BareParts
  <2> QED BY <1>2, <2>1, <2>2, <2>3, BuildTyped
<1>4. FilterTyped(Refusal, F)
  BY RefusalIs
<1>5. FilterTyped(Nor(n), F)
  BY <1>3, NorIs
<1>6. Inside(op) => F = Envs(ElementEnvs, ScopeOf(args)) /\ n.scope = ScopeOf(args)
  BY <1>2, <1>3 DEF Places, ScopeFor, Inside
<1>7. CASE OuterReference(op, args)
  <2>1. f = Refusal
    BY <1>1, <1>3, <1>7 DEF TranslateNot
  <2> QED BY <1>1, <1>2, <1>4, <2>1
<1>8. CASE ~OuterReference(op, args)
  <2>1. CASE op \in Junctions
    <3>1. f = Join(Dual(op), n.scope, Negative(args))
      BY <1>1, <1>3, <1>8, <2>1 DEF TranslateNot
    <3>2. Inside(op)
      BY <2>1 DEF Inside, Macros, Junctions
    <3> QED BY <1>1, <1>2, <1>6, <3>1, <3>2, JoinIs
  <2>2. CASE op = "not"
    <3>1. f = args[1].yes
      BY <1>1, <1>3, <1>8, <2>2 DEF TranslateNot, Junctions
    <3>2. Inside(op)
      BY <2>2 DEF Inside, Macros
    <3>3. DOMAIN args = 1 .. 1
      BY <2>2, WidthIs
    <3> QED BY <1>1, <1>2, <1>6, <3>1, <3>2, <3>3, LoneScope, FiltersTyped
  <2>3. CASE op = "in"
    <3>1. Inside(op)
      BY <2>3 DEF Inside, Macros
    <3>2. DOMAIN args = 1 .. 2
      BY <2>3, WidthIs DEF Binary
    <3>3. CASE args[1].kind = "value" /\ args[2].kind = "map"
      <4>1. PICK s, map : s = {args[1].lit} /\ map = args[2]
        OBVIOUS
      <4>2. f = TranslateMapIntersection(map, s, TRUE)
        BY <1>1, <1>3, <1>8, <2>3, <3>3, <4>1 DEF TranslateNot, Junctions
      <4>3. DOMAIN map.agg = F
        BY <1>6, <3>1, <3>2, <3>3, <4>1, BesideConstant
      <4> QED BY <1>1, <1>2, <4>2, <4>3, ProjectionIs, ZenonT(60)
    <3>4. CASE ~(args[1].kind = "value" /\ args[2].kind = "map")
      <4>1. f = Nor(n)
        BY <1>1, <1>3, <1>8, <2>3, <3>4 DEF TranslateNot, Junctions, SetOperations, Equalities, Orderings
      <4> QED BY <1>1, <1>2, <1>5, <4>1
    <3> QED BY <3>3, <3>4
  <2>4. CASE op = "hasIntersection"
    <3>1. Inside(op)
      BY <2>4 DEF Inside, Macros
    <3>2. DOMAIN args = 1 .. 2
      BY <2>4, WidthIs DEF Binary
    <3>3. PICK c : c = CollectionFirst(args)[1]
      OBVIOUS
    <3>4. PICK l : l = CollectionFirst(args)[2]
      OBVIOUS
    <3>5. CASE c.kind = "map"
      <4>1. f = IF l.lit.t # "list" THEN Refusal ELSE TranslateMapIntersection(c, Members[l.lit], TRUE)
        BY <1>1, <1>3, <1>8, <2>4, <3>3, <3>4, <3>5 DEF TranslateNot, Junctions
      <4>2. l.lit.t = "list" => DOMAIN c.agg = F
        BY <1>6, <3>1, <3>2, <3>3, <3>4, CollectionIs
      <4>3. CASE l.lit.t = "list"
        <5>1. PICK s : s = Members[l.lit]
          OBVIOUS
        <5>2. DOMAIN c.agg = F /\ f = TranslateMapIntersection(c, s, TRUE)
          BY <4>1, <4>2, <4>3, <5>1
        <5> QED BY <1>1, <1>2, <5>2, ProjectionIs, ZenonT(60)
      <4> QED BY <1>1, <1>2, <1>4, <4>1, <4>3
    <3>6. CASE c.kind # "map"
      <4>1. f = Nor(n)
        BY <1>1, <1>3, <1>8, <2>4, <3>3, <3>6 DEF TranslateNot, Junctions, SetOperations, Equalities, Orderings
      <4> QED BY <1>1, <1>2, <1>5, <4>1
    <3> QED BY <3>5, <3>6
  <2>5. CASE op = "isSubset"
    <3>1. f = EveryElementIn("exists", args[1], args[2], TRUE)
      BY <1>1, <1>3, <1>8, <2>5 DEF TranslateNot, Junctions
    <3>2. Inside(op)
      BY <2>5 DEF Inside, Macros
    <3>3. DOMAIN args = 1 .. 2
      BY <2>5, WidthIs DEF Binary
    <3> QED BY <1>1, <1>2, <1>6, <3>1, <3>2, <3>3, PairEveryTyped
  <2>6. CASE op \in SetOperations
    <3>1. f = Emptiness(op, args, FALSE)
      BY <1>1, <1>3, <1>8, <2>6 DEF TranslateNot, Junctions, SetOperations
    <3>2. Inside(op)
      BY <2>6 DEF Inside, Macros, SetOperations
    <3> QED BY <1>1, <1>2, <1>6, <2>6, <3>1, <3>2, EmptinessTyped
  <2>7. CASE op \in Comparisons
    <3>1. Inside(op)
      BY <2>7 DEF Inside, Macros, Comparisons, Equalities, Orderings
    <3>2. DOMAIN args = 1 .. 2
      BY <2>7, WidthIs DEF Comparisons, Equalities, Orderings, Binary
    <3>3. PICK q : f \in {TranslateComparison(q, args, n.agg), Refusal, n.yes, Nor(n)}
      <4>1. f \in {TranslateComparison(IF op = "eq" THEN "ne" ELSE "eq", args, n.agg),
                   TranslateComparison(Complemented(op), args, n.agg), Refusal, n.yes, Nor(n)}
        BY <1>1, <1>3, <1>8, <2>7 DEF TranslateNot, Junctions, SetOperations, Comparisons, Equalities, Orderings
      <4> QED BY <4>1
    <3>4. FilterTyped(TranslateComparison(q, args, n.agg), F)
      BY <1>3, <1>6, <3>1, <3>2, ComparisonTyped
    <3> QED BY <1>1, <1>2, <1>3, <1>4, <1>5, <3>3, <3>4
  <2>8. CASE op \notin Junctions \union {"not", "in", "hasIntersection", "isSubset"} \union SetOperations \union Comparisons
    <3>1. f = Nor(n)
      BY <1>1, <1>3, <1>8, <2>8 DEF TranslateNot, Comparisons
    <3> QED BY <1>1, <1>2, <1>5, <3>1
  <2> QED BY <2>1, <2>2, <2>3, <2>4, <2>5, <2>6, <2>7, <2>8
<1> QED BY <1>7, <1>8

LEMMA TypeIsOne ==
  ASSUME NEW op, NEW args, Well(op, args), Inside(op)
  PROVE  CelScalarType(op, args) \in ScalarTypes
<1>1. CASE op = "if"
  <2>1. 2 \in DOMAIN args
    BY <1>1, WidthIs
  <2>2. args[2].type \in ScalarTypes
    BY <2>1 DEF Well, NodeOK, NodeFine, NodeTyped, ScalarTypes
  <2> QED BY <1>1, <2>2, TypeIs DEF ScalarTypes
<1>2. CASE op = "add"
  BY <1>2, TypeIs DEF ScalarTypes
<1>3. CASE op \in {"size", "div", "mod"}
  BY <1>3, TypeIs DEF ScalarTypes
<1>4. CASE op \in Comparisons \union Junctions \union {"not", "matches", "startsWith"}
  BY <1>4, TypeIs DEF ScalarTypes
<1>5. CASE op \notin Comparisons \union Junctions
             \union {"add", "if", "size", "div", "mod", "not", "matches", "startsWith"}
  BY <1>5, TypeIs DEF ScalarTypes
<1> QED BY <1>1, <1>2, <1>3, <1>4, <1>5

LEMMA ExpressionTyped ==
  ASSUME NEW op, NEW args, Well(op, args), NEW n, n = ExpressionNode(op, args)
  PROVE  NodeTyped(n, ElementEnvs, Array # {})
<1>1. PICK m : m = BareExpression(op, args)
  OBVIOUS
<1>2. /\ n.no = TranslateNot(m, args)
      /\ n.kind = op /\ n.lit = m.lit /\ n.shape = m.shape /\ n.nullable = m.nullable
      /\ n.elementNullable = m.elementNullable /\ n.type = m.type /\ n.scope = m.scope /\ n.val = m.val
      /\ n.agg = m.agg /\ n.guard = m.guard /\ n.aggThrows = m.aggThrows /\ n.exprGuard = m.exprGuard
      /\ n.yes = m.yes /\ n.typed = m.typed
  BY <1>1, ExpressionIs
<1>3. /\ m.lit = Undefined
      /\ m.shape = IF op = "map" THEN args[1].shape ELSE "none"
      /\ m.type = IF op = "map" THEN args[2].type ELSE CelScalarType(op, args)
      /\ m.scope = ScopeFor(op, args)
  BY <1>1, BareHead
<1>4. Places(op, args) = Envs(ElementEnvs, m.scope)
  BY <1>3 DEF Places
<1>5. m.scope \in {"root", "element"} /\ (m.scope = "element" => Array # {})
  BY <1>3, ScopeIs DEF ScopeFor
<1>6. m.shape \in {"none", "many"} /\ m.type \in ScalarTypes
  <2>1. CASE op = "map"
    <3>1. args[1].shape = "many" /\ NodeOK(args[2])
      BY <2>1, MacroOperands DEF Inside
    <3>2. args[2].type \in ScalarTypes
      BY <3>1 DEF NodeOK, NodeFine, NodeTyped, ScalarTypes
    <3> QED BY <1>3, <2>1, <3>1, <3>2
  <2>2. CASE op \in Macros
    <3>1. CelScalarType(op, args) = "none"
      BY <2>2, TypeIs DEF Macros, Comparisons, Equalities, Orderings, Junctions
    <3> QED BY <1>3, <2>2, <3>1 DEF Macros, ScalarTypes
  <2>3. CASE Inside(op)
    BY <1>3, <2>3, TypeIsOne DEF Inside
  <2> QED BY <2>1, <2>2, <2>3 DEF Inside
<1>7. m.val \in [Places(op, args) -> Plain]
  <2>1. \A e \in Places(op, args) : Evaluate(op, args, e) \in Plain
    BY EvaluatePlain
  <2>2. m.val = [e \in Places(op, args) |-> Evaluate(op, args, e)]
    BY <1>1 DEF BareExpression, Places, ScopeFor, EnvsOf, Envs
  <2> QED BY <2>1, <2>2
<1>8. DOMAIN m.agg = Places(op, args) /\ m.guard \in [Places(op, args) -> BOOLEAN]
  BY <1>1, BareParts
<1>9. m.nullable \in BOOLEAN /\ m.elementNullable \in BOOLEAN
  BY <1>1, BareIs
<1>10. m.aggThrows \in BOOLEAN /\ m.exprGuard \in BOOLEAN /\ m.typed \in BOOLEAN
  BY <1>1, BareIs
<1>11. FilterTyped(m.yes, Places(op, args))
  <2>1. m.yes = BuildFilter(op, args, m.agg, m.aggThrows)
    BY <1>1, BareParts
  <2> QED BY <1>8, <2>1, BuildTyped
<1>12. FilterTyped(n.no, Places(op, args))
  BY <1>1, <1>2, NegationTyped
<1>13. op \in AllOperators
  BY DEF Well
<1>14. n.scope = m.scope /\ n.shape \in Shapes \union {"none"} /\ n.lit \in Cells
  <2>1. Undefined \in Cells
    BY DEF Undefined, Cells, Value, Types, Scalars, WellFormed
  <2> QED BY <1>2, <1>3, <1>6, <2>1 DEF Shapes
<1>15. /\ n.kind \in AllOperators \union {"value", "variable"}
       /\ n.scope \in {"none", "root", "element"}
       /\ n.type \in {"none", "num", "str", "bool", "mixed"}
       /\ n.scope = "element" => Array # {}
  BY <1>2, <1>5, <1>6, <1>13 DEF ScalarTypes
<1>16. /\ n.nullable \in BOOLEAN /\ n.elementNullable \in BOOLEAN /\ n.aggThrows \in BOOLEAN
       /\ n.exprGuard \in BOOLEAN /\ n.typed \in BOOLEAN
  BY <1>2, <1>9, <1>10
<1>17. /\ n.val \in [Envs(ElementEnvs, n.scope) -> Plain]
       /\ DOMAIN n.agg = Envs(ElementEnvs, n.scope)
       /\ n.guard \in [Envs(ElementEnvs, n.scope) -> BOOLEAN]
       /\ FilterTyped(n.yes, Envs(ElementEnvs, n.scope))
       /\ FilterTyped(n.no, Envs(ElementEnvs, n.scope))
  BY <1>2, <1>4, <1>7, <1>8, <1>11, <1>12
<1> QED BY <1>14, <1>15, <1>16, <1>17 DEF NodeTyped

LEMMA MapIs ==
  ASSUME NEW args, Well("map", args), NEW n, n = ExpressionNode("map", args)
  PROVE  MapFine(n, ElementEnvs, Array # {}, NullElement)
<1>1. PICK m : m = BareExpression("map", args)
  OBVIOUS
<1>2. /\ n.no = TranslateNot(m, args)
      /\ n.lit = m.lit /\ n.shape = m.shape /\ n.nullable = m.nullable
      /\ n.type = m.type /\ n.scope = m.scope /\ n.val = m.val
      /\ n.agg = m.agg /\ n.aggThrows = m.aggThrows /\ n.yes = m.yes
  BY <1>1, ExpressionIs
<1>3. ~Inside("map")
  BY DEF Inside
<1>4. PICK x, v : x = args[1].agg[Root] /\ v = At(args[1].val, Root)
  OBVIOUS
<1>5. /\ NodeOK(args[1]) /\ NodeOK(args[2])
      /\ args[1].kind = "variable" /\ args[1].shape = "many" /\ Array # {}
      /\ CellFine(args[1], x, v, At(args[1].guard, Root)) /\ Elements(x) = ElementEnvs /\ v \in Plain
      /\ args[2].scope = "element" /\ DOMAIN args[2].val = ElementEnvs
  <2>1. v = args[1].val[Root] /\ At(args[1].guard, Root) = args[1].guard[Root]
    BY <1>3, <1>4, MacroOperands
  <2> QED BY <1>3, <1>4, <2>1, MacroOperands
<1>6. args[2].kind = "variable"
  BY DEF Well, WellFormedPlan
<1>7. /\ args[2].shape = "element" /\ args[2].nullable \in BOOLEAN
      /\ \A e \in ElementEnvs : CellFine(args[2], e, args[2].val[e], args[2].guard[e])
      /\ args[2].nullable /\ Null \in ElementEnvs => NullElement
  <2>1. VariableFine(args[2], ElementEnvs, Array # {}, NullElement) /\ args[2].nullable \in BOOLEAN
    BY <1>5, <1>6 DEF NodeOK, NodeFine, NodeTyped
  <2>2. args[2].shape = "element"
    BY <1>5, <2>1 DEF VariableFine
  <2> QED BY <1>5, <2>1, <2>2 DEF VariableFine, Envs
<1>8. \A e \in ElementEnvs : e \in Item
  BY DEF Well
<1>9. \A e \in ElementEnvs : args[2].val[e] = IF args[2].nullable /\ e = Null THEN Err ELSE e
  <2>1. \A e \in ElementEnvs : e # Undefined
    BY <1>8, ItemIs
  <2> QED BY <1>7, <2>1 DEF CellFine
<1>10. /\ m.lit = Undefined /\ m.shape = "many" /\ m.type = args[2].type /\ m.scope = "root"
       /\ m.val[Root] = Evaluate("map", args, Root)
  <2>1. Root \in Places("map", args)
    BY DEF Places, ScopeFor, Envs
  <2> QED BY <1>1, <1>5, <2>1, BareHead DEF ScopeFor
<1>11. m.agg[Root] = x
  BY <1>1, <1>3, <1>4, BareOutside
<1>12. m.nullable \in BOOLEAN /\ (m.nullable <=> args[2].nullable)
  BY <1>1, BareIs
<1>13. m.aggThrows
  <2>1. AggregateThrows("map", args)
    BY DEF AggregateThrows, Comparisons, Equalities, Orderings, Junctions
  <2> QED BY <1>1, <2>1, BareIs
<1>14. m.yes.throws /\ TranslateNot(m, args).throws
  <2>1. ~OuterReference("map", args)
    BY DEF OuterReference
  <2>2. m.yes = BuildFilter("map", args, m.agg, m.aggThrows)
    BY <1>1, BareParts
  <2>3. m.yes = Refusal
    BY <2>1, <2>2, BuildIs
  <2>4. m.yes.throws
    BY <2>3, RefusalIs
  <2>5. m.kind = "map"
    BY <1>1, BareHead
  <2>6. TranslateNot(m, args) = Nor(m)
    BY <2>1, <2>5 DEF TranslateNot, Junctions, SetOperations, Equalities, Orderings
  <2>7. Nor(m) = Refusal
    BY <2>4 DEF Nor, RefusedIf
  <2> QED BY <2>4, <2>6, <2>7, RefusalIs
<1>15. /\ x \in Cells /\ x \in Value /\ x.t \in {"null", "undefined", "list"}
       /\ v.t = "list" <=> x.t = "list"
       /\ v.t = "list" => v = x
  <2>1. x \in Cells /\ x.t \in {"null", "undefined", "list"}
    BY <1>5 DEF CellFine, Lists
  <2>2. v = IF x = Undefined \/ (args[1].nullable /\ x = Null) THEN Err ELSE x
    BY <1>5 DEF CellFine
  <2> QED BY <2>1, <2>2, Constants DEF Cells
<1>16. PICK z : z = Evaluate("map", args, Root)
  OBVIOUS
<1>17. z = IF v.t = "list" /\ Err \notin Bodies(args) THEN ListOf(Bodies(args)) ELSE Err
  BY <1>3, <1>4, <1>16, EvaluateOutside
<1>18. z = IF x.t = "list" /\ ~(args[2].nullable /\ Null \in ElementEnvs) THEN x ELSE Err
  <2>1. CASE x.t # "list"
    BY <1>15, <1>17, <2>1
  <2>2. CASE x.t = "list"
    <3>1. Members[v] = ElementEnvs /\ \A y : y \in Bodies(args) <=> \E e \in ElementEnvs : y = args[2].val[e]
      BY <1>3, <1>4, <1>15, <2>2, BodiesAre
    <3>2. CASE args[2].nullable /\ Null \in ElementEnvs
      <4>1. Err \in Bodies(args)
        BY <1>9, <3>1, <3>2
      <4> QED BY <1>17, <3>2, <4>1
    <3>3. CASE ~(args[2].nullable /\ Null \in ElementEnvs)
      <4>1. \A e \in ElementEnvs : args[2].val[e] = e /\ e # Err
        BY <1>8, <1>9, <3>3, ItemIs
      <4>2. Bodies(args) = ElementEnvs /\ Err \notin Bodies(args)
        BY <3>1, <4>1
      <4>3. z = ListOf(ElementEnvs)
        BY <1>15, <1>17, <2>2, <4>2
      <4>4. Members[x] = ElementEnvs
        BY <1>15, <2>2, <3>1
      <4>5. ListOf(Members[x]) \in Value /\ ListOf(Members[x]).t = "list" /\ Members[ListOf(Members[x])] = Members[x]
        BY <1>15, <2>2, ListIs DEF Plain
      <4>6. ListOf(Members[x]) = x
        BY <1>15, <2>2, <4>5, ListIs
      <4> QED BY <2>2, <3>3, <4>3, <4>4, <4>6
    <3> QED BY <3>2, <3>3
  <2> QED BY <2>1, <2>2
<1>19. m.type # "none" => \A e \in ElementEnvs : e.t = m.type \/ e = Null
  <2>1. \A e \in ElementEnvs : ~IsCollection(e) /\ (Missing(e) => e = Null)
    BY <1>8, ItemIs DEF Missing
  <2> QED BY <1>7, <1>10, <2>1 DEF CellFine
<1>20. n.agg[Root] = x /\ n.val[Root] = z /\ (n.nullable <=> args[2].nullable) /\ n.type = m.type
  BY <1>2, <1>10, <1>11, <1>12, <1>16
<1>21. n.val[Root] = IF n.agg[Root].t = "list" /\ ~(n.nullable /\ Null \in ElementEnvs) THEN n.agg[Root] ELSE Err
  BY <1>18, <1>20
<1>22. n.shape = "many" /\ n.scope = "root" /\ n.lit = Undefined /\ n.aggThrows /\ n.yes.throws /\ n.no.throws
  BY <1>2, <1>10, <1>13, <1>14
<1> QED BY <1>5, <1>7, <1>15, <1>19, <1>20, <1>21, <1>22 DEF MapFine

\* The record of an expression is what it is meant to be, whatever its filters say.
LEMMA ExpressionFits ==
  ASSUME NEW op, NEW args, Well(op, args), NEW n, n = ExpressionNode(op, args)
  PROVE  /\ NodeTyped(n, ElementEnvs, Array # {}) /\ n.kind = op /\ op \notin {"value", "variable"}
         /\ op = "map" => MapFine(n, ElementEnvs, Array # {}, NullElement)
         /\ op # "map" => ExpressionFine(n)
         /\ Agrees(n, ElementEnvs) /\ TypeTold(n, ElementEnvs)
<1>1. PICK m : m = BareExpression(op, args)
  OBVIOUS
<1>2. /\ n.kind = op /\ n.lit = m.lit /\ n.shape = m.shape /\ n.nullable = m.nullable
      /\ n.type = m.type /\ n.scope = m.scope /\ n.val = m.val
      /\ n.agg = m.agg /\ n.guard = m.guard /\ n.aggThrows = m.aggThrows /\ n.typed = m.typed
  BY <1>1, ExpressionIs
<1>3. NodeTyped(n, ElementEnvs, Array # {})
  BY ExpressionTyped
<1>4. op \in AllOperators /\ op \notin {"value", "variable"}
  BY DEF Well, AllOperators, Junctions, Comparisons, Equalities, Orderings, Macros, ConditionalLists, Folds
<1>5. op = "map" => MapFine(n, ElementEnvs, Array # {}, NullElement)
  BY MapIs
<1>6. /\ m.lit = Undefined
      /\ m.shape = IF op = "map" THEN args[1].shape ELSE "none"
      /\ m.type = IF op = "map" THEN args[2].type ELSE CelScalarType(op, args)
      /\ m.scope = ScopeFor(op, args)
  BY <1>1, BareHead
<1>7. ASSUME op # "map" PROVE ExpressionFine(n)
  <2>1. ScopeFor(op, args) # "none"
    BY ScopeIs DEF ScopeFor
  <2>2. ~m.nullable
    BY <1>1, <1>7, BareIs
  <2> QED BY <1>2, <1>6, <1>7, <2>1, <2>2 DEF ExpressionFine
<1>8. Agrees(n, ElementEnvs)
  <2>1. Agrees(m, ElementEnvs)
    BY <1>1, BareAgrees
  <2> QED BY <1>2, <2>1 DEF Agrees
<1>9. TypeTold(n, ElementEnvs)
  <2>1. CASE op = "map"
    <3>1. n.shape = "many"
      BY <1>5, <2>1 DEF MapFine
    <3> QED BY <3>1 DEF TypeTold, Lists
  <2>2. CASE op \in Macros
    <3>1. n.type = "none"
      BY <1>2, <1>6, <2>2, TypeIs DEF Macros, Comparisons, Equalities, Orderings, Junctions
    <3> QED BY <3>1 DEF TypeTold
  <2>3. CASE Inside(op)
    <3>1. n.type = CelScalarType(op, args)
      BY <1>2, <1>6, <2>3 DEF Inside
    <3>2. Places(op, args) = Envs(ElementEnvs, n.scope)
      BY <1>2, <1>6 DEF Places
    <3>3. \A e \in Places(op, args) : n.val[e] = Evaluate(op, args, e)
      BY <1>1, <1>2, BareHead
    <3>4. ASSUME NEW e \in Places(op, args), n.type \in {"num", "str", "bool"}
          PROVE  n.val[e].t \in {n.type, "error", "null"}
      BY <2>3, <3>1, <3>3, <3>4, TypeToldBy
    <3> QED BY <3>2, <3>4 DEF TypeTold
  <2> QED BY <2>1, <2>2, <2>3 DEF Inside
<1> QED BY <1>2, <1>3, <1>4, <1>5, <1>7, <1>8, <1>9

-----------------------------------------------------------------------------
(* What the filters of an expression say *)

\* An expression of a plan that holds no shape of Disagreements, and its record but for `no`.
Expression(op, args, m) ==
  /\ Well(op, args) /\ Admitted = {} /\ AdmittedShape(op, args) /\ m = BareExpression(op, args)

\* The same, where the operands are read where it stands.
InPlace(op, args, m) == Expression(op, args, m) /\ Inside(op) /\ ~OuterReference(op, args)

\* What m.yes and the filter of its negation say in an environment.
SaysYes(m, e) == Allows(m.yes, e, m.val[e], Lost(m, e, NullElement), m.scope = "root")
SaysNo(m, no, e) == Denies(no, e, m.val[e], Lost(m, e, NullElement))

LEMMA InPlaceIs ==
  ASSUME NEW op, NEW args, NEW m, InPlace(op, args, m)
  PROVE  /\ Well(op, args) /\ m.kind = op /\ m.scope = ScopeOf(args) /\ m.scope \in {"root", "element"}
         /\ Places(op, args) = Envs(ElementEnvs, ScopeOf(args))
         /\ m.yes = BuildFilter(op, args, m.agg, m.aggThrows)
         /\ FilterTyped(m.yes, Places(op, args)) /\ FilterTyped(TranslateNot(m, args), Places(op, args))
         /\ DOMAIN m.agg = Places(op, args)
         /\ \A e \in Places(op, args) : /\ m.val[e] = Evaluate(op, args, e) /\ m.val[e] \in Plain
                                        /\ op \in Answers => m.val[e] \in Tri
                                        /\ m.guard[e] \in BOOLEAN
<1> USE DEF InPlace, Expression
<1>1. m.kind = op /\ m.scope = ScopeOf(args) /\ Places(op, args) = Envs(ElementEnvs, ScopeOf(args))
  BY BareHead, BareInside
<1>2. m.scope \in {"root", "element"}
  BY <1>1, ScopeIs
<1>3. /\ DOMAIN m.agg = Places(op, args) /\ m.guard \in [Places(op, args) -> BOOLEAN]
      /\ m.yes = BuildFilter(op, args, m.agg, m.aggThrows)
  BY BareParts
<1>4. FilterTyped(m.yes, Places(op, args))
  BY <1>3, BuildTyped
<1>5. FilterTyped(TranslateNot(m, args), Places(op, args))
  BY NegationTyped
<1>6. \A e \in Places(op, args) : m.val[e] = Evaluate(op, args, e)
  BY BareHead
<1>7. \A e \in Places(op, args) : Evaluate(op, args, e) \in Plain /\ (op \in Answers => Evaluate(op, args, e) \in Tri)
  BY EvaluatePlain
<1> QED BY <1>1, <1>2, <1>3, <1>4, <1>5, <1>6, <1>7

LEMMA InPlaceGuard ==
  ASSUME NEW op, NEW args, NEW m, InPlace(op, args, m), NEW e \in Places(op, args)
  PROVE  /\ m.agg[e] = Aggregate(op, args, Inputs(args, e))
         /\ m.guard[e] <=> Guards(args, e) /\ OwnGuard(op, Inputs(args, e), m.agg[e])
         /\ op \notin Guarded => (m.guard[e] <=> Guards(args, e))
         /\ m.exprGuard <=> op \in Guarded \/ \E i \in DOMAIN args : args[i].exprGuard
         /\ m.aggThrows <=> AggregateThrows(op, args)
         /\ m.listShape[e] <=> \A i \in ListsRead(op, args) : IsCollection(At(args[i].agg, e))
<1> USE DEF InPlace, Expression
<1>1. /\ m.agg[e] = Aggregate(op, args, Inputs(args, e))
      /\ m.guard[e] <=> Guards(args, e) /\ OwnGuard(op, Inputs(args, e), m.agg[e])
      /\ m.exprGuard <=> op \in Guarded \/ \E i \in DOMAIN args : args[i].exprGuard
  BY BareInside
<1>2. /\ m.aggThrows <=> AggregateThrows(op, args)
      /\ m.listShape[e] <=> \A i \in ListsRead(op, args) : IsCollection(At(args[i].agg, e))
  BY BareIs
<1>3. op \notin Guarded => OwnGuard(op, Inputs(args, e), m.agg[e])
  BY DEF OwnGuard, Guarded
<1> QED BY <1>1, <1>2, <1>3

\* An operand, in an environment of an expression that reads it where it stands.
LEMMA OperandSays ==
  ASSUME NEW op, NEW args, NEW m, InPlace(op, args, m), NEW i \in DOMAIN args, NEW e \in Places(op, args)
  PROVE  LET n == args[i] IN
         /\ NodeOK(n)
         /\ n.kind # "value" => n.scope = m.scope /\ e \in Envs(ElementEnvs, n.scope)
         /\ n.kind = "value" => n.yes.throws /\ n.no.throws
         /\ n.kind # "value" => /\ At(n.val, e) = n.val[e] /\ At(n.agg, e) = n.agg[e] /\ At(n.guard, e) = n.guard[e]
         /\ n.kind \notin SetOperations \union {"value"} /\ n.shape \notin Lists =>
              /\ Allows(n.yes, e, n.val[e], Lost(n, e, NullElement), n.scope = "root")
              /\ Denies(n.no, e, n.val[e], Lost(n, e, NullElement))
              /\ ElementGuarded(n, ElementEnvs, NullElement)
<1> DEFINE n == args[i]
<1>1. NodeOK(n) /\ Admitted = {}
  BY DEF InPlace, Expression, Well
<1>2. e \in Envs(ElementEnvs, ScopeOf(args)) /\ m.scope = ScopeOf(args) /\ m.scope \in {"root", "element"}
  BY InPlaceIs
<1>3. /\ n.scope \in {"none", "root", "element"}
      /\ n.scope = "none" => n.kind = "value"
      /\ n.kind = "value" => n.scope = "none"
  BY <1>1, ShapeIs
<1>4. n.kind # "value" => n.scope = m.scope
  <2>1. CASE m.scope = "root"
    <3>1. n.scope \in {"none", "root"}
      BY <1>2, <2>1, ScopeIs DEF InPlace, Expression
    <3> QED BY <1>3, <2>1, <3>1
  <2>2. CASE m.scope = "element"
    <3>1. n.scope \in {"none", "element"}
      BY <1>2, <2>2, ScopeIs DEF InPlace, Expression
    <3> QED BY <1>3, <2>2, <3>1
  <2> QED BY <1>2, <2>1, <2>2
<1>5. n.kind = "value" => n.yes.throws /\ n.no.throws
  BY <1>1 DEF NodeOK, NodeFine, ValueFine
<1>6. n.kind # "value" => e \in Envs(ElementEnvs, n.scope)
  BY <1>2, <1>4
<1>7. n.kind # "value" => /\ At(n.val, e) = n.val[e] /\ At(n.agg, e) = n.agg[e] /\ At(n.guard, e) = n.guard[e]
  <2>1. DOMAIN n.val = Envs(ElementEnvs, n.scope) /\ DOMAIN n.agg = Envs(ElementEnvs, n.scope)
        /\ DOMAIN n.guard = Envs(ElementEnvs, n.scope)
    BY <1>1 DEF NodeOK, NodeFine, NodeTyped
  <2> QED BY <1>6, <2>1 DEF At
<1>8. ASSUME n.kind \notin SetOperations \union {"value"}, n.shape \notin Lists
      PROVE  /\ Allows(n.yes, e, n.val[e], Lost(n, e, NullElement), n.scope = "root")
             /\ Denies(n.no, e, n.val[e], Lost(n, e, NullElement))
             /\ ElementGuarded(n, ElementEnvs, NullElement)
  <2>1. Proven(n, ElementEnvs, NullElement)
    BY <1>1, <1>8 DEF NodeOK, NodeFine, ReadsFine
  <2> QED BY <1>6, <1>8, <2>1 DEF Proven
<1> QED BY <1>1, <1>4, <1>5, <1>6, <1>7, <1>8

\* The guards of an element's expression that no $expr holds fail on a null element only, once some
\* filter of every operand could be built.
LEMMA ElementGuards ==
  ASSUME NEW op, NEW args, NEW m, InPlace(op, args, m), m.scope = "element", ~m.exprGuard,
         \A i \in DOMAIN args : args[i].kind \in {"value", "variable"} \/ ~args[i].yes.throws \/ ~args[i].no.throws,
         NEW e \in ElementEnvs
  PROVE  m.guard[e] \/ NullElement
<1>1. e \in Places(op, args)
  BY InPlaceIs DEF Envs
<1>2. op \notin Guarded /\ \A i \in DOMAIN args : ~args[i].exprGuard
  BY <1>1, InPlaceGuard
<1>3. SUFFICES ASSUME NEW i \in DOMAIN args PROVE At(args[i].guard, e) \/ NullElement
  BY <1>1, <1>2, InPlaceGuard DEF Guards
<1>4. NodeOK(args[i])
  BY <1>1, OperandSays
<1>5. CASE args[i].kind = "value"
  <2>1. e \in Envs(ElementEnvs, ScopeOf(args)) /\ Well(op, args)
    BY <1>1, InPlaceIs
  <2> QED BY <1>5, <2>1, WellOperand
<1>6. CASE args[i].kind = "variable"
  <2>1. args[i].scope = "element" /\ At(args[i].guard, e) = args[i].guard[e]
    BY <1>1, <1>6, OperandSays
  <2>2. VariableFine(args[i], ElementEnvs, Array # {}, NullElement) /\ args[i].nullable \in BOOLEAN
    BY <1>4, <1>6 DEF NodeOK, NodeFine, NodeTyped
  <2>3. /\ CellFine(args[i], e, args[i].val[e], args[i].guard[e])
        /\ args[i].shape = "element" /\ (args[i].nullable /\ Null \in ElementEnvs => NullElement)
    BY <2>1, <2>2 DEF VariableFine, Envs
  <2>4. e # Undefined
    <3>1. e \in Item
      BY DEF InPlace, Expression, Well
    <3> QED BY <3>1, ItemIs
  <2>5. ~args[i].guard[e] => e = Null /\ args[i].nullable
    <3>1. PICK v, g : v = args[i].val[e] /\ g = args[i].guard[e]
      OBVIOUS
    <3>2. ~g => e \in {Null, Undefined} /\ args[i].nullable
      BY <2>2, <2>3, <3>1, CellIs DEF Lists
    <3> QED BY <2>4, <3>1, <3>2
  <2> QED BY <2>1, <2>3, <2>5
<1>7. CASE args[i].kind \notin {"value", "variable"}
  <2>1. ~args[i].yes.throws \/ ~args[i].no.throws
    BY <1>7
  <2>2. args[i].scope = "element" /\ At(args[i].guard, e) = args[i].guard[e]
    BY <1>1, <1>7, OperandSays
  <2>3. args[i].kind # "map"
    BY <1>4, <2>2 DEF NodeOK, NodeFine, MapFine
  <2>4. args[i].kind \notin SetOperations
    BY <1>4, <2>2, Zenon DEF NodeOK, NodeFine, ReadsFine, SetProven, InPlace, Expression
  <2>5. args[i].shape \notin Lists
    BY <1>4, <1>7, <2>3, ShapeIs
  <2>6. ElementGuarded(args[i], ElementEnvs, NullElement)
    BY <1>1, <1>7, <2>4, <2>5, OperandSays
  <2> QED BY <1>2, <2>1, <2>2, <2>6 DEF ElementGuarded
<1> QED BY <1>5, <1>6, <1>7

\* What a $nor behind its guards says, when the filter it negates is exact behind them.
LEMMA NorSays ==
  ASSUME NEW op, NEW args, NEW m, InPlace(op, args, m), NEW e \in Places(op, args),
         TranslateNot(m, args) = Nor(m),
         Runs(m.yes) => /\ m.guard[e] /\ m.listShape[e] => m.val[e] # Err
                        /\ m.guard[e] /\ m.listShape[e] /\ m.val[e] = True => m.yes.match[e]
                        /\ m.val[e] = False => ~m.yes.match[e] /\ m.listShape[e],
         m.scope = "element" /\ ~m.exprGuard /\ ~m.yes.throws => m.guard[e] \/ NullElement
  PROVE  SaysNo(m, TranslateNot(m, args), e)
<1>1. PICK f : f = Nor(m)
  OBVIOUS
<1>2. /\ FilterTyped(m.yes, Places(op, args)) /\ m.val[e] \in Plain /\ m.guard[e] \in BOOLEAN
      /\ m.scope \in {"root", "element"}
  BY InPlaceIs
<1>3. /\ f.throws <=> \/ m.kind \in Macros \union Folds \/ ~NullableGuardIsExact(m) \/ m.yes.throws
                      \/ UnguardableList(m)
      /\ ~f.throws =>
           /\ f.aborts <=> m.yes.aborts \/ (m.scope = "element" /\ m.exprGuard)
           /\ f.match[e] <=> ~m.yes.match[e] /\ m.guard[e] /\ m.listShape[e]
  BY <1>1, <1>2, NorIs
<1>4. SUFFICES ASSUME Runs(f)
               PROVE  /\ f.match[e] /\ IsTri(m.val[e]) => m.val[e] = False
                      /\ m.val[e] = False => f.match[e] \/ Lost(m, e, NullElement)
  BY <1>1 DEF SaysNo, Denies
<1>5. Runs(m.yes) /\ ~(m.scope = "element" /\ m.exprGuard) /\ (f.match[e] <=> ~m.yes.match[e] /\ m.guard[e] /\ m.listShape[e])
  BY <1>3, <1>4 DEF Runs
<1>6. ASSUME f.match[e], IsTri(m.val[e]) PROVE m.val[e] = False
  <2>1. m.val[e] # Err /\ m.val[e] # True
    BY <1>5, <1>6
  <2>2. m.val[e] \in Value
    BY <1>2, PlainIs
  <2> QED BY <1>6, <2>1, <2>2, ValueIs DEF IsTri
<1>7. ASSUME m.val[e] = False PROVE f.match[e] \/ Lost(m, e, NullElement)
  <2>1. ~m.yes.match[e] /\ m.listShape[e]
    BY <1>5, <1>7
  <2>2. ~m.yes.throws
    BY <1>5 DEF Runs
  <2> QED BY <1>2, <1>5, <2>1, <2>2 DEF Lost
<1> QED BY <1>6, <1>7

\* The values an operand of a condition has.
LEMMA ConditionValue ==
  ASSUME NEW x \in Plain, IsTri(x)
  PROVE  x \in Tri /\ (x # True /\ x # False => x = Err)
<1>1. x \in Value
  BY PlainIs
<1> QED BY <1>1, ValueIs DEF IsTri, Tri

LEMMA JunctionSays ==
  ASSUME NEW op \in Junctions, NEW args, NEW m, InPlace(op, args, m), NEW e \in Places(op, args)
  PROVE  SaysYes(m, e) /\ SaysNo(m, TranslateNot(m, args), e)
<1> DEFINE y(i) == args[i].yes
           w(i) == args[i].no
           v(i) == At(args[i].val, e)
           lost == Lost(m, e, NullElement)
<1>1. DOMAIN args = 1 .. 2 /\ Well(op, args)
  BY InPlaceIs, WidthIs DEF Binary
<1>2. e \in Envs(ElementEnvs, m.scope) /\ m.scope = ScopeOf(args) /\ m.val[e] = Evaluate(op, args, e)
  BY InPlaceIs
<1>3. op \notin Guarded /\ op \notin SetOperations \union {"value", "not"}
  BY DEF Junctions, Guarded, SetOperations
<1>4. ASSUME NEW i \in 1 .. 2
      PROVE  /\ v(i) \in Tri
             /\ Runs(y(i)) => /\ y(i).match[e] => v(i) = True
                              /\ v(i) = True => y(i).match[e] \/ lost
             /\ Runs(w(i)) => /\ w(i).match[e] => v(i) = False
                              /\ v(i) = False => w(i).match[e] \/ lost
  <2>1. i \in DOMAIN args
    BY <1>1
  <2>2. v(i) \in Plain
    BY <1>1, <1>2, <2>1, WellOperand
  <2>3. HasOverload(op, args, e)
    <3>1. "mistyped" \notin Admitted /\ AdmittedShape(op, args)
      BY DEF InPlace, Expression
    <3>2. e \in EnvsOf(ScopeOf(args))
      BY <1>2 DEF EnvsOf, Envs
    <3> QED BY <3>1, <3>2 DEF AdmittedShape
  <2>4. IsTri(v(i))
    BY <2>1, <2>3, OverloadIs
  <2>5. v(i) \in Tri
    BY <2>2, <2>4, ConditionValue
  <2>6. CASE args[i].kind = "value"
    <3>1. y(i).throws /\ w(i).throws
      BY <2>1, <2>6, OperandSays
    <3> QED BY <2>5, <3>1 DEF Runs
  <2>7. CASE args[i].kind # "value"
    <3>1. args[i].shape \notin Lists /\ args[i].kind \notin SetOperations
      <4>1. op \notin Equalities
        BY DEF Junctions, Equalities
      <4> QED BY <1>1, <2>1, <4>1, ScalarOperands
    <3>2. args[i].scope = m.scope /\ v(i) = args[i].val[e] /\ At(args[i].guard, e) = args[i].guard[e]
      BY <2>1, <2>7, OperandSays
    <3>3. /\ Allows(y(i), e, v(i), Lost(args[i], e, NullElement), args[i].scope = "root")
          /\ Denies(w(i), e, v(i), Lost(args[i], e, NullElement))
      BY <2>1, <2>7, <3>1, <3>2, OperandSays
    <3>4. Lost(args[i], e, NullElement) => lost
      <4>1. m.guard[e] => At(args[i].guard, e)
        BY <1>3, <2>1, InPlaceGuard DEF Guards
      <4> QED BY <3>2, <4>1 DEF Lost
    <3> QED BY <2>4, <2>5, <3>3, <3>4 DEF Allows, Denies
  <2> QED BY <2>6, <2>7
<1>5. /\ m.yes = Join(op, m.scope, Positive(args))
      /\ TranslateNot(m, args) = Join(Dual(op), m.scope, Negative(args))
  <2>1. m.yes = BuildFilter(op, args, m.agg, m.aggThrows) /\ m.kind = op
    BY InPlaceIs
  <2>2. ~OuterReference(op, args)
    BY DEF InPlace
  <2> QED BY <1>2, <2>1, <2>2, BuildIs DEF TranslateNot
<1>6. /\ DOMAIN Positive(args) = 1 .. 2 /\ \A i \in 1 .. 2 : Positive(args)[i] = y(i)
      /\ DOMAIN Negative(args) = 1 .. 2 /\ \A i \in 1 .. 2 : Negative(args)[i] = w(i)
  BY <1>1 DEF Positive, Negative
<1>7. /\ op = "and" => m.val[e] = Junction(FALSE, {v(1), v(2)})
      /\ op = "or" => m.val[e] = Junction(TRUE, {v(1), v(2)})
  <2>1. {At(args[i].val, e) : i \in DOMAIN args} = {v(1), v(2)}
    BY <1>1
  <2>2. op = "and" => Evaluate(op, args, e) = Junction(FALSE, {At(args[i].val, e) : i \in DOMAIN args})
    BY DEF Evaluate, Comparisons, Equalities, Orderings, ConditionalLists, Folds
  <2>3. op = "or" => Evaluate(op, args, e) = Junction(TRUE, {At(args[i].val, e) : i \in DOMAIN args})
    BY DEF Evaluate, Comparisons, Equalities, Orderings, ConditionalLists, Folds
  <2> QED BY <1>2, <2>1, <2>2, <2>3
<1>8. v(1) \in Tri /\ v(2) \in Tri
  BY <1>4
<1> HIDE DEF y, w, v, lost
<1>9. /\ m.val[e] \in Tri
      /\ op = "and" => /\ m.val[e] = True <=> v(1) = True /\ v(2) = True
                       /\ m.val[e] = False <=> v(1) = False \/ v(2) = False
      /\ op = "or" => /\ m.val[e] = True <=> v(1) = True \/ v(2) = True
                      /\ m.val[e] = False <=> v(1) = False /\ v(2) = False
  <2>1. {v(1), v(2)} \subseteq Plain
    BY <1>8, TriPlain
  <2>2. PICK S : S = {v(1), v(2)}
    OBVIOUS
  <2>3. CASE op = "and"
    <3>1. m.val[e] = Junction(FALSE, S)
      BY <1>7, <2>2, <2>3
    <3>2. /\ m.val[e] \in Tri /\ (m.val[e] = Bool(FALSE) <=> Bool(FALSE) \in S)
          /\ m.val[e] = Bool(~FALSE) <=> \A x \in S : x = Bool(~FALSE)
      BY <2>1, <2>2, <3>1, JunctionIs
    <3> QED BY <2>2, <2>3, <3>2 DEF Bool
  <2>4. CASE op = "or"
    <3>1. m.val[e] = Junction(TRUE, S)
      BY <1>7, <2>2, <2>4
    <3>2. /\ m.val[e] \in Tri /\ (m.val[e] = Bool(TRUE) <=> Bool(TRUE) \in S)
          /\ m.val[e] = Bool(~TRUE) <=> \A x \in S : x = Bool(~TRUE)
      BY <2>1, <2>2, <3>1, JunctionIs
    <3> QED BY <2>2, <2>4, <3>2 DEF Bool
  <2> QED BY <2>3, <2>4 DEF Junctions
<1>10. /\ ~m.yes.throws => ~y(1).throws /\ ~y(2).throws
       /\ Runs(m.yes) => Runs(y(1)) /\ Runs(y(2))
       /\ ~m.yes.throws /\ op = "and" => (m.yes.match[e] <=> y(1).match[e] /\ y(2).match[e])
       /\ ~m.yes.throws /\ op = "or" => (m.yes.match[e] <=> y(1).match[e] \/ y(2).match[e])
  <2>1. /\ m.yes.throws <=> \E i \in 1 .. 2 : y(i).throws
        /\ ~m.yes.throws => /\ m.yes.aborts <=> \E i \in 1 .. 2 : y(i).aborts
                            /\ op = "and" => (m.yes.match[e] <=> \A i \in 1 .. 2 : y(i).match[e])
                            /\ op # "and" => (m.yes.match[e] <=> \E i \in 1 .. 2 : y(i).match[e])
    <3>1. PICK s : s = Positive(args)
      OBVIOUS
    <3>2. m.yes = Join(op, m.scope, s) /\ DOMAIN s = 1 .. 2 /\ \A i \in 1 .. 2 : s[i] = y(i)
      BY <1>5, <1>6, <3>1
    <3>3. /\ m.yes.throws <=> \E i \in DOMAIN s : s[i].throws
          /\ ~m.yes.throws =>
               /\ m.yes.aborts <=> \E i \in DOMAIN s : s[i].aborts
               /\ op = "and" => (m.yes.match[e] <=> \A i \in DOMAIN s : s[i].match[e])
               /\ op # "and" => (m.yes.match[e] <=> \E i \in DOMAIN s : s[i].match[e])
      BY <1>2, <3>2, JoinIs
    <3> QED BY <3>2, <3>3
  <2> QED BY <2>1 DEF Runs
<1>11. LET f == TranslateNot(m, args) IN
       /\ Runs(f) => Runs(w(1)) /\ Runs(w(2))
       /\ ~f.throws /\ op = "or" => (f.match[e] <=> w(1).match[e] /\ w(2).match[e])
       /\ ~f.throws /\ op = "and" => (f.match[e] <=> w(1).match[e] \/ w(2).match[e])
  <2>1. PICK f : f = TranslateNot(m, args)
    OBVIOUS
  <2>2. PICK s : s = Negative(args)
    OBVIOUS
  <2>3. f = Join(Dual(op), m.scope, s) /\ DOMAIN s = 1 .. 2 /\ \A i \in 1 .. 2 : s[i] = w(i)
    BY <1>5, <1>6, <2>1, <2>2
  <2>4. (op = "and" => Dual(op) = "or") /\ (op = "or" => Dual(op) = "and")
    BY DEF Dual
  <2>5. /\ f.throws <=> \E i \in DOMAIN s : s[i].throws
        /\ ~f.throws =>
             /\ f.aborts <=> \E i \in DOMAIN s : s[i].aborts
             /\ Dual(op) = "and" => (f.match[e] <=> \A i \in DOMAIN s : s[i].match[e])
             /\ Dual(op) # "and" => (f.match[e] <=> \E i \in DOMAIN s : s[i].match[e])
    BY <1>2, <2>3, JoinIs
  <2>6. /\ f.throws <=> w(1).throws \/ w(2).throws
        /\ ~f.throws =>
             /\ f.aborts <=> w(1).aborts \/ w(2).aborts
             /\ Dual(op) = "and" => (f.match[e] <=> w(1).match[e] /\ w(2).match[e])
             /\ Dual(op) # "and" => (f.match[e] <=> w(1).match[e] \/ w(2).match[e])
    BY <2>3, <2>5
  <2> QED BY <2>1, <2>4, <2>6 DEF Runs
<1>12. Allows(m.yes, e, m.val[e], lost, m.scope = "root")
  <2>1. SUFFICES ASSUME Runs(m.yes) PROVE (m.yes.match[e] => m.val[e] = True) /\ (m.val[e] = True => m.yes.match[e] \/ lost)
    BY DEF Allows
  <2>2. Runs(y(1)) /\ Runs(y(2)) /\ ~m.yes.throws
    BY <1>10, <2>1 DEF Runs
  <2>3. /\ y(1).match[e] => v(1) = True
        /\ y(2).match[e] => v(2) = True
        /\ v(1) = True => y(1).match[e] \/ lost
        /\ v(2) = True => y(2).match[e] \/ lost
    BY <1>4, <2>2
  <2> QED BY <1>9, <1>10, <2>2, <2>3 DEF Junctions
<1>13. Denies(TranslateNot(m, args), e, m.val[e], lost)
  <2>1. PICK f : f = TranslateNot(m, args)
    OBVIOUS
  <2>2. SUFFICES ASSUME Runs(f) PROVE (f.match[e] => m.val[e] = False) /\ (m.val[e] = False => f.match[e] \/ lost)
    BY <2>1 DEF Denies
  <2>3. Runs(w(1)) /\ Runs(w(2)) /\ ~f.throws
    BY <1>11, <2>1, <2>2 DEF Runs
  <2>4. /\ w(1).match[e] => v(1) = False
        /\ w(2).match[e] => v(2) = False
        /\ v(1) = False => w(1).match[e] \/ lost
        /\ v(2) = False => w(2).match[e] \/ lost
    BY <1>4, <2>3
  <2> QED BY <1>9, <1>11, <2>1, <2>3, <2>4 DEF Junctions
<1> QED BY <1>12, <1>13 DEF SaysYes, SaysNo, lost

\* What the filters of an operand say of its value, in an environment of the expression.
Tells(n, v, e, lost) ==
  /\ Runs(n.yes) => /\ n.yes.match[e] => v = True
                    /\ v = True => n.yes.match[e] \/ lost
  /\ Runs(n.no) => /\ n.no.match[e] => v = False
                   /\ v = False => n.no.match[e] \/ lost

\* An operand read as a condition.
LEMMA ConditionOperand ==
  ASSUME NEW op \in Junctions \union ConditionalLists \union {"not"}, NEW args, NEW m, InPlace(op, args, m),
         NEW i \in DOMAIN args, NEW e \in Places(op, args)
  PROVE  /\ At(args[i].val, e) \in Tri
         /\ Tells(args[i], At(args[i].val, e), e, Lost(m, e, NullElement))
         /\ args[i].shape \notin Lists /\ args[i].kind \notin SetOperations
<1>1. PICK v : v = At(args[i].val, e)
  OBVIOUS
<1>2. e \in Envs(ElementEnvs, m.scope) /\ m.scope = ScopeOf(args) /\ Well(op, args)
  BY InPlaceIs
<1>3. op \notin Guarded /\ op \notin Equalities /\ op \notin Comparisons
  BY DEF Junctions, ConditionalLists, Guarded, Comparisons, Equalities, Orderings
<1>4. v \in Plain
  BY <1>1, <1>2, WellOperand
<1>5. HasOverload(op, args, e)
  <2>1. "mistyped" \notin Admitted /\ AdmittedShape(op, args)
    BY DEF InPlace, Expression
  <2>2. e \in EnvsOf(ScopeOf(args))
    BY <1>2 DEF EnvsOf, Envs
  <2> QED BY <2>1, <2>2 DEF AdmittedShape
<1>6. IsTri(v)
  <2>1. CASE op \in Junctions \union {"not"}
    BY <1>1, <1>5, <2>1, OverloadIs
  <2>2. CASE op \in ConditionalLists
    <3>1. i = 1
      BY <1>2, <2>2, WidthIs
    <3>2. IsTri(At(args[1].val, e))
      BY <1>5, <2>2, OverloadIs
    <3> QED BY <1>1, <3>1, <3>2
  <2> QED BY <2>1, <2>2
<1>7. v \in Tri
  BY <1>4, <1>6, ConditionValue
<1>8. args[i].shape \notin Lists /\ args[i].kind \notin SetOperations
  BY <1>2, <1>3, ScalarOperands
<1>9. Tells(args[i], v, e, Lost(m, e, NullElement))
  <2>1. CASE args[i].kind = "value"
    <3>1. args[i].yes.throws /\ args[i].no.throws
      BY <2>1, OperandSays
    <3> QED BY <3>1 DEF Tells, Runs
  <2>2. CASE args[i].kind # "value"
    <3>1. args[i].scope = m.scope /\ v = args[i].val[e] /\ At(args[i].guard, e) = args[i].guard[e]
      BY <1>1, <2>2, OperandSays
    <3>2. /\ Allows(args[i].yes, e, v, Lost(args[i], e, NullElement), args[i].scope = "root")
          /\ Denies(args[i].no, e, v, Lost(args[i], e, NullElement))
      BY <1>8, <2>2, <3>1, OperandSays
    <3>3. Lost(args[i], e, NullElement) => Lost(m, e, NullElement)
      <4>1. m.guard[e] => At(args[i].guard, e)
        BY <1>3, InPlaceGuard DEF Guards
      <4> QED BY <3>1, <4>1 DEF Lost
    <3> QED BY <1>6, <3>2, <3>3 DEF Allows, Denies, Tells
  <2> QED BY <2>1, <2>2
<1> QED BY <1>1, <1>7, <1>8, <1>9

\* Some filter of the expression can be built only if one of each operand can.
Covered(m, args) ==
  ~m.yes.throws \/ ~TranslateNot(m, args).throws =>
    \A i \in DOMAIN args : args[i].kind \in {"value", "variable"} \/ ~args[i].yes.throws \/ ~args[i].no.throws

\* What the filters of an expression say in the environments it stands in.
Says(m, args, e) == SaysYes(m, e) /\ SaysNo(m, TranslateNot(m, args), e)

LEMMA NotSays ==
  ASSUME NEW args, NEW m, InPlace("not", args, m)
  PROVE  Covered(m, args) /\ \A e \in Places("not", args) : Says(m, args, e)
<1>1. DOMAIN args = 1 .. 1
  BY InPlaceIs, WidthIs
<1>2. 1 \in DOMAIN args /\ \A i \in DOMAIN args : i = 1
  BY <1>1
<1>3. m.yes = args[1].no /\ TranslateNot(m, args) = args[1].yes
  <2>1. m.yes = BuildFilter("not", args, m.agg, m.aggThrows) /\ m.kind = "not"
    BY InPlaceIs
  <2>2. ~OuterReference("not", args)
    BY DEF InPlace
  <2> QED BY <2>1, <2>2, BuildIs DEF TranslateNot, Junctions
<1>4. ASSUME NEW e \in Places("not", args) PROVE Says(m, args, e)
  <2>1. PICK v : v = At(args[1].val, e)
    OBVIOUS
  <2>2. v \in Tri /\ Tells(args[1], v, e, Lost(m, e, NullElement))
    BY <1>2, <2>1, ConditionOperand
  <2>3. m.val[e] = Not(v)
    BY <2>1, InPlaceIs, EvaluateIs
  <2>4. (m.val[e] = True <=> v = False) /\ (m.val[e] = False <=> v = True)
    BY <2>2, <2>3, NotIs, TriPlain
  <2> QED BY <1>3, <2>2, <2>4 DEF Says, SaysYes, SaysNo, Allows, Denies, Tells
<1> QED BY <1>2, <1>3, <1>4 DEF Covered

LEMMA JunctionCovered ==
  ASSUME NEW op \in Junctions, NEW args, NEW m, InPlace(op, args, m)
  PROVE  Covered(m, args)
<1>1. m.yes = Join(op, m.scope, Positive(args)) /\ TranslateNot(m, args) = Join(Dual(op), m.scope, Negative(args))
  <2>1. m.yes = BuildFilter(op, args, m.agg, m.aggThrows) /\ m.kind = op /\ m.scope = ScopeOf(args)
    BY InPlaceIs
  <2>2. ~OuterReference(op, args)
    BY DEF InPlace
  <2> QED BY <2>1, <2>2, BuildIs DEF TranslateNot
<1>2. /\ DOMAIN Positive(args) = DOMAIN args /\ \A i \in DOMAIN args : Positive(args)[i] = args[i].yes
      /\ DOMAIN Negative(args) = DOMAIN args /\ \A i \in DOMAIN args : Negative(args)[i] = args[i].no
  BY DEF Positive, Negative
<1>3. m.yes.throws <=> \E i \in DOMAIN args : args[i].yes.throws
  <2>1. PICK s : s = Positive(args)
    OBVIOUS
  <2>2. m.yes.throws <=> \E i \in DOMAIN s : s[i].throws
    BY <1>1, <2>1, JoinIs
  <2> QED BY <1>2, <2>1, <2>2
<1>4. TranslateNot(m, args).throws <=> \E i \in DOMAIN args : args[i].no.throws
  <2>1. PICK s : s = Negative(args)
    OBVIOUS
  <2>2. TranslateNot(m, args).throws <=> \E i \in DOMAIN s : s[i].throws
    BY <1>1, <2>1, JoinIs
  <2> QED BY <1>2, <2>1, <2>2
<1> QED BY <1>3, <1>4 DEF Covered

\* The operators whose negation is a $nor, whatever their operands.
LEMMA NorOf ==
  ASSUME NEW op, NEW args, NEW m, InPlace(op, args, m)
  PROVE  /\ op \in {"if", "startsWith", "matches", "add", "div", "mod", "size", "index"} \union ConditionalLists \union Folds
              => TranslateNot(m, args) = Nor(m)
         /\ op \in Equalities /\ ~(\E i \in 1 .. 2 : EmptinessTest(args, i)) => TranslateNot(m, args) = Nor(m)
<1>1. m.kind = op /\ ~OuterReference(op, args)
  BY InPlaceIs DEF InPlace
<1>2. op \in {"if", "startsWith", "matches", "add", "div", "mod", "size", "index"} \union ConditionalLists \union Folds
        => TranslateNot(m, args) = Nor(m)
  BY <1>1 DEF TranslateNot, Junctions, SetOperations, Equalities, Orderings, ConditionalLists, Folds
<1>3. op \in Equalities /\ ~(\E i \in 1 .. 2 : EmptinessTest(args, i)) => TranslateNot(m, args) = Nor(m)
  BY <1>1 DEF TranslateNot, Junctions, SetOperations, Equalities, Orderings
<1> QED BY <1>2, <1>3

\* A $nor is refused with the filter it negates.
LEMMA NorRefused == ASSUME NEW n, n.yes.throws \/ n.kind \in Macros \union Folds PROVE Nor(n).throws /\ ~Runs(Nor(n))
BY RefusalIs DEF Nor, RefusedIf, Runs

\* A filter that is computed in the pipeline.
Computed(op, args, m, e) ==
  /\ HasOverload(op, args, e) /\ \A i \in DOMAIN args : args[i].typed
  /\ Runs(m.yes) => /\ ~m.aggThrows /\ m.agg[e] # Err
                    /\ m.yes.match[e] => Guards(args, e) /\ m.agg[e] = True
                    /\ Guards(args, e) /\ m.agg[e] = True => m.yes.match[e]

LEMMA ComputedIs ==
  ASSUME NEW op \in Answers \ (SetOperations \union {"in", "hasIntersection"}), NEW args, NEW m, InPlace(op, args, m),
         NEW e \in Places(op, args), Computed(op, args, m, e), Runs(m.yes)
  PROVE  /\ m.guard[e] => m.val[e] # Err /\ m.agg[e] = m.val[e] /\ (m.val[e] = True => m.yes.match[e])
         /\ m.yes.match[e] => m.val[e] = True /\ m.guard[e]
         /\ m.listShape[e]
<1>1. /\ m.agg[e] = Aggregate(op, args, Inputs(args, e))
      /\ m.guard[e] <=> Guards(args, e) /\ OwnGuard(op, Inputs(args, e), m.agg[e])
      /\ m.aggThrows <=> AggregateThrows(op, args)
      /\ m.listShape[e] <=> \A i \in ListsRead(op, args) : IsCollection(At(args[i].agg, e))
  BY InPlaceGuard
<1>2. m.listShape[e]
  BY <1>1 DEF ListsRead
<1>3. e \in Envs(ElementEnvs, ScopeOf(args)) /\ Well(op, args) /\ m.val[e] = Evaluate(op, args, e)
  BY InPlaceIs
<1>4. /\ ~m.aggThrows /\ m.agg[e] # Err /\ HasOverload(op, args, e) /\ \A i \in DOMAIN args : args[i].typed
      /\ m.yes.match[e] => Guards(args, e) /\ m.agg[e] = True
      /\ Guards(args, e) /\ m.agg[e] = True => m.yes.match[e]
  BY DEF Computed
<1>5. ASSUME m.guard[e] PROVE m.val[e] # Err /\ m.agg[e] = m.val[e]
  <2>1. Reading(op, args, e)
    BY <1>1, <1>3, <1>4, <1>5 DEF Reading, Computable, Guards
  <2>2. OwnGuard(op, Inputs(args, e), Aggregate(op, args, Inputs(args, e)))
    BY <1>1, <1>5
  <2>3. Computes(Aggregate(op, args, Inputs(args, e)), Evaluate(op, args, e))
    BY <2>1, <2>2, Agreement
  <2> QED BY <1>1, <1>3, <1>4, <2>3 DEF Computes
<1>6. ASSUME m.yes.match[e] PROVE m.guard[e]
  <2>1. Guards(args, e) /\ m.agg[e] = True
    BY <1>4, <1>6
  <2>2. CASE op \notin Guarded
    BY <2>1, <2>2, InPlaceGuard
  <2>3. CASE op = "startsWith"
    BY <1>1, <2>1, <2>3, Constants DEF OwnGuard
  <2>4. CASE op = "matches"
    <3>1. DOMAIN args = 1 .. 2
      BY <1>3, <2>4, WidthIs DEF Binary
    <3>2. 1 \in DOMAIN args /\ Inputs(args, e)[1] = At(args[1].agg, e)
      BY <3>1 DEF Inputs
    <3>3. PICK vals : vals = Inputs(args, e)
      OBVIOUS
    <3>4. m.agg[e] = Aggregate("matches", args, vals)
      BY <1>1, <2>4, <3>3
    <3>5. \A i \in DOMAIN vals : vals[i] # Err
      BY <1>4, <3>4, AggregateFails DEF Junctions
    <3>6. m.agg[e] = IF Missing(vals[1]) THEN False ELSE StartsWith(vals[1], vals[2])
      BY <3>4, <3>5, AggregateIs
    <3>7. vals[1].t = "str"
      BY <2>1, <3>6, StartsIs, Constants
    <3> QED BY <1>1, <2>1, <2>4, <3>3, <3>7 DEF OwnGuard
  <2>5. op \notin {"size", "index"}
    BY DEF Answers, Junctions, Comparisons, Equalities, Orderings, ConditionalLists, Folds
  <2> QED BY <2>2, <2>3, <2>4, <2>5 DEF Guarded
<1> QED BY <1>2, <1>4, <1>5, <1>6, <1>1

\* What a filter that is computed in the pipeline says, and the $nor of it.
LEMMA ComputedSays ==
  ASSUME NEW op \in Answers \ (SetOperations \union {"in", "hasIntersection"}), NEW args, NEW m, InPlace(op, args, m),
         NEW e \in Places(op, args), Computed(op, args, m, e), Runs(m.yes) => m.scope = "root"
  PROVE  /\ SaysYes(m, e)
         /\ TranslateNot(m, args) = Nor(m) /\ (m.scope = "element" => m.yes.throws) => SaysNo(m, TranslateNot(m, args), e)
<1>1. /\ Runs(m.yes) /\ m.guard[e] => m.val[e] # Err /\ m.agg[e] = m.val[e] /\ (m.val[e] = True => m.yes.match[e])
      /\ Runs(m.yes) /\ m.yes.match[e] => m.val[e] = True /\ m.guard[e]
      /\ Runs(m.yes) => m.listShape[e]
  BY ComputedIs
<1>2. SaysYes(m, e)
  BY <1>1, Constants DEF SaysYes, Allows, Lost
<1>3. ASSUME TranslateNot(m, args) = Nor(m), m.scope = "element" => m.yes.throws PROVE SaysNo(m, TranslateNot(m, args), e)
  <2>1. Runs(m.yes) => /\ m.guard[e] /\ m.listShape[e] => m.val[e] # Err
                       /\ m.guard[e] /\ m.listShape[e] /\ m.val[e] = True => m.yes.match[e]
                       /\ m.val[e] = False => ~m.yes.match[e] /\ m.listShape[e]
    BY <1>1, Constants
  <2>2. m.scope = "element" /\ ~m.exprGuard /\ ~m.yes.throws => m.guard[e] \/ NullElement
    BY <1>3
  <2> QED BY <1>3, <2>1, <2>2, NorSays
<1> QED BY <1>2, <1>3

(* Comparisons *)

\* Whether a collection is the empty list.
LEMMA EmptyCompares ==
  ASSUME NEW op \in Equalities, NEW x \in Plain, x.t \in {"list", "error"}, NEW y \in Plain, IsEmpty(y),
         NEW z, z = CompareValues(op, x, y) \/ z = CompareValues(op, y, x)
  PROVE  /\ op = "eq" => (z = True <=> IsEmpty(x)) /\ (z = False <=> Holds(x))
         /\ op = "ne" => (z = True <=> Holds(x)) /\ (z = False <=> IsEmpty(x))
<1>1. x \in Value /\ y \in Value /\ y # Err /\ op \in Comparisons
  BY PlainIs, ValueIs DEF IsEmpty, Comparisons
<1>2. x = y <=> IsEmpty(x)
  BY <1>1, ListIs DEF IsEmpty
<1>3. x = Err <=> ~IsEmpty(x) /\ ~Holds(x)
  BY <1>1, ValueIs DEF IsEmpty, Holds
<1>4. z \in Tri /\ (z = Err <=> x = Err) /\ (op = "eq" /\ z # Err => (z = True <=> x = y)) /\ (op = "ne" /\ z # Err => (z = True <=> x # y))
  <2>1. op \notin Orderings
    BY DEF Equalities, Orderings
  <2>2. CASE z = CompareValues(op, x, y)
    BY <1>1, <2>1, <2>2, CompareIs
  <2>3. CASE z = CompareValues(op, y, x)
    BY <1>1, <2>1, <2>3, CompareIs
  <2> QED BY <2>2, <2>3
<1>5. ~(IsEmpty(x) /\ Holds(x))
  BY DEF IsEmpty, Holds
<1>6. z = True \/ z = False \/ z = Err
  BY <1>4 DEF Tri
<1> QED BY <1>2, <1>3, <1>4, <1>5, <1>6, Constants

LEMMA EmptinessSays ==
  ASSUME NEW op \in Equalities, NEW args, NEW m, InPlace(op, args, m), \E i \in 1 .. 2 : EmptinessTest(args, i)
  PROVE  Covered(m, args) /\ m.scope = "root" /\ \A e \in Places(op, args) : Says(m, args, e)
<1>1. PICK j : j = CHOOSE i \in 1 .. 2 : EmptinessTest(args, i)
  OBVIOUS
<1>2. j \in 1 .. 2 /\ EmptinessTest(args, j)
  BY <1>1
<1>3. DOMAIN args = 1 .. 2 /\ Well(op, args) /\ m.kind = op /\ op \in Comparisons
      /\ m.yes = BuildFilter(op, args, m.agg, m.aggThrows)
  BY InPlaceIs, WidthIs DEF Binary, Comparisons
<1>4. PICK n : n = args[j]
  OBVIOUS
<1>5. PICK k : k = 3 - j
  OBVIOUS
<1>6. k \in DOMAIN args /\ j \in DOMAIN args /\ {j, k} = {1, 2}
  BY <1>2, <1>3, <1>5
<1>7. n.kind \in SetOperations /\ args[k].kind = "value" /\ IsEmpty(args[k].lit)
  BY <1>2, <1>4, <1>5 DEF EmptinessTest, IsEmptyList, IsEmpty
<1>8. n.kind # "value" /\ op \notin Junctions /\ op # "not" /\ op \notin SetOperations \union {"in", "hasIntersection", "isSubset"}
  BY <1>7 DEF SetOperations, Equalities, Junctions
<1>9. NodeOK(n) /\ SetProven(n, NullElement)
  <2>1. NodeOK(n) /\ Admitted = {}
    BY <1>3, <1>4, <1>6 DEF InPlace, Expression, Well
  <2> QED BY <1>7, <2>1 DEF NodeOK, NodeFine, ReadsFine
<1>10. n.scope = "root"
  BY <1>9 DEF SetProven
<1>11. ASSUME NEW e \in Places(op, args)
       PROVE /\ n.scope = m.scope /\ At(n.val, e) = n.val[e] /\ At(n.guard, e) = n.guard[e] /\ e \in Envs(ElementEnvs, n.scope)
  BY <1>4, <1>6, <1>8, OperandSays
<1>12. m.scope = "root" /\ Places(op, args) = {Root}
  <2>1. m.scope = ScopeOf(args) /\ m.scope \in {"root", "element"} /\ Places(op, args) = Envs(ElementEnvs, m.scope)
    BY InPlaceIs
  <2>2. ScopeOf(args) = "root"
    <3>1. args[3 - j].kind = "value"
      BY <1>5, <1>7
    <3> QED BY <1>2, <1>3, <1>4, <1>10, <3>1, SoleScope
  <2> QED BY <2>1, <2>2 DEF Envs
<1>13. ~OuterReference(op, args)
  BY DEF InPlace
<1>14. m.yes = IF op = "eq" THEN n.yes ELSE n.no
  <2>1. m.yes = TranslateComparison(op, args, m.agg)
    BY <1>3, <1>13, BuildIs
  <2> QED BY <1>1, <1>2, <1>4, <2>1 DEF TranslateComparison
<1>15. TranslateNot(m, args) = IF op = "eq" THEN n.no ELSE n.yes
  <2>1. PICK q : q = IF op = "eq" THEN "ne" ELSE "eq"
    OBVIOUS
  <2>2. TranslateNot(m, args) = TranslateComparison(q, args, m.agg)
    BY <1>2, <1>3, <1>8, <1>13, <2>1 DEF TranslateNot
  <2>3. q \in Equalities /\ (op = "eq" <=> q # "eq")
    BY <2>1 DEF Equalities
  <2>4. TranslateComparison(q, args, m.agg) = IF q = "eq" THEN n.yes ELSE n.no
    BY <1>1, <1>2, <1>4, <2>3 DEF TranslateComparison
  <2> QED BY <2>2, <2>3, <2>4
<1>16. ASSUME NEW e \in Places(op, args) PROVE Says(m, args, e)
  <2>1. e = Root
    BY <1>12
  <2>2. PICK x : x = n.val[Root]
    OBVIOUS
  <2>3. At(n.val, e) = x
    BY <1>11, <2>1, <2>2
  <2>4. PICK y : y = args[k].lit
    OBVIOUS
  <2>5. At(args[k].val, e) = y
    BY <1>3, <1>6, <1>7, <2>4, InPlaceIs, WellOperand
  <2>6. x \in Plain /\ y \in Plain
    BY <1>3, <1>4, <1>6, <2>3, <2>5, InPlaceIs, WellOperand
  <2>7. x.t \in {"list", "error"}
    BY <1>9, <2>2 DEF SetProven
  <2>8. m.val[e] = CompareValues(op, x, y) \/ m.val[e] = CompareValues(op, y, x)
    <3>1. m.val[e] = CompareValues(op, At(args[1].val, e), At(args[2].val, e))
      BY <1>3, InPlaceIs, EvaluateIs
    <3> QED BY <1>4, <1>6, <2>3, <2>5, <3>1
  <2>9. /\ op = "eq" => (m.val[e] = True <=> IsEmpty(x)) /\ (m.val[e] = False <=> Holds(x))
        /\ op = "ne" => (m.val[e] = True <=> Holds(x)) /\ (m.val[e] = False <=> IsEmpty(x))
    <3>1. PICK z : z = m.val[e]
      OBVIOUS
    <3>2. z = CompareValues(op, x, y) \/ z = CompareValues(op, y, x)
      BY <2>8, <3>1
    <3>3. IsEmpty(y)
      BY <1>7, <2>4
    <3> QED BY <2>6, <2>7, <3>1, <3>2, <3>3, EmptyCompares
  <2>10. Lost(n, Root, NullElement) => Lost(m, e, NullElement)
    <3>1. m.guard[e] => n.guard[Root]
      <4>1. op \notin Guarded
        BY DEF Guarded, Equalities
      <4>2. m.guard[e] => At(n.guard, e)
        BY <1>4, <1>6, <4>1, InPlaceGuard DEF Guards
      <4> QED BY <1>11, <2>1, <4>2
    <3> QED BY <1>10, <1>12, <3>1 DEF Lost
  <2>11. /\ Runs(n.yes) => /\ n.yes.match[e] => IsEmpty(x)
                           /\ IsEmpty(x) => n.yes.match[e] \/ Lost(m, e, NullElement)
         /\ Runs(n.no) => /\ n.no.match[e] => Holds(x)
                          /\ Holds(x) => n.no.match[e] \/ Lost(m, e, NullElement)
    BY <1>9, <2>1, <2>2, <2>10 DEF SetProven
  <2>12. CASE op = "eq"
    <3>1. m.yes = n.yes /\ TranslateNot(m, args) = n.no
      BY <1>14, <1>15, <2>12
    <3> QED BY <2>9, <2>11, <2>12, <3>1 DEF Says, SaysYes, SaysNo, Allows, Denies
  <2>13. CASE op = "ne"
    <3>1. m.yes = n.no /\ TranslateNot(m, args) = n.yes
      BY <1>14, <1>15, <2>13
    <3> QED BY <2>9, <2>11, <2>13, <3>1 DEF Says, SaysYes, SaysNo, Allows, Denies
  <2> QED BY <2>12, <2>13 DEF Equalities
<1>17. Covered(m, args)
  <2>1. \A i \in DOMAIN args : i = j \/ i = k
    BY <1>3, <1>6
  <2> QED BY <1>4, <1>7, <1>14, <1>15, <2>1 DEF Covered
<1> QED BY <1>12, <1>16, <1>17

\* A field beside a constant.
Beside(args, i) == args[i].kind = "variable" /\ args[3 - i].kind = "value"

LEMMA LeafComparison ==
  ASSUME NEW op \in Comparisons, NEW args, NEW m, InPlace(op, args, m), NEW i \in 1 .. 2, Beside(args, i),
         args[3 - i].lit.t # "list", NEW q \in Comparisons, q = "ne" => op = "ne",
         NEW e \in Places(op, args)
  PROVE  LET f == TranslateComparison(q, args, m.agg) IN
         /\ f.throws \/ ~f.aborts
         /\ ~f.throws => (f.match[e] <=> CompareValues(q, At(args[1].val, e), At(args[2].val, e)) = True)
<1>1. DOMAIN args = 1 .. 2 /\ Well(op, args) /\ e \in Envs(ElementEnvs, ScopeOf(args))
  BY InPlaceIs, WidthIs DEF Binary
<1>2. PICK k : k = 3 - i
  OBVIOUS
<1>3. i \in DOMAIN args /\ k \in DOMAIN args /\ {i, k} = {1, 2} /\ args[i].kind = "variable" /\ args[k].kind = "value"
      /\ args[k].lit.t # "list"
  BY <1>1, <1>2 DEF Beside
<1>4. PICK field, lit : field = args[i] /\ lit = args[k].lit
  OBVIOUS
<1>5. NodeOK(field) /\ NodeOK(args[k])
  BY <1>1, <1>3, <1>4 DEF Well
<1>6. field.shape \notin Lists
  BY <1>1, <1>3, <1>4, ScalarOperands
<1>7. ScalarField(field)
  BY <1>3, <1>4, <1>5, <1>6 DEF ScalarField
<1>8. LeafConstant(lit)
  BY <1>3, <1>4, <1>5, Constants DEF LeafConstant, NodeOK, NodeFine, ValueFine
<1>9. At(field.val, e) = field.val[e] /\ e \in DOMAIN field.agg /\ At(args[k].val, e) = lit
  <2>1. At(field.val, e) = field.val[e] /\ e \in Envs(ElementEnvs, field.scope)
    BY <1>3, <1>4, OperandSays
  <2>2. At(args[k].val, e) = lit
    BY <1>1, <1>3, <1>4, WellOperand
  <2> QED BY <1>5, <2>1, <2>2, FiltersTyped
<1>10. ~(q = "ne" /\ field.shape = "one" /\ ~field.nullable)
  <2>1. SUFFICES ASSUME op = "ne" PROVE ~(field.shape = "one" /\ ~field.nullable)
    OBVIOUS
  <2>2. FieldAndConstant(args)
    BY <1>3 DEF FieldAndConstant
  <2>3. "absentParent" \notin Admitted /\ AdmittedShape(op, args)
    BY DEF InPlace, Expression
  <2>4. ~\E j \in 1 .. 2 : args[j].shape = "one" /\ ~args[j].nullable
    BY <2>1, <2>2, <2>3 DEF AdmittedShape
  <2> QED BY <1>4, <2>4
<1>11. PICK f, g : f = CompareConstant(q, field, lit) /\ g = CompareConstant(Mirrored(q), field, lit)
  OBVIOUS
<1>12. /\ ~f.aborts /\ ~g.aborts
       /\ ~f.throws => (f.match[e] <=> CompareValues(q, field.val[e], lit) = True)
       /\ ~g.throws => (g.match[e] <=> CompareValues(q, lit, field.val[e]) = True)
  BY <1>7, <1>8, <1>9, <1>10, <1>11, CompareLeaf
<1>13. ~(q \in Equalities /\ \E j \in 1 .. 2 : EmptinessTest(args, j))
  BY <1>3 DEF EmptinessTest, SetOperations
<1>14. ~\E j \in 1 .. 2 : args[j].kind = "variable" /\ args[3 - j].lit.t = "list"
  <2>1. SUFFICES ASSUME NEW j \in 1 .. 2, args[j].kind = "variable", args[3 - j].lit.t = "list" PROVE FALSE
    OBVIOUS
  <2>2. j = i
    BY <1>3, <2>1
  <2> QED BY <2>1, <2>2
<1>15. CASE i = 1
  <2>1. k = 2
    BY <1>2, <1>15
  <2>2. TranslateComparison(q, args, m.agg) = f
    BY <1>3, <1>4, <1>11, <1>13, <1>14, <1>15, <2>1 DEF TranslateComparison
  <2> QED BY <1>4, <1>9, <1>12, <1>15, <2>1, <2>2
<1>16. CASE i = 2
  <2>1. k = 1
    BY <1>2, <1>16
  <2>2. TranslateComparison(q, args, m.agg) = g
    BY <1>3, <1>4, <1>11, <1>13, <1>14, <1>16, <2>1 DEF TranslateComparison
  <2> QED BY <1>4, <1>9, <1>12, <1>16, <2>1, <2>2
<1> QED BY <1>15, <1>16

\* The types of two operands the translation takes for unorderable.
LEMMA Unorderable ==
  ASSUME NEW op \in Orderings, NEW args, Well(op, args), IsUnorderable(args), ~Mixed(args),
         NEW e \in Envs(ElementEnvs, ScopeOf(args))
  PROVE  CompareValues(op, At(args[1].val, e), At(args[2].val, e)) = Err
<1>1. DOMAIN args = 1 .. 2
  BY WidthIs DEF Binary, Comparisons
<1>2. PICK v, w : v = At(args[1].val, e) /\ w = At(args[2].val, e)
  OBVIOUS
<1>3. PICK s, t : s = args[1].type /\ t = args[2].type
  OBVIOUS
<1>4. s # t /\ s \in {"num", "str", "bool"} /\ t \in {"num", "str", "bool"}
  <2>1. NodeOK(args[1]) /\ NodeOK(args[2])
    BY <1>1, PairIs
  <2>2. s \in {"none", "num", "str", "bool", "mixed"} /\ t \in {"none", "num", "str", "bool", "mixed"}
    BY <1>3, <2>1 DEF NodeOK, NodeFine, NodeTyped
  <2> QED BY <1>3, <2>2 DEF IsUnorderable, Mixed
<1>5. v \in Plain /\ w \in Plain /\ v.t \in {s, "error", "null"} /\ w.t \in {t, "error", "null"}
  <2>1. 1 \in DOMAIN args /\ 2 \in DOMAIN args
    BY <1>1
  <2>2. args[1].shape \notin Lists /\ args[2].shape \notin Lists
    BY <2>1, ScalarOperands DEF Comparisons
  <2>3. v \in Plain /\ v.t \in {s, "error", "null"}
    BY <1>2, <1>3, <1>4, <2>1, <2>2, WellOperand
  <2>4. w \in Plain /\ w.t \in {t, "error", "null"}
    BY <1>2, <1>3, <1>4, <2>1, <2>2, WellOperand
  <2> QED BY <2>3, <2>4
<1>6. ~SameOrderedType(v, w)
  BY <1>4, <1>5 DEF SameOrderedType, IsNumeric
<1>7. op \in Comparisons
  BY DEF Comparisons
<1> QED BY <1>2, <1>5, <1>6, <1>7, CompareIs

\* The negation of an ordering.
LEMMA OrderingNegated ==
  ASSUME NEW op \in Orderings, NEW args, NEW m, InPlace(op, args, m)
  PROVE  /\ Mixed(args) => TranslateNot(m, args) = Refusal
         /\ ~Mixed(args) /\ IsUnorderable(args) => TranslateNot(m, args) = m.yes
         /\ ~Mixed(args) /\ ~IsUnorderable(args) /\ FieldAndConstant(args) =>
              TranslateNot(m, args) = TranslateComparison(Complemented(op), args, m.agg)
         /\ ~Mixed(args) /\ ~IsUnorderable(args) /\ ~FieldAndConstant(args) => TranslateNot(m, args) = Nor(m)
<1>1. m.kind = op /\ ~OuterReference(op, args)
  BY InPlaceIs DEF InPlace
<1>2. op \notin Junctions \union SetOperations \union Equalities \union {"not", "in", "hasIntersection", "isSubset"}
  BY DEF Junctions, SetOperations, Equalities, Orderings
<1> QED BY <1>1, <1>2 DEF TranslateNot

\* A scalar attribute whose guards hold is there.
LEMMA GuardedAttribute ==
  ASSUME NEW n, NEW x, NEW v, NEW g, CellFine(n, x, v, g), n.shape \notin Lists, g = TRUE
  PROVE  v # Err
<1>1. x # Err /\ v = IF x = Undefined \/ (n.nullable /\ x = Null) THEN Err ELSE x
  BY Constants DEF CellFine, Cells
<1>2. n.nullable => ~Missing(x)
  BY DEF CellFine, VariableGuard
<1>3. n.shape = "one" => x # Undefined
  BY DEF CellFine, VariableGuard
<1>4. x = Undefined /\ ~n.nullable => n.shape = "one"
  BY DEF CellFine, Lists
<1> QED BY <1>1, <1>2, <1>3, <1>4 DEF Missing

LEMMA LeafComparisonSays ==
  ASSUME NEW op \in Comparisons, NEW args, NEW m, InPlace(op, args, m), NEW i \in 1 .. 2, Beside(args, i)
  PROVE  Covered(m, args) /\ \A e \in Places(op, args) : Says(m, args, e)
<1>1. /\ DOMAIN args = 1 .. 2 /\ Well(op, args) /\ m.kind = op /\ ~OuterReference(op, args)
      /\ m.yes = BuildFilter(op, args, m.agg, m.aggThrows)
  BY InPlaceIs, WidthIs DEF Binary, InPlace
<1>2. args[i].kind = "variable" /\ args[3 - i].kind = "value" /\ 3 - i \in 1 .. 2
  BY DEF Beside
<1>3. \A j \in 1 .. 2 : j = i \/ j = 3 - i
  OBVIOUS
<1>4. Covered(m, args)
  BY <1>1, <1>2, <1>3 DEF Covered
<1>5. FieldAndConstant(args)
  BY <1>2, <1>3 DEF FieldAndConstant
<1>6. ~\E j \in 1 .. 2 : EmptinessTest(args, j)
  BY <1>2, <1>3 DEF EmptinessTest, SetOperations
<1>7. m.yes = TranslateComparison(op, args, m.agg)
  BY <1>1, BuildIs
<1>8. SUFFICES ASSUME NEW e \in Places(op, args) PROVE Says(m, args, e)
  BY <1>4
<1>9. PICK v, w : v = At(args[1].val, e) /\ w = At(args[2].val, e)
  OBVIOUS
<1>10. e \in Envs(ElementEnvs, ScopeOf(args)) /\ v \in Plain /\ w \in Plain
  BY <1>1, <1>9, InPlaceIs, WellOperand
<1>11. m.val[e] = CompareValues(op, v, w) /\ m.val[e] \in Tri
  BY <1>9, <1>10, InPlaceIs, EvaluateIs, CompareIs
<1>12. CASE args[3 - i].lit.t = "list"
  <2>1. m.yes.throws
    <3>1. m.yes = Refusal
      BY <1>2, <1>6, <1>7, <1>12 DEF TranslateComparison
    <3> QED BY <3>1, RefusalIs
  <2>2. ~Runs(TranslateNot(m, args))
    <3>1. CASE op \in Equalities
      BY <1>6, <2>1, <3>1, NorOf, NorRefused
    <3>2. CASE op \in Orderings
      <4>1. TranslateComparison(Complemented(op), args, m.agg) = Refusal
        <5>1. Complemented(op) \notin Equalities
          BY <3>2 DEF Complemented, Equalities, Orderings
        <5> QED BY <1>2, <1>12, <5>1 DEF TranslateComparison
      <4>2. ~Runs(Refusal) /\ ~Runs(m.yes)
        BY <2>1, RefusalIs DEF Runs
      <4> QED BY <1>5, <3>2, <4>1, <4>2, OrderingNegated
    <3> QED BY <3>1, <3>2 DEF Comparisons
  <2> QED BY <2>1, <2>2 DEF Says, SaysYes, SaysNo, Allows, Denies, Runs
<1>13. CASE args[3 - i].lit.t # "list"
  <2>1. /\ m.yes.throws \/ ~m.yes.aborts
        /\ ~m.yes.throws => (m.yes.match[e] <=> m.val[e] = True)
    <3>1. PICK f : f = TranslateComparison(op, args, m.agg)
      OBVIOUS
    <3>2. /\ f.throws \/ ~f.aborts
          /\ ~f.throws => (f.match[e] <=> CompareValues(op, v, w) = True)
      BY <1>9, <1>13, <3>1, LeafComparison
    <3> QED BY <1>7, <1>11, <3>1, <3>2
  <2>2. SaysYes(m, e)
    BY <2>1 DEF SaysYes, Allows, Runs
  <2>3. CASE op \in Equalities
    <3>1. TranslateNot(m, args) = Nor(m)
      BY <1>6, <2>3, NorOf
    <3>2. Guards(args, e) => m.val[e] # Err
      <4>1. SUFFICES ASSUME Guards(args, e) PROVE v # Err /\ w # Err
        <5>1. op \notin Orderings
          BY <2>3 DEF Equalities, Orderings
        <5> QED BY <1>10, <1>11, <5>1, CompareIs
      <4>2. args[i].shape \notin Lists
        BY <1>1, ScalarOperands
      <4>3. At(args[i].val, e) # Err
        <5>1. i \in DOMAIN args /\ At(args[i].guard, e)
          BY <1>1, <4>1 DEF Guards
        <5>2. NodeOK(args[i]) /\ CellFine(args[i], At(args[i].agg, e), At(args[i].val, e), At(args[i].guard, e))
          BY <1>1, <1>2, <1>10, <5>1, WellOperand
        <5>3. At(args[i].guard, e) = TRUE
          BY <1>1, <1>10, <5>1, WellOperand
        <5> QED BY <4>2, <5>2, <5>3, GuardedAttribute
      <4>4. At(args[3 - i].val, e) # Err
        <5>1. 3 - i \in DOMAIN args
          BY <1>1
        <5>2. At(args[3 - i].val, e) = args[3 - i].lit /\ NodeOK(args[3 - i])
          BY <1>1, <1>2, <1>10, <5>1, WellOperand
        <5>3. args[3 - i].lit # Err
          BY <1>2, <5>2, Constants DEF NodeOK, NodeFine, ValueFine
        <5> QED BY <5>2, <5>3
      <4> QED BY <1>3, <1>9, <4>3, <4>4
    <3>3. op \notin Guarded /\ ListsRead(op, args) = {}
      BY <2>3 DEF Equalities, Guarded, ListsRead
    <3>4. m.listShape[e] /\ (m.guard[e] <=> Guards(args, e))
      BY <3>3, InPlaceGuard
    <3>5. Runs(m.yes) => /\ m.guard[e] /\ m.listShape[e] => m.val[e] # Err
                         /\ m.guard[e] /\ m.listShape[e] /\ m.val[e] = True => m.yes.match[e]
                         /\ m.val[e] = False => ~m.yes.match[e] /\ m.listShape[e]
      BY <2>1, <3>2, <3>4, Constants DEF Runs
    <3>6. m.scope = "element" /\ ~m.exprGuard /\ ~m.yes.throws => m.guard[e] \/ NullElement
      <4>1. m.scope = "element" => e \in ElementEnvs
        BY <1>10, InPlaceIs DEF Envs
      <4> QED BY <1>1, <1>2, <1>3, <4>1, ElementGuards
    <3>7. SaysNo(m, TranslateNot(m, args), e)
      BY <3>1, <3>5, <3>6, NorSays
    <3> QED BY <2>2, <3>7 DEF Says
  <2>4. CASE op \in Orderings
    <3>1. CASE Mixed(args)
      <4>1. ~Runs(TranslateNot(m, args))
        BY <2>4, <3>1, OrderingNegated, RefusalIs DEF Runs
      <4> QED BY <2>2, <4>1 DEF Says, SaysNo, Denies
    <3>2. CASE ~Mixed(args) /\ IsUnorderable(args)
      <4>1. m.val[e] = Err
        BY <1>1, <1>9, <1>10, <1>11, <2>4, <3>2, Unorderable
      <4>2. TranslateNot(m, args) = m.yes
        BY <2>4, <3>2, OrderingNegated
      <4> QED BY <2>1, <2>2, <4>1, <4>2, Constants DEF Says, SaysNo, Denies, Runs
    <3>3. CASE ~Mixed(args) /\ ~IsUnorderable(args)
      <4>1. PICK f : f = TranslateNot(m, args)
        OBVIOUS
      <4>2. PICK q : q = Complemented(op)
        OBVIOUS
      <4>3. f = TranslateComparison(q, args, m.agg)
        BY <1>5, <2>4, <3>3, <4>1, <4>2, OrderingNegated
      <4>4. q \in Comparisons /\ q # "ne" /\ (CompareValues(q, v, w) = True <=> CompareValues(op, v, w) = False)
        <5>1. q \in Orderings
          BY <1>10, <2>4, <4>2, ComplementIs
        <5> QED BY <1>10, <2>4, <4>2, <5>1, ComplementIs DEF Comparisons, Orderings
      <4>5. ~f.throws => (f.match[e] <=> CompareValues(q, v, w) = True)
        <5>1. PICK g : g = TranslateComparison(q, args, m.agg)
          OBVIOUS
        <5>2. ~g.throws => (g.match[e] <=> CompareValues(q, v, w) = True)
          BY <1>9, <1>13, <4>4, <5>1, LeafComparison
        <5> QED BY <4>3, <5>1, <5>2
      <4>6. SaysNo(m, f, e)
        BY <1>11, <4>4, <4>5 DEF SaysNo, Denies, Runs
      <4> QED BY <2>2, <4>1, <4>6 DEF Says
    <3> QED BY <3>1, <3>2, <3>3
  <2> QED BY <2>3, <2>4 DEF Comparisons
<1> QED BY <1>12, <1>13

\* What the plan's shape says of an expression the pipeline computes.
LEMMA Overloaded ==
  ASSUME NEW op, NEW args, NEW m, InPlace(op, args, m), InPipeline(op, args), NEW e \in Places(op, args)
  PROVE  HasOverload(op, args, e) /\ \A i \in DOMAIN args : args[i].typed
<1>1. "mistyped" \notin Admitted /\ AdmittedShape(op, args)
  BY DEF InPlace, Expression
<1>2. e \in EnvsOf(ScopeOf(args))
  BY InPlaceIs DEF EnvsOf, Envs
<1> QED BY <1>1, <1>2 DEF AdmittedShape

\* A comparison of what is neither a field and a constant, nor a collection and the empty list.
LEMMA PipelineComparison ==
  ASSUME NEW op \in Comparisons, NEW args, NEW m, InPlace(op, args, m),
         ~(op \in Equalities /\ \E i \in 1 .. 2 : EmptinessTest(args, i)), ~Beside(args, 1), ~Beside(args, 2)
  PROVE  /\ m.scope = "element" => m.yes.throws
         /\ ~FieldAndConstant(args)
         /\ ~m.yes.throws => /\ ~args[1].aggThrows /\ ~args[2].aggThrows /\ ~(op \in Orderings /\ Mixed(args))
                             /\ m.yes.aborts <=> m.agg[Root] = Err
                             /\ \A e \in Places(op, args) : m.yes.match[e] <=>
                                  /\ ~(op \in Orderings /\ IsUnorderable(args))
                                  /\ Guards(args, e) /\ m.agg[e] = True
<1>1. /\ DOMAIN args = 1 .. 2 /\ Well(op, args) /\ m.scope = ScopeOf(args) /\ DOMAIN m.agg = Places(op, args)
      /\ m.yes = BuildFilter(op, args, m.agg, m.aggThrows) /\ ~OuterReference(op, args)
  BY InPlaceIs, WidthIs DEF Binary, InPlace
<1>2. m.yes = TranslateComparison(op, args, m.agg)
  BY <1>1, BuildIs
<1>3. ~(args[1].kind = "variable" /\ args[2].kind = "value") /\ ~(args[1].kind = "value" /\ args[2].kind = "variable")
  BY DEF Beside
<1>4. ~\E i \in 1 .. 2 : args[i].kind = "variable" /\ args[3 - i].lit.t = "list"
  <2>1. (args[1].lit.t = "list" => args[1].kind = "value") /\ (args[2].lit.t = "list" => args[2].kind = "value")
    BY <1>1, BesideConstant
  <2> QED BY <1>3, <2>1
<1>5. ~FieldAndConstant(args)
  BY <1>3 DEF FieldAndConstant
<1>6. PICK refused : refused = (\/ args[1].kind = "if" /\ args[2].kind = "if"
                                \/ args[1].aggThrows \/ args[2].aggThrows
                                \/ op \in Orderings /\ Mixed(args))
  OBVIOUS
<1>7. PICK match : match = [e \in DOMAIN m.agg |->
               /\ ~(op \in Orderings /\ IsUnorderable(args))
               /\ Guards(args, e) /\ m.agg[e] = True]
  OBVIOUS
<1>8. m.yes = EmitExpr(m.scope, refused, m.agg, match)
  BY <1>1, <1>2, <1>3, <1>4, <1>6, <1>7 DEF TranslateComparison
<1>9. match \in [DOMAIN m.agg -> BOOLEAN]
  BY <1>7
<1>10. /\ m.yes.throws <=> m.scope = "element" \/ refused
       /\ ~m.yes.throws => m.yes.match = match /\ (m.yes.aborts <=> m.agg[Root] = Err)
  BY <1>8, <1>9, EmitExprIs
<1>11. \A e \in Places(op, args) : match[e] <=> ~(op \in Orderings /\ IsUnorderable(args)) /\ Guards(args, e) /\ m.agg[e] = True
  BY <1>1, <1>7
<1>12. ~m.yes.throws => ~args[1].aggThrows /\ ~args[2].aggThrows /\ ~(op \in Orderings /\ Mixed(args))
  BY <1>6, <1>10
<1> QED BY <1>5, <1>10, <1>11, <1>12

LEMMA ComparisonSays ==
  ASSUME NEW op \in Comparisons, NEW args, NEW m, InPlace(op, args, m)
  PROVE  (m.scope = "element" => Covered(m, args)) /\ \A e \in Places(op, args) : Says(m, args, e)
<1>1. CASE op \in Equalities /\ \E i \in 1 .. 2 : EmptinessTest(args, i)
  BY <1>1, EmptinessSays
<1>2. CASE Beside(args, 1) \/ Beside(args, 2)
  <2>1. 1 \in 1 .. 2 /\ 2 \in 1 .. 2
    OBVIOUS
  <2> QED BY <1>2, <2>1, LeafComparisonSays
<1>3. CASE /\ ~(op \in Equalities /\ \E i \in 1 .. 2 : EmptinessTest(args, i))
           /\ ~Beside(args, 1) /\ ~Beside(args, 2)
  <2>1. /\ m.scope = "element" => m.yes.throws
        /\ ~FieldAndConstant(args)
        /\ ~m.yes.throws => /\ ~args[1].aggThrows /\ ~args[2].aggThrows /\ ~(op \in Orderings /\ Mixed(args))
                            /\ m.yes.aborts <=> m.agg[Root] = Err
    BY <1>3, PipelineComparison
  <2>2. \A e \in Places(op, args) : ~m.yes.throws => (m.yes.match[e] <=>
           ~(op \in Orderings /\ IsUnorderable(args)) /\ Guards(args, e) /\ m.agg[e] = True)
    BY <1>3, PipelineComparison
  <2>3. m.yes.throws => ~Runs(TranslateNot(m, args))
    <3>1. ASSUME m.yes.throws PROVE ~Runs(TranslateNot(m, args))
      <4>1. CASE op \in Equalities
        BY <1>3, <3>1, <4>1, NorOf, NorRefused
      <4>2. CASE op \in Orderings
        <5>1. ~Runs(Refusal) /\ ~Runs(m.yes) /\ ~Runs(Nor(m))
          BY <3>1, NorRefused, RefusalIs DEF Runs
        <5> QED BY <2>1, <4>2, <5>1, OrderingNegated
      <4> QED BY <4>1, <4>2 DEF Comparisons
    <3> QED BY <3>1
  <2>4. m.scope = "element" => Covered(m, args)
    <3>1. ASSUME m.yes.throws PROVE TranslateNot(m, args).throws
      <4>1. CASE op \in Equalities
        BY <1>3, <3>1, <4>1, NorOf, NorRefused
      <4>2. CASE op \in Orderings
        <5>1. Refusal.throws /\ Nor(m).throws
          BY <3>1, NorRefused, RefusalIs
        <5> QED BY <2>1, <3>1, <4>2, <5>1, OrderingNegated
      <4> QED BY <4>1, <4>2 DEF Comparisons
    <3> QED BY <2>1, <3>1 DEF Covered
  <2>5. SUFFICES ASSUME NEW e \in Places(op, args) PROVE Says(m, args, e)
    BY <2>4
  <2>6. CASE m.yes.throws
    BY <2>3, <2>6 DEF Says, SaysYes, SaysNo, Allows, Denies, Runs
  <2>7. CASE ~m.yes.throws /\ op \in Orderings /\ IsUnorderable(args)
    <3>1. ~m.yes.match[e] /\ ~Mixed(args)
      BY <2>1, <2>2, <2>7
    <3>2. m.val[e] = Err
      <4>1. Well(op, args) /\ e \in Envs(ElementEnvs, ScopeOf(args))
            /\ m.val[e] = CompareValues(op, At(args[1].val, e), At(args[2].val, e))
        BY InPlaceIs, EvaluateIs
      <4> QED BY <2>7, <3>1, <4>1, Unorderable
    <3>3. TranslateNot(m, args) = m.yes
      BY <2>7, <3>1, OrderingNegated
    <3> QED BY <3>1, <3>2, <3>3, Constants DEF Says, SaysYes, SaysNo, Allows, Denies
  <2>8. CASE ~m.yes.throws /\ ~(op \in Orderings /\ IsUnorderable(args))
    <3>1. m.scope = "root" /\ e = Root
      <4>1. m.scope \in {"root", "element"} /\ m.scope = ScopeOf(args) /\ e \in Envs(ElementEnvs, ScopeOf(args))
        BY InPlaceIs
      <4> QED BY <2>1, <2>8, <4>1 DEF Envs
    <3>2. ~m.aggThrows
      <4>1. m.aggThrows <=> AggregateThrows(op, args)
        BY InPlaceGuard
      <4>2. DOMAIN args = 1 .. 2
        BY InPlaceIs, WidthIs DEF Binary
      <4>3. ~\E i \in DOMAIN args : args[i].aggThrows
        BY <2>1, <2>8, <4>2
      <4>4. op \notin {"add", "div", "mod", "matches"}
        BY DEF Comparisons, Equalities, Orderings
      <4> QED BY <2>1, <2>8, <4>1, <4>3, <4>4 DEF AggregateThrows
    <3>3. InPipeline(op, args)
      BY <2>1 DEF InPipeline
    <3>4. Computed(op, args, m, e)
      <4>1. HasOverload(op, args, e) /\ \A i \in DOMAIN args : args[i].typed
        BY <3>3, Overloaded
      <4>2. Runs(m.yes) => m.agg[e] # Err
        BY <2>1, <3>1 DEF Runs
      <4> QED BY <2>2, <2>8, <3>2, <4>1, <4>2 DEF Computed
    <3>5. op \in Answers \ (SetOperations \union {"in", "hasIntersection"})
      BY DEF Answers, Comparisons, Equalities, Orderings, SetOperations
    <3>6. TranslateNot(m, args) = Nor(m)
      <4>1. CASE op \in Equalities
        BY <1>3, <4>1, NorOf
      <4>2. CASE op \in Orderings
        BY <2>1, <2>8, <4>2, OrderingNegated
      <4> QED BY <4>1, <4>2 DEF Comparisons
    <3>7. SaysYes(m, e) /\ SaysNo(m, TranslateNot(m, args), e)
      BY <3>1, <3>4, <3>5, <3>6, ComputedSays
    <3> QED BY <3>7 DEF Says
  <2> QED BY <2>6, <2>7, <2>8
<1> QED BY <1>1, <1>2, <1>3

-----------------------------------------------------------------------------
(* Strings *)

LEMMA StartLeafIs ==
  ASSUME NEW field, ScalarField(field), NEW lit \in Plain, lit.t = "str", NEW nullable \in {FALSE, field.nullable},
         NEW e \in DOMAIN field.agg
  PROVE  LET f == EmitLeafComparison(field, "startsWith", lit, nullable, FALSE) IN
         /\ ~f.throws /\ ~f.aborts
         /\ f.match[e] <=> StartsWith(field.val[e], lit) = True
         /\ field.agg[e].t = "str" => StartsWith(field.val[e], lit) # Err
<1>1. PICK x, v, f : x = field.agg[e] /\ v = field.val[e] /\ f = EmitLeafComparison(field, "startsWith", lit, nullable, FALSE)
  OBVIOUS
<1>2. NodeOK(field) /\ field.kind = "variable" /\ field.shape \notin Lists
  BY DEF ScalarField
<1>3. CellFine(field, x, v, field.guard[e]) /\ field.nullable \in BOOLEAN
  BY <1>1, <1>2, FieldIs
<1>4. x \in Value /\ v = IF x = Undefined \/ (field.nullable /\ x = Null) THEN Err ELSE x
  BY <1>3 DEF CellFine, Cells
<1>5. x.t = "str" => v = x /\ ~Missing(x)
  BY <1>4, ValueIs DEF Missing
<1>6. v.t = "str" => v = x
  BY <1>4, Constants
<1>7. ~f.throws /\ ~f.aborts /\ (f.match[e] <=> GuardedMatches("startsWith", x, lit, nullable, FALSE))
  BY <1>1, <1>2, LeafIs DEF Lists
<1>8. GuardedMatches("startsWith", x, lit, nullable, FALSE) <=> (nullable => ~Missing(x)) /\ x.t = "str" /\ IsPrefix(lit, x)
  <2>1. QueryMatches("startsWith", x, lit) <=> x.t = "str" /\ lit.t = "str" /\ IsPrefix(lit, x)
    BY QueryIs
  <2> QED BY <2>1 DEF GuardedMatches
<1>9. StartsWith(v, lit) = True <=> v.t = "str" /\ IsPrefix(lit, v)
  BY StartsIs
<1>10. v.t = "str" => StartsWith(v, lit) # Err
  BY StartsIs
<1> QED BY <1>1, <1>5, <1>6, <1>7, <1>8, <1>9, <1>10

\* The leaf of a field and a pattern.
PatternLeaf(args, m) ==
  /\ args[1].kind = "variable" /\ args[2].lit.t = "str"
  /\ \E nullable \in {FALSE, args[1].nullable} :
       m.yes = EmitLeafComparison(args[1], "startsWith", args[2].lit, nullable, FALSE)

LEMMA PatternSays ==
  ASSUME NEW op \in {"startsWith", "matches"}, NEW args, NEW m, InPlace(op, args, m), PatternLeaf(args, m)
  PROVE  Covered(m, args) /\ \A e \in Places(op, args) : Says(m, args, e)
<1>1. DOMAIN args = 1 .. 2 /\ Well(op, args)
  BY InPlaceIs, WidthIs DEF Binary
<1>2. args[1].kind = "variable" /\ args[2].kind = "value" /\ args[2].lit.t = "str"
  BY <1>1, BesideConstant DEF PatternLeaf
<1>3. \A i \in DOMAIN args : i = 1 \/ i = 2
  BY <1>1
<1>4. Covered(m, args)
  BY <1>2, <1>3 DEF Covered
<1>5. PICK nullable \in {FALSE, args[1].nullable} :
         m.yes = EmitLeafComparison(args[1], "startsWith", args[2].lit, nullable, FALSE)
  BY DEF PatternLeaf
<1>6. SUFFICES ASSUME NEW e \in Places(op, args) PROVE Says(m, args, e)
  BY <1>4
<1>7. 1 \in DOMAIN args /\ 2 \in DOMAIN args /\ e \in Envs(ElementEnvs, ScopeOf(args))
  BY <1>1, InPlaceIs
<1>8. NodeOK(args[1]) /\ NodeOK(args[2])
  BY <1>1, PairIs
<1>9. PICK field, lit : field = args[1] /\ lit = args[2].lit
  OBVIOUS
<1>10. lit \in Plain /\ lit.t = "str" /\ lit # Err /\ At(args[2].val, e) = lit /\ At(args[2].agg, e) = lit
  <2>1. lit \in Plain /\ lit # Err
    BY <1>2, <1>8, <1>9, LitIs
  <2> QED BY <1>1, <1>2, <1>7, <1>9, <2>1, WellOperand
<1>11. ScalarField(field)
  <2>1. field.shape \notin Lists
    BY <1>1, <1>7, <1>9, ScalarOperands
  <2> QED BY <1>2, <1>8, <1>9, <2>1 DEF ScalarField
<1>12. At(field.val, e) = field.val[e] /\ At(field.agg, e) = field.agg[e] /\ e \in DOMAIN field.agg
  <2>1. At(field.val, e) = field.val[e] /\ At(field.agg, e) = field.agg[e] /\ e \in Envs(ElementEnvs, field.scope)
    BY <1>2, <1>7, <1>9, OperandSays
  <2> QED BY <1>8, <1>9, <2>1, FiltersTyped
<1>13. m.val[e] = StartsWith(field.val[e], lit)
  <2>1. m.val[e] = Evaluate(op, args, e)
    BY InPlaceIs
  <2> QED BY <1>9, <1>10, <1>12, <2>1, EvaluateIs
<1>14. /\ ~m.yes.throws /\ ~m.yes.aborts
       /\ m.yes.match[e] <=> m.val[e] = True
       /\ field.agg[e].t = "str" => m.val[e] # Err
  <2>1. nullable \in {FALSE, field.nullable} /\ m.yes = EmitLeafComparison(field, "startsWith", lit, nullable, FALSE)
    BY <1>5, <1>9
  <2>2. PICK f : f = m.yes
    OBVIOUS
  <2>3. /\ ~f.throws /\ ~f.aborts
        /\ f.match[e] <=> StartsWith(field.val[e], lit) = True
        /\ field.agg[e].t = "str" => StartsWith(field.val[e], lit) # Err
    BY <1>10, <1>11, <1>12, <2>1, <2>2, StartLeafIs
  <2> QED BY <1>13, <2>2, <2>3
<1>15. m.guard[e] => field.agg[e].t = "str"
  <2>1. PICK vals : vals = Inputs(args, e)
    OBVIOUS
  <2>2. /\ m.guard[e] => OwnGuard(op, vals, m.agg[e])
        /\ m.agg[e] = Aggregate(op, args, vals)
    BY <2>1, InPlaceGuard
  <2>3. vals[1] = field.agg[e] /\ vals[2] = lit /\ DOMAIN vals = 1 .. 2
    BY <1>1, <1>7, <1>9, <1>10, <1>12, <2>1 DEF Inputs
  <2>4. CASE op = "matches"
    BY <2>2, <2>3, <2>4 DEF OwnGuard
  <2>5. CASE op = "startsWith"
    <3>1. field.agg[e] # Err
      <4>1. CellFine(field, field.agg[e], field.val[e], field.guard[e])
        BY <1>2, <1>8, <1>9, <1>12, FieldIs
      <4> QED BY <4>1, Constants DEF CellFine, Cells
    <3>2. \A i \in DOMAIN vals : vals[i] # Err
      BY <1>10, <2>3, <3>1
    <3>3. m.agg[e] = IF vals[1].t = "str" /\ vals[2].t = "str" THEN StartsWith(vals[1], vals[2]) ELSE Null
      BY <2>2, <2>5, <3>2, AggregateIs
    <3>4. m.guard[e] => m.agg[e] # Null
      BY <2>2, <2>5 DEF OwnGuard
    <3> QED BY <2>3, <3>3, <3>4
  <2> QED BY <2>4, <2>5
<1>16. SaysYes(m, e)
  BY <1>14 DEF SaysYes, Allows
<1>17. SaysNo(m, TranslateNot(m, args), e)
  <2>1. TranslateNot(m, args) = Nor(m)
    BY NorOf
  <2>2. m.listShape[e] /\ m.exprGuard
    <3>1. ListsRead(op, args) = {} /\ op \in Guarded
      BY DEF ListsRead, Guarded
    <3> QED BY <3>1, InPlaceGuard
  <2>3. Runs(m.yes) => /\ m.guard[e] /\ m.listShape[e] => m.val[e] # Err
                       /\ m.guard[e] /\ m.listShape[e] /\ m.val[e] = True => m.yes.match[e]
                       /\ m.val[e] = False => ~m.yes.match[e] /\ m.listShape[e]
    BY <1>14, <1>15, <2>2, Constants
  <2> QED BY <2>1, <2>2, <2>3, NorSays
<1> QED BY <1>16, <1>17 DEF Says

LEMMA MatchesSays ==
  ASSUME NEW args, NEW m, InPlace("matches", args, m)
  PROVE  Covered(m, args) /\ \A e \in Places("matches", args) : Says(m, args, e)
<1>1. m.yes = TranslateMatches(args)
  <2>1. m.yes = BuildFilter("matches", args, m.agg, m.aggThrows) /\ ~OuterReference("matches", args)
    BY InPlaceIs DEF InPlace
  <2> QED BY <2>1, BuildIs
<1>2. CASE args[1].kind = "variable" /\ args[2].lit.t = "str"
  <2>1. PatternLeaf(args, m)
    BY <1>1, <1>2 DEF TranslateMatches, PatternLeaf
  <2> QED BY <2>1, PatternSays
<1>3. CASE ~(args[1].kind = "variable" /\ args[2].lit.t = "str")
  <2>1. m.yes.throws
    BY <1>1, <1>3, RefusalIs DEF TranslateMatches
  <2>2. TranslateNot(m, args).throws
    BY <2>1, NorOf, NorRefused
  <2> QED BY <2>1, <2>2 DEF Covered, Says, SaysYes, SaysNo, Allows, Denies, Runs
<1> QED BY <1>2, <1>3

LEMMA StartsWithSays ==
  ASSUME NEW args, NEW m, InPlace("startsWith", args, m)
  PROVE  (m.scope = "element" => Covered(m, args)) /\ \A e \in Places("startsWith", args) : Says(m, args, e)
<1>1. /\ m.yes = TranslateStringPredicate(args, m.agg, m.aggThrows) /\ Well("startsWith", args)
      /\ DOMAIN args = 1 .. 2 /\ DOMAIN m.agg = Envs(ElementEnvs, ScopeOf(args)) /\ m.scope = ScopeOf(args)
  <2>1. m.yes = BuildFilter("startsWith", args, m.agg, m.aggThrows) /\ ~OuterReference("startsWith", args)
    BY InPlaceIs DEF InPlace
  <2>2. Well("startsWith", args) /\ DOMAIN m.agg = Envs(ElementEnvs, ScopeOf(args)) /\ m.scope = ScopeOf(args)
    BY InPlaceIs
  <2> QED BY <2>1, <2>2, BuildIs, WidthIs DEF Binary
<1>2. CASE StartLeaf(args)
  <2>1. m.yes = EmitLeafComparison(args[1], "startsWith", args[2].lit, args[1].nullable, FALSE)
    BY <1>1, <1>2 DEF TranslateStringPredicate, StartLeaf
  <2>2. PatternLeaf(args, m)
    BY <1>2, <2>1 DEF StartLeaf, PatternLeaf
  <2> QED BY <2>2, PatternSays
<1>3. CASE ~StartLeaf(args)
  <2>1. /\ m.yes.throws <=> m.scope = "element" \/ m.aggThrows
        /\ ~m.yes.throws => /\ m.yes.aborts <=> m.agg[Root] = Err
                            /\ \A e \in DOMAIN m.agg : m.yes.match[e] <=> Guards(args, e) /\ m.agg[e] = True
    <3>1. PICK agg, refused, f : agg = m.agg /\ refused = m.aggThrows /\ f = m.yes
      OBVIOUS
    <3>2. PICK match : match = [e \in DOMAIN agg |-> Guards(args, e) /\ agg[e] = True]
      OBVIOUS
    <3>3. f = EmitExpr(m.scope, refused, agg, match)
      BY <1>1, <1>3, <3>1, <3>2 DEF TranslateStringPredicate, StartLeaf
    <3>4. match \in [DOMAIN agg -> BOOLEAN]
      BY <3>2
    <3>5. (f.throws <=> m.scope = "element" \/ refused) /\ (~f.throws => f.match = match /\ (f.aborts <=> agg[Root] = Err))
      BY <3>3, <3>4, EmitExprIs
    <3> QED BY <3>1, <3>2, <3>5
  <2>2. TranslateNot(m, args) = Nor(m)
    BY NorOf
  <2>3. m.scope = "element" => Covered(m, args)
    BY <2>1, <2>2, NorRefused DEF Covered
  <2>4. SUFFICES ASSUME NEW e \in Places("startsWith", args) PROVE Says(m, args, e)
    BY <2>3
  <2>5. CASE m.yes.throws
    <3>1. ~Runs(Nor(m))
      BY <2>5, NorRefused
    <3> QED BY <2>2, <2>5, <3>1 DEF Says, SaysYes, SaysNo, Allows, Denies, Runs
  <2>6. CASE ~m.yes.throws
    <3>1. m.scope = "root" /\ e = Root /\ e \in DOMAIN m.agg
      <4>1. m.scope \in {"root", "element"} /\ m.scope = ScopeOf(args) /\ e \in Envs(ElementEnvs, ScopeOf(args))
        BY InPlaceIs
      <4> QED BY <1>1, <2>1, <2>6, <4>1 DEF Envs
    <3>2. HasOverload("startsWith", args, e) /\ \A i \in DOMAIN args : args[i].typed
      <4>1. CASE InPipeline("startsWith", args)
        BY <4>1, Overloaded
      <4>2. CASE ~InPipeline("startsWith", args)
        <5>1. args[1].kind = "variable" /\ args[2].kind = "value"
          BY <4>2 DEF InPipeline
        <5>2. HasOverload("startsWith", args, e)
          BY DEF HasOverload, Junctions, ConditionalLists, Orderings
        <5>3. NodeOK(args[1]) /\ NodeOK(args[2])
          BY <1>1, PairIs
        <5>4. args[1].typed
          BY <5>1, <5>3, FieldIs
        <5>5. args[2].typed
          BY <5>1, <5>3 DEF NodeOK, NodeFine, ValueFine
        <5>6. \A i \in DOMAIN args : i = 1 \/ i = 2
          BY <1>1
        <5> QED BY <5>2, <5>4, <5>5, <5>6
      <4> QED BY <4>1, <4>2
    <3>3. Computed("startsWith", args, m, e)
      BY <2>1, <2>6, <3>1, <3>2 DEF Computed, Runs
    <3>4. "startsWith" \in Answers \ (SetOperations \union {"in", "hasIntersection"})
      BY DEF Answers, SetOperations
    <3>5. SaysYes(m, e) /\ SaysNo(m, TranslateNot(m, args), e)
      BY <2>2, <3>1, <3>3, <3>4, ComputedSays
    <3> QED BY <3>5 DEF Says
  <2> QED BY <2>5, <2>6
<1> QED BY <1>2, <1>3

-----------------------------------------------------------------------------
(* Conditionals, macros and constructed lists *)

LEMMA ConditionalSays ==
  ASSUME NEW op \in ConditionalLists, NEW args, NEW m, InPlace(op, args, m)
  PROVE  Covered(m, args) /\ \A e \in Places(op, args) : Says(m, args, e)
<1>1. PICK c : c = args[1]
  OBVIOUS
<1>2. DOMAIN args = 1 .. 1 /\ Well(op, args)
  BY InPlaceIs, WidthIs
<1>3. 1 \in DOMAIN args /\ NodeOK(c) /\ ScopeOf(args) = c.scope /\ c.scope \in {"root", "element"}
  BY <1>1, <1>2, LoneScope
<1>4. m.yes = ConditionalMembership(op, c)
  <2>1. m.yes = BuildFilter(op, args, m.agg, m.aggThrows) /\ ~OuterReference(op, args)
    BY InPlaceIs DEF InPlace
  <2> QED BY <1>1, <2>1, BuildIs
<1>5. TranslateNot(m, args) = Nor(m)
  BY NorOf
<1>6. /\ op = "inThen" => m.yes = c.yes
      /\ op = "inElse" => m.yes = c.no
      /\ op \in {"inBoth", "inNeither"} =>
           /\ m.yes.throws <=> c.yes.throws \/ c.no.throws
           /\ ~m.yes.throws => (m.yes.aborts <=> c.yes.aborts \/ c.no.aborts)
  <2>1. c.scope # "none"
    BY <1>3
  <2> QED BY <1>3, <1>4, <2>1, ConditionalIs
<1>7. ASSUME NEW e \in Envs(ElementEnvs, c.scope), ~m.yes.throws
      PROVE  /\ op = "inBoth" => (m.yes.match[e] <=> c.yes.match[e] \/ c.no.match[e])
             /\ op = "inNeither" => (m.yes.match[e] <=> c.yes.match[e] /\ c.no.match[e])
  <2>1. PICK f : f = m.yes
    OBVIOUS
  <2>2. CASE op \in {"inBoth", "inNeither"}
    <3>1. c.scope # "none" /\ f = ConditionalMembership(op, c) /\ ~f.throws
      BY <1>3, <1>4, <1>7, <2>1
    <3>2. /\ op = "inBoth" => (f.match[e] <=> c.yes.match[e] \/ c.no.match[e])
          /\ op = "inNeither" => (f.match[e] <=> c.yes.match[e] /\ c.no.match[e])
      BY <1>3, <1>7, <2>2, <3>1, ConditionalIs
    <3> QED BY <2>1, <3>2
  <2> QED BY <2>2
<1>8. Covered(m, args)
  <2>1. \A i \in DOMAIN args : i = 1
    BY <1>2
  <2>2. ~m.yes.throws => ~c.yes.throws \/ ~c.no.throws
    BY <1>6 DEF ConditionalLists
  <2>3. ~Nor(m).throws => ~m.yes.throws
    BY NorRefused
  <2> QED BY <1>1, <1>5, <2>1, <2>2, <2>3 DEF Covered
<1>9. SUFFICES ASSUME NEW e \in Places(op, args) PROVE Says(m, args, e)
  BY <1>8
<1>10. e \in Envs(ElementEnvs, c.scope)
  BY <1>3, InPlaceIs
<1>11. c.kind # "value"
  BY <1>1, <1>3, ShapeIs
<1>12. PICK v : v = c.val[e]
  OBVIOUS
<1>13. At(c.val, e) = v /\ At(c.guard, e) = c.guard[e]
  BY <1>1, <1>3, <1>11, <1>12, OperandSays
<1>14. v \in Tri /\ Tells(c, v, e, Lost(m, e, NullElement))
  BY <1>1, <1>3, <1>13, ConditionOperand
<1>15. v \in Plain
  BY <1>14, TriPlain
<1>16. m.val[e] = IfThenElse(v, Bool(op \in {"inThen", "inBoth"}), Bool(op \in {"inElse", "inBoth"}))
  <2>1. m.val[e] = Evaluate(op, args, e)
    BY InPlaceIs
  <2> QED BY <1>1, <1>13, <2>1, EvaluateIs
<1>17. m.val[e] = IF v = True THEN Bool(op \in {"inThen", "inBoth"})
                  ELSE IF v = False THEN Bool(op \in {"inElse", "inBoth"}) ELSE Err
  BY <1>15, <1>16, IfIs
<1>18. m.guard[e] => c.guard[e]
  <2>1. op \notin Guarded
    BY DEF ConditionalLists, Guarded
  <2> QED BY <1>1, <1>3, <1>13, <2>1, InPlaceGuard DEF Guards
<1>19. m.guard[e] => /\ ~c.yes.throws => v = Bool(c.yes.match[e])
                     /\ ~c.no.throws => v = Bool(~c.no.match[e])
  <2>1. "negatedConditional" \notin Admitted /\ AdmittedShape(op, args)
    BY DEF InPlace, Expression
  <2>2. e \in DOMAIN c.val
    BY <1>3, <1>10, FiltersTyped
  <2>3. \A d \in DOMAIN c.val : c.guard[d] =>
              /\ ~c.yes.throws => c.val[d] = Bool(c.yes.match[d])
              /\ ~c.no.throws => c.val[d] = Bool(~c.no.match[d])
    BY <1>1, <2>1 DEF AdmittedShape
  <2> QED BY <1>12, <1>18, <2>2, <2>3
<1>20. m.listShape[e]
  <2>1. ListsRead(op, args) = {}
    BY DEF ListsRead, ConditionalLists
  <2> QED BY <2>1, InPlaceGuard
<1>21. m.scope = "element" /\ ~m.exprGuard /\ ~m.yes.throws => m.guard[e] \/ NullElement
  <2>1. m.scope = "element" => e \in ElementEnvs
    BY <1>3, <1>10, InPlaceIs DEF Envs
  <2>2. ~m.yes.throws => \A i \in DOMAIN args : args[i].kind \in {"value", "variable"} \/ ~args[i].yes.throws \/ ~args[i].no.throws
    BY <1>8 DEF Covered
  <2> QED BY <2>1, <2>2, ElementGuards
<1>22. PICK lost : lost = Lost(m, e, NullElement)
  OBVIOUS
<1>23. /\ Runs(m.yes) => /\ m.yes.match[e] => m.val[e] = True
                         /\ m.val[e] = True => m.yes.match[e] \/ lost
                         /\ m.guard[e] => m.val[e] # Err /\ (m.val[e] = True => m.yes.match[e])
  <2>1. SUFFICES ASSUME Runs(m.yes)
                 PROVE  /\ m.yes.match[e] => m.val[e] = True
                        /\ m.val[e] = True => m.yes.match[e] \/ lost
                        /\ m.guard[e] => m.val[e] # Err /\ (m.val[e] = True => m.yes.match[e])
    OBVIOUS
  <2>2. CASE op = "inThen"
    <3>1. m.yes = c.yes /\ Runs(c.yes)
      BY <1>6, <2>1, <2>2
    <3>2. m.val[e] = IF v = True THEN True ELSE IF v = False THEN False ELSE Err
      BY <1>17, <2>2 DEF Bool
    <3>3. (m.val[e] = True <=> v = True) /\ (m.val[e] = Err <=> v = Err)
      BY <1>14, <3>2, Constants DEF Tri
    <3>4. m.guard[e] => v = Bool(c.yes.match[e])
      BY <1>19, <3>1 DEF Runs
    <3>5. (c.yes.match[e] => v = True) /\ (v = True => c.yes.match[e] \/ lost)
      BY <1>14, <1>22, <3>1 DEF Tells
    <3> QED BY <3>1, <3>3, <3>4, <3>5, BoolIs
  <2>3. CASE op = "inElse"
    <3>1. m.yes = c.no /\ Runs(c.no)
      BY <1>6, <2>1, <2>3
    <3>2. m.val[e] = IF v = True THEN False ELSE IF v = False THEN True ELSE Err
      BY <1>17, <2>3 DEF Bool
    <3>3. (m.val[e] = True <=> v = False) /\ (m.val[e] = Err <=> v = Err)
      BY <1>14, <3>2, Constants DEF Tri
    <3>4. m.guard[e] => v = Bool(~c.no.match[e])
      BY <1>19, <3>1 DEF Runs
    <3>5. (c.no.match[e] => v = False) /\ (v = False => c.no.match[e] \/ lost)
      BY <1>14, <1>22, <3>1 DEF Tells
    <3>6. (Bool(~c.no.match[e]) # Err) /\ (Bool(~c.no.match[e]) = False => c.no.match[e])
      BY BoolIs
    <3> QED BY <3>1, <3>3, <3>4, <3>5, <3>6
  <2>4. CASE op \in {"inBoth", "inNeither"}
    <3>1. ~m.yes.throws /\ Runs(c.yes) /\ Runs(c.no)
      BY <1>6, <2>1, <2>4 DEF Runs
    <3>2. /\ op = "inBoth" => (m.yes.match[e] <=> c.yes.match[e] \/ c.no.match[e])
          /\ op = "inNeither" => (m.yes.match[e] <=> c.yes.match[e] /\ c.no.match[e])
      BY <1>7, <1>10, <3>1
    <3>3. /\ (c.no.match[e] => v = False) /\ (v = False => c.no.match[e] \/ lost)
          /\ (c.yes.match[e] => v = True) /\ (v = True => c.yes.match[e] \/ lost)
      BY <1>14, <1>22, <3>1 DEF Tells
    <3>4. m.guard[e] => v = Bool(c.yes.match[e]) /\ v = Bool(~c.no.match[e])
      BY <1>19, <3>1 DEF Runs
    <3>5. m.guard[e] => (v = True \/ v = False) /\ (c.yes.match[e] \/ c.no.match[e])
      BY <3>4, Constants DEF Bool
    <3>6. CASE op = "inBoth"
      <4>1. m.val[e] = IF v = True \/ v = False THEN True ELSE Err
        BY <1>17, <3>6 DEF Bool
      <4> QED BY <3>2, <3>3, <3>5, <3>6, <4>1, Constants
    <3>7. CASE op = "inNeither"
      <4>1. m.val[e] = IF v = True \/ v = False THEN False ELSE Err
        BY <1>17, <3>7 DEF Bool
      <4> QED BY <3>2, <3>3, <3>5, <3>7, <4>1, Constants
    <3> QED BY <2>4, <3>6, <3>7
  <2> QED BY <2>2, <2>3, <2>4 DEF ConditionalLists
<1>24. SaysYes(m, e)
  BY <1>22, <1>23 DEF SaysYes, Allows
<1>25. SaysNo(m, TranslateNot(m, args), e)
  <2>1. Runs(m.yes) => /\ m.guard[e] /\ m.listShape[e] => m.val[e] # Err
                       /\ m.guard[e] /\ m.listShape[e] /\ m.val[e] = True => m.yes.match[e]
                       /\ m.val[e] = False => ~m.yes.match[e] /\ m.listShape[e]
    BY <1>20, <1>23, Constants
  <2> QED BY <1>5, <1>21, <2>1, NorSays
<1> QED BY <1>24, <1>25 DEF Says

\* A scalar of a constructed list, compared with the constant.
LEMMA FoldElement ==
  ASSUME NEW op \in Folds, NEW args, NEW m, InPlace(op, args, m), NEW i \in 1 .. 2, args[3].lit.t # "list",
         NEW f, f = CompareConstant("eq", args[i], args[3].lit)
  PROVE  LET v == At(args[i].val, Root) IN
         /\ ~f.throws => (f.match[Root] <=> CompareValues("eq", v, args[3].lit) = True)
         /\ v \in Plain /\ (At(args[i].guard, Root) => v # Err)
<1>1. Well(op, args)
  BY InPlaceIs
<1>2. /\ NodeOK(args[i]) /\ args[i].kind = "variable" /\ args[i].shape \in {"field", "one"}
      /\ args[i].scope = "root" /\ DOMAIN args[i].agg = {Root}
      /\ args[3].lit.t # "error" /\ args[3].lit \in Plain /\ DOMAIN args = 1 .. 3 /\ ScopeOf(args) = "root"
  BY <1>1, FoldOperands
<1>3. PICK n, lit : n = args[i] /\ lit = args[3].lit
  OBVIOUS
<1>4. n.shape \notin Lists
  BY <1>2, <1>3 DEF Lists
<1>5. ScalarField(n) /\ LeafConstant(lit)
  BY <1>2, <1>3, <1>4, Constants DEF ScalarField, LeafConstant
<1>6. "eq" \in Equalities /\ Root \in DOMAIN n.agg
  BY <1>2, <1>3 DEF Equalities
<1>7. ~f.throws => (f.match[Root] <=> CompareValues("eq", n.val[Root], lit) = True)
  BY <1>3, <1>5, <1>6, EqualLeaf
<1>8. i \in DOMAIN args /\ Root \in Envs(ElementEnvs, ScopeOf(args)) /\ Root \in Places(op, args)
  BY <1>2, InPlaceIs DEF Envs
<1>9. At(n.val, Root) = n.val[Root]
  BY <1>2, <1>3, <1>8, OperandSays
<1>10. /\ At(n.val, Root) \in Plain /\ At(n.guard, Root) \in BOOLEAN
       /\ CellFine(n, At(n.agg, Root), At(n.val, Root), At(n.guard, Root))
  BY <1>1, <1>2, <1>3, <1>8, WellOperand
<1>11. At(n.guard, Root) => At(n.val, Root) # Err
  <2>1. SUFFICES ASSUME At(n.guard, Root) = TRUE PROVE At(n.val, Root) # Err
    BY <1>10
  <2> QED BY <1>4, <1>10, <2>1, GuardedAttribute
<1> QED BY <1>3, <1>7, <1>9, <1>10, <1>11

LEMMA FoldSays ==
  ASSUME NEW op \in Folds, NEW args, NEW m, InPlace(op, args, m)
  PROVE  m.scope = "root" /\ \A e \in Places(op, args) : Says(m, args, e)
<1>1. Well(op, args) /\ m.scope = ScopeOf(args) /\ Places(op, args) = Envs(ElementEnvs, ScopeOf(args)) /\ m.kind = op
  BY InPlaceIs
<1>2. ScopeOf(args) = "root" /\ args[3].lit \in Plain /\ args[3].lit.t # "error" /\ args[3].kind = "value" /\ NodeOK(args[3])
      /\ DOMAIN args = 1 .. 3
  BY <1>1, FoldOperands
<1>3. Places(op, args) = {Root}
  BY <1>1, <1>2 DEF Envs
<1>4. SUFFICES Says(m, args, Root)
  BY <1>1, <1>2, <1>3
<1>5. TranslateNot(m, args) = Nor(m) /\ ~Runs(Nor(m))
  BY <1>1, NorOf, NorRefused
<1>6. SUFFICES SaysYes(m, Root)
  BY <1>5 DEF Says, SaysNo, Denies
<1>7. m.yes = FoldConstructedList(op, args)
  <2>1. m.yes = BuildFilter(op, args, m.agg, m.aggThrows) /\ ~OuterReference(op, args)
    BY InPlaceIs DEF InPlace
  <2> QED BY <2>1, BuildIs
<1>8. SUFFICES ASSUME Runs(m.yes)
               PROVE  /\ m.yes.match[Root] => m.val[Root] = True
                      /\ m.val[Root] = True => m.yes.match[Root] \/ ~m.guard[Root]
  BY <1>1, <1>2 DEF SaysYes, Allows, Lost
<1>9. PICK c, d : c = CompareConstant("eq", args[1], args[3].lit) /\ d = CompareConstant("eq", args[2], args[3].lit)
  OBVIOUS
<1>10. /\ args[3].lit.t # "list" /\ ~c.throws /\ ~d.throws
       /\ op = "existsOf" => (m.yes.match[Root] <=> Guards(args, Root) /\ (c.match[Root] \/ d.match[Root]))
       /\ op = "allOf" => (m.yes.match[Root] <=> Guards(args, Root) /\ c.match[Root] /\ d.match[Root])
  <2>1. PICK f : f = m.yes
    OBVIOUS
  <2>2. ~f.throws /\ f = FoldConstructedList(op, args)
    BY <1>7, <1>8, <2>1 DEF Runs
  <2> QED BY <1>1, <1>9, <2>1, <2>2, FoldIs
<1>11. PICK v, w, lit : v = At(args[1].val, Root) /\ w = At(args[2].val, Root) /\ lit = args[3].lit
  OBVIOUS
<1>12. /\ c.match[Root] <=> CompareValues("eq", v, lit) = True
       /\ v \in Plain /\ (At(args[1].guard, Root) => v # Err)
  <2>1. 1 \in 1 .. 2
    OBVIOUS
  <2> QED BY <1>9, <1>10, <1>11, <2>1, FoldElement
<1>13. /\ d.match[Root] <=> CompareValues("eq", w, lit) = True
       /\ w \in Plain /\ (At(args[2].guard, Root) => w # Err)
  <2>1. 2 \in 1 .. 2
    OBVIOUS
  <2> QED BY <1>9, <1>10, <1>11, <2>1, FoldElement
<1>14. At(args[3].val, Root) = lit
  <2>1. 3 \in DOMAIN args /\ Root \in Envs(ElementEnvs, ScopeOf(args))
    BY <1>1, <1>2, <1>3
  <2> QED BY <1>1, <1>2, <1>11, <2>1, WellOperand
<1>15. PICK a, b : a = CompareValues("eq", v, lit) /\ b = CompareValues("eq", w, lit)
  OBVIOUS
<1>16. a \in Tri /\ b \in Tri
  <2>1. "eq" \in Comparisons
    BY DEF Comparisons, Equalities
  <2> QED BY <1>2, <1>11, <1>12, <1>13, <1>15, <2>1, CompareIs
<1>17. m.val[Root] = IF v = Err \/ w = Err THEN Err ELSE Junction(op = "existsOf", {a, b})
  <2>1. m.val[Root] = Evaluate(op, args, Root)
    BY <1>3, InPlaceIs
  <2>2. Evaluate(op, args, Root) = (IF Err \in {At(args[1].val, Root), At(args[2].val, Root)} THEN Err
            ELSE Junction(op = "existsOf", {CompareValues("eq", At(args[i].val, Root), At(args[3].val, Root)) : i \in 1 .. 2}))
    <3>1. CASE op = "existsOf"
      BY <3>1 DEF Evaluate, Comparisons, Equalities, Orderings, ConditionalLists, Folds
    <3>2. CASE op = "allOf"
      BY <3>2 DEF Evaluate, Comparisons, Equalities, Orderings, ConditionalLists, Folds
    <3> QED BY <3>1, <3>2 DEF Folds
  <2>3. {CompareValues("eq", At(args[i].val, Root), At(args[3].val, Root)) : i \in 1 .. 2} = {a, b}
    <3>1. 1 .. 2 = {1, 2}
      OBVIOUS
    <3> QED BY <1>11, <1>14, <1>15, <3>1
  <2> QED BY <1>11, <2>1, <2>2, <2>3
<1>18. PICK S : S = {a, b}
  OBVIOUS
<1>19. S \subseteq Plain /\ (True \in S <=> a = True \/ b = True) /\ ((\A x \in S : x = True) <=> a = True /\ b = True)
  BY <1>16, <1>18, TriPlain
<1>20. PICK z : z = Junction(op = "existsOf", S)
  OBVIOUS
<1>21. /\ op = "existsOf" => (z = True <=> a = True \/ b = True)
       /\ op = "allOf" => (z = True <=> a = True /\ b = True)
  <2>1. CASE op = "existsOf"
    <3>1. z = Junction(TRUE, S) /\ TRUE \in BOOLEAN
      BY <1>20, <2>1
    <3>2. z = Bool(TRUE) <=> Bool(TRUE) \in S
      BY <1>19, <3>1, JunctionIs
    <3> QED BY <1>19, <2>1, <3>2 DEF Bool
  <2>2. CASE op = "allOf"
    <3>1. z = Junction(FALSE, S) /\ FALSE \in BOOLEAN
      BY <1>20, <2>2
    <3>2. z = Bool(~FALSE) <=> \A x \in S : x = Bool(~FALSE)
      BY <1>19, <3>1, JunctionIs
    <3> QED BY <1>19, <2>2, <3>2 DEF Bool
  <2> QED BY <2>1, <2>2 DEF Folds
<1>22. m.guard[Root] <=> Guards(args, Root)
  <2>1. op \notin Guarded
    BY DEF Folds, Guarded
  <2> QED BY <1>3, <2>1, InPlaceGuard
<1>23. Guards(args, Root) => v # Err /\ w # Err
  <2>1. 1 \in DOMAIN args /\ 2 \in DOMAIN args
    BY <1>2
  <2> QED BY <1>12, <1>13, <2>1 DEF Guards
<1>24. m.val[Root] = IF v = Err \/ w = Err THEN Err ELSE z
  BY <1>17, <1>18, <1>20
<1> QED BY <1>10, <1>12, <1>13, <1>15, <1>21, <1>22, <1>23, <1>24, Constants DEF Folds

LEMMA IfSays ==
  ASSUME NEW args, NEW m, InPlace("if", args, m)
  PROVE  (m.scope = "element" => Covered(m, args)) /\ \A e \in Places("if", args) : Says(m, args, e)
<1>1. Well("if", args) /\ m.scope = ScopeOf(args) /\ DOMAIN m.agg = Places("if", args) /\ DOMAIN args = 1 .. 3
  BY InPlaceIs, WidthIs
<1>2. PICK agg, refused, f : agg = m.agg /\ refused = m.aggThrows /\ f = m.yes
  OBVIOUS
<1>3. f = EmitExpr(ScopeOf(args), refused, agg,
                   [e \in DOMAIN agg |-> (\A i \in DOMAIN args : At(args[i].guard, e)) /\ Truthy(agg[e])])
  <2>1. m.yes = BuildFilter("if", args, m.agg, m.aggThrows) /\ ~OuterReference("if", args)
    BY InPlaceIs DEF InPlace
  <2> QED BY <1>2, <2>1, BuildIfIs
<1>4. PICK match : match = [e \in DOMAIN agg |-> (\A i \in DOMAIN args : At(args[i].guard, e)) /\ Truthy(agg[e])]
  OBVIOUS
<1>5. match \in [DOMAIN agg -> BOOLEAN] /\ \A e \in DOMAIN agg : match[e] <=> Guards(args, e) /\ Truthy(agg[e])
  BY <1>4 DEF Guards
<1>6. (f.throws <=> m.scope = "element" \/ refused) /\ (~f.throws => f.match = match /\ (f.aborts <=> agg[Root] = Err))
  <2>1. f = EmitExpr(m.scope, refused, agg, match)
    BY <1>1, <1>3, <1>4
  <2> QED BY <1>5, <2>1, EmitExprIs
<1>7. TranslateNot(m, args) = Nor(m)
  BY NorOf
<1>8. m.scope = "element" => Covered(m, args)
  BY <1>2, <1>6, <1>7, NorRefused DEF Covered
<1>9. SUFFICES ASSUME NEW e \in Places("if", args) PROVE Says(m, args, e)
  BY <1>8
<1>10. CASE f.throws
  <2>1. ~Runs(m.yes) /\ ~Runs(Nor(m))
    BY <1>2, <1>10, NorRefused DEF Runs
  <2> QED BY <1>7, <2>1 DEF Says, SaysYes, SaysNo, Allows, Denies
<1>11. CASE ~f.throws
  <2>1. m.scope = "root" /\ e = Root
    <3>1. m.scope \in {"root", "element"} /\ e \in Envs(ElementEnvs, ScopeOf(args))
      BY InPlaceIs
    <3> QED BY <1>1, <1>6, <1>11, <3>1 DEF Envs
  <2>2. /\ m.agg[e] = Aggregate("if", args, Inputs(args, e))
        /\ m.guard[e] <=> Guards(args, e)
        /\ m.aggThrows <=> AggregateThrows("if", args)
        /\ m.listShape[e]
    BY InPlaceGuard DEF Guarded, ListsRead
  <2>3. HasOverload("if", args, e) /\ \A i \in DOMAIN args : args[i].typed
    BY Overloaded DEF InPipeline
  <2>4. m.val[e] \in Plain /\ m.val[e] = Evaluate("if", args, e) /\ e \in Envs(ElementEnvs, ScopeOf(args))
    BY InPlaceIs
  <2>5. m.guard[e] => Computes(m.agg[e], m.val[e])
    <3>1. SUFFICES ASSUME m.guard[e] PROVE Computes(m.agg[e], m.val[e])
      OBVIOUS
    <3>2. Reading("if", args, e)
      BY <1>1, <1>2, <1>6, <1>11, <2>2, <2>3, <2>4, <3>1 DEF Reading, Computable, Guards
    <3>3. OwnGuard("if", Inputs(args, e), Aggregate("if", args, Inputs(args, e)))
      BY DEF OwnGuard
    <3> QED BY <2>2, <2>4, <3>2, <3>3, Agreement
  <2>6. m.yes.match[e] <=> m.guard[e] /\ Truthy(m.agg[e])
    BY <1>1, <1>2, <1>5, <1>6, <1>11, <2>2
  <2>7. Runs(m.yes) /\ m.guard[e] => m.agg[e] = m.val[e] /\ m.val[e] # Err
    BY <1>2, <1>6, <2>1, <2>5 DEF Runs, Computes
  <2>8. /\ m.val[e] = True => Truthy(m.val[e])
        /\ m.val[e] = False => ~Truthy(m.val[e])
        /\ Truthy(m.val[e]) /\ m.val[e].t = "bool" => m.val[e] = True
        /\ m.val[e].t = "error" => m.val[e] = Err
    <3>1. PICK x : x = m.val[e]
      OBVIOUS
    <3>2. x = True => Truthy(x)
      BY <2>4, <3>1, TruthyIs
    <3>3. x = False => ~Truthy(x)
      BY <2>4, <3>1 DEF Truthy
    <3>4. Truthy(x) /\ x.t = "bool" => x = True
      BY <2>4, <3>1, TruthyIs
    <3>5. x.t = "error" => x = Err
      BY <2>4, <3>1, PlainIs, ValueIs
    <3> QED BY <3>1, <3>2, <3>3, <3>4, <3>5
  <2>9. SaysYes(m, e)
    BY <2>1, <2>6, <2>7, <2>8 DEF SaysYes, Allows, Lost, IsTri
  <2>10. SaysNo(m, TranslateNot(m, args), e)
    <3>1. Runs(m.yes) => /\ m.guard[e] /\ m.listShape[e] => m.val[e] # Err
                         /\ m.guard[e] /\ m.listShape[e] /\ m.val[e] = True => m.yes.match[e]
                         /\ m.val[e] = False => ~m.yes.match[e] /\ m.listShape[e]
      BY <2>2, <2>6, <2>7, <2>8
    <3>2. m.scope = "element" /\ ~m.exprGuard /\ ~m.yes.throws => m.guard[e] \/ NullElement
      BY <2>1
    <3> QED BY <1>7, <3>1, <3>2, NorSays
  <2> QED BY <2>9, <2>10 DEF Says
<1> QED BY <1>10, <1>11

LEMMA MacroSays ==
  ASSUME NEW op \in Macros, NEW args, NEW m, Expression(op, args, m)
  PROVE  m.scope = "root" /\ \A e \in Places(op, args) : Says(m, args, e)
<1>1. Well(op, args) /\ m = BareExpression(op, args) /\ ~Inside(op) /\ Admitted = {} /\ op # "map"
  BY DEF Expression, Inside, Macros
<1>2. m.scope = "root" /\ Places(op, args) = {Root}
  BY <1>1, BareOutside
<1>3. ~OuterReference(op, args)
  BY DEF OuterReference
<1>4. m.yes = Quantifier(op, args) /\ m.kind = op
  <2>1. m.yes = BuildFilter(op, args, m.agg, m.aggThrows) /\ m.kind = op
    BY <1>1, BareParts, BareHead
  <2> QED BY <1>3, <2>1, BuildIs
<1>5. ~Runs(TranslateNot(m, args))
  <2>1. op \notin Junctions \union SetOperations \union Equalities \union Orderings \union {"not", "in", "hasIntersection", "isSubset"}
    BY DEF Macros, Junctions, SetOperations, Equalities, Orderings
  <2>2. TranslateNot(m, args) = Nor(m)
    BY <1>3, <1>4, <2>1 DEF TranslateNot
  <2> QED BY <1>4, <2>2, NorRefused
<1>6. PICK x, v, body : x = args[1].agg[Root] /\ v = At(args[1].val, Root) /\ body = args[2].yes
  OBVIOUS
<1>7. PICK f : f = m.yes
  OBVIOUS
<1>8. SUFFICES ASSUME Runs(f)
               PROVE  (f.match[Root] => m.val[Root] = True) /\ (m.val[Root] = True => f.match[Root] \/ NullElement)
  BY <1>2, <1>5, <1>7 DEF Says, SaysYes, SaysNo, Allows, Denies, Lost
<1>9. /\ op # "existsOne" /\ ~body.throws /\ ~body.aborts
      /\ op = "all" => (f.match[Root] <=> IsCollection(x) /\ \A e \in Elements(x) : body.match[e])
      /\ op # "all" => (f.match[Root] <=> \E e \in Elements(x) : body.match[e])
  <2>1. f = Quantifier(op, args) /\ ~f.throws /\ ~f.aborts
    BY <1>4, <1>7, <1>8 DEF Runs
  <2> QED BY <1>1, <1>6, <2>1, QuantifierIs
<1>10. /\ args[1].kind = "variable" /\ args[1].shape = "many" /\ v \in Plain
       /\ CellFine(args[1], x, v, args[1].guard[Root]) /\ Elements(x) = ElementEnvs
       /\ NodeOK(args[2]) /\ args[2].scope = "element" /\ args[2].shape \notin Lists /\ args[2].kind \notin SetOperations
  BY <1>1, <1>6, MacroOperands
<1>11. ASSUME NEW e \in ElementEnvs
       PROVE  /\ body.match[e] => args[2].val[e] = True
              /\ args[2].val[e] = True => body.match[e] \/ NullElement
  <2>1. Proven(args[2], ElementEnvs, NullElement)
    BY <1>1, <1>10 DEF NodeOK, NodeFine, ReadsFine
  <2>2. e \in Envs(ElementEnvs, args[2].scope)
    BY <1>10 DEF Envs
  <2>3. Allows(body, e, args[2].val[e], Lost(args[2], e, NullElement), args[2].scope = "root")
    BY <1>6, <2>1, <2>2 DEF Proven
  <2>4. Runs(body)
    BY <1>9 DEF Runs
  <2> QED BY <1>10, <2>3, <2>4 DEF Allows, Lost
<1>12. PICK B : B = Bodies(args)
  OBVIOUS
<1>13. /\ B \subseteq Plain
       /\ v.t = "list" => \A y : y \in B <=> \E e \in ElementEnvs : y = args[2].val[e]
       /\ x.t = "list" => v = x
       /\ x.t = "list" <=> IsCollection(x)
       /\ v.t = "list" <=> x.t = "list" /\ v # Err
  BY <1>1, <1>6, <1>12, BodiesAre
<1>14. v.t = "list" <=> x.t = "list"
  BY <1>13
<1>15. ElementEnvs # {} => x.t = "list"
  BY <1>10, <1>13 DEF Elements
<1>16. m.val[Root] = IF op = "all" THEN All(v, B) ELSE Exists(v, B)
  <2>1. m.val[Root] = Evaluate(op, args, Root)
    BY <1>1, <1>2, BareHead
  <2>2. /\ op = "exists" => Evaluate(op, args, Root) = Exists(v, B)
        /\ op = "all" => Evaluate(op, args, Root) = All(v, B)
    BY <1>1, <1>6, <1>12, EvaluateOutside
  <2> QED BY <1>9, <2>1, <2>2 DEF Macros
<1>17. /\ v.t # "list" => Exists(v, B) = Err /\ All(v, B) = Err
       /\ v.t = "list" => /\ Exists(v, B) = True <=> True \in B
                          /\ All(v, B) = True <=> \A y \in B : y = True
  BY <1>10, <1>13, MacroIs
<1>18. CASE x.t # "list"
  <2>1. m.val[Root] = Err /\ ElementEnvs = {}
    BY <1>14, <1>15, <1>16, <1>17, <1>18
  <2>2. ~f.match[Root]
    BY <1>9, <1>10, <1>13, <1>18, <2>1
  <2> QED BY <2>1, <2>2, Constants
<1>19. CASE x.t = "list"
  <2>1. \A y : y \in B <=> \E e \in ElementEnvs : y = args[2].val[e]
    BY <1>13, <1>14, <1>19
  <2>2. CASE op = "all"
    <3>1. m.val[Root] = True <=> \A e \in ElementEnvs : args[2].val[e] = True
      BY <1>14, <1>16, <1>17, <1>19, <2>1, <2>2
    <3>2. f.match[Root] <=> \A e \in ElementEnvs : body.match[e]
      BY <1>9, <1>10, <1>13, <1>19, <2>2
    <3> QED BY <1>11, <3>1, <3>2
  <2>3. CASE op # "all"
    <3>1. m.val[Root] = True <=> \E e \in ElementEnvs : args[2].val[e] = True
      BY <1>14, <1>16, <1>17, <1>19, <2>1, <2>3
    <3>2. f.match[Root] <=> \E e \in ElementEnvs : body.match[e]
      BY <1>9, <1>10, <2>3
    <3> QED BY <1>11, <3>1, <3>2
  <2> QED BY <2>2, <2>3
<1> QED BY <1>18, <1>19

-----------------------------------------------------------------------------
(* Collections *)

\* An attribute mapped to a native array, or to a relation.
ArrayField(n) == NodeOK(n) /\ n.kind = "variable" /\ n.shape \in Lists

LEMMA ArrayIs ==
  ASSUME NEW n, ArrayField(n)
  PROVE  LET x == n.agg[Root]
             v == n.val[Root]
             g == n.guard[Root]
         IN /\ n.scope = "root" /\ DOMAIN n.agg = {Root} /\ n.lit = Undefined
            /\ x \in Cells /\ v \in Plain /\ g \in BOOLEAN
            /\ v.t = "list" <=> x.t = "list"
            /\ x.t = "list" => v = x /\ v # Err
            /\ IsCollection(x) <=> x.t = "list"
            /\ x.t = "list" => Elements(x) = Members[x]
            /\ x.t # "list" => Elements(x) = {}
            /\ Elements(x) \subseteq Item
            /\ \A m \in Elements(x) : CanEqual(n.type, m)
            /\ g /\ n.nullable => Null \notin Elements(x)
            /\ n.shape = "many" /\ n.elementNullable /\ Null \in Elements(x) => NullElement \/ ~g
<1>1. PICK x, v, g : x = n.agg[Root] /\ v = n.val[Root] /\ g = n.guard[Root]
  OBVIOUS
<1>2. NodeOK(n) /\ n.kind = "variable" /\ n.shape \in {"list", "many"}
  BY DEF ArrayField, Lists
<1>3. n.scope = "root" /\ n.lit = Undefined /\ DOMAIN n.agg = Envs(ElementEnvs, n.scope)
  BY <1>2, FieldIs
<1>4. DOMAIN n.agg = {Root}
  BY <1>3 DEF Envs
<1>5. CellFine(n, x, v, g) /\ v \in Plain /\ g \in BOOLEAN
  BY <1>1, <1>2, <1>4, FieldIs
<1>6. /\ x \in Value /\ x \in Cells /\ x # Err
      /\ Missing(x) <=> x = Null \/ x = Undefined
      /\ v = Err <=> x = Undefined \/ (n.nullable /\ x = Null)
      /\ v # Err => v = x
      /\ g <=> /\ n.nullable => ~Missing(x) /\ Null \notin Elements(x)
               /\ n.shape = "one" => x # Undefined
  <2>1. n.nullable \in BOOLEAN
    BY <1>2, FieldIs
  <2> QED BY <1>5, <2>1, CellIs
<1>7. x.t \in {"null", "undefined", "list"}
  BY <1>2, <1>5 DEF CellFine, Lists
<1>8. x.t = "list" => v = x /\ v # Err
  BY <1>6, Constants
<1>9. v.t = "list" => x.t = "list"
  BY <1>6, Constants
<1>10. (IsCollection(x) <=> x.t = "list") /\ (x.t = "list" => Elements(x) = Members[x]) /\ (x.t # "list" => Elements(x) = {})
  BY <1>7 DEF IsCollection, Elements
<1>11. Elements(x) \subseteq Item
  BY <1>6, <1>10, ListIs
<1>12. ASSUME NEW m \in Elements(x) PROVE CanEqual(n.type, m)
  <2>1. x.t = "list" /\ m \in Members[x] /\ IsCollection(x)
    BY <1>10
  <2>2. n.type # "none" => m.t = n.type \/ Missing(m)
    BY <1>5, <2>1 DEF CellFine
  <2>3. m # Undefined
    BY <1>11, ItemIs
  <2> QED BY <2>2, <2>3 DEF CanEqual, Missing
<1>13. g /\ n.nullable => Null \notin Elements(x)
  BY <1>6
<1>14. n.shape = "many" /\ n.elementNullable /\ Null \in Elements(x) => NullElement \/ ~g
  BY <1>1, <1>2 DEF NodeOK, NodeFine, VariableFine
<1> QED BY <1>1, <1>3, <1>4, <1>5, <1>6, <1>8, <1>9, <1>10, <1>11, <1>12, <1>13, <1>14

\* The constants a field of this type can equal.
Kept(type, S) == {m \in S : CanEqual(type, m)}

LEMMA KeptIs ==
  ASSUME NEW type, NEW lit \in Plain, lit.t = "list"
  PROVE  LET w == WithoutUnequal(type, lit) IN
         /\ w.t = "list" /\ Members[w] = Kept(type, Members[lit]) /\ w # Null
         /\ Members[lit] \subseteq Item
         /\ Null \in Kept(type, Members[lit]) <=> Null \in Members[lit]
<1>1. lit \in Value /\ Kept(type, Members[lit]) \in SUBSET Members[lit]
  BY DEF Plain, Kept
<1>2. PICK w : w = WithoutUnequal(type, lit)
  OBVIOUS
<1>3. w = ListOf(Kept(type, Members[lit]))
  BY <1>2 DEF WithoutUnequal, Kept
<1>4. w.t = "list" /\ Members[w] = Kept(type, Members[lit]) /\ Members[lit] \subseteq Item
  BY <1>1, <1>3, ListIs
<1>5. w # Null
  BY <1>4, Constants
<1>6. Null \in Kept(type, Members[lit]) <=> Null \in Members[lit]
  BY DEF Kept, CanEqual
<1> QED BY <1>2, <1>4, <1>5, <1>6

\* Membership of a constant in an array, behind the array's guards.
LEMMA MemberIs ==
  ASSUME NEW args, NEW needle, NEW n, args[1].kind = "value", args[1].lit = needle, needle \in Item, args[2] = n, ArrayField(n),
         NEW f, f = TranslateIn(args), ~f.throws
  PROVE  /\ ~f.aborts /\ FilterTyped(f, {Root})
         /\ f.match[Root] => needle \in Elements(n.agg[Root])
         /\ needle \in Elements(n.agg[Root]) /\ n.guard[Root] => f.match[Root]
<1>1. PICK x, g : x = n.agg[Root] /\ g = n.guard[Root]
  OBVIOUS
<1>2. /\ DOMAIN n.agg = {Root} /\ Elements(x) \subseteq Item /\ g \in BOOLEAN
      /\ \A m \in Elements(x) : CanEqual(n.type, m)
      /\ g /\ n.nullable => Null \notin Elements(x)
  BY <1>1, ArrayIs
<1>3. /\ needle.t # "list" /\ needle # Undefined
      /\ \A m \in Elements(x) : m # Undefined
  BY <1>2, ItemIs
<1>4. n.kind = "variable" /\ n.shape \in {"list", "many"}
  BY DEF ArrayField, Lists
<1>5. /\ ~CanEqual(n.type, needle) => f = EmitLeafComparison(n, "nothing", needle, FALSE, FALSE)
      /\ CanEqual(n.type, needle) /\ n.shape = "many" => f = EmitValueComparison(n, "eq", needle, needle)
      /\ CanEqual(n.type, needle) /\ n.shape = "list" => f = EmitUncastListMembership(n, {needle})
  BY <1>3, <1>4 DEF TranslateIn
<1>6. CASE ~CanEqual(n.type, needle)
  <2>1. needle \notin Elements(x)
    BY <1>2, <1>6
  <2>2. f = EmitLeafComparison(n, "nothing", needle, FALSE, FALSE) /\ Root \in DOMAIN n.agg
    BY <1>2, <1>5, <1>6
  <2>4. /\ FilterTyped(f, DOMAIN n.agg) /\ ~f.aborts
        /\ n.shape = "many" =>
             (f.match[Root] <=> \E m \in Elements(n.agg[Root]) : GuardedMatches("nothing", m, needle, FALSE, FALSE))
        /\ n.shape # "many" => (f.match[Root] <=> GuardedMatches("nothing", n.agg[Root], needle, FALSE, FALSE))
    BY <2>2, LeafIs
  <2>3. \A m : ~GuardedMatches("nothing", m, needle, FALSE, FALSE)
    BY QueryIs DEF GuardedMatches
  <2> QED BY <1>1, <1>2, <2>1, <2>3, <2>4
<1>7. CASE CanEqual(n.type, needle) /\ n.shape = "many"
  <2>1. /\ ~f.aborts /\ FilterTyped(f, DOMAIN n.agg)
        /\ f = EmitLeafComparison(n, "eq", needle, n.nullable, CarriesNull(needle))
    BY <1>5, <1>7, ValueComparisonIs
  <2>4. PICK required, nullable : required = CarriesNull(needle) /\ nullable = n.nullable
    OBVIOUS
  <2>5. f = EmitLeafComparison(n, "eq", needle, nullable, required) /\ Root \in DOMAIN n.agg
    BY <1>2, <2>1, <2>4
  <2>6. /\ FilterTyped(f, DOMAIN n.agg) /\ ~f.aborts
        /\ n.shape = "many" =>
             (f.match[Root] <=> \E m \in Elements(n.agg[Root]) : GuardedMatches("eq", m, needle, nullable, required))
        /\ n.shape # "many" => (f.match[Root] <=> GuardedMatches("eq", n.agg[Root], needle, nullable, required))
    BY <2>5, LeafIs
  <2>2. f.match[Root] <=> \E m \in Elements(x) : GuardedMatches("eq", m, needle, nullable, required)
    BY <1>1, <1>7, <2>6
  <2>3. ASSUME NEW m \in Elements(x)
        PROVE  /\ GuardedMatches("eq", m, needle, nullable, required) => m = needle
               /\ m = needle /\ (nullable => Null # needle) => GuardedMatches("eq", m, needle, nullable, required)
    <3>1. QueryMatches("eq", m, needle) <=> IF needle = Null THEN Missing(m) ELSE m = needle
      BY QueryIs
    <3>2. Missing(m) <=> m = Null
      BY <1>3 DEF Missing
    <3> QED BY <1>3, <3>1, <3>2 DEF GuardedMatches
  <2> QED BY <1>1, <1>2, <2>1, <2>2, <2>3, <2>4
<1>8. CASE CanEqual(n.type, needle) /\ n.shape = "list"
  <2>1. PICK S : S = {needle}
    OBVIOUS
  <2>2. f = EmitUncastListMembership(n, S) /\ Root \in DOMAIN n.agg
    BY <1>2, <1>5, <1>8, <2>1
  <2>3. /\ FilterTyped(f, DOMAIN n.agg) /\ ~f.aborts
        /\ f.match[Root] <=> n.guard[Root] /\ Elements(n.agg[Root]) \intersect S # {}
    BY <2>2, MembershipIs
  <2> QED BY <1>1, <1>2, <2>1, <2>3
<1> QED BY <1>4, <1>6, <1>7, <1>8

\* The $nor of a membership, and of an intersection, that no array is projected for.
LEMMA NorOfMembership ==
  ASSUME NEW args, NEW m
  PROVE  /\ InPlace("in", args, m) /\ ~(args[1].kind = "value" /\ args[2].kind = "map") => TranslateNot(m, args) = Nor(m)
         /\ InPlace("in", args, m) /\ args[1].kind = "value" /\ args[2].kind = "map" =>
              TranslateNot(m, args) = TranslateMapIntersection(args[2], {args[1].lit}, TRUE)
         /\ InPlace("hasIntersection", args, m) /\ CollectionFirst(args)[1].kind # "map" => TranslateNot(m, args) = Nor(m)
         /\ InPlace("hasIntersection", args, m) /\ CollectionFirst(args)[1].kind = "map" =>
              /\ CollectionFirst(args)[2].lit.t # "list" => TranslateNot(m, args) = Refusal
              /\ CollectionFirst(args)[2].lit.t = "list" =>
                   TranslateNot(m, args) = TranslateMapIntersection(CollectionFirst(args)[1], Members[CollectionFirst(args)[2].lit], TRUE)
<1>1. ASSUME InPlace("in", args, m) PROVE m.kind = "in" /\ ~OuterReference("in", args)
  BY <1>1, InPlaceIs DEF InPlace
<1>2. ASSUME InPlace("hasIntersection", args, m) PROVE m.kind = "hasIntersection" /\ ~OuterReference("hasIntersection", args)
  BY <1>2, InPlaceIs DEF InPlace
<1>3. "in" \notin Junctions \union SetOperations \union Equalities \union Orderings
  BY DEF Junctions, SetOperations, Equalities, Orderings
<1>4. "hasIntersection" \notin Junctions \union SetOperations \union Equalities \union Orderings
  BY DEF Junctions, SetOperations, Equalities, Orderings
<1>5. ASSUME InPlace("in", args, m), ~(args[1].kind = "value" /\ args[2].kind = "map") PROVE TranslateNot(m, args) = Nor(m)
  BY <1>1, <1>3, <1>5 DEF TranslateNot
<1>6. ASSUME InPlace("in", args, m), args[1].kind = "value" /\ args[2].kind = "map"
      PROVE TranslateNot(m, args) = TranslateMapIntersection(args[2], {args[1].lit}, TRUE)
  BY <1>1, <1>3, <1>6 DEF TranslateNot
<1>7. ASSUME InPlace("hasIntersection", args, m), CollectionFirst(args)[1].kind # "map" PROVE TranslateNot(m, args) = Nor(m)
  BY <1>2, <1>4, <1>7 DEF TranslateNot
<1>8. ASSUME InPlace("hasIntersection", args, m), CollectionFirst(args)[1].kind = "map"
      PROVE  /\ CollectionFirst(args)[2].lit.t # "list" => TranslateNot(m, args) = Refusal
             /\ CollectionFirst(args)[2].lit.t = "list" =>
                  TranslateNot(m, args) = TranslateMapIntersection(CollectionFirst(args)[1], Members[CollectionFirst(args)[2].lit], TRUE)
  BY <1>2, <1>4, <1>8 DEF TranslateNot
<1> QED BY <1>5, <1>6, <1>7, <1>8

\* An expression no filter can be built for.
LEMMA RefusedSays ==
  ASSUME NEW op, NEW args, NEW m, m.yes.throws, TranslateNot(m, args).throws
  PROVE  Covered(m, args) /\ \A e : Says(m, args, e)
BY DEF Covered, Says, SaysYes, SaysNo, Allows, Denies, Runs

\* What is read of an array: all it tells a plan, when it is there and its guards hold.
LEMMA ArraySays ==
  ASSUME NEW op \in {"in", "hasIntersection"}, NEW args, NEW m, InPlace(op, args, m), m.scope = "root",
         NEW j \in DOMAIN args, ArrayField(args[j]), \A i \in DOMAIN args : i # j => args[i].kind = "value",
         TranslateNot(m, args) = Nor(m), NEW P \in BOOLEAN,
         Runs(m.yes) => /\ m.yes.match[Root] => P
                        /\ P /\ args[j].guard[Root] => m.yes.match[Root],
         P => args[j].agg[Root].t = "list",
         m.val[Root] = IF args[j].val[Root].t = "list" THEN Bool(P) ELSE Err
  PROVE  Says(m, args, Root)
<1>1. PICK n, x, v, g : n = args[j] /\ x = n.agg[Root] /\ v = n.val[Root] /\ g = n.guard[Root]
  OBVIOUS
<1>2. /\ n.scope = "root" /\ DOMAIN n.agg = {Root} /\ g \in BOOLEAN
      /\ v.t = "list" <=> x.t = "list"
      /\ IsCollection(x) <=> x.t = "list"
  BY <1>1, ArrayIs
<1>3. Root \in Places(op, args)
  <2>1. Places(op, args) = Envs(ElementEnvs, ScopeOf(args)) /\ m.scope = ScopeOf(args)
    BY InPlaceIs
  <2> QED BY <2>1 DEF Envs
<1>4. /\ m.listShape[Root] <=> \A i \in ListsRead(op, args) : IsCollection(At(args[i].agg, Root))
      /\ op \notin Guarded => (m.guard[Root] <=> Guards(args, Root))
  BY <1>3, InPlaceGuard
<1>5. \A i \in ListsRead(op, args) : i = j
  <2>1. \A i \in DOMAIN args : args[i].kind = "variable" => i = j
    OBVIOUS
  <2> QED BY <2>1 DEF ListsRead
<1>6. j \in ListsRead(op, args)
  BY DEF ListsRead, ArrayField, Lists
<1>7. At(n.agg, Root) = x /\ At(n.guard, Root) = g
  <2>1. NodeOK(n) /\ n.kind # "value"
    BY <1>1 DEF ArrayField
  <2> QED BY <1>1, <1>3, <2>1, OperandSays
<1>8. m.listShape[Root] <=> x.t = "list"
  BY <1>1, <1>2, <1>4, <1>5, <1>6, <1>7
<1>9. m.guard[Root] => g
  <2>1. op \notin Guarded
    BY DEF Guarded
  <2> QED BY <1>1, <1>4, <1>7, <2>1 DEF Guards
<1>10. m.guard[Root] \/ ~g
  <2>1. op \notin Guarded
    BY DEF Guarded
  <2>2. ASSUME NEW i \in DOMAIN args, i # j PROVE At(args[i].guard, Root)
    <3>1. Well(op, args) /\ Root \in Envs(ElementEnvs, ScopeOf(args)) /\ args[i].kind = "value"
      BY <1>3, <2>2, InPlaceIs
    <3> QED BY <3>1, WellOperand
  <2> QED BY <1>1, <1>4, <1>7, <2>1, <2>2 DEF Guards
<1>11. m.val[Root] = IF x.t = "list" THEN Bool(P) ELSE Err
  BY <1>1, <1>2
<1>12. /\ m.val[Root] # Err <=> x.t = "list"
       /\ m.val[Root] = True <=> P
       /\ m.val[Root] = False <=> x.t = "list" /\ ~P
  BY <1>1, <1>11, Constants DEF Bool
<1>13. SaysYes(m, Root)
  BY <1>1, <1>9, <1>12 DEF SaysYes, Allows, Lost
<1>14. SaysNo(m, TranslateNot(m, args), Root)
  <2>1. Runs(m.yes) => /\ m.guard[Root] /\ m.listShape[Root] => m.val[Root] # Err
                       /\ m.guard[Root] /\ m.listShape[Root] /\ m.val[Root] = True => m.yes.match[Root]
                       /\ m.val[Root] = False => ~m.yes.match[Root] /\ m.listShape[Root]
    BY <1>1, <1>8, <1>9, <1>12
  <2> QED BY <1>3, <2>1, NorSays
<1> QED BY <1>13, <1>14 DEF Says

\* What an intersection with a projection of the relation says: exactly what CEL does.
LEMMA ProjectionSays ==
  ASSUME NEW op \in {"in", "hasIntersection"}, NEW args, NEW m, InPlace(op, args, m),
         NEW map, NodeOK(map), map.kind = "map", NEW S,
         m.yes.throws \/ m.yes = TranslateMapIntersection(map, S, FALSE),
         TranslateNot(m, args).throws \/ TranslateNot(m, args) = TranslateMapIntersection(map, S, TRUE),
         m.val[Root] = IF map.val[Root].t = "list" THEN Bool(Members[map.val[Root]] \intersect S # {}) ELSE Err
  PROVE  Says(m, args, Root)
<1>1. PICK x, v, no : x = map.agg[Root] /\ v = map.val[Root] /\ no = TranslateNot(m, args)
  OBVIOUS
<1>2. MapFine(map, ElementEnvs, Array # {}, NullElement) /\ NodeTyped(map, ElementEnvs, Array # {})
  BY DEF NodeOK, NodeFine
<1>3. /\ map.shape = "many" /\ map.nullable \in BOOLEAN /\ map.scope = "root" /\ Root \in DOMAIN map.agg
      /\ x \in Cells /\ x.t \in {"null", "undefined", "list"} /\ Elements(x) = ElementEnvs
      /\ v = IF x.t = "list" /\ ~(map.nullable /\ Null \in ElementEnvs) THEN x ELSE Err
      /\ map.type # "none" => \A e \in ElementEnvs : e.t = map.type \/ e = Null
  BY <1>1, <1>2 DEF MapFine, NodeTyped, Envs
<1>4. /\ IsCollection(x) <=> x.t = "list"
      /\ x.t = "list" => Members[x] = ElementEnvs
      /\ x.t # "list" => ElementEnvs = {}
  BY <1>3 DEF IsCollection, Elements
<1>5. ElementEnvs \subseteq Item
  BY InPlaceIs DEF Well
<1>6. \A e \in ElementEnvs : (Missing(e) <=> e = Null) /\ CanEqual(map.type, e)
  BY <1>3, <1>5, ItemIs DEF Missing, CanEqual
<1>7. v.t = "list" <=> x.t = "list" /\ ~(map.nullable /\ Null \in ElementEnvs)
  BY <1>3, Constants
<1>8. ASSUME NEW negated \in BOOLEAN, NEW f, f = TranslateMapIntersection(map, S, negated)
      PROVE  /\ ~f.throws /\ ~f.aborts
             /\ ~negated => (f.match[Root] <=> v.t = "list" /\ ElementEnvs \intersect S # {})
             /\ negated => (f.match[Root] <=> v.t = "list" /\ ElementEnvs \intersect S = {})
  <2>1. /\ ~f.throws /\ ~f.aborts
        /\ f.match[Root] <=>
             /\ map.nullable => \A e \in Elements(map.agg[Root]) : ~Missing(e)
             /\ negated => /\ IsCollection(map.agg[Root])
                           /\ \A e \in Elements(map.agg[Root]) : e \notin S \/ ~CanEqual(map.type, e)
             /\ ~negated => \E e \in Elements(map.agg[Root]) : e \in S /\ CanEqual(map.type, e)
    BY <1>3, <1>8, ProjectionIs
  <2>2. f.match[Root] <=>
             /\ map.nullable => Null \notin ElementEnvs
             /\ negated => x.t = "list" /\ ElementEnvs \intersect S = {}
             /\ ~negated => ElementEnvs \intersect S # {}
    BY <1>1, <1>3, <1>4, <1>6, <2>1
  <2>3. ElementEnvs \intersect S # {} => x.t = "list"
    BY <1>4
  <2> QED BY <1>7, <2>1, <2>2, <2>3
<1>9. /\ m.val[Root] = True <=> v.t = "list" /\ ElementEnvs \intersect S # {}
      /\ m.val[Root] = False <=> v.t = "list" /\ ElementEnvs \intersect S = {}
  <2>1. v.t = "list" => Members[v] = ElementEnvs
    BY <1>3, <1>4, <1>7
  <2> QED BY <1>1, <2>1, Constants DEF Bool
<1>10. SaysYes(m, Root)
  <2>1. Runs(m.yes) => (m.yes.match[Root] <=> m.val[Root] = True)
    <3>1. SUFFICES ASSUME m.yes = TranslateMapIntersection(map, S, FALSE) PROVE m.yes.match[Root] <=> m.val[Root] = True
      BY DEF Runs
    <3>2. PICK f : f = m.yes
      OBVIOUS
    <3> QED BY <1>8, <1>9, <3>1, <3>2
  <2> QED BY <2>1 DEF SaysYes, Allows
<1>11. SaysNo(m, no, Root)
  <2>1. Runs(no) => (no.match[Root] <=> m.val[Root] = False)
    <3>1. SUFFICES ASSUME no = TranslateMapIntersection(map, S, TRUE) PROVE no.match[Root] <=> m.val[Root] = False
      BY <1>1 DEF Runs
    <3> QED BY <1>8, <1>9, <3>1
  <2> QED BY <2>1 DEF SaysNo, Denies
<1> QED BY <1>1, <1>10, <1>11 DEF Says

\* The leaf of a field and the constants it may equal.
LEMMA ListedIs ==
  ASSUME NEW field, ScalarField(field), NEW lit \in Plain, lit.t = "list", NEW e \in DOMAIN field.agg,
         NEW f, f = EmitValueComparison(field, "in", WithoutUnequal(field.type, lit), lit), ~f.throws
  PROVE  /\ ~f.aborts /\ FilterTyped(f, DOMAIN field.agg)
         /\ f.match[e] <=> field.val[e] # Err /\ field.val[e] \in Members[lit]
<1>1. PICK x, v, g, w : x = field.agg[e] /\ v = field.val[e] /\ g = field.guard[e] /\ w = WithoutUnequal(field.type, lit)
  OBVIOUS
<1>2. NodeOK(field) /\ field.kind = "variable" /\ field.shape \notin Lists /\ field.shape # "many"
  BY DEF ScalarField, Lists
<1>3. CellFine(field, x, v, g) /\ field.nullable \in BOOLEAN
  BY <1>1, <1>2, FieldIs
<1>4. /\ x \in Value /\ x # Err
      /\ Missing(x) <=> x = Null \/ x = Undefined
      /\ v = Err <=> x = Undefined \/ (field.nullable /\ x = Null)
      /\ v # Err => v = x
      /\ field.type # "none" => x.t = field.type \/ Missing(x)
  BY <1>2, <1>3, CellIs
<1>5. PICK S, K : S = Members[lit] /\ K = Kept(field.type, S)
  OBVIOUS
<1>6. w.t = "list" /\ Members[w] = K /\ w # Null /\ S \subseteq Item /\ (Null \in K <=> Null \in S)
  BY <1>1, <1>5, KeptIs
<1>7. PICK required, nullable : required = CarriesNull(lit) /\ nullable = field.nullable
  OBVIOUS
<1>8. required <=> Null \in S
  <2>1. lit # Null
    BY Constants
  <2> QED BY <1>5, <1>7, <2>1 DEF CarriesNull
<1>9. ~f.aborts /\ FilterTyped(f, DOMAIN field.agg) /\ f = EmitLeafComparison(field, "in", w, nullable, required)
  BY <1>1, <1>7, ValueComparisonIs
<1>10. /\ field.shape = "many" =>
             (f.match[e] <=> \E m \in Elements(field.agg[e]) : GuardedMatches("in", m, w, nullable, required))
       /\ field.shape # "many" => (f.match[e] <=> GuardedMatches("in", field.agg[e], w, nullable, required))
  BY <1>9, LeafIs
<1>11. f.match[e] <=> /\ nullable => ~Missing(x)
                      /\ Null \in S => x # Undefined
                      /\ x \in K \/ (Missing(x) /\ Null \in S)
  <2>1. QueryMatches("in", x, w) <=> x \in K \/ (Missing(x) /\ Null \in S)
    BY <1>6, QueryIs
  <2> QED BY <1>1, <1>2, <1>8, <1>10, <2>1 DEF GuardedMatches
<1>12. Undefined \notin S /\ K \subseteq S
  <2>1. \A m \in S : m # Undefined
    BY <1>6, ItemIs
  <2> QED BY <1>5, <2>1 DEF Kept
<1>13. ~Missing(x) => (x \in K <=> x \in S)
  BY <1>4, <1>5 DEF Kept, CanEqual
<1>14. f.match[e] <=> v # Err /\ v \in S
  <2>1. CASE x = Undefined
    BY <1>4, <1>11, <1>12, <2>1
  <2>2. CASE x = Null
    BY <1>4, <1>6, <1>7, <1>11, <2>2, Constants
  <2>3. CASE x # Undefined /\ x # Null
    BY <1>4, <1>11, <1>13, <2>3
  <2> QED BY <2>1, <2>2, <2>3
<1> QED BY <1>1, <1>5, <1>9, <1>14

LEMMA ListedSays ==
  ASSUME NEW args, NEW m, InPlace("in", args, m), args[1].kind = "variable", args[2].kind = "value"
  PROVE  Covered(m, args) /\ \A e \in Places("in", args) : Says(m, args, e)
<1>1. /\ Well("in", args) /\ m.scope = ScopeOf(args) /\ Places("in", args) = Envs(ElementEnvs, ScopeOf(args))
      /\ m.yes = BuildFilter("in", args, m.agg, m.aggThrows) /\ ~OuterReference("in", args)
  BY InPlaceIs DEF InPlace
<1>2. DOMAIN args = 1 .. 2
  BY <1>1, WidthIs DEF Binary
<1>3. NodeOK(args[1]) /\ NodeOK(args[2])
  BY <1>1, <1>2, PairIs
<1>4. 1 \in DOMAIN args /\ 2 \in DOMAIN args
  BY <1>2
<1>5. args[1].shape \notin Lists \/ args[1].kind = "map"
  BY <1>1, <1>4, ScalarOperands
<1>6. ScalarField(args[1])
  BY <1>3, <1>5 DEF ScalarField
<1>7. args[2].lit \in Plain /\ args[2].lit.t = "list"
  <2>1. args[2].lit \in Plain /\ args[2].shape = "none"
    BY <1>3 DEF NodeOK, NodeFine, ValueFine
  <2> QED BY <1>1, <2>1 DEF Well, WellFormedPlan
<1>8. ScopeOf(args) = args[1].scope /\ DOMAIN args[1].agg = Places("in", args)
  BY <1>1, <1>2, BesideConstant
<1>9. TranslateNot(m, args) = Nor(m)
  BY NorOfMembership
<1>10. Covered(m, args)
  BY <1>2 DEF Covered
<1>11. m.yes = EmitValueComparison(args[1], "in", WithoutUnequal(args[1].type, args[2].lit), args[2].lit)
  <2>1. m.yes = TranslateIn(args)
    BY <1>1, BuildIs
  <2> QED BY <1>7, <2>1 DEF TranslateIn
<1>12. SUFFICES ASSUME NEW e \in Places("in", args) PROVE Says(m, args, e)
  BY <1>10
<1>13. PICK v, g : v = args[1].val[e] /\ g = args[1].guard[e]
  OBVIOUS
<1>14. /\ At(args[1].val, e) = v /\ At(args[1].guard, e) = g /\ v \in Plain
       /\ CellFine(args[1], At(args[1].agg, e), v, g)
       /\ At(args[2].val, e) = args[2].lit
  <2>1. At(args[1].val, e) = v /\ At(args[1].guard, e) = g
    BY <1>4, <1>13, OperandSays
  <2> QED BY <1>1, <1>4, <1>12, <2>1, WellOperand
<1>15. m.val[e] = In(v, args[2].lit)
  <2>1. m.val[e] = Evaluate("in", args, e)
    BY <1>12, InPlaceIs
  <2>2. Evaluate("in", args, e) = In(At(args[1].val, e), At(args[2].val, e))
    BY DEF Evaluate, Comparisons, Equalities, Orderings, ConditionalLists, Folds
  <2> QED BY <1>14, <2>1, <2>2
<1>16. /\ m.val[e] \in Tri /\ (m.val[e] # Err <=> v # Err)
       /\ m.val[e] = True <=> v # Err /\ v \in Members[args[2].lit]
  BY <1>7, <1>14, <1>15, InIs
<1>17. Runs(m.yes) => (m.yes.match[e] <=> m.val[e] = True)
  <2>1. PICK f : f = m.yes
    OBVIOUS
  <2>2. PICK lit : lit = args[2].lit
    OBVIOUS
  <2>3. ~f.throws => (f.match[e] <=> v # Err /\ v \in Members[lit])
    <3>1. f = EmitValueComparison(args[1], "in", WithoutUnequal(args[1].type, lit), lit) /\ lit \in Plain /\ lit.t = "list"
          /\ e \in DOMAIN args[1].agg
      BY <1>7, <1>8, <1>11, <1>12, <2>1, <2>2
    <3> QED BY <1>6, <1>13, <3>1, ListedIs
  <2> QED BY <1>16, <2>1, <2>2, <2>3 DEF Runs
<1>18. m.listShape[e]
  <2>1. m.listShape[e] <=> \A i \in ListsRead("in", args) : IsCollection(At(args[i].agg, e))
    BY <1>12, InPlaceGuard
  <2>2. ListsRead("in", args) = {}
    BY <1>2, <1>5 DEF ListsRead, Lists
  <2> QED BY <2>1, <2>2
<1>19. m.guard[e] => v # Err
  <2>1. "in" \notin Guarded
    BY DEF Guarded
  <2>2. m.guard[e] <=> Guards(args, e)
    BY <1>12, <2>1, InPlaceGuard
  <2>3. m.guard[e] => g
    BY <1>4, <1>14, <2>2 DEF Guards
  <2>4. ASSUME m.guard[e] PROVE v # Err
    <3>1. g = TRUE
      <4>1. g \in BOOLEAN
        BY <1>1, <1>4, <1>12, <1>14, WellOperand
      <4> QED BY <2>3, <2>4, <4>1
    <3>2. args[1].shape \notin Lists
      BY <1>6 DEF ScalarField
    <3> QED BY <1>14, <3>1, <3>2, GuardedAttribute
  <2> QED BY <2>4
<1>20. SaysYes(m, e)
  BY <1>17 DEF SaysYes, Allows
<1>21. m.scope = "element" /\ ~m.exprGuard /\ ~m.yes.throws => m.guard[e] \/ NullElement
  <2>1. SUFFICES ASSUME m.scope = "element", ~m.exprGuard PROVE m.guard[e] \/ NullElement
    OBVIOUS
  <2>2. e \in ElementEnvs
    BY <1>1, <1>12, <2>1 DEF Envs
  <2>3. \A i \in DOMAIN args : args[i].kind \in {"value", "variable"} \/ ~args[i].yes.throws \/ ~args[i].no.throws
    BY <1>2
  <2> QED BY <2>1, <2>2, <2>3, ElementGuards
<1>22. SaysNo(m, TranslateNot(m, args), e)
  <2>1. Runs(m.yes) => /\ m.guard[e] /\ m.listShape[e] => m.val[e] # Err
                       /\ m.guard[e] /\ m.listShape[e] /\ m.val[e] = True => m.yes.match[e]
                       /\ m.val[e] = False => ~m.yes.match[e] /\ m.listShape[e]
    BY <1>16, <1>17, <1>18, <1>19, Constants
  <2> QED BY <1>9, <1>12, <1>21, <2>1, NorSays
<1> QED BY <1>20, <1>22 DEF Says

LEMMA InSays ==
  ASSUME NEW args, NEW m, InPlace("in", args, m)
  PROVE  (m.scope = "element" => Covered(m, args)) /\ \A e \in Places("in", args) : Says(m, args, e)
<1>1. /\ Well("in", args) /\ m.scope = ScopeOf(args) /\ Places("in", args) = Envs(ElementEnvs, ScopeOf(args)) /\ m.kind = "in"
      /\ m.yes = BuildFilter("in", args, m.agg, m.aggThrows) /\ ~OuterReference("in", args)
  BY InPlaceIs DEF InPlace
<1>2. DOMAIN args = 1 .. 2 /\ m.yes = TranslateIn(args)
  BY <1>1, WidthIs, BuildIs DEF Binary
<1>3. NodeOK(args[1]) /\ NodeOK(args[2]) /\ 1 \in DOMAIN args /\ 2 \in DOMAIN args
  BY <1>1, <1>2, PairIs
<1>4. CASE args[1].kind = "variable" /\ args[2].kind = "value"
  BY <1>4, ListedSays
<1>5. PICK needle, n : needle = args[1].lit /\ n = args[2]
  OBVIOUS
<1>6. ASSUME args[1].kind = "value"
      PROVE  /\ needle \in Plain /\ needle # Err /\ (needle.t # "list" => needle \in Item)
             /\ m.scope = n.scope /\ (m.scope = "root" => At(args[1].val, Root) = needle)
  <2>1. needle \in Plain /\ needle.t # "error"
    BY <1>3, <1>5, <1>6 DEF NodeOK, NodeFine, ValueFine
  <2>2. needle # Err /\ (needle.t # "list" => needle \in Item)
    BY <2>1, Constants DEF Plain, PlainTypes, Item
  <2>3. m.scope = n.scope
    BY <1>1, <1>2, <1>5, <1>6, BesideConstant
  <2>4. m.scope = "root" => At(args[1].val, Root) = needle
    <3>1. SUFFICES ASSUME m.scope = "root" PROVE At(args[1].val, Root) = needle
      OBVIOUS
    <3>2. PICK e, i : e = Root /\ i = 1
      OBVIOUS
    <3>3. e \in Envs(ElementEnvs, ScopeOf(args)) /\ i \in DOMAIN args
      BY <1>1, <1>3, <3>1, <3>2 DEF Envs
    <3>4. args[i].kind = "value" => At(args[i].val, e) = args[i].lit
      BY <1>1, <3>3, WellOperand
    <3> QED BY <1>5, <1>6, <3>2, <3>4
  <2> QED BY <2>1, <2>2, <2>3, <2>4
<1>7. ASSUME args[1].kind = "value", m.scope = "root"
      PROVE  /\ Root \in Places("in", args) /\ \A e \in Places("in", args) : e = Root
             /\ m.val[Root] = In(needle, At(n.val, Root)) /\ At(n.val, Root) = n.val[Root] /\ n.val[Root] \in Plain
  <2>1. Root \in Places("in", args) /\ \A e \in Places("in", args) : e = Root
    BY <1>1, <1>7 DEF Envs
  <2>2. m.val[Root] = Evaluate("in", args, Root)
    BY <2>1, InPlaceIs
  <2>3. Evaluate("in", args, Root) = In(At(args[1].val, Root), At(args[2].val, Root))
    BY DEF Evaluate, Comparisons, Equalities, Orderings, ConditionalLists, Folds
  <2>4. n.kind # "value"
    <3>1. n.scope = "root"
      BY <1>6, <1>7
    <3> QED BY <1>3, <1>5, <3>1, ShapeIs
  <2>5. At(n.val, Root) = n.val[Root]
    BY <1>3, <1>5, <2>1, <2>4, OperandSays
  <2>6. At(n.val, Root) \in Plain
    BY <1>1, <1>3, <1>5, <2>1, WellOperand
  <2> QED BY <1>5, <1>6, <1>7, <2>1, <2>2, <2>3, <2>5, <2>6
<1>8. ASSUME args[1].kind = "value", m.scope = "root", NEW S, S = {needle}
      PROVE  m.val[Root] = IF n.val[Root].t = "list" THEN Bool(Members[n.val[Root]] \intersect S # {}) ELSE Err
  <2>1. PICK z, v : z = m.val[Root] /\ v = n.val[Root]
    OBVIOUS
  <2>2. z = In(needle, v) /\ v \in Plain /\ needle \in Plain /\ needle # Err
    BY <1>6, <1>7, <1>8, <2>1
  <2>3. /\ z \in Tri
        /\ z # Err <=> v.t = "list"
        /\ z = True <=> v.t = "list" /\ needle \in Members[v]
    BY <2>2, InIs
  <2>4. Members[v] \intersect S # {} <=> needle \in Members[v]
    BY <1>8
  <2> QED BY <2>1, <2>3, <2>4, Constants DEF Tri, Bool
<1>9. CASE args[1].kind = "value" /\ n.kind = "map"
  <2>1. m.scope = "root"
    <3>1. n.scope = "root"
      BY <1>3, <1>5, <1>9 DEF NodeOK, NodeFine, MapFine
    <3> QED BY <1>6, <1>9, <3>1
  <2>2. PICK S : S = {needle}
    OBVIOUS
  <2>3. m.yes.throws \/ m.yes = TranslateMapIntersection(n, S, FALSE)
    <3>1. Refusal.throws
      BY RefusalIs
    <3> QED BY <1>2, <1>5, <1>9, <2>2, <3>1 DEF TranslateIn
  <2>4. TranslateNot(m, args) = TranslateMapIntersection(n, S, TRUE)
    BY <1>5, <1>9, <2>2, NorOfMembership
  <2>5. m.val[Root] = IF n.val[Root].t = "list" THEN Bool(Members[n.val[Root]] \intersect S # {}) ELSE Err
    BY <1>8, <1>9, <2>1, <2>2
  <2>6. Says(m, args, Root)
    BY <1>3, <1>5, <1>9, <2>3, <2>4, <2>5, ProjectionSays
  <2> QED BY <1>7, <1>9, <2>1, <2>6
<1>10. CASE args[1].kind = "value" /\ n.kind = "variable" /\ n.shape # "one" /\ needle.t # "list"
  <2>1. ArrayField(n)
    <3>1. n.shape \in {"one", "list", "many"}
      <4>1. n.lit = Undefined
        BY <1>3, <1>5, <1>10, FieldIs
      <4>2. n.lit.t # "list"
        BY <4>1, Constants
      <4>3. WellFormedPlan("in", args)
        BY <1>1 DEF Well
      <4>4. args[2].kind = "map" \/ args[2].lit.t = "list" \/ args[2].shape \in {"one", "list", "many"}
        BY <4>3 DEF WellFormedPlan
      <4> QED BY <1>5, <1>10, <4>2, <4>4
    <3> QED BY <1>3, <1>5, <1>10, <3>1 DEF ArrayField, Lists
  <2>2. m.scope = "root"
    BY <1>6, <1>10, <2>1, ArrayIs
  <2>3. TranslateNot(m, args) = Nor(m)
    BY <1>5, <1>10, NorOfMembership
  <2>4. PICK x, v : x = n.agg[Root] /\ v = n.val[Root]
    OBVIOUS
  <2>5. PICK P : P = (needle \in Elements(x))
    OBVIOUS
  <2>6. P \in BOOLEAN
    BY <2>5
  <2>7. Runs(m.yes) => /\ m.yes.match[Root] => P
                       /\ P /\ n.guard[Root] => m.yes.match[Root]
    <3>1. PICK f : f = m.yes
      OBVIOUS
    <3>2. ~f.throws => /\ f.match[Root] => needle \in Elements(n.agg[Root])
                       /\ needle \in Elements(n.agg[Root]) /\ n.guard[Root] => f.match[Root]
      <4>1. f = TranslateIn(args) /\ needle \in Item
        BY <1>2, <1>6, <1>10, <3>1
      <4> QED BY <1>5, <1>10, <2>1, <4>1, MemberIs
    <3> QED BY <2>4, <2>5, <3>1, <3>2 DEF Runs
  <2>8. /\ v.t = "list" <=> x.t = "list"
        /\ x.t = "list" => v = x /\ Elements(x) = Members[x]
        /\ x.t # "list" => Elements(x) = {}
    BY <2>1, <2>4, ArrayIs
  <2>9. PICK S : S = {needle}
    OBVIOUS
  <2>10. m.val[Root] = IF v.t = "list" THEN Bool(P) ELSE Err
    <3>1. v.t = "list" => (P <=> Members[v] \intersect S # {})
      BY <2>5, <2>8, <2>9
    <3>2. m.val[Root] = IF v.t = "list" THEN Bool(Members[v] \intersect S # {}) ELSE Err
      BY <1>8, <1>10, <2>2, <2>4, <2>9
    <3> QED BY <3>1, <3>2 DEF Bool
  <2>11. P => x.t = "list"
    BY <2>5, <2>8
  <2>12. \A i \in DOMAIN args : i # 2 => args[i].kind = "value"
    BY <1>2, <1>10
  <2>13. PICK j : j = 2
    OBVIOUS
  <2>14. /\ j \in DOMAIN args /\ ArrayField(args[j]) /\ \A i \in DOMAIN args : i # j => args[i].kind = "value"
         /\ Runs(m.yes) => /\ m.yes.match[Root] => P
                           /\ P /\ args[j].guard[Root] => m.yes.match[Root]
         /\ P => args[j].agg[Root].t = "list"
         /\ m.val[Root] = IF args[j].val[Root].t = "list" THEN Bool(P) ELSE Err
    BY <1>3, <1>5, <2>1, <2>4, <2>7, <2>10, <2>11, <2>12, <2>13
  <2>15. Says(m, args, Root)
    BY <2>2, <2>3, <2>6, <2>14, ArraySays
  <2> QED BY <1>7, <1>10, <2>2, <2>15
<1>11. CASE /\ ~(args[1].kind = "variable" /\ args[2].kind = "value")
            /\ ~(args[1].kind = "value" /\ n.kind = "map")
            /\ ~(args[1].kind = "value" /\ n.kind = "variable" /\ n.shape # "one" /\ needle.t # "list")
  <2>1. m.yes = Refusal
    BY <1>2, <1>5, <1>11 DEF TranslateIn
  <2>2. TranslateNot(m, args) = Nor(m)
    BY <1>5, <1>11, NorOfMembership
  <2>3. m.yes.throws
    BY <2>1, RefusalIs
  <2>4. TranslateNot(m, args).throws
    BY <2>2, <2>3, NorRefused
  <2> QED BY <2>3, <2>4, RefusedSays
<1> QED BY <1>4, <1>5, <1>9, <1>10, <1>11

\* The leaf of an array and the constants it may hold.
LEMMA OverlapIs ==
  ASSUME NEW n, ArrayField(n), NEW lit \in Plain, lit.t = "list", NEW w, w = WithoutUnequal(n.type, lit),
         NEW K, K = Members[w], NEW required, NEW f, ~f.throws,
         IF n.shape = "list" /\ K # {} THEN f = EmitUncastListMembership(n, K)
         ELSE f = EmitLeafComparison(n, "in", w, FALSE, required)
  PROVE  /\ f.match[Root] => Elements(n.agg[Root]) \intersect Members[lit] # {}
         /\ Elements(n.agg[Root]) \intersect Members[lit] # {} /\ n.guard[Root] => f.match[Root]
<1>1. PICK x, g, S : x = n.agg[Root] /\ g = n.guard[Root] /\ S = Members[lit]
  OBVIOUS
<1>2. /\ DOMAIN n.agg = {Root} /\ Elements(x) \subseteq Item /\ x \in Cells
      /\ \A m \in Elements(x) : CanEqual(n.type, m)
      /\ x.t # "list" => Elements(x) = {}
      /\ x.t = "list" => Elements(x) = Members[x]
  BY <1>1, ArrayIs
<1>3. /\ K = Kept(n.type, S) /\ S \subseteq Item /\ (Null \in K <=> Null \in S)
  BY <1>1, KeptIs
<1>4. \A m \in Elements(x) : m # Undefined /\ (Missing(m) <=> m = Null) /\ (m \in K <=> m \in S)
  BY <1>2, <1>3, ItemIs DEF Missing, Kept
<1>5. K \subseteq S
  BY <1>3 DEF Kept
<1>6. n.shape \in {"list", "many"}
  BY DEF ArrayField, Lists
<1>7. CASE n.shape = "list" /\ K # {}
  <2>1. f = EmitUncastListMembership(n, K) /\ Root \in DOMAIN n.agg
    BY <1>2, <1>7
  <2>2. f.match[Root] <=> n.guard[Root] /\ Elements(n.agg[Root]) \intersect K # {}
    BY <2>1, MembershipIs
  <2> QED BY <1>1, <1>4, <1>5, <2>2
<1>8. CASE ~(n.shape = "list" /\ K # {})
  <2>1. f = EmitLeafComparison(n, "in", w, FALSE, required) /\ Root \in DOMAIN n.agg
    BY <1>2, <1>8
  <2>2. /\ n.shape = "many" =>
             (f.match[Root] <=> \E m \in Elements(n.agg[Root]) : GuardedMatches("in", m, w, FALSE, required))
        /\ n.shape # "many" => (f.match[Root] <=> GuardedMatches("in", n.agg[Root], w, FALSE, required))
    BY <2>1, LeafIs
  <2>3. \A m : GuardedMatches("in", m, w, FALSE, required) <=>
                 (required => m # Undefined) /\ (m \in K \/ (Missing(m) /\ Null \in K))
    BY QueryIs DEF GuardedMatches
  <2>4. CASE n.shape = "many"
    <3>1. \A m \in Elements(x) : GuardedMatches("in", m, w, FALSE, required) <=> m \in S
      BY <1>3, <1>4, <2>3
    <3> QED BY <1>1, <2>2, <2>4, <3>1
  <2>5. CASE n.shape = "list"
    <3>1. ~f.match[Root]
      BY <1>8, <2>2, <2>3, <2>5
    <3>2. Elements(x) \intersect S = {}
      BY <1>4, <1>8, <2>5
    <3> QED BY <1>1, <3>1, <3>2
  <2> QED BY <1>6, <2>4, <2>5
<1> QED BY <1>7, <1>8

\* What CEL says of the two lists, by the collection.
LEMMA OverlapValue ==
  ASSUME NEW args, NEW m, InPlace("hasIntersection", args, m), m.scope = "root", NEW n, NEW list,
         (n = args[1] /\ list = args[2]) \/ (n = args[2] /\ list = args[1]), list.kind = "value", list.lit.t = "list",
         n.kind # "value", NEW S, S = Members[list.lit]
  PROVE  /\ m.val[Root] \in Tri
         /\ m.val[Root] # Err <=> n.val[Root].t = "list"
         /\ m.val[Root] = True <=> n.val[Root].t = "list" /\ Members[n.val[Root]] \intersect S # {}
         /\ Places("hasIntersection", args) = {Root} /\ list.lit \in Plain
<1>1. /\ Well("hasIntersection", args) /\ m.scope = ScopeOf(args)
      /\ Places("hasIntersection", args) = Envs(ElementEnvs, ScopeOf(args))
  BY InPlaceIs
<1>2. Places("hasIntersection", args) = {Root}
  BY <1>1 DEF Envs
<1>3. DOMAIN args = 1 .. 2
  BY <1>1, WidthIs DEF Binary
<1>4. 1 \in DOMAIN args /\ 2 \in DOMAIN args /\ NodeOK(n) /\ NodeOK(list)
  BY <1>1, <1>3, PairIs
<1>5. m.val[Root] = HasIntersection(At(args[1].val, Root), At(args[2].val, Root))
  <2>1. m.val[Root] = Evaluate("hasIntersection", args, Root)
    BY <1>2, InPlaceIs
  <2>2. Evaluate("hasIntersection", args, Root) = HasIntersection(At(args[1].val, Root), At(args[2].val, Root))
    BY DEF Evaluate, Comparisons, Equalities, Orderings, ConditionalLists, Folds
  <2> QED BY <2>1, <2>2
<1>6. ASSUME NEW i \in {1, 2} PROVE /\ At(args[i].val, Root) \in Plain
                                    /\ args[i].kind = "value" => At(args[i].val, Root) = args[i].lit
                                    /\ args[i].kind # "value" => At(args[i].val, Root) = args[i].val[Root]
  <2>1. i \in DOMAIN args /\ Root \in Envs(ElementEnvs, ScopeOf(args)) /\ Root \in Places("hasIntersection", args)
    BY <1>1, <1>2, <1>4
  <2>2. At(args[i].val, Root) \in Plain /\ (args[i].kind = "value" => At(args[i].val, Root) = args[i].lit)
    BY <1>1, <2>1, WellOperand
  <2>3. args[i].kind # "value" => At(args[i].val, Root) = args[i].val[Root]
    BY <2>1, OperandSays
  <2> QED BY <2>2, <2>3
<1>7. PICK v, lit, z : v = n.val[Root] /\ lit = list.lit /\ z = m.val[Root]
  OBVIOUS
<1>8. v \in Plain /\ lit \in Plain /\ (z = HasIntersection(v, lit) \/ z = HasIntersection(lit, v))
  BY <1>5, <1>6, <1>7
<1>9. /\ z \in Tri
      /\ z # Err <=> v.t = "list" /\ lit.t = "list"
      /\ z = True <=> v.t = "list" /\ lit.t = "list" /\ Members[v] \intersect Members[lit] # {}
  <2>1. CASE z = HasIntersection(v, lit)
    BY <1>8, <2>1, ListsAre
  <2>2. CASE z = HasIntersection(lit, v)
    <3>1. Members[v] \intersect Members[lit] = Members[lit] \intersect Members[v]
      OBVIOUS
    <3> QED BY <1>8, <2>2, <3>1, ListsAre
  <2> QED BY <1>8, <2>1, <2>2
<1> QED BY <1>2, <1>7, <1>8, <1>9

LEMMA IntersectionSays ==
  ASSUME NEW args, NEW m, InPlace("hasIntersection", args, m)
  PROVE  (m.scope = "element" => Covered(m, args)) /\ \A e \in Places("hasIntersection", args) : Says(m, args, e)
<1>1. /\ Well("hasIntersection", args) /\ m.scope = ScopeOf(args)
      /\ m.yes = BuildFilter("hasIntersection", args, m.agg, m.aggThrows) /\ ~OuterReference("hasIntersection", args)
  BY InPlaceIs DEF InPlace
<1>2. DOMAIN args = 1 .. 2 /\ m.yes = TranslateHasIntersection(args)
  BY <1>1, WidthIs, BuildIs DEF Binary
<1>3. PICK n, list : n = CollectionFirst(args)[1] /\ list = CollectionFirst(args)[2]
  OBVIOUS
<1>4. /\ NodeOK(n) /\ NodeOK(list)
      /\ \/ n = args[1] /\ list = args[2]
         \/ n = args[2] /\ list = args[1]
      /\ list.lit.t = "list" => list.kind = "value" /\ ScopeOf(args) = n.scope
  BY <1>1, <1>2, <1>3, CollectionIs
<1>5. ASSUME m.yes = Refusal, TranslateNot(m, args) \in {Refusal, Nor(m)}
      PROVE  Covered(m, args) /\ \A e : Says(m, args, e)
  <2>1. m.yes.throws /\ Refusal.throws
    BY <1>5, RefusalIs
  <2>2. TranslateNot(m, args).throws
    BY <1>5, <2>1, NorRefused
  <2> QED BY <2>1, <2>2, RefusedSays
<1>6. CASE list.lit.t # "list"
  <2>1. m.yes = Refusal
    BY <1>2, <1>3, <1>6 DEF TranslateHasIntersection
  <2>2. TranslateNot(m, args) \in {Refusal, Nor(m)}
    BY <1>3, <1>6, NorOfMembership
  <2> QED BY <1>5, <2>1, <2>2
<1>7. CASE list.lit.t = "list" /\ n.kind = "map"
  <2>1. m.scope = "root"
    <3>1. n.scope = "root"
      BY <1>4, <1>7 DEF NodeOK, NodeFine, MapFine
    <3> QED BY <1>1, <1>4, <1>7, <3>1
  <2>2. PICK S : S = Members[list.lit]
    OBVIOUS
  <2>7. n.kind # "value" /\ list.kind = "value" /\ list.lit.t = "list"
    BY <1>4, <1>7
  <2>8. /\ m.val[Root] \in Tri
        /\ m.val[Root] # Err <=> n.val[Root].t = "list"
        /\ m.val[Root] = True <=> n.val[Root].t = "list" /\ Members[n.val[Root]] \intersect S # {}
        /\ Places("hasIntersection", args) = {Root}
    BY <1>4, <2>1, <2>2, <2>7, OverlapValue, SMTT(30)
  <2>3. /\ m.val[Root] = IF n.val[Root].t = "list" THEN Bool(Members[n.val[Root]] \intersect S # {}) ELSE Err
        /\ Places("hasIntersection", args) = {Root}
    BY <2>8, Constants DEF Tri, Bool
  <2>4. m.yes.throws \/ m.yes = TranslateMapIntersection(n, S, FALSE)
    <3>1. Refusal.throws
      BY RefusalIs
    <3> QED BY <1>2, <1>3, <1>7, <2>2, <3>1 DEF TranslateHasIntersection
  <2>5. TranslateNot(m, args) = TranslateMapIntersection(n, S, TRUE)
    BY <1>3, <1>7, <2>2, NorOfMembership
  <2>6. Says(m, args, Root)
    BY <1>4, <1>7, <2>3, <2>4, <2>5, ProjectionSays
  <2> QED BY <2>1, <2>3, <2>6
<1>8. CASE list.lit.t = "list" /\ n.kind = "variable"
  <2>1. ArrayField(n)
    <3>1. n.lit = Undefined
      BY <1>4, <1>8, FieldIs
    <3>2. n.lit.t # "list"
      BY <3>1, Constants
    <3>3. WellFormedPlan("hasIntersection", args) /\ 1 \in DOMAIN args /\ 2 \in DOMAIN args
      BY <1>1, <1>2, PairIs DEF Well
    <3>4. \A i \in DOMAIN args : args[i].kind = "map" \/ args[i].lit.t = "list" \/ args[i].shape \in {"list", "many"}
      BY <3>3 DEF WellFormedPlan
    <3>5. n.shape \in {"list", "many"}
      BY <1>4, <1>8, <3>2, <3>3, <3>4
    <3> QED BY <1>4, <1>8, <3>5 DEF ArrayField, Lists
  <2>2. m.scope = "root"
    BY <1>1, <1>4, <1>8, <2>1, ArrayIs
  <2>3. PICK S, x, v : S = Members[list.lit] /\ x = n.agg[Root] /\ v = n.val[Root]
    OBVIOUS
  <2>16. n.kind # "value" /\ list.kind = "value" /\ list.lit.t = "list"
    BY <1>4, <1>8
  <2>17. /\ m.val[Root] \in Tri
         /\ m.val[Root] # Err <=> n.val[Root].t = "list"
         /\ m.val[Root] = True <=> n.val[Root].t = "list" /\ Members[n.val[Root]] \intersect S # {}
         /\ Places("hasIntersection", args) = {Root} /\ list.lit \in Plain
    BY <1>4, <2>2, <2>3, <2>16, OverlapValue, SMTT(30)
  <2>4. /\ m.val[Root] = IF v.t = "list" THEN Bool(Members[v] \intersect S # {}) ELSE Err
        /\ Places("hasIntersection", args) = {Root} /\ list.lit \in Plain
    BY <2>3, <2>17, Constants DEF Tri, Bool
  <2>5. TranslateNot(m, args) = Nor(m)
    BY <1>3, <1>8, NorOfMembership
  <2>6. PICK P : P = (Elements(x) \intersect S # {})
    OBVIOUS
  <2>7. P \in BOOLEAN
    BY <2>6
  <2>8. Runs(m.yes) => /\ m.yes.match[Root] => P
                       /\ P /\ n.guard[Root] => m.yes.match[Root]
    <3>1. PICK f, w, lit : f = m.yes /\ w = WithoutUnequal(n.type, list.lit) /\ lit = list.lit
      OBVIOUS
    <3>2. PICK K, required : K = Members[w] /\ required = CarriesNull(w)
      OBVIOUS
    <3>3. SUFFICES ASSUME ~f.throws PROVE (f.match[Root] => P) /\ (P /\ n.guard[Root] => f.match[Root])
      BY <3>1 DEF Runs
    <3>4. ~(\E i \in 1 .. 2 : args[i].kind = "value" /\ NullRefused(args[i].lit))
      <4>1. (\E i \in 1 .. 2 : args[i].kind = "value" /\ NullRefused(args[i].lit)) => m.yes = Refusal
        BY <1>2 DEF TranslateHasIntersection
      <4> QED BY <3>1, <3>3, <4>1, RefusalIs
    <3>5. IF n.shape = "list" /\ K # {} THEN f = EmitUncastListMembership(n, K)
          ELSE f = EmitLeafComparison(n, "in", w, FALSE, required)
      BY <1>2, <1>3, <1>8, <3>1, <3>2, <3>4 DEF TranslateHasIntersection
    <3>6. lit \in Plain /\ lit.t = "list" /\ w = WithoutUnequal(n.type, lit)
      BY <1>8, <2>4, <3>1
    <3>7. /\ f.match[Root] => Elements(n.agg[Root]) \intersect Members[lit] # {}
          /\ Elements(n.agg[Root]) \intersect Members[lit] # {} /\ n.guard[Root] => f.match[Root]
      BY <2>1, <3>2, <3>3, <3>5, <3>6, OverlapIs
    <3> QED BY <2>3, <2>6, <3>1, <3>7
  <2>9. /\ v.t = "list" <=> x.t = "list"
        /\ x.t = "list" => v = x /\ Elements(x) = Members[x]
        /\ x.t # "list" => Elements(x) = {}
    BY <2>1, <2>3, ArrayIs
  <2>10. m.val[Root] = IF v.t = "list" THEN Bool(P) ELSE Err
    BY <2>4, <2>6, <2>9 DEF Bool
  <2>11. P => x.t = "list"
    BY <2>6, <2>9
  <2>12. PICK j : j \in {1, 2} /\ n = args[j] /\ list = args[3 - j]
    BY <1>4
  <2>13. \A i \in DOMAIN args : i # j => args[i].kind = "value"
    BY <1>2, <1>4, <1>8, <2>12
  <2>14. /\ j \in DOMAIN args /\ ArrayField(args[j])
         /\ Runs(m.yes) => /\ m.yes.match[Root] => P
                           /\ P /\ args[j].guard[Root] => m.yes.match[Root]
         /\ P => args[j].agg[Root].t = "list"
         /\ m.val[Root] = IF args[j].val[Root].t = "list" THEN Bool(P) ELSE Err
    BY <1>2, <2>1, <2>3, <2>8, <2>10, <2>11, <2>12
  <2>15. Says(m, args, Root)
    BY <2>2, <2>5, <2>7, <2>13, <2>14, ArraySays
  <2> QED BY <2>2, <2>4, <2>15
<1>9. CASE list.lit.t = "list" /\ n.kind # "map" /\ n.kind # "variable"
  <2>1. m.yes = Refusal
    BY <1>2, <1>3, <1>9 DEF TranslateHasIntersection
  <2>2. TranslateNot(m, args) = Nor(m)
    BY <1>3, <1>9, NorOfMembership
  <2> QED BY <1>5, <2>1, <2>2
<1> QED BY <1>6, <1>7, <1>8, <1>9

-----------------------------------------------------------------------------
(* Inclusion and the set operations *)

\* The elements of a relation that are, or with negate are not, in a constant list.
LEMMA RelationSays ==
  ASSUME NEW n, ArrayField(n), n.shape = "many", NEW list, list.lit \in Plain, list.lit.t = "list",
         NEW quantifier, NEW negate \in BOOLEAN, NEW f, f = RelationMembership(quantifier, n, list, negate), ~f.throws
  PROVE  LET x == n.agg[Root]
             S == Members[list.lit]
             kept == NullElement \/ ~n.guard[Root]
             asked(m) == IF negate THEN m \notin S ELSE m \in S
         IN /\ ~f.aborts
            /\ quantifier = "all" =>
                 /\ f.match[Root] => x.t = "list" /\ \A m \in Elements(x) : asked(m)
                 /\ x.t = "list" /\ (\A m \in Elements(x) : asked(m)) => f.match[Root] \/ kept
            /\ quantifier # "all" =>
                 /\ f.match[Root] => \E m \in Elements(x) : asked(m)
                 /\ (\E m \in Elements(x) : asked(m)) => f.match[Root] \/ kept
<1>1. PICK x, g, lit, S, nulls : x = n.agg[Root] /\ g = n.guard[Root] /\ lit = list.lit /\ S = Members[lit] /\ nulls = n.elementNullable
  OBVIOUS
<1>2. /\ DOMAIN n.agg = {Root} /\ Elements(x) \subseteq Item
      /\ \A m \in Elements(x) : CanEqual(n.type, m)
      /\ IsCollection(x) <=> x.t = "list"
      /\ nulls /\ Null \in Elements(x) => NullElement \/ ~g
  BY <1>1, ArrayIs
<1>3. nulls \in BOOLEAN
  BY <1>1, FieldIs DEF ArrayField
<1>4. /\ ~f.aborts
      /\ ~(negate /\ nulls)
      /\ quantifier = "all" =>
           (f.match[Root] <=> IsCollection(x) /\ \A m \in Elements(x) :
                                IF negate THEN ~Matching(n, list, m) ELSE Matching(n, list, m))
      /\ quantifier # "all" =>
           (f.match[Root] <=> \E m \in Elements(x) : IF negate THEN ~Matching(n, list, m) ELSE Matching(n, list, m))
  BY <1>1, <1>2, RelationIs
<1>5. ASSUME NEW m \in Elements(x)
      PROVE  Matching(n, list, m) <=> m \in S /\ (nulls => m # Null)
  <2>1. PICK w, required : w = WithoutUnequal(n.type, lit) /\ required = CarriesNull(lit)
    OBVIOUS
  <2>2. w.t = "list" /\ Members[w] = Kept(n.type, S) /\ (Null \in Kept(n.type, S) <=> Null \in S)
    BY <1>1, <2>1, KeptIs
  <2>3. Matching(n, list, m) <=> GuardedMatches("in", m, w, nulls, required)
    BY <1>1, <2>1, Zenon DEF Matching
  <2>4. GuardedMatches("in", m, w, nulls, required) <=>
          /\ nulls => ~Missing(m)
          /\ required => m # Undefined
          /\ m \in Members[w] \/ (Missing(m) /\ Null \in Members[w])
    BY QueryIs DEF GuardedMatches
  <2>5. m # Undefined /\ (Missing(m) <=> m = Null) /\ (m \in Kept(n.type, S) <=> m \in S)
    BY <1>2, ItemIs DEF Missing, Kept
  <2> QED BY <2>2, <2>3, <2>4, <2>5
<1>6. ASSUME NEW m \in Elements(x), negate PROVE Matching(n, list, m) <=> m \in S
  BY <1>3, <1>4, <1>5, <1>6
<1>7. CASE negate
  BY <1>1, <1>2, <1>4, <1>6, <1>7
<1>8. CASE ~negate
  <2>1. \A m \in Elements(x) : Matching(n, list, m) => m \in S
    BY <1>5
  <2>2. \A m \in Elements(x) : m \in S => Matching(n, list, m) \/ NullElement \/ ~g
    BY <1>2, <1>5
  <2> QED BY <1>1, <1>2, <1>4, <1>8, <2>1, <2>2
<1> QED BY <1>7, <1>8

\* The constants of a list that are, or with negate are not, in an array.
LEMMA UnrolledSays ==
  ASSUME NEW list, list.kind = "value", list.lit \in Plain, list.lit.t = "list", NodeOK(list), NEW n, ArrayField(n),
         NEW quantifier, NEW negate \in BOOLEAN, NEW f, f = ConstantMembership(quantifier, list, n, negate), ~f.throws
  PROVE  LET x == n.agg[Root]
             S == Members[list.lit]
             asked(m) == IF negate THEN x.t = "list" /\ m \notin Elements(x) ELSE m \in Elements(x)
         IN /\ ~f.aborts
            /\ quantifier = "all" =>
                 /\ f.match[Root] => \A m \in S : asked(m)
                 /\ (\A m \in S : asked(m)) => f.match[Root] \/ ~n.guard[Root]
            /\ quantifier # "all" =>
                 /\ f.match[Root] => \E m \in S : asked(m)
                 /\ (\E m \in S : asked(m)) => f.match[Root] \/ ~n.guard[Root]
<1>1. PICK x, g, S : x = n.agg[Root] /\ g = n.guard[Root] /\ S = Members[list.lit]
  OBVIOUS
<1>2. DOMAIN n.agg = {Root} /\ (IsCollection(x) <=> x.t = "list") /\ g \in BOOLEAN
  BY <1>1, ArrayIs
<1>3. S \subseteq Item
  BY <1>1, KeptIs
<1>4. /\ ~f.aborts
      /\ \A m \in S : ~MemberOf(list, n, m).throws
      /\ quantifier = "all" => (f.match[Root] <=> \A m \in S :
             IF negate THEN ~MemberOf(list, n, m).match[Root] /\ g /\ IsCollection(x) ELSE MemberOf(list, n, m).match[Root])
      /\ quantifier # "all" => (f.match[Root] <=> \E m \in S :
             IF negate THEN ~MemberOf(list, n, m).match[Root] /\ g /\ IsCollection(x) ELSE MemberOf(list, n, m).match[Root])
  BY <1>1, <1>2, UnrolledIs
<1>5. ASSUME NEW m \in S
      PROVE  /\ MemberOf(list, n, m).match[Root] => m \in Elements(x)
             /\ m \in Elements(x) /\ g => MemberOf(list, n, m).match[Root]
  <2>1. PICK c, args, h : c = [list EXCEPT !.lit = m] /\ args = <<c, n>> /\ h = TranslateIn(args)
    OBVIOUS
  <2>2. h = MemberOf(list, n, m)
    BY <2>1 DEF MemberOf
  <2>3. c.kind = "value" /\ c.lit = m
    BY <2>1
  <2>4. args[1].kind = "value" /\ args[1].lit = m /\ args[2] = n /\ m \in Item /\ ~h.throws
    BY <1>3, <1>4, <2>1, <2>2, <2>3
  <2>5. /\ h.match[Root] => m \in Elements(n.agg[Root])
        /\ m \in Elements(n.agg[Root]) /\ n.guard[Root] => h.match[Root]
    BY <2>1, <2>4, MemberIs
  <2> QED BY <1>1, <2>2, <2>5
<1>6. CASE negate
  BY <1>1, <1>2, <1>4, <1>5, <1>6
<1>7. CASE ~negate
  BY <1>1, <1>2, <1>4, <1>5, <1>7
<1> QED BY <1>6, <1>7

\* A constant list, or an array.
ConstantList(n) == NodeOK(n) /\ n.kind = "value" /\ n.lit \in Plain /\ n.lit.t = "list"

\* The value CEL gives such an operand.
LEMMA ListOperand ==
  ASSUME NEW op \in {"isSubset"} \union SetOperations, NEW args, NEW m, InPlace(op, args, m), NEW i \in {1, 2}
  PROVE  LET n == args[i] IN
         /\ ArrayField(n) \/ ConstantList(n)
         /\ At(n.val, Root) = n.val[Root] /\ n.val[Root] \in Plain /\ (m.guard[Root] \/ ~At(args[1].guard, Root) \/ ~At(args[2].guard, Root))
         /\ m.guard[Root] => At(n.guard, Root)
         /\ At(n.guard, Root) = n.guard[Root]
         /\ m.scope = "root" /\ Places(op, args) = {Root}
<1>1. /\ Well(op, args) /\ m.scope = ScopeOf(args) /\ m.scope \in {"root", "element"}
      /\ Places(op, args) = Envs(ElementEnvs, ScopeOf(args))
  BY InPlaceIs
<1>2. DOMAIN args = 1 .. 2
  BY <1>1, WidthIs DEF Binary, SetOperations
<1>3. WellFormedPlan(op, args) /\ 1 \in DOMAIN args /\ 2 \in DOMAIN args /\ NodeOK(args[1]) /\ NodeOK(args[2])
  BY <1>1, <1>2, PairIs DEF Well
<1>4. ASSUME NEW j \in {1, 2} PROVE ArrayField(args[j]) \/ ConstantList(args[j])
  <2>1. j \in DOMAIN args /\ NodeOK(args[j])
    BY <1>3
  <2>2. args[j].kind = "map" \/ args[j].lit.t = "list" \/ args[j].shape \in {"list", "many"}
    BY <1>3, <2>1 DEF WellFormedPlan
  <2>3. args[j].kind # "map"
    BY <1>1, <2>1, ScalarOperands DEF SetOperations
  <2>4. CASE args[j].lit.t = "list"
    BY <2>1, <2>4, LitIs DEF ConstantList
  <2>5. CASE args[j].shape \in {"list", "many"}
    BY <2>1, <2>3, <2>5, ShapeIs DEF ArrayField, Lists
  <2> QED BY <2>2, <2>3, <2>4, <2>5
<1>5. \A j \in {1, 2} : args[j].scope # "element"
  BY <1>4, ArrayIs, ShapeIs DEF ConstantList
<1>6. m.scope = "root"
  BY <1>1, <1>2, <1>5 DEF ScopeOf
<1>7. Places(op, args) = {Root} /\ Root \in Envs(ElementEnvs, ScopeOf(args))
  BY <1>1, <1>6 DEF Envs
<1>8. ASSUME NEW j \in {1, 2}
      PROVE  /\ At(args[j].val, Root) = args[j].val[Root] /\ At(args[j].val, Root) \in Plain
             /\ At(args[j].guard, Root) = args[j].guard[Root]
  <2>1. j \in DOMAIN args
    BY <1>3
  <2>2. PICK e : e = Root
    OBVIOUS
  <2>3. e \in Envs(ElementEnvs, ScopeOf(args))
    BY <1>7, <2>2
  <2>4. /\ At(args[j].val, e) = args[j].val[Place(args[j], e)]
        /\ At(args[j].guard, e) = args[j].guard[Place(args[j], e)]
    BY <1>1, <2>1, <2>3, WellOperand
  <2>5. At(args[j].val, e) \in Plain
    BY <1>1, <2>1, <2>3, WellOperand
  <2>6. Place(args[j], e) = Root
    BY <2>2 DEF Place
  <2> QED BY <2>2, <2>4, <2>5, <2>6
<1>9. m.guard[Root] <=> At(args[1].guard, Root) /\ At(args[2].guard, Root)
  <2>1. op \notin Guarded
    BY DEF Guarded, SetOperations
  <2>2. m.guard[Root] <=> Guards(args, Root)
    BY <1>7, <2>1, InPlaceGuard
  <2> QED BY <1>2, <1>3, <2>2 DEF Guards
<1> QED BY <1>4, <1>6, <1>7, <1>8, <1>9

\* A filter of everyElementIn reads a relation and a constant list, or a constant list and an array.
LEMMA EveryIs ==
  ASSUME NEW c, ArrayField(c) \/ ConstantList(c), NEW o, ArrayField(o) \/ ConstantList(o),
         NEW quantifier, NEW negate \in BOOLEAN, NEW f, f = EveryElementIn(quantifier, c, o, negate), ~f.throws
  PROVE  \/ ArrayField(c) /\ c.shape = "many" /\ ConstantList(o) /\ f = RelationMembership(quantifier, c, o, negate)
         \/ ConstantList(c) /\ ArrayField(o) /\ f = ConstantMembership(quantifier, c, o, negate)
<1>1. Refusal.throws
  BY RefusalIs
<1>2. \A n : ArrayField(n) => n.lit.t # "list" /\ n.kind = "variable"
  BY ArrayIs, Constants DEF ArrayField
<1>3. \A n : ConstantList(n) => n.lit.t = "list" /\ n.kind = "value" /\ n.shape = "none"
  BY DEF ConstantList, NodeOK, NodeFine, ValueFine
<1>4. CASE c.shape = "many" /\ o.lit.t = "list"
  <2>1. f = RelationMembership(quantifier, c, o, negate)
    BY <1>4 DEF EveryElementIn
  <2>2. ArrayField(c) /\ ConstantList(o)
    BY <1>2, <1>3, <1>4
  <2> QED BY <1>4, <2>1, <2>2
<1>5. CASE ~(c.shape = "many" /\ o.lit.t = "list")
  BY <1>1, <1>2, <1>3, <1>5 DEF EveryElementIn
<1> QED BY <1>4, <1>5

LEMMA ConstantIs ==
  ASSUME NEW n, ConstantList(n)
  PROVE  n.val[Root] = n.lit /\ n.val[Root].t = "list" /\ n.guard[Root]
BY DEF ConstantList, NodeOK, NodeFine, ValueFine

\* What every or some element of one list in another says of the two lists.
LEMMA InclusionSays ==
  ASSUME NEW c, ArrayField(c) \/ ConstantList(c), NEW o, ArrayField(o) \/ ConstantList(o), ~IsEmptyList(c),
         NEW quantifier \in {"all", "exists"}, NEW negate \in BOOLEAN, negate <=> quantifier = "exists",
         NEW f, f = EveryElementIn(quantifier, c, o, negate), ~f.throws
  PROVE  LET v == c.val[Root]
             w == o.val[Root]
             P == Members[v] \subseteq Members[w]
             both == v.t = "list" /\ w.t = "list"
             lost == NullElement \/ ~c.guard[Root] \/ ~o.guard[Root]
         IN /\ ~f.aborts
            /\ quantifier = "all" => /\ f.match[Root] => both /\ P
                                     /\ both /\ P => f.match[Root] \/ lost
            /\ quantifier = "exists" => /\ f.match[Root] => both /\ ~P
                                        /\ both /\ ~P => f.match[Root] \/ lost
<1>1. negate \in BOOLEAN
  OBVIOUS
<1>2. \/ ArrayField(c) /\ c.shape = "many" /\ ConstantList(o) /\ f = RelationMembership(quantifier, c, o, negate)
      \/ ConstantList(c) /\ ArrayField(o) /\ f = ConstantMembership(quantifier, c, o, negate)
  BY <1>1, EveryIs
<1>3. CASE ArrayField(c) /\ c.shape = "many" /\ ConstantList(o) /\ f = RelationMembership(quantifier, c, o, negate)
  <2>1. PICK x, v, w, S : x = c.agg[Root] /\ v = c.val[Root] /\ w = o.val[Root] /\ S = Members[o.lit]
    OBVIOUS
  <2>2. /\ v.t = "list" <=> x.t = "list"
        /\ x.t = "list" => v = x /\ Elements(x) = Members[x]
        /\ x.t # "list" => Elements(x) = {}
    BY <1>3, <2>1, ArrayIs
  <2>3. w = o.lit /\ w.t = "list" /\ o.lit \in Plain /\ o.lit.t = "list" /\ Members[w] = S
    BY <1>3, <2>1, ConstantIs DEF ConstantList
  <2>4. /\ ~f.aborts
        /\ quantifier = "all" =>
             /\ f.match[Root] => x.t = "list" /\ \A m \in Elements(x) : IF negate THEN m \notin S ELSE m \in S
             /\ x.t = "list" /\ (\A m \in Elements(x) : IF negate THEN m \notin S ELSE m \in S)
                  => f.match[Root] \/ NullElement \/ ~c.guard[Root]
        /\ quantifier # "all" =>
             /\ f.match[Root] => \E m \in Elements(x) : IF negate THEN m \notin S ELSE m \in S
             /\ (\E m \in Elements(x) : IF negate THEN m \notin S ELSE m \in S)
                  => f.match[Root] \/ NullElement \/ ~c.guard[Root]
    BY <1>1, <1>3, <2>1, <2>3, RelationSays
  <2>5. CASE quantifier = "all"
    <3>1. ~negate
      BY <2>5
    <3> QED BY <2>1, <2>2, <2>3, <2>4, <2>5, <3>1
  <2>6. CASE quantifier = "exists"
    <3>1. negate
      BY <2>6
    <3>2. /\ f.match[Root] => \E m \in Elements(x) : m \notin S
          /\ (\E m \in Elements(x) : m \notin S) => f.match[Root] \/ NullElement \/ ~c.guard[Root]
      BY <2>4, <2>6, <3>1
    <3>3. (\E m \in Elements(x) : m \notin S) <=> v.t = "list" /\ ~(Members[v] \subseteq Members[w])
      BY <2>2, <2>3
    <3> QED BY <2>1, <2>3, <2>4, <2>6, <3>2, <3>3
  <2> QED BY <2>5, <2>6
<1>4. CASE ConstantList(c) /\ ArrayField(o) /\ f = ConstantMembership(quantifier, c, o, negate)
  <2>1. PICK x, v, w, S : x = o.agg[Root] /\ w = o.val[Root] /\ v = c.val[Root] /\ S = Members[c.lit]
    OBVIOUS
  <2>2. /\ w.t = "list" <=> x.t = "list"
        /\ x.t = "list" => w = x /\ Elements(x) = Members[x]
        /\ x.t # "list" => Elements(x) = {}
    BY <1>4, <2>1, ArrayIs
  <2>3. v = c.lit /\ v.t = "list" /\ c.lit \in Plain /\ c.lit.t = "list" /\ Members[v] = S /\ c.kind = "value" /\ NodeOK(c)
    BY <1>4, <2>1, ConstantIs DEF ConstantList
  <2>4. S # {}
    BY <2>1, <2>3 DEF IsEmptyList
  <2>5. /\ ~f.aborts
        /\ quantifier = "all" =>
             /\ f.match[Root] => \A m \in S : IF negate THEN x.t = "list" /\ m \notin Elements(x) ELSE m \in Elements(x)
             /\ (\A m \in S : IF negate THEN x.t = "list" /\ m \notin Elements(x) ELSE m \in Elements(x))
                  => f.match[Root] \/ ~o.guard[Root]
        /\ quantifier # "all" =>
             /\ f.match[Root] => \E m \in S : IF negate THEN x.t = "list" /\ m \notin Elements(x) ELSE m \in Elements(x)
             /\ (\E m \in S : IF negate THEN x.t = "list" /\ m \notin Elements(x) ELSE m \in Elements(x))
                  => f.match[Root] \/ ~o.guard[Root]
    BY <1>1, <1>4, <2>1, <2>3, UnrolledSays
  <2>6. CASE quantifier = "all"
    <3>1. ~negate
      BY <2>6
    <3> QED BY <2>1, <2>2, <2>3, <2>4, <2>5, <2>6, <3>1
  <2>7. CASE quantifier = "exists"
    <3>1. negate
      BY <2>7
    <3> QED BY <2>1, <2>2, <2>3, <2>5, <2>7, <3>1
  <2> QED BY <2>6, <2>7
<1> QED BY <1>2, <1>3, <1>4

LEMMA DisjointSays ==
  ASSUME NEW c, ArrayField(c) \/ ConstantList(c), NEW o, ArrayField(o) \/ ConstantList(o), ~(ConstantList(c) /\ ArrayField(o)),
         NEW quantifier \in {"all", "exists"}, NEW negate \in BOOLEAN, negate <=> quantifier = "all",
         NEW f, f = EveryElementIn(quantifier, c, o, negate), ~f.throws
  PROVE  LET v == c.val[Root]
             w == o.val[Root]
             P == Members[v] \intersect Members[w] = {}
             both == v.t = "list" /\ w.t = "list"
             lost == NullElement \/ ~c.guard[Root] \/ ~o.guard[Root]
         IN /\ ~f.aborts
            /\ quantifier = "all" => /\ f.match[Root] => both /\ P
                                     /\ both /\ P => f.match[Root] \/ lost
            /\ quantifier = "exists" => /\ f.match[Root] => both /\ ~P
                                        /\ both /\ ~P => f.match[Root] \/ lost
<1>1. negate \in BOOLEAN
  OBVIOUS
<1>2. ArrayField(c) /\ c.shape = "many" /\ ConstantList(o) /\ f = RelationMembership(quantifier, c, o, negate)
  BY <1>1, EveryIs
<1>3. PICK x, v, w, S : x = c.agg[Root] /\ v = c.val[Root] /\ w = o.val[Root] /\ S = Members[o.lit]
  OBVIOUS
<1>4. /\ v.t = "list" <=> x.t = "list"
      /\ x.t = "list" => v = x /\ Elements(x) = Members[x]
      /\ x.t # "list" => Elements(x) = {}
  BY <1>2, <1>3, ArrayIs
<1>5. w = o.lit /\ w.t = "list" /\ o.lit \in Plain /\ o.lit.t = "list" /\ Members[w] = S
  BY <1>2, <1>3, ConstantIs DEF ConstantList
<1>6. /\ ~f.aborts
      /\ quantifier = "all" =>
           /\ f.match[Root] => x.t = "list" /\ \A m \in Elements(x) : IF negate THEN m \notin S ELSE m \in S
           /\ x.t = "list" /\ (\A m \in Elements(x) : IF negate THEN m \notin S ELSE m \in S)
                => f.match[Root] \/ NullElement \/ ~c.guard[Root]
      /\ quantifier # "all" =>
           /\ f.match[Root] => \E m \in Elements(x) : IF negate THEN m \notin S ELSE m \in S
           /\ (\E m \in Elements(x) : IF negate THEN m \notin S ELSE m \in S)
                => f.match[Root] \/ NullElement \/ ~c.guard[Root]
  BY <1>1, <1>2, <1>3, <1>5, RelationSays
<1>7. CASE quantifier = "all"
  <2>1. negate
    BY <1>7
  <2>2. /\ f.match[Root] => x.t = "list" /\ \A m \in Elements(x) : m \notin S
        /\ x.t = "list" /\ (\A m \in Elements(x) : m \notin S) => f.match[Root] \/ NullElement \/ ~c.guard[Root]
    BY <1>6, <1>7, <2>1
  <2>3. x.t = "list" => ((\A m \in Elements(x) : m \notin S) <=> Members[v] \intersect Members[w] = {})
    BY <1>4, <1>5
  <2>4. quantifier # "exists" /\ w.t = "list" /\ ~f.aborts
    BY <1>5, <1>6, <1>7
  <2>5. PICK P : P = (Members[v] \intersect Members[w] = {})
    OBVIOUS
  <2>6. /\ f.match[Root] => v.t = "list" /\ P
        /\ v.t = "list" /\ P => f.match[Root] \/ NullElement \/ ~c.guard[Root]
    BY <1>4, <2>2, <2>3, <2>5
  <2>7. (Members[c.val[Root]] \intersect Members[o.val[Root]] = {}) <=> P
    BY <1>3, <2>5
  <2> QED BY <1>3, <2>4, <2>6, <2>7
<1>8. CASE quantifier = "exists"
  <2>1. ~negate
    BY <1>8
  <2>2. /\ f.match[Root] => \E m \in Elements(x) : m \in S
        /\ (\E m \in Elements(x) : m \in S) => f.match[Root] \/ NullElement \/ ~c.guard[Root]
    BY <1>6, <1>8, <2>1
  <2>3. (\E m \in Elements(x) : m \in S) <=> v.t = "list" /\ ~(Members[v] \intersect Members[w] = {})
    BY <1>4, <1>5
  <2>4. quantifier # "all" /\ w.t = "list" /\ ~f.aborts
    BY <1>5, <1>6, <1>8
  <2>5. PICK P : P = (Members[v] \intersect Members[w] = {})
    OBVIOUS
  <2>6. /\ f.match[Root] => v.t = "list" /\ ~P
        /\ v.t = "list" /\ ~P => f.match[Root] \/ NullElement \/ ~c.guard[Root]
    BY <2>2, <2>3, <2>5
  <2>7. (Members[c.val[Root]] \intersect Members[o.val[Root]] = {}) <=> P
    BY <1>3, <2>5
  <2> QED BY <1>3, <2>4, <2>6, <2>7
<1> QED BY <1>7, <1>8

LEMMA NorOfInclusion ==
  ASSUME NEW op, NEW args, NEW m, InPlace(op, args, m)
  PROVE  /\ op = "isSubset" => TranslateNot(m, args) = EveryElementIn("exists", args[1], args[2], TRUE)
         /\ op \in SetOperations => TranslateNot(m, args) = Emptiness(op, args, FALSE)
<1>1. m.kind = op /\ ~OuterReference(op, args)
  BY InPlaceIs DEF InPlace
<1> QED BY <1>1 DEF TranslateNot, Junctions, SetOperations

LEMMA SubsetSays ==
  ASSUME NEW args, NEW m, InPlace("isSubset", args, m)
  PROVE  m.scope = "root" /\ \A e \in Places("isSubset", args) : Says(m, args, e)
<1>1. PICK c, o, v, w : c = args[1] /\ o = args[2] /\ v = c.val[Root] /\ w = o.val[Root]
  OBVIOUS
<1>2. /\ ArrayField(c) \/ ConstantList(c)
      /\ At(c.val, Root) = v /\ v \in Plain
      /\ m.guard[Root] => c.guard[Root]
      /\ m.scope = "root" /\ Places("isSubset", args) = {Root}
  BY <1>1, ListOperand
<1>3. /\ ArrayField(o) \/ ConstantList(o)
      /\ At(o.val, Root) = w /\ w \in Plain
      /\ m.guard[Root] => o.guard[Root]
  BY <1>1, ListOperand
<1>4. SUFFICES Says(m, args, Root)
  BY <1>2
<1>5. m.yes = EveryElementIn("all", c, o, FALSE)
  <2>1. m.yes = BuildFilter("isSubset", args, m.agg, m.aggThrows) /\ ~OuterReference("isSubset", args)
    BY InPlaceIs DEF InPlace
  <2> QED BY <1>1, <2>1, BuildSetsIs
<1>6. PICK no : no = TranslateNot(m, args)
  OBVIOUS
<1>7. no = EveryElementIn("exists", c, o, TRUE)
  BY <1>1, <1>6, NorOfInclusion
<1>8. ~IsEmptyList(c)
  BY <1>1 DEF InPlace, Expression, AdmittedShape
<1>9. m.val[Root] = IsSubset(v, w)
  <2>1. m.val[Root] = Evaluate("isSubset", args, Root)
    BY <1>2, InPlaceIs
  <2>2. Evaluate("isSubset", args, Root) = IsSubset(At(args[1].val, Root), At(args[2].val, Root))
    BY DEF Evaluate, Comparisons, Equalities, Orderings, ConditionalLists, Folds
  <2> QED BY <1>1, <1>2, <1>3, <2>1, <2>2
<1>10. /\ m.val[Root] \in Tri
       /\ m.val[Root] # Err <=> v.t = "list" /\ w.t = "list"
       /\ m.val[Root] = True <=> v.t = "list" /\ w.t = "list" /\ Members[v] \subseteq Members[w]
  BY <1>2, <1>3, <1>9, ListsAre
<1>11. PICK q, p, yes : q = "all" /\ p = "exists" /\ yes = m.yes
  OBVIOUS
<1>12. ~yes.throws => /\ yes.match[Root] => v.t = "list" /\ w.t = "list" /\ Members[v] \subseteq Members[w]
                      /\ v.t = "list" /\ w.t = "list" /\ Members[v] \subseteq Members[w]
                           => yes.match[Root] \/ NullElement \/ ~c.guard[Root] \/ ~o.guard[Root]
  <2>1. PICK negate : negate = FALSE
    OBVIOUS
  <2>2. negate \in BOOLEAN /\ q \in {"all", "exists"} /\ (negate <=> q = "exists") /\ yes = EveryElementIn(q, c, o, negate)
    BY <1>5, <1>11, <2>1
  <2> QED BY <1>1, <1>2, <1>3, <1>8, <1>11, <2>2, InclusionSays, SMTT(30)
<1>13. ~no.throws => /\ no.match[Root] => v.t = "list" /\ w.t = "list" /\ ~(Members[v] \subseteq Members[w])
                     /\ v.t = "list" /\ w.t = "list" /\ ~(Members[v] \subseteq Members[w])
                           => no.match[Root] \/ NullElement \/ ~c.guard[Root] \/ ~o.guard[Root]
  <2>1. PICK negate : negate = TRUE
    OBVIOUS
  <2>2. negate \in BOOLEAN /\ p \in {"all", "exists"} /\ (negate <=> p = "exists") /\ no = EveryElementIn(p, c, o, negate)
    BY <1>7, <1>11, <2>1
  <2>3. /\ ArrayField(c) \/ ConstantList(c)
        /\ ArrayField(o) \/ ConstantList(o)
        /\ v = c.val[Root] /\ w = o.val[Root] /\ p = "exists"
    BY <1>1, <1>2, <1>3, <1>11
  <2>4. ASSUME ~no.throws
        PROVE  p = "exists" => /\ no.match[Root] => (c.val[Root].t = "list" /\ o.val[Root].t = "list") /\ ~(Members[c.val[Root]] \subseteq Members[o.val[Root]])
                               /\ (c.val[Root].t = "list" /\ o.val[Root].t = "list") /\ ~(Members[c.val[Root]] \subseteq Members[o.val[Root]])
                                     => no.match[Root] \/ (NullElement \/ ~c.guard[Root] \/ ~o.guard[Root])
    BY <1>8, <2>2, <2>3, <2>4, InclusionSays
  <2> QED BY <2>3, <2>4
<1>14. ~c.guard[Root] \/ ~o.guard[Root] => Lost(m, Root, NullElement)
  BY <1>2, <1>3 DEF Lost
<1>15. NullElement => Lost(m, Root, NullElement)
  BY DEF Lost
<1>16. SaysYes(m, Root)
  BY <1>10, <1>11, <1>12, <1>14, <1>15 DEF SaysYes, Allows, Runs
<1>17. SaysNo(m, no, Root)
  <2>1. m.val[Root] = False <=> v.t = "list" /\ w.t = "list" /\ ~(Members[v] \subseteq Members[w])
    BY <1>10, Constants DEF Tri
  <2> QED BY <1>13, <1>14, <1>15, <2>1 DEF SaysNo, Denies, Runs
<1> QED BY <1>6, <1>16, <1>17 DEF Says

\* except() and intersect(), through the comparison with the empty list.
LEMMA SetSays ==
  ASSUME NEW op \in SetOperations, NEW args, NEW m, InPlace(op, args, m), NEW no, no = TranslateNot(m, args)
  PROVE  LET z == m.val[Root] IN
         /\ m.scope = "root" /\ z.t \in {"list", "error"}
         /\ Runs(m.yes) => /\ m.yes.match[Root] => IsEmpty(z)
                           /\ IsEmpty(z) => m.yes.match[Root] \/ Lost(m, Root, NullElement)
         /\ Runs(no) => /\ no.match[Root] => Holds(z)
                        /\ Holds(z) => no.match[Root] \/ Lost(m, Root, NullElement)
<1>1. PICK a, b, v, w : a = args[1] /\ b = args[2] /\ v = a.val[Root] /\ w = b.val[Root]
  OBVIOUS
<1>2. /\ ArrayField(a) \/ ConstantList(a)
      /\ At(a.val, Root) = v /\ v \in Plain
      /\ m.guard[Root] => a.guard[Root]
      /\ m.scope = "root" /\ Places(op, args) = {Root}
  BY <1>1, ListOperand
<1>3. /\ ArrayField(b) \/ ConstantList(b)
      /\ At(b.val, Root) = w /\ w \in Plain
      /\ m.guard[Root] => b.guard[Root]
  BY <1>1, ListOperand
<1>4. PICK yes, z : yes = m.yes /\ z = m.val[Root]
  OBVIOUS
<1>5. yes = Emptiness(op, args, TRUE)
  <2>1. m.yes = BuildFilter(op, args, m.agg, m.aggThrows) /\ ~OuterReference(op, args)
    BY InPlaceIs DEF InPlace
  <2> QED BY <1>4, <2>1, BuildSetsIs
<1>6. no = Emptiness(op, args, FALSE)
  BY NorOfInclusion
<1>7. z = IF op = "except" THEN Except(v, w) ELSE Intersect(v, w)
  <2>1. m.val[Root] = Evaluate(op, args, Root)
    BY <1>2, InPlaceIs
  <2>2. CASE op = "except"
    <3>1. Evaluate(op, args, Root) = Except(At(args[1].val, Root), At(args[2].val, Root))
      BY <2>2 DEF Evaluate, Comparisons, Equalities, Orderings, ConditionalLists, Folds
    <3> QED BY <1>1, <1>2, <1>3, <1>4, <2>1, <2>2, <3>1
  <2>3. CASE op = "intersect"
    <3>1. Evaluate(op, args, Root) = Intersect(At(args[1].val, Root), At(args[2].val, Root))
      BY <2>3 DEF Evaluate, Comparisons, Equalities, Orderings, ConditionalLists, Folds
    <3> QED BY <1>1, <1>2, <1>3, <1>4, <2>1, <2>3, <3>1
  <2> QED BY <2>2, <2>3 DEF SetOperations
<1>8. PICK both : both \in BOOLEAN /\ (both <=> v.t = "list" /\ w.t = "list")
  OBVIOUS
<1>9. /\ z.t \in {"list", "error"} /\ (z.t = "list" <=> both)
      /\ op = "except" => (IsEmpty(z) <=> both /\ Members[v] \subseteq Members[w])
      /\ op = "except" => (Holds(z) <=> both /\ ~(Members[v] \subseteq Members[w]))
      /\ op = "intersect" => (IsEmpty(z) <=> both /\ Members[v] \intersect Members[w] = {})
      /\ op = "intersect" => (Holds(z) <=> both /\ ~(Members[v] \intersect Members[w] = {}))
  <2>1. /\ Except(v, w).t \in {"list", "error"} /\ Intersect(v, w).t \in {"list", "error"}
        /\ Except(v, w).t = "list" <=> v.t = "list" /\ w.t = "list"
        /\ Intersect(v, w).t = "list" <=> v.t = "list" /\ w.t = "list"
        /\ v.t = "list" /\ w.t = "list" =>
             /\ Members[Except(v, w)] = Members[v] \ Members[w]
             /\ Members[Intersect(v, w)] = Members[v] \intersect Members[w]
    BY <1>2, <1>3, SetsAre
  <2>2. CASE op = "except"
    BY <1>7, <1>8, <2>1, <2>2 DEF IsEmpty, Holds
  <2>3. CASE op = "intersect"
    BY <1>7, <1>8, <2>1, <2>3 DEF IsEmpty, Holds
  <2> QED BY <2>2, <2>3 DEF SetOperations
<1>10. PICK lost : lost = Lost(m, Root, NullElement)
  OBVIOUS
<1>11. NullElement \/ ~a.guard[Root] \/ ~b.guard[Root] => lost
  BY <1>2, <1>3, <1>10 DEF Lost
<1>12. PICK q, p : q = "all" /\ p = "exists"
  OBVIOUS
<1>13. PICK yea, nay : yea = TRUE /\ nay = FALSE
  OBVIOUS
<1>14. CASE op = "except"
  <2>1. yes = EveryElementIn(q, a, b, nay) /\ no = EveryElementIn(p, a, b, yea)
    <3>1. ~Swapped(op, args)
      BY <1>14 DEF Swapped
    <3>2. op # "intersect"
      BY <1>14
    <3>3. Emptiness(op, args, TRUE) = EveryElementIn("all", args[1], args[2], FALSE)
      BY <3>1, <3>2, EmptinessIs
    <3>4. Emptiness(op, args, FALSE) = EveryElementIn("exists", args[1], args[2], TRUE)
      BY <3>1, <3>2, EmptinessIs
    <3> QED BY <1>1, <1>5, <1>6, <1>12, <1>13, <3>3, <3>4
  <2>2. ~IsEmptyList(a)
    BY <1>1, <1>14 DEF InPlace, Expression, AdmittedShape
  <2>3. ~yes.throws => /\ yes.match[Root] => v.t = "list" /\ w.t = "list" /\ Members[v] \subseteq Members[w]
                       /\ v.t = "list" /\ w.t = "list" /\ Members[v] \subseteq Members[w]
                           => yes.match[Root] \/ NullElement \/ ~a.guard[Root] \/ ~b.guard[Root]
    <3>1. nay \in BOOLEAN /\ q \in {"all", "exists"} /\ (nay <=> q = "exists")
      BY <1>12, <1>13
    <3>2. /\ ArrayField(a) \/ ConstantList(a)
          /\ ArrayField(b) \/ ConstantList(b)
          /\ v = a.val[Root] /\ w = b.val[Root] /\ q = "all"
          /\ yes = EveryElementIn(q, a, b, nay)
      BY <1>1, <1>2, <1>3, <1>12, <2>1
    <3>3. ASSUME ~yes.throws
          PROVE  q = "all" => /\ yes.match[Root] => (a.val[Root].t = "list" /\ b.val[Root].t = "list") /\ Members[a.val[Root]] \subseteq Members[b.val[Root]]
                              /\ (a.val[Root].t = "list" /\ b.val[Root].t = "list") /\ Members[a.val[Root]] \subseteq Members[b.val[Root]]
                                    => yes.match[Root] \/ (NullElement \/ ~a.guard[Root] \/ ~b.guard[Root])
      BY <2>2, <3>1, <3>2, <3>3, InclusionSays
    <3> QED BY <3>2, <3>3
  <2>4. ~no.throws => /\ no.match[Root] => v.t = "list" /\ w.t = "list" /\ ~(Members[v] \subseteq Members[w])
                      /\ v.t = "list" /\ w.t = "list" /\ ~(Members[v] \subseteq Members[w])
                           => no.match[Root] \/ NullElement \/ ~a.guard[Root] \/ ~b.guard[Root]
    <3>1. yea \in BOOLEAN /\ p \in {"all", "exists"} /\ (yea <=> p = "exists")
      BY <1>12, <1>13
    <3>2. /\ ArrayField(a) \/ ConstantList(a)
          /\ ArrayField(b) \/ ConstantList(b)
          /\ v = a.val[Root] /\ w = b.val[Root] /\ p = "exists"
          /\ no = EveryElementIn(p, a, b, yea)
      BY <1>1, <1>2, <1>3, <1>12, <2>1
    <3>3. ASSUME ~no.throws
          PROVE  p = "exists" => /\ no.match[Root] => (a.val[Root].t = "list" /\ b.val[Root].t = "list") /\ ~(Members[a.val[Root]] \subseteq Members[b.val[Root]])
                                 /\ (a.val[Root].t = "list" /\ b.val[Root].t = "list") /\ ~(Members[a.val[Root]] \subseteq Members[b.val[Root]])
                                       => no.match[Root] \/ (NullElement \/ ~a.guard[Root] \/ ~b.guard[Root])
      BY <2>2, <3>1, <3>2, <3>3, InclusionSays
    <3> QED BY <3>2, <3>3
  <2>5. PICK P : P \in BOOLEAN /\ (P <=> Members[v] \subseteq Members[w])
    OBVIOUS
  <2>6. (IsEmpty(z) <=> both /\ P) /\ (Holds(z) <=> both /\ ~P)
    BY <1>9, <1>14, <2>5
  <2>7. ~yes.throws => (yes.match[Root] => both /\ P) /\ (both /\ P => yes.match[Root] \/ lost)
    BY <1>8, <1>11, <2>3, <2>5
  <2>8. ~no.throws => (no.match[Root] => both /\ ~P) /\ (both /\ ~P => no.match[Root] \/ lost)
    BY <1>8, <1>11, <2>4, <2>5
  <2>9. /\ Runs(yes) => (yes.match[Root] => IsEmpty(z)) /\ (IsEmpty(z) => yes.match[Root] \/ lost)
        /\ Runs(no) => (no.match[Root] => Holds(z)) /\ (Holds(z) => no.match[Root] \/ lost)
    BY <2>6, <2>7, <2>8 DEF Runs
  <2> QED BY <1>2, <1>4, <1>9, <1>10, <2>9
<1>15. CASE op = "intersect"
  <2>1. PICK c, o : /\ yes = EveryElementIn(q, c, o, yea) /\ no = EveryElementIn(p, c, o, nay)
                    /\ (c = a /\ o = b) \/ (c = b /\ o = a)
                    /\ ~(ConstantList(c) /\ ArrayField(o))
    <3>1. ASSUME NEW empty \in BOOLEAN
          PROVE  LET quantifier == IF empty THEN "all" ELSE "exists" IN
                 /\ Swapped(op, args) => Emptiness(op, args, empty) = EveryElementIn(quantifier, args[2], args[1], empty)
                 /\ ~Swapped(op, args) => Emptiness(op, args, empty) = EveryElementIn(quantifier, args[1], args[2], empty)
      BY <1>15, EmptinessIs
    <3>2. TRUE \in BOOLEAN /\ FALSE \in BOOLEAN
      OBVIOUS
    <3>3. \A n : (ArrayField(n) => n.kind = "variable") /\ (ConstantList(n) => n.kind = "value")
      BY DEF ArrayField, ConstantList
    <3>4. CASE Swapped(op, args)
      <4>1. ~(ConstantList(b) /\ ArrayField(a))
        BY <1>1, <3>3, <3>4 DEF Swapped
      <4>2. /\ Emptiness(op, args, TRUE) = EveryElementIn("all", args[2], args[1], TRUE)
            /\ Emptiness(op, args, FALSE) = EveryElementIn("exists", args[2], args[1], FALSE)
        BY <3>1, <3>2, <3>4
      <4> QED BY <1>1, <1>5, <1>6, <1>12, <1>13, <4>1, <4>2
    <3>5. CASE ~Swapped(op, args)
      <4>1. ~(ConstantList(a) /\ ArrayField(b))
        BY <1>1, <1>15, <3>3, <3>5 DEF Swapped
      <4>2. /\ Emptiness(op, args, TRUE) = EveryElementIn("all", args[1], args[2], TRUE)
            /\ Emptiness(op, args, FALSE) = EveryElementIn("exists", args[1], args[2], FALSE)
        BY <3>1, <3>2, <3>5
      <4> QED BY <1>1, <1>5, <1>6, <1>12, <1>13, <4>1, <4>2
    <3> QED BY <3>4, <3>5
  <2>2. PICK x, y : x = c.val[Root] /\ y = o.val[Root]
    OBVIOUS
  <2>3. /\ ArrayField(c) \/ ConstantList(c)
        /\ ArrayField(o) \/ ConstantList(o)
        /\ NullElement \/ ~c.guard[Root] \/ ~o.guard[Root] => lost
    BY <1>2, <1>3, <1>11, <2>1
  <2>4. ~yes.throws => /\ yes.match[Root] => x.t = "list" /\ y.t = "list" /\ Members[x] \intersect Members[y] = {}
                       /\ x.t = "list" /\ y.t = "list" /\ Members[x] \intersect Members[y] = {}
                           => yes.match[Root] \/ NullElement \/ ~c.guard[Root] \/ ~o.guard[Root]
    <3>1. yea \in BOOLEAN /\ q \in {"all", "exists"} /\ (yea <=> q = "all")
      BY <1>12, <1>13
    <3> QED BY <1>12, <2>1, <2>2, <2>3, <3>1, DisjointSays
  <2>5. ~no.throws => /\ no.match[Root] => x.t = "list" /\ y.t = "list" /\ ~(Members[x] \intersect Members[y] = {})
                      /\ x.t = "list" /\ y.t = "list" /\ ~(Members[x] \intersect Members[y] = {})
                           => no.match[Root] \/ NullElement \/ ~c.guard[Root] \/ ~o.guard[Root]
    <3>1. nay \in BOOLEAN /\ p \in {"all", "exists"} /\ (nay <=> p = "all")
      BY <1>12, <1>13
    <3> QED BY <1>12, <2>1, <2>2, <2>3, <3>1, DisjointSays
  <2>6. (x = v /\ y = w) \/ (x = w /\ y = v)
    BY <1>1, <2>1, <2>2
  <2>7. /\ x.t = "list" /\ y.t = "list" <=> both
        /\ Members[x] \intersect Members[y] = {} <=> Members[v] \intersect Members[w] = {}
    BY <1>8, <2>6
  <2> QED BY <1>2, <1>4, <1>9, <1>10, <1>15, <2>3, <2>4, <2>5, <2>7 DEF Runs
<1> QED BY <1>14, <1>15 DEF SetOperations

-----------------------------------------------------------------------------
(* Every expression reads as its condition *)

\* A reference of the document in a lambda is refused, under either polarity.
LEMMA OuterRefused ==
  ASSUME NEW op, NEW args, NEW m, Expression(op, args, m), OuterReference(op, args)
  PROVE  m.yes = Refusal /\ TranslateNot(m, args) = Refusal
<1>1. m.kind = op /\ m.yes = BuildFilter(op, args, m.agg, m.aggThrows)
  BY BareHead, BareParts DEF Expression
<1>2. BuildFilter(op, args, m.agg, m.aggThrows) = Refusal
  BY DEF BuildFilter
<1> QED BY <1>1, <1>2 DEF TranslateNot

\* Lists and constants are the document's.
LEMMA SetStands ==
  ASSUME NEW op \in SetOperations, NEW args, Well(op, args)
  PROVE  ~OuterReference(op, args)
<1>1. DOMAIN args = 1 .. 2
  BY WidthIs DEF Binary, SetOperations
<1>2. WellFormedPlan(op, args)
  BY DEF Well
<1>3. ASSUME NEW j \in DOMAIN args PROVE args[j].scope # "element"
  <2>1. NodeOK(args[j])
    BY <1>3 DEF Well
  <2>2. args[j].kind = "map" \/ args[j].lit.t = "list" \/ args[j].shape \in {"list", "many"}
    BY <1>2, <1>3 DEF WellFormedPlan
  <2>3. args[j].kind # "map"
    BY <1>3, ScalarOperands DEF SetOperations
  <2>4. CASE args[j].lit.t = "list"
    <3>1. ConstantList(args[j])
      BY <2>1, <2>4, LitIs DEF ConstantList
    <3> QED BY <3>1, ShapeIs DEF ConstantList
  <2>5. CASE args[j].shape \in {"list", "many"}
    <3>1. ArrayField(args[j])
      BY <2>1, <2>3, <2>5, ShapeIs DEF ArrayField, Lists
    <3> QED BY <3>1, ArrayIs
  <2> QED BY <2>2, <2>3, <2>4, <2>5
<1>4. ScopeOf(args) # "element"
  BY <1>3 DEF ScopeOf
<1> QED BY <1>4 DEF OuterReference

\* What is no condition has no filter.
LEMMA ValueSays ==
  ASSUME NEW op \in {"add", "div", "mod", "size", "index"}, NEW args, NEW m, InPlace(op, args, m)
  PROVE  Covered(m, args) /\ \A e : Says(m, args, e)
<1>1. m.yes = BuildFilter(op, args, m.agg, m.aggThrows) /\ ~OuterReference(op, args)
  BY InPlaceIs DEF InPlace
<1>2. m.yes = Refusal
  BY <1>1, BuildIs
<1>3. m.yes.throws
  BY <1>2, RefusalIs
<1>4. TranslateNot(m, args) = Nor(m)
  BY NorOf
<1>5. TranslateNot(m, args).throws
  BY <1>3, <1>4, NorRefused
<1> QED BY <1>3, <1>5, RefusedSays

\* The filters of an expression, operator by operator.
LEMMA InPlaceSays ==
  ASSUME NEW op, NEW args, NEW m, InPlace(op, args, m), op \notin SetOperations
  PROVE  (m.scope = "element" => Covered(m, args)) /\ \A e \in Places(op, args) : Says(m, args, e)
<1>1. op \in AllOperators \ (Macros \union {"map"})
  BY InPlaceIs DEF InPlace, Inside, Well
<1>2. CASE op \in Junctions
  BY <1>2, JunctionCovered, JunctionSays DEF Says
<1>3. CASE op \in Comparisons
  BY <1>3, ComparisonSays
<1>4. CASE op \in ConditionalLists
  BY <1>4, ConditionalSays
<1>5. CASE op \in Folds
  BY <1>5, FoldSays
<1>6. CASE op = "not"
  BY <1>6, NotSays
<1>7. CASE op = "if"
  BY <1>7, IfSays
<1>8. CASE op = "in"
  BY <1>8, InSays
<1>9. CASE op = "startsWith"
  BY <1>9, StartsWithSays
<1>10. CASE op = "matches"
  BY <1>10, MatchesSays
<1>11. CASE op = "hasIntersection"
  BY <1>11, IntersectionSays
<1>12. CASE op = "isSubset"
  BY <1>12, SubsetSays
<1>13. CASE op \in {"add", "div", "mod", "size", "index"}
  BY <1>13, ValueSays
<1> QED BY <1>1, <1>2, <1>3, <1>4, <1>5, <1>6, <1>7, <1>8, <1>9, <1>10, <1>11, <1>12, <1>13
        DEF AllOperators, SetOperations

\* An expression's own filters grant and deny what CEL does.
LEMMA ConditionSays ==
  ASSUME NEW op, NEW args, NEW m, Expression(op, args, m), op \notin SetOperations \union {"map"}
  PROVE  /\ \A e \in Places(op, args) : Says(m, args, e)
         /\ m.scope = "element" /\ ~m.exprGuard /\ (~m.yes.throws \/ ~TranslateNot(m, args).throws)
              => \A e \in ElementEnvs : m.guard[e] \/ NullElement
<1>1. CASE op \in Macros
  BY <1>1, MacroSays
<1>2. CASE op \notin Macros /\ OuterReference(op, args)
  <2>1. m.yes.throws /\ TranslateNot(m, args).throws
    BY <1>2, OuterRefused, RefusalIs
  <2> QED BY <2>1, RefusedSays
<1>3. CASE op \notin Macros /\ ~OuterReference(op, args)
  <2>1. InPlace(op, args, m)
    BY <1>3 DEF InPlace, Inside
  <2>2. (m.scope = "element" => Covered(m, args)) /\ \A e \in Places(op, args) : Says(m, args, e)
    BY <2>1, InPlaceSays
  <2>3. ASSUME m.scope = "element", ~m.exprGuard, ~m.yes.throws \/ ~TranslateNot(m, args).throws,
               NEW e \in ElementEnvs
        PROVE  m.guard[e] \/ NullElement
    <3>1. \A i \in DOMAIN args : args[i].kind \in {"value", "variable"} \/ ~args[i].yes.throws \/ ~args[i].no.throws
      BY <2>2, <2>3 DEF Covered
    <3> QED BY <2>1, <2>3, <3>1, ElementGuards
  <2> QED BY <2>2, <2>3
<1> QED BY <1>1, <1>2, <1>3

LEMMA ExpressionReads ==
  ASSUME NEW op, NEW args, Well(op, args), Admitted = {}, AdmittedShape(op, args),
         NEW n, n = ExpressionNode(op, args)
  PROVE  ReadsFine(n, ElementEnvs, NullElement)
<1>1. PICK m : m = BareExpression(op, args)
  OBVIOUS
<1>2. Expression(op, args, m)
  BY <1>1 DEF Expression
<1>3. PICK no : no = TranslateNot(m, args)
  OBVIOUS
<1>4. /\ n.no = no /\ n.kind = op /\ n.shape = m.shape /\ n.scope = m.scope /\ n.val = m.val
      /\ n.guard = m.guard /\ n.exprGuard = m.exprGuard /\ n.yes = m.yes
  BY <1>1, <1>3, ExpressionIs
<1>5. m.scope = ScopeFor(op, args) /\ m.shape = IF op = "map" THEN args[1].shape ELSE "none"
  BY <1>1, BareHead
<1>6. CASE op \in SetOperations
  <2>1. InPlace(op, args, m)
    BY <1>2, <1>6, SetStands DEF InPlace, Inside, Macros, SetOperations
  <2>2. /\ m.scope = "root" /\ m.val[Root].t \in {"list", "error"}
        /\ Runs(m.yes) => /\ m.yes.match[Root] => IsEmpty(m.val[Root])
                          /\ IsEmpty(m.val[Root]) => m.yes.match[Root] \/ Lost(m, Root, NullElement)
        /\ Runs(no) => /\ no.match[Root] => Holds(m.val[Root])
                       /\ Holds(m.val[Root]) => no.match[Root] \/ Lost(m, Root, NullElement)
    BY <1>3, <1>6, <2>1, SetSays
  <2>3. Lost(n, Root, NullElement) <=> Lost(m, Root, NullElement)
    BY <1>4 DEF Lost
  <2>4. SetProven(n, NullElement)
    BY <1>4, <2>2, <2>3 DEF SetProven
  <2> QED BY <1>4, <1>6, <2>4 DEF ReadsFine
<1>7. CASE op = "map"
  <2>1. n.shape = "many"
    <3>1. WellFormedPlan(op, args)
      BY DEF Well
    <3> QED BY <1>4, <1>5, <1>7, <3>1 DEF WellFormedPlan
  <2>2. n.kind \notin SetOperations /\ n.shape \in Lists
    BY <1>4, <1>7, <2>1 DEF SetOperations, Lists
  <2> QED BY <2>2 DEF ReadsFine
<1>8. CASE op \notin SetOperations \union {"map"}
  <2>1. /\ \A e \in Places(op, args) : Says(m, args, e)
        /\ m.scope = "element" /\ ~m.exprGuard /\ (~m.yes.throws \/ ~no.throws)
             => \A e \in ElementEnvs : m.guard[e] \/ NullElement
    BY <1>2, <1>3, <1>8, ConditionSays
  <2>2. Envs(ElementEnvs, n.scope) = Places(op, args)
    BY <1>4, <1>5 DEF Places
  <2>3. ASSUME NEW e \in Envs(ElementEnvs, n.scope)
        PROVE  /\ Allows(n.yes, e, n.val[e], Lost(n, e, NullElement), n.scope = "root")
               /\ Denies(n.no, e, n.val[e], Lost(n, e, NullElement))
    <3>1. SaysYes(m, e) /\ SaysNo(m, no, e)
      BY <1>3, <2>1, <2>2, <2>3 DEF Says
    <3> QED BY <1>4, <3>1 DEF SaysYes, SaysNo, Allows, Denies, Lost
  <2>4. ElementGuarded(n, ElementEnvs, NullElement)
    BY <1>4, <2>1 DEF ElementGuarded
  <2>5. Proven(n, ElementEnvs, NullElement)
    BY <2>3, <2>4 DEF Proven
  <2> QED BY <1>4, <1>8, <2>5 DEF ReadsFine
<1> QED BY <1>6, <1>7, <1>8

-----------------------------------------------------------------------------
(* Constants and attributes *)

LEMMA LiteralIs ==
  ASSUME NEW x \in Literals
  PROVE  x \in Plain /\ x.t # "error" /\ x \in Cells /\ x # Err
<1>1. x \in Value /\ x.t \in {"null", "num", "str", "bool", "list"}
  BY StoredAssumption
<1> QED BY <1>1, Constants DEF Plain, PlainTypes, Cells

LEMMA ValueNodeFine ==
  ASSUME NEW x \in Literals, NEW E, NEW A, NEW L
  PROVE  NodeFine(ValueNode(x), E, A, L)
<1>1. PICK n : n = ValueNode(x)
  OBVIOUS
<1>2. /\ n.kind = "value" /\ n.shape = "none" /\ n.lit = x /\ n.nullable = FALSE /\ n.elementNullable = FALSE
      /\ n.type = (IF x.t \in {"num", "str", "bool"} THEN x.t ELSE "none") /\ n.scope = "none"
      /\ n.val = [e \in {Root} |-> x] /\ n.agg = [e \in {Root} |-> x] /\ n.aggThrows = FALSE
      /\ n.guard = [e \in {Root} |-> TRUE] /\ n.exprGuard = FALSE /\ n.yes = Refusal /\ n.no = Refusal
      /\ n.typed = TRUE
  BY <1>1 DEF ValueNode
<1>3. x \in Plain /\ x.t # "error" /\ x \in Cells /\ x # Err
  BY LiteralIs
<1>4. Envs(E, n.scope) = {Root}
  BY <1>2 DEF Envs
<1>5. FilterTyped(Refusal, {Root}) /\ Refusal.throws
  BY RefusalIs
<1>6. NodeTyped(n, E, A)
  <2>1. /\ n.val \in [{Root} -> Plain] /\ DOMAIN n.agg = {Root} /\ n.guard \in [{Root} -> BOOLEAN]
    BY <1>2, <1>3
  <2> QED BY <1>2, <1>3, <1>4, <1>5, <2>1 DEF NodeTyped
<1>7. ValueFine(n)
  BY <1>2, <1>3, <1>5 DEF ValueFine
<1>8. Agrees(n, E)
  BY <1>2, <1>3, <1>4 DEF Agrees, Computes
<1>9. TypeTold(n, E)
  BY <1>2, <1>4 DEF TypeTold
<1>10. ReadsFine(n, E, L)
  <2>1. ~Runs(n.yes) /\ ~Runs(n.no)
    BY <1>2, <1>5 DEF Runs
  <2>2. Proven(n, E, L)
    BY <1>2, <2>1 DEF Proven, Allows, Denies, ElementGuarded
  <2> QED BY <1>2, <2>2 DEF ReadsFine, SetOperations
<1> QED BY <1>1, <1>2, <1>6, <1>7, <1>8, <1>9, <1>10 DEF NodeFine

\* The filters of an attribute, and of its negation.
LEMMA VariableFilters ==
  ASSUME NEW r, NEW shape, NEW entry, NEW elementEntry, NEW stored,
         NEW n, n = VariableNode(r, shape, entry, elementEntry, stored)
  PROVE  /\ FilterTyped(n.yes, DOMAIN stored) /\ FilterTyped(n.no, DOMAIN stored)
         /\ shape # "many" =>
              /\ ~n.yes.throws /\ ~n.yes.aborts
              /\ \A e \in DOMAIN stored : n.yes.match[e] <=> stored[e] = True
              /\ ~n.no.throws =>
                   /\ ~n.no.aborts
                   /\ \A e \in DOMAIN stored : n.no.match[e] <=> ~n.yes.match[e] /\ VariableGuard(shape, entry.nullable, stored[e])
<1> DEFINE b == [kind |-> "variable", shape |-> shape, lit |-> Undefined, nullable |-> entry.nullable,
            elementNullable |-> shape = "many" /\ elementEntry.nullable,
            type |-> entry.type, scope |-> IF shape = "element" THEN "element" ELSE "root",
            val |-> [e \in DOMAIN stored |-> Attribute(entry, stored[e])],
            agg |-> stored, aggThrows |-> FALSE,
            guard |-> [e \in DOMAIN stored |-> VariableGuard(shape, entry.nullable, stored[e])],
            exprGuard |-> FALSE, yes |-> Refusal, no |-> Refusal,
            nullReads |-> IF entry.nullable THEN {r} ELSE {}, always |-> {r}, listRead |-> FALSE,
            listShape |-> [e \in DOMAIN stored |-> TRUE], typed |-> TRUE]
<1>1. PICK f : f = IF shape = "many" THEN Refusal ELSE EmitLeafComparison(b, "eq", True, entry.nullable, FALSE)
  OBVIOUS
<1>2. PICK c : c = [b EXCEPT !.yes = f]
  OBVIOUS
<1>3. n = [c EXCEPT !.no = Nor(c)]
  BY <1>1, <1>2 DEF VariableNode
<1>4. PICK g : g = Nor(c)
  OBVIOUS
<1>5. n.yes = f /\ n.no = g
  BY <1>2, <1>3, <1>4
<1>6. /\ c.yes = f /\ c.exprGuard = FALSE /\ c.guard = [e \in DOMAIN stored |-> VariableGuard(shape, entry.nullable, stored[e])]
      /\ c.listShape = [e \in DOMAIN stored |-> TRUE]
  BY <1>2
<1>7. b.agg = stored /\ b.shape = shape
  OBVIOUS
<1> HIDE DEF b
<1>8. /\ FilterTyped(f, DOMAIN stored)
      /\ shape # "many" =>
           /\ ~f.throws /\ ~f.aborts
           /\ \A e \in DOMAIN stored : f.match[e] <=> stored[e] = True
  <2>1. CASE shape = "many"
    BY <1>1, <2>1, RefusalIs
  <2>2. CASE shape # "many"
    <3>1. f = EmitLeafComparison(b, "eq", True, entry.nullable, FALSE)
      BY <1>1, <2>2
    <3>2. /\ FilterTyped(f, DOMAIN stored) /\ ~f.throws /\ ~f.aborts
          /\ \A e \in DOMAIN stored : f.match[e] <=> GuardedMatches("eq", stored[e], True, entry.nullable, FALSE)
      BY <1>7, <2>2, <3>1, LeafIs
    <3>3. \A x : GuardedMatches("eq", x, True, entry.nullable, FALSE) <=> x = True
      <4>1. \A x : QueryMatches("eq", x, True) <=> x = True
        BY QueryIs, Constants
      <4>2. \A x : x = True => ~Missing(x)
        BY Constants DEF Missing
      <4> QED BY <4>1, <4>2 DEF GuardedMatches
    <3> QED BY <3>2, <3>3
  <2> QED BY <2>1, <2>2
<1>9. /\ FilterTyped(g, DOMAIN stored)
      /\ ~g.throws => /\ g.aborts <=> c.yes.aborts \/ (c.scope = "element" /\ c.exprGuard)
                      /\ \A e \in DOMAIN stored : g.match[e] <=> ~c.yes.match[e] /\ c.guard[e] /\ c.listShape[e]
  BY <1>4, <1>6, <1>8, NorIs
<1>10. ~g.throws /\ shape # "many" =>
         /\ ~g.aborts
         /\ \A e \in DOMAIN stored : g.match[e] <=> ~f.match[e] /\ VariableGuard(shape, entry.nullable, stored[e])
  BY <1>6, <1>8, <1>9
<1> QED BY <1>5, <1>8, <1>9, <1>10

\* What a path may hold where a reference of this shape and entry is mapped to it.
HoldsAt(shape, entry, x) ==
  /\ x \in Cells
  /\ x.t = "list" => shape \in Lists
  /\ shape \in Lists => x.t \in {"null", "undefined", "list"}
  /\ entry.type # "none" => \A m \in IF IsCollection(x) THEN Members[x] ELSE {x} : m.t = entry.type \/ Missing(m)
  /\ x = Undefined /\ ~entry.nullable => shape \in {"one", "list", "many"}

LEMMA VariableNodeFine ==
  ASSUME NEW r, NEW shape \in Shapes, NEW entry, entry.nullable \in BOOLEAN, entry.type \in {"none", "num", "str", "bool"},
         NEW elementEntry, NEW stored, NEW E, E \subseteq Item, NEW A, NEW L,
         DOMAIN stored = Envs(E, IF shape = "element" THEN "element" ELSE "root"),
         \A e \in DOMAIN stored : HoldsAt(shape, entry, stored[e]),
         shape = "element" => /\ A /\ \A e \in E : stored[e] = e
                              /\ entry.nullable /\ Null \in E => L,
         shape = "many" => /\ A /\ Elements(stored[Root]) = E
                           /\ elementEntry.nullable /\ Null \in E => L \/ entry.nullable
  PROVE  NodeFine(VariableNode(r, shape, entry, elementEntry, stored), E, A, L)
<1>1. PICK n : n = VariableNode(r, shape, entry, elementEntry, stored)
  OBVIOUS
<1>2. /\ n.kind = "variable" /\ n.shape = shape /\ n.lit = Undefined /\ n.nullable = entry.nullable
      /\ n.type = entry.type /\ n.scope = (IF shape = "element" THEN "element" ELSE "root")
      /\ n.val = [e \in DOMAIN stored |-> Attribute(entry, stored[e])]
      /\ n.agg = stored /\ n.aggThrows = FALSE /\ n.exprGuard = FALSE /\ n.typed = TRUE
      /\ n.guard = [e \in DOMAIN stored |-> VariableGuard(shape, entry.nullable, stored[e])]
  BY <1>1 DEF VariableNode
<1>14. n.elementNullable \in BOOLEAN /\ (n.elementNullable <=> shape = "many" /\ elementEntry.nullable)
  BY <1>1 DEF VariableNode
<1>15. FilterTyped(n.yes, DOMAIN stored) /\ FilterTyped(n.no, DOMAIN stored)
  BY <1>1, VariableFilters
<1>3. /\ n.elementNullable \in BOOLEAN /\ (n.elementNullable <=> shape = "many" /\ elementEntry.nullable)
      /\ FilterTyped(n.yes, DOMAIN stored) /\ FilterTyped(n.no, DOMAIN stored)
  BY <1>14, <1>15
<1>4. shape # "many" =>
        /\ ~n.yes.throws /\ ~n.yes.aborts
        /\ \A e \in DOMAIN stored : n.yes.match[e] <=> stored[e] = True
        /\ ~n.no.throws =>
             /\ ~n.no.aborts
             /\ \A e \in DOMAIN stored : n.no.match[e] <=> ~n.yes.match[e] /\ VariableGuard(shape, entry.nullable, stored[e])
  BY <1>1, VariableFilters
<1>5. PICK F : F = DOMAIN stored
  OBVIOUS
<1>6. F = Envs(E, n.scope)
  BY <1>2, <1>5
<1>7. \A e \in F : CellFine(n, n.agg[e], n.val[e], n.guard[e])
  BY <1>2, <1>5 DEF HoldsAt, CellFine, Attribute
<1>8. ASSUME NEW e \in F
      PROVE  LET x == n.agg[e]
                 v == n.val[e]
                 g == n.guard[e]
             IN /\ x \in Cells /\ v \in Plain /\ g \in BOOLEAN
                /\ v = Err <=> x = Undefined \/ (n.nullable /\ x = Null)
                /\ v # Err => v = x
                /\ g <=> VariableGuard(shape, entry.nullable, stored[e])
                /\ shape \notin Lists => /\ g => v # Err
                                         /\ n.type # "none" => x.t = n.type \/ x = Null \/ x = Undefined
                                         /\ shape # "one" /\ ~g => x \in {Null, Undefined} /\ n.nullable
                                         /\ x \in {True, False} => g
  <2>1. PICK x, v, g : x = n.agg[e] /\ v = n.val[e] /\ g = n.guard[e]
    OBVIOUS
  <2>2. CellFine(n, x, v, g) /\ n.nullable \in BOOLEAN
    BY <1>2, <1>7, <2>1
  <2>3. /\ x \in Value /\ x \in Cells /\ x # Err
        /\ Missing(x) <=> x = Null \/ x = Undefined
        /\ v = Err <=> x = Undefined \/ (n.nullable /\ x = Null)
        /\ v # Err => v = x
        /\ g <=> /\ n.nullable => ~Missing(x) /\ Null \notin Elements(x)
                 /\ n.shape = "one" => x # Undefined
        /\ n.shape \notin Lists =>
             /\ Elements(x) = {}
             /\ g => v # Err
             /\ n.type # "none" => x.t = n.type \/ Missing(x)
             /\ n.shape # "one" /\ ~g => x \in {Null, Undefined} /\ n.nullable
    BY <2>2, CellIs
  <2>4. v \in Plain
    <3>1. v = Err => v \in Plain
      BY TriPlain DEF Tri
    <3>2. v # Err => x.t # "undefined" /\ v = x
      BY <2>3, ValueIs
    <3>3. x.t \in {"null", "undefined", "num", "str", "bool", "list"}
      BY <2>3 DEF Cells
    <3> QED BY <2>3, <3>1, <3>2, <3>3 DEF Plain, PlainTypes
  <2>5. g \in BOOLEAN /\ (g <=> VariableGuard(shape, entry.nullable, stored[e]))
    <3>1. g = VariableGuard(shape, entry.nullable, stored[e])
      BY <1>2, <1>5, <2>1
    <3> QED BY <3>1 DEF VariableGuard
  <2>6. x \in {True, False} => x # Null /\ x # Undefined
    BY Constants
  <2>7. shape \notin Lists /\ x \in {True, False} => g
    BY <1>2, <2>3, <2>6
  <2> QED BY <1>2, <2>1, <2>3, <2>4, <2>5, <2>7
<1>9. NodeTyped(n, E, A)
  <2>1. n.val \in [F -> Plain] /\ n.guard \in [F -> BOOLEAN] /\ DOMAIN n.agg = F
    BY <1>2, <1>5, <1>8
  <2>2. Undefined \in Cells
    BY DEF Undefined, Cells, Value, Types, Scalars, WellFormed
  <2>3. FilterTyped(n.yes, F) /\ FilterTyped(n.no, F)
    BY <1>3, <1>5
  <2>4. n.scope \in {"none", "root", "element"} /\ (n.scope = "element" => A)
    BY <1>2
  <2> QED BY <1>2, <1>3, <1>6, <2>1, <2>2, <2>3, <2>4 DEF NodeTyped
<1>10. VariableFine(n, E, A, L)
  <2>1. shape = "element" => \A e \in E : n.agg[e] = e
    BY <1>2
  <2>2. shape = "many" /\ n.elementNullable /\ Null \in E => L \/ ~n.guard[Root]
    <3>1. SUFFICES ASSUME shape = "many", elementEntry.nullable, Null \in E, ~L PROVE ~n.guard[Root]
      BY <1>3
    <3>2. entry.nullable /\ Null \in Elements(stored[Root]) /\ Root \in DOMAIN stored
      BY <3>1 DEF Envs
    <3> QED BY <1>2, <3>2 DEF VariableGuard
  <2> QED BY <1>2, <1>3, <1>6, <1>7, <2>1, <2>2 DEF VariableFine
<1>11. Agrees(n, E)
  BY <1>2, <1>6, <1>8 DEF Agrees, Computes
<1>12. TypeTold(n, E)
  <2>1. SUFFICES ASSUME n.shape \notin Lists, n.type \in {"num", "str", "bool"}, NEW e \in F
                 PROVE  n.val[e].t \in {n.type, "error", "null"}
    BY <1>6 DEF TypeTold
  <2> QED BY <1>2, <1>8, <2>1, Constants
<1>13. ReadsFine(n, E, L)
  <2>1. SUFFICES ASSUME shape \notin Lists PROVE Proven(n, E, L)
    BY <1>2 DEF ReadsFine, SetOperations
  <2>2. ElementGuarded(n, E, L)
    <3>1. SUFFICES ASSUME shape = "element", NEW e \in E PROVE n.guard[e] \/ L
      BY <1>2 DEF ElementGuarded
    <3>2. e \in F /\ n.agg[e] = e /\ e \in Item
      BY <1>2, <1>6, <3>1 DEF Envs
    <3>3. e # Undefined
      BY <3>2, ItemIs
    <3>4. ~n.guard[e] => n.agg[e] \in {Null, Undefined} /\ n.nullable
      BY <1>2, <1>8, <2>1, <3>1, <3>2
    <3> QED BY <1>2, <3>1, <3>2, <3>3, <3>4
  <2>3. ASSUME NEW e \in F
        PROVE  /\ Allows(n.yes, e, n.val[e], Lost(n, e, L), n.scope = "root")
               /\ Denies(n.no, e, n.val[e], Lost(n, e, L))
    <3>1. PICK x, v, g : x = n.agg[e] /\ v = n.val[e] /\ g = n.guard[e]
      OBVIOUS
    <3>2. /\ v \in Plain /\ (v = Err <=> x = Undefined \/ (n.nullable /\ x = Null)) /\ (v # Err => v = x)
          /\ g <=> VariableGuard(shape, entry.nullable, stored[e])
          /\ g => v # Err
          /\ x \in {True, False} => g
      BY <1>8, <2>1, <2>3, <3>1
    <3>3. x = stored[e] /\ e \in DOMAIN stored /\ n.nullable = entry.nullable
      BY <1>2, <1>5, <3>1
    <3>4. n.yes.match[e] <=> x = True
      BY <1>4, <2>1, <3>3 DEF Lists
    <3>5. ~n.no.throws => (n.no.match[e] <=> x # True /\ g)
      BY <1>4, <2>1, <3>2, <3>3, <3>4 DEF Lists
    <3>6. v = True <=> x = True
      BY <3>2, Constants
    <3>7. v = False <=> x = False
      BY <3>2, Constants
    <3>8. IsTri(v) => v \in {True, False, Err}
      BY <3>2, ConditionValue DEF Tri
    <3>9. Allows(n.yes, e, v, Lost(n, e, L), n.scope = "root")
      BY <3>4, <3>6 DEF Allows
    <3>10. ASSUME Runs(n.no), n.no.match[e], IsTri(v) PROVE v = False
      BY <3>2, <3>5, <3>6, <3>8, <3>10 DEF Runs
    <3>11. ASSUME Runs(n.no), v = False PROVE n.no.match[e]
      BY <3>2, <3>5, <3>7, <3>11, Constants DEF Runs
    <3> QED BY <3>1, <3>9, <3>10, <3>11 DEF Denies
  <2> QED BY <1>6, <2>2, <2>3 DEF Proven
<1> QED BY <1>1, <1>2, <1>9, <1>10, <1>11, <1>12, <1>13 DEF NodeFine

-----------------------------------------------------------------------------
(* The document and the mapper's entries, as the plan reads them *)

Relations(d) == {r \in DOMAIN d : Shape[r] = "many"}
ElementsIn(d) == UNION {Elements(d[r]) : r \in Relations(d)}
NullIn(d, entries) == \E r \in DOMAIN d : Shape[r] = "element" /\ entries[r].nullable /\ Null \in Elements(d[r])

RefFine(r, d, entries) ==
  /\ d[r] \in StoredAt(r)
  /\ entries[r].nullable \in BOOLEAN /\ entries[r].type \in {"none", "num", "str", "bool"}
  /\ Together(r) \subseteq DOMAIN d
  /\ \A q \in Together(r) : d[q] = d[r]
  /\ IF Shape[r] = "element" THEN \A m \in Elements(d[r]) : HoldsAt("element", entries[r], m)
     ELSE HoldsAt(Shape[r], entries[r], d[r])

DocFine(d, entries) ==
  /\ DOMAIN d \subseteq Refs /\ DOMAIN entries = DOMAIN d
  /\ \A r \in DOMAIN d : RefFine(r, d, entries)

LEMMA TogetherIs ==
  ASSUME NEW r \in Refs
  PROVE  /\ r \in Together(r) /\ Together(r) \subseteq Refs
         /\ \A q \in Together(r) : Together(q) = Together(r) /\ StoredAt(q) = StoredAt(r)
         /\ Shape[r] \in Shapes
BY ShapeAssumption DEF Together, Refs, StoredAt

\* One relation at most has been read.
LEMMA ElementsAre ==
  ASSUME NEW d, DOMAIN d \subseteq Refs, NEW a \in Relations(d)
  PROVE  Relations(d) = {a} /\ ElementsIn(d) = Elements(d[a])
<1>1. \A q \in Relations(d) : q = a
  BY ShapeAssumption DEF Relations, Refs
<1>2. Relations(d) = {a}
  BY <1>1
<1> QED BY <1>2 DEF ElementsIn

LEMMA StoredIs ==
  ASSUME NEW r \in Refs, NEW x \in StoredAt(r)
  PROVE  /\ x \in Cells
         /\ Shape[r] \in {"field", "one"} => x.t # "list"
         /\ Shape[r] \notin {"field", "one"} => x.t \in {"null", "undefined", "list"}
         /\ Elements(x) \subseteq Item
<1>1. /\ x \in Value /\ x.t \in {"null", "num", "str", "bool", "undefined", "list"}
      /\ Shape[r] \in {"field", "one"} => x.t # "list"
      /\ Shape[r] \notin {"field", "one"} => x.t \in {"null", "undefined", "list"}
  BY StoredAssumption DEF StoredAt
<1>2. Elements(x) \subseteq Item
  <2>1. CASE x.t = "list"
    BY <1>1, <2>1, ListIs DEF Elements
  <2>2. CASE x.t # "list"
    BY <1>1, <2>2 DEF Elements, IsCollection
  <2> QED BY <2>1, <2>2
<1> QED BY <1>1, <1>2 DEF Cells

\* What an entry declares, of a value its path may hold.
LEMMA DeclaredHolds ==
  ASSUME NEW r \in Refs, NEW x \in StoredAt(r), NEW entry,
         IF Shape[r] = "element" THEN \A m \in Elements(x) : Declares("field", entry, m)
         ELSE Declares(Shape[r], entry, x)
  PROVE  IF Shape[r] = "element" THEN \A m \in Elements(x) : HoldsAt("element", entry, m)
         ELSE HoldsAt(Shape[r], entry, x)
<1>1. /\ x \in Cells
      /\ Shape[r] \in {"field", "one"} => x.t # "list"
      /\ Shape[r] \notin {"field", "one"} => x.t \in {"null", "undefined", "list"}
      /\ Elements(x) \subseteq Item
  BY StoredIs
<1>2. Shape[r] \in Shapes
  BY TogetherIs
<1>3. CASE Shape[r] = "element"
  <2>1. ASSUME NEW m \in Elements(x) PROVE HoldsAt("element", entry, m)
    <3>1. m \in Cells /\ ~IsCollection(m) /\ m # Undefined /\ m.t # "list"
      BY <1>1, ItemIs
    <3>2. Declares("field", entry, m)
      BY <1>3
    <3> QED BY <3>1, <3>2 DEF HoldsAt, Declares, Lists
  <2> QED BY <1>3, <2>1
<1>4. CASE Shape[r] # "element"
  <2>1. Declares(Shape[r], entry, x)
    BY <1>4
  <2>2. Shape[r] \in {"field", "one"} \/ Shape[r] \in Lists
    BY <1>2, <1>4 DEF Shapes, Lists
  <2>3. HoldsAt(Shape[r], entry, x)
    BY <1>1, <2>1, <2>2 DEF HoldsAt, Declares, Lists
  <2> QED BY <1>4, <2>3
<1> QED BY <1>3, <1>4

\* The entry of the element field read with a reference.
ElementEntry(r, entries) ==
  LET element == {q \in Together(r) : Shape[q] = "element"}
  IN IF element = {} THEN entries[r] ELSE entries[CHOOSE q \in element : TRUE]

LEMMA VariableReads ==
  ASSUME NEW d, NEW entries, DocFine(d, entries), NEW r \in DOMAIN d
  PROVE  NodeFine(VariableNode(r, Shape[r], entries[r], ElementEntry(r, entries), StoredIn(r, d[r])),
                  ElementsIn(d), Relations(d) # {}, NullIn(d, entries))
<1>1. RefFine(r, d, entries) /\ r \in Refs /\ DOMAIN d \subseteq Refs
  BY DEF DocFine
<1>2. PICK E, A, L : E = ElementsIn(d) /\ A = (Relations(d) # {}) /\ L = NullIn(d, entries)
  OBVIOUS
<1>3. PICK shape, entry, other, stored :
        /\ shape = Shape[r] /\ entry = entries[r] /\ other = ElementEntry(r, entries) /\ stored = StoredIn(r, d[r])
  OBVIOUS
<1>4. E \subseteq Item
  <2>1. \A q \in Relations(d) : Elements(d[q]) \subseteq Item
    <3>1. SUFFICES ASSUME NEW q \in Relations(d) PROVE Elements(d[q]) \subseteq Item
      OBVIOUS
    <3>2. q \in Refs /\ d[q] \in StoredAt(q)
      BY DEF Relations, DocFine, RefFine
    <3> QED BY <3>2, StoredIs
  <2> QED BY <1>2, <2>1 DEF ElementsIn
<1>5. \A q \in Together(r) : q \in DOMAIN d /\ d[q] = d[r]
  BY <1>1 DEF RefFine
<1>6. shape \in Shapes /\ r \in Together(r)
  BY <1>1, <1>3, TogetherIs
<1>7. ASSUME shape \in {"many", "element"}
      PROVE  A /\ Elements(d[r]) = E
  <2>1. PICK q \in Refs : Shape[q] = "many"
    BY <1>1, <1>3, <1>7, ShapeAssumption DEF Refs
  <2>2. q \in Together(r)
    BY <1>3, <1>7, <2>1 DEF Together
  <2>3. q \in Relations(d) /\ d[q] = d[r]
    BY <1>5, <2>1, <2>2 DEF Relations
  <2> QED BY <1>1, <1>2, <2>3, ElementsAre
<1>8. ASSUME NEW q \in Together(r), Shape[q] = "element", entries[q].nullable, Null \in Elements(d[r]) PROVE L
  BY <1>2, <1>5, <1>8 DEF NullIn
<1>9. entry.nullable \in BOOLEAN /\ entry.type \in {"none", "num", "str", "bool"}
  BY <1>1, <1>3 DEF RefFine
<1>10. DOMAIN stored = Envs(E, IF shape = "element" THEN "element" ELSE "root")
  <2>1. shape = "element" => DOMAIN stored = Elements(d[r])
    BY <1>3 DEF StoredIn
  <2>2. shape # "element" => DOMAIN stored = {Root}
    BY <1>3 DEF StoredIn
  <2> QED BY <1>7, <2>1, <2>2 DEF Envs
<1>11. \A e \in DOMAIN stored : HoldsAt(shape, entry, stored[e])
  BY <1>1, <1>3 DEF RefFine, StoredIn
<1>12. ASSUME shape = "element"
       PROVE  /\ A /\ \A e \in E : stored[e] = e
              /\ entry.nullable /\ Null \in E => L
  <2>1. A /\ Elements(d[r]) = E
    BY <1>7, <1>12
  <2>2. \A e \in E : stored[e] = e
    BY <1>3, <1>12, <2>1 DEF StoredIn
  <2> QED BY <1>3, <1>6, <1>8, <1>12, <2>1, <2>2
<1>13. ASSUME shape = "many"
       PROVE  /\ A /\ Elements(stored[Root]) = E
              /\ other.nullable /\ Null \in E => L \/ entry.nullable
  <2>1. A /\ Elements(d[r]) = E
    BY <1>7, <1>13
  <2>2. stored[Root] = d[r]
    BY <1>3, <1>13 DEF StoredIn
  <2>3. PICK S : S = {q \in Together(r) : Shape[q] = "element"}
    OBVIOUS
  <2>4. other = IF S = {} THEN entry ELSE entries[CHOOSE q \in S : TRUE]
    BY <1>3, <2>3 DEF ElementEntry
  <2>5. CASE S = {}
    BY <2>1, <2>2, <2>4, <2>5
  <2>6. CASE S # {}
    <3>1. PICK q : q = CHOOSE p \in S : TRUE
      OBVIOUS
    <3>2. q \in S /\ other = entries[q]
      BY <2>4, <2>6, <3>1
    <3> QED BY <1>8, <2>1, <2>2, <2>3, <3>2
  <2> QED BY <2>5, <2>6
<1>14. A \in BOOLEAN
  BY <1>2
<1>15. NodeFine(VariableNode(r, shape, entry, other, stored), E, A, L)
  BY <1>4, <1>6, <1>9, <1>10, <1>11, <1>12, <1>13, VariableNodeFine
<1> QED BY <1>2, <1>3, <1>15

\* What the first reading of a reference decides.
DeclaredWith(r, x, new) ==
  \A q \in Together(r) :
    /\ new[q].nullable \in BOOLEAN /\ new[q].type \in {"none", "num", "str", "bool"}
    /\ IF Shape[q] = "element" THEN \A m \in Elements(x) : Declares("field", new[q], m)
       ELSE Declares(Shape[q], new[q], x)

Extends(f, d, r) == DOMAIN f = DOMAIN d \union Together(r) /\ \A q \in DOMAIN d : f[q] = d[q]

\* It keeps what was read before.
LEMMA Decided ==
  ASSUME NEW d, NEW entries, DocFine(d, entries), NEW r \in Refs \ DOMAIN d,
         NEW x \in StoredAt(r), NEW new, DeclaredWith(r, x, new),
         NEW f, Extends(f, d, r), \A q \in Together(r) \ DOMAIN d : f[q] = x,
         NEW h, Extends(h, entries, r), \A q \in Together(r) \ DOMAIN d : h[q] = new[q]
  PROVE  /\ DocFine(f, h) /\ r \in DOMAIN f
         /\ Relations(d) # {} => Relations(f) # {} /\ ElementsIn(f) = ElementsIn(d)
         /\ NullIn(d, entries) => NullIn(f, h)
<1>1. DOMAIN d \subseteq Refs /\ DOMAIN entries = DOMAIN d /\ \A q \in DOMAIN d : RefFine(q, d, entries)
  BY DEF DocFine
<1>2. /\ r \in Together(r) /\ Together(r) \subseteq Refs
      /\ \A q \in Together(r) : Together(q) = Together(r) /\ StoredAt(q) = StoredAt(r)
  BY TogetherIs
<1>3. ASSUME NEW q \in Together(r) PROVE q \notin DOMAIN d
  <2>1. SUFFICES ASSUME q \in DOMAIN d PROVE FALSE
    OBVIOUS
  <2>2. Together(q) \subseteq DOMAIN d
    BY <1>1, <2>1 DEF RefFine
  <2> QED BY <1>2, <2>2
<1>4. /\ DOMAIN f = DOMAIN d \union Together(r) /\ DOMAIN h = DOMAIN d \union Together(r)
      /\ \A q \in DOMAIN d : f[q] = d[q] /\ h[q] = entries[q]
      /\ \A q \in Together(r) : f[q] = x /\ h[q] = new[q]
  BY <1>1, <1>3 DEF Extends
<1>5. ASSUME NEW q \in DOMAIN d PROVE RefFine(q, f, h)
  <2>1. RefFine(q, d, entries)
    BY <1>1
  <2>2. f[q] = d[q] /\ h[q] = entries[q]
    BY <1>4
  <2>3. Together(q) \subseteq DOMAIN f /\ \A p \in Together(q) : f[p] = f[q]
    BY <1>4, <2>1 DEF RefFine
  <2> QED BY <2>1, <2>2, <2>3 DEF RefFine
<1>6. ASSUME NEW q \in Together(r) PROVE RefFine(q, f, h)
  <2>1. f[q] = x /\ h[q] = new[q] /\ q \in Refs /\ Together(q) = Together(r) /\ x \in StoredAt(q)
    BY <1>2, <1>4
  <2>2. Together(q) \subseteq DOMAIN f /\ \A p \in Together(q) : f[p] = f[q]
    BY <1>4, <2>1
  <2>3. IF Shape[q] = "element" THEN \A m \in Elements(x) : HoldsAt("element", new[q], m)
        ELSE HoldsAt(Shape[q], new[q], x)
    BY <2>1, DeclaredHolds DEF DeclaredWith
  <2> QED BY <2>1, <2>2, <2>3 DEF RefFine, DeclaredWith
<1>7. DocFine(f, h)
  BY <1>1, <1>2, <1>4, <1>5, <1>6 DEF DocFine
<1>8. ASSUME Relations(d) # {} PROVE Relations(f) # {} /\ ElementsIn(f) = ElementsIn(d)
  <2>1. PICK a : a \in Relations(d)
    BY <1>8
  <2>2. a \in Relations(f) /\ f[a] = d[a]
    BY <1>4, <2>1 DEF Relations
  <2>3. ElementsIn(d) = Elements(d[a])
    BY <1>1, <2>1, ElementsAre
  <2>4. ElementsIn(f) = Elements(f[a])
    BY <1>7, <2>2, ElementsAre DEF DocFine
  <2> QED BY <2>2, <2>3, <2>4
<1>9. NullIn(d, entries) => NullIn(f, h)
  <2>1. SUFFICES ASSUME NullIn(d, entries) PROVE NullIn(f, h)
    OBVIOUS
  <2>2. PICK q \in DOMAIN d : Shape[q] = "element" /\ entries[q].nullable /\ Null \in Elements(d[q])
    BY <2>1 DEF NullIn
  <2> QED BY <1>4, <2>2 DEF NullIn
<1> QED BY <1>2, <1>4, <1>7, <1>8, <1>9

LEMMA EntriesAre ==
  ASSUME NEW entry \in Entries
  PROVE  entry.nullable \in BOOLEAN /\ entry.type \in {"none", "num", "str", "bool"}
<1>1. \A declared : DeclaredNullable(declared) \in BOOLEAN
  BY DEF DeclaredNullable
<1> QED BY <1>1, CallAssumption DEF Entries

-----------------------------------------------------------------------------
(* The operands read so far *)

\* A sequence of records, each of which is right about its operand, in a document.
NodesFine(s, d, entries) ==
  /\ s \in Seq({s[i] : i \in DOMAIN s})
  /\ \A i \in DOMAIN s : NodeFine(s[i], ElementsIn(d), Relations(d) # {}, NullIn(d, entries))

LEMMA OwnMembers ==
  ASSUME NEW S, NEW s \in Seq(S)
  PROVE  s \in Seq({s[i] : i \in DOMAIN s})
<1>1. PICK T : T = {s[i] : i \in DOMAIN s}
  OBVIOUS
<1>2. Len(s) \in Nat /\ s \in [1 .. Len(s) -> S] /\ DOMAIN s = 1 .. Len(s)
  OBVIOUS
<1>3. s \in [1 .. Len(s) -> T]
  BY <1>1, <1>2
<1> QED BY <1>1, <1>2, <1>3, SMTT(30)

LEMMA NoNodes == ASSUME NEW d, NEW entries PROVE NodesFine(<<>>, d, entries)
BY DEF NodesFine

\* A node that replaces what it consumed.
LEMMA Pushed ==
  ASSUME NEW s, NEW d, NEW entries, NodesFine(s, d, entries), NEW k \in 0 .. Len(s),
         NEW n, NodeFine(n, ElementsIn(d), Relations(d) # {}, NullIn(d, entries))
  PROVE  NodesFine(Append(SubSeq(s, 1, k), n), d, entries)
<1> DEFINE OK(m) == NodeFine(m, ElementsIn(d), Relations(d) # {}, NullIn(d, entries))
<1>1. PICK S : S = {s[i] : i \in DOMAIN s}
  OBVIOUS
<1>2. s \in Seq(S) /\ (\A i \in 1 .. Len(s) : OK(s[i])) /\ OK(n)
  BY <1>1 DEF NodesFine
<1> HIDE DEF OK
<1>3. PICK T : T = S \union {n}
  OBVIOUS
<1>4. k \in Nat /\ k <= Len(s) /\ Len(s) \in Nat
  BY <1>2
<1>5. \A i \in 1 .. k : s[i] \in T
  BY <1>2, <1>3, <1>4
<1>6. PICK t : t = SubSeq(s, 1, k)
  OBVIOUS
<1>7. t \in Seq(T) /\ Len(t) = k /\ \A i \in 1 .. k : t[i] = s[i]
  <2>1. 1 \in Int /\ k \in Int
    BY <1>4
  <2>2. /\ SubSeq(s, 1, k) \in Seq(T)
        /\ Len(SubSeq(s, 1, k)) = IF 1 <= k THEN k - 1 + 1 ELSE 0
        /\ \A i \in 1 .. k - 1 + 1 : SubSeq(s, 1, k)[i] = s[1 + i - 1]
    BY <1>5, <2>1, SubSeqProperties
  <2> QED BY <1>4, <1>6, <2>2
<1>8. PICK u : u = Append(t, n)
  OBVIOUS
<1>9. u \in Seq(T) /\ Len(u) = k + 1 /\ (\A i \in 1 .. k : u[i] = t[i]) /\ u[k + 1] = n
  BY <1>3, <1>7, <1>8, AppendProperties
<1>10. \A i \in 1 .. k : OK(u[i])
  BY <1>2, <1>4, <1>7, <1>9
<1>11. \A i \in DOMAIN u : i \in 1 .. k \/ i = k + 1
  BY <1>4, <1>9
<1>12. \A i \in DOMAIN u : OK(u[i])
  BY <1>2, <1>9, <1>10, <1>11
<1>13. u \in Seq({u[i] : i \in DOMAIN u})
  BY <1>9, OwnMembers
<1> QED BY <1>6, <1>8, <1>12, <1>13 DEF NodesFine, OK

\* What an operator consumes.
LEMMA OperandsFine ==
  ASSUME NodesFine(stack, doc, mapping), NEW k \in 1 .. 3, k <= Len(stack)
  PROVE  DOMAIN Top(k) = 1 .. k /\ \A i \in DOMAIN Top(k) : NodeFine(Top(k)[i], ElementsIn(doc), Relations(doc) # {}, NullIn(doc, mapping))
<1> DEFINE OK(m) == NodeFine(m, ElementsIn(doc), Relations(doc) # {}, NullIn(doc, mapping))
<1>1. PICK S : S = {stack[j] : j \in DOMAIN stack}
  OBVIOUS
<1>2. stack \in Seq(S) /\ \A j \in 1 .. Len(stack) : OK(stack[j])
  BY <1>1 DEF NodesFine
<1> HIDE DEF OK
<1>3. PICK m, l : l = Len(stack) /\ m = l - k + 1
  OBVIOUS
<1>4. l \in Nat /\ k <= l /\ m \in 1 .. l /\ m <= l /\ k \in Nat /\ m \in Int /\ l \in Int /\ l - m + 1 = k
  BY <1>2, <1>3
<1>5. \A j \in m .. l : stack[j] \in S
  BY <1>2, <1>3, <1>4
<1>6. PICK t : t = SubSeq(stack, m, l)
  OBVIOUS
<1>7. t \in Seq(S) /\ Len(t) = k /\ \A i \in 1 .. k : t[i] = stack[m + i - 1]
  <2>1. /\ SubSeq(stack, m, l) \in Seq(S)
        /\ Len(SubSeq(stack, m, l)) = IF m <= l THEN l - m + 1 ELSE 0
        /\ \A i \in 1 .. l - m + 1 : SubSeq(stack, m, l)[i] = stack[m + i - 1]
    BY <1>4, <1>5, SubSeqProperties
  <2> QED BY <1>4, <1>6, <2>1
<1>8. DOMAIN t = 1 .. k
  BY <1>7
<1>9. ASSUME NEW i \in 1 .. k PROVE OK(t[i])
  <2>1. m + i - 1 \in 1 .. l
    BY <1>3, <1>4
  <2> QED BY <1>2, <1>3, <1>7, <2>1
<1>10. Top(k) = t
  BY <1>3, <1>6 DEF Top
<1> QED BY <1>8, <1>9, <1>10 DEF OK

-----------------------------------------------------------------------------
(* The inductive invariant *)

\* A filter that matches proves the plan's condition, where no disagreement is admitted; and what is
\* returned was matched.
AnswerOK ==
  /\ phase # "answered" => ~returned
  /\ Admitted = {} /\ phase = "translated" /\ ~result.aborts /\ result.match => root = True
  /\ Admitted = {} /\ returned => root = True

IInv ==
  /\ DocFine(doc, mapping)
  /\ \A r \in DOMAIN doc : mapping[r] \in Entries
  /\ convention \in Conventions
  /\ NodesFine(stack, doc, mapping)
  /\ nodes \in 0 .. MaxNodes
  /\ phase \in {"reading", "refused", "translated", "answered", "aborted"}
  /\ root \in Plain
  /\ result \in [match : BOOLEAN, aborts : BOOLEAN]
  /\ returned \in BOOLEAN
  /\ AnswerOK

LEMMA InitIInv == Init => IInv
<1> SUFFICES ASSUME Init PROVE IInv
  OBVIOUS
<1>1. NodesFine(stack, doc, mapping)
  BY NoNodes DEF Init
<1>2. DocFine(doc, mapping) /\ \A r \in DOMAIN doc : mapping[r] \in Entries
  BY DEF Init, DocFine
<1>3. root \in Plain
  BY TriPlain DEF Init
<1>4. AnswerOK /\ result \in [match : BOOLEAN, aborts : BOOLEAN] /\ 0 \in 0 .. MaxNodes
  BY CallAssumption DEF Init, AnswerOK, Unanswered
<1> QED BY <1>1, <1>2, <1>3, <1>4 DEF Init, IInv

\* Every read consumes some operands and pushes one node.
LEMMA ReadIInv ==
  ASSUME IInv, DocFine(doc', mapping'), \A r \in DOMAIN doc' : mapping'[r] \in Entries,
         NodesFine(stack, doc', mapping'), NEW k \in 0 .. Len(stack), NEW n,
         NodeFine(n, ElementsIn(doc'), Relations(doc') # {}, NullIn(doc', mapping')),
         Read(SubSeq(stack, 1, k), n)
  PROVE  IInv'
<1>1. NodesFine(stack', doc', mapping')
  BY Pushed DEF Read
<1>2. /\ nodes \in 0 .. MaxNodes /\ nodes < MaxNodes /\ nodes' = nodes + 1 /\ phase = "reading"
      /\ convention' = convention /\ phase' = phase /\ root' = root /\ result' = result /\ returned' = returned
  BY DEF IInv, Read
<1>3. nodes' \in 0 .. MaxNodes
  BY <1>2, CallAssumption
<1>4. AnswerOK'
  BY <1>2 DEF IInv, AnswerOK
<1>5. Entries' = Entries
  BY <1>2 DEF Entries, DeclaredNullable
<1> QED BY <1>1, <1>2, <1>3, <1>4, <1>5 DEF IInv

LEMMA WholeStack ==
  ASSUME IInv, NEW n, Read(stack, n)
  PROVE  Read(SubSeq(stack, 1, Len(stack)), n) /\ Len(stack) \in 0 .. Len(stack)
<1>1. PICK S : S = {stack[i] : i \in DOMAIN stack}
  OBVIOUS
<1>2. stack \in Seq(S)
  BY <1>1 DEF IInv, NodesFine
<1>3. SubSeq(stack, 1, Len(stack)) = stack /\ Len(stack) \in 0 .. Len(stack)
  BY <1>2, SubSeqFull
<1> QED BY <1>3

LEMMA ReadValueIInv == IInv /\ ReadValue => IInv'
<1> SUFFICES ASSUME IInv, ReadValue PROVE IInv'
  OBVIOUS
<1>1. PICK x \in Literals : Read(stack, ValueNode(x)) /\ doc' = doc /\ mapping' = mapping
  BY DEF ReadValue
<1>2. NodeFine(ValueNode(x), ElementsIn(doc'), Relations(doc') # {}, NullIn(doc', mapping'))
  BY ValueNodeFine
<1>3. DocFine(doc', mapping') /\ NodesFine(stack, doc', mapping') /\ \A r \in DOMAIN doc' : mapping'[r] \in Entries
  BY <1>1 DEF IInv
<1>4. Read(SubSeq(stack, 1, Len(stack)), ValueNode(x)) /\ Len(stack) \in 0 .. Len(stack)
  BY <1>1, WholeStack
<1> QED BY <1>2, <1>3, <1>4, ReadIInv

\* Deciding what is stored at a reference leaves the operands read before it as they were.
LEMMA DecideKeeps ==
  ASSUME IInv, NEW r \in Refs, Decide(r)
  PROVE  /\ DocFine(doc', mapping') /\ r \in DOMAIN doc' /\ NodesFine(stack, doc', mapping')
         /\ \A q \in DOMAIN doc' : mapping'[q] \in Entries
<1>1. /\ DocFine(doc, mapping) /\ NodesFine(stack, doc, mapping)
      /\ \A q \in DOMAIN doc : mapping[q] \in Entries
  BY DEF IInv
<1>2. CASE r \in DOMAIN doc
  BY <1>1, <1>2 DEF Decide
<1>3. CASE r \notin DOMAIN doc
  <2>1. PICK x \in StoredAt(r), new \in [Together(r) -> Entries] :
          /\ \A q \in Together(r) :
               /\ new[q].type = new[r].type
               /\ IF Shape[q] = "element"
                  THEN \A m \in Elements(x) : Declares("field", new[q], m)
                  ELSE Declares(Shape[q], new[q], x)
          /\ doc' = [q \in DOMAIN doc \union Together(r) |-> IF q \in DOMAIN doc THEN doc[q] ELSE x]
          /\ mapping' = [q \in DOMAIN doc \union Together(r) |->
                           IF q \in DOMAIN doc THEN mapping[q] ELSE new[q]]
    BY <1>3 DEF Decide
  <2>2. DeclaredWith(r, x, new)
    BY <2>1, EntriesAre DEF DeclaredWith
  <2>3. /\ DocFine(doc', mapping') /\ r \in DOMAIN doc'
        /\ Relations(doc) # {} => Relations(doc') # {} /\ ElementsIn(doc') = ElementsIn(doc)
        /\ NullIn(doc, mapping) => NullIn(doc', mapping')
    <3>1. PICK f, h : f = doc' /\ h = mapping'
      OBVIOUS
    <3>2. DOMAIN doc = DOMAIN mapping
      BY <1>1 DEF DocFine
    <3>3. /\ Extends(f, doc, r) /\ \A q \in Together(r) \ DOMAIN doc : f[q] = x
          /\ Extends(h, mapping, r) /\ \A q \in Together(r) \ DOMAIN doc : h[q] = new[q]
      BY <2>1, <3>1, <3>2 DEF Extends
    <3>4. r \in Refs \ DOMAIN doc /\ DocFine(doc, mapping)
      BY <1>1, <1>3
    <3>5. /\ DocFine(f, h) /\ r \in DOMAIN f
          /\ Relations(doc) # {} => Relations(f) # {} /\ ElementsIn(f) = ElementsIn(doc)
          /\ NullIn(doc, mapping) => NullIn(f, h)
      BY <2>2, <3>3, <3>4, Decided
    <3> QED BY <3>1, <3>5
  <2>4. \A q \in DOMAIN doc' : mapping'[q] \in Entries
    BY <1>1, <2>1
  <2>5. NodesFine(stack, doc', mapping')
    <3>1. ASSUME NEW i \in DOMAIN stack
          PROVE  NodeFine(stack[i], ElementsIn(doc'), Relations(doc') # {}, NullIn(doc', mapping'))
      <4>1. PICK E, F, A, B, L, M :
              /\ E = ElementsIn(doc) /\ A = (Relations(doc) # {}) /\ L = NullIn(doc, mapping)
              /\ F = ElementsIn(doc') /\ B = (Relations(doc') # {}) /\ M = NullIn(doc', mapping')
        OBVIOUS
      <4>2. NodeFine(stack[i], E, A, L)
        BY <1>1, <4>1 DEF NodesFine
      <4>3. A => B /\ E = F
        <5> SUFFICES ASSUME A PROVE B /\ E = F
          OBVIOUS
        <5>1. Relations(doc) # {}
          BY <4>1
        <5>2. Relations(doc') # {} /\ ElementsIn(doc') = ElementsIn(doc)
          BY <2>3, <5>1
        <5> QED BY <4>1, <5>2
      <4>5. L => M
        <5> SUFFICES ASSUME L PROVE M
          OBVIOUS
        <5>1. NullIn(doc, mapping)
          BY <4>1
        <5>2. NullIn(doc', mapping')
          BY <2>3, <5>1
        <5> QED BY <4>1, <5>2
      <4>4. NodeFine(stack[i], F, B, M)
        BY <4>2, <4>3, <4>5, Grows
      <4> QED BY <4>1, <4>4
    <3> QED BY <1>1, <3>1 DEF NodesFine
  <2> QED BY <2>3, <2>4, <2>5
<1> QED BY <1>2, <1>3

LEMMA ReadVariableIInv == IInv /\ ReadVariable => IInv'
<1> SUFFICES ASSUME IInv, ReadVariable PROVE IInv'
  OBVIOUS
<1>1. PICK r \in Refs :
        /\ Decide(r)
        /\ Read(stack, VariableNode(r, Shape[r], mapping'[r], ElementEntry(r, mapping'), StoredIn(r, doc'[r])))
  BY DEF ReadVariable, ElementEntry
<1>2. /\ DocFine(doc', mapping') /\ r \in DOMAIN doc' /\ NodesFine(stack, doc', mapping')
      /\ \A q \in DOMAIN doc' : mapping'[q] \in Entries
  BY <1>1, DecideKeeps
<1>3. PICK n : n = VariableNode(r, Shape[r], mapping'[r], ElementEntry(r, mapping'), StoredIn(r, doc'[r]))
  OBVIOUS
<1>4. NodeFine(n, ElementsIn(doc'), Relations(doc') # {}, NullIn(doc', mapping'))
  BY <1>2, <1>3, VariableReads
<1>5. Read(stack, n)
  BY <1>1, <1>3
<1>6. Read(SubSeq(stack, 1, Len(stack)), n) /\ Len(stack) \in 0 .. Len(stack)
  BY <1>5, WholeStack
<1> QED BY <1>2, <1>4, <1>6, ReadIInv

LEMMA EnvironmentsAre ==
  /\ ElementEnvs = ElementsIn(doc) /\ Array = Relations(doc) /\ NullElement = NullIn(doc, mapping)
BY DEF ElementEnvs, ElementsIn, Array, Relations, NullElement, NullIn

LEMMA NodesOK ==
  ASSUME NEW n
  PROVE  NodeOK(n) <=> NodeFine(n, ElementsIn(doc), Relations(doc) # {}, NullIn(doc, mapping))
BY EnvironmentsAre DEF NodeOK

\* The record of an expression, from those of its operands.
LEMMA ExpressionNodeFine ==
  ASSUME NEW op, NEW args, Well(op, args), AdmittedShape(op, args)
  PROVE  NodeOK(ExpressionNode(op, args))
<1>1. PICK n : n = ExpressionNode(op, args)
  OBVIOUS
<1>2. /\ NodeTyped(n, ElementEnvs, Array # {}) /\ n.kind = op /\ op \notin {"value", "variable"}
      /\ op = "map" => MapFine(n, ElementEnvs, Array # {}, NullElement)
      /\ op # "map" => ExpressionFine(n)
      /\ Agrees(n, ElementEnvs) /\ TypeTold(n, ElementEnvs)
  BY <1>1, ExpressionFits
<1>3. Admitted = {} => ReadsFine(n, ElementEnvs, NullElement)
  BY <1>1, ExpressionReads
<1> QED BY <1>1, <1>2, <1>3 DEF NodeOK, NodeFine

LEMMA ReadExpressionIInv == IInv /\ ReadExpression => IInv'
<1> SUFFICES ASSUME IInv, ReadExpression PROVE IInv'
  OBVIOUS
<1>1. PICK op \in Operators : \E k \in Widths(op) :
        /\ k <= Len(stack) /\ WellFormedPlan(op, Top(k)) /\ AdmittedShape(op, Top(k))
        /\ Read(Under(k), ExpressionNode(op, Top(k))) /\ doc' = doc /\ mapping' = mapping
  BY DEF ReadExpression
<1>2. PICK k \in Widths(op) :
        /\ k <= Len(stack) /\ WellFormedPlan(op, Top(k)) /\ AdmittedShape(op, Top(k))
        /\ Read(Under(k), ExpressionNode(op, Top(k))) /\ doc' = doc /\ mapping' = mapping
  BY <1>1
<1>3. op \in AllOperators /\ k \in 1 .. 3
  BY CallAssumption DEF Widths
<1>4. /\ DocFine(doc, mapping) /\ NodesFine(stack, doc, mapping) /\ \A r \in DOMAIN doc : mapping[r] \in Entries
  BY DEF IInv
<1>5. PICK args : args = Top(k)
  OBVIOUS
<1>6. DOMAIN args = 1 .. k /\ \A i \in DOMAIN args : NodeOK(args[i])
  BY <1>2, <1>3, <1>4, <1>5, OperandsFine, NodesOK
<1>7. ElementEnvs \subseteq Item
  <2>1. \A q \in Relations(doc) : Elements(doc[q]) \subseteq Item
    <3>1. SUFFICES ASSUME NEW q \in Relations(doc) PROVE Elements(doc[q]) \subseteq Item
      OBVIOUS
    <3>2. q \in Refs /\ doc[q] \in StoredAt(q)
      BY <1>4 DEF Relations, DocFine, RefFine
    <3> QED BY <3>2, StoredIs
  <2> QED BY <2>1, EnvironmentsAre DEF ElementsIn
<1>8. Well(op, args)
  BY <1>2, <1>3, <1>5, <1>6, <1>7 DEF Well
<1>9. PICK n : n = ExpressionNode(op, args)
  OBVIOUS
<1>10. NodeOK(n)
  BY <1>2, <1>5, <1>8, <1>9, ExpressionNodeFine
<1>11. NodeFine(n, ElementsIn(doc'), Relations(doc') # {}, NullIn(doc', mapping'))
  BY <1>2, <1>10, NodesOK
<1>12. Len(stack) \in Nat
  BY <1>4 DEF NodesFine
<1>13. PICK m : m = Len(stack) - k
  OBVIOUS
<1>14. m \in 0 .. Len(stack)
  BY <1>2, <1>3, <1>12, <1>13
<1>15. Read(SubSeq(stack, 1, m), n)
  BY <1>2, <1>5, <1>9, <1>13 DEF Under
<1>16. /\ DocFine(doc', mapping') /\ NodesFine(stack, doc', mapping')
       /\ \A r \in DOMAIN doc' : mapping'[r] \in Entries
  BY <1>2, <1>4
<1> QED BY <1>11, <1>14, <1>15, <1>16, ReadIInv

LEMMA FirstNode ==
  ASSUME IInv, Len(stack) = 1
  PROVE  NodeOK(stack[1]) /\ 1 \in DOMAIN stack
<1>1. NodesFine(stack, doc, mapping)
  BY DEF IInv
<1>2. 1 \in DOMAIN stack
  BY <1>1 DEF NodesFine
<1>3. NodeFine(stack[1], ElementsIn(doc), Relations(doc) # {}, NullIn(doc, mapping))
  BY <1>1, <1>2 DEF NodesFine
<1> QED BY <1>2, <1>3, NodesOK

\* The filters of a condition, where the plan admits no disagreement.
LEMMA ConditionReads ==
  ASSUME NEW n, NodeOK(n), IsCondition(n), Admitted = {}, NEW e \in DOMAIN n.val
  PROVE  /\ Runs(n.yes) /\ n.yes.match[e] => n.val[e] = True
         /\ Runs(n.no) /\ n.no.match[e] => n.val[e] = False
         /\ Runs(n.yes) /\ n.val[e] = True => n.yes.match[e] \/ ~n.guard[e] \/ NullElement
         /\ Runs(n.no) /\ n.val[e] = False => n.no.match[e] \/ ~n.guard[e] \/ NullElement
<1>1. n.kind \notin SetOperations /\ n.shape \notin Lists /\ IsTri(n.val[e])
  BY DEF IsCondition, IsTri, Lists
<1>2. e \in Envs(ElementEnvs, n.scope) /\ Proven(n, ElementEnvs, NullElement)
  BY <1>1 DEF NodeOK, NodeFine, NodeTyped, ReadsFine
<1>3. /\ Allows(n.yes, e, n.val[e], Lost(n, e, NullElement), n.scope = "root")
      /\ Denies(n.no, e, n.val[e], Lost(n, e, NullElement))
  BY <1>2 DEF Proven
<1> QED BY <1>1, <1>3 DEF Allows, Denies, Lost

\* The call answers with the filter of the plan's one node, or refuses.
LEMMA TranslateIInv == IInv /\ Translate => IInv'
<1> SUFFICES ASSUME IInv, Translate PROVE IInv'
  OBVIOUS
<1>1. PICK n : n = stack[1]
  OBVIOUS
<1>2. /\ phase = "reading" /\ Len(stack) = 1 /\ n.scope = "root" /\ IsCondition(n)
      /\ root' = n.val[Root] /\ stack' = <<>>
      /\ doc' = doc /\ mapping' = mapping /\ convention' = convention /\ nodes' = nodes /\ returned' = returned
  BY <1>1 DEF Translate
<1>3. \/ n.yes.throws /\ phase' = "refused" /\ result' = result
      \/ /\ ~n.yes.throws /\ phase' = "translated"
         /\ result' = [match |-> n.yes.match[Root], aborts |-> n.yes.aborts]
  BY <1>1 DEF Translate
<1>4. NodeOK(n)
  BY <1>1, <1>2, FirstNode
<1>5. /\ n.val \in [{Root} -> Plain] /\ n.yes.aborts \in BOOLEAN
      /\ ~n.yes.throws => n.yes.match \in [{Root} -> BOOLEAN]
  BY <1>2, <1>4 DEF NodeOK, NodeFine, NodeTyped, FilterTyped, Envs
<1>6. n.val[Root] \in Plain /\ Root \in DOMAIN n.val /\ (~n.yes.throws => n.yes.match[Root] \in BOOLEAN)
  BY <1>5
<1>7. result' \in [match : BOOLEAN, aborts : BOOLEAN]
  <2>1. result \in [match : BOOLEAN, aborts : BOOLEAN]
    BY DEF IInv
  <2> QED BY <1>3, <1>5, <1>6, <2>1
<1>8. ~returned
  BY <1>2 DEF IInv, AnswerOK
<1>9. Admitted = {} /\ phase' = "translated" /\ ~result'.aborts /\ result'.match => root' = True
  <2>1. SUFFICES ASSUME Admitted = {}, phase' = "translated", ~result'.aborts, result'.match PROVE root' = True
    OBVIOUS
  <2>2. ~n.yes.throws /\ ~n.yes.aborts /\ n.yes.match[Root]
    BY <1>3, <2>1
  <2>3. n.val[Root] = True
    BY <1>2, <1>4, <1>6, <2>1, <2>2, ConditionReads DEF Runs
  <2> QED BY <1>2, <2>3
<1>10. NodesFine(stack', doc', mapping')
  BY <1>2, NoNodes
<1>11. AnswerOK'
  BY <1>2, <1>3, <1>8, <1>9 DEF AnswerOK
<1>12. Entries' = Entries
  BY <1>2 DEF Entries, DeclaredNullable
<1> QED BY <1>2, <1>3, <1>6, <1>7, <1>10, <1>11, <1>12 DEF IInv

LEMMA TranslateUnconditionalIInv == IInv /\ TranslateUnconditional => IInv'
<1> SUFFICES ASSUME IInv, TranslateUnconditional PROVE IInv'
  OBVIOUS
<1>1. PICK allowed \in BOOLEAN : root' = Bool(allowed) /\ result' = [match |-> allowed, aborts |-> FALSE]
  BY DEF TranslateUnconditional
<1>2. /\ phase = "reading" /\ nodes = 0 /\ phase' = "translated" /\ doc' = doc /\ mapping' = mapping
      /\ convention' = convention /\ stack' = stack /\ nodes' = nodes /\ returned' = returned
  BY DEF TranslateUnconditional
<1>3. /\ root' \in Plain /\ result' \in [match : BOOLEAN, aborts : BOOLEAN]
      /\ result'.match => root' = True
  BY <1>1, Constants, TriPlain DEF Bool, Tri
<1>4. NodesFine(stack', doc', mapping')
  BY <1>2 DEF IInv
<1>5. AnswerOK'
  BY <1>2, <1>3 DEF IInv, AnswerOK
<1>6. Entries' = Entries
  BY <1>2 DEF Entries, DeclaredNullable
<1> QED BY <1>2, <1>3, <1>4, <1>5, <1>6 DEF IInv

LEMMA RunFilterIInv == IInv /\ RunFilter => IInv'
<1> SUFFICES ASSUME IInv, RunFilter PROVE IInv'
  OBVIOUS
<1>1. /\ phase = "translated" /\ doc' = doc /\ mapping' = mapping /\ convention' = convention
      /\ stack' = stack /\ nodes' = nodes /\ root' = root /\ result' = result
  BY DEF RunFilter
<1>2. \/ result.aborts /\ phase' = "aborted" /\ returned' = returned
      \/ ~result.aborts /\ phase' = "answered" /\ returned' = result.match
  BY DEF RunFilter
<1>3. returned' \in BOOLEAN
  BY <1>2, Zenon DEF IInv
<1>4. NodesFine(stack', doc', mapping')
  BY <1>1 DEF IInv
<1>5. AnswerOK'
  BY <1>1, <1>2 DEF IInv, AnswerOK
<1>6. Entries' = Entries
  BY <1>1 DEF Entries, DeclaredNullable
<1> QED BY <1>1, <1>2, <1>3, <1>4, <1>5, <1>6 DEF IInv

LEMMA StepIInv == IInv /\ [Next]_vars => IInv'
<1> SUFFICES ASSUME IInv, [Next]_vars PROVE IInv'
  OBVIOUS
<1>1. CASE ReadValue
  BY <1>1, ReadValueIInv
<1>2. CASE ReadVariable
  BY <1>2, ReadVariableIInv
<1>3. CASE ReadExpression
  BY <1>3, ReadExpressionIInv
<1>4. CASE Translate
  BY <1>4, TranslateIInv
<1>5. CASE TranslateUnconditional
  BY <1>5, TranslateUnconditionalIInv
<1>6. CASE RunFilter
  BY <1>6, RunFilterIInv
<1>7. CASE UNCHANGED vars
  <2>1. /\ doc' = doc /\ mapping' = mapping /\ convention' = convention /\ stack' = stack /\ nodes' = nodes
        /\ phase' = phase /\ root' = root /\ result' = result /\ returned' = returned
    BY <1>7 DEF vars
  <2>2. NodesFine(stack', doc', mapping') /\ AnswerOK'
    BY <2>1 DEF IInv, AnswerOK
  <2>3. Entries' = Entries
    BY <2>1 DEF Entries, DeclaredNullable
  <2> QED BY <2>1, <2>2, <2>3 DEF IInv
<1> QED BY <1>1, <1>2, <1>3, <1>4, <1>5, <1>6, <1>7 DEF Next

LEMMA Inductive == Spec => []IInv
BY InitIInv, StepIInv, PTL DEF Spec

-----------------------------------------------------------------------------
(* The results *)

LEMMA NodeTypes ==
  ASSUME NEW n, NodeOK(n)
  PROVE  /\ \A e \in DOMAIN n.val : n.val[e] \in CelValue
         /\ ~n.yes.throws => n.yes.match \in [DOMAIN n.val -> BOOLEAN]
         /\ ~n.no.throws => n.no.match \in [DOMAIN n.val -> BOOLEAN]
<1>1. NodeTyped(n, ElementEnvs, Array # {})
  BY DEF NodeOK, NodeFine
<1>2. PICK F : F = Envs(ElementEnvs, n.scope)
  OBVIOUS
<1>3. n.val \in [F -> Plain] /\ FilterTyped(n.yes, F) /\ FilterTyped(n.no, F)
  BY <1>1, <1>2 DEF NodeTyped
<1>4. DOMAIN n.val = F /\ \A e \in F : n.val[e] \in CelValue
  BY <1>3, PlainIs
<1> QED BY <1>3, <1>4 DEF FilterTyped

LEMMA StackOK ==
  ASSUME IInv, NEW i \in DOMAIN stack
  PROVE  NodeOK(stack[i])
BY NodesOK DEF IInv, NodesFine

\* The call's state, and the filters of every operand, are of their types.
THEOREM TypeCorrect == Spec => []TypeOK
<1>1. IInv => TypeOK
  <2> SUFFICES ASSUME IInv PROVE TypeOK
    OBVIOUS
  <2>1. \A r \in DOMAIN doc : doc[r] \in Scalar \union Stored
    BY DEF IInv, DocFine, RefFine, StoredAt
  <2>2. root \in CelValue
    BY PlainIs DEF IInv
  <2>3. ASSUME NEW i \in DOMAIN stack
        PROVE  /\ \A e \in DOMAIN stack[i].val : stack[i].val[e] \in CelValue
               /\ \A filter \in {stack[i].yes, stack[i].no} :
                    ~filter.throws => filter.match \in [DOMAIN stack[i].val -> BOOLEAN]
    BY StackOK, NodeTypes
  <2> QED BY <2>1, <2>2, <2>3 DEF TypeOK, IInv, DocFine
<1> QED BY <1>1, Inductive, PTL

\* Behind its guards the pipeline computes what CEL computes of every expression, or fails the query.
THEOREM PipelineIsFaithful == Spec => []PipelineAgrees
<1>1. IInv => PipelineAgrees
  <2> SUFFICES ASSUME IInv, NEW i \in DOMAIN stack, NEW n, n = stack[i],
                      n.kind # "variable", n.typed, ~n.aggThrows, NEW e \in DOMAIN n.val, n.guard[e]
               PROVE  n.agg[e] \in {n.val[e], Err}
    BY DEF PipelineAgrees
  <2>1. NodeOK(n)
    BY StackOK
  <2>2. n.shape \notin Lists
    <3>1. n.shape \in Lists => n.kind = "map"
      BY <2>1, ShapeIs
    <3>2. n.kind # "map"
      BY <2>1 DEF NodeOK, NodeFine, MapFine
    <3> QED BY <3>1, <3>2
  <2>3. e \in Envs(ElementEnvs, n.scope) /\ Agrees(n, ElementEnvs)
    BY <2>1 DEF NodeOK, NodeFine, NodeTyped
  <2>4. Computes(n.agg[e], n.val[e])
    BY <2>2, <2>3 DEF Agrees
  <2> QED BY <2>4 DEF Computes
<1> QED BY <1>1, Inductive, PTL

LEMMA ConditionsAre ==
  ASSUME IInv, NEW n \in Conditions
  PROVE  NodeOK(n) /\ IsCondition(n)
BY StackOK DEF Conditions

\* Where a plan holds no shape of Disagreements, a filter that matches proves its condition, and the
\* filter of its negation that the condition is false, on any document.
THEOREM MatchesAreProven == ASSUME Admitted = {} PROVE Spec => []MatchesProven
<1>1. IInv => MatchesProven
  BY ConditionsAre, ConditionReads DEF MatchesProven
<1> QED BY <1>1, Inductive, PTL

\* ... and a document CEL allows is lost only where a guard of the plan fails on it.
THEOREM OnlyTheGuardedAreLost == ASSUME Admitted = {} PROVE Spec => []LostOnlyGuarded
<1>1. IInv => LostOnlyGuarded
  BY ConditionsAre, ConditionReads DEF LostOnlyGuarded
<1> QED BY <1>1, Inductive, PTL

-----------------------------------------------------------------------------
(* The contract *)

LEMMA ReadStutters ==
  ASSUME NEW rest, NEW n, Read(rest, n)
  PROVE  UNCHANGED Contract!vars
<1>1. phase' = phase /\ root' = root /\ returned' = returned
  BY DEF Read
<1> QED BY <1>1 DEF Contract!vars, Outcome, Verdict

\* A finished translation names a verdict.
LEMMA TranslationImplements ==
  ASSUME phase = "reading", phase' \in {"refused", "translated"}, returned' = returned
  PROVE  Contract!Next
<1>1. Outcome = "pending" /\ Verdict = "unknown"
  BY DEF Outcome, Verdict
<1>2. Outcome' \in {"refused", "translated"} /\ Verdict' \in {"allow", "deny", "error"}
  BY DEF Outcome, Verdict
<1> QED BY <1>1, <1>2 DEF Contract!Next, Contract!Translate, Contract!Refuse, Contract!Verdicts

\* The query answers with what the filter matches, or fails.
LEMMA RunImplements ==
  ASSUME Admitted = {}, IInv, RunFilter
  PROVE  Contract!Next
<1>1. phase = "translated" /\ root' = root /\ AnswerOK /\ result.match \in BOOLEAN
  BY DEF IInv, RunFilter
<1>2. Outcome = "translated" /\ Verdict \in {"allow", "deny", "error"} /\ (Verdict = "allow" <=> root = True)
  BY <1>1 DEF Outcome, Verdict
<1>3. CASE result.aborts
  <2>1. phase' = "aborted" /\ returned' = returned
    BY <1>3 DEF RunFilter
  <2>2. Outcome' = "refused" /\ Verdict' = Verdict
    BY <1>1, <2>1 DEF Outcome, Verdict
  <2> QED BY <1>2, <2>1, <2>2 DEF Contract!Next, Contract!Refuse, Contract!Verdicts
<1>4. CASE ~result.aborts
  <2>1. phase' = "answered" /\ returned' = result.match
    BY <1>4 DEF RunFilter
  <2>2. Outcome' = "answered" /\ Verdict' = Verdict
    BY <1>1, <2>1 DEF Outcome, Verdict
  <2>3. returned' \in BOOLEAN /\ (returned' => Verdict = "allow")
    BY <1>1, <1>2, <1>4, <2>1 DEF AnswerOK
  <2>4. returned' \in {Verdict = "allow", Verdict = "allow" /\ ~TRUE}
    BY <2>3
  <2> QED BY <1>2, <2>2, <2>4 DEF Contract!Next, Contract!Answer
<1> QED BY <1>3, <1>4

LEMMA StepImplements ==
  ASSUME Admitted = {}, IInv, [Next]_vars
  PROVE  [Contract!Next]_(Contract!vars)
<1>1. CASE ReadValue \/ ReadVariable \/ ReadExpression
  <2>1. \E rest, n : Read(rest, n)
    BY <1>1 DEF ReadValue, ReadVariable, ReadExpression
  <2> QED BY <2>1, ReadStutters
<1>2. CASE Translate
  <2>1. phase = "reading" /\ phase' \in {"refused", "translated"} /\ returned' = returned
    BY <1>2 DEF Translate
  <2> QED BY <2>1, TranslationImplements
<1>3. CASE TranslateUnconditional
  BY <1>3, TranslationImplements DEF TranslateUnconditional
<1>4. CASE RunFilter
  BY <1>4, RunImplements
<1>5. CASE UNCHANGED vars
  BY <1>5 DEF vars, Contract!vars, Outcome, Verdict
<1> QED BY <1>1, <1>2, <1>3, <1>4, <1>5 DEF Next

\* A plan is translated or refused; the query returns only a document that CEL allows, and a query
\* MongoDB cannot run returns none.
THEOREM AdapterImplementsContract == ASSUME Admitted = {} PROVE Spec => ImplementsContract
<1>1. Init => Contract!Init
  BY DEF Init, Contract!Init, Outcome, Verdict
<1>2. IInv /\ [Next]_vars => [Contract!Next]_(Contract!vars)
  BY StepImplements
<1> QED BY <1>1, <1>2, Inductive, PTL DEF Spec, Contract!Spec, ImplementsContract
=============================================================================
