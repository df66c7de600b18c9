-------------------------- MODULE MongooseAdapter --------------------------
(***************************************************************************)
(* The Mongoose adapter: queryPlanToMongoose (mongoose/src/index.ts) turns *)
(* a condition into a MongoDB filter. filter.ts emits a leaf query where a *)
(* field meets a constant, an aggregation expression inside $expr for the  *)
(* rest (aggregation.ts), $elemMatch over the elements of a relation, and  *)
(* the guards of guards.ts that keep out the documents CEL cannot evaluate.*)
(*                                                                         *)
(* The plan is read in postfix order. The record of an operand holds what  *)
(* CEL says of it, what the pipeline computes for it, whether its guards   *)
(* hold, and the filters buildFilter (yes) and translateNot (no) emit for  *)
(* it. Inside a lambda each of these is a function of the element, and at  *)
(* the root of one environment. An element is named by the one field of it *)
(* the plan reads. The document and the mapper's entries are decided as    *)
(* the plan first reads them.                                              *)
(***************************************************************************)
EXTENDS CelPlans

CONSTANTS
  Shape,           \* how each reference is mapped, see Shapes
  Scalar,          \* what a document may store at a scalar path
  Stored,          \* the lists it may store at an array path
  Literals,        \* constants the planner may ship
  Conventions,     \* the nullAttributeRepresentation values explored
  Nullability,     \* what a mapper entry may declare as nullable
  ValueTypes,      \* what it may declare as valueType
  Operators,       \* the plan operators explored
  Admitted,        \* the shapes of Disagreements a plan may hold
  MaxRefs,         \* bound on the references of a plan
  MaxNodes         \* bound on the nodes of a plan

\* A scalar path; a scalar behind a to-one relation; a native array; a to-many relation with the
\* element field it projects; that field, read through a lambda variable.
Shapes == {"field", "one", "list", "many", "element"}

Junctions == {"and", "or"}
Macros == {"exists", "all", "existsOne"}
\* Membership in a conditional list of constants, by the branches that hold the needle.
ConditionalLists == {"inThen", "inElse", "inBoth", "inNeither"}
\* A macro over a list of two attributes, whose body compares the element with a constant.
Folds == {"existsOf", "allOf"}
AllOperators ==
  Junctions \union Comparisons \union Macros \union ConditionalLists \union Folds
    \union {"not", "if", "in", "add", "div", "mod", "size", "index", "startsWith", "matches",
            "map", "hasIntersection", "isSubset", "except", "intersect"}

Widths(op) ==
  IF op \in {"not", "size", "index"} \union ConditionalLists THEN {1}
  ELSE IF op \in {"if"} \union Folds THEN {3} ELSE {2}

\* absentParent: != between a constant and a scalar behind a to-one relation that is not nullable.
\* emptySubset: no element to prove that the other list of isSubset or except is there.
\* negatedConditional: a conditional list whose condition's guards leave open what its filter does.
\* mistyped: an operand whose present value has no overload under its operator, where only an
\* evaluation guard or a leaf's own type bracket could notice.
Disagreements == {"absentParent", "emptySubset", "negatedConditional", "mistyped"}

ASSUME ShapeAssumption ==
  /\ Shape \in [DOMAIN Shape -> Shapes]
  /\ \A r, q \in DOMAIN Shape : Shape[r] = Shape[q] /\ Shape[r] \in {"many", "element"} => r = q
  /\ \A r \in DOMAIN Shape : Shape[r] = "element" => \E q \in DOMAIN Shape : Shape[q] = "many"
ASSUME StoredAssumption ==
  /\ Scalar \subseteq {x \in Value : x.t \in {"null", "num", "str", "bool", "undefined"}}
  /\ Stored \subseteq {x \in Value : x.t \in {"null", "undefined", "list"}}
  /\ Literals \subseteq {x \in Value : x.t \in {"null", "num", "str", "bool", "list"}}
ASSUME CallAssumption ==
  /\ Conventions \subseteq {"explicit", "omitted"}
  /\ Nullability \subseteq {"undeclared", "yes", "no"}
  /\ ValueTypes \subseteq {"none", "num", "str", "bool"}
  /\ Operators \subseteq AllOperators
  /\ Admitted \subseteq Disagreements
  /\ MaxRefs \in Nat /\ MaxNodes \in Nat

\* A list is named by what it holds, and so is every list made of its elements. A plan and a document
\* hold no int64.
ASSUME ListsAssumption ==
  \A l \in {x \in DOMAIN Members : x.t = "list"} :
    /\ \A m \in Members[l] : m.t # "int64"
    /\ \A S \in SUBSET Members[l] : \E k \in DOMAIN Members : k.t = "list" /\ Members[k] = S
    /\ \A k \in DOMAIN Members : k.t = "list" /\ Members[k] = Members[l] => k = l

VARIABLES
  doc,          \* what the document stores at the references read so far
  mapping,      \* their mapper entries, completed by the convention
  convention,   \* nullAttributeRepresentation
  stack,        \* operands read and not yet consumed
  nodes,        \* plan nodes read so far
  phase,        \* where the call, then the query, stands
  root,         \* what CEL says of the whole condition
  result,       \* the filter that was returned
  returned      \* does the query's answer hold the document?

vars == <<doc, mapping, convention, stack, nodes, phase, root, result, returned>>

-----------------------------------------------------------------------------
(* The mapper and the document *)

Refs == DOMAIN Shape

\* withOmittedNullDefault: an entry that does not say, under a convention that omits nulls.
DeclaredNullable(declared) == declared = "yes" \/ (declared = "undeclared" /\ convention = "omitted")

Entries == [nullable : {DeclaredNullable(declared) : declared \in Nullability}, type : ValueTypes]

Missing(x) == x \in {Null, Undefined}

\* What a mapper entry asserts of a value stored at its path. A to-one parent and a list may be
\* absent whatever the entry says.
Declares(shape, entry, x) ==
  /\ entry.type # "none" =>
       \A m \in IF IsCollection(x) THEN Members[x] ELSE {x} : m.t = entry.type \/ Missing(m)
  /\ ~entry.nullable =>
       /\ convention = "omitted" => x # Null
       /\ x = Undefined => shape \in {"one", "list", "many"}

\* An absent path taken for a value.
AttributeAsStored(entry, x) == IF entry.nullable /\ x = Null THEN Err ELSE x

\* What the application sends for it: a nullable null, like an absent path, is no attribute.
Attribute(entry, x) ==
  IF x = Undefined \/ (entry.nullable /\ x = Null) THEN Err ELSE x

-----------------------------------------------------------------------------
(* Environments: the root, or the elements of the relation *)

Root == Undefined
Array == {r \in DOMAIN doc : Shape[r] = "many"}
Elements(x) == IF IsCollection(x) THEN Members[x] ELSE {}
ElementEnvs == UNION {Elements(doc[r]) : r \in Array}

At(f, e) == IF e \in DOMAIN f THEN f[e] ELSE f[Root]

\* An element-scoped operand makes the expression element-scoped.
ScopeOf(args) ==
  IF \E i \in DOMAIN args : args[i].scope = "element" THEN "element"
  ELSE IF \E i \in DOMAIN args : args[i].scope = "root" THEN "root" ELSE "none"
EnvsOf(scope) == IF scope = "element" THEN ElementEnvs ELSE {Root}

\* assertCollectionScopedReference finds a reference of the document inside a lambda.
OuterReference(op, args) ==
  /\ op \notin Macros \union {"map"}
  /\ ScopeOf(args) = "element" /\ \E i \in DOMAIN args : args[i].scope = "root"

\* A filter: what it matches, whether building it throws, and whether MongoDB refuses to run it.
Refusal == [match |-> <<>>, throws |-> TRUE, aborts |-> FALSE]
Filter(match) == [match |-> match, throws |-> FALSE, aborts |-> FALSE]
RefusedIf(refused, filter) == IF refused THEN Refusal ELSE filter
Constant(envs, b) == Filter([e \in envs |-> b])

-----------------------------------------------------------------------------
(* Leaf queries over a value as it is stored *)

QueryMatches(test, x, lit) ==
  CASE test = "eq" -> IF lit = Null THEN Missing(x) ELSE x = lit
    [] test = "ne" -> IF lit = Null THEN ~Missing(x) ELSE x # lit
    [] test \in Orderings -> SameOrderedType(x, lit) /\ Ordered(test, x.v, lit.v)
    [] test = "in" -> x \in Members[lit] \/ (Missing(x) /\ Null \in Members[lit])
    [] test = "startsWith" -> x.t = "str" /\ lit.t = "str" /\ IsPrefix(lit, x)
    [] test = "present" -> x # Undefined
    [] test = "anything" -> TRUE
    [] OTHER -> FALSE

\* buildGuardedFieldFilter: the comparison behind its own guards.
GuardedMatches(test, x, lit, nullable, requireExists) ==
  /\ nullable => ~Missing(x)
  /\ requireExists => x # Undefined
  /\ QueryMatches(test, x, lit)

\* The path is compared as it stands, in the relation's elements for a to-many relation.
EmitLeafComparison(field, test, lit, nullable, requireExists) ==
  Filter([e \in DOMAIN field.agg |->
    IF field.shape = "many"
    THEN \E m \in Elements(field.agg[e]) : GuardedMatches(test, m, lit, nullable, requireExists)
    ELSE GuardedMatches(test, field.agg[e], lit, nullable, requireExists)])

CarriesNull(lit) == lit = Null \/ (lit.t = "list" /\ Null \in Members[lit])
NullRefused(lit) == convention = "omitted" /\ CarriesNull(lit)

EmitValueComparison(field, test, lit, constant) ==
  RefusedIf(NullRefused(constant),
    EmitLeafComparison(field, test, lit, field.nullable, CarriesNull(constant)))

CanEqual(type, lit) == type = "none" \/ lit = Null \/ lit.t = type
CanOrder(type, lit) == lit.t \in {"num", "str", "bool"} /\ (type = "none" \/ lit.t = type)
WithoutUnequal(type, list) == ListOf({m \in Members[list] : CanEqual(type, m)})

-----------------------------------------------------------------------------
(* Aggregation expressions *)

BsonRank(type) ==
  CASE type = "undefined" -> 0 [] type = "null" -> 1 [] type = "num" -> 2
    [] type = "str" -> 3 [] type = "list" -> 4 [] type = "bool" -> 5 [] OTHER -> 6

BsonLess(a, b) == BsonRank(a.t) < BsonRank(b.t) \/ (BsonRank(a.t) = BsonRank(b.t) /\ a.v < b.v)

BsonCompare(op, a, b) ==
  CASE op = "eq" -> a = b
    [] op = "ne" -> a # b
    [] op = "lt" -> BsonLess(a, b)
    [] op = "le" -> ~BsonLess(b, a)
    [] op = "gt" -> BsonLess(b, a)
    [] op = "ge" -> ~BsonLess(a, b)

Truthy(x) == ~Missing(x) /\ x # False /\ x # [t |-> "num", v |-> 0]

\* celScalarType of an expression.
CelScalarType(op, args) ==
  CASE op = "add" ->
         IF \E i \in 1 .. 2 : args[i].type = "mixed" THEN "mixed"
         ELSE IF args[1].type \in {"str", "num"} THEN args[1].type
         ELSE IF args[2].type \in {"str", "num"} THEN args[2].type ELSE "none"
    [] op \in {"size", "div", "mod"} -> "num"
    [] op = "if" ->
         IF \E i \in 2 .. 3 : args[i].type = "mixed" THEN "mixed"
         ELSE IF \E i \in 2 .. 3 : args[i].type = "none" THEN "none"
         ELSE IF args[2].type = args[3].type THEN args[2].type ELSE "mixed"
    [] op \in Comparisons \union Junctions \union {"not", "matches", "startsWith"} -> "bool"
    [] OTHER -> "none"

Mixed(args) == \E i \in 1 .. 2 : args[i].type = "mixed"
IsUnorderable(args) ==
  args[1].type # "none" /\ args[2].type # "none" /\ args[1].type # args[2].type

\* `+` is $concat when a constant or a nested expression makes it a string, $add otherwise.
Concatenates(args) ==
  \E i \in 1 .. 2 :
    \/ args[i].kind = "value" /\ args[i].lit.t = "str"
    \/ args[i].kind \notin {"value", "variable"} /\ args[i].type = "str"

AddThrows(args) ==
  \/ \E i \in 1 .. 2 : args[i].kind = "value" /\ args[i].lit.t = "list"
  \/ args[1].kind = "variable" /\ args[2].kind = "variable"

\* A missing operand makes the sum null; one the operator has no overload for fails the query.
Add(args, a, b) ==
  LET type == IF Concatenates(args) THEN "str" ELSE "num"
  IN IF Missing(a) \/ Missing(b) THEN Null
     ELSE IF a.t = type /\ b.t = type THEN [t |-> type, v |-> a.v + b.v] ELSE Err

\* A quotient in whole numbers, and the remainder of a size.
Divided(op, a, b) ==
  LET sign == IF b < 0 THEN -1 ELSE 1 IN
  IF op = "div" THEN (sign * a) \div (sign * b) ELSE a % (sign * b)

\* $divide and $mod, by a constant that is not zero.
Divide(op, a, b) ==
  IF Missing(a) THEN Null
  ELSE IF a.t # "num" \/ b.t # "num" \/ b.v = 0 THEN Err
  ELSE [t |-> "num", v |-> Divided(op, a.v, b.v)]

DivideThrows(op, args) ==
  \/ ~(args[2].kind = "value" /\ args[2].lit.t = "num" /\ args[2].lit.v # 0)
  \/ op = "mod" /\ args[1].kind # "size"

\* $and and $or stop at the first operand that decides.
AggregateJunction(decisive, l, r) ==
  IF l = Err THEN Err
  ELSE IF Truthy(l) = decisive THEN Bool(decisive)
  ELSE IF r = Err THEN Err ELSE Bool(Truthy(r))

\* The build functions of AGGREGATION_OPERATORS, over the values the operands take. What fails in an
\* operand fails the whole, but for a branch or an operand that is not evaluated.
Aggregate(op, args, vals) ==
  IF op = "if" THEN IF vals[1] = Err THEN Err ELSE IF Truthy(vals[1]) THEN vals[2] ELSE vals[3]
  ELSE IF op \in Junctions THEN AggregateJunction(op = "or", vals[1], vals[2])
  ELSE IF \E i \in DOMAIN vals : vals[i] = Err THEN Err
  ELSE CASE op \in Comparisons -> Bool(BsonCompare(op, vals[1], vals[2]))
         [] op = "not" -> Bool(~Truthy(vals[1]))
         [] op = "add" -> Add(args, vals[1], vals[2])
         [] op \in {"div", "mod"} -> Divide(op, vals[1], vals[2])
         [] op = "size" -> IF vals[1].t \in {"str", "list"} THEN SizeOf(vals[1]) ELSE Null
         [] op = "index" ->
              IF Element(vals[1]) # Err THEN Element(vals[1])
              ELSE IF Missing(vals[1]) THEN Null ELSE IF vals[1].t = "list" THEN Undefined ELSE Err
         [] op = "startsWith" ->
              IF vals[1].t = "str" /\ vals[2].t = "str" THEN StartsWith(vals[1], vals[2]) ELSE Null
         [] op = "matches" ->
              IF Missing(vals[1]) THEN False ELSE StartsWith(vals[1], vals[2])
         [] OTHER -> Null

\* No entry in the table, or one whose build refuses the operands.
AggregateThrows(op, args) ==
  \/ \E i \in DOMAIN args : args[i].aggThrows
  \/ op \notin Comparisons \union Junctions
       \union {"not", "if", "add", "div", "mod", "size", "index", "startsWith", "matches"}
  \/ op \in Orderings /\ (Mixed(args) \/ IsUnorderable(args))
  \/ op = "add" /\ AddThrows(args)
  \/ op \in {"div", "mod"} /\ DivideThrows(op, args)
  \/ op = "matches" /\ ~(args[2].kind = "value" /\ args[2].lit.t = "str")

\* An index past the end of the list it reads.
OwnGuardInList(op, vals, agg) ==
  CASE op \in {"size", "startsWith"} -> agg # Null
    [] op = "index" -> vals[1].t = "list"
    [] op = "matches" -> vals[1].t = "str"
    [] OTHER -> TRUE

\* The guard of an entry: what keeps out a document on which CEL raises.
OwnGuard(op, vals, agg) ==
  CASE op \in {"size", "startsWith"} -> agg # Null
    [] op = "index" -> vals[1].t = "list" /\ Members[vals[1]] # {}
    [] op = "matches" -> vals[1].t = "str"
    [] OTHER -> TRUE

Guarded == {"size", "index", "startsWith", "matches"}
-----------------------------------------------------------------------------
(* filter.ts: the filter of an expression, from its operands' records *)

Guards(args, e) == \A i \in DOMAIN args : At(args[i].guard, e)
\* A guard that is an $expr cannot stand inside $elemMatch.
ExprGuarded(op, args) == op \in Guarded \/ \E i \in DOMAIN args : args[i].exprGuard

\* An $expr, refused inside a collection predicate; it fails on a document it cannot compute.
EmitExpr(scope, refused, agg, match) ==
  RefusedIf(scope = "element" \/ refused,
    [match |-> match, throws |-> FALSE, aborts |-> agg[Root] = Err])

\* A field against a constant, in the field's favour.
CompareConstant(op, field, lit) ==
  IF op \in Orderings /\ ~CanOrder(field.type, lit) THEN
    EmitLeafComparison(field, "nothing", lit, FALSE, FALSE)
  ELSE IF op \in Equalities /\ ~CanEqual(field.type, lit) THEN
    EmitLeafComparison(field, IF op = "eq" THEN "nothing" ELSE
                              IF field.scope = "root" THEN "anything" ELSE "present",
                       lit, op = "ne" /\ field.nullable, FALSE)
  ELSE EmitValueComparison(field, op, lit, lit)

Mirrored(op) ==
  CASE op = "lt" -> "gt" [] op = "le" -> "ge" [] op = "gt" -> "lt" [] op = "ge" -> "le"
    [] OTHER -> op

IsEmptyList(n) == n.kind = "value" /\ n.lit.t = "list" /\ Members[n.lit] = {}
SetOperations == {"except", "intersect"}
EmptinessTest(args, i) == args[i].kind \in SetOperations /\ IsEmptyList(args[3 - i])

\* agg holds what the comparison computes as a pipeline expression.
TranslateComparison(op, args, agg) ==
  LET l == args[1]
      r == args[2]
      scope == ScopeOf(args)
  IN IF op \in Equalities /\ \E i \in 1 .. 2 : EmptinessTest(args, i)
     THEN LET i == CHOOSE j \in 1 .. 2 : EmptinessTest(args, j)
          IN IF op = "eq" THEN args[i].yes ELSE args[i].no
     ELSE IF \E i \in 1 .. 2 : args[i].kind = "variable" /\ args[3 - i].lit.t = "list" THEN Refusal
     ELSE IF l.kind = "variable" /\ r.kind = "value" THEN CompareConstant(op, l, r.lit)
     ELSE IF l.kind = "value" /\ r.kind = "variable" THEN CompareConstant(Mirrored(op), r, l.lit)
     ELSE EmitExpr(scope,
            \/ l.kind = "if" /\ r.kind = "if"
            \/ l.aggThrows \/ r.aggThrows
            \/ op \in Orderings /\ Mixed(args),
            agg,
            [e \in DOMAIN agg |->
               /\ ~(op \in Orderings /\ IsUnorderable(args))
               /\ Guards(args, e) /\ agg[e] = True])

\* A native array read through $isArray, so that Mongoose casts no needle.
EmitUncastListMembership(list, needles) ==
  RefusedIf(convention = "omitted" /\ Null \in needles,
    Filter([e \in DOMAIN list.agg |->
      list.guard[e] /\ Elements(list.agg[e]) \intersect needles # {}]))

\* Some element's field among the values, or under negation none of an array's.
TranslateMapIntersection(map, values, negated) ==
  LET kept == {v \in values : CanEqual(map.type, v)}
      noMissingProjection(x) == map.nullable => \A m \in Elements(x) : ~Missing(m)
  IN RefusedIf(map.shape # "many",
       Filter([e \in DOMAIN map.agg |->
         LET x == map.agg[e] IN
         /\ noMissingProjection(x)
         /\ IF negated THEN IsCollection(x) /\ Elements(x) \intersect kept = {}
            ELSE Elements(x) \intersect kept # {}]))

TranslateIn(args) ==
  LET l == args[1]
      r == args[2]
  IN IF l.kind = "variable" /\ r.kind = "value"
     THEN IF r.lit.t # "list" THEN Refusal
          ELSE EmitValueComparison(l, "in", WithoutUnequal(l.type, r.lit), r.lit)
     ELSE IF l.kind # "value" \/ l.lit.t = "list" THEN Refusal
     ELSE IF r.kind = "map" THEN TranslateMapIntersection(r, {l.lit}, FALSE)
     ELSE IF r.kind # "variable" \/ r.shape = "one" THEN Refusal
     ELSE IF ~CanEqual(r.type, l.lit) THEN EmitLeafComparison(r, "nothing", l.lit, FALSE, FALSE)
     ELSE IF r.shape = "many" THEN EmitValueComparison(r, "eq", l.lit, l.lit)
     ELSE EmitUncastListMembership(r, {l.lit})

\* The operand that holds the collection, and the constant list.
CollectionFirst(args) ==
  IF args[1].kind = "value" /\ args[1].lit.t = "list" THEN <<args[2], args[1]>> ELSE args

TranslateHasIntersection(args) ==
  LET collection == CollectionFirst(args)[1]
      list == CollectionFirst(args)[2]
      values == WithoutUnequal(collection.type, list.lit)
  IN IF \E i \in 1 .. 2 : args[i].kind = "value" /\ NullRefused(args[i].lit) THEN Refusal
     ELSE IF list.lit.t # "list" THEN Refusal
     ELSE IF collection.kind = "map" THEN TranslateMapIntersection(collection, Members[list.lit], FALSE)
     ELSE IF collection.kind # "variable" THEN Refusal
     ELSE IF collection.shape = "list" /\ Members[values] # {}
     THEN EmitUncastListMembership(collection, Members[values])
     ELSE EmitLeafComparison(collection, "in", values, FALSE, CarriesNull(values))

\* everyElementIn over a relation: the membership of each element, as an $elemMatch.
RelationMembership(quantifier, relation, list, negate) ==
  LET matches(m) == GuardedMatches("in", m, WithoutUnequal(relation.type, list.lit),
                                   relation.elementNullable, CarriesNull(list.lit))
  IN RefusedIf(NullRefused(list.lit) \/ (negate /\ relation.elementNullable),
       Filter([e \in DOMAIN relation.agg |->
         LET x == relation.agg[e] IN
         IF quantifier = "all"
         THEN IsCollection(x) /\ \A m \in Elements(x) : matches(m) # negate
         ELSE \E m \in Elements(x) : matches(m) # negate]))

\* everyElementIn over a constant list, unrolled; a negated membership carries its list's guards.
ConstantMembership(quantifier, list, collection, negate) ==
  LET member(m) == TranslateIn(<<[list EXCEPT !.lit = m], collection>>)
      matches(m, e) ==
        IF negate
        THEN /\ ~member(m).match[e] /\ collection.guard[e]
             /\ IsCollection(collection.agg[e])
        ELSE member(m).match[e]
      elements == Members[list.lit]
  IN RefusedIf(\/ \E m \in elements : member(m).throws
               \/ elements # {} /\ negate /\ collection.shape = "many" /\ collection.nullable,
       Filter([e \in DOMAIN collection.agg |->
         IF quantifier = "all" THEN \A m \in elements : matches(m, e)
         ELSE \E m \in elements : matches(m, e)]))

EveryElementIn(quantifier, collection, other, negate) ==
  IF collection.shape = "many" /\ other.lit.t = "list"
  THEN RelationMembership(quantifier, collection, other, negate)
  ELSE IF collection.lit.t = "list" /\ other.kind = "variable"
  THEN ConstantMembership(quantifier, collection, other, negate)
  ELSE Refusal

\* emptyListComparison: the filter of `op(a, b) == []`, or of `!= []`.
Emptiness(op, args, empty) ==
  LET swapped == op = "intersect" /\ args[2].kind = "variable" /\ args[1].kind # "variable"
      collection == IF swapped THEN args[2] ELSE args[1]
      other == IF swapped THEN args[1] ELSE args[2]
  IN EveryElementIn(IF empty THEN "all" ELSE "exists", collection, other, empty = (op = "intersect"))

Quantifier(op, args) ==
  LET relation == args[1]
      body == args[2].yes
  IN RefusedIf(op = "existsOne" \/ relation.shape # "many" \/ body.throws,
       [match |-> [e \in DOMAIN relation.agg |->
          LET x == relation.agg[e] IN
          IF op = "all" THEN IsCollection(x) /\ \A m \in Elements(x) : body.match[m]
          ELSE \E m \in Elements(x) : body.match[m]],
        throws |-> FALSE, aborts |-> body.aborts])

TranslateMatches(args) ==
  IF args[1].kind = "variable" /\ args[2].lit.t = "str"
  THEN EmitLeafComparison(args[1], "startsWith", args[2].lit, FALSE, FALSE) ELSE Refusal

TranslateStringPredicate(args, agg, aggThrows) ==
  IF args[1].kind = "variable" /\ args[2].lit.t = "str" /\ args[1].type \in {"none", "str"}
  THEN EmitLeafComparison(args[1], "startsWith", args[2].lit, args[1].nullable, FALSE)
  ELSE EmitExpr(ScopeOf(args), aggThrows, agg,
         [e \in DOMAIN agg |-> Guards(args, e) /\ agg[e] = True])

\* $and and $or over filters already built.
Join(op, scope, filters) ==
  RefusedIf(\E i \in DOMAIN filters : filters[i].throws,
    [match |-> [e \in EnvsOf(scope) |->
       IF op = "and" THEN \A i \in DOMAIN filters : filters[i].match[e]
       ELSE \E i \in DOMAIN filters : filters[i].match[e]],
     throws |-> FALSE, aborts |-> \E i \in DOMAIN filters : filters[i].aborts])

Positive(args) == [i \in DOMAIN args |-> args[i].yes]
Negative(args) == [i \in DOMAIN args |-> args[i].no]
Dual(op) == IF op = "and" THEN "or" ELSE "and"

\* membershipInConditionalList, on the branches the needle is in.
ConditionalMembership(op, condition) ==
  CASE op = "inThen" -> condition.yes
    [] op = "inElse" -> condition.no
    [] OTHER -> Join(IF op = "inBoth" THEN "or" ELSE "and", condition.scope,
                     <<condition.yes, condition.no>>)

\* The list is built before it is ranged over: every element's guard stands outside the bodies.
FoldConstructedList(op, args) ==
  LET bodies == [i \in 1 .. 2 |-> TranslateComparison("eq", <<args[i], args[3]>>, args[i].agg)]
      folded == Join(IF op = "existsOf" THEN "or" ELSE "and", "root", bodies)
  IN RefusedIf(ScopeOf(args) # "root" \/ folded.throws,
       [folded EXCEPT !.match = [e \in {Root} |-> Guards(args, e) /\ folded.match[e]]])

\* buildFilter of an expression.
BuildFilter(op, args, agg, aggThrows) ==
  LET scope == ScopeOf(args) IN
  IF OuterReference(op, args) THEN Refusal
  ELSE CASE op \in Junctions -> Join(op, scope, Positive(args))
         [] op = "not" -> args[1].no
         [] op \in Comparisons -> TranslateComparison(op, args, agg)
         [] op = "in" -> TranslateIn(args)
         [] op \in ConditionalLists -> ConditionalMembership(op, args[1])
         [] op = "matches" -> TranslateMatches(args)
         [] op = "startsWith" -> TranslateStringPredicate(args, agg, aggThrows)
         [] op = "hasIntersection" -> TranslateHasIntersection(args)
         [] op = "isSubset" -> EveryElementIn("all", args[1], args[2], FALSE)
         [] op \in SetOperations -> Emptiness(op, args, TRUE)     \* read only by a comparison with []
         [] op \in Macros -> Quantifier(op, args)
         [] op \in Folds -> FoldConstructedList(op, args)
         [] op = "if" ->
              EmitExpr(scope, aggThrows, agg,
                [e \in DOMAIN agg |-> (\A i \in DOMAIN args : At(args[i].guard, e)) /\ Truthy(agg[e])])
         [] OTHER -> Refusal

\* The mirror taken for the complement.
ComplementedByMirror(op) == Mirrored(op)

Complemented(op) ==
  CASE op = "lt" -> "ge" [] op = "le" -> "gt" [] op = "gt" -> "le" [] op = "ge" -> "lt"
    [] OTHER -> op

FieldAndConstant(args) ==
  {args[1].kind, args[2].kind} = {"variable", "value"}

\* A nullable guard outside the negation denies only what CEL denies if every path reads its field.
NullableGuardIsExact(n) ==
  n.nullReads # {} =>
    /\ n.scope = "root"
    /\ n.nullReads \subseteq n.always
    /\ \A r \in n.nullReads : Shape[r] # "many"

\* buildListShapeGuard: an element's list, or one below a conditional, which CEL may not read.
UnguardableList(n) == n.listRead /\ (n.scope = "element" \/ n.kind \in ConditionalLists)

\* The guards dropped into the $nor.
NorGuardedInside(n) ==
  RefusedIf(n.kind \in Macros \union Folds \/ ~NullableGuardIsExact(n) \/ n.yes.throws \/ UnguardableList(n),
    [match |-> [e \in DOMAIN n.yes.match |-> ~(n.yes.match[e] /\ n.guard[e] /\ n.listShape[e])],
     throws |-> FALSE,
     aborts |-> n.yes.aborts \/ (n.scope = "element" /\ n.exprGuard)])

\* $nor, behind the guards of everything the operand reads.
Nor(n) ==
  RefusedIf(n.kind \in Macros \union Folds \/ ~NullableGuardIsExact(n) \/ n.yes.throws \/ UnguardableList(n),
    [match |-> [e \in DOMAIN n.yes.match |-> ~n.yes.match[e] /\ n.guard[e] /\ n.listShape[e]],
     throws |-> FALSE,
     aborts |-> n.yes.aborts \/ (n.scope = "element" /\ n.exprGuard)])

\* translateNot of an expression whose record, but for `no`, is n.
TranslateNot(n, args) ==
  LET op == n.kind IN
  IF OuterReference(op, args) THEN Refusal
  ELSE IF op \in Junctions THEN Join(Dual(op), n.scope, Negative(args))
  ELSE IF op = "not" THEN args[1].yes
  ELSE IF op = "in" /\ args[1].kind = "value" /\ args[2].kind = "map"
  THEN TranslateMapIntersection(args[2], {args[1].lit}, TRUE)
  ELSE IF op = "hasIntersection" /\ CollectionFirst(args)[1].kind = "map"
  THEN LET list == CollectionFirst(args)[2].lit IN
       IF list.t # "list" THEN Refusal
       ELSE TranslateMapIntersection(CollectionFirst(args)[1], Members[list], TRUE)
  ELSE IF op = "isSubset" THEN EveryElementIn("exists", args[1], args[2], TRUE)
  ELSE IF op \in SetOperations THEN Emptiness(op, args, FALSE)
  ELSE IF op \in Equalities /\ \E i \in 1 .. 2 : EmptinessTest(args, i)
  THEN TranslateComparison(IF op = "eq" THEN "ne" ELSE "eq", args, n.agg)
  ELSE IF op \in Orderings /\ Mixed(args) THEN Refusal
  ELSE IF op \in Orderings /\ IsUnorderable(args) THEN n.yes
  ELSE IF op \in Orderings /\ FieldAndConstant(args) THEN TranslateComparison(Complemented(op), args, n.agg)
  ELSE Nor(n)

-----------------------------------------------------------------------------
(* The record of a node *)

ValueNode(x) ==
  [kind |-> "value", shape |-> "none", lit |-> x, nullable |-> FALSE, elementNullable |-> FALSE,
   type |-> IF x.t \in {"num", "str", "bool"} THEN x.t ELSE "none", scope |-> "none",
   val |-> [e \in {Root} |-> x], agg |-> [e \in {Root} |-> x], aggThrows |-> FALSE,
   guard |-> [e \in {Root} |-> TRUE], exprGuard |-> FALSE, yes |-> Refusal, no |-> Refusal,
   nullReads |-> {}, always |-> {}, listRead |-> FALSE, listShape |-> [e \in {Root} |-> TRUE],
   typed |-> TRUE]

\* The guards a variable brings: its own nullable one, and its to-one parent's.
VariableGuard(shape, nullable, x) ==
  /\ nullable => ~Missing(x) /\ Null \notin Elements(x)
  /\ shape = "one" => x # Undefined

\* elementEntry is the relation's element field's entry, for a to-many relation.
VariableNode(r, shape, entry, elementEntry, stored) ==
  LET nullable == entry.nullable
      n == [kind |-> "variable", shape |-> shape, lit |-> Undefined, nullable |-> nullable,
            elementNullable |-> shape = "many" /\ elementEntry.nullable,
            type |-> entry.type, scope |-> IF shape = "element" THEN "element" ELSE "root",
            val |-> [e \in DOMAIN stored |-> Attribute(entry, stored[e])],
            agg |-> stored, aggThrows |-> FALSE,
            guard |-> [e \in DOMAIN stored |-> VariableGuard(shape, nullable, stored[e])],
            exprGuard |-> FALSE, yes |-> Refusal, no |-> Refusal,
            nullReads |-> IF nullable THEN {r} ELSE {}, always |-> {r}, listRead |-> FALSE,
            listShape |-> [e \in DOMAIN stored |-> TRUE], typed |-> TRUE]
      bare == [n EXCEPT !.yes = IF shape = "many" THEN Refusal
                                ELSE EmitLeafComparison(n, "eq", True, nullable, FALSE)]
  IN [bare EXCEPT !.no = Nor(bare)]

\* Every attribute is a double, and `%` takes two ints: only the size of something has a remainder.
DividedBy(op, args, l, r) ==
  IF l.t # "num" \/ r.t # "num" \/ r.v = 0 \/ (op = "mod" /\ args[1].kind # "size") THEN Err
  ELSE [t |-> "num", v |-> Divided(op, l.v, r.v)]

\* What CEL says of the expression in an environment.
Evaluate(op, args, e) ==
  LET v(i) == At(args[i].val, e)
      vals == {v(i) : i \in DOMAIN args}
      bodies == {args[2].val[m] : m \in Elements(v(1))}
  IN CASE op = "and" -> Junction(FALSE, vals)
       [] op = "or" -> Junction(TRUE, vals)
       [] op = "not" -> Not(v(1))
       [] op \in Comparisons -> CompareValues(op, v(1), v(2))
       [] op = "in" -> In(v(1), v(2))
       [] op = "if" -> IfThenElse(v(1), v(2), v(3))
       [] op = "add" -> Plus(v(1), v(2))
       [] op \in {"div", "mod"} -> DividedBy(op, args, v(1), v(2))
       [] op = "size" -> SizeOf(v(1))
       [] op = "index" -> Element(v(1))
       [] op \in {"startsWith", "matches"} -> StartsWith(v(1), v(2))
       [] op = "hasIntersection" -> HasIntersection(v(1), v(2))
       [] op = "isSubset" -> IsSubset(v(1), v(2))
       [] op = "except" -> Except(v(1), v(2))
       [] op = "intersect" -> Intersect(v(1), v(2))
       [] op \in Folds ->
            IF Err \in {v(1), v(2)} THEN Err
            ELSE Junction(op = "existsOf", {CompareValues("eq", v(i), v(3)) : i \in 1 .. 2})
       [] op = "exists" -> Exists(v(1), bodies)
       [] op = "all" -> All(v(1), bodies)
       [] op = "map" ->
            IF IsCollection(v(1)) /\ Err \notin bodies THEN ListOf(bodies) ELSE Err
       [] op \in ConditionalLists ->
            IfThenElse(v(1), Bool(op \in {"inThen", "inBoth"}), Bool(op \in {"inElse", "inBoth"}))
       [] OTHER -> Err

\* Does every operand have an overload under the operator, or no attribute to have one with?
HasOverload(op, args, e) ==
  LET v(i) == At(args[i].val, e)
      missing == \E i \in DOMAIN args : v(i) = Err
      conditions == IF op \in Junctions \union {"not"} THEN DOMAIN args
                    ELSE IF op \in {"if"} \union ConditionalLists THEN {1} ELSE {}
  IN /\ \A i \in conditions : v(i).t \in {"bool", "error"}
     /\ op \in Orderings => missing \/ SameOrderedType(v(1), v(2))
     /\ op = "add" => missing \/ Plus(v(1), v(2)) # Err
     /\ op \in {"div", "mod"} => missing \/ v(1).t = "num"
     /\ op = "index" => missing \/ v(1).t = "list"

AlwaysReads(op, args) ==
  CASE op \in Junctions -> args[1].always \intersect args[2].always
    [] op = "if" -> args[1].always \union (args[2].always \intersect args[3].always)
    [] op \in Macros \union {"map"} -> args[1].always
    [] OTHER -> UNION {args[i].always : i \in DOMAIN args}

\* A lambda's references are the element's: the guards of the expression around it never see them.
Outside(op, args) == IF op \in Macros \union {"map"} THEN {1} ELSE DOMAIN args

\* collectListReads: the lists a membership reads itself.
ListsRead(op, args) ==
  IF op = "in" \/ op = "hasIntersection"
  THEN {i \in DOMAIN args : args[i].kind = "variable" /\ args[i].shape \in {"list", "many"}} ELSE {}

ReadsLists(op, args) ==
  \/ op \in Macros \union {"map"} \/ ListsRead(op, args) # {}
  \/ op # "in" /\ \E i \in DOMAIN args : args[i].listRead

\* The record of an expression, but for what translateNot emits.
BareExpression(op, args) ==
  LET scope == IF op \in Macros \union {"map"} THEN "root" ELSE ScopeOf(args)
      envs == EnvsOf(scope)
      outside == Outside(op, args)
      relation == args[1]
      aggs(e) == [i \in outside |-> At(args[i].agg, e)]
      agg == [e \in envs |-> IF op = "map" THEN relation.agg[e] ELSE Aggregate(op, args, aggs(e))]
      aggThrows == AggregateThrows(op, args)
      typed == /\ \A i \in DOMAIN args : args[i].typed
               /\ \A e \in envs : HasOverload(op, args, e)
  IN [kind |-> op, lit |-> Undefined,
      shape |-> IF op = "map" THEN relation.shape ELSE "none",
      nullable |-> op = "map" /\ args[2].nullable, elementNullable |-> FALSE,
      type |-> IF op = "map" THEN args[2].type ELSE CelScalarType(op, args),
      scope |-> scope, val |-> [e \in envs |-> Evaluate(op, args, e)],
      agg |-> agg, aggThrows |-> aggThrows,
      guard |-> [e \in envs |-> /\ \A i \in outside : At(args[i].guard, e)
                                /\ OwnGuard(op, aggs(e), agg[e])],
      exprGuard |-> op \in Guarded \/ \E i \in outside : args[i].exprGuard,
      yes |-> BuildFilter(op, args, agg, aggThrows), no |-> Refusal,
      nullReads |-> UNION {args[i].nullReads : i \in outside},
      always |-> AlwaysReads(op, args),
      listRead |-> ReadsLists(op, args),
      listShape |-> [e \in envs |-> \A i \in ListsRead(op, args) : IsCollection(At(args[i].agg, e))],
      typed |-> typed]

ExpressionNode(op, args) ==
  LET n == BareExpression(op, args)
  IN [n EXCEPT !.no = TranslateNot(n, args)]

-----------------------------------------------------------------------------
(* The plans explored *)

\* Does the operator's filter hold an aggregation expression?
InPipeline(op, args) ==
  \/ op \in {"if", "add", "div", "mod", "size", "index"}
  \/ op \in Comparisons /\ ~FieldAndConstant(args)
  \/ op = "startsWith" /\ ~(args[1].kind = "variable" /\ args[2].kind = "value")

\* A plan reads something, and reads a list only where a list is meant.
WellFormedPlan(op, args) ==
  /\ ScopeOf(args) # "none"
  /\ op \in Macros \union {"map"} => args[1].shape = "many" /\ args[1].kind = "variable"
                                   /\ args[2].scope = "element"
  /\ op = "map" => args[2].kind = "variable"
  /\ op \in Folds => /\ \A i \in 1 .. 2 : args[i].kind = "variable" /\ args[i].shape \in {"field", "one"}
                     /\ args[3].kind = "value"
  /\ OuterReference(op, args) =>
       \A i \in DOMAIN args : args[i].scope = "root" => args[i].kind = "variable"
  /\ \A i \in DOMAIN args : args[i].kind = "variable" /\ args[i].shape \in {"list", "many"} =>
       \/ op \in {"hasIntersection", "isSubset"} \union SetOperations
       \/ op = "in" /\ i = 2
       \/ op \in Macros \union {"map"} /\ i = 1
       \/ op \in {"size", "index"} /\ args[i].shape = "list"
  /\ op = "in" => args[2].kind = "map" \/ args[2].lit.t = "list" \/ args[2].shape \in {"one", "list", "many"}
  /\ \A i \in DOMAIN args : args[i].kind \in SetOperations => op \in Equalities /\ EmptinessTest(args, i)
  /\ op \in {"hasIntersection", "isSubset"} \union SetOperations =>
       \A i \in DOMAIN args : args[i].kind = "map" \/ args[i].lit.t = "list"
                             \/ args[i].shape \in {"list", "many"}
  /\ \A i \in DOMAIN args : args[i].kind = "map" => op \in {"in", "hasIntersection"}

AdmittedShape(op, args) ==
  /\ "mistyped" \in Admitted \/
       /\ \A e \in EnvsOf(ScopeOf(args)) :
            HasOverload(op, args, e) \/ ~(InPipeline(op, args) \/ op \in Junctions \union {"not"}
                                           \union ConditionalLists)
       /\ InPipeline(op, args) => \A i \in DOMAIN args : args[i].typed
  /\ "emptySubset" \in Admitted \/ ~(op \in {"isSubset", "except"} /\ IsEmptyList(args[1]))
  /\ "negatedConditional" \in Admitted \/
       (op \in ConditionalLists =>
          \A e \in DOMAIN args[1].val :
            args[1].guard[e] =>
              /\ ~args[1].yes.throws => args[1].val[e] = Bool(args[1].yes.match[e])
              /\ ~args[1].no.throws => args[1].val[e] = Bool(~args[1].no.match[e]))
  /\ "absentParent" \in Admitted \/
       ~(op = "ne" /\ FieldAndConstant(args) /\
         \E i \in 1 .. 2 : args[i].shape = "one" /\ ~args[i].nullable)

\* A policy uses as a condition what is a boolean, or an error.
IsCondition(n) ==
  /\ n.kind \notin SetOperations /\ n.shape \notin {"list", "many"}
  /\ "mistyped" \in Admitted \/ \A e \in DOMAIN n.val : n.val[e].t \in {"bool", "error"}

-----------------------------------------------------------------------------
(* Behaviour *)

Unanswered == [match |-> FALSE, aborts |-> FALSE]

Init ==
  /\ doc = <<>>
  /\ mapping = <<>>
  /\ convention \in Conventions
  /\ stack = <<>>
  /\ nodes = 0
  /\ phase = "reading"
  /\ root = Null
  /\ result = Unanswered
  /\ returned = FALSE

Read(rest, n) ==
  /\ phase = "reading"
  /\ nodes < MaxNodes
  /\ nodes' = nodes + 1
  /\ Len(rest) <= 2 * (MaxNodes - nodes')     \* what is left of the bound can still join the stack
  /\ stack' = Append(rest, n)
  /\ UNCHANGED <<convention, phase, root, result, returned>>

ReadValue == \E x \in Literals : Read(stack, ValueNode(x)) /\ UNCHANGED <<doc, mapping>>

\* A relation and its element field are declared, and stored, together.
Together(r) ==
  IF Shape[r] \in {"many", "element"} THEN {q \in Refs : Shape[q] \in {"many", "element"}} ELSE {r}

StoredAt(r) == IF Shape[r] \in {"field", "one"} THEN Scalar ELSE Stored

\* The first reading of a reference decides what is stored there and how it is mapped.
Decide(r) ==
  IF r \in DOMAIN doc THEN UNCHANGED <<doc, mapping>>
  ELSE \E x \in StoredAt(r), entries \in [Together(r) -> Entries] :
         /\ \A q \in Together(r) :
              /\ entries[q].type = entries[r].type
              /\ IF Shape[q] = "element"
                 THEN \A m \in Elements(x) : Declares("field", entries[q], m)
                 ELSE Declares(Shape[q], entries[q], x)
         /\ doc' = [q \in DOMAIN doc \union Together(r) |-> IF q \in DOMAIN doc THEN doc[q] ELSE x]
         /\ mapping' = [q \in DOMAIN doc \union Together(r) |->
                          IF q \in DOMAIN doc THEN mapping[q] ELSE entries[q]]

\* What is stored at a reference, in each environment it is read in.
StoredIn(r, x) == IF Shape[r] = "element" THEN [m \in Elements(x) |-> m] ELSE [e \in {Root} |-> x]

ReadVariable ==
  \E r \in Refs :
    /\ Cardinality(DOMAIN doc \union Together(r)) <= MaxRefs
    /\ Decide(r)
    /\ LET element == {q \in Together(r) : Shape[q] = "element"}
           elementEntry == IF element = {} THEN mapping'[r] ELSE mapping'[CHOOSE q \in element : TRUE]
       IN Read(stack, VariableNode(r, Shape[r], mapping'[r], elementEntry, StoredIn(r, doc'[r])))

Top(n) == SubSeq(stack, Len(stack) - n + 1, Len(stack))
Under(n) == SubSeq(stack, 1, Len(stack) - n)

ReadExpression ==
  \E op \in Operators : \E n \in Widths(op) :
    /\ n <= Len(stack)
    /\ WellFormedPlan(op, Top(n))
    /\ AdmittedShape(op, Top(n))
    /\ Read(Under(n), ExpressionNode(op, Top(n)))
    /\ UNCHANGED <<doc, mapping>>

\* A condition that cannot be translated answered without it.
TranslateBestEffort ==
  /\ phase = "reading"
  /\ Len(stack) = 1 /\ stack[1].scope = "root"
  /\ IsCondition(stack[1])
  /\ root' = stack[1].val[Root]
  /\ phase' = "translated"
  /\ result' = [match |-> stack[1].yes.throws \/ stack[1].yes.match[Root], aborts |-> FALSE]
  /\ stack' = <<>>
  /\ UNCHANGED <<doc, mapping, convention, nodes, returned>>

\* queryPlanToMongoose of a conditional plan.
Translate ==
  /\ phase = "reading"
  /\ Len(stack) = 1 /\ stack[1].scope = "root"
  /\ IsCondition(stack[1])
  /\ root' = stack[1].val[Root]
  /\ IF stack[1].yes.throws
     THEN phase' = "refused" /\ UNCHANGED result
     ELSE /\ phase' = "translated"
          /\ result' = [match |-> stack[1].yes.match[Root], aborts |-> stack[1].yes.aborts]
  /\ stack' = <<>>
  /\ UNCHANGED <<doc, mapping, convention, nodes, returned>>

\* ALWAYS_ALLOWED answers with an empty filter; a caller runs no query for ALWAYS_DENIED.
TranslateUnconditional ==
  /\ phase = "reading" /\ nodes = 0
  /\ \E allowed \in BOOLEAN :
       /\ root' = Bool(allowed)
       /\ result' = [match |-> allowed, aborts |-> FALSE]
  /\ phase' = "translated"
  /\ UNCHANGED <<doc, mapping, convention, stack, nodes, returned>>

\* The caller's find(): a filter MongoDB cannot run fails the whole query.
RunFilter ==
  /\ phase = "translated"
  /\ IF result.aborts THEN phase' = "aborted" /\ UNCHANGED returned
     ELSE phase' = "answered" /\ returned' = result.match
  /\ UNCHANGED <<doc, mapping, convention, stack, nodes, root, result>>

Next == ReadValue \/ ReadVariable \/ ReadExpression \/ Translate \/ TranslateUnconditional \/ RunFilter

Spec == Init /\ [][Next]_vars

-----------------------------------------------------------------------------
(* Properties *)

\* Type correctness of the call.
TypeOK ==
  /\ DOMAIN doc \subseteq Refs
  /\ DOMAIN mapping = DOMAIN doc
  /\ \A r \in DOMAIN doc : doc[r] \in Scalar \union Stored /\ mapping[r] \in Entries
  /\ convention \in Conventions
  /\ nodes \in 0 .. MaxNodes
  /\ \A i \in DOMAIN stack : LET n == stack[i] IN
       /\ \A e \in DOMAIN n.val : n.val[e] \in CelValue
       /\ \A filter \in {n.yes, n.no} : ~filter.throws => filter.match \in [DOMAIN n.val -> BOOLEAN]
  /\ phase \in {"reading", "refused", "translated", "answered", "aborted"}
  /\ root \in CelValue
  /\ result \in [match : BOOLEAN, aborts : BOOLEAN]
  /\ returned \in BOOLEAN

Conditions == {stack[i] : i \in {j \in DOMAIN stack : IsCondition(stack[j])}}

\* Can the filter be built, and run?
Runs(filter) == ~filter.throws /\ ~filter.aborts

\* A filter that matches proves its condition: whatever a document lacks, and under either polarity.
MatchesProven ==
  \A n \in Conditions : \A e \in DOMAIN n.val :
    /\ Runs(n.yes) /\ n.yes.match[e] => n.val[e] = True
    /\ Runs(n.no) /\ n.no.match[e] => n.val[e] = False

\* Behind its guards the pipeline computes what CEL computes, or fails the query.
PipelineAgrees ==
  \A i \in DOMAIN stack : LET n == stack[i] IN
    n.kind # "variable" /\ n.typed /\ ~n.aggThrows =>
      \A e \in DOMAIN n.val : n.guard[e] => n.agg[e] \in {n.val[e], Err}

\* guards.ts:82: "a missing parent denies under BOTH polarities regardless of which operator sits above
\* the chain", so that no document a query returns is one the PDP denies.
NeverOverGrants == phase = "answered" /\ returned => root = True

NullElement ==
  \E r \in DOMAIN doc : Shape[r] = "element" /\ mapping[r].nullable /\ Null \in Elements(doc[r])

\* A document CEL allows is lost only if some guard of the plan fails on it.
LostOnlyGuarded ==
  \A n \in Conditions : \A e \in DOMAIN n.val :
    /\ Runs(n.yes) /\ n.val[e] = True => n.yes.match[e] \/ ~n.guard[e] \/ NullElement
    /\ Runs(n.no) /\ n.val[e] = False => n.no.match[e] \/ ~n.guard[e] \/ NullElement

Outcome ==
  CASE phase = "reading" -> "pending"
    [] phase \in {"refused", "aborted"} -> "refused"
    [] OTHER -> phase

Verdict ==
  IF phase = "reading" THEN "unknown"
  ELSE IF root = True THEN "allow" ELSE IF root = False THEN "deny" ELSE "error"

Contract == INSTANCE AdapterContract WITH outcome <- Outcome, verdict <- Verdict, lossy <- TRUE

\* The adapter implements the contract of a store that may lose documents: it translates or
\* refuses, an aborted query answers nothing, and what is returned was allowed.
ImplementsContract == Contract!Spec
=============================================================================
