------------------------ MODULE ElasticsearchAdapter ------------------------
(***************************************************************************)
(* The Elasticsearch adapter (elasticsearch-java): a plan's condition      *)
(* translated into one Query DSL clause and put in a filter context.       *)
(*                                                                         *)
(* Negation never wraps a clause: PlanWalker carries a polarity down to    *)
(* the leaves, and each node is asked for a clause that proves it true or  *)
(* one that proves it false. Some nodes have only one of the two, because  *)
(* the index holds neither nulls nor empty arrays, and the other is        *)
(* refused.                                                                *)
(*                                                                         *)
(* The module reads the condition in postfix order. The stack holds, for   *)
(* every finished condition, both clauses: whether each is refused and     *)
(* which documents it matches, with what CEL says on each. The documents   *)
(* of the root scope are the one that is searched for; those of a lambda   *)
(* over a nested array are its elements, told apart by what they hold in   *)
(* the sub-field the lambda reads.                                         *)
(***************************************************************************)
EXTENDS CelValues, Sequences

CONSTANTS
  Attributes,       \* attribute paths the plan may reference
  DocValues,        \* what an attribute may hold
  Objects,          \* per nested array, what each element holds in the sub-field
  Literals,         \* constants the planner may ship
  Lookups,          \* map literals, as functions from keys to values
  Declarations,     \* what Options may say of an attribute, a subset of AllDeclarations
  MisusedShapes,    \* may a plan use an array as a scalar, or a scalar as an array?
  MaxNodes,         \* bound on the nodes of a condition
  MaxWidth          \* bound on the operands of a node

(* mapped: is it in fieldMap? type: the scalarTypes entry, of the elements for a flat array and of  *)
(* the sub-field for a nested one. shape: in collectionFields, in nestedPaths, the prefix of a      *)
(* mapped sub-field, or none of these. explicitNull: is it in explicitNullAttributes?               *)
AllDeclarations ==
  [mapped : BOOLEAN, type : {"num", "str", "bool", "undeclared"},
   shape : {"plain", "collection", "nested", "object"}, explicitNull : BOOLEAN]

ScalarOperators == Comparisons \union {"startsWith"}    \* for contains, endsWith and matches too
LeafOperators == ScalarOperators \union {"in", "hasIntersection"}

ASSUME ElasticValuesAssumption ==
  /\ DocValues \union Literals \subseteq CelValue \union {Undefined}
  /\ \A x \in DocValues \union Literals : x.t \notin {"error", "bytes", "int64"}
  /\ Undefined \notin Literals
  /\ \A x \in DOMAIN Members : \A m \in Members[x] : m.t # "int64"
ASSUME ObjectsAssumption ==
  \A x \in DOMAIN Objects :
    /\ x \in DOMAIN Members /\ x.t = "list" /\ Members[x] = {}
    /\ IsFiniteSet(Objects[x])
    /\ \A e \in Objects[x] : e \in Value /\ e.t \in {"undefined", "null", "num", "bool", "str"}
ASSUME LookupsAssumption ==
  \A m \in Lookups : m \in [DOMAIN m -> Value] /\ DOMAIN m \subseteq Value
    /\ \A k \in DOMAIN m : {k.t, m[k].t} \subseteq {"null", "num", "bool", "str"} /\ k # Null
ASSUME OptionsAssumption == Declarations \subseteq AllDeclarations /\ MisusedShapes \in BOOLEAN
ASSUME AttributesAssumption == "root" \notin Attributes    \* the scope outside every lambda
ASSUME PlanBoundsAssumption == MaxNodes \in Nat /\ MaxWidth \in Nat

VARIABLES
  doc,         \* what each attribute of the document holds
  options,     \* what Options says of each attribute
  stack,       \* the conditions read and not yet consumed
  nodes,       \* nodes read so far
  phase,       \* "reading", "refused", "translated" or "answered"
  root,        \* the whole condition, once it is read
  returned     \* is the document among the hits?

config == <<doc, options>>
vars == <<doc, options, stack, nodes, phase, root, returned>>

-----------------------------------------------------------------------------
(* The document and the index *)

TheDocument == [t |-> "map", v |-> 0]

Elements(a) == IF doc[a] \in DOMAIN Objects THEN Objects[doc[a]] ELSE {}

\* The documents a clause of the scope selects from: "root", or the attribute a lambda ranges over.
Documents(scope) == IF scope = "root" THEN {TheDocument} ELSE Elements(scope)

Held(scope, a, d) == IF scope = "root" THEN doc[a] ELSE d

\* What the index holds of a value: no null, no empty array, and an array as its elements.
Terms(x) ==
  CASE x.t = "list" -> Members[x] \ {Null}
    [] x.t \in {"undefined", "null", "map"} -> {}
    [] OTHER -> {x}

Exists(x) == Terms(x) # {}

\* A query term is coerced onto the field's mapped type before it is compared.
TermMatches(x, term) == \E held \in Terms(x) : held.v = term.v

\* Strings of at most one letter.
StartsWith(x, prefix) == prefix.v = 0 \/ x.v = prefix.v

RangeOrPrefixMatches(op, x, bound) ==
  \E held \in Terms(x) :
    IF op = "startsWith" THEN StartsWith(held, bound) ELSE Ordered(op, held.v, bound.v)

\* Each attribute holds what the caller declares: an absent one is missing, a null one is declared.
HoldsWhatIsDeclared(a) ==
  LET x == doc[a]
      o == options[a]
      Fits(m) == o.type = "undeclared" \/ m.t = o.type
  IN \/ x = Undefined
     \/ x = Null /\ o.explicitNull
     \/ o.shape = "nested" /\ x \in DOMAIN Objects
          /\ \A e \in Objects[x] : e \in {Undefined, Null} \/ Fits(e)
     \/ o.shape = "object" /\ x.t = "map"
     \/ /\ o.shape \in {"plain", "collection"} /\ x.t = "list" /\ x \notin DOMAIN Objects
        /\ \A m \in Members[x] : m = Null \/ Fits(m)
     \/ o.shape = "plain" /\ x.t \in {"num", "str", "bool"} /\ Fits(x)

\* The index loses a null inside an array, which CEL may count, compare or project.
HoldsNull ==
  \E a \in Attributes :
    \/ doc[a].t = "list" /\ Null \in Members[doc[a]]
    \/ Null \in Elements(a)

-----------------------------------------------------------------------------
(* CEL, over what the attributes hold *)

Attribute(x) == IF x = Undefined THEN Err ELSE x

StringTest(receiver, argument) ==
  IF receiver.t = "str" /\ argument.t = "str" THEN Bool(StartsWith(receiver, argument)) ELSE Err

Intersects(x, y) ==
  IF x.t = "list" /\ y.t = "list"
  THEN Bool(\E m \in Members[x], n \in Members[y] : ValuesEqual(m, n)) ELSE Err

CelOf(op, x, y) ==
  CASE op \in Comparisons -> CompareValues(op, x, y)
    [] op = "in" -> In(x, y)
    [] op = "startsWith" -> StringTest(x, y)
    [] op = "hasIntersection" -> Intersects(x, y)

SizeOf(x) ==
  CASE x \in DOMAIN Objects -> [t |-> "num", v |-> Cardinality(Objects[x])]
    [] x \notin DOMAIN Objects /\ IsCollection(x) -> [t |-> "num", v |-> Cardinality(Members[x])]
    [] x.t = "str" -> [t |-> "num", v |-> IF x.v = 0 THEN 0 ELSE 1]
    [] OTHER -> Err

\* {k1: v1, ...}[key] op x
LookedUp(lookup, key, op, x) ==
  IF \E k \in DOMAIN lookup : ValuesEqual(k, key)
  THEN CompareValues(op, lookup[CHOOSE k \in DOMAIN lookup : ValuesEqual(k, key)], x) ELSE Err

-----------------------------------------------------------------------------
(* LeafTranslator: one document field against one literal *)

\* What the translator knows of the field an attribute, or a lambda's sub-field, stands for.
Field(scope, a) ==
  LET o == options[a] IN
  IF scope = "root"
  THEN [o EXCEPT !.type = IF o.shape \in {"nested", "object"} THEN "undeclared" ELSE @]
  ELSE [mapped |-> TRUE, type |-> o.type, shape |-> "plain", explicitNull |-> FALSE]

CarriesNull(v) == v = Null \/ (v.t = "list" /\ Null \in Members[v])

\* The operator with the field on the left.
NormalizeLeafOperator(op, first) ==
  IF first THEN op
  ELSE CASE op = "lt" -> "gt" [] op = "le" -> "ge" [] op = "gt" -> "lt" [] op = "ge" -> "le"
         [] OTHER -> op

\* The other end of the range.
MirroredRange(op) ==
  CASE op = "lt" -> "gt" [] op = "le" -> "ge" [] op = "gt" -> "lt" [] op = "ge" -> "le"

NegatedRange(op) ==
  CASE op = "lt" -> "ge" [] op = "le" -> "gt" [] op = "gt" -> "le" [] op = "ge" -> "lt"

\* rejectNonScalarOperand.
NonScalarOperand(op, v, first) ==
  \/ op \in ScalarOperators /\ IsCollection(v)
  \/ op = "in" /\ first /\ v.t = "map"
  \/ op = "in" /\ ~first /\ IsCollection(v)

\* assertNoExplicitNullAttributeComparisons: a null there is a missing field here.
ExplicitNullCompared(f, op, v) == f.explicitNull /\ op \in {"eq", "ne", "in"} /\ ~CarriesNull(v)

\* nullLeafQuery: only what a present field proves.
NullLeafRefused(op, p) == ~(op = "eq" /\ ~p) /\ ~(op = "ne" /\ p)

\* Under polarity p, does the translation of the leaf throw?
LeafRefused(f, op, v, first, p) ==
  \/ ~f.mapped
  \/ ExplicitNullCompared(f, op, v)
  \/ op = "startsWith" /\ ~first
  \/ op = "in" /\ ~first /\ (f.shape = "object" \/ ~p)
  \/ NonScalarOperand(op, v, first)
  \/ v = Null /\ NullLeafRefused(op, p)
  \/ v # Null /\ f.type = "undeclared"
  \/ op = "in" /\ first /\ CarriesNull(v) /\ p
  \/ op = "hasIntersection" /\ (~p \/ CarriesNull(v))

TypeMismatch(f, op, v) ==
  op \in ScalarOperators /\ (v.t # f.type \/ (op = "startsWith" /\ f.type # "str"))

\* typedMembers and typedIntersection.
TypedMembers(f, v) == {m \in Members[v] : m.t = f.type}

AnyTermMatches(x, members) == \E m \in members : TermMatches(x, m)

\* A bool.must_not with no exists beside it.
NegatedUnguarded(x, positive) == ~positive

\* definedAndNot.
DefinedAndNot(x, positive) == Exists(x) /\ ~positive

\* Does the leaf's clause for the polarity match a document that holds x in the field?
LeafMatches(f, op, v, first, x, p) ==
  LET n == NormalizeLeafOperator(op, first) IN
  IF v = Null THEN Exists(x)
  ELSE IF TypeMismatch(f, n, v) THEN n \in Equalities /\ (n = "ne") = p /\ Exists(x)
  ELSE CASE n = "in" /\ ~first -> v.t = f.type /\ TermMatches(x, v)
         [] (n = "in" /\ first) \/ n = "hasIntersection" ->
              IF p THEN AnyTermMatches(x, TypedMembers(f, v))
              ELSE DefinedAndNot(x, AnyTermMatches(x, TypedMembers(f, v)))
         [] n \in Equalities ->
              IF (n = "eq") = p THEN TermMatches(x, v) ELSE DefinedAndNot(x, TermMatches(x, v))
         [] n \in Orderings -> RangeOrPrefixMatches(IF p THEN n ELSE NegatedRange(n), x, v)
         [] n = "startsWith" ->
              IF p THEN RangeOrPrefixMatches(n, x, v)
              ELSE DefinedAndNot(x, RangeOrPrefixMatches(n, x, v))

\* Does the plan use the value for what it is? Null and absence are at home anywhere.
SuitsOperator(op, first, x) ==
  \/ x \in {Undefined, Null}
  \/ op = "hasIntersection" /\ x.t = "list"
  \/ op = "in" /\ ~first /\ IsCollection(x)
  \/ op \in ScalarOperators \union {"in"} /\ first /\ ~IsCollection(x)
  \/ op \in ScalarOperators /\ ~first /\ ~IsCollection(x)

-----------------------------------------------------------------------------
(* The record of a condition: per polarity, is its clause refused and which documents match *)

Condition(scope, val, Refuses(_), Matches(_, _)) ==
  [scope |-> scope,
   val |-> [d \in Documents(scope) |-> val[d]],
   refused |-> [p \in BOOLEAN |-> Refuses(p)],
   match |-> [p \in BOOLEAN |-> {d \in Documents(scope) : ~Refuses(p) /\ Matches(d, p)}]]

Nothing(d, p) == FALSE

LeafCondition(scope, a, op, v, first) ==
  LET f == Field(scope, a)
      X(d) == Attribute(Held(scope, a, d))
      Refuses(p) == LeafRefused(f, op, v, first, p)
      Matches(d, p) == LeafMatches(f, op, v, first, Held(scope, a, d), p)
  IN Condition(scope,
       [d \in Documents(scope) |-> IF first THEN CelOf(op, X(d), v) ELSE CelOf(op, v, X(d))],
       Refuses, Matches)

\* A bare variable is an eq with the polarity, and asks for no declared type.
VariableCondition(scope, a) ==
  LET Refuses(p) == ~Field(scope, a).mapped
      Matches(d, p) == TermMatches(Held(scope, a, d), Bool(p))
  IN Condition(scope, [d \in Documents(scope) |-> Attribute(Held(scope, a, d))], Refuses, Matches)

\* mapLiteralLookup: a membership of the key in the keys that decide, positive either way.
LookupCondition(scope, a, lookup, op, x) ==
  LET f == Field(scope, a)
      Keys(p) == {k \in DOMAIN lookup :
                    k.t = f.type /\ ValuesEqual(lookup[k], x) = ((op = "eq") = p)}
      Refuses(p) == ~f.mapped \/ op \notin Equalities \/ IsCollection(x) \/ f.type = "undeclared"
      Matches(d, p) == AnyTermMatches(Held(scope, a, d), Keys(p))
  IN Condition(scope,
       [d \in Documents(scope) |-> LookedUp(lookup, Attribute(Held(scope, a, d)), op, x)],
       Refuses, Matches)

-----------------------------------------------------------------------------
(* SizeTranslator and CollectionTranslator *)

NonEmptyTests == {<<"gt", 0>>, <<"ge", 1>>, <<"ne", 0>>}
EmptyTests == {<<"eq", 0>>, <<"le", 0>>, <<"lt", 1>>}

\* The presence query: nested with match_all, or exists.
CollectionPresent(a) == IF options[a].shape = "nested" THEN Elements(a) # {} ELSE Exists(doc[a])

\* Only the polarity that proves the collection non-empty has a clause.
SizeCondition(a, op, n, first) ==
  LET test == <<NormalizeLeafOperator(op, first), n>>
      count == [t |-> "num", v |-> n]
      Refuses(p) ==
        \/ ~options[a].mapped \/ options[a].shape \notin {"nested", "collection"}
        \/ test \notin IF p THEN NonEmptyTests ELSE EmptyTests
      Matches(d, p) == CollectionPresent(a)
      size == SizeOf(Attribute(doc[a]))
  IN Condition("root",
       [d \in Documents("root") |->
          IF first THEN CompareValues(op, size, count) ELSE CompareValues(op, count, size)],
       Refuses, Matches)

\* flatScalarExistsEquality: exists(x, x == v) over a flat array.
FlatExistsCondition(a, v) ==
  LET o == options[a]
      Refuses(p) ==
        ~p \/ ~o.mapped \/ o.shape # "collection"
           \/ LeafRefused([o EXCEPT !.explicitNull = FALSE], "eq", v, TRUE, TRUE)
      Matches(d, p) == LeafMatches(o, "eq", v, TRUE, doc[a], TRUE)
  IN Condition("root",
       [d \in Documents("root") |->
          IF doc[a].t = "list" THEN Bool(\E m \in Members[doc[a]] : ValuesEqual(m, v)) ELSE Err],
       Refuses, Matches)

\* hasIntersection(c.map(t, t.f), list), and `v in c.map(t, t.f)`, which becomes it.
ProjectionCondition(a, members) ==
  LET o == options[a]
      Refuses(p) == ~p \/ ~o.mapped \/ o.shape # "nested" \/ CarriesNull(members)
                       \/ o.type = "undeclared"
      Matches(d, p) ==
        /\ \E e \in Elements(a) : AnyTermMatches(e, TypedMembers(o, members))
        /\ \A e \in Elements(a) : Exists(e)
      projected == Elements(a)
  IN Condition("root",
       [d \in Documents("root") |->
          IF doc[a] \notin DOMAIN Objects \/ Undefined \in projected THEN Err
          ELSE Bool(\E e \in projected, m \in Members[members] : ValuesEqual(e, m))],
       Refuses, Matches)

\* The inner query handed on without the nested clause around it.
MacroUnnested(op, a, body) ==
  [scope |-> "root",
   val |-> [d \in Documents("root") |->
     IF doc[a] \in DOMAIN Objects THEN Junction(op = "exists", {body.val[e] : e \in Elements(a)})
     ELSE Err],
   refused |-> [p \in BOOLEAN |->
     ~options[a].mapped \/ options[a].shape # "nested" \/ (op = "exists") # p \/ body.refused[p]],
   match |-> body.match]

\* exists and all over a nested array: one element whose body has the polarity decides, so a positive
\* all and a negated exists, which every element decides, are refused.
MacroCondition(op, a, body) ==
  LET Refuses(p) ==
        ~options[a].mapped \/ options[a].shape # "nested" \/ (op = "exists") # p \/ body.refused[p]
      Matches(d, p) == \E e \in Elements(a) : e \in body.match[p]
  IN Condition("root",
       [d \in Documents("root") |->
          IF doc[a] \in DOMAIN Objects THEN Junction(op = "exists", {body.val[e] : e \in Elements(a)})
          ELSE Err],
       Refuses, Matches)

\* exists and all over a literal list or one built from fields: the bodies, already substituted, are
\* joined, and every field element has to be there.
FoldCondition(op, args, fields) ==
  LET Refuses(p) ==
        \/ \E i \in DOMAIN args : args[i].refused[p]
        \/ \E a \in fields : ~options[a].mapped \/ Field("root", a).type = "undeclared"
                               \/ options[a].explicitNull
      Matches(d, p) ==
        /\ \A a \in fields : Exists(doc[a])
        /\ IF (op = "all") = p THEN \A i \in DOMAIN args : d \in args[i].match[p]
           ELSE \E i \in DOMAIN args : d \in args[i].match[p]
  IN Condition("root",
       [d \in Documents("root") |->
          IF \E a \in fields : doc[a] = Undefined THEN Err
          ELSE Junction(op = "exists", {args[i].val[d] : i \in DOMAIN args})],
       Refuses, Matches)

-----------------------------------------------------------------------------
(* PlanWalker *)

\* De Morgan: and proven true, or proven false, needs every operand.
JunctionCondition(op, args) ==
  LET scope == args[1].scope
      Refuses(p) == \E i \in DOMAIN args : args[i].refused[p]
      Matches(d, p) ==
        IF (op = "and") = p THEN \A i \in DOMAIN args : d \in args[i].match[p]
        ELSE \E i \in DOMAIN args : d \in args[i].match[p]
  IN Condition(scope,
       [d \in Documents(scope) |-> Junction(op = "or", {args[i].val[d] : i \in DOMAIN args})],
       Refuses, Matches)

NotCondition(arg) ==
  LET Refuses(p) == arg.refused[~p]
      Matches(d, p) == d \in arg.match[~p]
  IN Condition(arg.scope, [d \in Documents(arg.scope) |-> Not(arg.val[d])], Refuses, Matches)

\* Whatever no query expresses: a ternary, except, exists_one, a constant, a computed operand, two
\* fields, a variable of another scope.
RefusedCondition(scope, val) ==
  LET Refuses(p) == TRUE IN Condition(scope, val, Refuses, Nothing)

-----------------------------------------------------------------------------
(* Behaviour *)

Init ==
  /\ doc \in [Attributes -> DocValues]
  /\ options \in [Attributes -> Declarations]
  /\ \A a \in Attributes : HoldsWhatIsDeclared(a)
  /\ stack = <<>>
  /\ nodes = 0
  /\ phase = "reading"
  /\ root = RefusedCondition("root", [d \in Documents("root") |-> Err])
  /\ returned = FALSE

\* May a node be read above so many conditions? Only where the plan can still be completed.
Room(under) ==
  /\ phase = "reading"
  /\ nodes < MaxNodes
  /\ under <= (MaxNodes - nodes - 1) * (MaxWidth - 1)

Read(rest, condition) ==
  /\ Room(Len(rest))
  /\ nodes' = nodes + 1
  /\ stack' = Append(rest, condition)
  /\ UNCHANGED <<config, phase, root, returned>>

\* A condition is read in the root scope, or in that of a lambda over a nested array.
Scopes(a) == {"root"} \union IF options[a].shape = "nested" THEN {a} ELSE {}

ReadLeaf ==
  /\ Room(Len(stack))
  /\ \E a \in Attributes, op \in LeafOperators, v \in Literals, first \in BOOLEAN :
       \E scope \in Scopes(a) :
         /\ op = "in" /\ first => IsCollection(v)
         /\ op = "hasIntersection" => v.t = "list" /\ scope = "root"
         /\ MisusedShapes \/ \A d \in Documents(scope) : SuitsOperator(op, first, Held(scope, a, d))
         /\ Read(stack, LeafCondition(scope, a, op, v, first))

ReadVariable ==
  /\ Room(Len(stack))
  /\ \E a \in Attributes : \E scope \in Scopes(a) :
       /\ \A d \in Documents(scope) : Held(scope, a, d).t \in {"undefined", "null", "bool"}
       /\ Read(stack, VariableCondition(scope, a))

ReadLookup ==
  /\ Room(Len(stack))
  /\ \E a \in Attributes, lookup \in Lookups, op \in Comparisons, x \in Literals :
       \E scope \in Scopes(a) :
         /\ MisusedShapes \/ \A d \in Documents(scope) : SuitsOperator("eq", TRUE, Held(scope, a, d))
         /\ Read(stack, LookupCondition(scope, a, lookup, op, x))

ReadSize ==
  /\ Room(Len(stack))
  /\ \E a \in Attributes, op \in Comparisons, n \in 0 .. 2, first \in BOOLEAN :
       Read(stack, SizeCondition(a, op, n, first))

ReadFlatExists ==
  /\ Room(Len(stack))
  /\ \E a \in Attributes, v \in Literals :
       /\ MisusedShapes \/ doc[a] \notin DOMAIN Objects
       /\ Read(stack, FlatExistsCondition(a, v))

ReadProjection ==
  /\ Room(Len(stack))
  /\ \E a \in Attributes, v \in Literals :
       v.t = "list" /\ Read(stack, ProjectionCondition(a, v))

ReadRefused ==
  /\ Room(Len(stack))
  /\ \E a \in Attributes : \E scope \in Scopes(a) :
       \E val \in [Documents(scope) -> {True, False, Err}] : Read(stack, RefusedCondition(scope, val))

\* The last n conditions on the stack, and what is under them.
Top(n) == SubSeq(stack, Len(stack) - n + 1, Len(stack))
Under(n) == SubSeq(stack, 1, Len(stack) - n)

ReadJunction ==
  \E op \in {"and", "or"}, n \in 1 .. MaxWidth :
    /\ n <= Len(stack)
    /\ \A i \in 1 .. n : Top(n)[i].scope = Top(n)[1].scope
    /\ Read(Under(n), JunctionCondition(op, Top(n)))

ReadNot == stack # <<>> /\ Read(Under(1), NotCondition(Top(1)[1]))

ReadMacro ==
  \E op \in {"exists", "all"}, a \in Attributes :
    /\ stack # <<>> /\ Top(1)[1].scope = a
    /\ Read(Under(1), MacroCondition(op, a, Top(1)[1]))

ReadFold ==
  \E op \in {"exists", "all"}, n \in 0 .. MaxWidth, fields \in SUBSET Attributes :
    /\ n <= Len(stack) /\ Cardinality(fields) <= n
    /\ \A i \in 1 .. n : Top(n)[i].scope = "root"
    /\ MisusedShapes \/ \A a \in fields : ~IsCollection(doc[a])
    /\ Read(Under(n), FoldCondition(op, Top(n), fields))

\* translateCondition: the condition has to be proven true.
Translate ==
  /\ phase = "reading" /\ Len(stack) = 1 /\ stack[1].scope = "root"
  /\ root' = stack[1]
  /\ phase' = IF stack[1].refused[TRUE] THEN "refused" ELSE "translated"
  /\ stack' = <<>>
  /\ UNCHANGED <<config, nodes, returned>>

\* AlwaysAllowed, AlwaysDenied, or a kind the adapter does not know.
TranslateUnconditional ==
  /\ phase = "reading" /\ nodes = 0
  /\ \E kind \in {"allowed", "denied", "unknown"} :
       LET Refuses(p) == kind = "unknown"
           Matches(d, p) == (kind = "allowed") = p
       IN /\ root' = Condition("root", [d \in Documents("root") |-> Bool(kind = "allowed")],
                               Refuses, Matches)
          /\ phase' = IF kind = "unknown" THEN "refused" ELSE "translated"
  /\ UNCHANGED <<config, stack, nodes, returned>>

\* The README's caller with match_all in place of a search it was to skip.
SearchAnyway ==
  /\ phase = "translated"
  /\ phase' = "answered"
  /\ returned' = (TheDocument \in root.match[TRUE] \/ nodes = 0)
  /\ UNCHANGED <<config, stack, nodes, root>>

\* The clause in a filter context; for AlwaysDenied the search is skipped.
Search ==
  /\ phase = "translated"
  /\ phase' = "answered"
  /\ returned' = (TheDocument \in root.match[TRUE])
  /\ UNCHANGED <<config, stack, nodes, root>>

Next ==
  \/ ReadLeaf \/ ReadVariable \/ ReadLookup \/ ReadSize \/ ReadFlatExists \/ ReadProjection
  \/ ReadRefused \/ ReadJunction \/ ReadNot \/ ReadMacro \/ ReadFold
  \/ Translate \/ TranslateUnconditional \/ Search

Spec == Init /\ [][Next]_vars

-----------------------------------------------------------------------------
(* Properties *)

WellTyped(c) ==
  /\ c.scope \in {"root"} \union Attributes
  /\ c.val \in [Documents(c.scope) -> CelValue]
  /\ c.refused \in [BOOLEAN -> BOOLEAN]
  /\ c.match \in [BOOLEAN -> SUBSET Documents(c.scope)]

\* Type correctness: a clause matches documents of its own scope only, so what a nested query selects
\* never leaves it.
TypeOK ==
  /\ doc \in [Attributes -> DocValues]
  /\ options \in [Attributes -> Declarations]
  /\ \A i \in DOMAIN stack : WellTyped(stack[i])
  /\ nodes \in 0 .. MaxNodes
  /\ phase \in {"reading", "refused", "translated", "answered"}
  /\ WellTyped(root)
  /\ returned \in BOOLEAN

\* Polarity.java: a clause matches only documents on which the condition has the polarity it was
\* asked for. No missing field, null, empty array or coerced term proves anything, true or false.
Proves(c, p) == \A d \in c.match[p] : c.val[d] = Bool(p)
MatchesAreProven == \A i \in DOMAIN stack : \A p \in BOOLEAN : Proves(stack[i], p)

\* A clause that is not refused finds every document on which the condition has its polarity, save
\* those with a null inside an array, as the README says of size().
Finds(c, p) == \A d \in Documents(c.scope) : c.val[d] = Bool(p) => d \in c.match[p]
OnlyNullsAreLost ==
  \A i \in DOMAIN stack : \A p \in BOOLEAN :
    ~stack[i].refused[p] /\ ~HoldsNull => Finds(stack[i], p)

Verdict == root.val[TheDocument]

Outcome ==
  CASE phase = "reading" -> "pending" [] phase = "refused" -> "refused"
    [] phase = "translated" -> "translated" [] phase = "answered" -> "answered"

VerdictName ==
  IF phase = "reading" THEN "unknown"
  ELSE IF Verdict = True THEN "allow" ELSE IF Verdict = False THEN "deny" ELSE "error"

Contract ==
  INSTANCE AdapterContract WITH outcome <- Outcome, verdict <- VerdictName, lossy <- HoldsNull

\* The adapter implements the contract, losing at most documents with a null inside an array.
ImplementsContract == Contract!Spec
=============================================================================
