--------------------------- MODULE PrismaAdapter ---------------------------
(***************************************************************************)
(* The Prisma adapter: queryPlanToPrisma (prisma/src/index.ts) settles the *)
(* comparisons the mapped types decide (types.ts), folds the constants     *)
(* that leaves (rewrite.ts) and builds a where filter (translate.ts,       *)
(* fields.ts, comparison.ts, ternary.ts), relations being reached with is, *)
(* some, every and none (relations.ts, collections.ts).                    *)
(*                                                                         *)
(* The filter runs as SQL, whose UNKNOWN is CEL's error here, but a test   *)
(* over related rows is never UNKNOWN. A negation is pushed inward, so the *)
(* form of a node holds two filters: yes for the node, no for its negation.*)
(*                                                                         *)
(* The plan is read in postfix order. A node is evaluated at the root, or  *)
(* at each row of the collection its lambda will range over, and has one   *)
(* form per polarity it may be settled under. A leaf reads an attribute of *)
(* its own. A number is the integer that is twice its value.               *)
(***************************************************************************)
EXTENDS CelPlans

CONSTANTS
  RootColumns,     \* the mapper entries of the attributes explored
  RowColumns,      \* those of the fields of a related row
  Cells,           \* what a column may hold, Null included
  Literals,        \* constants of the plan, lists included
  Operators,       \* the plan operators explored
  Admitted,        \* the shapes of Disagreements a plan may hold
  MaxLeaves,       \* bound on the leaves of a plan
  MaxNodes         \* bound on its nodes

Root == 0
Rows == {1, 2}     \* the rows a collection may hold

\* A column, the rows' projected column, or the bare variable of a lambda over that projection.
\* hop: reached through nothing, a to-one relation, or a parent mapped as a to-many relation.
\* binding: what the client makes of a fraction it sends to an integer column.
Column ==
  [shape : {"scalar", "list", "element"}, hop : {"none", "one", "many"},
   type : {"int", "float", "str", "bool"}, declared : BOOLEAN, required : BOOLEAN,
   nulls : {"undeclared", "explicit", "omitted"}, binding : {"floor", "truncate"}]

Junctions == {"and", "or"}
Macros == {"exists", "all", "mapped", "inFilter"}
Tests == {"bare", "compare", "in", "member", "intersects", "startsWith", "size", "pair"}
AllOperators == Junctions \union Macros \union Tests \union Comparisons \union {"not", "if", "ifCompare"}

\* ternaryMacro: a negated conditional over a macro, whose errors a relation filter forgets.
\* explicitHop: != on an explicit null behind a to-one relation, true of a row with no parent.
\* elementError: an ordering, a truth test or a size of a null element, which records no guard.
\* coerced: a fraction bound to an integer column by an equality that has no bracket.
\* foldedChain: a leaf over an absent parent's collection, settled to a constant.
\* filteredError: x in c.filter(v, P), where the types settle v = x or P, whose error is absorbed.
\* explicitPair: == of two explicit nulls, in columns whose types differ, settled to a constant.
\* explicitPresence: a comparison of an explicit boolean behind a to-one relation that the types settle:
\* the presence of the boolean is false of its NULL, and not UNKNOWN.
Disagreements ==
  {"ternaryMacro", "explicitHop", "elementError", "coerced", "foldedChain", "filteredError", "explicitPair",
   "explicitPresence"}

ASSUME ColumnsAssumption ==
  /\ RootColumns \union RowColumns \subseteq Column
  /\ \A m \in RootColumns : m.shape # "element" /\ (m.shape = "scalar" => m.hop # "many")
  /\ \A m \in RowColumns : m.shape # "list" /\ m.hop = "none"
ASSUME LiteralsAssumption ==
  /\ Cells \subseteq {x \in Value : x.t \in {"null", "num", "str", "bool"}}
  /\ Literals \subseteq {x \in Value : x.t \in {"null", "num", "str", "bool", "list"}}
  /\ \A l \in Literals : l.t = "list" => Members[l] # {}
\* JSON has one type of number; what is left of a list when the members of other types are dropped
\* has a name.
ASSUME ListsAssumption ==
  \A l \in DOMAIN Members :
    /\ \A v \in Members[l] : v.t # "int64"
    /\ \A type \in {"num", "str", "bool"} : l.t = "list" =>
         \E k \in DOMAIN Members : k.t = "list" /\ Members[k] = {v \in Members[l] : v = Null \/ v.t = type}
ASSUME BoundsAssumption ==
  /\ Operators \subseteq AllOperators
  /\ Admitted \subseteq Disagreements
  /\ MaxLeaves \in Nat /\ MaxNodes \in Nat

VARIABLES
  option,     \* nullAttributeRepresentation of the call
  stack,      \* operands read and not yet consumed
  leaves,     \* leaves read so far, the branches of a compared conditional as one
  nodes,      \* plan nodes read so far
  phase,      \* where the call stands
  root,       \* what CEL says of the condition
  matched,    \* does the filter match the row?
  returned    \* is it in the caller's hands?

vars == <<option, stack, leaves, nodes, phase, root, matched, returned>>

Options == {"explicit", "omitted"}

-----------------------------------------------------------------------------
(* Columns *)

Family(type) == IF type \in {"int", "float"} THEN "num" ELSE type

\* resolveFieldReference, and enterLambdaScope for the bare variable of a projected list: a null
\* there is a value whatever the call says.
Field(m, nulls) ==
  [shape |-> m.shape, hop |-> m.hop, type |-> m.type, required |-> m.required, binding |-> m.binding,
   known |-> IF m.declared THEN Family(m.type) ELSE "none",
   explicit |-> m.nulls = "explicit" \/ m.shape = "element",
   omitted |-> /\ m.shape # "element"
               /\ m.nulls = "omitted" \/ (m.nulls = "undeclared" /\ nulls = "omitted")]

OfType(m, x) ==
  /\ x.t = Family(m.type) \/ (x = Null /\ ~m.required)
  /\ m.type = "int" => x.v % 2 = 0

\* What the database holds: Undefined behind an absent hop.
Stored(m) ==
  {x \in Cells : m.shape # "list" /\ OfType(m, x)}
    \union {l \in DOMAIN Members : m.shape = "list" /\ l.t = "list" /\ \A x \in Members[l] : OfType(m, x)}
    \union {x \in {Undefined} : m.hop # "none"}

\* What the application sent to check() for it. A list holds its nulls as values.
Sent(c, x) == IF x = Undefined \/ (x = Null /\ c.omitted) THEN Err ELSE x

\* mayBeMissing
MayBeMissing(c) == c.hop = "one" \/ (~c.explicit /\ ~c.required)

-----------------------------------------------------------------------------
(* Filters *)

Unknown == Err
And(S) == Junction(FALSE, S)
Or(S) == Junction(TRUE, S)

Filter(is, odd) == [refused |-> FALSE, is |-> is, odd |-> odd]
Refusal == [refused |-> TRUE, is |-> <<>>, odd |-> {}]
Unless(refused, filter) == IF refused THEN Refusal ELSE filter

Join(op, f, g) ==
  Unless(f.refused \/ g.refused,
    Filter([e \in DOMAIN f.is |-> Junction(op = "or", {f.is[e], g.is[e]})], f.odd \union g.odd))

Negate(f) == Unless(f.refused, Filter([e \in DOMAIN f.is |-> Not(f.is[e])], f.odd))

\* A form: the constant it folds to, or the two filters built for it, with the hops it reads, and
\* where it reads NULL in a column whose reading was recorded for the enclosing macro.
Form(const, present, nulls, yes) ==
  [const |-> const, macro |-> FALSE, hopped |-> FALSE, present |-> present, nulls |-> nulls,
   yes |-> yes, no |-> yes]

Constant(envs, b, odd) ==
  LET form == Form(b, [e \in envs |-> TRUE], [e \in envs |-> FALSE], Filter([e \in envs |-> b], odd))
  IN [form EXCEPT !.no = Negate(@)]

\* A negation that forgets its hops.
NegateBare(form) == [form EXCEPT !.no = Negate(form.yes)]

\* negateRequiringHops
RequiringHops(form, filter) ==
  IF ~form.hopped THEN filter
  ELSE Join("and", Filter([e \in DOMAIN form.present |-> Bool(form.present[e])], {}), filter)

NegateRequiringHops(form) == [form EXCEPT !.no = RequiringHops(form, Negate(form.yes))]

\* A negation of a negation is the form below both.
NotForm(f) ==
  [f EXCEPT !.const = IF f.const = Undefined THEN Undefined ELSE Not(f.const), !.yes = f.no, !.no = f.yes]

\* What several operands read, before anything is built of them.
Combined(fs, yes) ==
  LET envs == DOMAIN (CHOOSE f \in fs : TRUE).present IN
  [const |-> Undefined, macro |-> \E f \in fs : f.macro, hopped |-> \E f \in fs : f.hopped,
   present |-> [e \in envs |-> \A f \in fs : f.present[e]],
   nulls |-> [e \in envs |-> \E f \in fs : f.nulls[e]],
   yes |-> yes, no |-> yes]

Dual(op) == IF op = "or" THEN "and" ELSE "or"

\* buildNegatedFilter goes through and/or wherever a branch may be UNKNOWN out of its own filter.
BuildJunction(op, f, g) ==
  LET form == Combined({f, g}, Join(op, f.yes, g.yes))
  IN [form EXCEPT !.no = IF form.macro \/ form.hopped THEN Join(Dual(op), f.no, g.no) ELSE Negate(@)]

Odd(form, odd) == [form EXCEPT !.yes.odd = @ \union odd, !.no.odd = @ \union odd]
Sharing(f, g) == Odd(f, g.yes.odd \union g.no.odd)

\* foldLogical: a dominating constant decides, another drops out.
JunctionForm(op, f, g) ==
  LET dominant == Bool(op = "or")
  IN IF f.const = dominant THEN f
     ELSE IF g.const = dominant THEN g
     ELSE IF f.const # Undefined THEN Sharing(g, f)
     ELSE IF g.const # Undefined THEN Sharing(f, g)
     ELSE BuildJunction(op, f, g)

-----------------------------------------------------------------------------
(* The predicates on one column *)

SqlCompare(op, a, b) == IF Null \in {a, b} THEN Unknown ELSE CompareValues(op, a, b)

IsFraction(x) == x.t = "num" /\ x.v % 2 = 1
Below(x) == [x EXCEPT !.v = @ - (@ % 2)]
Above(x) == [x EXCEPT !.v = @ + (@ % 2)]

\* The client converts a filter's value to the type of the column.
Bound(c, lit) ==
  IF ~(c.type = "int" /\ IsFraction(lit)) THEN lit
  ELSE IF c.binding = "floor" \/ lit.v > 0 THEN Below(lit) ELSE Above(lit)

\* The fraction alone.
FractionalBracketUnpaired(c, op, x, lit) == SqlCompare(op, x, Bound(c, lit))

\* fractionalBracket: the constant paired with its integer neighbours.
FractionalBracket(c, op, x, lit) ==
  LET bound(cmp) == SqlCompare(cmp, x, Bound(c, lit))
      equals == And({bound("eq"), SqlCompare("gt", x, Below(lit)), SqlCompare("lt", x, Above(lit))})
  IN CASE op = "gt" -> Or({bound("gt"), SqlCompare("ge", x, Above(lit))})
       [] op = "ge" -> And({bound("ge"), SqlCompare("gt", x, Below(lit))})
       [] op = "lt" -> Or({bound("lt"), SqlCompare("le", x, Below(lit))})
       [] op = "le" -> And({bound("le"), SqlCompare("lt", x, Above(lit))})
       [] op = "eq" -> equals
       [] OTHER -> Not(equals)

\* The values a filter on a column meets.
Held(x) == IF x = Undefined THEN {} ELSE IF x.t = "list" THEN Members[x] ELSE {x}

\* wrapInRelations: a to-one hop is met with `is`, which keeps UNKNOWN; rows with `some`, which
\* has none; and the absence of a parent is false.
Reached(x, is) ==
  CASE x = Undefined -> False
    [] x.t = "list" -> Bool(\E m \in Members[x] : is[m] = True)
    [] OTHER -> is[x]

\* guardedFieldFilter
Guarded(x, is) == IF x = Null THEN False ELSE is

\* buildComparisonFilter
CompareCell(c, op, x, lit) ==
  LET equals == [y \in Held(x) |-> Guarded(y, SqlCompare("eq", y, Bound(c, lit)))]
      plain == [y \in Held(x) |->
                 IF lit = Null THEN Bool((op = "eq") = (y = Null))
                 ELSE IF IsFraction(lit) THEN FractionalBracket(c, op, y, lit)
                 ELSE SqlCompare(op, y, lit)]
  IN IF c.explicit /\ lit # Null /\ op \in Equalities
     THEN IF op = "eq" THEN Reached(x, equals) ELSE Not(Reached(x, equals))
     ELSE Reached(x, plain)

\* buildMembershipFilter
MembershipCell(c, x, values) ==
  LET leaf == [y \in Held(x) |->
                IF y = Null THEN Unknown
                ELSE Bool(\E m \in values \ {Null} : SqlCompare("eq", y, Bound(c, m)) = True)]
      guarded == [y \in Held(x) |-> Guarded(y, leaf[y])]
      isNull == [y \in Held(x) |-> Bool(y = Null)]
  IN CASE Null \notin values -> IF c.explicit THEN Reached(x, guarded) ELSE Reached(x, leaf)
       [] values = {Null} -> Reached(x, isNull)
       [] OTHER -> Or({Reached(x, leaf), Reached(x, isNull)})

\* countPredicate: a threshold on a size, which is a natural number.
CountPredicate(op, n) ==
  LET atLeast(count, negated) ==
        [kind |-> "atLeast", count |-> IF count < 0 THEN 0 ELSE count, negated |-> negated]
      floor == n \div 2
      ceil == (n + 1) \div 2
  IN CASE op = "gt" -> atLeast(floor + 1, FALSE)
       [] op = "ge" -> atLeast(ceil, FALSE)
       [] op = "lt" -> atLeast(ceil, TRUE)
       [] op = "le" -> atLeast(floor + 1, TRUE)
       [] OTHER -> IF n % 2 = 0 /\ n >= 0
                   THEN [kind |-> "exactly", count |-> floor, negated |-> op = "ne"]
                   ELSE atLeast(0, op = "eq")

\* buildStringLengthFilter, with LIKE patterns.
LengthCell(p, x) ==
  IF x = Null THEN Unknown
  ELSE Bool((IF p.kind = "atLeast" THEN x.v >= p.count ELSE x.v = p.count) # p.negated)

\* handleSizeComparison: whether a chain can be followed, or what it leads to is empty, is all a
\* relation filter counts.
Followed(c, p) == p = [kind |-> "atLeast", count |-> 0, negated |-> FALSE] /\ c.hop # "none"
NonEmpty(p) ==
  p \in {[kind |-> "atLeast", count |-> 1, negated |-> FALSE], [kind |-> "exactly", count |-> 0, negated |-> TRUE]}
Empty(p) ==
  p \in {[kind |-> "atLeast", count |-> 1, negated |-> TRUE], [kind |-> "exactly", count |-> 0, negated |-> FALSE]}

SizeCell(c, x, p) ==
  IF c.shape # "list" THEN LengthCell(p, x)
  ELSE Bool(x # Undefined /\ (Followed(c, p) \/ (Members[x] # {}) = NonEmpty(p)))

-----------------------------------------------------------------------------
(* A leaf: a test, its comparison and its constant *)

ValuesOf(l) == IF l.test = "member" THEN {l.lit} ELSE Members[l.lit]

Membership == {"in", "member", "intersects"}

Mistyped(type, v) == v # Null /\ v.t # type

\* assertNullOperandTranslatable; and a required column cannot be compared with null.
NullRefused(c) == c.omitted \/ c.required

\* assertScalarValue, assertStringField, and what the client's own validation rejects.
Refuses(c, l) ==
  CASE l.test = "bare" -> c.type # "bool"
    [] l.test = "compare" ->
         IF l.lit = Null THEN NullRefused(c) \/ l.op \in Orderings ELSE Mistyped(Family(c.type), l.lit)
    [] l.test \in Membership ->
         \E v \in ValuesOf(l) : IF v = Null THEN NullRefused(c) ELSE Mistyped(Family(c.type), v)
    [] l.test = "startsWith" -> c.type # "str" \/ l.lit.t # "str"
    [] OTHER ->
         LET p == CountPredicate(l.op, l.lit.v) IN
         IF c.shape = "list" THEN ~(Followed(c, p) \/ NonEmpty(p) \/ Empty(p))
         ELSE c.known # "str" \/ c.hop # "none"

\* What the filter says of the column as it is stored.
TestCell(c, l, x) ==
  LET isTrue == [y \in Held(x) |-> SqlCompare("eq", y, True)]
      startsWith == [y \in Held(x) |-> IF y = Null THEN Unknown ELSE StartsWith(y, l.lit)]
  IN CASE l.test = "bare" -> Reached(x, isTrue)
       [] l.test = "compare" -> CompareCell(c, l.op, x, l.lit)
       [] l.test \in Membership -> MembershipCell(c, x, ValuesOf(l))
       [] l.test = "startsWith" -> Reached(x, startsWith)
       [] OTHER -> SizeCell(c, x, CountPredicate(l.op, l.lit.v))

ShapesOf(c, l) ==
  LET values == IF l.test \in Membership THEN ValuesOf(l) ELSE {l.lit}
  IN {s \in Disagreements :
        \/ s = "explicitHop" /\ l.test = "compare" /\ l.op = "ne" /\ c.explicit /\ l.lit # Null /\ c.hop = "one"
        \/ s = "elementError" /\ c.shape = "element" /\ ~c.required
             /\ (l.test \in {"bare", "size"} \/ (l.test = "compare" /\ l.op \in Orderings))
        \/ s = "coerced" /\ c.type = "int" /\ (\E v \in values : IsFraction(v))
             /\ (l.test \in Membership \/ (l.test = "compare" /\ c.explicit /\ l.op \in Equalities))}

\* recordNullableElementField, and recordErroringNullElement for the bare variable.
Recorded(c, l) == ~c.required /\ (c.shape = "scalar" \/ l.test = "startsWith")

ColumnForm(c, xs, recorded, yes) ==
  NegateRequiringHops(
    [Form(Undefined, [e \in DOMAIN xs |-> xs[e] # Undefined],
          [e \in DOMAIN xs |-> recorded /\ xs[e] = Null], yes) EXCEPT !.hopped = c.hop # "none"])

\* What buildPrismaFilter and buildNegatedFilter make of the leaf.
Emitted(c, l, xs) ==
  ColumnForm(c, xs, Recorded(c, l),
    Unless(Refuses(c, l), Filter([e \in DOMAIN xs |-> TestCell(c, l, xs[e])], ShapesOf(c, l))))

\* The column in place of the test that it is there.
PresenceItself(c, xs) == ColumnForm(c, xs, ~c.required, Filter(xs, {}))

\* presence: true of a value, UNKNOWN of a NULL; but a boolean is spelled as `== true || == false`,
\* and an equality of a column sent as an explicit null is guarded.
Presence(c, xs) ==
  LET absent == IF c.explicit /\ c.known = "bool" THEN False ELSE Unknown
      present(x) == Reached(x, [y \in Held(x) |-> IF y = Null THEN absent ELSE True])
      odd == {s \in {"explicitPresence"} : c.explicit /\ c.known = "bool" /\ ~c.required}
  IN ColumnForm(c, xs, ~c.required, Filter([e \in DOMAIN xs |-> present(xs[e])], odd))

-----------------------------------------------------------------------------
(* settleTypeMismatches, on a leaf *)

Polarities == {"positive", "negative", "unfixed"}

\* leafOutcomes: the values the leaf can take, and the test for its missing columns.
Outcomes(values, error, test) == [values |-> values, error |-> error, test |-> test]
Open == Outcomes(BOOLEAN, TRUE, "none")

\* definite
Definite(b, missing) == Outcomes({b}, missing, "missing")

\* omittedNullComparison
OmittedNullComparison(c, op) ==
  Outcomes({op = "ne"}, TRUE,
    IF c.known = "none" THEN "none" ELSE IF c.hop = "one" THEN "reached" ELSE "missing")

LeafOutcomes(c, l) ==
  LET noOverload == Outcomes({}, TRUE, "none") IN
  IF l.test = "compare" /\ l.op \in Equalities /\ l.lit = Null /\ c.omitted
  THEN OmittedNullComparison(c, l.op)
  ELSE IF l.test = "startsWith"
       THEN IF l.lit.t \notin {"str", "null"} \/ c.known \notin {"str", "none"} THEN noOverload ELSE Open
  ELSE IF c.known = "none" THEN Open
  ELSE IF l.test = "compare" /\ Mistyped(c.known, l.lit)
       THEN IF l.op \in Orderings THEN noOverload ELSE Definite(l.op = "ne", MayBeMissing(c))
  ELSE IF l.test = "size" /\ c.shape # "list" /\ c.known # "str" THEN noOverload
  ELSE IF l.test \in Membership /\ \A v \in ValuesOf(l) : Mistyped(c.known, v)
       THEN IF l.test = "in" THEN Definite(FALSE, MayBeMissing(c))
            ELSE Outcomes({FALSE}, c.hop = "one", "none")
  ELSE Open

\* pruneLiteralList: an element no value of the column can equal decides nothing.
Pruned(c, l) ==
  IF l.test \notin {"in", "intersects"} \/ c.known = "none" THEN l
  ELSE LET kept == {v \in Members[l.lit] : ~Mistyped(c.known, v)}
       IN IF kept = {} THEN l ELSE [l EXCEPT !.lit = ListOf(kept)]

\* The constant, or the presence test, that decides the same rows under the polarity.
Settled(polarity, o, envs, present, odd, emitted) ==
  IF polarity = "unfixed" THEN emitted
  ELSE IF o.test = "missing"
       THEN IF ~o.error THEN Constant(envs, Bool(TRUE \in o.values), odd)
            ELSE IF TRUE \in o.values THEN present ELSE NotForm(present)
  ELSE IF polarity = "positive" /\ TRUE \notin o.values THEN Constant(envs, False, odd)
  ELSE IF polarity = "negative" /\ FALSE \notin o.values THEN Constant(envs, True, odd)
  ELSE IF o.test = "reached" THEN IF polarity = "positive" THEN present ELSE NotForm(present)
  ELSE IF ~o.error THEN Constant(envs, Bool(TRUE \in o.values), odd)
  ELSE emitted

\* settleTypeMismatches leaves what it cannot settle to rewriteLiteralLists.
SettledLeaf(polarity, c, l, xs) ==
  LET o == LeafOutcomes(c, l)
      odd == {s \in {"foldedChain"} : c.hop = "many"}
  IN Settled(polarity, o, DOMAIN xs, Presence(c, xs), odd,
       Emitted(c, IF polarity # "unfixed" /\ o = Open THEN Pruned(c, l) ELSE l, xs))

\* What CEL says of the leaf.
EvaluateLeaf(c, l, x) ==
  LET v == Sent(c, x)
      size == SizeOf(v)
  IN CASE l.test = "bare" -> AsBoolean(v)
       [] l.test = "compare" -> CompareValues(l.op, v, l.lit)
       [] l.test = "in" -> In(v, l.lit)
       [] l.test = "member" -> In(l.lit, v)
       [] l.test = "intersects" -> HasIntersection(v, l.lit)
       [] l.test = "startsWith" -> StartsWith(v, l.lit)
       [] OTHER -> IF size = Err THEN Err ELSE CompareValues(l.op, [size EXCEPT !.v = 2 * @], l.lit)

\* Where a row may be lost: an absent hop, or a NULL but in a root column declared explicit.
Gap(c, e, x) ==
  x = Undefined \/ (x = Null /\ ~(e = Root /\ c.explicit /\ c.shape = "scalar" /\ c.hop = "none"))

\* What the leaf's environment is.
Scope(c, xs) ==
  IF Root \in DOMAIN xs THEN "root" ELSE IF c.shape = "element" THEN "element" ELSE "row"

LeafNode(c, l, xs) ==
  [cel |-> [e \in DOMAIN xs |-> EvaluateLeaf(c, l, xs[e])],
   gap |-> [e \in DOMAIN xs |-> Gap(c, e, xs[e])],
   scope |-> Scope(c, xs), equality |-> l.test = "in" \/ (l.test = "compare" /\ l.op = "eq"),
   form |-> [p \in Polarities |-> SettledLeaf(p, c, l, xs)]]

-----------------------------------------------------------------------------
(* Two columns of one model *)

\* buildFieldToFieldFilter: a NULL sent as null is a value, any other NULL is UNKNOWN.
PairCell(c, d, op, x, y) ==
  LET plain == SqlCompare(op, x, y)
      equal == IF c.explicit # d.explicit
               THEN LET e == IF c.explicit THEN x ELSE y
                        other == IF c.explicit THEN y ELSE x
                    IN Not(Or({And({Bool(e = Null), SqlCompare("eq", other, other)}),
                               Not(SqlCompare("eq", e, other))}))
               ELSE Or({Bool(x = Null /\ y = Null),
                        And({Bool(x # Null), Bool(y # Null), SqlCompare("eq", x, y)})})
  IN IF op \in Equalities /\ (c.explicit \/ d.explicit)
     THEN IF op = "eq" THEN equal ELSE Not(equal)
     ELSE plain

PairForm(c, d, op, xs, ys) ==
  LET both == Combined({ColumnForm(c, xs, ~c.required, Refusal), ColumnForm(d, ys, ~d.required, Refusal)},
                Unless(c.type # d.type,
                  Filter([e \in DOMAIN xs |-> PairCell(c, d, op, xs[e], ys[e])], {})))
  IN NegateRequiringHops(both)

PairOutcomes(c, d, op) ==
  IF "none" \in {c.known, d.known} \/ c.known = d.known THEN Open
  ELSE IF op \in Orderings THEN Outcomes({}, TRUE, "none")
  ELSE Definite(op = "ne", MayBeMissing(c) \/ MayBeMissing(d))

PairPresence(c, d, xs, ys) ==
  IF ~MayBeMissing(c) THEN Presence(d, ys)
  ELSE IF ~MayBeMissing(d) THEN Presence(c, xs)
  ELSE JunctionForm("and", Presence(c, xs), Presence(d, ys))

PairNode(c, d, op, xs, ys) ==
  LET envs == DOMAIN xs
      odd == {s \in {"explicitPair"} : op \in Equalities /\ c.explicit /\ d.explicit /\ ~c.required /\ ~d.required}
  IN
  [cel |-> [e \in envs |-> CompareValues(op, Sent(c, xs[e]), Sent(d, ys[e]))],
   gap |-> [e \in envs |-> Gap(c, e, xs[e]) \/ Gap(d, e, ys[e])],
   scope |-> Scope(c, xs), equality |-> FALSE,
   form |-> [p \in Polarities |->
     Settled(p, PairOutcomes(c, d, op), envs, PairPresence(c, d, xs, ys), odd, PairForm(c, d, op, xs, ys))]]

-----------------------------------------------------------------------------
(* Conditionals *)

\* buildGuardedTernaryFilter: the contradiction keeps an UNKNOWN condition UNKNOWN.
GuardedTernary(condition, whenTrue, whenFalse) ==
  Join("or", Join("and", condition.yes, whenTrue),
    Join("or", Join("and", condition.no, whenFalse), Join("and", condition.yes, condition.no)))

\* handleBooleanTernaryOperator; buildNegatedFilter has no case for it.
TernaryForm(condition, whenTrue, whenFalse) ==
  LET form == Combined({condition, whenTrue, whenFalse}, GuardedTernary(condition, whenTrue.yes, whenFalse.yes))
      negated == NegateRequiringHops(form)
  IN [negated EXCEPT !.no.odd = @ \union {s \in {"ternaryMacro"} : form.macro}]

\* COMPLEMENT_OPERATOR
Complement(op) ==
  CASE op = "eq" -> "ne" [] op = "ne" -> "eq" [] op = "lt" -> "ge"
    [] op = "le" -> "gt" [] op = "gt" -> "le" [] OTHER -> "lt"

\* buildTernaryComparisonBranch: a comparison of the branch, and its negation inside the branch.
Branch(c, l, xs) ==
  LET form == Emitted(c, l, xs) IN
  [cel |-> EvaluateLeaf(c, l, xs[Root]), gap |-> Gap(c, Root, xs[Root]),
   form |-> IF l.test = "in" THEN form
            ELSE [form EXCEPT !.no = Emitted(c, [l EXCEPT !.op = Complement(@)], xs).yes]]

\* tryHandleTernaryComparison: the comparison is distributed into both branches.
ComparedTernaryForm(condition, a, b) ==
  [Combined({condition, a, b}, GuardedTernary(condition, a.yes, b.yes))
     EXCEPT !.no = GuardedTernary(condition, a.no, b.no)]

-----------------------------------------------------------------------------
(* Macros over a collection of related rows: behind a parent mapped as a to-many relation, it is *)
(* reached only if the parent is there.                                                         *)

Collection == {coll \in [far : BOOLEAN, reached : BOOLEAN, rows : SUBSET Rows] :
                 /\ ~coll.far => coll.reached
                 /\ ~coll.reached => coll.rows = {}}

\* { some: P }
Some(coll, is) == Bool(\E r \in coll.rows : is[r] = True)

\* positiveCollectionFilter, positiveChainAllFilter and negatedCollectionFilter.
BuildMacro(op, coll, body) ==
  LET holds == Some(coll, body.yes.is)
      null == Bool(\E r \in coll.rows : body.nulls[r])
      fails == Some(coll, [r \in Rows |-> Not(body.yes.is[r])])
      at(is) == Unless(body.yes.refused, Filter([e \in {Root} |-> is], body.yes.odd))
      form == [Form(Undefined, [e \in {Root} |-> coll.reached], [e \in {Root} |-> FALSE], Refusal)
                 EXCEPT !.macro = TRUE, !.hopped = coll.far]
  IN IF body.yes.refused THEN form
     ELSE IF op = "exists"
          THEN [form EXCEPT !.yes = at(holds), !.no = RequiringHops(form, at(And({Not(holds), Not(null)})))]
          ELSE [form EXCEPT !.yes = RequiringHops(form, at(And({Not(fails), Not(null)}))), !.no = at(fails)]

\* constantFoldExpression, of a macro whose body is constant: what is left is the size.
FoldedMacro(op, coll, b) ==
  LET form == [Form(Undefined, [e \in {Root} |-> coll.reached], [e \in {Root} |-> FALSE],
                    Filter([e \in {Root} |-> Bool(coll.reached /\ (coll.rows # {}) = b)], {}))
                 EXCEPT !.hopped = coll.far]
  IN IF (op = "exists") = b THEN NegateRequiringHops(form)
     ELSE Constant({Root}, Bool(op = "all"), {s \in {"foldedChain"} : coll.far})

MacroForm(op, coll, body) ==
  IF body.const = Undefined THEN BuildMacro(op, coll, body)
  ELSE Odd(FoldedMacro(op, coll, body.const = True), body.yes.odd \union body.no.odd)

-----------------------------------------------------------------------------
(* Nodes: a form for each polarity *)

Opposite(p) == CASE p = "positive" -> "negative" [] p = "negative" -> "positive" [] OTHER -> p

Nots(f) == [p \in Polarities |-> NotForm(f[Opposite(p)])]
JunctionsOf(op, f, g) == [p \in Polarities |-> JunctionForm(op, f[p], g[p])]
MacrosOf(op, coll, f) == [p \in Polarities |-> MacroForm(op, coll, f[p])]

\* membershipOfDerivedList, intersectionWithMappedList: a second macro carries the error of
\* building the list.
DerivedList(coll, matches, body) ==
  JunctionsOf("and", MacrosOf("exists", coll, matches),
    MacrosOf("all", coll, JunctionsOf("or", body, Nots(body))))

Node(scope, cel, gap, form) == [scope |-> scope, cel |-> cel, gap |-> gap, equality |-> FALSE, form |-> form]

NotNode(n) == Node(n.scope, [e \in DOMAIN n.cel |-> Not(n.cel[e])], n.gap, Nots(n.form))

JunctionNode(op, n, m) ==
  Node(n.scope, [e \in DOMAIN n.cel |-> Junction(op = "or", {n.cel[e], m.cel[e]})],
    [e \in DOMAIN n.gap |-> n.gap[e] \/ m.gap[e]], JunctionsOf(op, n.form, m.form))

\* The operands of a conditional are not settled.
TernaryNode(c, a, b) ==
  LET form == TernaryForm(c.form["unfixed"], a.form["unfixed"], b.form["unfixed"]) IN
  Node(c.scope, [e \in DOMAIN c.cel |-> IfThenElse(c.cel[e], a.cel[e], b.cel[e])],
    [e \in DOMAIN c.gap |-> c.gap[e] \/ a.gap[e] \/ b.gap[e]], [p \in Polarities |-> form])

ComparedTernaryNode(c, a, b) ==
  LET form == ComparedTernaryForm(c.form["unfixed"], a.form, b.form) IN
  Node("root", [e \in {Root} |-> IfThenElse(c.cel[e], a.cel, b.cel)],
    [e \in {Root} |-> c.gap[e] \/ a.gap \/ b.gap], [p \in Polarities |-> form])

MacroNode(coll, bodies, cel, form) ==
  Node("root", [e \in {Root} |-> IF coll.reached THEN cel ELSE Err],
    [e \in {Root} |-> ~coll.reached \/ \E r \in coll.rows, n \in bodies : n.gap[r]], form)

Says(coll, n) == {n.cel[r] : r \in coll.rows}

QuantifierNode(op, coll, n) ==
  MacroNode(coll, {n}, Junction(op = "exists", Says(coll, n)), MacrosOf(op, coll, n.form))

\* hasIntersection(c.map(v, F), L), and x in c.map(v, F)
MappedNode(coll, n) ==
  MacroNode(coll, {n}, IF Err \in Says(coll, n) THEN Err ELSE Bool(True \in Says(coll, n)),
    DerivedList(coll, n.form, n.form))

\* x in c.filter(v, P)
InFilterNode(coll, n, m) ==
  MacroNode(coll, {n, m},
    IF \E x \in Says(coll, m) : AsBoolean(x) = Err THEN Err
    ELSE Bool(\E r \in coll.rows : n.cel[r] = True /\ m.cel[r] = True),
    LET form == DerivedList(coll, JunctionsOf("and", n.form, m.form), m.form)
        settled == \E o \in {n, m} : o.form["negative"] # o.form["unfixed"]
        odd == {s \in {"filteredError"} : settled}
    IN [p \in Polarities |-> Odd(form[p], odd)])

\* A boolean constant, the branch of a conditional.
ConstantNode(scope, b) ==
  LET envs == IF scope = "root" THEN {Root} ELSE Rows IN
  Node(scope, [e \in envs |-> Bool(b)], [e \in envs |-> FALSE],
    [p \in Polarities |-> Constant(envs, Bool(b), {})])

-----------------------------------------------------------------------------
(* The leaves explored *)

ScalarLiterals == {l \in Literals : l.t # "list"}
Leaf(test, ops, lits) == [test : {test} \intersect Operators, op : ops \intersect Operators, lit : lits]

LeavesOf(m) ==
  LET lists == Literals \ ScalarLiterals
      numbers == {l \in ScalarLiterals : l.t = "num"}
  IN IF m.shape = "list"
     THEN Leaf("member", {"eq"}, ScalarLiterals) \union Leaf("intersects", {"eq"}, lists)
            \union Leaf("size", Comparisons, numbers)
     ELSE Leaf("bare", {"eq"}, {x \in {True} : m.type = "bool"}) \union Leaf("compare", Comparisons, ScalarLiterals)
            \union Leaf("in", {"eq"}, lists) \union Leaf("startsWith", {"eq"}, ScalarLiterals)
            \union Leaf("size", Comparisons, numbers)

Envs(m) == IF m \in RootColumns THEN {Root} ELSE Rows
Columns == RootColumns \union RowColumns

LeafNodes(nulls) ==
  UNION {{LeafNode(Field(m, nulls), l, xs) : l \in LeavesOf(m), xs \in [Envs(m) -> Stored(m)]} :
           m \in Columns}
\* Two columns of one model.
Comparable(m, k) == Envs(m) = Envs(k) /\ \A n \in {m, k} : n.shape = "scalar" /\ n.hop = "none"

NodesOfPair(m, k, nulls) ==
  {PairNode(Field(m, nulls), Field(k, nulls), op, xs, ys) :
     op \in Comparisons \intersect Operators, xs \in [Envs(m) -> Stored(m)], ys \in [Envs(k) -> Stored(k)]}
PairNodes(nulls) ==
  UNION {NodesOfPair(p[1], p[2], nulls) :
           p \in {q \in Columns \X Columns : "pair" \in Operators /\ Comparable(q[1], q[2])}}

\* Two leaves that differ in their column alone, neither of which the types settle.
BranchTests ==
  IF "ifCompare" \in Operators
  THEN Leaf("compare", Comparisons, ScalarLiterals) \union Leaf("in", {"eq"}, Literals)
  ELSE {}
Unsettled(m, l, nulls) ==
  /\ l \in LeavesOf(m)
  /\ LET c == Field(m, nulls) IN LeafOutcomes(c, l) = Open /\ Pruned(c, l) = l
BranchesOf(l, nulls) ==
  UNION {{Branch(Field(m, nulls), l, xs) : xs \in [{Root} -> Stored(m)]} :
           m \in {n \in RootColumns : Unsettled(n, l, nulls)}}
BranchPairs(nulls) == UNION {BranchesOf(l, nulls) \X BranchesOf(l, nulls) : l \in BranchTests}

\* Decided once for every option.
AllLeafNodes == [o \in Options |-> LeafNodes(o) \union PairNodes(o)]
AllBranchPairs == [o \in Options |-> BranchPairs(o)]

-----------------------------------------------------------------------------
(* Behaviour *)

Init ==
  /\ option \in Options
  /\ stack = <<>>
  /\ leaves = 0
  /\ nodes = 0
  /\ phase = "reading"
  /\ root = Null
  /\ matched = FALSE
  /\ returned = FALSE

Push(read, rest, n) ==
  /\ phase = "reading"
  /\ nodes < MaxNodes
  /\ leaves + read <= MaxLeaves
  /\ nodes' = nodes + 1
  /\ leaves' = leaves + read
  /\ stack' = Append(rest, n)
  /\ UNCHANGED <<option, phase, root, matched, returned>>

Top(n) == SubSeq(stack, Len(stack) - n + 1, Len(stack))
Under(n) == SubSeq(stack, 1, Len(stack) - n)

\* The last n operands are conditions of one environment.
Operands(n) ==
  /\ n <= Len(stack)
  /\ \A i \in 1 .. n : Top(n)[i].scope = Top(n)[1].scope

ReadLeaf == nodes < MaxNodes /\ leaves < MaxLeaves /\ \E n \in AllLeafNodes[option] : Push(1, stack, n)

ReadNot == "not" \in Operators /\ Operands(1) /\ Push(0, Under(1), NotNode(Top(1)[1]))

ReadJunction ==
  \E op \in Junctions \intersect Operators :
    Operands(2) /\ Push(0, Under(2), JunctionNode(op, Top(2)[1], Top(2)[2]))

\* The planner leaves no constant but in a branch.
ReadTernary ==
  \E n \in 1 .. 3 :
    /\ "if" \in Operators
    /\ Operands(n)
    /\ LET read == {Top(n)[i] : i \in 2 .. n}
           constants == {ConstantNode(Top(n)[1].scope, b) : b \in BOOLEAN}
       IN \E then, else \in read \union constants :
            read \subseteq {then, else} /\ Push(0, Under(n), TernaryNode(Top(n)[1], then, else))

ReadComparedTernary ==
  /\ nodes < MaxNodes /\ leaves < MaxLeaves
  /\ Operands(1) /\ Top(1)[1].scope = "root"
  /\ \E pair \in AllBranchPairs[option] :
       Push(1, Under(1), ComparedTernaryNode(Top(1)[1], pair[1], pair[2]))

ReadQuantifier ==
  \E op \in {"exists", "all"} \intersect Operators, coll \in Collection :
    /\ Operands(1) /\ Top(1)[1].scope # "root"
    /\ Push(0, Under(1), QuantifierNode(op, coll, Top(1)[1]))

ReadDerivedList ==
  \E coll \in Collection :
    \/ /\ "mapped" \in Operators
       /\ Operands(1) /\ Top(1)[1].scope # "root" /\ Top(1)[1].equality
       /\ Push(0, Under(1), MappedNode(coll, Top(1)[1]))
    \/ /\ "inFilter" \in Operators
       /\ Operands(2) /\ Top(2)[1].scope = "element" /\ Top(2)[1].equality
       /\ Push(0, Under(2), InFilterNode(coll, Top(2)[1], Top(2)[2]))

\* queryPlanToPrisma of a conditional plan: a condition that folds away is answered as the planner
\* would have answered it. The shapes not admitted are left out.
Translate ==
  /\ phase = "reading"
  /\ Len(stack) = 1 /\ stack[1].scope = "root"
  /\ stack[1].form["positive"].yes.odd \subseteq Admitted
  /\ root' = stack[1].cel[Root]
  /\ LET form == stack[1].form["positive"] IN
       IF form.const = Undefined /\ form.yes.refused
       THEN phase' = "refused" /\ UNCHANGED matched
       ELSE phase' = "translated" /\ matched' = (form.yes.is[Root] = True)
  /\ stack' = <<>>
  /\ UNCHANGED <<option, leaves, nodes, returned>>

\* The kinds of a plan without a condition.
TranslateUnconditional ==
  /\ phase = "reading" /\ nodes = 0
  /\ \E allowed \in BOOLEAN : root' = Bool(allowed) /\ matched' = allowed
  /\ phase' = "translated"
  /\ UNCHANGED <<option, stack, leaves, nodes, returned>>

\* The caller's findMany().
RunQuery ==
  /\ phase = "translated"
  /\ phase' = "answered"
  /\ returned' = matched
  /\ UNCHANGED <<option, stack, leaves, nodes, root, matched>>

Next ==
  \/ ReadLeaf \/ ReadNot \/ ReadJunction \/ ReadTernary \/ ReadComparedTernary
  \/ ReadQuantifier \/ ReadDerivedList \/ Translate \/ TranslateUnconditional \/ RunQuery

Spec == Init /\ [][Next]_vars

-----------------------------------------------------------------------------
(* Properties *)

\* Type correctness of the call.
TypeOK ==
  /\ option \in Options
  /\ \A i \in DOMAIN stack : LET n == stack[i] IN
       /\ \A e \in DOMAIN n.cel : n.cel[e] \in {True, False, Err}
       /\ \A p \in Polarities : LET f == n.form[p] IN
            /\ f.const \in {True, False, Undefined}
            /\ \A filter \in {f.yes, f.no} :
                 filter.refused \/ filter.is \in [DOMAIN n.cel -> {True, False, Unknown}]
  /\ leaves \in 0 .. MaxLeaves
  /\ nodes \in 0 .. MaxNodes
  /\ phase \in {"reading", "refused", "translated", "answered"}
  /\ root \in {True, False, Err, Null}
  /\ matched \in BOOLEAN
  /\ returned \in BOOLEAN

Trusted(filter) == ~filter.refused /\ filter.odd \subseteq Admitted

\* A filter that matches proves its condition, of the row at hand and under the polarity it was
\* settled for, and so does a returned row: an absent parent, a NULL of any convention, an UNKNOWN
\* that a relation forgets and a constant the types decided never select what CEL denies.
MatchesProven ==
  /\ returned => root = True
  /\ \A i \in DOMAIN stack : LET n == stack[i] IN
       \A e \in DOMAIN n.cel :
         /\ \A p \in {"positive", "unfixed"} : LET yes == n.form[p].yes IN
              Trusted(yes) /\ yes.is[e] = True => n.cel[e] = True
         /\ \A p \in {"negative", "unfixed"} : LET no == n.form[p].no IN
              Trusted(no) /\ no.is[e] = True => n.cel[e] = False

\* What CEL allows is lost only through an absent parent, a NULL whose convention is not declared,
\* or a NULL of a related row.
LostOnlyMissing ==
  \A i \in DOMAIN stack : LET n == stack[i] IN
    \A e \in DOMAIN n.cel :
      /\ LET yes == n.form["positive"].yes IN
           Trusted(yes) /\ n.cel[e] = True => yes.is[e] = True \/ n.gap[e]
      /\ LET no == n.form["negative"].no IN
           Trusted(no) /\ n.cel[e] = False => no.is[e] = True \/ n.gap[e]

\* comparison.ts:546: "Two explicit nulls are EQUAL in CEL", whatever the types of their columns.
NeverOverGrants == returned => root = True
=============================================================================
