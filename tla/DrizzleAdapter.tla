--------------------------- MODULE DrizzleAdapter ---------------------------
(***************************************************************************)
(* The Drizzle adapter: queryPlanToDrizzle (drizzle/src) translates a plan *)
(* into one SQL condition over a resource's row, its to-one parent and the *)
(* rows related to either.                                                 *)
(*                                                                         *)
(* SQL has three truth values and the adapter has CEL's error be UNKNOWN,  *)
(* so UNKNOWN is Err here and SQL's AND, OR and NOT are Junction and Not.  *)
(* A scalar that SQL reads as NULL is Null.                                *)
(*                                                                         *)
(* A node of the plan is a function from the environments its condition is *)
(* evaluated in to readings: Root outside every lambda, else an element of *)
(* the collection the lambda ranges over. A reading records the shape the  *)
(* translation dispatches on, the SQL scalar or the two conditions it      *)
(* emits for it (yes, and no under a negation pushed inward) and what CEL  *)
(* computes.                                                               *)
(*                                                                         *)
(* The plan is read in postfix order; a literal is read with its operator. *)
(***************************************************************************)
EXTENDS CelNumbers

CONSTANTS
  Refs,            \* the attributes of a plan
  Entries,         \* what the mapper may say of an attribute, see Entry
  Cells,           \* what a scalar column may hold, Null included
  Literals,        \* constants of the plan, lists included
  Operators,       \* the plan operators explored
  Admitted,        \* the shapes of Disagreements a plan may hold
  MaxRefs,         \* bound on the references of a plan
  MaxNodes         \* bound on its nodes, literals apart

\* A column; a column behind a to-one relation; a collection of scalars, or of rows with one
\* field. A far collection is reached through a to-one relation.
Entry ==
  [shape : {"field", "one", "list", "many"}, type : {"int", "num", "str", "bool"},
   nulls : {"undeclared", "explicit", "omitted"}, far : BOOLEAN]

Junctions == {"and", "or"}
Arithmetic == {"add", "sub", "div", "mod"}
Quantifiers == {"exists", "all", "existsOne"}
\* A collection whose elements all, or none, are in a list of constants: l.isSubset(k) and
\* l.except(k) == [], l.intersect(k) == [].
ListFunctions == {"isSubset", "disjoint"}
Macros == Quantifiers \union ListFunctions \union {"count", "inMap", "inFilter", "mapIntersects"}
BooleanValued == Quantifiers \union {"matches", "startsWith", "in", "hasIntersection"}
AllOperators ==
  Junctions \union Comparisons \union Arithmetic \union Macros \union BooleanValued
    \union {"not", "if", "inConstructed", "inConcatenated", "size", "int", "string"}

\* twoValued: an UNKNOWN met behind a present to-one hop, in an EXISTS, which has no UNKNOWN.
\* ternary: a conditional whose condition is UNKNOWN, where its own UNKNOWN matters.
\* relationSize: size() of a column reached through a relation.
\* intDivision: a CEL int divided by a column that holds zero.
\* intOverflow: a sum of CEL ints beyond int64, which the store computes regardless.
\* hiddenDouble: a CEL int beside a double that is an expression, which CEL has no overload for.
\* farMap: hasIntersection over a map() of a far collection.
\* nullInList: a null sought in a list, under the omitted convention.
\* emptyList: membership in [] of what is missing.
\* listAsMember: a scalar collection sought in a literal list.
\* mistyped: operands CEL has no overload for, over columns SQL reads regardless.
Disagreements ==
  {"twoValued", "ternary", "relationSize", "intDivision", "intOverflow", "hiddenDouble", "farMap",
   "nullInList", "emptyList", "listAsMember", "mistyped"}

ASSUME EntriesAssumption ==
  /\ Entries \subseteq Entry
  /\ \A m \in Entries : m.far => m.shape \in {"list", "many"}
  /\ Cells \subseteq {x \in Value : x.t \in {"null", "num", "str", "bool"}}
  /\ Literals \subseteq {x \in Value : x.t \in {"null", "num", "str", "bool", "list"}} \union {NegativeZero}
  /\ \A x \in Cells \union Literals : x.t = "num" => IsFinite(x)
ASSUME BoundsAssumption ==
  /\ Operators \subseteq AllOperators
  /\ Admitted \subseteq Disagreements
  /\ MaxRefs \in Nat /\ MaxNodes \in Nat

VARIABLES
  option,     \* nullAttributeRepresentation of the call
  mapper,     \* the entry of each attribute read so far
  row,        \* what the database holds for it
  sent,       \* what the application sent to check() for it
  stack,      \* operands read and not yet consumed
  nodes,      \* plan nodes read so far
  phase,      \* where the call stands
  root,       \* what CEL says of the condition
  matched,    \* does the filter match the row?
  returned    \* is it in the caller's hands?

vars == <<option, mapper, row, sent, stack, nodes, phase, root, matched, returned>>

-----------------------------------------------------------------------------
(* SQL *)

Unknown == Err
Root == Undefined       \* the environment outside every lambda
NoRow == Err            \* that of a lambda's body translated for no element in particular

And(S) == Junction(FALSE, S)
Or(S) == Junction(TRUE, S)
Exactly(x) == Bool(x = True)        \* what an EXISTS keeps of a condition

SqlCompare(op, a, b) == IF Null \in {a, b} THEN Unknown ELSE CompareValues(op, a, b)

\* wrapRelationChain, wrapToOneChain: a missing hop is UNKNOWN, a present one keeps all three values.
ThroughHop(f, is) == IF f.present THEN is ELSE Unknown

\* wrapCombinedRelations, requireLeadingHops: both chains are required, and an EXISTS is two-valued.
ThroughHops(l, r, is) ==
  IF ~l.present \/ ~r.present THEN Unknown ELSE IF l.hopped \/ r.hopped THEN Exactly(is) ELSE is

-----------------------------------------------------------------------------
(* Readings *)

Blank ==
  [kind |-> "expression", op |-> "none", lit |-> Undefined, entry |-> "none", type |-> "none",
   explicit |-> FALSE, omitted |-> FALSE, hopped |-> FALSE, present |-> TRUE, rows |-> Undefined,
   far |-> FALSE, table |-> "none", const |-> Undefined, static |-> "none", celType |-> "dyn",
   isInt |-> FALSE, divisor |-> FALSE, division |-> <<>>, parts |-> <<>>, throws |-> FALSE,
   refused |-> FALSE, sql |-> Null, cel |-> Err, yes |-> Unknown, no |-> Unknown, odd |-> {},
   blurred |-> FALSE]

\* A translated condition, or none: what it is, and what it is under a negation pushed inward.
Condition(is) == [refused |-> FALSE, yes |-> is, no |-> Not(is), odd |-> {}]
Refused == [refused |-> TRUE, yes |-> Unknown, no |-> Unknown, odd |-> {}]
Oddly(c, shape, holds) == IF holds THEN [c EXCEPT !.odd = @ \union {shape}] ELSE c
Unless(refused, c) == IF refused THEN Refused ELSE c

LiteralType(x) ==
  CASE IsFraction(x) -> "double" [] x.t \in {"num", "negzero"} -> "number" [] OTHER -> x.t

\* evaluate a constant as a condition: constantCondition(Boolean(value)).
Literal(x) ==
  [Blank EXCEPT !.kind = "value", !.lit = Unsigned(x), !.celType = LiteralType(x), !.sql = Unsigned(x),
     !.cel = x, !.const = IF IsDouble(x) THEN x ELSE Undefined,
     !.static = CASE x = Null -> "none" [] x.t = "list" -> "object" [] OTHER -> Unsigned(x).t,
     !.yes = Bool(x.v # 0), !.no = Bool(x.v = 0)]

\* The column compared as the store holds it: a null the application sends equals nothing.
CompareCellAsStored(op, f, lit) ==
  IF lit = Null /\ op \in Equalities THEN Bool((op = "eq") = (f.sql = Null)) ELSE SqlCompare(op, f.sql, lit)

\* What applyOmittedNullComparison, definiteEquality and applyColumnComparison make of a column
\* and a constant: the three conventions for a NULL.
CompareCell(op, f, lit) ==
  CASE f.omitted /\ lit = Null ->
         IF f.sql = Null \/ op \in Orderings THEN Unknown ELSE Bool(op = "ne")
    [] f.explicit /\ lit # Null /\ op \in Equalities /\ f.sql = Null -> Bool(op = "ne")
    [] lit = Null /\ op \in Equalities -> Bool((op = "eq") = (f.sql = Null))
    [] OTHER -> SqlCompare(op, f.sql, lit)

\* The type tag of the values a column holds.
Tag(type) == IF type = "int" THEN "num" ELSE type

\* resolveFieldReference of a column, behind a to-one hop (wrapRelationChain) or not; a bare
\* reference is a condition, `= true`.
Column(m, nulls, cell, attribute) ==
  LET omitted == (IF m.nulls = "undeclared" THEN nulls ELSE m.nulls) = "omitted"
      f == [Blank EXCEPT !.kind = "field", !.entry = m.shape, !.type = m.type,
              !.explicit = (m.nulls = "explicit"), !.omitted = omitted,
              !.hopped = (m.shape = "one"), !.present = (cell # Undefined),
              !.sql = IF cell = Undefined THEN Null ELSE cell, !.static = Tag(m.type),
              !.throws = (m.shape = "one"), !.cel = attribute,
              !.blurred = (attribute = Null /\ m.nulls # "explicit")]
      is == ThroughHop(f, CompareCell("eq", f, True))
  IN [f EXCEPT !.yes = is, !.no = Not(is)]

\* A collection. Compared as a value, it is a relation: applyRelationComparison.
Collection(r, m, nulls, rows) ==
  [Blank EXCEPT !.kind = "field", !.table = r, !.entry = m.shape, !.type = m.type, !.rows = rows,
     !.omitted = (IF m.nulls = "undeclared" THEN nulls ELSE m.nulls) = "omitted",
     !.present = (rows # Undefined), !.far = m.far, !.throws = TRUE, !.refused = TRUE,
     !.cel = IF rows = Undefined THEN Err ELSE rows]

\* The variable of a lambda over a list, or the field of one over rows (createCollectionScope): a
\* scalar list's elements are explicit nulls, a far one is not known to be scalar.
ElementOfLambda(r, m, nulls, rows, x) ==
  LET near == m.shape = "list" /\ ~m.far
      conventions == IF near THEN "explicit" ELSE m.nulls
      cell == IF x = NoRow THEN Null ELSE x
      explicit == m.shape = "list" \/ (IF m.nulls = "undeclared" THEN nulls ELSE m.nulls) = "explicit"
      f == Column([shape |-> "field", type |-> m.type, nulls |-> conventions, far |-> FALSE],
                  nulls, cell, IF cell = Null /\ ~explicit THEN Err ELSE cell)
  IN [f EXCEPT !.table = r, !.rows = rows, !.entry = "element"]

IsField(f) == f.kind = "field"
IsValue(f) == f.kind = "value"
IsExpression(f) == f.kind = "expression"
IsRelation(f) == f.entry \in {"list", "many"}
IsScalarColumn(f) == IsField(f) /\ ~IsRelation(f)
IsColumnOf(f, types) == IsScalarColumn(f) /\ f.type \in types

-----------------------------------------------------------------------------
(* comparison.ts and the comparisons of predicates.ts *)

Mirrored(op) ==
  CASE op = "lt" -> "gt" [] op = "gt" -> "lt" [] op = "le" -> "ge" [] op = "ge" -> "le"
    [] OTHER -> op

\* applyComparisonWithExpression, with definiteEquality where a side is an explicit null: the
\* other side's NULL is a missing attribute, and goes first.
CompareExpressions(op, l, r) ==
  LET equal == IF l.sql = Null /\ r.sql = Null THEN TRUE ELSE ValuesEqual(l.sql, r.sql)
  IN CASE op \in Equalities /\ l.explicit /\ r.explicit -> Bool((op = "eq") = equal)
       [] op \in Equalities /\ l.explicit # r.explicit ->
            IF (IF l.explicit THEN r.sql ELSE l.sql) = Null THEN Unknown
            ELSE Bool((op = "eq") = equal)
       [] OTHER -> SqlCompare(op, l.sql, r.sql)

\* An EXISTS that turned an UNKNOWN into FALSE.
Combined(l, r, is) ==
  Oddly(Condition(ThroughHops(l, r, is)), "twoValued",
        is = Unknown /\ ThroughHops(l, r, is) # Unknown)

CompareFields(op, l, r) ==
  Unless(IsRelation(l) \/ IsRelation(r), Combined(l, r, CompareExpressions(op, l, r)))

\* buildFieldToConstantComparison: a collection is never equal to a constant.
CompareConstant(op, f, lit) ==
  IF IsRelation(f)
  THEN Unless(f.far \/ op \in Orderings \/ (lit = Null /\ f.omitted), Condition(Bool(op = "ne")))
  ELSE Condition(ThroughHop(f, CompareCell(op, f, lit)))

\* The NULL guard forgotten: a missing attribute compares as a value.
CompareMixedUnguarded(op, l, r) ==
  LET bothExplicit == l.explicit /\ r.explicit
      present == CASE op \in Orderings -> Unknown
                   [] OTHER -> Bool((op = "eq") = (bothExplicit /\ l.sql = Null /\ r.sql = Null))
  IN Unless(\E f \in {l, r} : IsRelation(f) \/ (IsExpression(f) /\ f.throws), Combined(l, r, present))

\* buildMixedTypeComparison: columns or expressions of different types are never equal, and two
\* explicit nulls are.
CompareMixed(op, l, r) ==
  LET bothExplicit == l.explicit /\ r.explicit
      present == CASE op \in Orderings -> Unknown
                   [] OTHER -> Bool((op = "eq") = (bothExplicit /\ l.sql = Null /\ r.sql = Null))
      guarded == \E f \in {l, r} : f.sql = Null /\ ~IsValue(f) /\ ~f.explicit
  IN Unless(\E f \in {l, r} : IsRelation(f) \/ (IsExpression(f) /\ f.throws),
            Combined(l, r, IF guarded THEN Unknown ELSE present))

\* evaluateConstantNumberComparison.
CompareConstants(op, a, b) == Compare(op, a, b) = True

\* buildDynamicNaNComparison: NaN compares with whatever is there.
CompareNaN(op, f) ==
  Unless(IsRelation(f) \/ (IsExpression(f) /\ f.throws),
         Oddly(Condition(ThroughHop(f, IF f.sql = Null THEN Unknown ELSE Bool(op = "ne"))),
               "mistyped", op \in Orderings /\ f.static # "num" /\ ~f.isInt))

\* The value int() has of a column that holds doubles or strings, NULL where int() would raise.
CheckedInt(f) ==
  LET read == IF f.type = "str" THEN ParseAs("num", f.sql) ELSE f.sql
      whole == Truncated(read.v, 2)
  IN CASE f.sql = Null \/ read = Err -> Null
       [] f.type = "str" /\ IsFraction(read) -> Null
       [] Abs(whole) > Int64Max -> Null
       [] OTHER -> Num(2 * whole)

IsCheckedInt(f, other) ==
  /\ f.op = "int" /\ IsColumnOf(f.parts[1], {"num", "str"})
  /\ IsValue(other) /\ other.lit.t = "num"

CompareCheckedInt(op, f, lit) ==
  Unless(f.parts[1].throws, Condition(SqlCompare(op, CheckedInt(f.parts[1]), lit)))

\* buildNumberStringComparison: the number whose CEL spelling the literal is, if there is one.
IsNumberString(f, other) ==
  f.op = "string" /\ IsColumnOf(f.parts[1], {"int", "num"}) /\ IsValue(other) /\ other.lit.t = "str"

Spelled(lit) ==
  LET spelling == {x \in Cells : x.t = "num" /\ Rendering("num", x.v) = lit}
  IN IF spelling = {} THEN Undefined ELSE CHOOSE x \in spelling : TRUE

CompareNumberString(op, f, lit) ==
  LET inner == f.parts[1]
      target == Spelled(lit)
  IN Unless(target = Num(0) \/ lit.v \in {52, 53},
            Condition(ThroughHop(inner,
              CASE inner.sql = Null -> Unknown
                [] target = Undefined -> Bool(op = "ne")
                [] OTHER -> SqlCompare(op, inner.sql, target))))

Substitutes == {NaN, Infinity, Num(-Infinity.v)}
Opposite(x) == [x EXCEPT !.v = -@]

\* The arm of a zero denominator: the comparison folded over what IEEE divides to.
DivisionArm(op, enclosing, x, isLeft) ==
  LET folded == enclosing.division[1].folds[IF enclosing.division[1].den.const = NegativeZero THEN Opposite(x) ELSE x]
  IN IF isLeft THEN CompareConstants(op, folded, Num(0)) ELSE CompareConstants(op, Num(0), folded)

\* A zero is a zero, whatever its sign.
SignMattersNever(op, enclosing, isLeft) == FALSE

\* The two infinities answer differently, and nothing settles the sign of the zero.
SignMatters(op, enclosing, isLeft) ==
  LET num == enclosing.division[1].num
      den == enclosing.division[1].den
  IN /\ den.const = Undefined /\ ~IsColumnOf(den, {"int"}) /\ Unsigned(num.const) # Num(0)
     /\ DivisionArm(op, enclosing, Infinity, isLeft)
          # DivisionArm(op, enclosing, Num(-Infinity.v), isLeft)

\* buildDivisionComparison. SQL has neither NaN nor an infinity: where the denominator is zero the
\* answer is a constant, and only elsewhere does the store divide.
CompareDivision(op, enclosing, other, isLeft) ==
  LET num == enclosing.division[1].num
      den == enclosing.division[1].den
      is == CASE Null \in {num.sql, den.sql, other.sql} -> Unknown
              [] den.sql # Num(0) ->
                   SqlCompare(IF isLeft THEN op ELSE Mirrored(op), enclosing.sql, other.sql)
              [] num.sql = Num(0) -> Bool(DivisionArm(op, enclosing, NaN, isLeft))
              [] num.sql.v > 0 -> Bool(DivisionArm(op, enclosing, Infinity, isLeft))
              [] OTHER -> Bool(DivisionArm(op, enclosing, Num(-Infinity.v), isLeft))
  IN Unless(\/ num.division # <<>> \/ den.division # <<>>
            \/ \E f \in {num, den, other, enclosing} : f.throws
            \/ \E x \in Substitutes : enclosing.division[1].folds[x] = Undefined
            \/ SignMatters(op, enclosing, isLeft),
            Oddly(Oddly(Condition(is), "intDivision", is # Unknown /\ enclosing.cel = Err),
                  "mistyped", op \in Orderings /\ other.sql.t # "num"))

\* A comparison of two operands neither of which is a conditional (buildComparisonFilter).
CompareFlat(op, l, r) ==
  LET reversed == Mirrored(op)
  IN CASE l.division # <<>> /\ r.division # <<>> -> Refused
       [] l.division # <<>> -> CompareDivision(op, l, r, TRUE)
       [] r.division # <<>> -> CompareDivision(op, r, l, FALSE)
       [] l.const # Undefined /\ r.const # Undefined -> Condition(Bool(CompareConstants(op, l.const, r.const)))
       [] l.const = NaN /\ ~IsValue(r) -> CompareNaN(op, r)
       [] r.const = NaN /\ ~IsValue(l) -> CompareNaN(op, l)
       [] IsValue(l) /\ IsValue(r) ->
            Unless(l.lit.t # r.lit.t \/ l.lit.t = "list" \/ (op \in Orderings /\ l.lit.t # "str"),
                   Condition(CompareValues(op, l.lit, r.lit)))
       [] \E f, g \in {l, r} : IsRelation(f) /\ IsValue(g) /\ g.lit.t = "list" -> Refused
       [] IsCheckedInt(l, r) -> CompareCheckedInt(op, l, r.lit)
       [] IsCheckedInt(r, l) -> CompareCheckedInt(reversed, r, l.lit)
       [] op \in Equalities /\ IsNumberString(l, r) -> CompareNumberString(op, l, r.lit)
       [] op \in Equalities /\ IsNumberString(r, l) -> CompareNumberString(op, r, l.lit)
       [] "none" \notin {l.static, r.static} /\ l.static # r.static -> CompareMixed(op, l, r)
       [] IsExpression(l) \/ IsExpression(r) ->
            Unless(l.throws \/ r.throws,
                   Condition(SqlCompare(op, l.sql, r.sql)))
       [] IsField(l) /\ IsField(r) -> CompareFields(op, l, r)
       [] IsField(l) -> CompareConstant(op, l, r.lit)
       [] OTHER -> CompareConstant(reversed, r, l.lit)

\* A boolean-valued call compared with true or false is that call, or its negation.
IsPredicateTest(op, l, r) ==
  op \in Equalities /\ \E f, g \in {l, r} : f.op \in BooleanValued /\ IsValue(g) /\ g.lit.t = "bool"
PredicateTest(op, l, r) ==
  LET p == IF IsValue(r) THEN l ELSE r
      lit == IF IsValue(r) THEN r.lit ELSE l.lit
      same == (op = "eq") = (lit = True)
  IN [refused |-> p.refused, yes |-> IF same THEN p.yes ELSE p.no,
      no |-> IF same THEN p.no ELSE p.yes, odd |-> {}]

\* buildTernaryFilter and buildTernaryComparison: (c AND a) OR (NOT c AND b), under either polarity.
Conditional(c, a, b) ==
  [refused |-> c.refused \/ a.refused \/ b.refused,
   yes |-> Or({And({c.yes, a.yes}), And({Not(c.yes), b.yes})}),
   no |-> Or({And({c.yes, a.no}), And({Not(c.yes), b.no})}),
   odd |-> a.odd \union b.odd]

\* A conditional operand distributes the comparison over its branches, the left one first.
CompareBranch(op, l, r) == IF IsPredicateTest(op, l, r) THEN PredicateTest(op, l, r) ELSE CompareFlat(op, l, r)

Arms(f) == IF f.op = "if" THEN <<f.parts[2], f.parts[3]>> ELSE <<f>>
ByArm(f, conditions) ==
  IF f.op = "if" THEN Conditional(f.parts[1], conditions[1], conditions[2]) ELSE conditions[1]

Comparison(op, l, r) ==
  ByArm(l, [i \in DOMAIN Arms(l) |->
    ByArm(r, [j \in DOMAIN Arms(r) |-> CompareBranch(op, Arms(l)[i], Arms(r)[j])])])

-----------------------------------------------------------------------------
(* filter.ts and intersection.ts: membership and string tests *)

\* buildColumnMembership: a column in a list of constants. A constant of another type is dropped
\* before the store could convert it.
InValues(f, values) ==
  LET comparable == {m \in values : m.t = Tag(f.type)}
  IN CASE values = {} -> False
       [] f.sql = Null /\ Null \in values -> True
       [] f.sql = Null -> IF f.explicit THEN False ELSE Unknown
       [] OTHER -> Bool(\E m \in comparable : ValuesEqual(m, f.sql))

\* applyOmittedNullComparison of `in`: a NULL is then no value to match.
ConstantsIn(f, values) ==
  CASE ~f.omitted \/ Null \notin values -> InValues(f, values)
    [] values = {Null} -> IF f.sql = Null THEN Unknown ELSE False
    [] OTHER -> InValues([f EXCEPT !.explicit = FALSE], values \ {Null})

\* The default column of a scalar collection, over one of its rows.
ElementOf(c, m) == [c EXCEPT !.sql = m, !.explicit = FALSE]

\* A null sought under the omitted convention is dropped, though a list's null is a value.
SeeksNull(c, values) == c.omitted /\ Null \in values /\ c.rows # Undefined /\ Null \in Members[c.rows]

\* buildChainMembership and buildMembershipFilter over a collection: an EXISTS over its rows.
AnyElementIn(c, values) ==
  Oddly(Condition(
          IF c.rows = Undefined THEN Unknown
          ELSE Bool(\E m \in Members[c.rows] :
                 IF values = {Null} /\ c.omitted THEN FALSE
                 ELSE ConstantsIn(ElementOf(c, m), values) = True)),
        "nullInList", SeeksNull(c, values))

\* buildVariableMembershipFilter: an element cannot be sought in the table it is a row of.
MemberIn(f, c) ==
  LET elements == Members[c.rows]
      is == IF f.sql = Null /\ ~f.explicit THEN Unknown
            ELSE Bool(\E m \in elements : m = f.sql)
  IN Unless(IsRelation(f) \/ f.hopped \/ c.far \/ c.entry = "many" \/ f.table = c.table,
            Oddly(Condition(is), "mistyped", Tag(f.type) # Tag(c.type)))

\* buildMembershipFilter.
Membership(l, r) ==
  CASE IsExpression(l) \/ IsExpression(r) \/ (IsValue(l) /\ IsValue(r)) -> Refused
    [] IsField(l) /\ IsField(r) -> MemberIn(l, r)
    [] IsRelation(r) /\ r.entry = "list" -> AnyElementIn(r, {l.lit})
    [] IsRelation(r) -> Unless(r.far \/ (l.lit = Null /\ r.omitted), Condition(False))
    [] IsRelation(l) ->
         Unless(l.entry = "many", Oddly(AnyElementIn(l, Members[r.lit]), "listAsMember", TRUE))
    [] OTHER ->
         Oddly(Condition(ThroughHop(l, ConstantsIn(l, Members[r.lit]))),
               "emptyList", Members[r.lit] = {} /\ l.sql = Null)

\* rewriteMembership of `x in l + k`: in either, where l can be read.
InConcatenation(x, l, k) ==
  LET inList == Membership(x, l)
      inConstants == Membership(x, k)
      readable == SqlCompare("ge", IF l.rows = Undefined THEN Null ELSE Num(0), Num(0))
  IN [refused |-> Null \in Members[k.lit] \/ inList.refused \/ inConstants.refused,
      yes |-> Or({inList.yes, And({inConstants.yes, readable})}),
      no |-> And({inList.no, Or({inConstants.no, Not(readable)})}),
      odd |-> inList.odd]

\* buildListConstructorMembership, guardConstructorElements: a member that is a missing attribute
\* is an error of the whole list.
MissingMember(members) == \E i \in DOMAIN members : members[i].sql = Null /\ ~members[i].explicit
AnyOf(members, equalities) ==
  LET any == Or({equalities[i].yes : i \in DOMAIN members})
  IN [refused |-> \E i \in DOMAIN members : equalities[i].refused,
      yes |-> IF MissingMember(members) THEN Unknown ELSE any,
      no |-> IF MissingMember(members) THEN Unknown ELSE Not(any),
      odd |-> UNION {equalities[i].odd : i \in DOMAIN members}]
InConstructed(l, members) ==
  AnyOf(members, [i \in DOMAIN members |-> Comparison("eq", l, members[i])])

\* buildHasIntersectionFilter of a collection, and of a constant list on either side.
HasIntersectionSql(l, r) ==
  LET c == IF IsValue(r) THEN l ELSE r
      values == IF IsValue(r) THEN Members[r.lit] ELSE Members[l.lit]
  IN Unless(IsExpression(l) \/ IsExpression(r) \/ ~IsRelation(c) \/ (IsRelation(l) /\ IsRelation(r))
              \/ (c.entry = "many" /\ values # {}),
            IF values = {} THEN Condition(IF c.rows = Undefined THEN Unknown ELSE False)
            ELSE AnyElementIn(c, values))

\* buildStringMatchFilter, over columns, constants and string expressions.
StringMatch(l, r) ==
  LET wrong == \E f \in {l, r} : IsScalarColumn(f) /\ f.type # "str"
      is == IF Null \in {l.sql, r.sql} THEN Unknown ELSE StartsWith(l.sql, r.sql)
  IN CASE IsValue(r) /\ r.lit.t # "str" -> Refused
       [] wrong -> Condition(Unknown)
       [] OTHER -> Unless(\E f \in {l, r} : IsRelation(f) \/ (IsExpression(f) /\ f.throws),
                          Combined(l, r, is))

\* buildMatchesFilter: one field, one constant pattern.
Matches(l, r) ==
  CASE ~IsField(l) \/ IsRelation(l) \/ ~IsValue(r) \/ r.lit.t # "str" -> Refused
    [] l.type # "str" -> Condition(Unknown)
    [] OTHER -> Condition(ThroughHop(l, IF l.sql = Null THEN Unknown ELSE StartsWith(l.sql, r.lit)))

-----------------------------------------------------------------------------
(* values.ts: scalars *)

IsWholeConstant(f) == f.const # Undefined /\ ~IsFraction(f.const) /\ f.const # NaN
IsWholeLiteral(f) == IsValue(f) /\ IsWholeConstant(f)
IsIntColumn(f) == f.op = "int" /\ IsColumnOf(f.parts[1], {"int"})   \* integerConversionColumn

\* isCelIntExpression, isIntegerColumnDivisor, mixesIntWithDouble.
IsCelInt(op, args) ==
  \/ op \in {"int", "size", "count"}
  \/ /\ op \in Arithmetic
     /\ \A i \in 1 .. 2 : args[i].isInt \/ IsWholeLiteral(args[i])
     /\ \E i \in 1 .. 2 : args[i].isInt
IsDivisor(op, args) ==
  \/ op = "int" /\ IsColumnOf(args[1], {"int"})
  \/ /\ op \in {"add", "sub"}
     /\ \E i \in 1 .. 2 : IsIntColumn(args[i]) /\ IsWholeConstant(args[3 - i])
IsCertainDouble(f) == IsField(f) \/ (IsValue(f) /\ IsFraction(f.lit))

\* CEL's numbers taken to mix as JavaScript's do.
MixesIntWithDoubleNever(l, r) == FALSE

MixesIntWithDouble(l, r) == (l.isInt /\ IsCertainDouble(r)) \/ (IsCertainDouble(l) /\ r.isInt)

IsString(f) == f.static = "str" \/ f.celType = "str"

\* A store taken to divide as IEEE does.
SqlArithmeticIeee(op, a, b) == IF Null \in {a, b} THEN Null ELSE DoubleArithmetic(op, a, b)

\* What the store computes; a division by zero and a NaN are NULL in SQLite.
SqlArithmetic(op, a, b) ==
  CASE Null \in {a, b} -> Null
    [] op = "mod" -> IF b.v = 0 THEN Null ELSE Num(a.v - b.v * Truncated(a.v, b.v))
    [] op = "div" /\ Unsigned(b) = Num(0) -> Null
    [] OTHER -> LET result == DoubleArithmetic(op, a, b) IN IF result = NaN THEN Null ELSE Unsigned(result)

\* buildIntDivision truncates toward zero; a division of doubles is cast.
IntDivision(a, b) == IF a = Null \/ b = Num(0) THEN Null ELSE Num(2 * Truncated(a.v, b.v))

IsConcatenation(op, l, r) == op = "add" /\ (IsString(l) \/ IsString(r))

ArithmeticValue(op, l, r) ==
  CASE IsConcatenation(op, l, r) ->
         IF Null \in {l.sql, r.sql} THEN Null ELSE [t |-> "str", v |-> l.sql.v + r.sql.v]
    [] op = "mod" -> IF IsField(l) \/ IsField(r) THEN Null ELSE SqlArithmetic(op, l.sql, r.sql)
    [] MixesIntWithDouble(l, r) -> Null
    [] op = "div" /\ l.isInt /\ IsWholeLiteral(r) -> IntDivision(l.sql, r.sql)
    [] OTHER -> SqlArithmetic(op, l.sql, r.sql)

\* A modulus and an integer division are lowered only over int() of an integer column.
ArithmeticThrows(op, l, r) ==
  LET operands == l.throws \/ r.throws
      remainder == IsIntColumn(l) /\ (IF r.const = Undefined THEN r.divisor
                                      ELSE IsWholeConstant(r) /\ Unsigned(r.const) # Num(0))
      quotient == IsIntColumn(l) /\ IsWholeLiteral(r) /\ r.lit # Num(0)
  IN CASE IsConcatenation(op, l, r) -> operands
       [] op = "mod" -> ~(IsField(l) \/ IsField(r)) /\ (~remainder \/ operands)
       [] MixesIntWithDouble(l, r) -> FALSE
       [] op = "div" /\ (l.isInt \/ r.isInt) -> ~quotient \/ operands
       [] OTHER -> operands

\* buildSizeExpression: a correlated COUNT for whatever is reached through a relation.
SizeValue(f) ==
  CASE f.rows # Undefined -> Num(2 * Cardinality(Members[f.rows]))
    [] IsRelation(f) -> IF f.far THEN Null ELSE Num(0)
    [] f.hopped -> Num(IF f.present THEN 2 ELSE 0)
    [] f.type # "str" \/ f.sql = Null -> Null
    [] OTHER -> Num(2 * f.sql.v)

\* The value and the refusal of each operator in value position; a condition has neither.
ValueOf(op, args) ==
  CASE op \in Arithmetic -> ArithmeticValue(op, args[1], args[2])
    [] op = "size" -> SizeValue(args[1])
    [] op = "int" -> args[1].sql
    [] op = "string" ->
         IF args[1].sql # Null /\ args[1].sql.t = "bool" THEN CelConvert(op, args[1].sql) ELSE args[1].sql
    [] op = "if" -> CASE args[1].yes = True -> args[2].sql [] args[1].yes = False -> args[3].sql
                      [] OTHER -> Null
    [] OTHER -> Null
ValueThrows(op, args) ==
  CASE op \in Arithmetic -> ArithmeticThrows(op, args[1], args[2])
    [] op = "size" -> ~IsField(args[1])
    [] op = "int" -> ~IsColumnOf(args[1], {"int"}) \/ args[1].throws
    [] op = "string" -> ~IsColumnOf(args[1], {"str", "bool"}) \/ args[1].throws
    [] op = "if" -> args[1].refused \/ args[2].throws \/ args[3].throws
    [] OTHER -> TRUE

\* foldableArithmetic: % is not folded. resolveConstantNumber, findZeroCapableDivision and
\* foldWithSubstitution, for a node over what they are for its operands.
Fold(op, a, b) == IF Undefined \in {a, b} \/ op = "mod" THEN Undefined ELSE DoubleArithmetic(op, a, b)
ConstantOf(op, args) == IF op \in Arithmetic THEN Fold(op, args[1].const, args[2].const) ELSE Undefined

DivisionOf(op, args) ==
  LET own == op = "div" /\ ConstantOf(op, args) = Undefined /\ Unsigned(args[2].const) \in {Undefined, Num(0)}
      found == IF op \in Arithmetic THEN {i \in 1 .. 2 : args[i].division # <<>>} ELSE {}
      first == IF 1 \in found THEN 1 ELSE 2
      division == args[first].division[1]
      FoldWith(x) ==
        IF first = 1 THEN Fold(op, division.folds[x], args[2].const)
        ELSE Fold(op, args[1].const, division.folds[x])
  IN CASE own -> <<[num |-> args[1], den |-> args[2], folds |-> [x \in Substitutes |-> x]]>>
       [] found = {} -> <<>>
       [] OTHER -> <<[division EXCEPT !.folds = [x \in Substitutes |-> FoldWith(x)]]>>

\* scalarType, where the plan or the mapping settles it.
StaticOf(op, args) ==
  CASE op = "string" -> "str"
    [] op \in Arithmetic ->
         LET types == {args[1].static, args[2].static} IN
         IF op = "add" /\ "str" \in types THEN "str" ELSE IF "num" \in types THEN "num" ELSE "none"
    [] OTHER -> "none"

-----------------------------------------------------------------------------
(* collections.ts: lambdas. A body is a function over its collection's elements. *)

Rows(body) == DOMAIN body \ {NoRow}

\* A known list is unrolled, negation pushed into each body (buildKnownValueCollectionFilter,
\* buildConstructedListMacro).
Unrolled(op, over, body) ==
  LET yes == {body[e].yes : e \in Rows(body)}
      no == {body[e].no : e \in Rows(body)}
      missing == over.source = "constructed" /\ MissingMember(over.members)
      one == IF Unknown \in yes THEN Unknown
             ELSE Bool(Cardinality({e \in Rows(body) : body[e].yes = True}) = 1)
  IN [refused |-> \/ \E e \in Rows(body) : body[e].refused
                  \/ op = "existsOne" /\ over.source = "constructed",
      yes |-> CASE missing -> Unknown [] op = "exists" -> Or(yes) [] op = "all" -> And(yes) [] OTHER -> one,
      no |-> CASE missing -> Unknown [] op = "exists" -> And(no) [] op = "all" -> Or(no) [] OTHER -> Not(one),
      odd |-> UNION {body[e].odd : e \in Rows(body)}]

\* A body whose UNKNOWN is asked about: a conditional's may have become FALSE.
LosesUnknown(f) == f.yes # Unknown /\ f.cel = Err

\* An element for which the body is UNKNOWN witnesses nothing.
QuantifiedTwoValued(op, over, body) ==
  LET yes == {body[e].yes : e \in Rows(body)} IN
  CASE ~over.present -> Unknown
    [] op = "exists" -> Bool(True \in yes)
    [] op = "all" -> Bool(False \notin yes)
    [] OTHER -> Bool(Cardinality({e \in Rows(body) : body[e].yes = True}) = 1)

\* buildCollectionOperatorFilter: a CASE over the rows that decide, then those that are UNKNOWN.
Quantified(op, over, body) ==
  LET yes == {body[e].yes : e \in Rows(body)}
      one == IF Unknown \in yes THEN Unknown
             ELSE Bool(Cardinality({e \in Rows(body) : body[e].yes = True}) = 1)
  IN CASE ~over.present -> Unknown
       [] op = "exists" -> Or(yes)
       [] op = "all" -> And(yes)
       [] OTHER -> IF over.far THEN Exactly(one) ELSE one

QuantifiedCondition(op, over, body) ==
  LET odd == UNION {body[e].odd : e \in Rows(body)}
               \union {x \in {"ternary"} : \E e \in Rows(body) : LosesUnknown(body[e])}
               \union {x \in {"twoValued"} : op = "existsOne" /\ over.far
                                             /\ \E e \in Rows(body) : body[e].yes = Unknown}
  IN Unless(body[NoRow].refused,
            [Condition(Quantified(op, over, body)) EXCEPT !.odd = odd])

\* buildFilteredCount and buildKnownValueFilteredCount: NULL if the body is UNKNOWN for any element.
CountOf(over, body) ==
  IF ~over.present \/ \E e \in Rows(body) : body[e].yes = Unknown THEN Null
  ELSE Num(2 * Cardinality({e \in Rows(body) : body[e].yes = True}))

\* buildDerivedListMembership: `v in map(...)` and `v in filter(...)`, built as exists() under all().
BothHold(c, f) ==
  [refused |-> c.refused \/ f.refused, yes |-> And({c.yes, f.yes}), no |-> Or({c.no, f.no}),
   odd |-> c.odd \union f.odd]
EvaluatedIn(body) == [e \in DOMAIN body |-> Or({body[e].yes, body[e].no})]
Found(over, guards, matches) ==
  LET rows == DOMAIN matches \ {NoRow}
      envs == IF over.source = "relation" THEN DOMAIN matches ELSE rows
      evaluated == over.present /\ \A e \in rows : guards[e] = True
      exists == Or({matches[e].yes : e \in rows})
  IN [refused |-> over.source = "constructed" \/ \E e \in envs : matches[e].refused,
      yes |-> IF evaluated THEN exists ELSE Unknown,
      no |-> IF evaluated THEN Not(exists) ELSE Unknown,
      odd |-> UNION {matches[e].odd : e \in rows}]
InDerived(op, needle, over, body) ==
  LET Sought(e) == IF op = "inMap" THEN body[e] ELSE over.elements[e]
      equal == [e \in DOMAIN body |-> Comparison("eq", Sought(e), needle)]
      odd == {x \in {"ternary"} : op = "inFilter" /\ \E e \in Rows(body) : LosesUnknown(body[e])}
      found == IF op = "inMap" THEN Found(over, EvaluatedIn(equal), equal)
               ELSE Found(over, EvaluatedIn(body), [e \in DOMAIN body |-> BothHold(equal[e], body[e])])
  IN [found EXCEPT !.odd = @ \union odd]

\* rewriteListFunction: all() over an `or` of equalities.
ListFunction(op, over, values, body) ==
  LET Member(e) == Or({CompareFlat("eq", body[e], Literal(v)).yes : v \in values})
      every == [e \in DOMAIN body |-> [yes |-> IF op = "isSubset" THEN Member(e) ELSE Not(Member(e))]]
  IN Unless(Null \in values, Condition(Quantified("all", over, every)))

\* buildMappedIntersection, of one column of every row: UNKNOWN if any is NULL.
MapIntersects(over, values, body) ==
  LET rows == {ConstantsIn(body[e], values) : e \in Rows(body)}
      null == \E e \in Rows(body) : body[e].sql = Null
  IN Unless(over.source # "relation" \/ ~IsField(body[NoRow]) \/ body[NoRow].entry # "element"
              \/ values = {},
            IF over.far THEN Oddly(Condition(False), "farMap", TRUE)
            ELSE Condition(IF null THEN Unknown ELSE Bool(True \in rows)))

-----------------------------------------------------------------------------
(* What CEL computes *)

\* A literal beside an int is an int; an attribute's number is a double.
Operand(f, other) ==
  IF other.isInt /\ IsWholeLiteral(f) THEN Int64(f.cel.v) ELSE f.cel

CelMember(needle, f) ==
  IF f.entry = "many" THEN (IF Err \in {needle, f.cel} THEN Err ELSE False) ELSE In(Unsigned(needle), f.cel)

CelOf(op, args) ==
  LET l == args[1]
      r == args[2]
  IN CASE op \in Comparisons -> Compare(op, l.cel, r.cel)
       [] op \in Arithmetic -> CelArithmetic(op, Operand(l, r), Operand(r, l))
       [] op \in Junctions -> Junction(op = "or", {args[i].cel : i \in DOMAIN args})
       [] op = "not" -> Not(l.cel)
       [] op = "if" -> IfThenElse(l.cel, r.cel, args[3].cel)
       [] op = "in" -> CelMember(l.cel, r)
       [] op = "inConstructed" ->
            IF Err \in {args[i].cel : i \in 1 .. 3} THEN Err
            ELSE Bool(\E i \in 2 .. 3 : ValuesEqual(Unsigned(l.cel), Unsigned(args[i].cel)))
       [] op = "inConcatenated" ->
            IF Err \in {l.cel, r.cel} THEN Err
            ELSE Bool(\E m \in Members[r.cel] \union Members[args[3].cel] : ValuesEqual(Unsigned(l.cel), m))
       [] op = "hasIntersection" ->
            IF "many" \in {l.entry, r.entry} /\ Err \notin {l.cel, r.cel} THEN False
            ELSE HasIntersection(l.cel, r.cel)
       [] op \in {"startsWith", "matches"} -> StartsWith(l.cel, r.cel)
       [] op = "size" -> CelSize(l.cel)
       [] OTHER -> CelConvert(op, l.cel)

CelQuantified(op, over, needles, body) ==
  LET rows == Rows(body)
      cels == {body[e].cel : e \in rows}
      chosen == {e \in rows : body[e].cel = True}
  IN CASE ~over.present -> Err
       [] over.source = "constructed" /\ \E i \in DOMAIN over.members : over.members[i].cel = Err -> Err
       [] op = "exists" -> Junction(TRUE, cels)
       [] op = "all" -> Junction(FALSE, cels)
       [] op \in {"existsOne", "count", "inFilter"} /\ (\E x \in cels : AsBoolean(x) = Err) -> Err
       [] op = "existsOne" -> Bool(Cardinality(chosen) = 1)
       [] op = "count" -> CelInt(Cardinality(chosen))
       [] op = "inFilter" ->
            Bool(\E e \in chosen, x \in needles : ValuesEqual(Unsigned(over.elements[e].cel), Unsigned(x)))
       [] Err \in cels -> Err
       [] op = "isSubset" -> Bool(\A x \in cels : \E y \in needles : ValuesEqual(x, Unsigned(y)))
       [] op = "disjoint" -> Bool(\A x \in cels, y \in needles : ~ValuesEqual(x, Unsigned(y)))
       [] OTHER -> Bool(\E x \in cels, y \in needles : ValuesEqual(Unsigned(x), Unsigned(y)))

-----------------------------------------------------------------------------
(* Nodes *)

CelTypeOf(op, args) ==
  CASE op \in Arithmetic ->
         CASE IsCelInt(op, args) -> "int"
           [] IsConcatenation(op, args[1], args[2]) -> "str"
           [] {args[1].celType, args[2].celType} = {"dyn"} /\ op = "add" -> "dyn"
           [] OTHER -> "double"
    [] op \in {"int", "size"} -> "int"
    [] op = "string" -> "str"
    [] op = "if" -> IF args[2].celType = args[3].celType THEN args[2].celType ELSE "dyn"
    [] OTHER -> "bool"

\* The polarity of a junction follows the negation pushed into it.
JunctionOf(op, args) ==
  LET yes == {args[i].yes : i \in DOMAIN args}
      no == {args[i].no : i \in DOMAIN args}
  IN [refused |-> \E i \in DOMAIN args : args[i].refused, odd |-> {},
      yes |-> IF op = "and" THEN And(yes) ELSE Or(yes),
      no |-> IF op = "and" THEN Or(no) ELSE And(no)]

\* buildFilterFromExpression.
ConditionOf(op, args) ==
  CASE op \in Junctions -> JunctionOf(op, args)
    [] op = "not" -> [refused |-> args[1].refused, yes |-> args[1].no, no |-> args[1].yes, odd |-> {}]
    [] op = "if" -> Conditional(args[1], args[2], args[3])
    [] op \in Comparisons -> Comparison(op, args[1], args[2])
    [] op = "in" -> Membership(args[1], args[2])
    [] op = "inConstructed" -> InConstructed(args[1], <<args[2], args[3]>>)
    [] op = "inConcatenated" -> InConcatenation(args[1], args[2], args[3])
    [] op = "hasIntersection" -> HasIntersectionSql(args[1], args[2])
    [] op = "startsWith" -> StringMatch(args[1], args[2])
    [] op = "matches" -> Matches(args[1], args[2])
    [] OTHER -> Refused

IsScalarOf(op) == op \in Arithmetic \union {"size", "int", "string", "if"}

\* A condition that was UNKNOWN decides a branch.
TernaryOdd(op, args) ==
  \/ op = "if" /\ LosesUnknown(args[1])
  \/ op \in Comparisons /\ \E i \in 1 .. 2 : args[i].op = "if" /\ LosesUnknown(args[i].parts[1])

\* A computed scalar is NULL where CEL raises, so that null is not sought among its values.
ComputedNull(op, args) ==
  op \in Equalities /\ \E i \in 1 .. 2 : IsExpression(args[i]) /\ args[3 - i].cel = Null

IsNumber(x) == x.t = "int64" \/ IsDouble(x)
Mistyped(op, a, b) ==
  Err \notin {a, b} /\ ~(IsNumber(a) /\ IsNumber(b)) /\ ~(op = "add" /\ a.t = "str" /\ b.t = "str")

\* mixesIntWithDouble tells a double by its syntax.
HiddenDouble(l, r) ==
  /\ {Operand(l, r).t, Operand(r, l).t} \in {{"int64", type} : type \in {"num", "nan", "negzero"}}
  /\ ~IsCertainDouble(l) /\ ~IsCertainDouble(r)

Assembled(op, args, c, value, cel) ==
  [Blank EXCEPT !.op = op, !.celType = CelTypeOf(op, args), !.static = StaticOf(op, args),
     !.const = ConstantOf(op, args), !.isInt = IsCelInt(op, args),
     !.divisor = IsDivisor(op, args), !.division = DivisionOf(op, args),
     !.parts = IF op \in {"if", "int", "string"} THEN args ELSE <<>>,
     !.throws = ValueThrows(op, args), !.sql = value, !.cel = cel,
     !.refused = c.refused, !.yes = c.yes, !.no = c.no,
     !.odd = UNION {args[i].odd : i \in DOMAIN args} \union c.odd
               \union {x \in {"ternary"} : TernaryOdd(op, args)}
               \union {x \in {"relationSize"} : op = "size" /\ args[1].rows # Undefined /\ ~IsRelation(args[1])}
               \union {x \in {"relationSize"} : op = "size" /\ args[1].hopped}
               \union {x \in {"intOverflow"} : IsCelInt(op, args) /\ op \in Arithmetic /\ cel = Err /\ value # Null}
               \union {x \in {"hiddenDouble"} : op \in Arithmetic /\ HiddenDouble(args[1], args[2])}
               \union {x \in {"mistyped"} : op \in Arithmetic /\ Mistyped(op, args[1].cel, args[2].cel)},
     !.blurred = \/ ComputedNull(op, args)
                 \/ \E i \in DOMAIN args : args[i].blurred
                 \/ IsScalarOf(op) /\ value = Null /\ cel # Err]
Reading(op, args) ==
  Assembled(op, args, ConditionOf(op, args), IF IsScalarOf(op) THEN ValueOf(op, args) ELSE Null, CelOf(op, args))

\* rewriteMembership of `c in l.map(t, t.f)`: the lambda's body is its element.
IsBareMap(op, over, needles, body) == op = "inMap" /\ body = over.elements /\ Null \notin needles

\* A lambda applied to its collection; needles are the constants a derived list is searched for.
AssembledMacro(op, over, needles, body, c) ==
  [Blank EXCEPT !.op = op, !.celType = IF op = "count" THEN "int" ELSE "bool", !.isInt = (op = "count"),
     !.throws = \/ op # "count" \/ over.source = "constructed"
                \/ \E e \in IF over.source = "relation" THEN DOMAIN body ELSE Rows(body) : body[e].refused,
     !.sql = IF op = "count" THEN CountOf(over, body) ELSE Null,
     !.cel = CelQuantified(op, over, needles, body),
     !.refused = c.refused, !.yes = c.yes, !.no = c.no,
     !.odd = c.odd \union (UNION {body[e].odd : e \in Rows(body)})
               \union {x \in {"ternary"} : op \in {"count", "existsOne"} /\ \E e \in Rows(body) : LosesUnknown(body[e])},
     !.blurred = \/ \E e \in Rows(body) : body[e].blurred
                 \/ (op = "mapIntersects" \/ IsBareMap(op, over, needles, body))
                      /\ \E e \in Rows(body) : body[e].cel = Null]
MacroReading(op, over, needles, body) ==
  AssembledMacro(op, over, needles, body,
    CASE op \in Quantifiers /\ over.source # "relation" -> Unrolled(op, over, body)
      [] op \in Quantifiers -> QuantifiedCondition(op, over, body)
      [] IsBareMap(op, over, needles, body) -> MapIntersects(over, {Unsigned(x) : x \in needles}, body)
      [] op \in {"inMap", "inFilter"} -> InDerived(op, Literal(CHOOSE x \in needles : TRUE), over, body)
      [] op = "mapIntersects" -> MapIntersects(over, needles, body)
      [] op \in ListFunctions -> ListFunction(op, over, needles, body)
      [] OTHER -> Refused)

Nowhere == [source |-> "none", name |-> <<"none">>, present |-> TRUE, far |-> FALSE,
            elements |-> <<>>, members |-> <<>>]

At(n, e) == IF Root \in DOMAIN n.in THEN n.in[Root] ELSE n.in[e]
OnRoot(reading) == [over |-> Nowhere, in |-> [e \in {Root} |-> reading]]

\* The collection the operands of an operator are read under: one at most.
Scopes(args) == {args[i].over.name : i \in DOMAIN args} \ {Nowhere.name}
ScopeOf(args) ==
  IF Scopes(args) = {} THEN Nowhere
  ELSE LET i == CHOOSE j \in DOMAIN args : args[j].over.name # Nowhere.name IN args[i].over
Envs(over) == IF over.source = "none" THEN {Root} ELSE DOMAIN over.elements

ExpressionNode(op, args) ==
  LET over == ScopeOf(args) IN
  [over |-> over, in |-> [e \in Envs(over) |-> Reading(op, [i \in DOMAIN args |-> At(args[i], e)])]]

MacroNode(op, needles, n) == OnRoot(MacroReading(op, n.over, needles, n.in))

-----------------------------------------------------------------------------
(* The plans explored *)

Numeric == {"int", "double", "number"}
Compatible(a, b) == "dyn" \in {a, b} \/ a = b \/ {a, b} \subseteq Numeric

\* What is evaluated as a condition: a boolean, or an error.
IsCondition(f) ==
  /\ f.celType \in {"bool", "dyn"} /\ ~IsRelation(f)
  /\ IsField(f) => f.type = "bool" /\ f.cel.t \in {"bool", "error"}
  /\ f.op = "if" => \A i \in 2 .. 3 : ~IsField(f.parts[i]) \/ f.parts[i].cel.t \in {"bool", "error"}
  /\ f.op = "if" => \A i \in 2 .. 3 : f.parts[i].celType = "bool" \/ f.parts[i].type = "bool"

Overload(op, l, r) ==
  \/ {l, r} \subseteq Numeric \union {"dyn"} /\ {l, r} # {"int", "double"}
  \/ op = "add" /\ {l, r} \subseteq {"str", "dyn"}

IsListOperand(f) == (IsValue(f) /\ f.lit.t = "list") \/ IsRelation(f)

\* What a policy's type-checker accepts; membership only in what the application sends as a list.
WellTyped(op, a) ==
  /\ op \in Junctions \union {"not"} => \A i \in DOMAIN a : IsCondition(a[i])
  /\ op \in Comparisons => Compatible(a[1].celType, a[2].celType)
  /\ op \in Orderings => \A i \in 1 .. 2 : a[i].celType \notin {"null", "list"}
  /\ op \in Arithmetic => Overload(op, a[1].celType, a[2].celType)
  /\ op = "if" => /\ IsCondition(a[1])
                  /\ Compatible(a[2].celType, a[3].celType)
                  /\ \A i \in 2 .. 3 : a[i].op # "if" /\ ~IsRelation(a[i])
  /\ op \in {"in", "hasIntersection"} => IsListOperand(a[2])
  /\ op = "in" => ~(IsValue(a[1]) /\ IsListOperand(a[1]))
  /\ op = "hasIntersection" => IsListOperand(a[1])
  /\ op = "inConcatenated" =>
       /\ a[1].entry = "field" /\ a[2].entry = "list" /\ IsValue(a[3]) /\ a[3].lit.t = "list"
       /\ a[3].celType = "list" /\ ~IsRelation(a[1])
  /\ op = "inConstructed" => \A i \in 2 .. 3 : a[i].entry = "field"
  /\ op \in {"startsWith", "matches"} => \A i \in 1 .. 2 : a[i].celType \in {"str", "dyn"}
  /\ op \in {"int", "string"} => IsField(a[1]) /\ ~IsRelation(a[1])
  /\ op = "size" => IsField(a[1])

\* A literal would have been folded by the planner, but for a division that IEEE defines.
Interesting(op, a) ==
  \/ \E i \in DOMAIN a : ~IsValue(a[i])
  \/ op = "div" /\ a[1].lit.t = "num" /\ a[2].lit = Num(0)

AdmittedNode(n) ==
  \A e \in DOMAIN n.in \ {NoRow} :
    /\ n.in[e].odd \subseteq Admitted
    /\ n.in[e].const # Undefined /\ n.in[e].op \in {"add", "sub"} => IsFinite(n.in[e].const)

-----------------------------------------------------------------------------
(* Behaviour *)

Init ==
  /\ option \in {"explicit", "omitted"}
  /\ mapper = <<>>
  /\ row = <<>>
  /\ sent = <<>>
  /\ stack = <<>>
  /\ nodes = 0
  /\ phase = "reading"
  /\ root = Null
  /\ matched = FALSE
  /\ returned = FALSE

\* What is left of the bound can still join the stack.
Room(rest) ==
  phase = "reading" /\ nodes < MaxNodes /\ Len(rest) <= 2 * (MaxNodes - (nodes + 1))

Read(rest, n) ==
  /\ Room(rest)
  /\ nodes' = nodes + 1
  /\ AdmittedNode(n)
  /\ stack' = Append(rest, n)
  /\ UNCHANGED <<option, phase, root, matched, returned>>

IsSentNull(m) == (IF m.nulls = "undeclared" THEN option ELSE m.nulls) = "explicit"

ColumnCells(m) ==
  {x \in Cells : x.t \in {"null", Tag(m.type)} /\ (m.type = "int" => ~IsFraction(x) /\ Abs(x.v) <= 2 * Int64Max)}
Lists(m) == {x \in DOMAIN Members : x.t = "list" /\ Members[x] \subseteq ColumnCells(m)}
Stored(m) ==
  CASE m.shape = "field" -> ColumnCells(m)
    [] m.shape = "one" -> ColumnCells(m) \union {Undefined}
    [] m.far -> Lists(m) \union {Undefined}
    [] OTHER -> Lists(m)

\* What the application sent for what is stored: of a double, the store lost a zero's sign.
SentFor(m, x) ==
  CASE x = Undefined -> {Err}
    [] x = Null -> {IF IsSentNull(m) THEN Null ELSE Err}
    [] x = Num(0) /\ m.type = "num" -> {x, NegativeZero}
    [] OTHER -> {x}

\* The first reading of an attribute decides how it is mapped, what is stored and what was sent.
Decide(r) ==
  IF r \in DOMAIN mapper THEN UNCHANGED <<mapper, row, sent>>
  ELSE \E m \in Entries : \E x \in Stored(m) : \E attribute \in SentFor(m, x) :
         LET keys == DOMAIN mapper \union {r} IN
         /\ mapper' = [q \in keys |-> IF q = r THEN m ELSE mapper[q]]
         /\ row' = [q \in keys |-> IF q = r THEN x ELSE row[q]]
         /\ sent' = [q \in keys |-> IF q = r THEN attribute ELSE sent[q]]

\* resolveFieldReference, resolveRelationField.
Reference(r) ==
  IF mapper'[r].shape \in {"list", "many"} THEN Collection(r, mapper'[r], option, row'[r])
  ELSE Column(mapper'[r], option, row'[r], sent'[r])

ReadVariable ==
  \E r \in Refs :
    /\ Cardinality(DOMAIN mapper \union {r}) <= MaxRefs
    /\ Decide(r)
    /\ Read(stack, OnRoot(Reference(r)))

LambdaOver(source, name, present, far, elements, members) ==
  Read(stack, [over |-> [source |-> source, name |-> <<source, name>>, present |-> present,
                         far |-> far, elements |-> elements, members |-> members],
               in |-> elements])

\* The variable of a lambda over a constant list, substituted in its body.
ReadLiteralElement ==
  \E x \in {y \in Literals : y.t = "list" /\ Members[y] # {}} :
    /\ LambdaOver("literal", x, TRUE, FALSE, [m \in Members[x] |-> Literal(m)], <<>>)
    /\ UNCHANGED <<mapper, row, sent>>

\* The element of a collection, or the field of one.
ReadElement ==
  \E r \in Refs :
    /\ Cardinality(DOMAIN mapper \union {r}) <= MaxRefs
    /\ Decide(r)
    /\ mapper'[r].shape \in {"list", "many"}
    /\ LET present == row'[r] # Undefined
           elements == IF present THEN Members[row'[r]] ELSE {}
       IN LambdaOver("relation", r, present, mapper'[r].far,
            [x \in elements \union {NoRow} |-> ElementOfLambda(r, mapper'[r], option, row'[r], x)], <<>>)

\* The variable of a lambda over a list built from two attributes.
ReadConstructedElement ==
  \E r, q \in DOMAIN mapper :
    /\ r # q /\ mapper[r].shape = "field" /\ mapper[q].shape = "field"
    /\ UNCHANGED <<mapper, row, sent>>
    /\ LET members == <<Reference(r), Reference(q)>> IN
       LambdaOver("constructed", <<r, q>>, TRUE, FALSE,
                  [i \in {Num(1), Num(2)} |-> members[i.v]], members)

Width(op) ==
  IF op \in {"not", "size", "int", "string"} THEN 1 ELSE IF op \in {"if", "inConstructed", "inConcatenated"} THEN 3 ELSE 2

Top(n) == SubSeq(stack, Len(stack) - n + 1, Len(stack))
Under(n) == SubSeq(stack, 1, Len(stack) - n)
Constants == {OnRoot(Literal(x)) : x \in Literals}

\* The operands of an operator: read before it, a constant in the place of one or two of them.
Operands(op) ==
  LET read == IF Width(op) <= Len(stack) THEN {<<Top(Width(op)), Width(op)>>} ELSE {}
      one == IF Len(stack) = 0 \/ Width(op) # 2 THEN {}
             ELSE UNION {{<<<<Top(1)[1], c>>, 1>>, <<<<c, Top(1)[1]>>, 1>>} : c \in Constants}
      branch == IF Len(stack) < 2 \/ op \notin {"if", "inConcatenated"} THEN {}
                ELSE {<<<<Top(2)[1], Top(2)[2], c>>, 2>> : c \in Constants}
      none == IF op # "div" THEN {} ELSE {<<<<c, d>>, 0>> : c, d \in Constants}
      needle == IF op # "inConstructed" \/ Len(stack) < 2 THEN {}
                ELSE {<<<<c, Top(2)[1], Top(2)[2]>>, 2>> : c \in Constants}
  IN read \union one \union branch \union none \union needle

WellFormedPlan(op, args) ==
  /\ Cardinality(Scopes(args)) <= 1
  /\ \A e \in Envs(ScopeOf(args)) :
       LET a == [i \in DOMAIN args |-> At(args[i], e)] IN WellTyped(op, a) /\ Interesting(op, a)

ReadExpression ==
  /\ nodes < MaxNodes
  /\ \E op \in Operators \ Macros : \E choice \in Operands(op) :
       /\ Room(Under(choice[2]))
       /\ WellFormedPlan(op, choice[1])
       /\ Read(Under(choice[2]), ExpressionNode(op, choice[1]))
  /\ UNCHANGED <<mapper, row, sent>>

\* The constants a derived list is searched for, or none.
Needles(op) ==
  CASE op \in {"inMap", "inFilter"} -> {{x} : x \in {y \in Literals : y.t # "list"}}
    [] op \in ListFunctions \union {"mapIntersects"} -> {Members[x] : x \in {y \in Literals : y.t = "list"}}
    [] OTHER -> {{}}

ReadMacro ==
  /\ Len(stack) > 0 /\ Room(Under(1)) /\ Top(1)[1].over.source # "none"
  /\ \E op \in Operators \intersect Macros : \E needles \in Needles(op) :
       LET body == Top(1)[1].in IN
       /\ op \in Quantifiers \union {"count", "inFilter"} => \A e \in DOMAIN body : e = NoRow \/ IsCondition(body[e])
       /\ op \in ListFunctions =>
            /\ Top(1)[1].over.source = "relation" /\ body = Top(1)[1].over.elements
            /\ mapper[Top(1)[1].over.name[2]].shape = "list"
       /\ op \in {"inMap", "mapIntersects"} =>
            \A e \in DOMAIN body : \A x \in needles :
              Compatible(body[e].celType, Literal(x).celType) /\ ~IsRelation(body[e])
       /\ Read(Under(1), MacroNode(op, needles, Top(1)[1]))
  /\ UNCHANGED <<mapper, row, sent>>

\* queryPlanToDrizzle of a conditional plan.
Translate ==
  /\ phase = "reading"
  /\ Len(stack) = 1 /\ stack[1].over.source = "none"
  /\ LET f == stack[1].in[Root] IN
     /\ IsCondition(f)
     /\ root' = f.cel
     /\ phase' = IF f.refused THEN "refused" ELSE "translated"
     /\ matched' = (~f.refused /\ f.yes = True)
  /\ stack' = <<>>
  /\ UNCHANGED <<option, mapper, row, sent, nodes, returned>>

\* ALWAYS_ALLOWED and ALWAYS_DENIED carry no filter; a caller runs no query for the latter.
TranslateUnconditional ==
  /\ phase = "reading" /\ nodes = 0
  /\ \E answer \in BOOLEAN : root' = Bool(answer) /\ matched' = answer
  /\ phase' = "translated"
  /\ UNCHANGED <<option, mapper, row, sent, stack, nodes, returned>>

\* The caller's query.
RunQuery ==
  /\ phase = "translated"
  /\ phase' = "answered"
  /\ returned' = matched
  /\ UNCHANGED <<option, mapper, row, sent, stack, nodes, root, matched>>

Next ==
  \/ ReadVariable \/ ReadLiteralElement \/ ReadElement \/ ReadConstructedElement
  \/ ReadExpression \/ ReadMacro \/ Translate \/ TranslateUnconditional \/ RunQuery

Spec == Init /\ [][Next]_vars

-----------------------------------------------------------------------------
(* Properties *)

SqlScalars == {"null", "num", "str", "bool", "list"}
TruthValues == {True, False, Unknown}

\* Type correctness of the call: what the store computes has a SQL value, and no integer of CEL's.
TypeOK ==
  /\ option \in {"explicit", "omitted"}
  /\ DOMAIN mapper \subseteq Refs /\ DOMAIN row = DOMAIN mapper /\ DOMAIN sent = DOMAIN mapper
  /\ \A r \in DOMAIN mapper : mapper[r] \in Entries /\ row[r] \in Stored(mapper[r])
  /\ nodes \in 0 .. MaxNodes
  /\ \A i \in DOMAIN stack : \A e \in DOMAIN stack[i].in : LET f == stack[i].in[e] IN
       f.sql.t \in SqlScalars /\ f.yes \in TruthValues /\ f.no \in TruthValues
  /\ phase \in {"reading", "refused", "translated", "answered"}
  /\ matched \in BOOLEAN /\ returned \in BOOLEAN

\* The readings of the operands read so far, outside the body no element is bound in.
Evaluated == UNION {{stack[i].in[e] : e \in DOMAIN stack[i].in \ {NoRow}} : i \in DOMAIN stack}
Conditions == {f \in Evaluated : IsCondition(f) /\ ~f.refused}

\* What the filter selects CEL allows, and what the filter under a negation selects CEL denies:
\* never an error, although the two are translated apart.
MatchesProven ==
  \A f \in Conditions : (f.yes = True => f.cel = True) /\ (f.no = True => f.cel = False)

\* With every null declared, nothing is lost either: the filter selects a row exactly when CEL
\* allows it, and its negation exactly when CEL denies it without an error.
DeclaredIsExact ==
  \A f \in Conditions : ~f.blurred => ((f.cel = True => f.yes = True) /\ (f.cel = False => f.no = True))

\* A scalar the store computes is the one CEL computes, and NULL where CEL raises.
ScalarsAgree ==
  \A f \in Evaluated : ~f.throws /\ f.sql # Null => f.sql = Erased(f.cel)

Outcome == IF phase = "reading" THEN "pending" ELSE phase

Verdict ==
  IF phase = "reading" THEN "unknown"
  ELSE IF root = True THEN "allow" ELSE IF root = False THEN "deny" ELSE "error"

Contract == INSTANCE AdapterContract WITH outcome <- Outcome, verdict <- Verdict, lossy <- TRUE

\* The adapter implements the contract of a store that may lose a row, but never returns one CEL
\* does not allow: NULL does not tell an attribute that was sent as null from one that was not.
ImplementsContract == Contract!Spec
=============================================================================
