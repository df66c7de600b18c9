---------------------------- MODULE ConvexProofs ----------------------------
(***************************************************************************)
(* What TLAPS proves of the Convex adapter, for any attributes, literals,  *)
(* documents and size of plan.                                             *)
(***************************************************************************)
EXTENDS ConvexAdapter, FiniteSetTheorems, SequenceTheorems, TLAPS

\* What the exactness results assume of the caller: no attribute holds an int64, and none that is
\* always present and used as a condition holds anything but a boolean. Both are needed: with
\* MistypedConditions set, or an int64 among DocValues, TLC finds a record that is not exact.
CelTyped == ~MistypedConditions /\ \A x \in DocValues : x.t # "int64"

-----------------------------------------------------------------------------
(* Values *)

\* The constants and the booleans are values.
LEMMA ValueFacts ==
  /\ True \in Value /\ False \in Value /\ Null \in Value /\ Undefined \in Value /\ Err \in Value
  /\ True \in CelValue /\ False \in CelValue /\ Null \in CelValue /\ Err \in CelValue
  /\ \A b \in BOOLEAN : Bool(b) \in CelValue
  /\ CelValue \subseteq Value
  /\ True # False /\ True # Err /\ False # Err /\ Null # Err
BY DEF CelValue, Value, Types, Scalars, WellFormed, True, False, Bool, Null, Undefined, Err

\* A collection of the model is a value.
LEMMA CollectionIsValue == \A x \in DOMAIN Members : x \in CelValue
BY MembersAssumption DEF CelValue, Value, Types, Scalars, WellFormed

\* Reading a value as a boolean gives CEL's three outcomes.
LEMMA AsBooleanCases ==
  \A x \in Value : /\ AsBoolean(x) \in {True, False, Err}
                   /\ AsBoolean(x) = True <=> x = True
                   /\ AsBoolean(x) = False <=> x = False
BY DEF Value, WellFormed, AsBoolean, True, False, Err

\* The engine's guarded comparison of a present field with a literal is CEL's, under either
\* polarity (equalityRule and orderingRule of pushdown.ts).
LEMMA ComparisonExact ==
  ASSUME NEW op \in Comparisons, NEW f \in Value, NEW l \in Value,
         f.t \notin {"undefined", "error", "int64", "bytes"},
         l.t \notin {"undefined", "error", "int64", "bytes"}
  PROVE  /\ EmitComparison(op, f, l, FALSE) <=> CompareValues(op, f, l) = True
         /\ EmitComparison(op, f, l, TRUE) <=> CompareValues(op, f, l) = False
<1>1. Err \notin {f, l} /\ f.v \in Int /\ l.v \in Int
  BY DEF Err, Value
<1>2. CASE op \in Equalities
  <2>1. ValuesEqual(f, l) <=> f = l
    BY DEF ValuesEqual, IsNumeric, Value
  <2>2. EmitComparison(op, f, l, FALSE) <=> EngineCompare(op, f, l)
    BY <1>2 DEF EmitComparison, Equalities, Orderings
  <2>3. EmitComparison(op, f, l, TRUE) <=> ~EngineCompare(op, f, l)
    BY <1>2 DEF EmitComparison, Equalities, Orderings
  <2>4. CASE op = "eq"
    <3>1. CompareValues(op, f, l) = Bool(ValuesEqual(f, l))
      BY <1>1, <2>4 DEF CompareValues
    <3>2. EngineCompare(op, f, l) <=> f = l
      BY <2>4 DEF EngineCompare
    <3> QED BY <2>1, <2>2, <2>3, <3>1, <3>2, ValueFacts DEF Bool
  <2>5. CASE op = "ne"
    <3>1. CompareValues(op, f, l) = Bool(~ValuesEqual(f, l))
      BY <1>1, <2>5 DEF CompareValues
    <3>2. EngineCompare(op, f, l) <=> f # l
      BY <2>5 DEF EngineCompare
    <3> QED BY <2>1, <2>2, <2>3, <3>1, <3>2, ValueFacts DEF Bool
  <2> QED BY <1>2, <2>4, <2>5 DEF Equalities
<1>3. CASE op \in Orderings
  <2>1. SameTypeAs(l, f) <=> SameOrderedType(f, l)
    BY Int64MaxAssumption
       DEF SameTypeAs, SameOrderedType, IsNumeric, EngineCompare, EngineLess, Rank,
           Value, Types, Scalars, WellFormed, True, False, Bool
  <2>2. ASSUME SameOrderedType(f, l) PROVE EngineCompare(op, f, l) <=> Ordered(op, f.v, l.v)
    <3>1. EngineLess(f, l) <=> f.v < l.v
      BY <1>1, <2>2 DEF SameOrderedType, IsNumeric, EngineLess, Rank
    <3>2. EngineLess(l, f) <=> l.v < f.v
      BY <1>1, <2>2 DEF SameOrderedType, IsNumeric, EngineLess, Rank
    <3> QED BY <1>1, <1>3, <3>1, <3>2 DEF EngineCompare, Ordered, Orderings
  <2>3. CompareValues(op, f, l) =
          IF SameOrderedType(f, l) THEN Bool(Ordered(op, f.v, l.v)) ELSE Err
    BY <1>1, <1>3 DEF CompareValues, Orderings
  <2>4. CASE SameOrderedType(f, l)
    <3>1. CompareValues(op, f, l) = Bool(Ordered(op, f.v, l.v))
      BY <2>3, <2>4
    <3>2. EmitComparison(op, f, l, FALSE) <=> Ordered(op, f.v, l.v)
      BY <1>3, <2>1, <2>2, <2>4 DEF EmitComparison
    <3>3. EmitComparison(op, f, l, TRUE) <=> ~Ordered(op, f.v, l.v)
      BY <1>3, <2>1, <2>2, <2>4 DEF EmitComparison
    <3> QED BY <3>1, <3>2, <3>3, ValueFacts DEF Bool
  <2>5. CASE ~SameOrderedType(f, l)
    BY <1>3, <2>1, <2>3, <2>5, ValueFacts DEF EmitComparison
  <2> QED BY <2>4, <2>5
<1> QED BY <1>2, <1>3 DEF Comparisons

\* `5 < x` is `x > 5`.
LEMMA MirroredComparison ==
  ASSUME NEW op \in Comparisons, NEW f \in Value, NEW l \in Value
  PROVE  /\ Mirrored(op) \in Comparisons
         /\ CompareValues(op, l, f) = CompareValues(Mirrored(op), f, l)
<1>1. ValuesEqual(l, f) <=> ValuesEqual(f, l)
  BY DEF ValuesEqual, IsNumeric
<1>2. SameOrderedType(l, f) <=> SameOrderedType(f, l)
  BY DEF SameOrderedType, IsNumeric
<1>3. f.v \in Int /\ l.v \in Int
  BY DEF Value
<1>4. CASE op \in Equalities
  <2>1. Mirrored(op) = op
    BY <1>4 DEF Mirrored, Equalities
  <2> QED BY <1>1, <1>4, <2>1 DEF CompareValues, Equalities, Bool
<1>5. CASE op \in Orderings
  <2>1. Mirrored(op) \in Orderings
    BY <1>5 DEF Mirrored, Orderings
  <2>2. Ordered(op, l.v, f.v) <=> Ordered(Mirrored(op), f.v, l.v)
    BY <1>3, <1>5 DEF Ordered, Mirrored, Orderings
  <2>3. \A o \in Orderings : o # "eq" /\ o # "ne"
    BY DEF Orderings
  <2> QED BY <1>2, <1>5, <2>1, <2>2, <2>3 DEF CompareValues, Comparisons, Bool
<1> QED BY <1>4, <1>5 DEF Comparisons
-----------------------------------------------------------------------------
(* Types *)

\* A junction of values is one of CEL's three outcomes.
LEMMA JunctionType ==
  ASSUME NEW S, NEW d \in BOOLEAN
  PROVE  Junction(d, S) \in {True, False, Err}
BY DEF Junction, Bool

\* Every outcome of every operator is a value.
LEMMA EvaluateType ==
  ASSUME NEW op \in AllOperators, NEW args \in Seq(Node), Len(args) \in Widths(op),
         NEW x \in Evaluate(op, args)
  PROVE  x \in CelValue
<1>1. \A i \in 1 .. Len(args) : args[i].val \in CelValue
  <2>1. \A i \in 1 .. Len(args) : args[i] \in Node
    OBVIOUS
  <2>2. \A n \in Node : n.val \in CelValue
    BY DEF Node
  <2> QED BY <2>1, <2>2
<1>2. CASE op \in {"and", "or"}
  <2>1. x = Junction(FALSE, Vals(args)) \/ x = Junction(TRUE, Vals(args))
    BY <1>2 DEF Evaluate, Comparisons, Equalities, Orderings
  <2>2. Junction(FALSE, Vals(args)) \in CelValue /\ Junction(TRUE, Vals(args)) \in CelValue
    BY JunctionType, ValueFacts
  <2> QED BY <2>1, <2>2
<1>3. CASE op = "not"
  <2>1. x = Not(args[1].val)
    BY <1>3 DEF Evaluate, Comparisons, Equalities, Orderings
  <2> QED BY <2>1, ValueFacts DEF Not, Bool
<1>4. CASE op \in Comparisons
  <2>1. x = CompareValues(op, args[1].val, args[2].val)
    BY <1>4 DEF Evaluate, Comparisons, Equalities, Orderings
  <2> QED BY <2>1, ValueFacts DEF CompareValues, Bool
<1>5. CASE op = "in"
  BY <1>5, ValueFacts DEF Evaluate, Comparisons, Equalities, Orderings, In, Bool
<1>6. CASE op = "startsWith"
  BY <1>6, ValueFacts DEF Evaluate, Comparisons, Equalities, Orderings, StringTest
<1>7. CASE op = "if"
  <2>1. args[2].val \in CelValue /\ args[3].val \in CelValue
    <3>1. Len(args) = 3
      BY <1>7 DEF Widths, Junctions
    <3> QED BY <1>1, <3>1
  <2>2. x = If(args[1].val, args[2].val, args[3].val)
    BY <1>7 DEF Evaluate, Comparisons, Equalities, Orderings
  <2> QED BY <2>1, <2>2, ValueFacts DEF If
<1>8. CASE op = "size"
  <2>1. x = Size(args[1].val)
    BY <1>8 DEF Evaluate, Comparisons, Equalities, Orderings
  <2>2. args[1].val \in CelValue
    BY <1>1, <1>8 DEF Widths, Junctions
  <2>3. \A n \in Int : [t |-> "num", v |-> n] \in CelValue
    BY DEF CelValue, Value, Types, Scalars, WellFormed
  <2>4. CASE IsCollection(args[1].val)
    <3>1. IsFiniteSet(Members[args[1].val])
      BY <2>2, <2>4, MembersAssumption DEF CelValue, Value, WellFormed, IsCollection
    <3>2. Cardinality(Members[args[1].val]) \in Int
      BY <3>1, FS_CardinalityType
    <3> QED BY <2>1, <2>3, <2>4, <3>2, ValueFacts DEF Size, IsCollection
  <2>5. CASE ~IsCollection(args[1].val)
    BY <2>1, <2>3, <2>5, ValueFacts DEF Size
  <2> QED BY <2>4, <2>5
<1>9. CASE op = "filter"
  BY <1>9, ValueFacts, CollectionIsValue DEF Evaluate, Comparisons, Equalities, Orderings, Filter
<1>10. CASE op = "exists"
  BY <1>10, ValueFacts DEF Evaluate, Comparisons, Equalities, Orderings, Quantifier
<1>11. CASE op = "unknown"
  BY <1>11, ValueFacts DEF Evaluate, Comparisons, Equalities, Orderings
<1> QED
  BY <1>2, <1>3, <1>4, <1>5, <1>6, <1>7, <1>8, <1>9, <1>10, <1>11
  DEF AllOperators, Conditions, Junctions, PostOnly

\* The record of a leaf, and of an expression over well-typed operands, is well typed.
LEMMA ValueNodeType == \A x \in CelValue : ValueNode(x) \in Node
BY ValueFacts DEF ValueNode, Node

LEMMA VariableNodeType ==
  ASSUME TypeOK, NEW r \in Refs PROVE VariableNode(r) \in Node
<1>1. Stored(r) \in Value /\ LookUp(r) \in CelValue
  BY ValueFacts, ValuesAssumption DEF TypeOK, Stored, LookUp, CelValue, Value, WellFormed, Undefined
<1>2. Nullable(r) \in BOOLEAN
  BY DEF Nullable
<1> QED BY <1>1, <1>2 DEF VariableNode, Node

LEMMA ExpressionNodeType ==
  ASSUME NEW op \in AllOperators, NEW args \in Seq(Node), NEW x \in CelValue
  PROVE  ExpressionNode(op, args, x) \in Node
<1>1. Len(args) \in Nat
  OBVIOUS
<1> QED BY <1>1, ValueFacts DEF ExpressionNode, Node, CanPush, Emit

\* The operands an expression takes off the stack, and what it leaves, in terms of any set the
\* stack's records belong to.
LEMMA StackSplit ==
  ASSUME NEW S, stack \in Seq(S), NEW n \in Nat, n <= Len(stack)
  PROVE  /\ Top(n) \in Seq(S) /\ Len(Top(n)) = n
         /\ Under(n) \in Seq(S)
<1>1. Len(stack) \in Nat /\ \A i \in 1 .. Len(stack) : stack[i] \in S
  OBVIOUS
<1>2. Top(n) \in Seq(S) /\ Len(Top(n)) = n
  BY <1>1, SubSeqProperties DEF Top
<1>3. Under(n) \in Seq(S)
  BY <1>1, SubSeqProperties DEF Under
<1> QED BY <1>2, <1>3

LEMMA WidthsAreNatural == \A op \in AllOperators : Widths(op) \subseteq Nat
BY BoundsAssumption DEF Widths

LEMMA BuildFiltersType ==
  ASSUME NEW n \in Node, NEW args \in Seq(Node)
  PROVE  BuildFilters(n, args) \in Result
BY DEF BuildFilters, SplitFilters, Result, Node

\* A translation keeps the types whatever the root is.
LEMMA TranslationType ==
  ASSUME TypeOK, NEW n \in Node, NEW args \in Seq(Node), QueryPlanToConvex(n, args)
  PROVE  TypeOK'
<1>1. BuildFilters(n, args) \in Result /\ Unfiltered("refused") \in Result
  BY BuildFiltersType DEF Unfiltered, Result
<1>2. result' \in Result
  BY <1>1 DEF QueryPlanToConvex
<1>3. stack' \in Seq(Node) /\ root' \in Node
  BY DEF QueryPlanToConvex
<1> QED BY <1>2, <1>3 DEF TypeOK, QueryPlanToConvex, config

\* Reading a node keeps the types.
LEMMA ReadType ==
  ASSUME TypeOK, NEW rest \in Seq(Node), NEW n \in Node, Read(rest, n)
  PROVE  TypeOK'
<1>1. Append(rest, n) \in Seq(Node)
  BY AppendProperties
<1> QED BY <1>1 DEF TypeOK, Read, config

\* Type correctness holds in every reachable state, for any constants the assumptions allow.
THEOREM TypeCorrect == Spec => []TypeOK
<1>1. Init => TypeOK
  <2> SUFFICES ASSUME Init PROVE TypeOK
    OBVIOUS
  <2>1. ValueNode(Null) \in Node
    BY ValueNodeType, ValueFacts
  <2>2. Unfiltered("none") \in Result
    BY DEF Unfiltered, Result
  <2>3. stack \in Seq(Node) /\ nodes \in Nat /\ root \in Node /\ result \in Result
    BY <2>1, <2>2 DEF Init
  <2> QED BY <2>3 DEF Init, TypeOK
<1>2. TypeOK /\ [Next]_vars => TypeOK'
  <2> SUFFICES ASSUME TypeOK, [Next]_vars PROVE TypeOK'
    OBVIOUS
  <2>1. CASE ReadValue
    <3>1. PICK x \in Literals : Read(stack, ValueNode(x))
      BY <2>1 DEF ReadValue
    <3>2. ValueNode(x) \in Node
      BY ValueNodeType, ValuesAssumption DEF CelValue
    <3> QED BY <3>1, <3>2, ReadType DEF TypeOK
  <2>2. CASE ReadVariable
    <3>1. PICK r \in Refs : Read(stack, VariableNode(r))
      BY <2>2 DEF ReadVariable
    <3>2. VariableNode(r) \in Node
      BY VariableNodeType
    <3> QED BY <3>1, <3>2, ReadType DEF TypeOK
  <2>3. CASE ReadExpression
    <3>1. PICK op \in Operators : \E n \in Widths(op) :
            /\ n <= Len(stack)
            /\ \E x \in Evaluate(op, Top(n)) : Read(Under(n), ExpressionNode(op, Top(n), x))
      BY <2>3 DEF ReadExpression
    <3>2. PICK n \in Widths(op) :
            /\ n <= Len(stack)
            /\ \E x \in Evaluate(op, Top(n)) : Read(Under(n), ExpressionNode(op, Top(n), x))
      BY <3>1
    <3>3. PICK x \in Evaluate(op, Top(n)) : Read(Under(n), ExpressionNode(op, Top(n), x))
      BY <3>2
    <3>4. op \in AllOperators /\ n \in Nat
      BY <3>2, CallAssumption, WidthsAreNatural
    <3>5. Top(n) \in Seq(Node) /\ Len(Top(n)) = n /\ Under(n) \in Seq(Node)
      BY <3>2, <3>4, StackSplit DEF TypeOK
    <3>6. x \in CelValue
      BY <3>4, <3>5, EvaluateType
    <3>7. ExpressionNode(op, Top(n), x) \in Node
      BY <3>4, <3>5, <3>6, ExpressionNodeType
    <3> QED BY <3>3, <3>5, <3>7, ReadType
  <2>4. CASE Translate
    <3>1. stack[1] \in Node /\ <<>> \in Seq(Node)
      BY <2>4 DEF Translate, TypeOK
    <3> QED BY <2>4, <3>1, TranslationType DEF Translate
  <2>5. CASE TranslateConjunction
    <3>1. PICK x \in Evaluate("and", stack) :
            QueryPlanToConvex(ExpressionNode("and", stack, x), stack)
      BY <2>5 DEF TranslateConjunction
    <3>2. "and" \in AllOperators /\ Len(stack) \in Widths("and") /\ stack \in Seq(Node)
      BY <2>5, BoundsAssumption
         DEF TranslateConjunction, AllOperators, Conditions, Junctions, Widths, TypeOK
    <3>3. ExpressionNode("and", stack, x) \in Node
      BY <3>2, EvaluateType, ExpressionNodeType
    <3> QED BY <3>1, <3>2, <3>3, TranslationType
  <2>6. CASE TranslateUnconditional
    <3>1. \A b \in BOOLEAN : ValueNode(Bool(b)) \in Node
      BY ValueNodeType, ValueFacts
    <3>2. \A kind \in {"all", "none", "refused"} : Unfiltered(kind) \in Result
      BY DEF Unfiltered, Result
    <3>3. root' \in Node
      BY <2>6, <3>1 DEF TranslateUnconditional
    <3> QED BY <2>6, <3>2, <3>3 DEF TranslateUnconditional, TypeOK, config
  <2>7. CASE RunFilter
    BY <2>7 DEF RunFilter, TypeOK, Result, config
  <2>8. CASE RunPostFilter
    BY <2>8 DEF RunPostFilter, TypeOK, Result, config
  <2>9. CASE UNCHANGED vars
    BY <2>9 DEF TypeOK, vars
  <2> QED BY <2>1, <2>2, <2>3, <2>4, <2>5, <2>6, <2>7, <2>8, <2>9 DEF Next
<1> QED BY <1>1, <1>2, PTL DEF Spec

-----------------------------------------------------------------------------
(* Exactness of the push-down *)

\* What the induction carries of a record: a leaf still holds what it was read from, and a node
\* that can be used as a condition is exact.
NodeInv(n) ==
  /\ n.kind = "value" => n.raw \in Literals /\ n.val = n.raw
  /\ n.kind = "variable" /\ ~n.nullable /\ ~n.unmapped =>
       n.raw \in DocValues /\ n.raw # Undefined /\ n.val = n.raw
  /\ UsableAsCondition(n) => Exact(n)

GoodNode == {n \in Node : NodeInv(n)}

\* What a junction of operands comes to, in terms of the deciding operands.
LEMMA JunctionFacts ==
  ASSUME NEW S, S \subseteq Value
  PROVE  /\ Junction(FALSE, S) = True <=> \A x \in S : x = True
         /\ Junction(FALSE, S) = False <=> \E x \in S : x = False
         /\ Junction(TRUE, S) = True <=> \E x \in S : x = True
         /\ Junction(TRUE, S) = False <=> \A x \in S : x = False
<1>1. \A x \in S : /\ AsBoolean(x) \in {True, False, Err}
                   /\ AsBoolean(x) = True <=> x = True
                   /\ AsBoolean(x) = False <=> x = False
  BY AsBooleanCases
<1>2. Bool(TRUE) = True /\ Bool(FALSE) = False /\ True # False /\ True # Err /\ False # Err
  BY ValueFacts DEF Bool
<1> QED BY <1>1, <1>2 DEF Junction

\* The rules of pushdown.ts keep exactness: an expression over exact operands is exact.
LEMMA ExpressionExact ==
  ASSUME CelTyped, NEW op \in AllOperators, NEW args \in Seq(GoodNode),
         Len(args) \in Widths(op), NEW x \in Evaluate(op, args),
         op \in Conditions => \A i \in 1 .. Len(args) : UsableAsCondition(args[i])
  PROVE  Exact(ExpressionNode(op, args, x))
<1> DEFINE n == ExpressionNode(op, args, x)
<1> SUFFICES ASSUME n.push, ~n.throws, ~n.unmapped
             PROVE  Agrees(n)
  BY DEF Exact
<1>1. DOMAIN args = 1 .. Len(args)
  OBVIOUS
<1>2. /\ n.val = x
      /\ CanPush(op, args)
      /\ n.selects <=> Emit(op, args, FALSE)
      /\ n.rejects <=> Emit(op, args, TRUE)
      /\ \A i \in 1 .. Len(args) : ~args[i].unmapped
      /\ op \in Conditions => \A i \in 1 .. Len(args) : ~args[i].throws
  <2>1. n.val = x /\ CanPush(op, args)
    BY DEF ExpressionNode
  <2>2. (n.selects <=> Emit(op, args, FALSE)) /\ (n.rejects <=> Emit(op, args, TRUE))
    BY <2>1 DEF ExpressionNode
  <2>3. \A i \in 1 .. Len(args) : ~args[i].unmapped
    BY <1>1 DEF ExpressionNode
  <2>4. op \in Conditions => \A i \in 1 .. Len(args) : ~args[i].throws
    BY <1>1 DEF ExpressionNode
  <2> QED BY <2>1, <2>2, <2>3, <2>4
<1> HIDE DEF n
<1>3. \A i \in 1 .. Len(args) : args[i] \in Node /\ NodeInv(args[i]) /\ args[i].val \in Value
  <2>1. \A i \in 1 .. Len(args) : args[i] \in GoodNode
    OBVIOUS
  <2>2. \A m \in GoodNode : m \in Node /\ NodeInv(m) /\ m.val \in Value
    BY DEF GoodNode, Node, CelValue
  <2> QED BY <2>1, <2>2
<1>4. /\ Vals(args) \subseteq Value
      /\ (\E y \in Vals(args) : y = True) <=> (\E i \in 1 .. Len(args) : args[i].val = True)
      /\ (\E y \in Vals(args) : y = False) <=> (\E i \in 1 .. Len(args) : args[i].val = False)
      /\ (\A y \in Vals(args) : y = True) <=> (\A i \in 1 .. Len(args) : args[i].val = True)
      /\ (\A y \in Vals(args) : y = False) <=> (\A i \in 1 .. Len(args) : args[i].val = False)
  BY <1>1, <1>3 DEF Vals, ValsAt
<1>5. CASE op \in Conditions
  <2>1. \A i \in 1 .. Len(args) : Agrees(args[i])
    BY <1>2, <1>3, <1>5 DEF NodeInv, Exact, CanPush, Conditions, Junctions, Comparisons,
                            Equalities, Orderings
  <2>2. CASE op = "and"
    <3>1. x = Junction(FALSE, Vals(args))
      BY <2>2 DEF Evaluate, Comparisons, Equalities, Orderings
    <3>2. Emit(op, args, FALSE) <=> \A i \in 1 .. Len(args) : args[i].selects
      BY <1>1, <2>2 DEF Emit, Comparisons, Equalities, Orderings
    <3>3. Emit(op, args, TRUE) <=> \E i \in 1 .. Len(args) : args[i].rejects
      BY <1>1, <2>2 DEF Emit, Comparisons, Equalities, Orderings
    <3>4. /\ x = True <=> \A i \in 1 .. Len(args) : args[i].val = True
          /\ x = False <=> \E i \in 1 .. Len(args) : args[i].val = False
      BY <1>4, <3>1, JunctionFacts
    <3>5. /\ Emit(op, args, FALSE) <=> \A i \in 1 .. Len(args) : args[i].val = True
          /\ Emit(op, args, TRUE) <=> \E i \in 1 .. Len(args) : args[i].val = False
      BY <2>1, <3>2, <3>3 DEF Agrees
    <3> QED BY <1>2, <3>4, <3>5 DEF Agrees
  <2>3. CASE op = "or"
    <3>1. x = Junction(TRUE, Vals(args))
      BY <2>3 DEF Evaluate, Comparisons, Equalities, Orderings
    <3>2. Emit(op, args, FALSE) <=> \E i \in 1 .. Len(args) : args[i].selects
      BY <1>1, <2>3 DEF Emit, Comparisons, Equalities, Orderings
    <3>3. Emit(op, args, TRUE) <=> \A i \in 1 .. Len(args) : args[i].rejects
      BY <1>1, <2>3 DEF Emit, Comparisons, Equalities, Orderings
    <3>4. /\ x = True <=> \E i \in 1 .. Len(args) : args[i].val = True
          /\ x = False <=> \A i \in 1 .. Len(args) : args[i].val = False
      BY <1>4, <3>1, JunctionFacts
    <3>5. /\ Emit(op, args, FALSE) <=> \E i \in 1 .. Len(args) : args[i].val = True
          /\ Emit(op, args, TRUE) <=> \A i \in 1 .. Len(args) : args[i].val = False
      BY <2>1, <3>2, <3>3 DEF Agrees
    <3> QED BY <1>2, <3>4, <3>5 DEF Agrees
  <2>4. CASE op = "not"
    <3>1. x = Not(args[1].val) /\ Len(args) = 1
      BY <2>4 DEF Evaluate, Comparisons, Equalities, Orderings, Widths, Junctions
    <3>2. Emit(op, args, FALSE) <=> args[1].rejects
      BY <2>4 DEF Emit, Comparisons, Equalities, Orderings
    <3>3. Emit(op, args, TRUE) <=> args[1].selects
      BY <2>4 DEF Emit, Comparisons, Equalities, Orderings
    <3>4. 1 \in 1 .. Len(args)
      BY <3>1
    <3>5. args[1].val \in Value /\ (args[1].selects <=> args[1].val = True)
          /\ (args[1].rejects <=> args[1].val = False)
      BY <1>3, <2>1, <3>4 DEF Agrees
    <3>6. /\ Not(args[1].val) = True <=> args[1].val = False
          /\ Not(args[1].val) = False <=> args[1].val = True
      BY <3>5, AsBooleanCases, ValueFacts DEF Not, Bool
    <3> QED BY <1>2, <3>1, <3>2, <3>3, <3>5, <3>6 DEF Agrees
  <2> QED BY <1>5, <2>2, <2>3, <2>4 DEF Conditions, Junctions
<1>6. CASE op \in Comparisons
  <2>1. x = CompareValues(op, args[1].val, args[2].val) /\ Len(args) = 2
    BY <1>6 DEF Evaluate, Comparisons, Equalities, Orderings, Widths, Junctions
  <2>2. ComparisonAccepts(args)
    BY <1>2, <1>6 DEF CanPush, Conditions, Junctions, Comparisons, Equalities, Orderings
  <2>3. NodeInv(args[1]) /\ NodeInv(args[2]) /\ ~args[1].unmapped /\ ~args[2].unmapped
    BY <1>2, <1>3, <2>1
  <2>4. \A l \in Literals : l \in Value /\ l.t \notin {"undefined", "error", "int64", "bytes"}
    BY ValuesAssumption
  <2>5. \A f \in DocValues : f # Undefined =>
          f \in Value /\ f.t \notin {"undefined", "error", "int64", "bytes"}
    BY ValuesAssumption DEF CelTyped, Value, WellFormed, Undefined
  <2>6. CASE FieldFirst(args)
    <3>1. /\ args[1].raw \in DocValues /\ args[1].raw # Undefined /\ args[1].val = args[1].raw
          /\ args[2].raw \in Literals /\ args[2].val = args[2].raw
      BY <2>2, <2>3, <2>6 DEF ComparisonAccepts, FieldFirst, FieldSecond, NodeInv
    <3>2. \A b \in BOOLEAN : Emit(op, args, b) <=> EmitComparison(op, args[1].raw, args[2].raw, b)
      BY <1>6, <2>6 DEF Emit, Comparisons, Equalities, Orderings
    <3> QED BY <1>2, <1>6, <2>1, <2>4, <2>5, <3>1, <3>2, ComparisonExact DEF Agrees
  <2>7. CASE ~FieldFirst(args)
    <3>1. /\ args[2].raw \in DocValues /\ args[2].raw # Undefined /\ args[2].val = args[2].raw
          /\ args[1].raw \in Literals /\ args[1].val = args[1].raw
      BY <2>2, <2>3, <2>7 DEF ComparisonAccepts, FieldFirst, FieldSecond, NodeInv
    <3>2. \A b \in BOOLEAN :
            Emit(op, args, b) <=> EmitComparison(Mirrored(op), args[2].raw, args[1].raw, b)
      BY <1>6, <2>7 DEF Emit, Comparisons, Equalities, Orderings
    <3>3. Mirrored(op) \in Comparisons
          /\ x = CompareValues(Mirrored(op), args[2].raw, args[1].raw)
      BY <1>6, <2>1, <2>4, <2>5, <3>1, MirroredComparison
    <3> QED BY <1>2, <2>4, <2>5, <3>1, <3>2, <3>3, ComparisonExact DEF Agrees
  <2> QED BY <2>6, <2>7
<1>7. CASE op = "in"
  <2>1. x = In(args[1].val, args[2].val) /\ Len(args) = 2
    BY <1>7 DEF Evaluate, Comparisons, Equalities, Orderings, Widths, Junctions
  <2>2. MembershipAccepts(args)
    BY <1>2, <1>7 DEF CanPush, Conditions, Junctions, Comparisons, Equalities, Orderings
  <2>3. NodeInv(args[1]) /\ NodeInv(args[2]) /\ ~args[1].unmapped
    BY <1>2, <1>3, <2>1
  <2>4. /\ args[1].raw \in DocValues /\ args[1].raw # Undefined /\ args[1].val = args[1].raw
        /\ args[2].raw \in Literals /\ args[2].val = args[2].raw /\ args[2].raw.t = "list"
    BY <2>2, <2>3 DEF MembershipAccepts, NodeInv
  <2>5. args[1].val # Err /\ args[1].raw.t # "int64"
    BY <2>4, ValuesAssumption DEF CelTyped, Err
  <2>6. x = Bool(\E m \in Members[args[2].raw] : ValuesEqual(m, args[1].raw))
    BY <2>1, <2>4, <2>5 DEF In, IsCollection
  <2>7. args[2].raw \in DOMAIN Members
    BY <2>4, ValuesAssumption DEF Value, WellFormed
  <2>8. \A m \in Members[args[2].raw] : ValuesEqual(m, args[1].raw) <=> args[1].raw = m
    <3>1. \A m \in Members[args[2].raw] : m \in Value /\ m.t # "int64"
      BY <2>4, <2>7, MembersAssumption, ValuesAssumption DEF IsCollection
    <3>2. args[1].raw \in Value
      BY <2>4, ValuesAssumption
    <3> QED BY <2>5, <3>1, <3>2 DEF ValuesEqual, IsNumeric, Value
  <2>9. x = Bool(\E m \in Members[args[2].raw] : args[1].raw = m)
    BY <2>6, <2>8 DEF Bool
  <2>10. Emit(op, args, FALSE) <=> \E m \in Members[args[2].raw] : args[1].raw = m
    BY <1>7 DEF Emit, Comparisons, Equalities, Orderings
  <2>11. Emit(op, args, TRUE) <=> \A m \in Members[args[2].raw] : args[1].raw # m
    BY <1>7 DEF Emit, Comparisons, Equalities, Orderings
  <2> QED BY <1>2, <2>9, <2>10, <2>11, ValueFacts DEF Bool, Agrees
<1> QED
  BY <1>2, <1>5, <1>6, <1>7 DEF CanPush

-----------------------------------------------------------------------------
(* The split and the answer *)

\* What a translated condition's two halves say together.
Decides(built, n) ==
  ~built.throws => (built.match /\ built.keep <=> n.val = True)

\* The root of a plan is good, and the operands of a root that may be split are its own.
Rooted(n, args) ==
  /\ n \in GoodNode /\ UsableAsCondition(n)
  /\ n.kind = "and" /\ n.width > 1 =>
       /\ \A i \in 1 .. Len(args) : UsableAsCondition(args[i])
       /\ n.push <=> \A i \in 1 .. Len(args) : args[i].push
       /\ n.unmapped <=> \E i \in 1 .. Len(args) : args[i].unmapped
       /\ n.val = Junction(FALSE, Vals(args))

\* buildFilters: whichever path the condition takes, its halves decide it together.
LEMMA BuildFiltersDecides ==
  ASSUME CelTyped, NEW args \in Seq(GoodNode), NEW n, Rooted(n, args), ~Refused(n)
  PROVE  Decides(BuildFilters(n, args), n)
<1> DEFINE built == BuildFilters(n, args)
<1> SUFFICES Decides(built, n)
  OBVIOUS
<1>1. n \in Node /\ Exact(n) /\ ~n.unmapped
  BY DEF Rooted, GoodNode, NodeInv, Refused
<1>2. CASE n.push
  <2>1. built.match <=> n.selects
    BY <1>2 DEF BuildFilters
  <2>2. built.keep /\ (built.throws <=> n.throws)
    BY <1>1, <1>2 DEF BuildFilters, Node
  <2> HIDE DEF built
  <2> QED BY <1>1, <1>2, <2>1, <2>2 DEF Decides, Exact, Agrees
<1>3. CASE ~n.push /\ n.kind = "and" /\ n.width > 1 /\ \E i \in DOMAIN args : args[i].push
  <2> DEFINE pushable == {i \in DOMAIN args : args[i].push}
             others == DOMAIN args \ pushable
             kept == ValsAt(args, others)
  <2>1. built = SplitFilters(args) /\ DOMAIN args = 1 .. Len(args)
    BY <1>3 DEF BuildFilters
  <2>2. /\ built.match <=> \A i \in pushable : args[i].selects
        /\ built.throws <=> \E i \in pushable : args[i].throws
        /\ built.keep <=> Junction(FALSE, kept) = True
    <3>1. built.match <=> \A i \in pushable : args[i].selects
      BY <2>1 DEF SplitFilters
    <3>2. built.throws <=> \E i \in pushable : args[i].throws
      BY <2>1 DEF SplitFilters
    <3>3. built.keep <=> Junction(FALSE, kept) = True
      <4> DEFINE j == Junction(FALSE, kept)
      <4>1. built.keep = (j = True)
        BY <2>1 DEF SplitFilters
      <4> QED BY <4>1
    <3> QED BY <3>1, <3>2, <3>3
  <2> HIDE DEF built
  <2>3. \A i \in 1 .. Len(args) : /\ Exact(args[i]) /\ ~args[i].unmapped
                                 /\ args[i].val \in Value
    <3>1. \A i \in 1 .. Len(args) : args[i] \in GoodNode
      OBVIOUS
    <3>2. \A m \in GoodNode : m.val \in Value /\ (UsableAsCondition(m) => Exact(m))
      BY DEF CelValue, GoodNode, Node, NodeInv
    <3> QED BY <1>1, <1>3, <3>1, <3>2 DEF Rooted
  <2> SUFFICES ASSUME ~built.throws PROVE built.match /\ built.keep <=> n.val = True
    BY DEF Decides
  <2>4. built.match <=> \A i \in pushable : args[i].val = True
    BY <2>1, <2>2, <2>3 DEF Exact, Agrees
  <2>5. built.keep <=> \A i \in others : args[i].val = True
    <3>1. kept \subseteq Value
      BY <2>1, <2>3 DEF ValsAt
    <3>2. (Junction(FALSE, kept) = True) <=> \A y \in kept : y = True
      BY <3>1, JunctionFacts
    <3> QED BY <2>2, <3>2 DEF ValsAt
  <2>6. (n.val = True) <=> \A i \in 1 .. Len(args) : args[i].val = True
    <3>1. Vals(args) \subseteq Value
      BY <2>1, <2>3 DEF Vals, ValsAt
    <3>2. (Junction(FALSE, Vals(args)) = True) <=> \A y \in Vals(args) : y = True
      BY <3>1, JunctionFacts
    <3>3. (\A y \in Vals(args) : y = True) <=> \A i \in 1 .. Len(args) : args[i].val = True
      BY <2>1 DEF Vals, ValsAt
    <3> QED BY <1>3, <3>2, <3>3 DEF Rooted
  <2> QED BY <2>1, <2>4, <2>5, <2>6
<1>4. CASE ~n.push /\ ~(n.kind = "and" /\ n.width > 1 /\ \E i \in DOMAIN args : args[i].push)
  BY <1>4 DEF BuildFilters, Decides
<1> QED BY <1>2, <1>3, <1>4

\* Where the call stands, what its result and its answer say of the root.
Decided ==
  /\ phase = "reading" => result.path = "none"
  /\ phase = "refused" => result.path = "refused"
  /\ phase = "aborted" => result.throws
  /\ phase \in {"translated", "candidate", "answered"} =>
       /\ result.path # "refused"
       /\ result.path = "none" => root.val # True
       /\ result.path # "none" => Decides(result, root)
       /\ UsesPostFilter(result) => allowPostFilter
       /\ ~UsesPostFilter(result) => result.keep
  /\ phase = "candidate" => UsesPostFilter(result) /\ result.match /\ ~result.throws
  /\ phase = "answered" => (returned <=> root.val = True)

\* The inductive invariant: the stack's records are good, the document is as the mapper declares,
\* and the result decides the root.
IInv ==
  /\ TypeOK
  /\ DeclarationsHold
  /\ stack \in Seq(GoodNode)
  /\ Decided

LEMMA ValueNodeGood == \A x \in Literals : ValueNode(x) \in GoodNode
<1> TAKE x \in Literals
<1>1. x \in Value /\ ValueNode(x) \in Node
  BY ValuesAssumption, ValueNodeType DEF CelValue
<1>2. x.t = "bool" => x = True \/ x = False
  BY <1>1 DEF Value, WellFormed, True, False
<1>3. Exact(ValueNode(x))
  BY <1>2, ValueFacts DEF ValueNode, Exact, Agrees
<1> QED BY <1>1, <1>3 DEF GoodNode, NodeInv, ValueNode

LEMMA VariableNodeGood ==
  ASSUME CelTyped, TypeOK, DeclarationsHold, NEW r \in Refs
  PROVE  VariableNode(r) \in GoodNode
<1> DEFINE n == VariableNode(r)
<1>1. n \in Node
  BY VariableNodeType
<1>2. /\ n.kind = "variable" /\ n.raw = Stored(r) /\ n.val = LookUp(r)
      /\ n.nullable <=> Nullable(r)
      /\ n.unmapped <=> mapping[r] = "unmapped"
      /\ n.push <=> ~Nullable(r)
      /\ n.selects <=> Stored(r) = True
      /\ n.rejects <=> Stored(r) # True
  BY DEF VariableNode
<1> HIDE DEF n
<1>3. ASSUME ~n.nullable, ~n.unmapped
      PROVE  n.raw \in DocValues /\ n.raw # Undefined /\ n.val = n.raw
  <2>1. Stored(r) = doc[r] /\ doc[r] \in DocValues
    BY <1>2, <1>3 DEF Stored, TypeOK
  <2>2. doc[r] # Undefined /\ (convention = "omitted" => doc[r] # Null)
    BY <1>2, <1>3 DEF DeclarationsHold
  <2> QED BY <1>2, <2>1, <2>2 DEF LookUp
<1>4. UsableAsCondition(n) => Exact(n)
  <2> SUFFICES ASSUME UsableAsCondition(n), n.push, ~n.unmapped PROVE Agrees(n)
    BY DEF Exact
  <2>1. n.raw.t = "bool" /\ n.val = n.raw
    BY <1>2, <1>3 DEF UsableAsCondition, CelTyped
  <2>2. n.raw = True \/ n.raw = False
    BY <1>1, <2>1 DEF Node, Value, WellFormed, True, False
  <2> QED BY <1>2, <2>1, <2>2, ValueFacts DEF Agrees
<1> QED BY <1>1, <1>2, <1>3, <1>4 DEF GoodNode, NodeInv, n

LEMMA ExpressionNodeGood ==
  ASSUME CelTyped, NEW op \in AllOperators, NEW args \in Seq(GoodNode),
         Len(args) \in Widths(op), NEW x \in Evaluate(op, args),
         op \in Conditions => \A i \in 1 .. Len(args) : UsableAsCondition(args[i])
  PROVE  ExpressionNode(op, args, x) \in GoodNode
<1>1. args \in Seq(Node)
  BY DEF GoodNode
<1>2. x \in CelValue
  BY <1>1, EvaluateType
<1>3. ExpressionNode(op, args, x) \in Node
  BY <1>1, <1>2, ExpressionNodeType
<1>4. ExpressionNode(op, args, x).kind = op /\ op \notin {"value", "variable"}
  BY DEF ExpressionNode, AllOperators, Conditions, Junctions, Comparisons, Equalities, Orderings,
         PostOnly
<1>5. Exact(ExpressionNode(op, args, x))
  BY ExpressionExact
<1> QED BY <1>3, <1>4, <1>5 DEF GoodNode, NodeInv

\* Reading a good node keeps the invariant.
LEMMA ReadKeepsInv ==
  ASSUME IInv, NEW rest \in Seq(GoodNode), NEW n \in GoodNode, Read(rest, n)
  PROVE  DeclarationsHold' /\ (stack \in Seq(GoodNode))' /\ Decided'
<1>1. Append(rest, n) \in Seq(GoodNode)
  BY AppendProperties
<1>2. (stack \in Seq(GoodNode))'
  BY <1>1 DEF Read
<1>3. DeclarationsHold'
  BY DEF IInv, Read, config, DeclarationsHold, Nullable
<1>4. Decided'
  BY DEF IInv, Read, config, Decided, Decides, UsesPostFilter
<1> QED BY <1>2, <1>3, <1>4

\* Translating a rooted plan keeps the invariant.
LEMMA TranslationKeepsInv ==
  ASSUME CelTyped, IInv, NEW args \in Seq(GoodNode), NEW n, Rooted(n, args),
         QueryPlanToConvex(n, args)
  PROVE  DeclarationsHold' /\ (stack \in Seq(GoodNode))' /\ Decided'
<1> DEFINE built == BuildFilters(n, args)
           refused == Refused(n) \/ (UsesPostFilter(built) /\ ~allowPostFilter)
<1>1. (stack \in Seq(GoodNode))'
  BY DEF QueryPlanToConvex
<1>2. DeclarationsHold'
  BY DEF IInv, QueryPlanToConvex, config, DeclarationsHold, Nullable
<1>3. CASE refused
  <2>1. phase' = "refused" /\ result'.path = "refused"
    BY <1>3 DEF QueryPlanToConvex, Unfiltered
  <2> QED BY <1>1, <1>2, <2>1 DEF Decided
<1>4. CASE ~refused
  <2>1. phase' = "translated" /\ result' = built /\ root' = n /\ allowPostFilter' = allowPostFilter
    BY <1>4 DEF QueryPlanToConvex, config
  <2>2. Decides(built, n)
    BY <1>4, BuildFiltersDecides
  <2>3. built.path \in {"db", "split", "post"} /\ (~UsesPostFilter(built) => built.keep)
    BY DEF BuildFilters, SplitFilters, UsesPostFilter
  <2>4. UsesPostFilter(built) => allowPostFilter
    BY <1>4
  <2> HIDE DEF built
  <2> QED BY <1>1, <1>2, <2>1, <2>2, <2>3, <2>4 DEF Decided, Decides, UsesPostFilter
<1> QED BY <1>1, <1>3, <1>4, <1>2

LEMMA InitInv == CelTyped /\ Init /\ TypeOK => IInv
BY DEF Init, IInv, Decided, Unfiltered

LEMMA NextInv ==
  ASSUME CelTyped, IInv, TypeOK', [Next]_vars
  PROVE  IInv'
<1> SUFFICES DeclarationsHold' /\ (stack \in Seq(GoodNode))' /\ Decided'
  BY DEF IInv
<1>1. CASE ReadValue
  <2>1. PICK x \in Literals : Read(stack, ValueNode(x))
    BY <1>1 DEF ReadValue
  <2> QED BY <2>1, ValueNodeGood, ReadKeepsInv DEF IInv
<1>2. CASE ReadVariable
  <2>1. PICK r \in Refs : Read(stack, VariableNode(r))
    BY <1>2 DEF ReadVariable
  <2>2. VariableNode(r) \in GoodNode
    BY VariableNodeGood DEF IInv
  <2> QED BY <2>1, <2>2, ReadKeepsInv DEF IInv
<1>3. CASE ReadExpression
  <2>1. PICK op \in Operators : \E n \in Widths(op) :
          /\ n <= Len(stack)
          /\ op \in Conditions => \A i \in 1 .. n : UsableAsCondition(Top(n)[i])
          /\ \E x \in Evaluate(op, Top(n)) : Read(Under(n), ExpressionNode(op, Top(n), x))
    BY <1>3 DEF ReadExpression
  <2>2. PICK n \in Widths(op) :
          /\ n <= Len(stack)
          /\ op \in Conditions => \A i \in 1 .. n : UsableAsCondition(Top(n)[i])
          /\ \E x \in Evaluate(op, Top(n)) : Read(Under(n), ExpressionNode(op, Top(n), x))
    BY <2>1
  <2>3. PICK x \in Evaluate(op, Top(n)) : Read(Under(n), ExpressionNode(op, Top(n), x))
    BY <2>2
  <2>4. op \in AllOperators /\ n \in Nat
    BY <2>1, <2>2, CallAssumption, WidthsAreNatural
  <2>5. Top(n) \in Seq(GoodNode) /\ Len(Top(n)) = n /\ Under(n) \in Seq(GoodNode)
    BY <2>2, <2>4, StackSplit DEF IInv
  <2>6. ExpressionNode(op, Top(n), x) \in GoodNode
    BY <2>2, <2>4, <2>5, ExpressionNodeGood
  <2> QED BY <2>3, <2>5, <2>6, ReadKeepsInv
<1>4. CASE Translate
  <2>1. stack[1] \in GoodNode /\ <<>> \in Seq(GoodNode)
    BY <1>4 DEF Translate, IInv
  <2>2. Rooted(stack[1], <<>>)
    BY <1>4, <2>1 DEF Rooted, Translate, QueryPlanToConvex
  <2> QED BY <1>4, <2>1, <2>2, TranslationKeepsInv DEF Translate
<1>5. CASE TranslateConjunction
  <2>1. PICK x \in Evaluate("and", stack) :
          QueryPlanToConvex(ExpressionNode("and", stack, x), stack)
    BY <1>5 DEF TranslateConjunction
  <2> DEFINE n == ExpressionNode("and", stack, x)
  <2>2. /\ "and" \in AllOperators /\ stack \in Seq(GoodNode) /\ Len(stack) \in Widths("and")
        /\ \A i \in 1 .. Len(stack) : UsableAsCondition(stack[i])
    BY <1>5, BoundsAssumption
       DEF TranslateConjunction, AllOperators, Conditions, Junctions, Widths, IInv
  <2>3. n \in GoodNode
    BY <2>2, ExpressionNodeGood
  <2>4. x = Junction(FALSE, Vals(stack))
    BY DEF Evaluate, Comparisons, Equalities, Orderings
  <2>5. /\ n.kind = "and" /\ n.val = x
        /\ n.push <=> \A i \in 1 .. Len(stack) : stack[i].push
        /\ n.unmapped <=> \E i \in 1 .. Len(stack) : stack[i].unmapped
    <3>1. DOMAIN stack = 1 .. Len(stack)
      BY <2>2
    <3>2. CanPush("and", stack) <=> \A i \in 1 .. Len(stack) : stack[i].push
      BY <3>1 DEF CanPush, Conditions, Junctions, Comparisons, Equalities, Orderings
    <3> QED BY <3>1, <3>2 DEF ExpressionNode
  <2>6. UsableAsCondition(n)
    BY <2>5 DEF UsableAsCondition
  <2> HIDE DEF n
  <2>7. Rooted(n, stack)
    BY <2>2, <2>3, <2>4, <2>5, <2>6 DEF Rooted
  <2> QED BY <2>1, <2>2, <2>7, TranslationKeepsInv DEF n
<1>6. CASE TranslateUnconditional
  <2>1. DeclarationsHold' /\ (stack \in Seq(GoodNode))'
    BY <1>6 DEF TranslateUnconditional, IInv, config, DeclarationsHold, Nullable
  <2>2. PICK kind \in {"all", "none", "refused"} :
          /\ result' = Unfiltered(kind)
          /\ phase' = IF kind = "refused" THEN "refused" ELSE "translated"
          /\ root' = ValueNode(Bool(kind = "all"))
    BY <1>6 DEF TranslateUnconditional
  <2>3. root'.val = Bool(kind = "all")
    BY <2>2 DEF ValueNode
  <2> QED
    BY <2>1, <2>2, <2>3, ValueFacts DEF Unfiltered, Decided, Decides, UsesPostFilter, Bool
<1>7. CASE RunFilter
  <2>1. DeclarationsHold' /\ (stack \in Seq(GoodNode))'
    BY <1>7 DEF RunFilter, IInv, config, DeclarationsHold, Nullable
  <2>2. Decided'
    BY <1>7 DEF RunFilter, IInv, TypeOK, config, Decided, Decides, UsesPostFilter
  <2> QED BY <2>1, <2>2
<1>8. CASE RunPostFilter
  <2>1. DeclarationsHold' /\ (stack \in Seq(GoodNode))'
    BY <1>8 DEF RunPostFilter, IInv, config, DeclarationsHold, Nullable
  <2>2. Decided'
    BY <1>8 DEF RunPostFilter, IInv, TypeOK, config, Decided, Decides, UsesPostFilter
  <2> QED BY <2>1, <2>2
<1>9. CASE UNCHANGED vars
  BY <1>9 DEF IInv, vars, config, DeclarationsHold, Nullable, Decided, Decides, UsesPostFilter
<1> QED BY <1>1, <1>2, <1>3, <1>4, <1>5, <1>6, <1>7, <1>8, <1>9 DEF Next

LEMMA InvHolds == ASSUME CelTyped PROVE Spec => []IInv
<1>1. TypeOK /\ Init => IInv
  BY InitInv
<1>2. IInv /\ TypeOK' /\ [Next]_vars => IInv'
  BY NextInv
<1> QED BY <1>1, <1>2, TypeCorrect, PTL DEF Spec

\* Every part of a plan handed to the engine is answered as CEL answers it, for plans of any size.
THEOREM PushdownIsExact == ASSUME CelTyped PROVE Spec => []PushdownExact
<1>1. IInv => PushdownExact
  <2> SUFFICES ASSUME IInv, NEW i \in DOMAIN stack, UsableAsCondition(stack[i])
               PROVE  Exact(stack[i])
    BY DEF PushdownExact
  <2>1. stack[i] \in GoodNode
    BY DEF IInv
  <2> QED BY <2>1 DEF GoodNode, NodeInv
<1> QED BY <1>1, InvHolds, PTL

\* Whichever way buildFilters splits the condition, its halves decide it together.
THEOREM HalvesDecideRoot == ASSUME CelTyped PROVE Spec => []HalvesDecide
<1>1. IInv => HalvesDecide
  BY DEF IInv, TypeOK, Decided, Decides, HalvesDecide
<1> QED BY <1>1, InvHolds, PTL

\* The answer holds the document exactly when CEL says the condition is true on it.
THEOREM AnswerIsTheVerdict == ASSUME CelTyped PROVE Spec => []AnswerIsVerdict
<1>1. IInv => AnswerIsVerdict
  BY DEF IInv, Decided, AnswerIsVerdict
<1> QED BY <1>1, InvHolds, PTL

\* A candidate reaches the caller only with the opt-in, and only from the engine's half.
THEOREM CandidatesAreOptedIn == ASSUME CelTyped PROVE Spec => []CandidatesOptedIn
<1>1. IInv => CandidatesOptedIn
  BY DEF IInv, Decided, CandidatesOptedIn
<1> QED BY <1>1, InvHolds, PTL

-----------------------------------------------------------------------------
(* The adapter implements the contract *)

\* Reading the plan is invisible to the contract.
LEMMA ReadStutters ==
  ASSUME NEW rest, NEW n, Read(rest, n)
  PROVE  UNCHANGED <<Outcome, Verdict, returned>>
BY DEF Read, Outcome, Verdict

\* A translation is the contract's Translate, or its Refuse.
LEMMA TranslationImplements ==
  ASSUME NEW n, NEW args, QueryPlanToConvex(n, args)
  PROVE  Contract!Translate \/ Contract!Refuse
<1>1. Outcome = "pending" /\ Verdict = "unknown" /\ UNCHANGED returned
  BY DEF QueryPlanToConvex, Outcome, Verdict
<1>2. phase' \in {"refused", "translated"}
  BY DEF QueryPlanToConvex
<1>3. Outcome' \in {"refused", "translated"} /\ Verdict' \in {"allow", "deny", "error"}
  BY <1>2 DEF Outcome, Verdict
<1> QED BY <1>1, <1>3 DEF Contract!Translate, Contract!Refuse, Contract!Verdicts

\* Every step of the adapter is a step of the contract or a stutter.
LEMMA StepImplements ==
  ASSUME CelTyped, IInv, IInv', [Next]_vars
  PROVE  [Contract!Next]_(Contract!vars)
<1>1. CASE ReadValue \/ ReadVariable \/ ReadExpression
  BY <1>1, ReadStutters DEF ReadValue, ReadVariable, ReadExpression, Contract!vars
<1>2. CASE Translate \/ TranslateConjunction
  BY <1>2, TranslationImplements DEF Translate, TranslateConjunction, Contract!Next
<1>3. CASE TranslateUnconditional
  <2>1. Outcome = "pending" /\ Verdict = "unknown" /\ UNCHANGED returned
    BY <1>3 DEF TranslateUnconditional, Outcome, Verdict
  <2>2. phase' \in {"refused", "translated"}
    BY <1>3 DEF TranslateUnconditional
  <2>3. Outcome' \in {"refused", "translated"} /\ Verdict' \in {"allow", "deny", "error"}
    BY <2>2 DEF Outcome, Verdict
  <2> QED BY <2>1, <2>3 DEF Contract!Next, Contract!Translate, Contract!Refuse, Contract!Verdicts
<1>4. CASE RunFilter
  <2>1. phase = "translated" /\ UNCHANGED root
    BY <1>4 DEF RunFilter
  <2>2. phase' \in {"aborted", "candidate", "answered"}
    BY <1>4 DEF RunFilter
  <2>3. Outcome = "translated" /\ Verdict' = Verdict /\ Verdict \in {"allow", "deny", "error"}
    BY <2>1, <2>2 DEF Outcome, Verdict
  <2>4. CASE phase' = "aborted"
    BY <1>4, <2>3, <2>4
       DEF RunFilter, Outcome, Contract!Next, Contract!Refuse, Contract!Verdicts
  <2>5. CASE phase' = "candidate"
    BY <1>4, <2>3, <2>5 DEF RunFilter, Outcome, Contract!vars
  <2>6. CASE phase' = "answered"
    <3>1. returned' <=> root.val = True
      BY <2>1, <2>6 DEF IInv, Decided
    <3>2. returned' \in BOOLEAN
      BY DEF IInv, TypeOK
    <3>3. (root.val = True) <=> Verdict = "allow"
      BY <2>1 DEF Verdict
    <3> QED BY <2>3, <2>6, <3>1, <3>2, <3>3 DEF Outcome, Contract!Next, Contract!Answer
  <2> QED BY <2>2, <2>4, <2>5, <2>6
<1>5. CASE RunPostFilter
  <2>1. phase = "candidate" /\ phase' = "answered" /\ UNCHANGED root
    BY <1>5 DEF RunPostFilter
  <2>2. /\ Outcome = "translated" /\ Outcome' = "answered" /\ Verdict' = Verdict
    BY <2>1 DEF Outcome, Verdict
  <2>3. returned' <=> root.val = True
    BY <2>1 DEF IInv, Decided
  <2>4. returned' \in BOOLEAN
    BY DEF IInv, TypeOK
  <2>5. (root.val = True) <=> Verdict = "allow"
    BY <2>1 DEF Verdict
  <2> QED BY <2>2, <2>3, <2>4, <2>5 DEF Contract!Next, Contract!Answer
<1>6. CASE UNCHANGED vars
  BY <1>6 DEF vars, Contract!vars, Outcome, Verdict
<1> QED BY <1>1, <1>2, <1>3, <1>4, <1>5, <1>6 DEF Next

\* Translated or refused, answered once, and the answer is the verdict.
THEOREM AdapterImplementsContract == ASSUME CelTyped PROVE Spec => ImplementsContract
<1>1. Init => Contract!Init
  BY DEF Init, Contract!Init, Outcome, Verdict
<1>2. IInv /\ IInv' /\ [Next]_vars => [Contract!Next]_(Contract!vars)
  BY StepImplements
<1> QED BY <1>1, <1>2, InvHolds, PTL DEF Spec, Contract!Spec, ImplementsContract
=============================================================================
