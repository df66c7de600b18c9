-------------------------- MODULE ConvexEvaluator --------------------------
(***************************************************************************)
(* The Convex adapter's own CEL evaluator (evaluate.ts, cel.ts), which     *)
(* answers, one document at a time, what Convex's engine cannot.           *)
(*                                                                         *)
(* A plan does not say whether an integral number was an int or a double,  *)
(* nor the sign of a zero, so the evaluator reads types off the expression.*)
(* The record of an operand holds what CEL computes with the types of the  *)
(* policy (cel) and what evaluate() returns (js), each a function of the   *)
(* lambda element in scope. An evaluation may throw, which no operator     *)
(* absorbs and which ends the query: Thrown. A JavaScript number is "num". *)
(*                                                                         *)
(* The plan is read in postfix order.                                      *)
(***************************************************************************)
EXTENDS CelTypes

CONSTANTS
  Refs,            \* the attributes of a plan
  DocValues,       \* what a document may hold there
  Literals,        \* constants of the plan, lists included
  Conventions,     \* the nullAttributeRepresentation values explored
  Operators,       \* the plan operators explored
  Admitted,        \* the shapes of Disagreements a plan may hold
  MaxRefs,         \* bound on the references of a plan
  MaxNodes         \* bound on its nodes

Junctions == {"and", "or"}
Quantifiers == {"exists", "all", "existsOne"}
Macros == Quantifiers \union {"filter"}
AllOperators ==
  Junctions \union Comparisons \union Arithmetic \union Macros \union Conversions
    \union {"not", "in", "size", "if", "startsWith", "matches", "hasIntersection"}

Width(op) ==
  IF op \in Conversions \union {"not", "size"} THEN 1 ELSE IF op = "if" THEN 3 ELSE 2

\* untypedInt: arithmetic on an int the plan ships as a bare number, or string() of it.
\* hiddenDouble: an int beside a double that only the types of the policy tell from an int.
\* hiddenTime: a timestamp or duration that is converted, or whose expression does not name it.
\* nonFinite: a NaN ordered with what is no number, or a double() of what is not finite.
\* lostSign: string() of a constant zero, which a plan ships without its sign.
\* openBranch: string() of a ternary that has an int in one branch, and took the other to a double.
Disagreements == {"untypedInt", "hiddenDouble", "hiddenTime", "nonFinite", "lostSign", "openBranch"}

ASSUME DocumentsAssumption ==
  /\ DocValues \subseteq {x \in Value : x.t \in {"undefined", "null", "num", "str", "bool", "list"}} \union {NegativeZero}
  /\ Literals \subseteq {x \in Value : x.t \in {"null", "num", "str", "bool", "list"}}
  /\ Conventions \subseteq {"explicit", "omitted"}

\* No number is stored or shipped as an int64, and what filter() keeps of a list is a list.
ASSUME ListsAssumption ==
  \A x \in {y \in DocValues \union Literals : y.t = "list"} :
    /\ \A m \in Members[x] : m.t # "int64"
    /\ \A S \in SUBSET Members[x] : \E l \in DOMAIN Members : l.t = "list" /\ Members[l] = S

ASSUME BoundsAssumption ==
  /\ Operators \subseteq AllOperators
  /\ Admitted \subseteq Disagreements
  /\ MaxRefs \in Nat /\ MaxNodes \in Nat

VARIABLES
  doc,         \* what the document holds at the attributes read so far
  convention,  \* nullAttributeRepresentation of the call
  stack,       \* operands read and not yet consumed
  nodes,       \* plan nodes read so far
  phase,       \* where the call stands
  root,        \* what CEL says of the condition
  answer,      \* what the post-filter says of the document
  returned     \* is it in the caller's hands?

vars == <<doc, convention, stack, nodes, phase, root, answer, returned>>

Thrown == [t |-> "thrown", v |-> 0]       \* an UnsupportedQueryPlanError from evaluate()

Least(S) == CHOOSE i \in S : \A j \in S : i <= j

-----------------------------------------------------------------------------
(* CEL, with the types the policy had *)

\* bodies holds what the lambda says of each element of items.
Kept(items, bodies) == ListOf({items[i] : i \in {j \in DOMAIN bodies : bodies[j] = True}})

CelMacro(op, collection, items, bodies) ==
  IF ~IsCollection(collection) THEN Err
  ELSE CASE op = "exists" -> Junction(TRUE, {bodies[i] : i \in DOMAIN bodies})
         [] op = "all" -> Junction(FALSE, {bodies[i] : i \in DOMAIN bodies})
         [] op = "existsOne" -> ExistsOne(bodies)
         [] OTHER -> IF \E i \in DOMAIN bodies : AsBoolean(bodies[i]) = Err THEN Err ELSE Kept(items, bodies)

CelEvaluate(op, vals, items, bodies) ==
  CASE op \in Macros -> CelMacro(op, vals[1], items, bodies)
    [] op = "and" -> Junction(FALSE, {vals[1], vals[2]})
    [] op = "or" -> Junction(TRUE, {vals[1], vals[2]})
    [] op = "not" -> Not(vals[1])
    [] op = "if" -> IfThenElse(vals[1], vals[2], vals[3])
    [] op \in Comparisons -> Compare(op, vals[1], vals[2])
    [] op \in Arithmetic -> CelArithmetic(op, vals[1], vals[2])
    [] op \in Conversions -> CelConvert(op, vals[1])
    [] op = "size" -> CelSize(vals[1])
    [] op = "in" -> In(Unsigned(vals[1]), vals[2])
    [] op = "hasIntersection" -> HasIntersection(vals[1], vals[2])
    [] OTHER -> StartsWith(vals[1], vals[2])

-----------------------------------------------------------------------------
(* evaluate.ts: what an expression says of its types *)

TemporalName(op) ==
  CASE op = "timestamp" -> "time" [] op = "duration" -> "dur" [] OTHER -> "none"

\* temporalKindOf: read from the node that made the value, since a timestamp is a bare bigint.
TemporalKind(op, args) ==
  IF op \in {"add", "sub"} THEN TemporalType(op, args[1].temporal, args[2].temporal)
  ELSE TemporalName(op)

IsIntegral(x) == x.t = "num" /\ ~IsFraction(x)

\* isIntOperand: an integral constant, or an int expression.
IsIntOperand(n) == IF n.kind = "value" THEN IsIntegral(n.lit) ELSE n.int

\* isIntExpression.
IsIntExpression(op, args) ==
  \/ op \in {"int", "size"}
  \/ /\ op \in Arithmetic
     /\ \A i \in DOMAIN args : IsIntOperand(args[i])
     /\ \E i \in DOMAIN args : args[i].int

\* isDoubleOperand.
IsDoubleOperand(n) ==
  \/ n.kind = "value" /\ IsFraction(n.lit)
  \/ n.kind \in {"variable", "double"}

\* numericTypeOf: one branch of a ternary fixes the type of both.
NumericType(op, args) ==
  CASE IsIntExpression(op, args) -> "int"
    [] op = "double" -> "double"
    [] op = "if" -> IF args[2].numeric # "none" THEN args[2].numeric ELSE args[3].numeric
    [] OTHER -> "none"

\* rendersUntypedConstant, of a node whose type nothing around it fixes.
RendersUntyped(op, args) ==
  op = "if" /\ NumericType(op, args) = "none" /\ (args[2].untyped \/ args[3].untyped)

IsVariable(n) == n.kind \in {"variable", "element"}

\* validateStructure: each operator's own check. Only the form of the operands counts.
Invalid(op, args) ==
  CASE op = "string" -> args[1].untyped
    [] op = "mod" -> \E i \in DOMAIN args : ~IsVariable(args[i]) /\ ~IsIntOperand(args[i])
    [] op = "div" -> \/ args[2].kind = "div"
                     \/ args[2].lit = Num(0) /\ args[1].lit # Num(0)
    [] op = "matches" -> args[2].lit.t # "str"
    [] OTHER -> FALSE

-----------------------------------------------------------------------------
(* evaluate.ts and cel.ts: one document, or one element of a list *)

\* The loop of junction: the first operand that decides ends it.
RunJunction(decisive, vals) ==
  LET stops == {i \in DOMAIN vals : vals[i] \in {Bool(decisive), Thrown}} IN
  IF stops # {} THEN vals[Least(stops)]
  ELSE IF \E i \in DOMAIN vals : AsBoolean(vals[i]) = Err THEN Err
  ELSE Bool(~decisive)

Decisive(op) == CASE op = "exists" -> {True} [] op = "all" -> {False} [] OTHER -> {}

\* sawError forgotten where no element decides.
RunQuantifierForgetful(op, bodies) ==
  LET stops == {i \in DOMAIN bodies : bodies[i] \in Decisive(op) \union {Thrown}}
      trueCount == Cardinality({i \in DOMAIN bodies : bodies[i] = True})
  IN IF stops # {} THEN bodies[Least(stops)]
     ELSE Bool(IF op = "existsOne" THEN trueCount = 1 ELSE op = "all")

\* The loop of quantifier: an error is kept in sawError until an element decides.
RunQuantifier(op, bodies) ==
  LET stops == {i \in DOMAIN bodies : bodies[i] \in Decisive(op) \union {Thrown}}
      trueCount == Cardinality({i \in DOMAIN bodies : bodies[i] = True})
  IN IF stops # {} THEN bodies[Least(stops)]
     ELSE IF \E i \in DOMAIN bodies : AsBoolean(bodies[i]) = Err THEN Err
     ELSE Bool(IF op = "existsOne" THEN trueCount = 1 ELSE op = "all")

\* The loop of filter: the first element that errs, or throws, ends it.
RunFilter(items, bodies) ==
  LET stops == {i \in DOMAIN bodies : AsBoolean(bodies[i]) = Err} IN
  IF stops # {} THEN IF bodies[Least(stops)] = Thrown THEN Thrown ELSE Err
  ELSE Kept(items, bodies)

RunMacro(op, collection, items, bodies) ==
  IF collection = Thrown THEN Thrown
  ELSE IF ~IsCollection(collection) THEN Err
  ELSE IF op = "filter" THEN RunFilter(items, bodies) ELSE RunQuantifier(op, bodies)

RunIf(vals) == IF vals[1] = Thrown THEN Thrown ELSE IfThenElse(vals[1], vals[2], vals[3])

\* A timestamp is a bigint, and a bigint is numeric.
Bigint(x) == IF x.t = "time" THEN Int64(2 * x.v) ELSE x

\* compareValues.
RunComparison(op, l, r) ==
  IF op \in Orderings /\ NaN \in {l, r} /\ Err \notin {l, r} THEN False
  ELSE Compare(op, Bigint(l), Bigint(r))

\* An int left a bigint where it would fit a number.
RunIntArithmeticBigint(op, l, r) ==
  IF IsIntegral(Unsigned(l)) /\ IsIntegral(Unsigned(r))
  THEN IntArithmetic(op, Unsigned(l).v \div 2, Unsigned(r).v \div 2) ELSE Err

\* intArithmetic: exact over bigints, an operand that is no integer an error.
RunIntArithmetic(op, l, r) ==
  IF IsIntegral(Unsigned(l)) /\ IsIntegral(Unsigned(r))
  THEN Erased(IntArithmetic(op, Unsigned(l).v \div 2, Unsigned(r).v \div 2)) ELSE Err

\* Any division by a computed zero refused, that of a zero included.
RunNumbersStrict(op, args, l, r) ==
  IF op = "div" /\ Unsigned(r) = Num(0) /\ args[2].kind # "variable" THEN Thrown
  ELSE IF op # "mod" THEN DoubleArithmetic(op, l, r)
  ELSE IF \E i \in DOMAIN args : IsVariable(args[i]) THEN Err ELSE RunIntArithmetic(op, l, r)

\* The switch over two numbers. A zero divisor that is not read from the document has no sign;
\* a mod without a variable is left two integral constants.
RunNumbers(op, args, l, r) ==
  IF op = "div" /\ Unsigned(r) = Num(0) /\ Unsigned(l) # Num(0) /\ args[2].kind # "variable" THEN Thrown
  ELSE IF op # "mod" THEN DoubleArithmetic(op, l, r)
  ELSE IF \E i \in DOMAIN args : IsVariable(args[i]) THEN Err ELSE RunIntArithmetic(op, l, r)

\* arithmetic: temporal first, then what is certainly int, then what is certainly both.
RunArithmetic(op, args, l, r) ==
  IF op \in {"add", "sub"} /\ \E i \in DOMAIN args : args[i].temporal # "none"
  THEN IF TemporalKind(op, args) # "none" /\ {l.t, r.t} \subseteq {"time", "dur"}
       THEN [t |-> TemporalKind(op, args), v |-> IF op = "add" THEN l.v + r.v ELSE l.v - r.v]
       ELSE Err
  ELSE IF IsIntExpression(op, args) THEN RunIntArithmetic(op, l, r)
  ELSE IF (\E i \in DOMAIN args : args[i].int) /\ \E i \in DOMAIN args : IsDoubleOperand(args[i]) THEN Err
  ELSE IF op = "add" /\ l.t = "str" /\ r.t = "str" THEN [t |-> "str", v |-> l.v + r.v]
  ELSE IF IsDouble(l) /\ IsDouble(r) THEN RunNumbers(op, args, l, r) ELSE Err

\* convertToString, convertToDouble, convertToInt, parseRfc3339Timestamp, parseCelDuration.
RunConversion(op, arg, x) ==
  IF op \in {"timestamp", "duration"} THEN IF x.t = "str" THEN CelConvert(op, x) ELSE Err
  ELSE IF x.t = "dur" THEN Err
  ELSE IF op = "string" /\ arg.numeric = "int" /\ IsIntegral(x) THEN CelConvert(op, Int64(x.v))
  ELSE IF op = "double" /\ IsDouble(x) THEN IF IsFinite(x) THEN x ELSE Err
  ELSE Erased(CelConvert(op, Bigint(x)))

RunStrict(op, args, vals) ==
  CASE op = "not" -> Not(vals[1])
    [] op \in Comparisons -> RunComparison(op, vals[1], vals[2])
    [] op \in Arithmetic -> RunArithmetic(op, args, vals[1], vals[2])
    [] op \in Conversions -> RunConversion(op, args[1], vals[1])
    [] op = "size" -> Erased(CelSize(vals[1]))
    [] op = "in" -> In(Unsigned(vals[1]), vals[2])
    [] op = "hasIntersection" -> HasIntersection(vals[1], vals[2])
    [] OTHER -> StartsWith(vals[1], vals[2])

\* evaluate: an operator that always evaluates its operands throws if one of them does.
Evaluate(op, args, vals, items, bodies) ==
  CASE op \in Macros -> RunMacro(op, vals[1], items, bodies)
    [] op \in Junctions -> RunJunction(op = "or", vals)
    [] op = "if" -> RunIf(vals)
    [] OTHER -> IF \E i \in DOMAIN vals : vals[i] = Thrown THEN Thrown ELSE RunStrict(op, args, vals)

-----------------------------------------------------------------------------
(* Operands *)

\* What the application sent to check(): under "omitted", no attribute for a null.
Sent(x) == IF x = Undefined \/ (x = Null /\ convention = "omitted") THEN Err ELSE x

\* lookUp of a document field, and readPath.
LookUp(x) == IF x = Undefined \/ (convention = "omitted" /\ x = Null) THEN Err ELSE x

HoldsNull(x) == x = Null \/ (x.t = "list" /\ Null \in Members[x])

Leaf(kind, static, cel, js) ==
  [kind |-> kind, lit |-> Undefined, scope |-> Undefined, static |-> static, cel |-> cel, js |-> js,
   refused |-> FALSE, numeric |-> "none", int |-> FALSE, temporal |-> "none", untyped |-> FALSE,
   zeroed |-> [e \in DOMAIN cel |-> FALSE]]

\* A constant, whose type and sign the plan dropped.
ValueNode(x, hidden) ==
  [Leaf("value", LiteralType(Typed(hidden, x)), [e \in {Root} |-> Typed(hidden, x)], [e \in {Root} |-> x])
     EXCEPT !.lit = x,
            !.refused = HoldsNull(x) /\ convention = "omitted",
            !.numeric = IF IsFraction(x) THEN "double" ELSE "none",
            !.untyped = IsIntegral(x) /\ Abs(x.v) >= 2 * Rendered]

VariableNode(x) == Leaf("variable", "dyn", [e \in {Root} |-> Sent(x)], [e \in {Root} |-> LookUp(x)])

\* A lambda's variable. The elements of a list that is stored are doubles.
ElementNode(list, hidden) ==
  [Leaf("element", MemberType(hidden, list), [m \in Members[list] |-> Typed(hidden, m)],
        [m \in Members[list] |-> m])
     EXCEPT !.scope = list]

\* The lists whose elements the operands of an operator are read under.
ScopesOf(op, args) ==
  {args[i].scope : i \in DOMAIN args \ (IF op \in Macros THEN {2} ELSE {})} \ {Undefined}
ScopeOf(op, args) == IF ScopesOf(op, args) = {} THEN Undefined ELSE CHOOSE l \in ScopesOf(op, args) : TRUE
EnvsOf(scope) == IF scope = Undefined THEN {Root} ELSE Members[scope]

\* The elements a lambda is called for, in some order.
Items(op, args) ==
  IF op \notin Macros \/ args[1].js[Root].t # "list" THEN <<>>
  ELSE LET S == Members[args[1].js[Root]] IN
       CHOOSE s \in [1 .. Cardinality(S) -> S] : {s[i] : i \in DOMAIN s} = S

CelStatic(op, args) ==
  CASE op \in Arithmetic -> ResultType(op, args[1].static, args[2].static)
    [] op = "if" -> IF args[2].static = args[3].static THEN args[2].static ELSE "dyn"
    [] op \in {"size", "int"} -> "int"
    [] op = "double" -> "double"
    [] op = "string" -> "str"
    [] op = "filter" -> "list"
    [] op \in {"timestamp", "duration"} -> TemporalName(op)
    [] OTHER -> "bool"

\* What the operands of an expression are in one environment, a lambda's body left out.
Values(op, args, readings, e) ==
  [i \in DOMAIN args |-> IF op \in Macros /\ i = 2 THEN Null ELSE At(readings[i], e)]

DividesByZero(op, vals) ==
  op = "div" /\ Unsigned(vals[2]) = Num(0) /\ IsDouble(vals[1]) /\ Unsigned(vals[1]) # Num(0)

ExpressionNode(op, args) ==
  LET scope == ScopeOf(op, args)
      items == Items(op, args)
      cel == [i \in DOMAIN args |-> args[i].cel]
      js == [i \in DOMAIN args |-> args[i].js]
      below(e) == \/ \E i \in DOMAIN args \ (IF op \in Macros THEN {2} ELSE {}) : At(args[i].zeroed, e)
                  \/ \E i \in DOMAIN items : At(args[2].zeroed, items[i])
      result == [e \in EnvsOf(scope) |->
                   CelEvaluate(op, Values(op, args, cel, e), items,
                               [i \in DOMAIN items |-> At(cel[2], items[i])])]
  IN [kind |-> op, lit |-> Undefined, scope |-> scope, static |-> CelStatic(op, args), cel |-> result,
      js |-> [e \in EnvsOf(scope) |->
                Evaluate(op, args, Values(op, args, js, e), items,
                         [i \in DOMAIN items |-> At(js[2], items[i])])],
      refused |-> Invalid(op, args) \/ \E i \in DOMAIN args : args[i].refused,
      numeric |-> NumericType(op, args), int |-> IsIntExpression(op, args),
      temporal |-> TemporalKind(op, args), untyped |-> RendersUntyped(op, args),
      zeroed |-> [e \in EnvsOf(scope) |->
                      below(e) \/ DividesByZero(op, Values(op, args, cel, e))]]

-----------------------------------------------------------------------------
(* The plans explored *)

IsCondition(n) == n.static \in {"bool", "dyn"}
IsListed(n) == n.static \in {"list", "dyn"}

\* What a policy's type-checker accepts.
WellFormedPlan(op, args) ==
  /\ \A l \in ScopesOf(op, args) : ScopesOf(op, args) = {l}
  /\ op \in Arithmetic => Matching(op, args[1].static, args[2].static) # {}
  /\ op \in Junctions \union {"not"} => \A i \in DOMAIN args : IsCondition(args[i])
  /\ op = "if" =>
       IsCondition(args[1]) /\ (args[2].static = args[3].static \/ "dyn" \in {args[2].static, args[3].static})
  /\ op \in {"in", "hasIntersection"} => IsListed(args[2])
  /\ op = "hasIntersection" => IsListed(args[1])
  /\ op \in Macros =>
       /\ args[1].kind \in {"value", "variable"} /\ IsListed(args[1])
       /\ args[2].scope \in {Undefined, args[1].js[Root]}
       /\ IsCondition(args[2])
  /\ op \in Conversions => args[1].static \notin {"list", "null"}
  /\ \E i \in DOMAIN args : args[i].kind # "value"

\* What the operands of an expression are to CEL, in any environment.
Met(op, args) ==
  {Values(op, args, [i \in DOMAIN args |-> args[i].cel], e) : e \in EnvsOf(ScopeOf(op, args))}

UntypedInt(op, args) ==
  \E vals \in Met(op, args) :
    \/ /\ op \in Arithmetic /\ ~IsIntExpression(op, args)
       /\ \E i \in {1, 2} : vals[i].t = "int64" /\ ~args[i].int
    \/ /\ op = "string" /\ ~args[1].untyped /\ args[1].numeric # "int"
       /\ vals[1].t = "int64" /\ Abs(vals[1].v) >= 2 * Rendered

HiddenDouble(op, args) ==
  /\ op \in Arithmetic /\ ~IsIntExpression(op, args)
  /\ \E vals \in Met(op, args), i \in {1, 2} :
       args[i].int /\ IsDouble(vals[3 - i]) /\ ~IsDoubleOperand(args[3 - i])

HiddenTime(op, args) ==
  \E vals \in Met(op, args) :
    LET times == {i \in DOMAIN vals : vals[i].t \in {"time", "dur"}} IN
    \/ op \in Conversions /\ times # {}
    \/ op = "timestamp" /\ vals[1].t = "int64"
    \/ op \in {"add", "sub"} /\ \E i \in times : args[i].temporal = "none"
    \/ op \in Comparisons /\ times # {} /\ vals[1].t # vals[2].t

NonFinite(op, args) ==
  \E vals \in Met(op, args) :
    \/ op \in Orderings /\ NaN \in {vals[1], vals[2]} /\ Compare(op, vals[1], vals[2]) = Err
    \/ op = "double" /\ IsDouble(vals[1]) /\ ~IsFinite(vals[1])

LostSign(op, args) ==
  op = "string" /\ \E e \in DOMAIN args[1].cel : args[1].cel[e] = NegativeZero /\ args[1].js[e] = Num(0)

\* numericTypeOf takes the type of a ternary from one branch; the other may be of none, and an
\* attribute's double is then rendered as an int.
OpenBranch(op, args) ==
  /\ op = "string" /\ args[1].numeric = "int"
  /\ \E vals \in Met(op, args) : IsIntegral(vals[1]) /\ Abs(vals[1].v) >= 2 * Rendered

AdmittedShape(op, args) ==
  /\ "untypedInt" \in Admitted \/ ~UntypedInt(op, args)
  /\ "hiddenDouble" \in Admitted \/ ~HiddenDouble(op, args)
  /\ "hiddenTime" \in Admitted \/ ~HiddenTime(op, args)
  /\ "nonFinite" \in Admitted \/ ~NonFinite(op, args)
  /\ "lostSign" \in Admitted \/ ~LostSign(op, args)
  /\ "openBranch" \in Admitted \/ ~OpenBranch(op, args)

-----------------------------------------------------------------------------
(* Behaviour *)

Init ==
  /\ doc = <<>>
  /\ convention \in Conventions
  /\ stack = <<>>
  /\ nodes = 0
  /\ phase = "reading"
  /\ root = Null
  /\ answer = Null
  /\ returned = FALSE

Read(rest, n) ==
  /\ phase = "reading"
  /\ nodes < MaxNodes
  /\ nodes' = nodes + 1
  /\ Len(rest) <= 2 * (MaxNodes - nodes')     \* what is left of the bound can still join the stack
  /\ stack' = Append(rest, n)
  /\ UNCHANGED <<convention, phase, root, answer, returned>>

Signs(x) == IF x = Num(0) THEN {"negzero"} ELSE {}

ReadValue ==
  \E x \in Literals : \E hidden \in IF x.t = "list" THEN {"num"} ELSE HiddenTypes(x) \union Signs(x) :
    Read(stack, ValueNode(x, hidden)) /\ UNCHANGED doc

ReadElement ==
  /\ \/ \E x \in {y \in Literals : y.t = "list"} : \E hidden \in HiddenTypes(x) :
          Members[x] # {} /\ Read(stack, ElementNode(x, hidden))
     \/ \E r \in DOMAIN doc :
          doc[r].t = "list" /\ Members[doc[r]] # {} /\ Read(stack, [ElementNode(doc[r], "num") EXCEPT !.static = "dyn"])
  /\ UNCHANGED doc

\* The first reading of an attribute decides what the document holds there.
ReadVariable ==
  \E r \in Refs, x \in DocValues :
    /\ r \in DOMAIN doc => x = doc[r]
    /\ Cardinality(DOMAIN doc \union {r}) <= MaxRefs
    /\ doc' = [q \in DOMAIN doc \union {r} |-> IF q = r THEN x ELSE doc[q]]
    /\ Read(stack, VariableNode(x))

Top(n) == SubSeq(stack, Len(stack) - n + 1, Len(stack))
Under(n) == SubSeq(stack, 1, Len(stack) - n)

ReadExpression ==
  \E op \in Operators :
    /\ Width(op) <= Len(stack)
    /\ WellFormedPlan(op, Top(Width(op)))
    /\ AdmittedShape(op, Top(Width(op)))
    /\ Read(Under(Width(op)), ExpressionNode(op, Top(Width(op))))
    /\ UNCHANGED doc

\* queryPlanToConvex of a condition the engine takes no part of: the refusals, or a post-filter.
Translate ==
  /\ phase = "reading"
  /\ Len(stack) = 1 /\ stack[1].scope = Undefined
  /\ IsCondition(stack[1]) /\ stack[1].kind # "value"
  /\ root' = stack[1].cel[Root]
  /\ answer' = stack[1].js[Root]
  /\ phase' = IF stack[1].refused THEN "refused" ELSE "translated"
  /\ stack' = <<>>
  /\ UNCHANGED <<doc, convention, nodes, returned>>

\* The caller's loop over the candidates: it keeps what is true, and a throw ends the query.
RunPostFilter ==
  /\ phase = "translated"
  /\ phase' = IF answer = Thrown THEN "aborted" ELSE "answered"
  /\ returned' = (answer = True)
  /\ UNCHANGED <<doc, convention, stack, nodes, root, answer>>

Next == ReadValue \/ ReadElement \/ ReadVariable \/ ReadExpression \/ Translate \/ RunPostFilter

Spec == Init /\ [][Next]_vars

-----------------------------------------------------------------------------
(* Properties *)

EvaluatorValue == [t : (Types \ {"undefined"}) \union {"nan", "negzero", "time", "dur", "thrown"}, v : Int]

\* Type correctness of the call.
TypeOK ==
  /\ DOMAIN doc \subseteq Refs /\ \A r \in DOMAIN doc : doc[r] \in DocValues
  /\ convention \in Conventions
  /\ nodes \in 0 .. MaxNodes
  /\ \A i \in DOMAIN stack : LET n == stack[i] IN
       /\ n.numeric \in {"none", "int", "double"} /\ n.temporal \in {"none", "time", "dur"}
       /\ \A e \in DOMAIN n.cel : n.cel[e] \in EvaluatorValue /\ n.cel[e] # Thrown
       /\ \A e \in DOMAIN n.js : n.js[e] \in EvaluatorValue /\ n.js[e].t # "int64"
  /\ phase \in {"reading", "refused", "translated", "aborted", "answered"}
  /\ root \in EvaluatorValue /\ answer \in EvaluatorValue
  /\ returned \in BOOLEAN

\* What evaluate() returns is what CEL computes with the types the plan dropped: the same value,
\* and an error for an error, through every loop that absorbs one; and the post-filter made of it
\* returns exactly the documents on which the condition is true.
EvaluatorFaithful ==
  /\ phase = "answered" => (returned <=> root = True)
  /\ \A i \in DOMAIN stack : LET n == stack[i] IN
       ~n.refused => \A e \in DOMAIN n.cel : n.js[e] # Thrown => Unsigned(n.js[e]) = Erased(n.cel[e])

\* evaluate() throws, and ends the query for every document, only where CEL divides a number by a
\* zero: nowhere else does the sign that a plan has lost decide anything.
ThrowsOnlyAtZero ==
  \A i \in DOMAIN stack : LET n == stack[i] IN
    ~n.refused => \A e \in DOMAIN n.js : n.js[e] = Thrown => n.zeroed[e]
=============================================================================
