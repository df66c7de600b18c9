--------------------------- MODULE ConvexAdapter ---------------------------
(***************************************************************************)
(* The Convex adapter: queryPlanToConvex (convex/src/index.ts) splitting a *)
(* plan's condition between Convex's filter engine (pushdown.ts) and the   *)
(* adapter's own CEL evaluator (evaluate.ts), after the refusals of        *)
(* validate.ts, and the trusted caller of the README that runs the two.    *)
(*                                                                         *)
(* Every pass of the adapter is a recursion on the plan that returns, for  *)
(* a node, something computed from what it returned for the operands. The  *)
(* module reads the plan in postfix order: the stack holds one record per  *)
(* finished operand with everything the passes say of it, and reading an   *)
(* expression replaces its operands by its own record. One document is     *)
(* chosen at the start, and the record says what the node evaluates to on  *)
(* it and whether the filter emitted for the node matches it.              *)
(***************************************************************************)
EXTENDS CelValues, Sequences

CONSTANTS
  Refs,                 \* attribute paths the plan may reference
  DocValues,            \* what a document may hold at a mapped path
  Literals,             \* constants the planner may ship
  Mappings,             \* how the mapper may declare a path, see AllMappings
  Conventions,          \* the nullAttributeRepresentation values explored
  Operators,            \* the plan operators explored
  MistypedConditions,   \* may an attribute used as a condition hold a non-boolean?
  MaxNodes,             \* bound on the nodes of a plan
  MaxWidth              \* bound on the operands of a node

\* No mapper entry; an entry that leaves `nullable` undeclared; nullable: true; nullable: false.
AllMappings == {"unmapped", "undeclared", "nullable", "required"}

Junctions == {"and", "or"}
Conditions == Junctions \union {"not"}      \* their operands are conditions themselves

(* Operators only the evaluator answers. startsWith stands for the three string tests, filter for  *)
(* filter and map, exists for the three quantifiers; "unknown" is any name the roster lacks.       *)
PostOnly == {"startsWith", "if", "size", "filter", "exists", "unknown"}
AllOperators == Conditions \union Comparisons \union {"in"} \union PostOnly

Widths(op) ==
  CASE op \in Junctions -> 0 .. MaxWidth
    [] op \in {"not", "size", "filter", "exists", "unknown"} -> {1}
    [] op = "if" -> {3}
    [] OTHER -> {2}

ASSUME ValuesAssumption ==
  /\ DocValues \subseteq Value
  /\ \A x \in DocValues : x.t \notin {"error", "bytes"}
  /\ Literals \subseteq Value
  /\ \A x \in Literals : x.t \notin {"error", "undefined", "int64", "bytes"}
  /\ \A x \in Literals : IsCollection(x) => \A m \in Members[x] : m.t # "int64"
ASSUME CallAssumption ==
  /\ Mappings \subseteq AllMappings
  /\ Conventions \subseteq {"explicit", "omitted"}
  /\ Operators \subseteq AllOperators
  /\ MistypedConditions \in BOOLEAN
ASSUME BoundsAssumption == MaxNodes \in Nat /\ MaxWidth \in Nat

VARIABLES
  doc,               \* the document: what each path holds
  mapping,           \* how the mapper declares each path
  convention,        \* nullAttributeRepresentation
  allowPostFilter,   \* the caller's opt-in
  stack,             \* operands read and not yet consumed
  nodes,             \* plan nodes read so far
  phase,             \* where the call, then the query, stands
  root,              \* the condition's own record, once the plan is read
  result,            \* what queryPlanToConvex returned
  returned           \* does the query's answer hold the document?

config == <<doc, mapping, convention, allowPostFilter>>
vars == <<doc, mapping, convention, allowPostFilter, stack, nodes, phase, root, result, returned>>

-----------------------------------------------------------------------------
(* The mapper and the document *)

\* isNullableField over the mapper queryPlanToConvex hands to buildFilters.
Nullable(r) ==
  \/ mapping[r] = "nullable"
  \/ mapping[r] = "undeclared" /\ convention = "omitted"

\* What the engine reads: an unmapped reference would be the plan path itself, which is absent.
Stored(r) == IF mapping[r] = "unmapped" THEN Undefined ELSE doc[r]

\* A path read without the own-property test of getNestedValue.
LookUpUnchecked(r) ==
  IF convention = "omitted" /\ Stored(r) = Null THEN Err ELSE Stored(r)

\* What the evaluator reads: an absent path is an error, and so is a null under "omitted".
LookUp(r) ==
  IF Stored(r) = Undefined \/ (convention = "omitted" /\ Stored(r) = Null)
  THEN Err ELSE Stored(r)

\* What declaring a field non-nullable asserts of every document.
DeclarationsHold ==
  \A r \in Refs : mapping[r] # "unmapped" /\ ~Nullable(r) =>
    doc[r] # Undefined /\ (convention = "omitted" => doc[r] # Null)

-----------------------------------------------------------------------------
(* pushdown.ts: what the engine answers, over the records of the operands *)

\* The comparison that holds once the operands are swapped.
Mirrored(op) ==
  CASE op = "lt" -> "gt" [] op = "le" -> "ge" [] op = "gt" -> "lt" [] op = "ge" -> "le"
    [] OTHER -> op

FieldFirst(args) == args[1].kind = "variable" /\ args[2].kind = "value"
FieldSecond(args) == args[1].kind = "value" /\ args[2].kind = "variable"

\* The accepts of equalityRule and orderingRule.
ComparisonAccepts(args) ==
  \/ FieldFirst(args) /\ ~args[1].nullable
  \/ FieldSecond(args) /\ ~args[2].nullable

\* The accepts of the in rule: a field in a literal list.
MembershipAccepts(args) ==
  /\ args[1].kind = "variable" /\ ~args[1].nullable
  /\ args[2].kind = "value" /\ args[2].raw.t = "list"

CanPush(op, args) ==
  \/ op \in Conditions /\ \A i \in DOMAIN args : args[i].push
  \/ op \in Comparisons /\ ComparisonAccepts(args)
  \/ op = "in" /\ MembershipAccepts(args)

\* Bounded by the values just outside the literal's type in the engine's order.
SameTypeAs(literal, field) ==
  \/ /\ literal.t = "num"
     /\ EngineCompare("gt", field, [t |-> "int64", v |-> Int64Max])
     /\ EngineCompare("lt", field, False)
  \/ /\ literal.t = "bool"
     /\ EngineCompare("ge", field, False)
     /\ EngineCompare("le", field, True)
  \/ /\ literal.t = "str"
     /\ EngineCompare("ge", field, [t |-> "str", v |-> 0])
     /\ EngineCompare("lt", field, [t |-> "bytes", v |-> 0])

\* The guard inside the negation.
EmitComparisonUnguarded(op, field, literal, negated) ==
  LET compared == (op \in Orderings => SameTypeAs(literal, field)) /\ EngineCompare(op, field, literal)
  IN IF negated THEN ~compared ELSE compared

\* The filter of a comparison of a field with a literal, in the field's favour.
EmitComparison(op, field, literal, negated) ==
  /\ op \in Orderings => SameTypeAs(literal, field)
  /\ IF negated THEN ~EngineCompare(op, field, literal) ELSE EngineCompare(op, field, literal)

\* Does the filter emitted for the expression, under that polarity, match the document?
Emit(op, args, negated) ==
  \/ /\ op = "and"
     /\ IF negated THEN \E i \in DOMAIN args : args[i].rejects
        ELSE \A i \in DOMAIN args : args[i].selects
  \/ /\ op = "or"
     /\ IF negated THEN \A i \in DOMAIN args : args[i].rejects
        ELSE \E i \in DOMAIN args : args[i].selects
  \/ /\ op = "not"
     /\ IF negated THEN args[1].selects ELSE args[1].rejects
  \/ /\ op \in Comparisons
     /\ IF FieldFirst(args) THEN EmitComparison(op, args[1].raw, args[2].raw, negated)
        ELSE EmitComparison(Mirrored(op), args[2].raw, args[1].raw, negated)
  \/ /\ op = "in"
     /\ IF negated THEN \A m \in Members[args[2].raw] : args[1].raw # m
        ELSE \E m \in Members[args[2].raw] : args[1].raw = m

-----------------------------------------------------------------------------
(* evaluate.ts: what an expression may evaluate to, given its operands' values *)

StringTest(receiver, argument) ==
  IF receiver.t = "str" /\ argument.t = "str" THEN {True, False} ELSE {Err}

If(condition, whenTrue, whenFalse) ==
  CASE AsBoolean(condition) = Err -> Err
    [] condition = True -> whenTrue
    [] OTHER -> whenFalse

\* Strings are measured as empty or not.
Size(x) ==
  CASE x.t = "str" -> [t |-> "num", v |-> IF x.v = 0 THEN 0 ELSE 1]
    [] IsCollection(x) -> [t |-> "num", v |-> Cardinality(Members[x])]
    [] OTHER -> Err

\* A lambda's body is left open: any sublist may remain, and any error may surface.
Filter(collection) ==
  IF IsCollection(collection)
  THEN {Err} \union {l \in DOMAIN Members : l.t = "list" /\ Members[l] \subseteq Members[collection]}
  ELSE {Err}

Quantifier(collection) ==
  IF IsCollection(collection) THEN {True, False, Err} ELSE {Err}

ValsAt(args, I) == {args[i].val : i \in I}
Vals(args) == ValsAt(args, DOMAIN args)

Evaluate(op, args) ==
  CASE op = "and" -> {Junction(FALSE, Vals(args))}
    [] op = "or" -> {Junction(TRUE, Vals(args))}
    [] op = "not" -> {Not(args[1].val)}
    [] op \in Comparisons -> {CompareValues(op, args[1].val, args[2].val)}
    [] op = "in" -> {In(args[1].val, args[2].val)}
    [] op = "startsWith" -> StringTest(args[1].val, args[2].val)
    [] op = "if" -> {If(args[1].val, args[2].val, args[3].val)}
    [] op = "size" -> {Size(args[1].val)}
    [] op = "filter" -> Filter(args[1].val)
    [] op = "exists" -> Quantifier(args[1].val)
    [] OTHER -> {Err}

-----------------------------------------------------------------------------
(* The record of a node *)

\* carriesNullLiteral.
CarriesNull(n) ==
  n.kind = "value" /\ (n.raw = Null \/ (n.raw.t = "list" /\ Null \in Members[n.raw]))

ValueNode(x) ==
  [kind |-> "value", raw |-> x, nullable |-> FALSE, width |-> 0, val |-> x,
   push |-> TRUE, selects |-> x = True, rejects |-> x # True, throws |-> x.t # "bool",
   unmapped |-> FALSE, nullOperand |-> FALSE, unknown |-> FALSE,
   listFound |-> FALSE]

VariableNode(r) ==
  [kind |-> "variable", raw |-> Stored(r), nullable |-> Nullable(r), width |-> 0, val |-> LookUp(r),
   push |-> ~Nullable(r), selects |-> Stored(r) = True, rejects |-> Stored(r) # True,
   throws |-> FALSE,
   unmapped |-> mapping[r] = "unmapped", nullOperand |-> FALSE, unknown |-> FALSE,
   listFound |-> FALSE]

(* throws: building the filter meets a bare value that is no boolean. listFound is what           *)
(* assertNoListValuedCondition meets.                                                              *)
ExpressionNode(op, args, val) ==
  [kind |-> op, raw |-> Undefined, nullable |-> FALSE, width |-> Len(args), val |-> val,
   push |-> CanPush(op, args),
   selects |-> CanPush(op, args) /\ Emit(op, args, FALSE),
   rejects |-> CanPush(op, args) /\ Emit(op, args, TRUE),
   throws |-> op \in Conditions /\ \E i \in DOMAIN args : args[i].throws,
   unmapped |-> \E i \in DOMAIN args : args[i].unmapped,
   nullOperand |-> \E i \in DOMAIN args : CarriesNull(args[i]) \/ args[i].nullOperand,
   unknown |-> op = "unknown" \/ \E i \in DOMAIN args : args[i].unknown,
   listFound |-> op = "filter" \/ (op \in Conditions /\ \E i \in DOMAIN args : args[i].listFound)]

\* May the node stand where a condition does? Only MistypedConditions lets a field that is always
\* present and not boolean stand there.
UsableAsCondition(n) ==
  MistypedConditions \/ (n.kind = "variable" /\ ~n.nullable => n.raw.t = "bool")

-----------------------------------------------------------------------------
(* queryPlanToConvex *)

\* Without assertEveryReferenceMapped.
RefusedButUnmapped(n) ==
  \/ n.listFound
  \/ convention = "omitted" /\ n.nullOperand
  \/ n.unknown

\* The four passes of validate.ts; the first that finds something throws.
Refused(n) ==
  \/ n.listFound
  \/ convention = "omitted" /\ n.nullOperand
  \/ n.unknown
  \/ n.unmapped

Unfiltered(path) == [path |-> path, match |-> TRUE, throws |-> FALSE, keep |-> TRUE]

\* The post-filter's half joined by `or`.
SplitFiltersByOr(args) ==
  LET pushable == {i \in DOMAIN args : args[i].push}
      others == DOMAIN args \ pushable
  IN [path |-> "split",
      match |-> \A i \in pushable : args[i].selects,
      throws |-> \E i \in pushable : args[i].throws,
      keep |-> Junction(TRUE, ValsAt(args, others)) = True]

\* The root `and`'s operands by the half that answers them; conjunction() joins each half again.
SplitFilters(args) ==
  LET pushable == {i \in DOMAIN args : args[i].push}
      others == DOMAIN args \ pushable
  IN [path |-> "split",
      match |-> \A i \in pushable : args[i].selects,
      throws |-> \E i \in pushable : args[i].throws,
      keep |-> Junction(FALSE, ValsAt(args, others)) = True]

BuildFilters(n, args) ==
  IF n.push THEN
    [path |-> "db", match |-> n.selects, throws |-> n.throws, keep |-> TRUE]
  ELSE IF n.kind = "and" /\ n.width > 1 /\ \E i \in DOMAIN args : args[i].push THEN
    SplitFilters(args)
  ELSE [path |-> "post", match |-> TRUE, throws |-> FALSE, keep |-> n.val = True]

UsesPostFilter(built) == built.path \in {"split", "post"}

\* The opt-in asked for only when nothing is pushed down.
QueryPlanToConvexSplitUngated(n, args) ==
  LET built == BuildFilters(n, args)
      refused == Refused(n) \/ (built.path = "post" /\ ~allowPostFilter)
  IN /\ phase = "reading"
     /\ UsableAsCondition(n)
     /\ root' = n
     /\ phase' = IF refused THEN "refused" ELSE "translated"
     /\ result' = IF refused THEN Unfiltered("refused") ELSE built
     /\ stack' = <<>>
     /\ UNCHANGED <<config, nodes, returned>>

\* A conditional plan whose root has the record n, args being the operands of a root `and`.
QueryPlanToConvex(n, args) ==
  LET built == BuildFilters(n, args)
      refused == Refused(n) \/ (UsesPostFilter(built) /\ ~allowPostFilter)
  IN /\ phase = "reading"
     /\ UsableAsCondition(n)
     /\ root' = n
     /\ phase' = IF refused THEN "refused" ELSE "translated"
     /\ result' = IF refused THEN Unfiltered("refused") ELSE built
     /\ stack' = <<>>
     /\ UNCHANGED <<config, nodes, returned>>

-----------------------------------------------------------------------------
(* Behaviour *)

Init ==
  /\ doc \in [Refs -> DocValues]
  /\ mapping \in [Refs -> Mappings]
  /\ convention \in Conventions
  /\ allowPostFilter \in BOOLEAN
  /\ DeclarationsHold
  /\ stack = <<>>
  /\ nodes = 0
  /\ phase = "reading"
  /\ root = ValueNode(Null)
  /\ result = Unfiltered("none")
  /\ returned = FALSE

Read(rest, n) ==
  /\ phase = "reading"
  /\ nodes < MaxNodes
  /\ nodes' = nodes + 1
  /\ stack' = Append(rest, n)
  /\ UNCHANGED <<config, phase, root, result, returned>>

ReadValue == \E x \in Literals : Read(stack, ValueNode(x))

ReadVariable == \E r \in Refs : Read(stack, VariableNode(r))

\* The last n operands on the stack, and what is under them.
Top(n) == SubSeq(stack, Len(stack) - n + 1, Len(stack))
Under(n) == SubSeq(stack, 1, Len(stack) - n)

ReadExpression ==
  \E op \in Operators : \E n \in Widths(op) :
    /\ n <= Len(stack)
    /\ op \in Conditions => \A i \in 1 .. n : UsableAsCondition(Top(n)[i])
    /\ \E x \in Evaluate(op, Top(n)) : Read(Under(n), ExpressionNode(op, Top(n), x))

\* A conditional plan whose root is no `and` of several operands.
Translate ==
  /\ Len(stack) = 1
  /\ ~(stack[1].kind = "and" /\ stack[1].width > 1)
  /\ QueryPlanToConvex(stack[1], <<>>)

\* A conditional plan whose root is an `and` of everything on the stack.
TranslateConjunction ==
  /\ Len(stack) \in 2 .. MaxWidth
  /\ \A i \in DOMAIN stack : UsableAsCondition(stack[i])
  /\ \E x \in Evaluate("and", stack) :
       QueryPlanToConvex(ExpressionNode("and", stack, x), stack)

\* ALWAYS_ALLOWED and ALWAYS_DENIED carry no condition; any other kind is refused.
TranslateUnconditional ==
  /\ phase = "reading" /\ nodes = 0
  /\ \E kind \in {"all", "none", "refused"} :
       /\ result' = Unfiltered(kind)
       /\ phase' = IF kind = "refused" THEN "refused" ELSE "translated"
       /\ root' = ValueNode(Bool(kind = "all"))
  /\ UNCHANGED <<config, stack, nodes, returned>>

\* The post-filter skipped when the engine has answered a half.
RunFilterAlone ==
  /\ phase = "translated"
  /\ IF result.throws THEN phase' = "aborted" /\ UNCHANGED returned
     ELSE IF result.path = "post" THEN phase' = "candidate" /\ UNCHANGED returned
     ELSE phase' = "answered" /\ returned' = (result.match /\ result.path # "none")
  /\ UNCHANGED <<config, stack, nodes, root, result>>

\* The caller runs the filter, if there is one, and holds a candidate if a post-filter is left.
RunFilter ==
  /\ phase = "translated"
  /\ IF result.throws THEN phase' = "aborted" /\ UNCHANGED returned
     ELSE IF result.match /\ UsesPostFilter(result) THEN phase' = "candidate" /\ UNCHANGED returned
     ELSE phase' = "answered" /\ returned' = (result.match /\ result.path # "none")
  /\ UNCHANGED <<config, stack, nodes, root, result>>

RunPostFilter ==
  /\ phase = "candidate"
  /\ phase' = "answered"
  /\ returned' = result.keep
  /\ UNCHANGED <<config, stack, nodes, root, result>>

Next ==
  \/ ReadValue \/ ReadVariable \/ ReadExpression
  \/ Translate \/ TranslateConjunction \/ TranslateUnconditional
  \/ RunFilter \/ RunPostFilter

Spec == Init /\ [][Next]_vars

-----------------------------------------------------------------------------
(* Properties *)

Node ==
  [kind : {"value", "variable"} \union AllOperators, raw : Value, nullable : BOOLEAN,
   width : Nat, val : CelValue, push : BOOLEAN, selects : BOOLEAN, rejects : BOOLEAN,
   throws : BOOLEAN, unmapped : BOOLEAN, nullOperand : BOOLEAN, unknown : BOOLEAN,
   listFound : BOOLEAN]

Result ==
  [path : {"none", "all", "refused", "db", "split", "post"}, match : BOOLEAN,
   throws : BOOLEAN, keep : BOOLEAN]

\* Type correctness of the call: every record on the stack, the root's and the result. No node
\* evaluates to undefined: an absent path is an evaluation error (getNestedValue).
TypeOK ==
  /\ doc \in [Refs -> DocValues]
  /\ mapping \in [Refs -> Mappings]
  /\ convention \in Conventions
  /\ allowPostFilter \in BOOLEAN
  /\ stack \in Seq(Node)
  /\ nodes \in Nat
  /\ phase \in {"reading", "refused", "translated", "candidate", "answered", "aborted"}
  /\ root \in Node
  /\ result \in Result
  /\ returned \in BOOLEAN

\* pushdown.ts:44-47 of one node: under either polarity the emitted filter matches exactly when
\* CEL says true, so an error matches neither.
Agrees(n) ==
  /\ n.selects <=> n.val = True
  /\ n.rejects <=> n.val = False

Exact(n) == n.push /\ ~n.throws /\ ~n.unmapped => Agrees(n)

\* Every part of a plan that is pushed down is answered by the engine as CEL answers it, whatever
\* encloses it: the rules of pushdown.ts, their guards and De Morgan's rewriting taken together.
PushdownExact == \A i \in DOMAIN stack : UsableAsCondition(stack[i]) => Exact(stack[i])

\* Whatever path the condition took, the filter and the post-filter together decide the document
\* as CEL decides the whole condition (buildFilters).
HalvesDecide ==
  result.path \in {"db", "split", "post"} /\ ~result.throws =>
    (result.match /\ result.keep <=> root.val = True)

\* The answer the caller ends with holds the document exactly when CEL allows it: no document the
\* PDP denies is returned and none it allows is lost.
AnswerIsVerdict == phase = "answered" => (returned <=> root.val = True)

\* A document is read ahead of the full condition only by a caller that opted in, and never one
\* the engine's half already excludes.
CandidatesOptedIn == phase = "candidate" => allowPostFilter /\ result.match

Verdict ==
  IF phase = "reading" THEN "unknown"
  ELSE IF root.val = True THEN "allow" ELSE IF root.val = False THEN "deny" ELSE "error"

Outcome ==
  CASE phase = "reading" -> "pending"
    [] phase \in {"refused", "aborted"} -> "refused"
    [] phase = "answered" -> "answered"
    [] OTHER -> "translated"

Contract == INSTANCE AdapterContract WITH outcome <- Outcome, verdict <- Verdict, lossy <- FALSE

\* The adapter implements the contract: it translates or refuses, answers once, and the answer is
\* the verdict.
ImplementsContract == Contract!Spec
=============================================================================
