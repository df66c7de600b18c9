---------------------------- MODULE ChromaAdapter ----------------------------
(***************************************************************************)
(* The LangChain Chroma adapter: queryPlanToChromaDB (index.ts) pushes the *)
(* part of a condition Chroma's Where grammar holds into a filter, and, if *)
(* the caller opted in, compiles the rest into a predicate over one        *)
(* record's metadata (postFilter.ts, cel.ts).                              *)
(*                                                                         *)
(* A plan drops what CEL knows: whether an integral literal was written as *)
(* an int or a double, and metadata drops the sign of a zero. The operand  *)
(* record holds both readings, the value CEL computes with the types the   *)
(* policy had (cel) and the one the predicate computes without them (js),  *)
(* each a function of the lambda element in scope, if there is one. CEL's  *)
(* int is "int64", its double and a JavaScript number are "num".           *)
(*                                                                         *)
(* The plan is read in postfix order.                                      *)
(***************************************************************************)
EXTENDS CelTypes

CONSTANTS
  Refs,            \* the attributes of a plan
  Metadata,        \* what a record may store under a key
  Declarations,    \* what the mapper may say of a key, see Declaration
  Literals,        \* constants of the plan, lists included
  Operators,       \* the plan operators explored
  Admitted,        \* the shapes of Disagreements a plan may hold
  MaxRefs,         \* bound on the references of a plan
  MaxNodes         \* bound on its nodes

Declaration ==
  [mapped : BOOLEAN, required : BOOLEAN, numericType : {"none", "integer", "float"},
   boolean : BOOLEAN]

Junctions == {"and", "or"}
Macros == {"exists", "all", "existsOne"}
AllOperators ==
  Junctions \union Comparisons \union Arithmetic \union Macros \union Conversions
    \union {"not", "in", "size", "if", "startsWith", "matches", "hasIntersection"}

Width(op) ==
  IF op \in Conversions \union {"not", "size"} THEN 1 ELSE IF op = "if" THEN 3 ELSE 2

\* mixedList: arithmetic on an element of a list that holds integral and fractional literals.
\* nonFinite: a NaN ordered with what is no number, or a double() of what is not finite.
\* reconverted: timestamp() of a timestamp, or duration() of a duration.
\* bareField: a bare reference as a condition, over a value that is no boolean.
Disagreements == {"mixedList", "nonFinite", "reconverted", "bareField"}

ASSUME MetadataAssumption ==
  /\ Metadata \subseteq {x \in Value : x.t \in {"undefined", "num", "str", "bool"}}
  /\ Literals \subseteq {x \in Value : x.t \in {"null", "num", "str", "bool", "list"}}
  /\ Declarations \subseteq Declaration
  /\ \A x \in Literals : x.t = "list" => \A m \in Members[x] : m.t # "int64"
  /\ \A d \in Declarations : d.boolean => d.numericType = "none"
ASSUME BoundsAssumption ==
  /\ Operators \subseteq AllOperators
  /\ Admitted \subseteq Disagreements
  /\ MaxRefs \in Nat /\ MaxNodes \in Nat

VARIABLES
  metadata,    \* what the record stores under the keys read so far
  sent,        \* what the application sent to check() for each
  mapper,      \* how each is declared
  allowed,     \* allowPostFilter
  stack,       \* operands read and not yet consumed
  nodes,       \* plan nodes read so far
  phase,       \* where the call stands
  root,        \* what CEL says of the condition
  pushed,      \* does the Where match the record?
  kept,        \* does the post-filter keep it?
  returned     \* is it in the caller's hands?

vars == <<metadata, sent, mapper, allowed, stack, nodes, phase, root, pushed, kept, returned>>

-----------------------------------------------------------------------------
(* CEL, with the types the policy had *)

\* The operators on which types have no bearing, the same for CEL and for the predicate.
Apply(op, vals, bodies) ==
  CASE op = "and" -> Junction(FALSE, {vals[i] : i \in DOMAIN vals})
    [] op = "or" -> Junction(TRUE, {vals[i] : i \in DOMAIN vals})
    [] op = "not" -> Not(vals[1])
    [] op = "if" -> IfThenElse(vals[1], vals[2], vals[3])
    [] op = "in" -> In(Unsigned(vals[1]), vals[2])
    [] op = "hasIntersection" -> HasIntersection(vals[1], vals[2])
    [] op \in {"startsWith", "matches"} -> StartsWith(vals[1], vals[2])
    [] op = "exists" -> Exists(vals[1], {bodies[m] : m \in DOMAIN bodies})
    [] op = "all" -> All(vals[1], {bodies[m] : m \in DOMAIN bodies})
    [] op = "existsOne" -> IF IsCollection(vals[1]) THEN ExistsOne(bodies) ELSE Err

EvaluateCel(op, vals, bodies) ==
  CASE op \in Comparisons -> Compare(op, vals[1], vals[2])
    [] op \in Arithmetic -> CelArithmetic(op, vals[1], vals[2])
    [] op \in Conversions -> CelConvert(op, vals[1])
    [] op = "size" -> CelSize(vals[1])
    [] OTHER -> Apply(op, vals, bodies)

-----------------------------------------------------------------------------
(* postFilter.ts: the predicate, without those types *)

StaticTypes ==
  {"int", "double", "ambiguous", "attribute", "timestamp", "duration", "other", "unknown"}
IntLike == {"int", "ambiguous"}

\* elementType: only a literal list says anything of its elements.
ElementType(list) ==
  LET numbers == {m \in Members[list] : m.t = "num"} IN
  IF numbers = {} THEN "other"
  ELSE IF numbers # Members[list] THEN "unknown"
  ELSE IF \A n \in numbers : IsFraction(n) THEN "double" ELSE "ambiguous"

\* joinTypes: a number only when certain.
JoinTypes(a, b) ==
  IF a = b THEN a
  ELSE CASE {a, b} = {"ambiguous", "int"} -> "int"
         [] {a, b} = {"ambiguous", "double"} -> "double"
         [] {a, b} \subseteq {"attribute", "double", "other"} -> "attribute"
         [] OTHER -> "unknown"

TemporalName(static) ==
  CASE static = "timestamp" -> "time" [] static = "duration" -> "dur" [] OTHER -> "none"
IsTemporal(l, r) == TemporalName(l) # "none" \/ TemporalName(r) # "none"
TemporalStatic(op, l, r) == TemporalType(op, TemporalName(l), TemporalName(r))

\* An integral literal beside a stored number taken for a double.
ArithmeticModeLenient(op, l, r) ==
  IF "unknown" \in {l, r} THEN "refused"
  ELSE IF op = "mod" THEN IF {l, r} \subseteq IntLike THEN "int" ELSE "error"
  ELSE IF "int" \in {l, r}
  THEN IF {l, r} \subseteq IntLike THEN "int" ELSE IF "double" \in {l, r} THEN "refused" ELSE "error"
  ELSE "dynamic"

\* arithmeticMode: refused where the answer turns on a type the plan does not carry.
ArithmeticMode(op, l, r) ==
  IF "unknown" \in {l, r} THEN "refused"
  ELSE IF op = "mod" THEN IF {l, r} \subseteq IntLike THEN "int" ELSE "error"
  ELSE IF "int" \in {l, r}
  THEN IF {l, r} \subseteq IntLike THEN "int" ELSE IF "double" \in {l, r} THEN "refused" ELSE "error"
  ELSE IF {l, r} \in {{"ambiguous", "attribute"}, {"ambiguous"}} THEN "refused"
  ELSE "dynamic"

ArithmeticRefused(op, l, r) ==
  IF IsTemporal(l.static, r.static) THEN TemporalStatic(op, l.static, r.static) = "none"
  ELSE \/ ArithmeticMode(op, l.static, r.static) = "refused"
       \/ /\ op = "div" /\ r.reads
          /\ ArithmeticMode(op, l.static, r.static) = "dynamic"

ArithmeticStatic(op, l, r) ==
  LET mode == ArithmeticMode(op, l, r) IN
  IF IsTemporal(l, r) THEN IF TemporalStatic(op, l, r) = "time" THEN "timestamp" ELSE "duration"
  ELSE IF mode = "int" THEN "int"
  ELSE IF mode = "dynamic" /\ "double" \in {l, r} THEN "double"
  ELSE IF mode = "dynamic" /\ "attribute" \in {l, r} THEN "attribute"
  ELSE "other"

RunArithmetic(op, l, r, a, b) ==
  LET mode == ArithmeticMode(op, l, r) IN
  IF Err \in {a, b} THEN Err
  ELSE IF IsTemporal(l, r) THEN IF TemporalType(op, a.t, b.t) = "none" THEN Err ELSE Temporal(op, a, b)
  ELSE IF mode = "error" THEN Err
  ELSE IF mode = "int"
  THEN IF {a.t, b.t} = {"num"} /\ ~IsFraction(a) /\ ~IsFraction(b)
       THEN Erased(IntArithmetic(op, a.v \div 2, b.v \div 2)) ELSE Err
  ELSE IF IsDouble(a) /\ IsDouble(b) THEN DoubleArithmetic(op, a, b)
  ELSE IF op = "add" /\ a.t = "str" /\ b.t = "str" THEN [t |-> "str", v |-> a.v + b.v]
  ELSE Err

\* string() of a number the record stored, whatever the sign of its zero.
ConversionRefusedUnsigned(op, x) ==
  CASE op = "string" -> x.static \in {"timestamp", "duration", "ambiguous", "unknown"}
    [] op \in {"int", "double"} -> x.static \in {"timestamp", "duration", "unknown"}
    [] op = "timestamp" -> x.static \in IntLike \union {"duration", "unknown"}
    [] OTHER -> x.static \in IntLike \union {"timestamp", "unknown"}

ConversionRefused(op, x) ==
  CASE op = "string" -> \/ x.static \in {"timestamp", "duration", "ambiguous", "unknown"}
                        \/ x.static \notin {"int", "other"} /\ x.reads
    [] op \in {"int", "double"} -> x.static \in {"timestamp", "duration", "unknown"}
    [] op = "timestamp" -> x.static \in IntLike \union {"duration", "unknown"}
    [] OTHER -> x.static \in IntLike \union {"timestamp", "unknown"}

\* int() answering in the type it computes in.
RunConversionBigint(op, static, x) ==
  CASE op = "string" /\ static = "int" /\ x.t = "num" -> CelConvert("string", Int64(x.v))
    [] op = "double" /\ IsDouble(x) -> IF IsFinite(x) THEN x ELSE Err
    [] op \in {"timestamp", "duration"} /\ x.t # "str" -> Err
    [] OTHER -> CelConvert(op, x)

\* A conversion reads a JavaScript value: the static type tells string() an int from a double.
RunConversion(op, static, x) ==
  CASE op = "string" /\ static = "int" /\ x.t = "num" -> CelConvert("string", Int64(x.v))
    [] op = "double" /\ IsDouble(x) -> IF IsFinite(x) THEN x ELSE Err
    [] op \in {"timestamp", "duration"} /\ x.t # "str" -> Err
    [] OTHER -> Erased(CelConvert(op, x))

CompileRefused(op, args) ==
  \/ \E i \in DOMAIN args : args[i].refused
  \/ op \in Arithmetic /\ ArithmeticRefused(op, args[1], args[2])
  \/ op \in Conversions /\ ConversionRefused(op, args[1])
  \/ op = "matches" /\ args[2].lit.t # "str"

StaticType(op, args) ==
  CASE op \in Arithmetic -> ArithmeticStatic(op, args[1].static, args[2].static)
    [] op = "if" -> JoinTypes(args[2].static, args[3].static)
    [] op \in {"size", "int"} -> "int"
    [] op \in {"double", "timestamp", "duration"} -> op
    [] OTHER -> "other"

\* cel.ts asks for NaN before it asks for types.
CompareJs(op, l, r) ==
  IF op \in Orderings /\ NaN \in {l, r} /\ Err \notin {l, r} THEN False ELSE Compare(op, l, r)

EvaluateJs(op, args, vals, bodies) ==
  CASE op \in Comparisons -> CompareJs(op, vals[1], vals[2])
    [] op \in Arithmetic -> RunArithmetic(op, args[1].static, args[2].static, vals[1], vals[2])
    [] op \in Conversions -> RunConversion(op, args[1].static, vals[1])
    [] op = "size" -> Erased(CelSize(vals[1]))
    [] OTHER -> Apply(op, vals, bodies)

-----------------------------------------------------------------------------
(* index.ts: what Chroma's Where grammar holds *)

Unsupported == [outcome |-> "unsupported", match |-> FALSE]
Malformed == [outcome |-> "error", match |-> FALSE]
Where(match) == [outcome |-> "translated", match |-> match]

\* Chroma's own comparisons: exact in the type, blind to whether a negative one met a value at
\* all, and inexact between a fractional threshold and integer metadata.
ChromaMatches(op, x, lit, float) ==
  LET threshold == IF IsFraction(lit) /\ ~float THEN lit.v - 1 ELSE lit.v
  IN \/ op = "eq" /\ x = lit
     \/ op = "ne" /\ x # lit
     \/ op = "in" /\ x \in Members[lit]
     \/ op = "nin" /\ x \notin Members[lit]
     \/ op \in Orderings /\ x.t = "num" /\ Ordered(op, x.v, threshold)

IsChromaLiteral(lit) == lit.t \in {"num", "str", "bool"}

\* requireLiteral, requireNumber and requireLiteralList.
Accepts(op, lit) ==
  CASE op \in Equalities -> IsChromaLiteral(lit)
    [] op \in Orderings -> lit.t = "num"
    [] OTHER -> lit.t = "list" /\ Members[lit] # {} /\ \A m \in Members[lit] : IsChromaLiteral(m)

\* inequalityWithoutNe: the declared type gives != a spelling that a missing key does not match.
Lowers(d, lit) ==
  \/ d.boolean /\ lit.t = "bool"
  \/ d.numericType = "integer" /\ IsChromaLiteral(lit) /\ ~IsFraction(lit)

Lowered(d, x, lit) ==
  IF d.boolean THEN x = Not(lit)
  ELSE x.t = "num" /\ (lit.t = "num" => x.v # lit.v)

\* The presence gate forgotten.
CompareWhereAnyKey(d, x, op, lit) ==
  IF op = "ne" /\ Lowers(d, lit) THEN Where(Lowered(d, x, lit))
  ELSE IF \/ op \in Orderings /\ IsFraction(lit) /\ d.numericType # "float"
          \/ ~Accepts(op, lit)
  THEN Unsupported
  ELSE Where(ChromaMatches(op, x, lit, d.numericType = "float"))

\* compare: key <op> literal.
CompareWhere(d, x, op, lit) ==
  IF op = "ne" /\ Lowers(d, lit) THEN Where(Lowered(d, x, lit))
  ELSE IF \/ op \in {"ne", "nin"} /\ ~d.required
          \/ op \in Orderings /\ IsFraction(lit) /\ d.numericType # "float"
          \/ ~Accepts(op, lit)
  THEN Unsupported
  ELSE Where(ChromaMatches(op, x, lit, d.numericType = "float"))

\* COMPARISONS: what each operator becomes under negation, and with its literal first.
Negated(op) ==
  CASE op = "eq" -> "ne" [] op = "ne" -> "eq" [] op = "lt" -> "ge" [] op = "ge" -> "lt"
    [] op = "le" -> "gt" [] op = "gt" -> "le" [] op = "in" -> "nin"
Mirrored(op) ==
  CASE op = "lt" -> "gt" [] op = "gt" -> "lt" [] op = "le" -> "ge" [] op = "ge" -> "le"
    [] OTHER -> op

MapComparison(op, args, negate) ==
  LET l == args[1]
      r == args[2]
      oriented == IF l.kind = "value" THEN Mirrored(op) ELSE op
      operator == IF negate THEN Negated(oriented) ELSE oriented
      key == IF l.kind = "value" THEN r ELSE l
      lit == IF l.kind = "value" THEN l.lit ELSE r.lit
  IN IF \/ op \notin Comparisons \union {"in"}
        \/ {l.kind, r.kind} # {"variable", "value"}
        \/ op = "in" /\ l.kind = "value"
     THEN Unsupported ELSE CompareWhere(key.declared, key.stored, operator, lit)

\* $and, or $or under the negation of a conjunction: the first operand that throws decides.
Combine(conjunction, wheres) ==
  LET thrown == {i \in DOMAIN wheres : wheres[i].outcome # "translated"} IN
  IF thrown # {} THEN wheres[CHOOSE i \in thrown : \A j \in thrown : i <= j]
  ELSE Where(IF conjunction THEN \A i \in DOMAIN wheres : wheres[i].match
             ELSE \E i \in DOMAIN wheres : wheres[i].match)

MapOperand(op, args, negate) ==
  CASE op \in Junctions ->
         Combine((op = "and") # negate,
                 [i \in DOMAIN args |-> IF negate THEN args[i].whereNot ELSE args[i].where])
    [] op = "not" -> IF negate THEN args[1].where ELSE args[1].whereNot
    [] op \notin Junctions /\ Width(op) = 2 -> MapComparison(op, args, negate)
    [] OTHER -> Unsupported

-----------------------------------------------------------------------------
(* Operands: both readings of a node, in each environment it may be evaluated in *)

HoldsNull(x) == x = Null \/ (x.t = "list" /\ Null \in Members[x])
NotMapped == [mapped |-> FALSE, required |-> FALSE, numericType |-> "none", boolean |-> FALSE]

ValueNode(x, hidden) ==
  [kind |-> "value", lit |-> x, list |-> Undefined,
   static |-> IF x.t # "num" THEN "other" ELSE IF IsFraction(x) THEN "double" ELSE "ambiguous",
   celStatic |-> LiteralType(Typed(hidden, x)),
   cel |-> [e \in {Root} |-> Typed(hidden, x)], js |-> [e \in {Root} |-> x],
   refused |-> HoldsNull(x), reads |-> FALSE,
   declared |-> NotMapped, stored |-> Undefined,
   where |-> Malformed, whereNot |-> Malformed, parts |-> <<>>]

\* compileVariable and readMetadata, mapBooleanVariable. Of what was sent and what is stored,
\* the store has at most lost the sign of a zero.
VariableNode(d, stored, attribute) ==
  [kind |-> "variable", lit |-> Undefined, list |-> Undefined,
   static |-> IF d.boolean THEN "other" ELSE "attribute", celStatic |-> "dyn",
   cel |-> [e \in {Root} |-> attribute],
   js |-> [e \in {Root} |-> IF stored = Undefined THEN Err ELSE stored],
   refused |-> ~d.mapped, reads |-> TRUE, declared |-> d, stored |-> stored,
   where |-> CompareWhere(d, stored, "eq", True), whereNot |-> CompareWhere(d, stored, "ne", True),
   parts |-> <<>>]

\* A lambda's variable, over a literal list.
ElementNode(list, hidden) ==
  [kind |-> "element", lit |-> Undefined, list |-> list,
   static |-> ElementType(list), celStatic |-> MemberType(hidden, list),
   cel |-> [m \in Members[list] |-> Typed(hidden, m)], js |-> [m \in Members[list] |-> m],
   refused |-> FALSE, reads |-> FALSE, declared |-> NotMapped, stored |-> Undefined,
   where |-> Unsupported, whereNot |-> Unsupported, parts |-> <<>>]

\* The lists whose elements the operands of an operator are read under.
ListsOf(op, args) ==
  {args[i].list : i \in DOMAIN args \ (IF op \in Macros THEN {2} ELSE {})} \ {Undefined}
ScopeOf(op, args) == IF ListsOf(op, args) = {} THEN Undefined ELSE CHOOSE l \in ListsOf(op, args) : TRUE
EnvsOf(list) == IF list = Undefined THEN {Root} ELSE Members[list]

\* What a lambda ranges over: nothing, if its collection is no list.
Ranged(op, args) == IF op \in Macros /\ args[1].lit.t = "list" THEN Members[args[1].lit] ELSE {}

CelStatic(op, args) ==
  CASE op \in Arithmetic -> ResultType(op, args[1].celStatic, args[2].celStatic)
    [] op = "if" -> IF args[2].celStatic = args[3].celStatic THEN args[2].celStatic ELSE "dyn"
    [] op \in {"size", "int"} -> "int"
    [] op = "double" -> "double"
    [] op = "string" -> "str"
    [] op = "timestamp" -> "time"
    [] op = "duration" -> "dur"
    [] OTHER -> "bool"

ExpressionNode(op, args) ==
  LET scope == ScopeOf(op, args)
      cels(e) == [i \in DOMAIN args |-> IF op \in Macros /\ i = 2 THEN Null ELSE At(args[i].cel, e)]
      jss(e) == [i \in DOMAIN args |-> IF op \in Macros /\ i = 2 THEN Null ELSE At(args[i].js, e)]
      refused == CompileRefused(op, args)
  IN [kind |-> op, lit |-> Undefined, list |-> scope,
      static |-> IF refused THEN "unknown" ELSE StaticType(op, args), celStatic |-> CelStatic(op, args),
      cel |-> [e \in EnvsOf(scope) |->
                 EvaluateCel(op, cels(e), [m \in Ranged(op, args) |-> At(args[2].cel, m)])],
      js |-> [e \in EnvsOf(scope) |->
                IF refused THEN Err
                ELSE EvaluateJs(op, args, jss(e), [m \in Ranged(op, args) |-> At(args[2].js, m)])],
      refused |-> refused, reads |-> \E i \in DOMAIN args : args[i].reads,
      declared |-> NotMapped, stored |-> Undefined,
      where |-> MapOperand(op, args, FALSE), whereNot |-> MapOperand(op, args, TRUE),
      parts |-> IF op \in Junctions THEN args ELSE <<>>]

-----------------------------------------------------------------------------
(* The plans explored *)

IsCondition(n) ==
  /\ n.celStatic \in {"bool", "dyn"}
  /\ "bareField" \in Admitted \/ (n.kind = "variable" => n.cel[Root].t \in {"bool", "error"})

\* What a policy's type-checker accepts.
WellFormedPlan(op, args) ==
  /\ \A l \in ListsOf(op, args) : ListsOf(op, args) = {l}
  /\ op \in Arithmetic => Matching(op, args[1].celStatic, args[2].celStatic) # {}
  /\ op \in Junctions \union {"not"} => \A i \in DOMAIN args : IsCondition(args[i])
  /\ op = "if" =>
       /\ IsCondition(args[1])
       /\ args[2].celStatic = args[3].celStatic \/ "dyn" \in {args[2].celStatic, args[3].celStatic}
  /\ op \in {"in", "hasIntersection"} => args[2].celStatic \in {"list", "dyn"}
  /\ op = "hasIntersection" => args[1].celStatic \in {"list", "dyn"}
  /\ op \in Macros =>
       /\ args[1].kind \in {"value", "variable"} /\ args[1].celStatic \in {"list", "dyn"}
       /\ args[2].list \in {Undefined, args[1].lit}
       /\ IsCondition(args[2])
  /\ op \in Conversions => args[1].celStatic \notin {"list", "null"}
  /\ \E i \in DOMAIN args : args[i].kind # "value"

NonFinite(op, args) ==
  \E e \in EnvsOf(ScopeOf(op, args)) :
    \/ op \in Orderings /\ NaN \in {At(args[1].cel, e), At(args[2].cel, e)}
         /\ Compare(op, At(args[1].cel, e), At(args[2].cel, e)) = Err
    \/ op = "double" /\ IsDouble(At(args[1].cel, e)) /\ ~IsFinite(At(args[1].cel, e))

AdmittedShape(op, args) ==
  /\ "reconverted" \in Admitted \/ ~(op \in {"timestamp", "duration"} /\ args[1].static = op)
  /\ "nonFinite" \in Admitted \/ ~NonFinite(op, args)

\* A list of integral and fractional literals whose elements have no one type.
MixedList(list, hidden) == ElementType(list) = "ambiguous" /\ MemberType(hidden, list) = "dyn"

-----------------------------------------------------------------------------
(* Behaviour *)

Init ==
  /\ metadata = <<>>
  /\ sent = <<>>
  /\ mapper = <<>>
  /\ allowed \in BOOLEAN
  /\ stack = <<>>
  /\ nodes = 0
  /\ phase = "reading"
  /\ root = Null
  /\ pushed = FALSE
  /\ kept = FALSE
  /\ returned = FALSE

Read(rest, n) ==
  /\ phase = "reading"
  /\ nodes < MaxNodes
  /\ nodes' = nodes + 1
  /\ Len(rest) <= 2 * (MaxNodes - nodes')     \* what is left of the bound can still join the stack
  /\ stack' = Append(rest, n)
  /\ UNCHANGED <<allowed, phase, root, pushed, kept, returned>>

ReadValue ==
  \E x \in Literals : \E hidden \in IF x.t = "list" THEN {"num"} ELSE HiddenTypes(x) :
    /\ Read(stack, ValueNode(x, hidden))
    /\ UNCHANGED <<metadata, sent, mapper>>

ReadElement ==
  \E x \in {y \in Literals : y.t = "list" /\ ~HoldsNull(y) /\ Members[y] # {}} : \E hidden \in HiddenTypes(x) :
    /\ "mixedList" \in Admitted \/ ~MixedList(x, hidden)
    /\ Read(stack, ElementNode(x, hidden))
    /\ UNCHANGED <<metadata, sent, mapper>>

\* Does a declaration hold of what is stored?
Declares(d, x) ==
  /\ ~d.mapped => d = NotMapped
  /\ d.required => x # Undefined
  /\ d.boolean => x.t \in {"undefined", "bool"}
  /\ d.numericType # "none" => x.t \in {"undefined", "num"}
  /\ d.numericType = "integer" => ~IsFraction(x)

SentFor(x) == CASE x = Undefined -> {Err} [] x = Num(0) -> {x, NegativeZero} [] OTHER -> {x}

\* The first reading of a key decides what is stored there, what was sent and how it is mapped.
Decide(r) ==
  IF r \in DOMAIN metadata THEN UNCHANGED <<metadata, sent, mapper>>
  ELSE \E x \in Metadata, d \in Declarations : \E attribute \in SentFor(x) :
         LET keys == DOMAIN metadata \union {r} IN
         /\ Declares(d, x)
         /\ metadata' = [q \in keys |-> IF q = r THEN x ELSE metadata[q]]
         /\ sent' = [q \in keys |-> IF q = r THEN attribute ELSE sent[q]]
         /\ mapper' = [q \in keys |-> IF q = r THEN d ELSE mapper[q]]

ReadVariable ==
  \E r \in Refs :
    /\ Cardinality(DOMAIN metadata \union {r}) <= MaxRefs
    /\ Decide(r)
    /\ Read(stack, VariableNode(mapper'[r], metadata'[r], sent'[r]))

Top(n) == SubSeq(stack, Len(stack) - n + 1, Len(stack))
Under(n) == SubSeq(stack, 1, Len(stack) - n)

ReadExpression ==
  \E op \in Operators :
    /\ Width(op) <= Len(stack)
    /\ WellFormedPlan(op, Top(Width(op)))
    /\ AdmittedShape(op, Top(Width(op)))
    /\ Read(Under(Width(op)), ExpressionNode(op, Top(Width(op))))
    /\ UNCHANGED <<metadata, sent, mapper>>

\* splitCondition: the whole condition, or the conjuncts of a root `and`, or nothing.
Conjuncts(n) == IF n.kind = "and" THEN n.parts ELSE <<n>>
Rest(n) == {i \in DOMAIN Conjuncts(n) : Conjuncts(n)[i].where.outcome = "unsupported"}

SplitRefused(n) ==
  \/ \E i \in DOMAIN Conjuncts(n) : Conjuncts(n)[i].where.outcome = "error"
  \/ \E i \in Rest(n) : Conjuncts(n)[i].refused

\* queryPlanToChromaDB of a conditional plan.
Translate ==
  /\ phase = "reading"
  /\ Len(stack) = 1 /\ stack[1].list = Undefined
  /\ IsCondition(stack[1]) /\ stack[1].kind # "value"
  /\ LET n == stack[1]
         whole == n.where.outcome
         parts == Conjuncts(n)
     IN /\ root' = n.cel[Root]
        /\ \/ /\ whole = "translated"
              /\ phase' = "translated" /\ pushed' = n.where.match /\ kept' = TRUE
           \/ /\ whole = "error" \/ (whole = "unsupported" /\ (~allowed \/ SplitRefused(n)))
              /\ phase' = "refused" /\ UNCHANGED <<pushed, kept>>
           \/ /\ whole = "unsupported" /\ allowed /\ ~SplitRefused(n)
              /\ phase' = "translated"
              /\ pushed' = \A i \in DOMAIN parts \ Rest(n) : parts[i].where.match
              /\ kept' = (Junction(FALSE, {parts[i].js[Root] : i \in Rest(n)}) = True)
  /\ stack' = <<>>
  /\ UNCHANGED <<metadata, sent, mapper, allowed, nodes, returned>>

\* ALWAYS_ALLOWED has no filter; a caller runs no query for ALWAYS_DENIED.
TranslateUnconditional ==
  /\ phase = "reading" /\ nodes = 0
  /\ \E answer \in BOOLEAN : root' = Bool(answer) /\ pushed' = answer
  /\ phase' = "translated"
  /\ kept' = TRUE
  /\ UNCHANGED <<metadata, sent, mapper, allowed, stack, nodes, returned>>

\* The caller's similarity search, over what the Where matches.
RunQuery ==
  /\ phase = "translated"
  /\ phase' = "candidates"
  /\ UNCHANGED <<metadata, sent, mapper, allowed, stack, nodes, root, pushed, kept, returned>>

\* The caller's filter over the documents it got.
PostFilter ==
  /\ phase = "candidates"
  /\ phase' = "answered"
  /\ returned' = (pushed /\ kept)
  /\ UNCHANGED <<metadata, sent, mapper, allowed, stack, nodes, root, pushed, kept>>

Next ==
  \/ ReadValue \/ ReadElement \/ ReadVariable \/ ReadExpression
  \/ Translate \/ TranslateUnconditional \/ RunQuery \/ PostFilter

Spec == Init /\ [][Next]_vars

-----------------------------------------------------------------------------
(* Properties *)

ChromaValue == {x \in [t : Types \union {"nan", "negzero", "time", "dur"}, v : Int] : x.t # "undefined"}

\* Type correctness of the call.
TypeOK ==
  /\ DOMAIN metadata \subseteq Refs
  /\ DOMAIN sent = DOMAIN metadata /\ DOMAIN mapper = DOMAIN metadata
  /\ \A r \in DOMAIN metadata : metadata[r] \in Metadata /\ mapper[r] \in Declarations
  /\ allowed \in BOOLEAN
  /\ nodes \in 0 .. MaxNodes
  /\ \A i \in DOMAIN stack : LET n == stack[i] IN
       /\ n.static \in StaticTypes
       /\ \A e \in DOMAIN n.cel : n.cel[e] \in ChromaValue /\ n.js[e] \in ChromaValue
       /\ \A e \in DOMAIN n.js : n.js[e].t # "int64"
  /\ phase \in {"reading", "refused", "translated", "candidates", "answered"}
  /\ root \in ChromaValue
  /\ pushed \in BOOLEAN /\ kept \in BOOLEAN /\ returned \in BOOLEAN

\* What the predicate computes without the policy's types is what CEL computes with them, for
\* every expression it compiles: an error for an error, and a value for the same value.
PredicateFaithful ==
  \A i \in DOMAIN stack : LET n == stack[i] IN
    ~n.refused => \A e \in DOMAIN n.cel : Unsigned(n.js[e]) = Erased(n.cel[e])

\* What Chroma matches is what CEL allows, under either polarity, although Chroma's negative
\* comparisons match a record without the key and its fractional thresholds are inexact; and
\* pushdown and post-filter together return exactly the records that the whole condition is true
\* of, however it was split.
PushdownExact ==
  /\ phase = "answered" => (returned <=> root = True)
  /\ \A i \in DOMAIN stack : LET n == stack[i] IN
       n.list = Undefined /\ IsCondition(n) =>
         /\ n.where.outcome = "translated" => (n.where.match <=> n.cel[Root] = True)
         /\ n.whereNot.outcome = "translated" => (n.whereNot.match <=> n.cel[Root] = False)
=============================================================================
