------------------------------ MODULE CelTypes ------------------------------
(***************************************************************************)
(* What CEL's type-checker knows of a policy, and a plan drops: whether a  *)
(* number was written as an int or a double, and which overload of an      *)
(* arithmetic operator its operands chose.                                 *)
(***************************************************************************)
EXTENDS CelNumbers

Arithmetic == {"add", "sub", "div", "mod"}
Conversions == {"string", "int", "double", "timestamp", "duration"}

Root == Undefined          \* the environment of a node outside every lambda
At(f, e) == IF Root \in DOMAIN f THEN f[Root] ELSE f[e]

\* The types an integral literal may have been written with.
HiddenTypes(x) ==
  IF (x.t = "num" /\ ~IsFraction(x)) \/ (x.t = "list" /\ \E m \in Members[x] : m.t = "num" /\ ~IsFraction(m))
  THEN {"int64", "num"} ELSE {"num"}

\* What the type-checker knows of a literal, or of every member of a list.
LiteralType(x) ==
  CASE x.t = "int64" -> "int" [] x.t \in {"num", "negzero"} -> "double" [] OTHER -> x.t
MemberType(hidden, list) ==
  LET types == {LiteralType(Typed(hidden, m)) : m \in Members[list]} IN
  IF \E t \in types : types = {t} THEN CHOOSE t \in types : TRUE ELSE "dyn"

\* The overloads of arithmetic the type-checker chooses among.
Overloads(op) ==
  {<<"int", "int", "int">>}
    \union {o \in {<<"double", "double", "double">>} : op # "mod"}
    \union {o \in {<<"str", "str", "str">>} : op = "add"}
    \union {o \in {"time", "dur"} \X {"time", "dur"} \X {"time", "dur"} : TemporalType(op, o[1], o[2]) = o[3]}
Matching(op, l, r) == {o \in Overloads(op) : l \in {o[1], "dyn"} /\ r \in {o[2], "dyn"}}

\* What arithmetic is known to answer: the result of its overloads, if they have one.
ResultType(op, l, r) ==
  LET results == {o[3] : o \in Matching(op, l, r)} IN
  IF \E t \in results : results = {t} THEN CHOOSE t \in results : TRUE ELSE "dyn"
=============================================================================
