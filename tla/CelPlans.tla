------------------------------ MODULE CelPlans ------------------------------
(***************************************************************************)
(* What CEL answers for the operators of a plan that CelValues leaves out, *)
(* as the evaluator of the Chroma adapter computes them (postFilter.ts and *)
(* cel.ts of langchain-chromadb/src).                                      *)
(*                                                                         *)
(* A string is the integer that is its length, over a one-letter alphabet: *)
(* the order, the prefixes, the sums and the sizes of strings are then     *)
(* those of the integers, and the three string tests are one.              *)
(***************************************************************************)
EXTENDS CelValues, Sequences

ListOf(S) == CHOOSE l \in DOMAIN Members : l.t = "list" /\ Members[l] = S

\* `+` has an overload for two numbers and one for two strings, and none across types.
Plus(l, r) ==
  CASE Err \in {l, r} -> Err
    [] l.t = "num" /\ r.t = "num" -> [t |-> "num", v |-> l.v + r.v]
    [] l.t = "str" /\ r.t = "str" -> [t |-> "str", v |-> l.v + r.v]
    [] OTHER -> Err

IsPrefix(needle, receiver) == needle.v <= receiver.v

StartsWith(receiver, needle) ==
  IF receiver.t = "str" /\ needle.t = "str" THEN Bool(IsPrefix(needle, receiver)) ELSE Err

\* Only the branch the condition takes is evaluated.
IfThenElse(condition, whenTrue, whenFalse) ==
  CASE AsBoolean(condition) = Err -> Err
    [] condition = True -> whenTrue
    [] OTHER -> whenFalse

SizeOf(x) ==
  CASE x.t = "str" -> [t |-> "num", v |-> x.v]
    [] IsCollection(x) -> [t |-> "num", v |-> Cardinality(Members[x])]
    [] OTHER -> Err

\* The element an index names: which one it is does not matter, an empty list has none.
Element(x) ==
  IF x.t = "list" /\ Members[x] # {} THEN CHOOSE m \in Members[x] : TRUE ELSE Err

Meets(l, r) == \E a \in Members[l], b \in Members[r] : ValuesEqual(a, b)

HasIntersection(l, r) ==
  IF l.t = "list" /\ r.t = "list" THEN Bool(Meets(l, r)) ELSE Err

IsSubset(l, r) ==
  IF l.t = "list" /\ r.t = "list" THEN Bool(Members[l] \subseteq Members[r]) ELSE Err

Except(l, r) ==
  IF l.t = "list" /\ r.t = "list" THEN ListOf(Members[l] \ Members[r]) ELSE Err

Intersect(l, r) ==
  IF l.t = "list" /\ r.t = "list" THEN ListOf(Members[l] \intersect Members[r]) ELSE Err

\* A macro joins what its body says of the elements: an error is absorbed by an element that
\* decides the answer, and is the answer when none does.
Exists(collection, vals) == IF IsCollection(collection) THEN Junction(TRUE, vals) ELSE Err
All(collection, vals) == IF IsCollection(collection) THEN Junction(FALSE, vals) ELSE Err
=============================================================================
