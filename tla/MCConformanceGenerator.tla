----------------------- MODULE MCConformanceGenerator -----------------------
(***************************************************************************)
(* Instances of ConformanceGenerator for TLC.                              *)
(***************************************************************************)
EXTENDS ConformanceGenerator, TLC

MCCorpus == <<"a", "b">>
ThreeCases == <<"a", "b", "c">>
MCPins == <<"0.55.0", "0.56.0">>
MCPlans == {"p1", "p2"}

Same(plan, oracle) == [plan |-> plan, oracle |-> oracle]
Everywhere(x) == [c \in Range(Corpus) |-> x]

\* Nothing moves between the versions; one case's plan and oracle move.
Unmoved == [t \in Range(MCPins) |-> Everywhere(Same("p1", "discriminating"))]
OneMoves == [Unmoved EXCEPT !["0.55.0"]["b"] = Same("p2", "empty")]

AnyBehaviour == {Unmoved, OneMoves}
JustOneMoves == {OneMoves}

\* Nothing is declared; the case that moves is, on the version it is empty on, rightly or not.
Undeclared == [t \in Range(MCPins) |-> Everywhere("discriminating")]
Declare(oracle) == [Undeclared EXCEPT !["0.55.0"]["b"] = oracle]

AnyDeclaration == {Undeclared, Declare("empty")}
NoDeclaration == {Undeclared}

AnyFlake == {{}, {"b"}}
NoFlake == {{}}

WorkerSymmetry == Permutations(Workers)
=============================================================================
