-------------------------- MODULE AdapterContract --------------------------
(***************************************************************************)
(* What every adapter of the repository promises about one resource.       *)
(*                                                                         *)
(* A plan is translated or refused. A translated plan answers a query, and *)
(* the answer holds the resource exactly when the plan's condition is CEL  *)
(* true on it: false and an evaluation error both keep it out. Nothing is  *)
(* returned before the whole condition was applied, and an answer stands.  *)
(* A store that does not hold all of a resource may lose it, never return *)
(* one that is denied.                                                     *)
(***************************************************************************)
VARIABLES
  outcome,    \* "pending", "translated", "refused" or "answered"
  verdict,    \* what CEL says of the resource: "unknown" until there is a plan
  returned,   \* is the resource in the caller's hands?
  lossy       \* may the store lose this resource?

vars == <<outcome, verdict, returned, lossy>>

Verdicts == {"allow", "deny", "error"}

Init ==
  /\ outcome = "pending"
  /\ verdict = "unknown"
  /\ returned = FALSE
  /\ lossy \in BOOLEAN

Translate ==
  /\ outcome = "pending"
  /\ outcome' = "translated"
  /\ verdict' \in Verdicts
  /\ UNCHANGED <<returned, lossy>>

\* Refused by the translation, or by the translated filter when the query builds it.
Refuse ==
  /\ outcome \in {"pending", "translated"}
  /\ outcome' = "refused"
  /\ verdict' \in Verdicts
  /\ verdict = "unknown" \/ verdict' = verdict
  /\ UNCHANGED <<returned, lossy>>

Answer ==
  /\ outcome = "translated"
  /\ outcome' = "answered"
  /\ returned' \in {verdict = "allow", verdict = "allow" /\ ~lossy}
  /\ UNCHANGED <<verdict, lossy>>

Next == Translate \/ Refuse \/ Answer

Spec == Init /\ [][Next]_vars
=============================================================================
