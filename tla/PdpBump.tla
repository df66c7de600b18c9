------------------------------- MODULE PdpBump -------------------------------
(***************************************************************************)
(* Moving the pinned PDPs (conformance/scripts/bump-pdp.sh) and what holds *)
(* the repository to the pin (validate-corpus.sh). The script rewrites one *)
(* file after another and may stop between any two; it can be run again,   *)
(* or the bump be finished the way its own message says.                   *)
(***************************************************************************)
EXTENDS Integers, Sequences, FiniteSets, Functions

CONSTANTS
  MaxTag,       \* tags are 1 .. MaxTag, in release order
  Composes,     \* the files that restate the pin as an image
  GoModules,    \* the modules that require genpb, in the script's order
  Examples,     \* those of them validate-corpus.sh does not look at
  Adapters,     \* the adapters, each with a ledger
  Ledgers,      \* the scopes a ledger's entries may start with
  MaxBumps      \* bound on the bumps that get going

Release == 1 .. MaxTag

ASSUME TagAssumption == MaxTag \in Nat /\ MaxTag > 1 /\ MaxBumps \in Nat
ASSUME ModulesAssumption == GoModules \in Seq(STRING) /\ Examples \subseteq Range(GoModules)
\* An entry's scope is the tags of its pdp list; the empty scope is an entry without one.
ASSUME LedgersAssumption == Ledgers \subseteq SUBSET SUBSET {1, 2}

VARIABLES
  pins,       \* pdp-versions.json
  compose,    \* the tag each file restates
  gomod,      \* the genpb version each module requires
  ledger,     \* the scopes of each ledger's entries
  golden,     \* the tags with a golden directory
  pc,         \* the step the script is at
  local,      \* the script's new, old and dropped tags
  left,       \* what is left of the loop the script is in
  by,         \* what is being run: "bump", or "finish", the two commands of its message
  verdict,    \* how the last command ended
  stopped,    \* did a command stop partway since the corpus was last valid?
  bumps

bumpVars == <<pins, compose, gomod, ledger, golden, pc, local, left, by, verdict, stopped, bumps>>
repository == <<pins, compose, gomod, ledger, golden>>

Pinned == {pins.current, pins.previous}

BumpInit ==
  /\ pins = [current |-> 2, previous |-> 1]
  /\ compose = [f \in Composes |-> 2]
  /\ gomod = [m \in Range(GoModules) |-> 2]
  /\ ledger \in [Adapters -> Ledgers]
  /\ golden = {1, 2}
  /\ pc = "idle" /\ local = [new |-> 2, old |-> 2, dropped |-> 1] /\ left = {}
  /\ by = "bump" /\ verdict = "accepted" /\ stopped = FALSE /\ bumps = 0

\* Any tag that is not the current one.
BumpEitherWay ==
  /\ pc = "idle" /\ bumps < MaxBumps
  /\ \E t \in Release :
       /\ t # pins.current
       /\ pc' = "versions" /\ by' = "bump" /\ verdict' = "running" /\ bumps' = bumps + 1
       /\ local' = [new |-> t, old |-> pins.current, dropped |-> pins.previous]
  /\ UNCHANGED <<repository, left, stopped>>

\* It says it refuses an older tag, and goes on.
BumpRefusingInWords ==
  /\ pc = "idle" /\ bumps < MaxBumps
  /\ \E t \in Release :
       /\ t # pins.current
       /\ verdict' = IF t < pins.current THEN "refused" ELSE "running"
       /\ pc' = "versions" /\ by' = "bump" /\ bumps' = bumps + 1
       /\ local' = [new |-> t, old |-> pins.current, dropped |-> pins.previous]
  /\ UNCHANGED <<repository, left, stopped>>

\* The tag already pinned is nothing to do, and an older one is refused.
Bump ==
  /\ pc = "idle"
  /\ \E t \in Release :
       \/ /\ t = pins.current /\ verdict' = "nothing to do"
          /\ UNCHANGED <<pc, by, bumps, local>>
       \/ /\ t < pins.current /\ verdict' = "refused"
          /\ UNCHANGED <<pc, by, bumps, local>>
       \/ /\ t > pins.current /\ bumps < MaxBumps
          /\ pc' = "versions" /\ by' = "bump" /\ verdict' = "running" /\ bumps' = bumps + 1
          /\ local' = [new |-> t, old |-> pins.current, dropped |-> pins.previous]
  /\ UNCHANGED <<repository, left, stopped>>

\* The new pins replace the old in one rename. The files to rewrite are those that name the old image.
WriteVersions ==
  /\ pc = "versions"
  /\ pins' = [current |-> local.new, previous |-> local.old]
  /\ left' = {f \in Composes : compose[f] = local.old}
  /\ pc' = "restate"
  /\ UNCHANGED <<compose, gomod, ledger, golden, local, by, verdict, stopped, bumps>>

\* The first file only.
RestateFirst ==
  /\ pc = "restate"
  /\ \/ \E f \in left : compose' = [compose EXCEPT ![f] = local.new]
     \/ left = {} /\ UNCHANGED compose
  /\ left' = DOMAIN GoModules /\ pc' = "gomod"
  /\ UNCHANGED <<pins, gomod, ledger, golden, local, by, verdict, stopped, bumps>>

Restate ==
  /\ pc = "restate"
  /\ \/ \E f \in left :
          compose' = [compose EXCEPT ![f] = local.new] /\ left' = left \ {f} /\ UNCHANGED pc
     \/ left = {} /\ left' = DOMAIN GoModules /\ pc' = "gomod" /\ UNCHANGED compose
  /\ UNCHANGED <<pins, gomod, ledger, golden, local, by, verdict, stopped, bumps>>

UpdateModule ==
  /\ pc = "gomod"
  /\ \/ \E i \in left :
          /\ \A j \in left : i <= j
          /\ gomod' = [gomod EXCEPT ![GoModules[i]] = local.new]
          /\ left' = left \ {i} /\ UNCHANGED pc
     \/ left = {} /\ left' = Adapters /\ pc' = "ledgers" /\ UNCHANGED gomod
  /\ UNCHANGED <<pins, compose, ledger, golden, local, by, verdict, stopped, bumps>>

\* Every entry that names the tag goes.
EntriesWithout(scopes, tag) == {s \in scopes : tag \notin s}

\* The tag leaves every scope, and an entry scoped to it alone goes.
WithoutTag(scopes, tag) == {s \ {tag} : s \in {r \in scopes : r # {tag}}}

DropEntries ==
  /\ pc = "ledgers"
  /\ \/ \E a \in left :
          /\ ledger' = [ledger EXCEPT ![a] = WithoutTag(@, local.dropped)]
          /\ left' = left \ {a} /\ UNCHANGED pc
     \/ left = {} /\ pc' = "generate" /\ UNCHANGED <<ledger, left>>
  /\ UNCHANGED <<pins, compose, gomod, golden, local, by, verdict, stopped, bumps>>

\* The generator rewrites golden/ for the two pins; a degenerate oracle ends the script after that.
Generate ==
  /\ pc = "generate"
  /\ golden' = Pinned
  /\ \/ pc' = "validate" /\ UNCHANGED <<verdict, stopped>>
     \/ pc' = "idle" /\ verdict' = "stopped" /\ stopped' = TRUE
  /\ UNCHANGED <<pins, compose, gomod, ledger, local, left, by, bumps>>

\* What validate-corpus.sh asks of the pin.
Valid ==
  /\ pins.current \in golden
  /\ \A a \in Adapters : \A s \in ledger[a] : s \subseteq Pinned
  /\ \A f \in Composes : compose[f] = pins.current
  /\ \A m \in Range(GoModules) \ Examples : gomod[m] = pins.current

Validate ==
  /\ pc = "validate" /\ pc' = "idle"
  /\ verdict' = IF Valid THEN "accepted" ELSE "rejected"
  /\ stopped' = (stopped /\ ~Valid)
  /\ UNCHANGED <<repository, local, left, by, bumps>>

\* A command fails or the script is interrupted; the generator may have added goldens already.
Stop ==
  /\ pc # "idle" /\ pc' = "idle"
  /\ golden' \in {golden, IF pc = "generate" THEN golden \union Pinned ELSE golden}
  /\ verdict' = "stopped" /\ stopped' = TRUE /\ left' = {}
  /\ UNCHANGED <<pins, compose, gomod, ledger, local, by, bumps>>

\* "If an earlier bump stopped partway, finish it with": the generator, then validate-corpus.sh.
Finish ==
  /\ pc = "idle" /\ verdict = "nothing to do"
  /\ pc' = "generate" /\ by' = "finish" /\ verdict' = "running"
  /\ UNCHANGED <<repository, local, left, stopped, bumps>>

\* A reviewer enters what breaks on the current PDP only.
AddEntry ==
  /\ pc = "idle"
  /\ \E a \in Adapters : ledger' = [ledger EXCEPT ![a] = @ \union {{pins.current}}]
  /\ UNCHANGED <<pins, compose, gomod, golden, pc, local, left, by, verdict, stopped, bumps>>

BumpNext ==
  \/ Bump \/ WriteVersions \/ Restate \/ UpdateModule \/ DropEntries \/ Generate \/ Validate
  \/ Stop \/ Finish \/ AddEntry

BumpSpec == BumpInit /\ [][BumpNext]_bumpVars

-----------------------------------------------------------------------------
(* Properties *)

\* Type correctness of the repository and of the script's place in it: a command has ended exactly
\* when it says how it ended.
BumpTypeOK ==
  /\ pins \in [current : Release, previous : Release]
  /\ compose \in [Composes -> Release] /\ gomod \in [Range(GoModules) -> Release]
  /\ ledger \in [Adapters -> SUBSET SUBSET Release] /\ golden \subseteq Release
  /\ pc \in {"idle", "versions", "restate", "gomod", "ledgers", "generate", "validate"}
  /\ local \in [new : Release, old : Release, dropped : Release]
  /\ left \subseteq Composes \/ left \subseteq DOMAIN GoModules \/ left \subseteq Adapters
  /\ verdict \in {"running", "nothing to do", "refused", "stopped", "accepted", "rejected"}
  /\ pc = "idle" <=> verdict # "running"
  /\ by \in {"bump", "finish"} /\ stopped \in BOOLEAN /\ bumps \in 0 .. MaxBumps

\* The two pins are two releases in order, whatever stopped: the generator refuses equal tags
\* (main.go:85) and compares previous with current.
PinsAscend == pins.previous < pins.current

\* From a valid repository a bump nobody interrupts ends valid: its steps together leave nothing
\* for validate-corpus.sh to find.
UninterruptedBumpIsValid == verdict = "rejected" => stopped

\* A ledger entry that covers a PDP still tested is never lost: a divergence on the PDP that becomes
\* `previous` stays known.
CoverageKept ==
  [][\A a \in Adapters, t \in Pinned :
       t \in Pinned' /\ (\E s \in ledger[a] : s = {} \/ t \in s) =>
         \E s \in ledger'[a] : s = {} \/ t \in s]_bumpVars

\* bump-pdp.sh:54: a bump that stopped partway is finished by the generator and validate-corpus.sh.
FinishingIsEnough == by = "finish" => verdict # "rejected"
=============================================================================
