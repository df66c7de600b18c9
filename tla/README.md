# Query-plan adapters: a TLA+ verification project

Cerbos can answer "which resources may this principal act on?" with a *query plan*: always allowed,
always denied, or a condition over the resource's attributes. The repository holds eleven adapters
that turn such a plan into a native filter of a data store, and a conformance suite that compares
what the store then returns with what the PDP's `check()` says of every resource. This directory
holds TLA+ models of the parts whose correctness is hard to test, TLC runs over small instances of
them, and TLAPS proofs of what holds for instances of any size.

One sentence sums up what all adapters owe their callers, and the models return to it again and
again: **an adapter refuses a plan, or its answer holds exactly the resources on which the condition
is CEL true. A CEL evaluation error is not false: it denies under `not` as well.** `AdapterContract`
states it as an abstract specification.

Contents: [inventory](#inventory), [plan](#plan), [modules](#modules), [runs](#runs),
[bounds](#bounds), [fairness](#fairness), [proofs](#proofs), [what the models say against the
documents](#disagreements), [what is not modelled](#not-modelled).

## Inventory

### The parts and how they interact

```
 policies ──▶ PDP ──plan──▶ adapter ──native filter──▶ store ──candidates──▶ (post-filter) ──▶ caller
               ▲                ▲
   pins ───────┤                │ replays
 bump-pdp.sh   │            golden/ ◀──records── conformance generator ──▶ two pinned PDPs
               └── validate-corpus.sh ── ledgers, Compose files, go.mod
```

An adapter is a pure function of the plan and of what the caller declares (the mapper, options). It
keeps no state between calls. What makes it hard is that one condition is decided by two or three
parties in turn, each with its own idea of null, type and error: the translation, the store, and for
two adapters a post-filter that the caller has to run. The conformance tools do keep state: the
generated tree, containers, pins and ledgers, changed step by step by programs that may stop between
any two steps.

| Component | State | Operations | Hard behaviour | What makes it correct |
|---|---|---|---|---|
| Convex (`convex/`) | the caller's progress: plan, filter, candidates | `queryPlanToConvex`, filter, post-filter | the condition is split between an engine with a total order over all types and a CEL evaluator; negation must not turn an error into a match | pushed-down parts are exact under either polarity; the two halves decide the whole; candidates only with the opt-in |
| Elasticsearch (`elasticsearch-java/`) | polarity of the walk, scope | `toElasticsearchQuery`, search | no null and no empty array in the index, terms coerced to the mapped type, `must_not` matching missing fields | a clause proves the polarity it was asked for, or the node is refused |
| LangChain Chroma (`langchain-chromadb/`) | as Convex | `queryPlanToChromaDB`, `where`, post-filter | as Convex, over metadata that may lack a key | as Convex |
| Mongoose (`mongoose/`) | guards collected on the way | `queryPlanToMongoose` | `$nor` matches missing fields; `$expr` aggregates evaluate guards in their own order | every error is guarded on the same side of the negation |
| Prisma (`prisma/`) | scope and nullability of a relation chain | `queryPlanToPrisma` | `some`/`none`/`every` over absent relations, `not` over nullable columns | a relation filter decides only rows whose chain exists |
| Drizzle, SQLAlchemy, Active Record, pgx and ent | null convention, dialect | a walk that emits SQL | SQL UNKNOWN stands for the CEL error; `EXISTS`, `CASE`, `COALESCE` and string functions lose it | UNKNOWN exactly where CEL errors |
| Spring Data (`spring-data/`) | predicate nodes, which are mutable | `CerbosQueryPlanAdapter`, `TriPredicate` | Hibernate's `not` toggles the node it is applied to, so a node used twice is negated twice | three-valued predicates, one node per polarity |
| Conformance generator (`conformance/generator/`) | containers, a pool of 8 workers, results by position, the tree on disk | a run that writes, or with `-check` compares | concurrency, failing requests, signals, kills between two files, reruns | a run that reports success has the tree the PDPs answer for |
| Pin bump (`conformance/scripts/bump-pdp.sh`) | pins, Compose files, go.mod files, ledgers, goldens | the script, its finishing commands, edits | a stop between any two files, a second bump | the repository is valid again, nothing known is lost |
| Corpus validation (`conformance/scripts/validate-corpus.sh`) | none | the checks CI runs | it is the only reader of what the bump restates | it accepts only a consistent repository |
| Harness and ledgers (`run-harness.sh`, `*/conformance-ledger.json`) | containers, report files | replays every golden against every store | an entry that no longer fails; a leg that did not run | each case passes or has an entry that says why not |
| Generator inputs, demo, examples, workflows | none that lasts | parsing, layout, shell | none beyond the containers they start | – |

### Properties by component

* *Any adapter:* refuse or answer exactly; nothing is returned before the whole condition was applied.
* *Convex, Chroma:* exactness of the pushed-down part under both polarities; the split loses no
  conjunct; the post-filter cannot be reached without the opt-in; a filter that was handed out works.
* *Elasticsearch:* no clause matches on absence or coercion; what is not refused is complete, save for
  nulls inside arrays, which the index does not hold.
* *SQL family:* the three-valued value of the emitted predicate is the CEL value with error read as
  UNKNOWN, under every operator that could lose it; the null convention is applied at every leaf.
* *Spring Data:* in addition, no predicate node is reached through both polarities.
* *Generator:* one plan per golden, each golden under its own tag and case whichever worker recorded
  it; exit status 0 means every oracle is as declared; no tree change before everything is recorded;
  one PDP at a time; every run ends.
* *Bump:* pins in release order; nothing to reject unless something stopped; no ledger coverage lost.

`PROJECT.json` lists the hazards of the code, each at its line, with the properties that cover it.

## Plan

The order follows what the system is for: exactness of a translation first, then the tools that keep
the evidence for it.

1. `AdapterContract`, `CelValues`, `ConvexAdapter` – **done**, checked and proved.
2. `ConformanceGenerator`, `PdpBump` – **done**, checked and proved.
3. `ElasticsearchAdapter` – **done** for what its section names, checked and proved against the same contract.
4. `CelPlans`, `CelNumbers` – **done**: the values and operators that the walks below share.
5. `MongooseAdapter` (guards under `$nor`), `ChromaAdapter` (the split, with its own push-down rules)
   and `DrizzleAdapter` (three-valued SQL and its null conventions) – **done** for what their sections
   name, `ChromaAdapter` and `MongooseAdapter` proved as well.
6. `CelTypes`, `ConvexEvaluator` – **done**, checked and proved: arithmetic, conversions and the loops of
   the macros against CEL's own.
7. `PrismaAdapter` – **done** for what its section names, checked and proved: relation filters, whose
   `some`, `none` and `every` collapse UNKNOWN, and comparisons that the mapped types decide.
8. The SQL adapters that differ from Drizzle in more than syntax: `SpringPredicates`
   (mutable nodes, `TriPredicate`), `GoQueryPlan` (pgx, ent), `SqlAlchemyAdapter`, `ActiveRecordAdapter`.
9. `Harness`: legs, ledger entries and reports, composed with the generator's tree.

Theorems: those of `ConvexProofs`, `ConvexEvaluatorProofs`, `ElasticProofs`, `ChromaProofs`,
`PrismaProofs`, `MongooseProofs` and `ToolProofs` are **done**. Those left, in the order they are worth
having: `MatchesProven` and `DeclaredIsExact` of the Drizzle module, for any row and any depth; refinement
of the contract for each further adapter.

## Modules

| Module | Models | Extends / instantiates |
|---|---|---|
| `CelValues` | CEL values, comparison, `&&`/`||`/`!`, `in`; the order of Convex's engine | standard modules |
| `AdapterContract` | what any adapter promises about one resource | – |
| `ConvexAdapter` | `convex/src/{index,pushdown,validate,operands,evaluate,cel}.ts` and the caller | `CelValues`; `AdapterContract` by refinement |
| `ConvexProofs` | theorems about it | `ConvexAdapter`, `TLAPS` |
| `CelPlans` | what the plans of the newer modules are made of: readings, truth values, junctions | `CelValues` |
| `CelNumbers` | CEL's int and double arithmetic, conversions and string operations | `CelPlans` |
| `CelTypes` | the types a policy had and its plan dropped; CEL's arithmetic overloads | `CelNumbers` |
| `ConvexEvaluator` | `convex/src/{evaluate,cel}.ts`: the post-filter, operator by operator | `CelTypes` |
| `ChromaAdapter` | `langchain-chromadb/src`: the split, the `where` filter, the post-filter | `CelTypes` |
| `MongooseAdapter` | `mongoose/src`: match filters, `$expr` and the aggregation pipeline | `CelNumbers`; `AdapterContract` by refinement |
| `DrizzleAdapter` | `drizzle/src`: the emitted SQL and its three-valued value | `CelNumbers`; `AdapterContract` by refinement |
| `PrismaAdapter` | `prisma/src`: relation filters, settling by type, constant folding | `CelPlans` |
| `ElasticsearchAdapter` | the walk and the translators of `elasticsearch-java`, and the search | `CelValues`; `AdapterContract` by refinement |
| `ConformanceGenerator` | `conformance/generator/{main,golden,pdp}.go` | community `Functions` |
| `PdpBump` | `bump-pdp.sh` and the pin checks of `validate-corpus.sh` | community `Functions` |
| `CelFacts` | lemmas about CEL's own operators, for the two adapters that compute with them | `CelTypes`, `TLAPS` |
| `ChromaProofs`, `ConvexEvaluatorProofs` | theorems about their modules | the module, `CelFacts` |
| `ElasticProofs`, `PrismaProofs`, `MongooseProofs` | theorems about their modules | the module, `TLAPS` |
| `ToolProofs` | theorems about `ConformanceGenerator` and `PdpBump` | both modules, `TLAPS` |
| `MC…` | values and definitions for TLC | the module of that name |

### How a translation becomes a state machine

An adapter walks a tree and computes, for each node, something from what it computed for the
operands. The adapter modules therefore read the condition in postfix order. `stack` holds one
record per finished operand with everything the passes of the adapter say of it; reading an operator
replaces its operands by the operator's own record. Every condition up to the bound is built this
way, each reachable stack is a state, and an invariant over the stack is a statement about *every
subtree of every plan*, under any context that may enclose it. When one record is left the plan is
translated or refused, and then the caller's steps follow. The resource is one document, chosen at
the start with the caller's declarations: an answer never depends on another document, so quantifying
over one is quantifying over all.

The Chroma, Mongoose, Drizzle, Prisma and Convex evaluator modules treat lambdas as well: a record is a
function of the environment its node is evaluated in, which is `Root` outside every lambda and the
element or row in scope inside one. A macro collects what its body says of each element. Where the code
does not agree with CEL, the module has a list of named shapes, `Disagreements`; a plan that holds one goes
no further unless the constant `Admitted` names it. The passing runs admit none;
`mongoose_absent_parent` and `prisma_explicit_pair` admit the one they are about, so that what a run leaves
out is written in its configuration.

A value is a type tag and an integer that orders it within its type. A list or map is a name, and the
constant `Members` says what it holds.

### CelValues

`CompareValues`, `Junction`, `Not`, `In` follow `convex/src/cel.ts` and the operators of
`evaluate.ts`: equality across types is false, an ordering across types is an error, a deciding
operand wins over an error on either side. `EngineCompare` is Convex's total order over values, types
first, as the comments of `pushdown.ts` give it and the interpreter in `translator.test.ts` executes
it. The engine itself is not in the repository and its operators are marked external.

### CelPlans and CelNumbers

`CelPlans` holds the operators on plan values that need no arithmetic (`Plus` on strings and lists,
`StartsWith`, `SizeOf`, list functions, conditionals), and `Exists`/`All` over the truth values of a
lambda's body. `CelNumbers` adds CEL's two number types. `Num(v)` is a double of half of `v`, so that one
integer tells integral from fractional; `int64` values are doubled as well. Overflow of either type,
the sign of zero, NaN, the missing overload between an int and a double, and timestamps and durations are
there, and `Parse` says what the few strings of an instance read as. A string is its length over an
alphabet of one letter, enough for equality, prefix, concatenation and size.

`CelTypes` says what CEL's type-checker knew of the policy: the static type of a literal and of a list's
members, and the overloads an arithmetic operator could choose among. `HiddenTypes` is the other side of
it, what a number that a plan ships as `1` may have been.

### ConvexAdapter

* **State.** `doc`, `mapping` (unmapped, undeclared, nullable, required), `convention`
  (`nullAttributeRepresentation`) and `allowPostFilter` are the call's inputs. A record on the stack
  has the evaluator's value (`val`), whether the node can be pushed down (`push`), whether the emitted
  filter matches the document and whether the negated one does (`selects`, `rejects`), whether
  building it throws, and what validation looks for (`unmapped`, `nullOperand`, `unknown`, list-valued
  operators and whether they reach a boolean position).
* **Actions.** `ReadValue`, `ReadVariable`, `ReadExpression` build the records (`CanPush`, `Emit`,
  `Evaluate`). `Translate` and `TranslateConjunction` are `queryPlanToConvex` on a conditional plan: the
  refusals in their order, then the three paths of `buildFilters` – engine only, split at a root
  `and`, post-filter only – and the opt-in. `TranslateUnconditional` is the other plan kinds. `RunFilter`
  and `RunPostFilter` are the trusted caller (`convex/convex/adversarial.ts`).
* **Abstraction.** `startsWith` stands for the three string tests, `filter` for `filter` and `map`,
  `exists` for the three quantifiers. What a lambda's body or an arithmetic operator yields is open: a
  quantifier may give true, false or an error over any collection, so nothing proved here rests on it.
  `ConvexEvaluator` closes what is open here.

### ConvexEvaluator

* **State.** `doc`, read as the plan first names an attribute; `convention`; the stack. A record holds what
  CEL computes with the types of the policy (`cel`), what `evaluate()` returns (`js`), and what the passes
  of `evaluate.ts` read off the expression, because the plan does not say it: `IsIntOperand`,
  `IsIntExpression`, `IsDoubleOperand`, `NumericType`, `TemporalKind`, `RendersUntyped`, `Invalid`.
* **Actions.** `ReadValue`, `ReadElement`, `ReadVariable`, `ReadExpression`; `Translate`, for a condition
  the engine takes no part of; `RunPostFilter`, the caller's loop. An `UnsupportedQueryPlanError` thrown
  during an evaluation is the value `Thrown`: no operator absorbs it, and the query ends.
* **Left out by `Admitted`.** `untypedInt`: arithmetic on an int that the plan ships as a bare number, or
  `string()` of one that a list or a ternary renders; `hiddenDouble`: an int beside a double that only the
  policy's types tell from one, where CEL has no overload and the evaluator adds; `hiddenTime`: a
  timestamp, carried as a bigint, that is converted again or chosen by a ternary; `nonFinite`; `lostSign`:
  `string()` of a constant zero; `openBranch`: `string()` of a ternary that is an int in one branch only
  ([below](#disagreements)).
* **Lists** hold no int64, in a plan as in a document, and what `filter()` keeps of one is another
  (`ListsAssumption`).

### ElasticsearchAdapter

* **State.** `doc` and `options` (is the attribute mapped, its declared scalar type, its shape and
  whether nulls are explicit). A record holds, for the documents of its scope, the CEL value, and for
  each polarity whether the translation is refused and which documents the clause matches. The root
  scope has one document, the one searched for. A lambda over a nested array has the array's elements
  as its documents, each told apart by what it holds in the sub-field the lambda reads.
* **Actions.** One per shape a translator distinguishes: `ReadLeaf`, `ReadVariable`, `ReadLookup`
  (a map literal indexed by a field), `ReadSize`, `ReadFlatExists`, `ReadProjection`
  (`hasIntersection` over `map()`, and membership in one), `ReadRefused` (what no clause expresses: its
  value is left open), `ReadJunction`, `ReadNot`, `ReadMacro` (nested clause), `ReadFold` (a macro over a
  literal list or a list of attributes). `Translate` asks the root for its true polarity; `Search` is the
  caller.
* **The index.** `Terms` is what Elasticsearch holds of a value: no null, no empty array, an array as
  its elements. A query term is coerced to the mapped type, so `TermMatches` compares no types. That is
  the hazard: `TypedMembers` and `TypeMismatch` have to make up for it.
* **Documents.** `HoldsWhatIsDeclared` states what a caller promises with its options: the attribute
  holds the declared type and shape, it may be absent, and it may be null where nulls are declared.
  `SuitsOperator` leaves out plans that use an array as a scalar or a scalar as an array; a run lifts it.

### ChromaAdapter

* **State.** `metadata`, what a record stores under each key; `sent`, what the application sent to
  `check()` for it (the metadata has lost the sign of a zero and int from double); `mapper`, `allowed`;
  then `stack`, and the caller's `pushed`, `kept`, `returned`. A record of the stack has both readings of
  its node: `cel`, with the types the policy had, and `js`, which the compiled predicate computes without
  them; the static type `postFilter.ts` infers; whether compilation is refused; and what the `Where`
  filter and its negation do (`where`, `whereNot`).
* **Actions.** `ReadValue`, `ReadElement`, `ReadVariable`, `ReadExpression`; `Translate` and
  `TranslateUnconditional`, `queryPlanToChromaDB`; `RunQuery` and `PostFilter`, the caller.
* **Left out by `Admitted`.** `mixedList`: one integral number in a literal list makes its element type
  open, and arithmetic on an element beside a certain double compiles (`postFilter.ts:585`); `nonFinite`, `reconverted` and
  `bareField`: a NaN ordered with a non-number, `double()` of what is not finite, `timestamp()` of a
  timestamp, and a bare reference to what is no boolean, on which the predicate answers and CEL raises.

### MongooseAdapter

* **State.** `Shape` maps each reference to a scalar path, a scalar behind a to-one relation, a native
  array, a to-many relation, or the element field read in a lambda. What the document stores and what the
  mapper entry declares are decided as the plan first reads the reference. A record has the CEL value, what
  the aggregation pipeline computes, whether the guards of `guards.ts` hold, and the filters `buildFilter`
  and `translateNot` emit (`yes`, `no`), each with the chance that MongoDB aborts.
* **Actions.** `ReadValue`, `ReadVariable`, `ReadExpression`, `Translate`, `TranslateUnconditional`,
  `RunFilter`. A query that the server aborts returns nothing and counts as refused.
* **Left out by `Admitted`.** `absentParent` ([below](#disagreements)); `emptySubset`: `isSubset` or
  `except` of an empty list says nothing of the other list being there; `negatedConditional`: under `not`,
  membership in a conditional list is a `$nor` of the condition's filter, where the condition itself would
  be negated by a rule of its own, as an ordering is by its complement; `mistyped`: an
  operand whose present value has no overload under its operator.

### DrizzleAdapter

* **State.** `option` (the call's null convention), `mapper` (column type, null declaration, shape), `row`,
  and `sent`, what `check()` was given: a NULL column may have been sent as null or left out. A
  record has the shape the translation dispatches on, the SQL scalar or the two conditions it emits
  (`yes`, and `no` under a negation pushed inward), and what CEL computes. SQL's UNKNOWN is `Err`, so
  that its connectives are `Junction` and `Not`.
* **Actions.** `ReadVariable`, `ReadLiteralElement`, `ReadElement`, `ReadConstructedElement` (the four kinds
  of element a lambda ranges over), `ReadExpression`, `ReadMacro`; `Translate`, `TranslateUnconditional`,
  `RunQuery`.
* **The database** is SQLite, the dialect of the adapter's tests that keeps fewest types: integer division,
  the sign of zero and string length are its own.
* **Left out by `Admitted`.** `ternary`, a comparison distributed over a conditional: "An UNKNOWN
  condition leaves both arms UNKNOWN" (`comparison.ts:126`), but a FALSE branch makes its arm FALSE, and
  its negation TRUE; `twoValued`: an UNKNOWN behind a present
  to-one hop ends in an `EXISTS`, which has none; `relationSize`: `size()` of a column behind a relation
  counts rows; `intDivision`: an int divided by a stored zero; `intOverflow`: a sum of ints beyond int64, which
  the store computes (the integers of the run are too small for one); `hiddenDouble`: an int beside a double that
  is an expression, since `mixesIntWithDouble` (`values.ts:354`) tells a double by its syntax; `farMap`,
  `nullInList`, `emptyList`, `listAsMember`: as the module's comment says; `mistyped`: a column of another type than its declaration
  has CEL overloads for.

### PrismaAdapter

* **State.** `option` (the call's null convention) and the stack. A record has what CEL says (`cel`), at the
  root or at each row of the collection its lambda will range over; `gap`, where a row may be lost; and one
  form for each polarity that `settleTypeMismatches` may find the node under: positive, negative, or
  unfixed, as the operand of a conditional. A form is the constant that the node folds to, or the filter
  built for it and the one built for its negation, with the hops it reads and the rows in which it reads a
  NULL that an enclosing macro has to guard. A leaf chooses its own column and what the database holds there.
* **Actions.** `ReadLeaf`, `ReadNot`, `ReadJunction`, `ReadTernary`, `ReadComparedTernary` (a comparison
  distributed into both branches), `ReadQuantifier`, `ReadDerivedList` (membership in `map()` and
  `filter()`); `Translate`, `TranslateUnconditional`, `RunQuery`.
* **Abstraction.** `startsWith` stands for the string tests. The planner leaves a constant only as a
  branch. A to-one relation's `is` is taken to keep SQL's UNKNOWN of a NULL column, an assumption on the
  client: the comment at `types.ts:40-41` allows that it collapses to FALSE, and under a negation that
  would matter to `MatchesProven`. `binding` is what a client makes of a fraction it sends to an integer column, floor or
  truncation.
* **Left out by `Admitted`.** `ternaryMacro`: `buildNegatedFilter` (`translate.ts:143-232`) has no case for
  `if`, so a negated conditional over a macro negates a relation filter that has forgotten its errors;
  `explicitHop`: `!=` on an explicit null puts its NOT outside the relation (`fields.ts:264-280`), where an
  absent parent passes; `elementError`: an ordering, a truth test or a size of an element that is null
  records no guard (`mapping.ts:268-286`); `coerced`: a fraction in a membership, or in an equality with
  an explicit column, has no bracket of integers (`fields.ts:158`); `foldedChain`: a leaf over the
  collection of an absent parent is settled to a constant; `filteredError`: where the types settle
  `v = x` or `P` in `x in c.filter(v, P)` (`functions.ts:149-212`), a constant absorbs the error of the other;
  `explicitPair`: an equality of two columns of different types is settled to a constant (`types.ts:943`)
  although both may hold an explicit null, and two of those are equal; `explicitPresence`: the test that a
  boolean is there (`types.ts:790`), into which a comparison with a value of another type is settled, is two guarded
  equalities where the boolean is declared explicit, so that a NULL behind a to-one relation makes it FALSE
  and its negation TRUE.
* **Lost rows.** `gap` says where a row may be lost: behind an absent parent, and at any NULL but one in a
  column of the root itself that is declared explicit.

### ConformanceGenerator

* **State.** The tree on disk by file, the containers by run and tag, one record per worker, `slots`
  (the results by case position), what is recorded by pin, the files still to write and the one open,
  the exit.
* **Actions.** `StartPDP`, `Healthy`, `Unhealthy`; `HandOff`, `PlanCase`, `CheckBatch`, `RequestFails` of
  a worker; `FinishRecording`; `Compare` for `-check`; `OpenFile` and `FillFile`, two steps because a
  file is truncated before it is written; `RemoveStale`; `DiskFails`; `Interrupt` (only what takes the
  context notices), `Kill` (no deferred call runs, so a container stays) and `Rerun`.

### PdpBump

* **State.** The pins, what each Compose file and go.mod restates, each ledger's scopes, the golden
  directories, where the script stands and what is left of its loop.
* **Actions.** `Bump` (refusals included), `WriteVersions`, `Restate`, `UpdateModule`, `DropEntries`,
  `Generate`, `Validate`, one per step of the script; `Stop` between any two; `Finish`, the commands its
  message names; `AddEntry`, a maintainer's edit.

## Runs

| Run | Question | Properties |
|---|---|---|
| `convex_plans` | is every pushed-down part exact, do the halves decide, is the opt-in respected? | `TypeOK`, `PushdownExact`, `HalvesDecide`, `AnswerIsVerdict`, `CandidatesOptedIn`, `ImplementsContract` |
| `elastic_plans` | does every clause prove its polarity, and find all it should? | `TypeOK`, `MatchesAreProven`, `OnlyNullsAreLost`, `ImplementsContract` |
| `chroma_plans` | does the compiled predicate compute what CEL does, is every pushed-down part exact? | `TypeOK`, `PredicateFaithful`, `PushdownExact` |
| `convex_evaluator` | does the evaluator compute what CEL does, and where does it give up? | `TypeOK`, `EvaluatorFaithful`, `ThrowsOnlyAtZero` |
| `mongoose_plans` | does every filter prove its polarity, does the pipeline compute CEL's values, what is lost? | `TypeOK`, `MatchesProven`, `PipelineAgrees`, `LostOnlyGuarded`, `ImplementsContract` |
| `drizzle_plans` | does every SQL condition prove its polarity, is it exact where nulls are declared? | `TypeOK`, `MatchesProven`, `DeclaredIsExact`, `ScalarsAgree`, `ImplementsContract` |
| `prisma_plans` | does every filter prove its polarity across relations, and what does it lose? | `TypeOK`, `MatchesProven`, `LostOnlyMissing` |
| `generator_run` | one run under failures, signals and kills | `TypeOK`, `OnePlanPerGolden`, `OkMeansDeclared`, `OnePDPAtATime`, `RunsEnd` |
| `generator_tree` | two runs after one another | `EndsRegenerated`, `TreeKeptUntilRecorded` |
| `bump_safety` | bumps, stops, finishes and edits in any order | `BumpTypeOK`, `PinsAscend`, `UninterruptedBumpIsValid`, `CoverageKept` |
| `mongoose_absent_parent`, `prisma_explicit_pair` | disagreements, [below](#disagreements) | one each |

What the passing runs show:

* **Convex.** In every plan of up to four nodes (five counting the root `and`, which needs none of its
  own), what the engine is given matches exactly where CEL is true, and its negation exactly where CEL
  is false. The answer is the verdict on all three paths.
* **Convex evaluator.** Reading types off the expression is enough: for every plan that none of the named
  shapes occurs in, each node has CEL's value, an error where CEL raises included, whatever loop absorbs
  it. An evaluation gives up, and with it the query, only at a zero divisor whose sign the plan lost.
* **Elasticsearch.** No clause that the adapter emits, under either polarity, matches a document on
  which the condition has another value; and a clause that is not refused misses only documents with a
  null inside an array. The README of the adapter names that under-grant for `size()`; the contract is
  refined with `lossy` set to it.
* **Chroma.** Wherever the static types let a predicate compile, it computes CEL's value: what it cannot
  tell (an integral literal beside a stored number, a stored zero under `string()`) it refuses. The pushed
  part is exact, and the two halves together return what CEL allows.
* **Mongoose.** No filter matches a document on which CEL is false or raises, however deep the negations;
  behind its guards an aggregation expression has CEL's value; and what a filter misses, CEL decides but a
  guard keeps out, or holds a null that only the mapper could have announced.
* **Drizzle.** No condition selects a row that CEL denies or raises on, under either polarity; with every
  null declared it selects all rows that CEL allows; and a computed scalar is CEL's, up to the types SQL
  does not keep. What is lost without declarations are rows with a NULL.
* **Prisma.** No filter, at the root or at a related row, selects what CEL denies or raises on, under
  either polarity: absent parents, NULLs inside a relation filter, fractions that the client rounds and
  leaves that the types decide included. What is lost is lost to an absent parent or a NULL.
* **Generator.** Whatever a run finds on disk and however earlier ones ended, a run that gets to its
  end leaves the tree the PDPs answer for; a failure before everything is recorded changes nothing.
* **Bump.** A bump that nobody interrupts leaves a valid repository, whatever the ledgers held, and no
  sequence of bumps and stops puts the pins out of order or drops coverage of a PDP still tested.

Deadlock is checked for the bump, which may always be asked for another. The adapter calls end with an
answer or a refusal, and generator runs end for good after `MaxRuns`, so their configurations say
`CHECK_DEADLOCK FALSE`.

## Bounds

| Bound | Value | Why it is enough |
|---|---|---|
| `MaxNodes`, Convex | 4 (+ the root `and`), 3 operands | every rule of `pushdown.ts` looks at a node and its operands; four nodes put each rule under `not`, beside another conjunct and beside one that cannot be pushed. The proofs have no bound |
| `Refs` | one attribute | a rule sees one field; two operands over the same field already give every pair of values, matches and errors except independence of two absent fields, which no rule uses. The proofs have no bound |
| `DocValues`, `Literals`, Convex | one of each JSON type, two numbers | one below, one equal or above the literal: every outcome of every comparison within and across types |
| `MaxNodes`, `MaxWidth`, Elasticsearch | 4 and 3 | three leaves under a junction; two leaves and a negation; a macro over a junction; a negation inside and outside a macro. `Room` builds only what can still be completed |
| `Attributes`, documents, Elasticsearch | one attribute; absent, null, every scalar type, a map, a flat array that is empty, holds values, holds a null, holds only a null; a nested array with no element, with two, with one lacking the sub-field, with one holding null | each is a class of document that the index confuses with another |
| `Declarations`, Elasticsearch | every type undeclared or declared, every shape, explicit nulls, unmapped | each guard of the translators is met both ways |
| `Int64Max` | 2; 3 for Chroma and the Convex evaluator, 6 for Drizzle | an order on int64 values is all that most modules use; where they are added and divided, a result in range and one beyond it, and for Chroma a literal beyond it |
| `MaxNodes`, Chroma, Mongoose, Drizzle, Convex evaluator | 4, 5, 4 and 5 (Drizzle's literals come with their operator) | an operator of three operands, or two nested binary ones under a negation or in a lambda: each rule looks at a node and at what its operands' records say, and every record of those alphabets occurs as an operand |
| `MaxLeaves`, `MaxNodes`, Prisma | 2 and 4 | two leaves under a junction, a conditional or a macro, and two more operators above: a negation inside and outside each. A rule looks at a node and its operands' forms |
| `RootColumns`, `RowColumns`, `Cells`, Prisma | 9 and 3 columns; NULL, three numbers, two strings, the booleans; two rows per collection | each condition on a mapper entry is met both ways; literals of −0.5 and 1, so that a fraction has an integer on either side; a row that decides beside one that errs |
| `MaxRefs` | 2; 1 in the Convex evaluator | one field against another, or one behind a condition on the other |
| `Metadata`, `Scalar`, `Stored`, `Cells` | absent, null, one or two values of each type; lists that are empty, hold values, hold a null | every outcome of a comparison within and across types, and the classes a store confuses |
| `Declarations`, `Entries`, `Shape` | 6 and 7 mapper entries; 5 shapes | each condition on a mapper entry is met both ways; `SYMMETRY` on Drizzle's two attributes, which nothing orders |
| `Parse`, `Rendered`, `DoubleMax` | a string that reads as a number, one as a fraction, one as neither | a conversion succeeds, truncates, fails |
| `Corpus`, `Workers` | 3 cases, 2 workers (2 and 2 in `generator_tree`) | fewer workers than cases, so that a worker takes a second case while another is busy |
| `Repeats`, `Batches`, `Tries` | 2 (1, 1 and 2 in `generator_tree`) | a first and a last request; a plan that changes between them |
| `MaxRuns` | 1, or 2 | the second run starts from whatever the first left, which may be anything a third would find |
| `MaxTag`, `MaxBumps` | 4 and 2 | a second bump drops the tag that was current when the first began |
| `Composes`, `GoModules`, `Adapters` | 2, 4, 2 | a loop with a first and a last element to stop between; the four modules are the code's own |

`SYMMETRY` on the workers is used in `generator_tree` only, whose properties are safety properties and
name no worker.

## Fairness

Only `FairSpec` of the generator assumes any: `WF_vars(Progress)`, that the run as a whole keeps
moving while it can. The code justifies it: goroutines are scheduled, every request has a timeout of
a minute (`pdp.go`), health probes are counted, commands take the context, and file operations return.
It is not assumed that requests succeed, that a PDP gets healthy, or that a signal arrives; `Interrupt`,
`Kill` and `Rerun` are outside `Progress`. `RunsEnd` then says that neither a failing request nor an
unhealthy PDP nor a signal leaves the run waiting for itself.

The adapters are functions: nothing has to happen eventually, and their specifications have no
fairness. The same goes for the bump, which may be left where it stands.

## Proofs

Seven modules hold theorems, one for each adapter proved about and one for the two tools (whose
specifications have names of their own, so that one module can extend both), and `CelFacts` the lemmas that
two of them share. Nothing in them is bounded: a theorem holds for every value of the module's constants that its named assumptions allow, plans of any size and
width, any number of workers, cases, tags and runs. TLC evaluates the named assumptions on every run.

| Module | Theorem | States |
|---|---|---|
| `ConvexProofs` | `TypeCorrect` | `Spec => []TypeOK` |
| | `PushdownIsExact` | `Spec => []PushdownExact` |
| | `HalvesDecideRoot` | `Spec => []HalvesDecide` |
| | `AnswerIsTheVerdict` | `Spec => []AnswerIsVerdict` |
| | `CandidatesAreOptedIn` | `Spec => []CandidatesOptedIn` |
| | `AdapterImplementsContract` | `Spec => ImplementsContract`, the refinement |
| `ElasticProofs` | `TypeCorrect` | `Spec => []TypeOK` |
| | `NothingUnprovenMatches` | `Spec => []MatchesAreProven` |
| | `OnlyNullsCanBeLost` | `Spec => []OnlyNullsAreLost` |
| | `AdapterImplementsContract` | `Spec => ImplementsContract`, the refinement |
| `ChromaProofs` | `TypeCorrect` | `Spec => []TypeOK` |
| | `PredicateIsFaithful` | `Spec => []PredicateFaithful` |
| | `PushdownLosesNothing` | `Spec => []PushdownExact` |
| `ConvexEvaluatorProofs` | `TypeCorrect` | `Spec => []TypeOK` |
| | `EvaluatorIsFaithful` | `Spec => []EvaluatorFaithful` |
| | `OnlyAZeroThrows` | `Spec => []ThrowsOnlyAtZero` |
| `PrismaProofs` | `TypeCorrect` | `Spec => []TypeOK` |
| | `EveryMatchIsProven` | `Spec => []MatchesProven` |
| | `OnlyMissingIsLost` | `Spec => []LostOnlyMissing` |
| `MongooseProofs` | `TypeCorrect` | `Spec => []TypeOK` |
| | `MatchesAreProven` | `Spec => []MatchesProven` |
| | `PipelineIsFaithful` | `Spec => []PipelineAgrees` |
| | `OnlyTheGuardedAreLost` | `Spec => []LostOnlyGuarded` |
| | `AdapterImplementsContract` | `Spec => ImplementsContract`, the refinement |
| `ToolProofs` | `TypeCorrect` | `Spec => []TypeOK`, of the generator |
| | `PlansAreRepeated` | `Spec => []OnePlanPerGolden` |
| | `SuccessIsDeclared` | `Spec => []OkMeansDeclared` |
| | `ContainersAreLetGo` | `Spec => []OnePDPAtATime` |
| | `TreeIsRegenerated` | `Spec => []EndsRegenerated` |
| | `TreeIsKept` | `Spec => TreeKeptUntilRecorded`, of every step |
| | `BumpTypeCorrect` | `BumpSpec => []BumpTypeOK` |
| | `PinsStayInOrder` | `BumpSpec => []PinsAscend` |
| | `OnlyInterruptionIsRejected` | `BumpSpec => []UninterruptedBumpIsValid` |
| | `CoverageIsKept` | `BumpSpec => CoverageKept`, of every step |

### The Convex adapter

**Assumptions.** Those of the module's constants (`ValuesAssumption`, `CallAssumption`,
`BoundsAssumption`, and those of `CelValues`). All theorems but the
first assume `CelTyped`: no document holds an int64, and no attribute that is used as a condition and
is always present holds anything but a boolean. Both are needed: with an int64 among
`DocValues`, or with `MistypedConditions` set, TLC finds a record that is not exact.

**Argument.** `PushdownExact` alone is not inductive. That an operator's filter is exact needs more of
its operands than exactness where they are conditions: that a value's record still holds its literal
and a variable's what the document stores (`NodeInv`), and that a field declared non-nullable is there
(`DeclarationsHold`, about variables no action changes). The
inductive invariant is

    IInv == TypeOK /\ DeclarationsHold /\ stack \in Seq(GoodNode) /\ Decided

where `GoodNode` is the set of records that satisfy `NodeInv` and `Decided` carries the result: once
translated, the engine's half and the post-filter's together are the root's value; a candidate needs
the opt-in; an answer is the verdict. The lemmas follow the code. `ComparisonExact` is one guarded
comparison against CEL under either polarity, `MirroredComparison` the literal on the left,
`ExpressionExact` one operator over good operands (De Morgan's part), `BuildFiltersDecides` the split
of the root `and`. `NextInv` then has one step per action. The refinement maps reading to stuttering, the
two `Translate` actions to `Translate` or `Refuse`, a filter that throws to `Refuse`, a candidate to a
stutter, and the last step of the caller to `Answer`.

### The Elasticsearch adapter

**Assumptions.** Those of the constants: what a literal, a document and an element of a nested array may
hold (`ElasticValuesAssumption`, `ObjectsAssumption`), that each declaration is one the options can state,
and that no attribute is called `root`, the name of the outermost scope (`AttributesAssumption`). All
theorems but `TypeCorrect` assume `~MisusedShapes`: a plan uses an attribute in the shape that the caller
declared for it. [Below](#disagreements) is what happens otherwise.

**Argument.** `MatchesAreProven` says something of the clauses, `OnlyNullsAreLost` of what they miss, and
neither is inductive alone: under `not` the one becomes the other, since the clause for false is built
from the operand's clause for the other polarity, and a macro turns what a body missed of one element into
a match of the whole array. The two have to go through the walk together, for both polarities and for every
document of the scope a condition stands in:

    IInv == Declared /\ stack \in Seq(Good) /\ nodes \in 0 .. MaxNodes /\ root \in Good
              /\ root.scope = "root" /\ Searched

`Good` is the set of well-typed records that are `Right`: under either polarity a matched document has
that value, and one that has it is matched unless the clause is refused or a null hides inside an array.
`Declared` says that the document is as the options promise, `Searched` what the call has answered. There
is one lemma for each kind of condition that a translator distinguishes (`LeafGood`, `VariableGood`, `LookupGood`,
`SizeGood`, `FlatExistsGood`, `ProjectionGood`, `JunctionGood`, `NotGood`, `MacroGood`, `FoldGood`), each
from the facts about the index it rests on: `TermsFacts` (what is indexed of a value) and the lemmas
about coerced terms, ranges and prefixes. `StepGood` puts them together, one step per action, and
the refinement follows from it as it does for Convex.

### The Chroma adapter

**Assumptions.** Those of the constants: any stored values, declarations and literals of the kinds a plan
and a record can have (`MetadataAssumption`), any widths of int64 and double as long as a double holds
every int, any table of what strings parse as (`NumbersAssumption`). The two theorems that compare with CEL
assume `Admitted = {}`, as `chroma_plans` does: no plan has one of the shapes named in `Disagreements`.

**Argument.** That the predicate computes CEL's value of an operator does not follow from its computing
CEL's values of the operands: it chooses an overload by the static type `postFilter.ts` inferred, CEL by
the value's own. `NodeOK` therefore requires of every node

* `StaticSays` and `CheckerSays`: in every environment the value is one that the inferred type, and
  the policy's own, allow; `StaticKnows`: where the adapter is certain of a number's type, so was the
  type-checker. From these, `RunArithmeticIs` and `RunConversionIs` show that arithmetic and conversions
  either refuse to compile or choose CEL's overload, and `ArithmeticKnown` and `ResultKnown` that the type
  inferred for the result is right again;
* a node that reads no metadata is never the negative zero. Its sign is what metadata loses, and a division
  and `string()` show it (`DoubleUnsigned`, `StringIs`): this is why `readsMetadata` is asked there;
* `WheresExact`, under both polarities, since `not` turns the one into the other;
* of an `and`, that its parts are conditions like it and are all true exactly when it is (`SplitOK`).

Comparisons, membership, junctions and macros do not look at types, and answer the same of a value and of
what is left of it (`CompareJsIs`, `InErased`, `ApplyErased`); for the macros, of the whole set of values
that a body takes. `EvaluateFaithful` puts the operators together. On the side of the `Where`, `CompareWhere`
is exact for each group of operators (`EqualityWhere`, `OrderingWhere`, `MembershipWhere`): a missing key
matches `$ne` and `$nin`, which is what `required` and the rewriting of `inequalityWithoutNe` guard
(`LoweredIs`), and a fractional threshold is pushed only where the metadata are floats. `MapOperandIs`
joins them under either polarity, `SplitIs` is `splitCondition`, and the invariant adds the stack, the
record (each key stored as it was declared and sent), and `AnswerOK`: pushed and kept decide together what
is returned.

### The Convex evaluator

**Assumptions.** Those of the constants: any values a document and a plan can hold
(`DocumentsAssumption`, `ListsAssumption`), any widths of the number types (`NumbersAssumption`). The two
theorems that compare with CEL assume `Admitted = {}`, as `convex_evaluator` does.

**Argument.** It resembles Chroma's, and `CelFacts` serves both: what CEL's operators return, and on which of
them a type that the plan dropped has a bearing. What differs is that Chroma refuses to compile what it cannot
tell, and this evaluator runs: it takes an expression's types from its form while it evaluates, and gives up in
the middle of a loop. The invariant asks of every node on the stack, in every environment of a lambda,

* `TypesHold`: what the form says is so. An expression that counts as an int has an int64 or an error in
  CEL, and the checker knows; a `double()` has a double; a node with a temporal kind has that type. `TypesAreHeld`
  shows it of every operator;
* `Renders`: what `evaluate()` returned is CEL's value or what is left of it without its type, never an int64;
* `Faithful`: where it threw instead, CEL divided by a zero at that node or below it, in that environment
  or at an element that a macro below ranged over.

Three arguments carry it through an operator. Loops stop at the first operand that decides *or throws*, and
CEL's junctions have no order: `Absorbs` relates the two whatever the order of the elements is
(`JunctionAbsorbs`, `FilterAbsorbs`, `MacroAbsorbs`). Arithmetic chooses among ints, doubles and times by the
form (`ArithmeticDivided`): where an int is certain, `IntDivided`; where nothing is, `NumbersDivided`, in which the
sign of a zero divisor decides unless the dividend is zero as well, and this is where `Thrown` comes from.
A conversion renders by `numericTypeOf` (`Convertible`, `ConversionRenders`). `NoDisagreement` says what the
absence of the named shapes gives each of them.

### The Prisma adapter

**Assumptions.** Those of the constants: any mapper entries of the shapes that a column can have
(`ColumnsAssumption`), any cells and literals of CEL's types, and for each list its part of one type
(`LiteralsAssumption`, `ListsAssumption`). The two theorems that compare with CEL assume `Admitted = {}`:
no plan has one of the shapes named in `Disagreements`, each of which is a counterexample. The
configuration of `prisma_plans` satisfies all of them.

**Argument.** A node that is right about its own condition is not enough, for four reasons, and each is a
part of what `NodeOK` requires of every node on the stack and of each form it has:

* `buildNegatedFilter` wraps a NOT around some filters and walks into others, so that both filters of
  a form have to be right about both values (`TrueSide`, `FalseSide`). A NOT around a relation filter is
  the exception, because `some` has forgotten the errors below it: there the other value is only promised
  where the form is no `macro`;
* a hop to an absent parent errs where the filter says FALSE, so that the negation adds the hops
  it read; what a filter denies is only what CEL denies where everything it reads is `present`
  (`HopsOK`);
* a macro collects NULLs to guard against: at a related row a filter is UNKNOWN only where `nulls`
  says so (`RowOK`);
* a form that types settle is right only under the polarity it was settled for (`FormOK`, by
  polarity), and a constant folds only if both filters say so (`ConstantOK`); the operand of a conditional is
  never settled.

`membershipOfDerivedList` needs one thing more, that an equality errs only where the row may be lost. The
invariant is that of the stack, the bounds, and `AnswerOK`: nothing is matched while the plan is read, what
is matched is true in CEL, what is returned was matched.

The first part of `PrismaProofs` takes one operator at a time (`JunctionFormOK`, `TernaryFormOK`, `ComparedTernaryFormOK`,
`MacroFormOK`, `DerivedOK`, `InFilterFormOK`) from three-valued logic up, and ends with the lemmas about
nodes. The second is about one column: `CompareTyped` and `CompareAtNull` (the guards of
`buildComparisonFilter`), `BracketIs` (a fraction against an integer column), `MembershipOK`, `CountIs` (the
thresholds of `size()`), and `LeafDecides`, that whatever `settleTypeMismatches` concludes is so.
The third adds two columns (`PairCellOK`, `PairDecides`) and has one lemma per action.

### The Mongoose adapter

**Assumptions.** Those of the constants: any references of the five shapes, an element field only beside a
relation (`ShapeAssumption`), any cells and literals of CEL's types (`StoredAssumption`), and a name for every
list that can be made of the elements of another (`ListsAssumption`). `TypeCorrect` and `PipelineIsFaithful`
need no more. The other three assume `Admitted = {}`, as `mongoose_plans` does: no plan has one of the shapes
named in `Disagreements`.

**Argument.** The invariant is `IInv`: every operand on the stack is `NodeFine`, the document is stored as the
mapper declares it, and `AnswerOK`. `NodeFine` depends on the document only through three things, which
elements the relations hold, whether there is a relation at all, and `NullElement`; reading a further
reference may add to them, and `Grows` says that the claims of a node survive that. A node claims

* `Agrees`: where its guard holds, the pipeline's value is CEL's, or the query fails. `JunctionAgrees`,
  `IfAgrees`, `NotAgrees` and `GuardedAgrees` show it of the operators: MongoDB's own laziness and its
  truthiness, its order across types and its nulls differ from CEL's, and each time it is the guard of an operand
  or the operator's own (`OwnGuard`) that keeps the difference out;
* `TypeTold`: what `celScalarType` says of it is so;
* `ReadsFine`: its filter matches only where CEL is true, and its negation's only where it is false, in
  every environment, and each misses a document only where the guard fails. At an element of a relation this is
  not enough, since `$elemMatch` has no room for the guards of what stands around it: there `ElementGuarded`
  says that a guard can fail only at a declared null. An operand of `except` or `intersect` has lists for
  values, and `SetProven` says what its two filters mean when they are compared with `[]`.

An attribute that holds no boolean is the subtle case. The filter `{ field: true }` is right about it, yet
its negation is not, and only the plan's use as a condition, which `IsCondition` and `HasOverload` speak of, brings
the two together: `Allows` and `Denies` have an exception for it, which every operator that reads a condition has to discharge
(`ConditionOperand`).

`NorSays` is the heart of negation: `$nor` behind the hoisted guards denies only what CEL denies if, where the
guards hold, CEL decides the condition and the filter finds what is true. (`NullableGuardIsExact` only
refuses more: it keeps the guard from losing what CEL decides without the field.) Then there is one lemma per operator (`ComparisonSays`, `IfSays`, `FoldSays`,
`MacroSays`, `InSays`, `IntersectionSays`, `SubsetSays`, `SetSays` and their like), each about both filters
at once; `ExpressionReads` puts them together, with references out of a lambda refused (`OuterRefused`).

### The conformance generator

No assumption beyond those of the constants. `EndsRegenerated` speaks of the end of a run, so the
invariant has to carry through the whole of it what each phase has established:

* `JobOK` of every worker: it has a case, and the one plan it saw, only while recording, and a case
  that was handed out;
* `SlotsOK`: every case handed out is with a worker or settled, by a golden of *that* position or by an
  error. This is what makes the last wait of the pool enough;
* `RecordedOK`: a version is recorded whole or not at all, each case under its own position;
* `WrittenOK`: every file neither left to do nor open is what was recorded, so that an empty
  `todo` means that the tree is right but for stale files, and `cleaning` removes those;
* `Held`: this run holds at most the container it is recording with, and no container belongs to a later run.

`TreeIsKept` is about steps and follows from `RecordedOK` and `WrittenOK`: only the writing phases change
the tree, and those are entered with both versions recorded. `answers`, `flaky` and `declared` are what the
PDPs and case files say, and no action changes them.

### The pin bump

No assumption beyond those of the constants: the code's own order of tags, an odd mix of scopes in the
ledgers, any number of Compose files. `UninterruptedBumpIsValid` speaks of the verdict at the end; in between
a bump is *not* valid, since the pins move first. `Uninterrupted` says, for each place in the script, which
part of `Valid` is restored already and which is left, with `left`, what remains of the loop, as the boundary between; `Remembered`
ties the local variables to the pins before and after they move, which is also what `CoverageKept` needs:
the dropped tag is neither of the two still pinned. The invariant needs `Uninterrupted` only while nothing
has stopped, and `WriteVersions` re-establishes nothing: a stop is for good, as in the code.

### What the proofs found in the models

TLA+ does not say which branch of a `CASE` is taken when two of its guards hold; TLC takes the first, and a
prover may not. Operators of six modules relied on the order: `CompareValues` of `CelValues`, `LeafMatches` and
`SizeOf` of `ElasticsearchAdapter`, `JunctionForm`, `CountPredicate`, `SizeCell`, `LeafOutcomes` and
`Settled` of `PrismaAdapter`, the arithmetic and `CompareWhere` of `CelNumbers` and `ChromaAdapter`, and the loops and `RunArithmetic` of
`ConvexEvaluator`.
Their guards are disjoint now, with the meaning TLC gave them. The proof of the nested scope needed
`AttributesAssumption`: with an attribute named `root` its scope would be that of the whole document.

The proofs about Chroma changed what CEL was taken to do in two places. An integral literal beyond the
range of int64 had been given the reading of an int, which no policy can have written; and the remainder of
two doubles, one of them NaN, had been NaN, where CEL has no such overload and `dynamicArithmetic` answers
an error.

The proofs about Prisma changed its model in three places. Over all columns, rather than those of the
run, two explicit nulls of different types were a counterexample to the lemma about pairs: that is the
disagreement `prisma_explicit_pair`, found this way. The conditions under which a row may be lost had to
tell a related row from the root. And a macro whose body folds to a constant dropped the note of which
shapes the body had read.

The proofs about the Convex evaluator changed it in four places. That `string()` renders a ternary as an int
only if it is one did not follow from the form of the ternary, and TLC then found the counterexample named
`openBranch`, which takes two attributes and a plan of six nodes ([below](#disagreements)). Lists could hold an int64, which no plan
and no document does, and `filter()` could keep a part of one that was no list. A timestamp that is compared as a bigint
is twice as far from zero as the module had it, by the module's own doubling of int64 values. And an
operator could be given operands of a lambda in two different lists, which no plan has.

The proofs about Mongoose changed its model in four places. MongoDB's `$and`, `$or` and `$cond` do not
evaluate what they do not need, where the model had failed the query for a failing operand. `PipelineAgrees` had said that the
pipeline never fails behind its guards; with a string first in `tags[0] + name` it does
([below](#disagreements)), and the property now says what holds. A filter that MongoDB refuses to run
(`aborts`) matches nothing, which `MatchesProven` and `LostOnlyGuarded` had left out of account. Division
by a negative number was the prover's, not MongoDB's. And `TranslateComparison`, `Aggregate`, `TranslateNot`
and five others relied on the order of a `CASE`.

### Left to TLC

* Liveness and anything with `ENABLED`: `RunsEnd`.
* The Drizzle module: all of its invariants. Its records are functions of an environment with some ten
  components each, and the walk has one rule for each of some thirty operators, so that the
  lemma per rule is what is missing. Some of them also rely on the order of a `CASE`, as above.
* Everything that needs induction over data, since the prover has no instance of the induction theorems.
  The adapter modules avoid it by making the plan's depth a matter of steps.

## Disagreements

Each of these is one run whose property is what a document says and whose counterexample is what the
code does.

| Run | The document | The code |
|---|---|---|
| `mongoose_absent_parent` | "a missing parent denies under BOTH polarities regardless of which operator sits above the chain" (`mongoose/src/guards.ts:82`) | `!=` between a reference and a literal emits no guard for the relation it goes through, and none at all if the name is not declared nullable: a document without the parent is returned |
| `prisma_explicit_pair` | "Two explicit nulls are EQUAL in CEL" (`prisma/src/comparison.ts:546`) | `types.ts` has settled `!=` of two such columns to TRUE before, if their types differ, so that a row with two nulls is returned |

Others were met while modelling and are kept out of the passing runs by a constant. Setting it, TLC shows
them: the shapes of `Disagreements` in the Chroma, Mongoose, Drizzle, Prisma and Convex evaluator modules;
`MistypedConditions`
(a present attribute that is no boolean matches as a condition under `not` in Convex) and an int64 among
Convex's documents (the evaluator holds it equal to the number, the engine does not); `MisusedShapes`
(an attribute declared a flat array for Elasticsearch and compared like a scalar is answered by a `term`,
which matches any element).

Of these, `explicitPresence` contradicts a comment. A presence test is "TRUE for a present value of the column
and UNKNOWN for a NULL one", says `prisma/src/types.ts:772`; of a boolean declared explicit it is FALSE of a NULL.
Behind a to-one relation `R.attr.ownerActive == "x"` is settled to the negation of that test, which selects the
row of an owner whose `active` is NULL, where CEL says that null is not "x". The run of `prisma_plans` has such a
column. With it as the one root column, the operators `compare`, `eq`, `ne` and `not`, one leaf, two nodes and
`explicitPresence` admitted, `NeverOverGrants` is violated by that plan.

`openBranch` came out of a proof. "A number renders as a double unless `int` says the operand is
certainly a CEL int", says `convex/src/cel.ts:467`; but a ternary counts as an int when one branch does
(`evaluate.ts:559`), "since CEL gives both branches one type", and to a branch that is an attribute CEL gives
none. With `Refs` of two attributes, the operators `if`, `int` and `string`, six nodes and `openBranch` admitted,
`EvaluatorFaithful` is violated by `string(R.attr.flag ? int(R.attr.amount) : R.attr.amount)`, which renders the
double of the attribute as an int.

A comment of the Mongoose adapter came out of a proof as well. "The divisions and ternaries that reach here are
numeric by construction", says `mongoose/src/aggregation.ts:386-387` of a `+` that has a nested operand, but the
first element of an array reaches it too: `tags[0] + name` becomes an `$add`, and where both are strings MongoDB
fails the whole query. It returns nothing it should not, so that no property of the contract is broken;
`PipelineAgrees` has its `Err` for this.

One more can be seen with an invariant of its own: `FinishingIsEnough` of `PdpBump`. After a bump was
interrupted the script says "finish it with" two commands (`bump-pdp.sh:54`), but neither restates the
pin in the Compose files and go.mod, so the repository can stay rejected after both have run.

## Not modelled

* **Convex:** the structural refusals of `validateStructure` (a malformed plan), references bound by a
  lambda in `assertEveryReferenceMapped`; of the evaluator multiplication, indexing, map literals and
  `map()`, lambdas of two variables or inside one another, hierarchies, accessors of timestamps, case
  folding, the compilation of regular expressions, an int64 stored in a document, and the sign of a zero
  that a sum yields.
* **Elasticsearch:** operator overrides (the caller's own code), timestamps and shifted timestamps,
  ASCII case folding, hierarchies, regular expressions, macros inside a lambda, `in` over a scalar
  constant (the planner folds it). Strings have at most one letter, which is enough to tell equality
  from a prefix. A bare variable holds a boolean, null or nothing: a `term` with a boolean on a field of
  another type is an error of the server, not an answer. A lambda's elements hold scalars in the
  sub-field it reads.
* **Generator:** reading of cases, policy and resources; the wording of reports. **Bump:** the registry
  lookup of an image digest, and the README tables.
* **Chroma:** maps, `filter`, hierarchies, indexing, multiplication, accessors of timestamps, a lambda inside
  a lambda.
* **Mongoose:** map literals and lookups in them, the value rewriting of custom fields, `requiresParent`,
  timestamps, durations, `string()`, case folding, hierarchies, `size` and indexing of a to-many relation.
* **Drizzle:** hierarchies, indexed columns, timestamps, maps indexed by a field, the lifting of constant
  conditionals, case folding, field transforms and function mappings (the caller's own code), the
  compilation of regular expressions, a lambda inside a lambda, multiplication, an integer column
  beyond int64, and every dialect but SQLite's.
* **Prisma:** lambdas inside one another and references out of them, `except`, `filter` and `exists_one` as
  conditions, `subqueryFilter`, regular expressions, timestamps, hierarchies, arithmetic, casts,
  concatenation, map literals, case folding, macros over literal lists, and conditionals inside a comparison
  beyond one level.
* **SQLAlchemy, Spring Data, pgx, ent, Active Record and the harness:** steps 8 and 9 of the plan.
  **Demo, examples and workflows:** they hold no state of their own.
