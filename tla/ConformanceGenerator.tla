------------------------ MODULE ConformanceGenerator ------------------------
(***************************************************************************)
(* The generator that records the conformance corpus (conformance/         *)
(* generator): it starts each pinned PDP in turn, plans and checks every   *)
(* case with a pool of workers, and only then rewrites the generated tree, *)
(* or with -check compares it. Runs follow one another, may be interrupted *)
(* or killed, and leave the tree and the containers to the next one.       *)
(***************************************************************************)
EXTENDS Integers, Sequences, FiniteSets, Functions

CONSTANTS
  Corpus,       \* the case ids, in order
  Pins,         \* the pinned tags, previous first
  DroppedTag,   \* a tag that was pinned once
  Workers,
  Plans,        \* the plans a PDP may answer with
  Behaviours,   \* what the PDPs may answer, by tag and case
  Declarations, \* what the case files may declare each oracle to be, by tag and case
  Flakes,       \* which sets of cases may be planned differently on each request
  Divergent,    \* the (tag, case) pairs a plannerDivergence covers
  Repeats,      \* planRepeats
  Batches,      \* check requests per case
  Tries,        \* health probes before giving up
  MaxRuns,      \* bound on the generator's runs
  MayFail       \* may requests, commands and the disk fail?

Cases == Range(Corpus)
Tags == Range(Pins)
Positions == DOMAIN Corpus
Oracles == {"discriminating", "empty", "total"}
Answers == [plan : Plans, oracle : Oracles]

\* The generated files, one golden per tag and case, and what they may hold.
Goldens == (Tags \union {DroppedTag}) \X Cases
Changes == <<"golden", "CHANGES.md">>
Policy == <<"policies", "conformance.yaml">>
Files == Goldens \union {Changes, Policy}

Golden(tag, i, plan, oracle) == <<"golden", tag, Corpus[i], plan, oracle>>
Absent == <<"absent">>
Outdated == <<"outdated">>
Torn == <<"torn">>          \* truncated and not yet written

ASSUME CorpusAssumption == Corpus \in Seq(STRING) /\ Corpus # <<>> /\ IsInjective(Corpus)
ASSUME PinsAssumption ==
  Pins \in Seq(STRING) /\ Len(Pins) = 2 /\ IsInjective(Pins) /\ DroppedTag \notin Tags
ASSUME PDPAssumption ==
  /\ Behaviours \subseteq [Tags -> [Cases -> Answers]]
  /\ Declarations \subseteq [Tags -> [Cases -> Oracles]]
  /\ Flakes \subseteq SUBSET Cases
  /\ Divergent \subseteq Tags \X Cases
ASSUME BoundsAssumption == {Repeats, Batches, Tries, MaxRuns} \subseteq Nat \ {0} /\ MayFail \in BOOLEAN

VARIABLES
  answers,      \* what each PDP answers for each case
  flaky,        \* the cases whose plan changes from one request to the next
  declared,     \* the oracle declared; a case that declares no degenerate one is discriminating
  tree,         \* the generated files on disk
  mode,         \* "write", or "check" for -check
  run,          \* runs so far, the process id
  phase,        \* where the run stands
  pin,          \* which pinned PDP is being recorded
  containers,   \* the containers there are: run, tag, and "held" or, by no process, "orphan"
  tries,        \* unhealthy probes of this PDP
  cancelled,    \* has a signal cancelled the context?
  next,         \* the next case to hand to a worker
  worker,       \* what each worker is doing
  slots,        \* the goldens and errs of record, by case position
  recorded,     \* the goldens recorded, by pin
  todo,         \* files still to write
  open,         \* the file being written
  exit          \* how the last run ended

inputs == <<answers, flaky, declared>>
pool == <<next, worker, slots>>
files == <<tree, todo, open>>
vars == <<answers, flaky, declared, tree, mode, run, phase, pin, containers, tries, cancelled,
          next, worker, slots, recorded, todo, open, exit>>

Tag == Pins[pin]
NoGolden == <<>>
Failed == <<"error">>
\* seen, which no code keeps, is every plan answered for the case.
Idle == [case |-> 0, plan |-> "none", planned |-> 0, checked |-> 0, seen |-> {}]

-----------------------------------------------------------------------------
(* What a run writes *)

\* changesMarkdown: the cases whose plan or allowed set moved between the two PDPs.
Moved(goldens) ==
  {i \in Positions : SubSeq(goldens[1][i], 4, 5) # SubSeq(goldens[2][i], 4, 5)}

Generated(goldens) ==
  [f \in (Tags \X Cases) \union {Changes, Policy} |->
    CASE f = Changes -> <<"changes", Moved(goldens)>>
      [] f = Policy -> <<"policy">>
      [] OTHER -> goldens[CHOOSE p \in DOMAIN Pins : Pins[p] = f[1]]
                         [CHOOSE i \in Positions : Corpus[i] = f[2]]]

\* Files under golden/ that this run did not generate.
Stale == {f \in Goldens \union {Changes} : tree[f] # Absent} \ DOMAIN Generated(recorded)

\* compareTree finds a difference.
Differs ==
  \/ \E f \in DOMAIN Generated(recorded) : tree[f] # Generated(recorded)[f]
  \/ Stale # {}

\* Only the last version recorded is looked at.
DegeneraciesOfCurrent ==
  {d \in {2} \X Positions :
    LET case == <<Pins[d[1]], Corpus[d[2]]>> IN
    /\ case \notin Divergent
    /\ recorded[d[1]][d[2]][5] # declared[case[1]][case[2]]}

\* degeneracyErrors over both versions.
Degeneracies ==
  {d \in (DOMAIN Pins) \X Positions :
    LET case == <<Pins[d[1]], Corpus[d[2]]>> IN
    /\ case \notin Divergent
    /\ recorded[d[1]][d[2]][5] # declared[case[1]][case[2]]}

-----------------------------------------------------------------------------
(* A run, and the PDP it records *)

Fresh ==
  /\ phase' = "starting" /\ pin' = 1 /\ tries' = 0 /\ cancelled' = FALSE /\ exit' = "none"
  /\ next' = 1 /\ worker' = [w \in Workers |-> Idle] /\ slots' = [i \in Positions |-> NoGolden]
  /\ recorded' = <<>> /\ todo' = {} /\ open' = Absent

Init ==
  /\ answers \in Behaviours
  /\ flaky \in Flakes
  /\ declared \in Declarations
  /\ tree \in {[f \in Files |-> Absent], [f \in Files |-> Outdated]}
  /\ mode \in {"write", "check"}
  /\ run = 1 /\ containers = {}
  /\ phase = "starting" /\ pin = 1 /\ tries = 0 /\ cancelled = FALSE /\ exit = "none"
  /\ next = 1 /\ worker = [w \in Workers |-> Idle] /\ slots = [i \in Positions |-> NoGolden]
  /\ recorded = <<>> /\ todo = {} /\ open = Absent

Rerun ==
  /\ phase = "exited" /\ run < MaxRuns
  /\ run' = run + 1
  /\ mode' \in {"write", "check"}
  /\ Fresh
  /\ UNCHANGED <<inputs, tree, containers>>

Exit(how) == phase' = "exited" /\ exit' = how

\* docker run: when it fails, or the signal cuts it short, the container may be there all the same,
\* and nobody holds it.
StartPDP ==
  /\ phase = "starting"
  /\ \/ /\ ~cancelled
        /\ containers' = containers \union {<<run, Tag, "held">>}
        /\ phase' = "probing" /\ tries' = 0
        /\ UNCHANGED exit
     \/ /\ cancelled \/ MayFail
        /\ containers' \in {containers, containers \union {<<run, Tag, "orphan">>}}
        /\ Exit("failed")
        /\ UNCHANGED tries
  /\ UNCHANGED <<inputs, files, mode, run, pin, cancelled, pool, recorded>>

StopPDPNever == UNCHANGED containers

StopPDP == containers' = containers \ {<<run, Tag, "held">>}

\* A healthy probe; docker port may still fail.
Healthy ==
  /\ phase = "probing" /\ ~cancelled
  /\ \/ /\ phase' = "recording" /\ next' = 1
        /\ slots' = [i \in Positions |-> NoGolden]
        /\ UNCHANGED <<containers, exit>>
     \/ MayFail /\ StopPDP /\ Exit("failed") /\ UNCHANGED <<next, slots>>
  /\ UNCHANGED <<inputs, files, mode, run, pin, tries, cancelled, worker, recorded>>

\* An unhealthy probe, then the wait for the next one, or for the signal.
Unhealthy ==
  /\ phase = "probing" /\ (MayFail \/ cancelled)
  /\ IF cancelled \/ tries + 1 = Tries
     THEN StopPDP /\ Exit("failed") /\ UNCHANGED tries
     ELSE tries' = tries + 1 /\ UNCHANGED <<containers, phase, exit>>
  /\ UNCHANGED <<inputs, files, mode, run, pin, cancelled, pool, recorded>>

-----------------------------------------------------------------------------
(* record: the worker pool *)

Outside == <<inputs, files, mode, run, phase, pin, containers, tries, cancelled, recorded, exit>>

\* One case too many.
HandOffPastEnd(w) ==
  /\ phase = "recording" /\ worker[w] = Idle /\ next <= Len(Corpus) + 1
  /\ worker' = [worker EXCEPT ![w].case = next]
  /\ next' = next + 1
  /\ UNCHANGED <<Outside, slots>>

\* jobs is unbuffered: a case leaves the loop only when a worker takes it.
HandOff(w) ==
  /\ phase = "recording" /\ worker[w] = Idle /\ next <= Len(Corpus)
  /\ worker' = [worker EXCEPT ![w].case = next]
  /\ next' = next + 1
  /\ UNCHANGED <<Outside, slots>>

Busy(w) == phase = "recording" /\ worker[w].case # 0

Settle(w, outcome) ==
  /\ slots' = [slots EXCEPT ![worker[w].case] = outcome]
  /\ worker' = [worker EXCEPT ![w] = Idle]

\* The worker returns on its first error.
RequestFailsForGood(w) ==
  /\ Busy(w)
  /\ MayFail \/ cancelled
  /\ slots' = [slots EXCEPT ![worker[w].case] = Failed]
  /\ worker' = [worker EXCEPT ![w] = [Idle EXCEPT !.plan = "returned"]]
  /\ UNCHANGED <<Outside, next>>

\* A request fails or times out: the case is an error, and the worker takes another.
RequestFails(w) ==
  /\ Busy(w)
  /\ MayFail \/ cancelled
  /\ Settle(w, Failed)
  /\ UNCHANGED <<Outside, next>>

PlanAnswers(i) ==
  IF Corpus[i] \in flaky THEN Plans ELSE {answers[Tag][Corpus[i]].plan}

Planned(job, p) == [job EXCEPT !.plan = p, !.planned = @ + 1, !.seen = @ \union {p}]

\* The last plan is kept, whatever the others were.
PlanCaseUnchecked(w) ==
  /\ Busy(w) /\ ~cancelled /\ worker[w].planned < Repeats
  /\ \E p \in PlanAnswers(worker[w].case) : worker' = [worker EXCEPT ![w] = Planned(@, p)]
  /\ UNCHANGED <<Outside, next, slots>>

\* One more plan of the worker's case, which must be the first one again.
PlanCase(w) ==
  /\ Busy(w) /\ ~cancelled /\ worker[w].planned < Repeats
  /\ \E p \in PlanAnswers(worker[w].case) :
       IF worker[w].planned > 0 /\ p # worker[w].plan
       THEN Settle(w, Failed)
       ELSE worker' = [worker EXCEPT ![w] = Planned(@, p)] /\ UNCHANGED slots
  /\ UNCHANGED <<Outside, next>>

\* One batch of check(); the last one completes the golden.
CheckBatch(w) ==
  LET job == worker[w] IN
  /\ Busy(w) /\ ~cancelled /\ job.planned = Repeats
  /\ IF job.checked + 1 < Batches
     THEN worker' = [worker EXCEPT ![w].checked = @ + 1] /\ UNCHANGED slots
     ELSE Settle(w, Golden(Tag, job.case, job.plan, answers[Tag][Corpus[job.case]].oracle))
  /\ UNCHANGED <<Outside, next>>

Recorded == next > Len(Corpus) /\ \A w \in Workers : worker[w].case = 0

\* The tree is written whatever the flag says.
FinishRecordingUnflagged ==
  /\ phase = "recording" /\ Recorded
  /\ StopPDP
  /\ IF \E i \in Positions : slots[i] = Failed
     THEN Exit("failed") /\ UNCHANGED <<recorded, pin, todo>>
     ELSE /\ recorded' = Append(recorded, slots)
          /\ IF pin = 1 THEN phase' = "starting" /\ pin' = 2 /\ UNCHANGED todo
             ELSE phase' = "writing" /\ todo' = DOMAIN Generated(recorded') /\ UNCHANGED pin
          /\ UNCHANGED exit
  /\ UNCHANGED <<inputs, tree, open, mode, run, tries, cancelled, pool>>

\* wg.Wait is over and the deferred stop runs. An error of any case fails the run.
FinishRecording ==
  /\ phase = "recording" /\ Recorded
  /\ StopPDP
  /\ IF \E i \in Positions : slots[i] = Failed
     THEN Exit("failed") /\ UNCHANGED <<recorded, pin, todo>>
     ELSE /\ recorded' = Append(recorded, slots)
          /\ \/ pin = 1 /\ phase' = "starting" /\ pin' = 2 /\ UNCHANGED todo
             \/ pin = 2 /\ mode = "check" /\ phase' = "comparing" /\ UNCHANGED <<pin, todo>>
             \/ /\ pin = 2 /\ mode = "write" /\ phase' = "writing"
                /\ todo' = DOMAIN Generated(recorded') /\ UNCHANGED pin
          /\ UNCHANGED exit
  /\ UNCHANGED <<inputs, tree, open, mode, run, tries, cancelled, pool>>

-----------------------------------------------------------------------------
(* compareTree and writeTree, which no longer look at the context *)

Machine == <<inputs, mode, run, pin, containers, tries, cancelled, pool, recorded>>

\* The end of run(): what the recorded oracles say of the declarations is reported last.
Conclude == Exit(IF Degeneracies = {} THEN "ok" ELSE "degenerate")

Compare ==
  /\ phase = "comparing"
  /\ IF Differs THEN Exit("out of date") ELSE Conclude
  /\ UNCHANGED <<Machine, files>>

\* Every file is written again, in no order, the unchanged ones too: opening one truncates it.
OpenFile ==
  /\ phase = "writing" /\ open = Absent
  /\ \E f \in todo : open' = f /\ todo' = todo \ {f} /\ tree' = [tree EXCEPT ![f] = Torn]
  /\ UNCHANGED <<Machine, phase, exit>>

FillFile ==
  /\ phase = "writing" /\ open # Absent
  /\ tree' = [tree EXCEPT ![open] = Generated(recorded)[open]]
  /\ open' = Absent
  /\ phase' = (IF todo = {} THEN "cleaning" ELSE "writing")
  /\ UNCHANGED <<Machine, todo, exit>>

\* The stale goldens are left.
RemoveNothing ==
  /\ phase = "cleaning"
  /\ Conclude
  /\ UNCHANGED <<Machine, files>>

\* The walk of golden/ removes what this run did not generate; the directories follow their files.
RemoveStale ==
  /\ phase = "cleaning"
  /\ \/ \E f \in Stale : tree' = [tree EXCEPT ![f] = Absent] /\ UNCHANGED <<phase, exit>>
     \/ Stale = {} /\ Conclude /\ UNCHANGED tree
  /\ UNCHANGED <<Machine, todo, open>>

DiskFails ==
  /\ MayFail /\ phase \in {"comparing", "writing", "cleaning"}
  /\ Exit("failed")
  /\ UNCHANGED <<Machine, files>>

-----------------------------------------------------------------------------

\* SIGINT or SIGTERM: only what takes the context notices.
Interrupt ==
  /\ phase # "exited" /\ ~cancelled
  /\ cancelled' = TRUE
  /\ UNCHANGED <<inputs, files, mode, run, phase, pin, containers, tries, pool, recorded, exit>>

\* The process dies where it stands, and no deferred call runs.
Kill ==
  /\ phase # "exited"
  /\ Exit("killed")
  /\ UNCHANGED <<Machine, files>>

Progress ==
  \/ StartPDP \/ Healthy \/ Unhealthy \/ FinishRecording
  \/ \E w \in Workers : HandOff(w) \/ RequestFails(w) \/ PlanCase(w) \/ CheckBatch(w)
  \/ Compare \/ OpenFile \/ FillFile \/ RemoveStale \/ DiskFails

Next == Progress \/ Interrupt \/ Kill \/ Rerun

Spec == Init /\ [][Next]_vars

\* Goroutines are scheduled, and every request and command returns: requests time out after a
\* minute, probes are counted.
FairSpec == Spec /\ WF_vars(Progress)

-----------------------------------------------------------------------------
(* Properties *)

Content ==
  {Absent, Outdated, Torn, <<"policy">>} \union {<<"changes", S>> : S \in SUBSET Positions}
  \union {Golden(t, i, p, o) : t \in Tags, i \in Positions, p \in Plans, o \in Oracles}

\* Type correctness of a run: the pool holds positions of the corpus and the disk known contents.
TypeOK ==
  /\ tree \in [Files -> Content]
  /\ phase \in {"starting", "probing", "recording", "comparing", "writing", "cleaning", "exited"}
  /\ exit \in {"none", "ok", "failed", "out of date", "degenerate", "killed"}
  /\ pin \in 1 .. 2 /\ run \in 1 .. MaxRuns /\ tries \in 0 .. Tries
  /\ next \in 1 .. Len(Corpus) + 1
  /\ worker \in [Workers -> [case : 0 .. Len(Corpus), plan : Plans \union {"none"},
                             planned : 0 .. Repeats, checked : 0 .. Batches, seen : SUBSET Plans]]
  /\ todo \subseteq Files
  /\ containers \subseteq (1 .. MaxRuns) \X Tags \X {"held", "orphan"}

Steady(p, i) == Golden(Pins[p], i, answers[Pins[p]][Corpus[i]].plan, answers[Pins[p]][Corpus[i]].oracle)
Expected == Generated([p \in DOMAIN Pins |-> [i \in Positions |-> Steady(p, i)]])

\* A run that gets to its end leaves, or with -check has found, exactly the tree the PDPs answer
\* for: every golden under its own tag and case whichever worker recorded it, nothing torn, nothing
\* stale, whatever killed or failed runs before it left behind.
EndsRegenerated ==
  exit \in {"ok", "degenerate"} /\ flaky = {} =>
    \A f \in Files : tree[f] = IF f \in DOMAIN Expected THEN Expected[f] ELSE Absent

\* planRepeats: a golden is recorded only when every plan answered for the case was the same.
OnePlanPerGolden == \A w \in Workers : Cardinality(worker[w].seen) <= 1

\* Exit status 0 means every oracle of both versions is as its case declares (degeneracyErrors).
OkMeansDeclared ==
  exit = "ok" => \A t \in Tags, c \in Cases :
    <<t, c>> \notin Divergent =>
      answers[t][c].oracle = declared[t][c]

\* A run that got its PDP up holds no other, and lets go of it however it ends, unless it is killed.
OnePDPAtATime ==
  /\ \A c \in containers : c[1] = run /\ c[3] = "held" =>
       /\ c[2] = Tag
       /\ phase \in {"probing", "recording"} \/ exit = "killed"

\* Nothing on disk changes before every case of both versions is recorded, or ever with -check: a
\* PDP that fails halfway costs no golden.
TreeKeptUntilRecorded ==
  [][tree' # tree => mode = "write" /\ Len(recorded) = 2]_vars

\* Every run ends: no error strands the cases not yet handed out, nor the wait for the workers.
RunsEnd == phase # "exited" ~> phase = "exited"
=============================================================================
