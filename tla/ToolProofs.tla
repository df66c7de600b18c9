------------------------------ MODULE ToolProofs ------------------------------
(***************************************************************************)
(* What TLAPS proves of the tools beside the adapters: the conformance     *)
(* generator, for any corpus, plans, workers, requests per case, failures  *)
(* and number of runs, and the pin bump, for any number of tags, files,    *)
(* modules, adapters and bumps, and any ledgers to begin with. The pin     *)
(* bump's definitions are told from the generator's by their names.        *)
(***************************************************************************)
EXTENDS ConformanceGenerator, PdpBump, FiniteSetTheorems, SequenceTheorems, TLAPS

-----------------------------------------------------------------------------
(* The generator: its inductive invariant *)

\* What a run writes, whatever it recorded.
GeneratedFiles == (Tags \X Cases) \union {Changes, Policy}

Recording == {"starting", "probing", "recording"}
Reporting == {"comparing", "writing", "cleaning"}

\* What the PDPs and the case files say never changes; a run has ended exactly when it says how.
Called ==
  /\ answers \in Behaviours /\ flaky \in Flakes /\ declared \in Declarations
  /\ mode \in {"write", "check"}
  /\ phase = "exited" <=> exit # "none"

\* A probe is made only while there are some left.
Probing == phase = "probing" => tries < Tries

\* No container is of a later run, and this run's own is the one it records.
Held ==
  /\ \A c \in containers : c[1] <= run
  /\ OnePDPAtATime

\* The plans the PDP of a version may answer for a case.
PlansOf(p, i) == IF flaky = {} THEN {answers[Pins[p]][Corpus[i]].plan} ELSE Plans

\* The goldens that may come of it.
GoldensOf(p, i) ==
  {Golden(Pins[p], i, plan, answers[Pins[p]][Corpus[i]].oracle) : plan \in PlansOf(p, i)}

\* A worker has a case, and the one plan it saw for it, only while it is recording.
JobOK(job) ==
  /\ job.case = 0 => job = Idle
  /\ IF job.planned = 0 THEN job.seen = {} ELSE job.seen = {job.plan}
  /\ phase \in {"starting", "probing"} => job.case = 0
  /\ phase = "recording" /\ job.case # 0 =>
       job.case < next /\ (job.planned # 0 => job.plan \in PlansOf(pin, job.case))

\* Every case handed out is with a worker or settled, by its own golden or an error.
SlotsOK ==
  /\ slots = [i \in Positions |-> slots[i]]
  /\ phase = "recording" =>
       \A i \in Positions :
         /\ slots[i] \in {NoGolden, Failed} \union GoldensOf(pin, i)
         /\ i < next => slots[i] # NoGolden \/ \E w \in Workers : worker[w].case = i

\* A version is recorded whole or not at all, each case under its own position.
RecordedOK ==
  /\ phase \in Recording => recorded \in Seq([Positions -> Content]) /\ Len(recorded) = pin - 1
  /\ phase \in Reporting => recorded \in Seq([Positions -> Content]) /\ Len(recorded) = 2
  /\ phase # "exited" => \A p \in DOMAIN recorded, i \in Positions : recorded[p][i] \in GoldensOf(p, i)

\* What is written so far, and what is left.
WrittenOK ==
  /\ phase \in {"writing", "cleaning"} => mode = "write"
  /\ todo \subseteq GeneratedFiles /\ open \in GeneratedFiles \union {Absent}
  /\ phase = "writing" =>
       \A f \in GeneratedFiles \ (todo \union {open}) : tree[f] = Generated(recorded)[f]
  /\ phase = "cleaning" => \A f \in GeneratedFiles : tree[f] = Generated(recorded)[f]

IInv ==
  /\ TypeOK /\ Called /\ Probing /\ Held
  /\ \A w \in Workers : JobOK(worker[w])
  /\ SlotsOK /\ RecordedOK /\ WrittenOK
  /\ EndsRegenerated /\ OkMeansDeclared

-----------------------------------------------------------------------------
(* The corpus, the pins and what may be written *)

LEMMA CorpusFacts ==
  /\ Len(Corpus) \in Nat \ {0} /\ Positions = 1 .. Len(Corpus)
  /\ \A i \in Positions : Corpus[i] \in Cases
  /\ \A c \in Cases : \E i \in Positions : Corpus[i] = c
  /\ \A i, j \in Positions : Corpus[i] = Corpus[j] => i = j
<1>1. Len(Corpus) \in Nat /\ Positions = 1 .. Len(Corpus)
  BY CorpusAssumption DEF Positions
<1>2. Len(Corpus) # 0
  BY CorpusAssumption
<1>3. \A i, j \in Positions : Corpus[i] = Corpus[j] => i = j
  BY CorpusAssumption DEF IsInjective, Positions
<1> QED BY <1>1, <1>2, <1>3 DEF Cases, Range, Positions

LEMMA PinFacts ==
  /\ DOMAIN Pins = 1 .. 2
  /\ \A p \in 1 .. 2 : Pins[p] \in Tags
  /\ \A t \in Tags : \E p \in 1 .. 2 : Pins[p] = t
  /\ \A p, q \in 1 .. 2 : Pins[p] = Pins[q] => p = q
<1>1. DOMAIN Pins = 1 .. 2
  BY PinsAssumption
<1>2. \A p, q \in 1 .. 2 : Pins[p] = Pins[q] => p = q
  BY <1>1, PinsAssumption DEF IsInjective
<1> QED BY <1>1, <1>2 DEF Tags, Range

\* An answer has a plan and an oracle for every tag and case.
LEMMA AnswerFacts ==
  ASSUME answers \in Behaviours, NEW p \in 1 .. 2, NEW i \in Positions
  PROVE  answers[Pins[p]][Corpus[i]] \in Answers
<1>1. Pins[p] \in Tags /\ Corpus[i] \in Cases
  BY PinFacts, CorpusFacts
<1>2. answers \in [Tags -> [Cases -> Answers]]
  BY PDPAssumption
<1> QED BY <1>1, <1>2

\* A golden is neither missing nor an error.
LEMMA GoldenFacts ==
  ASSUME NEW t, NEW i, NEW plan, NEW oracle
  PROVE  /\ Golden(t, i, plan, oracle) \notin {NoGolden, Failed}
         /\ Golden(t, i, plan, oracle)[5] = oracle
         /\ NoGolden # Failed
BY DEF Golden, NoGolden, Failed

LEMMA GoldensAreContent ==
  ASSUME answers \in Behaviours, NEW p \in 1 .. 2, NEW i \in Positions
  PROVE  PlansOf(p, i) \subseteq Plans /\ GoldensOf(p, i) \subseteq Content
<1>1. answers[Pins[p]][Corpus[i]].plan \in Plans /\ answers[Pins[p]][Corpus[i]].oracle \in Oracles
  BY AnswerFacts DEF Answers
<1>2. PlansOf(p, i) \subseteq Plans
  BY <1>1 DEF PlansOf
<1>3. Pins[p] \in Tags
  BY PinFacts
<1> QED BY <1>1, <1>2, <1>3 DEF GoldensOf, Content

\* What a run writes goes to its own files: each golden where its tag and case say.
LEMMA GeneratedFacts ==
  ASSUME NEW goldens \in Seq([Positions -> Content]), Len(goldens) = 2
  PROVE  /\ Generated(goldens) \in [GeneratedFiles -> Content]
         /\ DOMAIN Generated(goldens) = GeneratedFiles
<1>1. Moved(goldens) \subseteq Positions
  BY DEF Moved
<1>2. \A t \in Tags : (CHOOSE p \in DOMAIN Pins : Pins[p] = t) \in 1 .. 2
  BY PinFacts
<1>3. \A c \in Cases : (CHOOSE i \in Positions : Corpus[i] = c) \in Positions
  BY CorpusFacts
<1>4. \A p \in 1 .. 2, i \in Positions : goldens[p][i] \in Content
  BY DEF Content
<1>5. \A f \in Tags \X Cases : f[1] \in Tags /\ f[2] \in Cases
  OBVIOUS
<1>6. <<"policy">> \in Content /\ <<"changes", Moved(goldens)>> \in Content
  BY <1>1 DEF Content
<1>7. \A f \in GeneratedFiles : f \notin {Changes, Policy} =>
        goldens[CHOOSE p \in DOMAIN Pins : Pins[p] = f[1]]
               [CHOOSE i \in Positions : Corpus[i] = f[2]] \in Content
  BY <1>2, <1>3, <1>4, <1>5 DEF GeneratedFiles
<1>8. DOMAIN Generated(goldens) = GeneratedFiles
  BY DEF Generated, GeneratedFiles
<1>9. \A f \in GeneratedFiles : Generated(goldens)[f] \in Content
  <2> TAKE f \in GeneratedFiles
  <2>1. CASE f = Changes
    BY <2>1, <1>6 DEF Generated, GeneratedFiles, Changes, Policy
  <2>2. CASE f = Policy
    BY <2>2, <1>6 DEF Generated, GeneratedFiles, Changes, Policy
  <2>3. CASE f \notin {Changes, Policy}
    BY <2>3, <1>7 DEF Generated, GeneratedFiles
  <2> QED BY <2>1, <2>2, <2>3
<1> QED BY <1>8, <1>9 DEF Generated, GeneratedFiles

LEMMA FileFacts == GeneratedFiles \subseteq Files /\ Absent \notin Files
BY DEF GeneratedFiles, Files, Goldens, Absent, Changes, Policy

-----------------------------------------------------------------------------
(* The first run *)

\* A run that starts, on what the runs before it left.
Started ==
  /\ answers \in Behaviours /\ flaky \in Flakes /\ declared \in Declarations
  /\ mode \in {"write", "check"} /\ tree \in [Files -> Content] /\ run \in 1 .. MaxRuns
  /\ containers \subseteq (1 .. MaxRuns) \X Tags \X {"held", "orphan"}
  /\ \A c \in containers : c[1] < run
  /\ phase = "starting" /\ pin = 1 /\ tries = 0 /\ cancelled = FALSE /\ exit = "none"
  /\ next = 1 /\ worker = [w \in Workers |-> Idle] /\ slots = [i \in Positions |-> NoGolden]
  /\ recorded = <<>> /\ todo = {} /\ open = Absent

LEMMA StartOK == Started => IInv
<1> SUFFICES ASSUME Started PROVE IInv
  OBVIOUS
<1> USE DEF Started
<1>1. TypeOK
  <2>1. Idle \in [case : 0 .. Len(Corpus), plan : Plans \union {"none"},
                  planned : 0 .. Repeats, checked : 0 .. Batches, seen : SUBSET Plans]
    BY CorpusFacts, BoundsAssumption DEF Idle
  <2>2. next \in 1 .. Len(Corpus) + 1 /\ tries \in 0 .. Tries
    BY CorpusFacts, BoundsAssumption
  <2> QED BY <2>1, <2>2 DEF TypeOK
<1>2. Called /\ Probing
  BY DEF Called, Probing
<1>3. Held
  <2>1. \A c \in containers : c[1] \in Int /\ run \in Int
    BY BoundsAssumption
  <2> QED BY <2>1 DEF Held, OnePDPAtATime
<1>4. \A w \in Workers : JobOK(worker[w])
  BY DEF JobOK, Idle
<1>5. SlotsOK /\ RecordedOK /\ WrittenOK
  BY DEF SlotsOK, RecordedOK, WrittenOK, Recording, Reporting
<1>6. EndsRegenerated /\ OkMeansDeclared
  BY DEF EndsRegenerated, OkMeansDeclared
<1> QED BY <1>1, <1>2, <1>3, <1>4, <1>5, <1>6 DEF IInv

LEMMA InitInv == ASSUME Init PROVE IInv
<1>1. tree \in [Files -> Content]
  BY DEF Init, Content
<1>2. run \in 1 .. MaxRuns
  BY BoundsAssumption DEF Init
<1> QED BY <1>1, <1>2, StartOK DEF Init, Started

-----------------------------------------------------------------------------
(* A run that ends early *)

\* What a run that stops where it stands leaves alone.
Left == <<inputs, mode, tree, run, pin, tries, pool, recorded>>

\* It has nothing to show: the tree is not said to be the PDPs'.
LEMMA ExitInv ==
  ASSUME IInv, NEW how \in {"failed", "killed", "out of date"}, Exit(how), UNCHANGED Left,
         todo' \subseteq GeneratedFiles, open' \in GeneratedFiles \union {Absent},
         containers' \subseteq (1 .. MaxRuns) \X Tags \X {"held", "orphan"}, Held'
  PROVE  IInv'
<1>1. phase' = "exited" /\ exit' = how /\ UNCHANGED <<answers, flaky, declared, mode, tree, run, pin, tries>>
      /\ UNCHANGED <<next, worker, slots, recorded>>
  BY DEF Exit, Left, inputs, pool
<1>2. TypeOK'
  BY <1>1, FileFacts DEF IInv, TypeOK
<1>3. Called' /\ Probing'
  BY <1>1 DEF IInv, Called, Probing
<1>4. (\A w \in Workers : JobOK(worker[w]))'
  BY <1>1 DEF IInv, JobOK
<1>5. SlotsOK' /\ RecordedOK' /\ WrittenOK'
  BY <1>1 DEF IInv, SlotsOK, RecordedOK, WrittenOK, Recording, Reporting
<1>6. EndsRegenerated' /\ OkMeansDeclared'
  BY <1>1 DEF EndsRegenerated, OkMeansDeclared
<1> QED BY <1>2, <1>3, <1>4, <1>5, <1>6 DEF IInv

\* The container a run started is gone once it is stopped, and nothing else is.
LEMMA StopPDPHeld ==
  ASSUME IInv, StopPDP, UNCHANGED run
  PROVE  /\ containers' \subseteq (1 .. MaxRuns) \X Tags \X {"held", "orphan"}
         /\ \A c \in containers' : c[1] <= run /\ ~(c[1] = run /\ c[3] = "held")
<1>1. containers' \subseteq containers
  BY DEF StopPDP
<1>2. \A c \in containers : c = <<c[1], c[2], c[3]>>
  <2>1. \A S, T : \A c \in S \X Tags \X T : c = <<c[1], c[2], c[3]>>
    OBVIOUS
  <2> QED BY <2>1 DEF IInv, TypeOK
<1>3. \A c \in containers : c[1] = run /\ c[3] = "held" => c = <<run, Tag, "held">>
  BY <1>2 DEF IInv, Held, OnePDPAtATime
<1> QED BY <1>1, <1>3 DEF IInv, TypeOK, Held, StopPDP

LEMMA StopPDPExits ==
  ASSUME IInv, StopPDP, Exit("failed"), UNCHANGED Left, UNCHANGED <<todo, open>>
  PROVE  IInv'
<1>1. UNCHANGED run
  BY DEF Left
<1>2. Held'
  BY <1>1, StopPDPHeld DEF Held, OnePDPAtATime
<1>3. todo' \subseteq GeneratedFiles /\ open' \in GeneratedFiles \union {Absent}
  BY DEF IInv, WrittenOK
<1> QED BY <1>1, <1>2, <1>3, StopPDPHeld, ExitInv

LEMMA ExitHolding ==
  ASSUME IInv, NEW how \in {"failed", "killed", "out of date"}, Exit(how), UNCHANGED Left,
         UNCHANGED <<todo, open, containers>>,
         how = "killed" \/ phase \in Reporting
  PROVE  IInv'
<1>1. UNCHANGED <<run, pin>> /\ phase' = "exited" /\ exit' = how
  BY DEF Left, Exit
<1>2. phase \in Reporting => phase \notin {"probing", "recording"} /\ exit # "killed"
  BY DEF IInv, Called, Reporting
<1>3. Held'
  BY <1>1, <1>2 DEF IInv, Held, OnePDPAtATime, Tag
<1>4. todo' \subseteq GeneratedFiles /\ open' \in GeneratedFiles \union {Absent}
  BY DEF IInv, WrittenOK
<1>5. containers' \subseteq (1 .. MaxRuns) \X Tags \X {"held", "orphan"}
  BY DEF IInv, TypeOK
<1> QED BY <1>3, <1>4, <1>5, ExitInv

LEMMA KillInv == ASSUME IInv, Kill PROVE IInv'
BY ExitHolding DEF Kill, Machine, files, inputs, pool, Left

LEMMA DiskFailsInv == ASSUME IInv, DiskFails PROVE IInv'
BY ExitHolding DEF DiskFails, Machine, files, inputs, pool, Left, Reporting

-----------------------------------------------------------------------------
(* Bringing a PDP up *)

LEMMA StartPDPInv == ASSUME IInv, StartPDP PROVE IInv'
<1>1. phase = "starting" /\ exit = "none" /\ UNCHANGED <<inputs, files, mode, run, pin, pool, recorded>>
  BY DEF StartPDP, IInv, Called
<1>2. run \in 1 .. MaxRuns /\ Tag \in Tags
  BY PinFacts DEF IInv, TypeOK, Tag
<1>3. \A c \in containers : c[1] <= run /\ ~(c[1] = run /\ c[3] = "held")
  BY <1>1 DEF IInv, Held, OnePDPAtATime
<1>4. CASE /\ containers' = containers \union {<<run, Tag, "held">>}
           /\ phase' = "probing" /\ tries' = 0 /\ UNCHANGED exit
  <2>1. TypeOK'
    <3>1. <<run, Tag, "held">> \in (1 .. MaxRuns) \X Tags \X {"held", "orphan"}
      BY <1>2
    <3>2. containers' \subseteq (1 .. MaxRuns) \X Tags \X {"held", "orphan"}
      BY <1>4, <3>1 DEF IInv, TypeOK
    <3>3. tries' \in 0 .. Tries /\ phase' = "probing"
      BY <1>4, BoundsAssumption
    <3>4. UNCHANGED <<tree, todo, run, pin, next, worker, exit>>
      BY <1>1, <1>4 DEF files, pool
    <3> QED BY <3>2, <3>3, <3>4 DEF IInv, TypeOK
  <2>2. Called' /\ Probing'
    BY <1>1, <1>4, BoundsAssumption DEF IInv, Called, Probing, inputs
  <2>3. Held'
    <3>1. \A c \in containers' : c = <<run, Tag, "held">> \/ c \in containers
      BY <1>4
    <3>2. run <= run
      BY <1>2
    <3>3. UNCHANGED <<run, pin>>
      BY <1>1
    <3> QED BY <1>3, <1>4, <3>1, <3>2, <3>3 DEF Held, OnePDPAtATime, Tag
  <2>4. (\A w \in Workers : JobOK(worker[w]))'
    BY <1>1, <1>4 DEF IInv, JobOK, pool
  <2>5. SlotsOK' /\ RecordedOK' /\ WrittenOK'
    BY <1>1, <1>4
       DEF IInv, SlotsOK, RecordedOK, WrittenOK, Recording, Reporting, GoldensOf, PlansOf,
           inputs, files, pool
  <2>6. EndsRegenerated' /\ OkMeansDeclared'
    BY <1>1, <1>4 DEF EndsRegenerated, OkMeansDeclared
  <2> QED BY <2>1, <2>2, <2>3, <2>4, <2>5, <2>6 DEF IInv
<1>5. CASE /\ containers' \in {containers, containers \union {<<run, Tag, "orphan">>}}
           /\ Exit("failed") /\ UNCHANGED tries
  <2>1. containers' \subseteq (1 .. MaxRuns) \X Tags \X {"held", "orphan"}
    <3>1. <<run, Tag, "orphan">> \in (1 .. MaxRuns) \X Tags \X {"held", "orphan"}
      BY <1>2
    <3> QED BY <1>5, <3>1 DEF IInv, TypeOK
  <2>2. Held'
    <3>1. \A c \in containers' : c = <<run, Tag, "orphan">> \/ c \in containers
      BY <1>5
    <3>2. run <= run /\ run' = run
      BY <1>1, <1>2
    <3> QED BY <1>3, <3>1, <3>2 DEF Held, OnePDPAtATime
  <2>3. UNCHANGED Left /\ UNCHANGED <<todo, open>>
    BY <1>1, <1>5 DEF Left, inputs, files, pool
  <2>4. todo' \subseteq GeneratedFiles /\ open' \in GeneratedFiles \union {Absent}
    BY <2>3 DEF IInv, WrittenOK
  <2> QED BY <1>5, <2>1, <2>2, <2>3, <2>4, ExitInv
<1> QED BY <1>4, <1>5 DEF StartPDP

LEMMA HealthyInv == ASSUME IInv, Healthy PROVE IInv'
<1>1. phase = "probing" /\ UNCHANGED <<inputs, files, mode, run, pin, tries, worker, recorded>>
  BY DEF Healthy
<1>2. CASE /\ phase' = "recording" /\ next' = 1
           /\ slots' = [i \in Positions |-> NoGolden] /\ UNCHANGED <<containers, exit>>
  <2>1. TypeOK'
    <3>1. next' \in 1 .. Len(Corpus) + 1 /\ phase' = "recording"
      BY <1>2, CorpusFacts
    <3>2. UNCHANGED <<tree, todo, run, pin, tries, worker, containers, exit>>
      BY <1>1, <1>2 DEF files
    <3> QED BY <3>1, <3>2 DEF IInv, TypeOK
  <2>2. Called' /\ Probing' /\ Held'
    BY <1>1, <1>2 DEF IInv, Called, Probing, Held, OnePDPAtATime, Tag, inputs
  <2>3. (\A w \in Workers : JobOK(worker[w]))'
    BY <1>1, <1>2 DEF IInv, JobOK
  <2>4. SlotsOK'
    <3>1. \A i \in Positions : ~(i < 1)
      BY CorpusFacts
    <3> QED BY <1>2, <3>1 DEF SlotsOK
  <2>5. RecordedOK' /\ WrittenOK'
    BY <1>1, <1>2
       DEF IInv, RecordedOK, WrittenOK, Recording, Reporting, GoldensOf, PlansOf, inputs, files
  <2>6. EndsRegenerated' /\ OkMeansDeclared'
    BY <1>1, <1>2 DEF IInv, Called, EndsRegenerated, OkMeansDeclared
  <2> QED BY <2>1, <2>2, <2>3, <2>4, <2>5, <2>6 DEF IInv
<1>3. CASE StopPDP /\ Exit("failed") /\ UNCHANGED <<next, slots>>
  BY <1>1, <1>3, StopPDPExits DEF Left, inputs, files, pool
<1> QED BY <1>2, <1>3 DEF Healthy

LEMMA UnhealthyInv == ASSUME IInv, Unhealthy PROVE IInv'
<1>1. phase = "probing" /\ UNCHANGED <<inputs, files, mode, run, pin, pool, recorded>>
  BY DEF Unhealthy
<1>2. CASE StopPDP /\ Exit("failed") /\ UNCHANGED tries
  BY <1>1, <1>2, StopPDPExits DEF Left, inputs, files, pool
<1>3. CASE tries + 1 # Tries /\ tries' = tries + 1 /\ UNCHANGED <<containers, phase, exit>>
  <2>1. tries \in 0 .. Tries /\ tries < Tries /\ Tries \in Nat
    BY <1>1, BoundsAssumption DEF IInv, TypeOK, Probing
  <2>2. tries' \in 0 .. Tries /\ tries' < Tries
    BY <1>3, <2>1
  <2>3. TypeOK'
    BY <1>1, <1>3, <2>2 DEF IInv, TypeOK, files, pool
  <2>4. Called' /\ Probing' /\ Held'
    BY <1>1, <1>3, <2>2 DEF IInv, Called, Probing, Held, OnePDPAtATime, Tag, inputs
  <2>5. (\A w \in Workers : JobOK(worker[w]))'
    BY <1>1, <1>3 DEF IInv, JobOK, pool
  <2>6. SlotsOK' /\ RecordedOK' /\ WrittenOK'
    BY <1>1, <1>3
       DEF IInv, SlotsOK, RecordedOK, WrittenOK, Recording, Reporting, GoldensOf, PlansOf,
           inputs, files, pool
  <2>7. EndsRegenerated' /\ OkMeansDeclared'
    BY <1>1, <1>3 DEF IInv, Called, EndsRegenerated, OkMeansDeclared
  <2> QED BY <2>3, <2>4, <2>5, <2>6, <2>7 DEF IInv
<1> QED BY <1>2, <1>3 DEF Unhealthy

-----------------------------------------------------------------------------
(* The worker pool *)

Jobs == [case : 0 .. Len(Corpus), plan : Plans \union {"none"}, planned : 0 .. Repeats,
         checked : 0 .. Batches, seen : SUBSET Plans]

\* A step of the pool touches the jobs and the slots alone.
LEMMA PoolInv ==
  ASSUME IInv, phase = "recording", UNCHANGED Outside,
         next' \in 1 .. Len(Corpus) + 1, worker' \in [Workers -> Jobs],
         (\A w \in Workers : JobOK(worker[w]))', SlotsOK'
  PROVE  IInv'
<1>1. UNCHANGED <<answers, flaky, declared, tree, todo, open>>
  BY DEF Outside, inputs, files
<1>2. UNCHANGED <<mode, run, phase, pin, containers, tries, recorded, exit>>
  BY DEF Outside
<1>3. TypeOK'
  BY <1>1, <1>2 DEF IInv, TypeOK, Jobs
<1>4. Called' /\ Probing' /\ Held'
  BY <1>1, <1>2 DEF IInv, Called, Probing, Held, OnePDPAtATime, Tag
<1>5. RecordedOK' /\ WrittenOK'
  BY <1>1, <1>2
     DEF IInv, RecordedOK, WrittenOK, Recording, Reporting, GoldensOf, PlansOf
<1>6. EndsRegenerated' /\ OkMeansDeclared'
  BY <1>2 DEF IInv, Called, EndsRegenerated, OkMeansDeclared
<1> QED BY <1>3, <1>4, <1>5, <1>6 DEF IInv

\* What a pool step may assume: the pool's own part of the invariant.
LEMMA PoolFacts ==
  ASSUME IInv, phase = "recording"
  PROVE  /\ answers \in Behaviours /\ flaky \in Flakes /\ pin \in 1 .. 2
         /\ next \in 1 .. Len(Corpus) + 1 /\ worker \in [Workers -> Jobs]
         /\ \A w \in Workers : JobOK(worker[w])
         /\ SlotsOK
         /\ Idle \in Jobs
<1>1. Idle \in Jobs
  BY CorpusFacts, BoundsAssumption DEF Idle, Jobs
<1> QED BY <1>1 DEF IInv, TypeOK, Called, Jobs

LEMMA IdleOK == (\A w \in Workers : worker[w] = Idle => JobOK(worker[w]))'
BY DEF JobOK, Idle

\* A worker gives its case its golden or an error, and is free again.
LEMMA SettleInv ==
  ASSUME IInv, phase = "recording", NEW w \in Workers, worker[w].case # 0,
         NEW outcome \in {Failed} \union GoldensOf(pin, worker[w].case),
         Settle(w, outcome), UNCHANGED <<Outside, next>>
  PROVE  IInv'
<1>1. UNCHANGED <<answers, flaky, phase, pin, next>>
  BY DEF Outside, inputs
<1>2. worker[w] \in Jobs /\ worker[w].case \in Positions
  <2>1. worker[w] \in Jobs
    BY PoolFacts
  <2> QED BY <2>1, CorpusFacts DEF Jobs
<1>3. worker' = [worker EXCEPT ![w] = Idle]
      /\ slots' = [slots EXCEPT ![worker[w].case] = outcome]
  BY DEF Settle
<1>4. worker' \in [Workers -> Jobs]
  BY <1>3, PoolFacts
<1>5. \A v \in Workers : v # w => worker'[v] = worker[v]
  BY <1>3, PoolFacts
<1>6. worker'[w] = Idle
  BY <1>3, PoolFacts
<1>7. (\A v \in Workers : JobOK(worker[v]))'
  <2>1. \A v \in Workers : worker'[v] = worker[v] => JobOK(worker[v])'
    BY <1>1, PoolFacts DEF JobOK, PlansOf
  <2> QED BY <1>5, <1>6, <2>1, IdleOK
<1>8. SlotsOK'
  <2>1. DOMAIN slots = Positions /\ DOMAIN slots' = Positions
    BY <1>3, PoolFacts DEF SlotsOK
  <2>2. outcome # NoGolden
    BY GoldenFacts DEF GoldensOf
  <2>3. \A i \in Positions : slots'[i] \in {NoGolden, Failed} \union GoldensOf(pin, i)
    BY <1>3, <2>1, PoolFacts DEF SlotsOK
  <2>4. \A i \in Positions : i < next =>
          slots'[i] # NoGolden \/ \E v \in Workers : worker'[v].case = i
    <3> SUFFICES ASSUME NEW i \in Positions, i < next, slots'[i] = NoGolden
                 PROVE  \E v \in Workers : worker'[v].case = i
      OBVIOUS
    <3>1. i # worker[w].case
      BY <1>2, <1>3, <2>1, <2>2
    <3>2. slots[i] = NoGolden
      BY <1>3, <2>1, <3>1
    <3>3. PICK v \in Workers : worker[v].case = i
      BY <3>2, PoolFacts DEF SlotsOK
    <3> QED BY <1>5, <3>1, <3>3
  <2>5. (\A i \in Positions : slots[i] \in {NoGolden, Failed} \union GoldensOf(pin, i))'
    BY <1>1, <2>3 DEF GoldensOf, PlansOf
  <2>6. slots' = [i \in Positions |-> slots'[i]]
    BY <1>3, <2>1
  <2> QED BY <1>1, <2>4, <2>5, <2>6 DEF SlotsOK
<1> QED BY <1>1, <1>4, <1>7, <1>8, PoolInv, PoolFacts

LEMMA RequestFailsInv ==
  ASSUME IInv, NEW w \in Workers, RequestFails(w) PROVE IInv'
BY SettleInv DEF RequestFails, Busy

LEMMA HandOffInv ==
  ASSUME IInv, NEW w \in Workers, HandOff(w) PROVE IInv'
<1>1. phase = "recording" /\ worker[w] = Idle /\ next <= Len(Corpus)
      /\ worker' = [worker EXCEPT ![w].case = next] /\ next' = next + 1
      /\ UNCHANGED Outside /\ UNCHANGED slots
  BY DEF HandOff
<1>2. UNCHANGED <<answers, flaky, phase, pin>>
  BY <1>1 DEF Outside, inputs
<1>3. next \in Positions /\ next' \in 1 .. Len(Corpus) + 1 /\ next < next'
      /\ Positions \subseteq Nat
  BY <1>1, PoolFacts, CorpusFacts
<1>4. \A v \in Workers : v # w => worker'[v] = worker[v]
  BY <1>1, PoolFacts
<1>5. worker'[w] = [Idle EXCEPT !.case = next]
  BY <1>1, PoolFacts
<1>6. worker'[w] \in Jobs
  BY <1>3, <1>5, CorpusFacts, BoundsAssumption DEF Idle, Jobs
<1>7. worker' \in [Workers -> Jobs]
  BY <1>1, <1>4, <1>6, PoolFacts
<1>8. (\A v \in Workers : JobOK(worker[v]))'
  <2>1. JobOK(worker[w])'
    BY <1>1, <1>2, <1>3, <1>5 DEF JobOK, Idle
  <2>2. \A v \in Workers : worker'[v] = worker[v] => JobOK(worker[v])'
    <3> TAKE v \in Workers
    <3> HAVE worker'[v] = worker[v]
    <3>1. JobOK(worker[v]) /\ worker[v] \in Jobs
      BY <1>1, PoolFacts
    <3>2. worker[v].case < next => worker[v].case < next'
      BY <1>3, <3>1, PoolFacts, <1>1 DEF Jobs
    <3> QED BY <1>1, <1>2, <3>1, <3>2 DEF JobOK, PlansOf
  <2> QED BY <1>4, <2>1, <2>2
<1>9. SlotsOK'
  <2>1. \A i \in Positions : i < next' => i < next \/ i = next
    BY <1>1, <1>3
  <2>2. \A i \in Positions : i < next' =>
          slots[i] # NoGolden \/ \E v \in Workers : worker'[v].case = i
    <3> SUFFICES ASSUME NEW i \in Positions, i < next', slots[i] = NoGolden
                 PROVE  \E v \in Workers : worker'[v].case = i
      OBVIOUS
    <3>1. CASE i = next
      BY <1>5, <3>1 DEF Idle
    <3>2. CASE i < next
      <4>1. PICK v \in Workers : worker[v].case = i
        BY <1>1, <3>2, PoolFacts DEF SlotsOK
      <4>2. v # w
        BY <1>1, <1>3, <4>1, CorpusFacts DEF Idle
      <4> QED BY <1>4, <4>1, <4>2
    <3> QED BY <2>1, <3>1, <3>2
  <2>3. (\A i \in Positions : slots[i] \in {NoGolden, Failed} \union GoldensOf(pin, i))'
    BY <1>1, <1>2, PoolFacts DEF SlotsOK, GoldensOf, PlansOf
  <2> QED BY <1>1, <1>2, <2>2, <2>3, PoolFacts DEF SlotsOK
<1> QED BY <1>1, <1>3, <1>7, <1>8, <1>9, PoolInv

\* A worker that goes on with its case disturbs no other, and no slot.
LEMMA GoOnInv ==
  ASSUME IInv, phase = "recording", NEW w \in Workers, NEW job \in Jobs,
         worker' = [worker EXCEPT ![w] = job], job.case = worker[w].case, job.case # 0,
         IF job.planned = 0 THEN job.seen = {} ELSE job.seen = {job.plan},
         job.planned # 0 => job.plan \in PlansOf(pin, job.case),
         UNCHANGED <<Outside, next, slots>>
  PROVE  IInv'
<1>1. UNCHANGED <<answers, flaky, phase, pin, next, slots>>
  BY DEF Outside, inputs
<1>2. worker' \in [Workers -> Jobs]
  BY PoolFacts
<1>3. \A v \in Workers : v # w => worker'[v] = worker[v]
  BY PoolFacts
<1>4. worker'[w] = job
  BY PoolFacts
<1>5. (\A v \in Workers : JobOK(worker[v]))'
  <2>1. \A v \in Workers : worker'[v] = worker[v] => JobOK(worker[v])'
    BY <1>1, PoolFacts DEF JobOK, PlansOf
  <2>2. JobOK(worker[w])'
    BY <1>1, <1>4, PoolFacts DEF JobOK, PlansOf
  <2> QED BY <1>3, <2>1, <2>2
<1>6. SlotsOK'
  <2>1. \A v \in Workers : worker'[v].case = worker[v].case
    BY <1>3, <1>4
  <2>2. (\A i \in Positions : slots[i] \in {NoGolden, Failed} \union GoldensOf(pin, i))'
    BY <1>1, PoolFacts DEF SlotsOK, GoldensOf, PlansOf
  <2>3. \A i \in Positions : i < next =>
          slots[i] # NoGolden \/ \E v \in Workers : worker'[v].case = i
    BY <2>1, PoolFacts DEF SlotsOK
  <2> QED BY <1>1, <2>2, <2>3, PoolFacts DEF SlotsOK
<1> QED BY <1>1, <1>2, <1>5, <1>6, PoolInv, PoolFacts

LEMMA PlanCaseInv ==
  ASSUME IInv, NEW w \in Workers, PlanCase(w) PROVE IInv'
<1>1. phase = "recording" /\ worker[w].case # 0 /\ worker[w].planned < Repeats
      /\ UNCHANGED Outside /\ UNCHANGED next
  BY DEF PlanCase, Busy
<1>2. PICK p \in PlanAnswers(worker[w].case) :
        IF worker[w].planned > 0 /\ p # worker[w].plan
        THEN Settle(w, Failed)
        ELSE worker' = [worker EXCEPT ![w] = Planned(@, p)] /\ UNCHANGED slots
  BY DEF PlanCase
<1>3. worker[w] \in Jobs /\ JobOK(worker[w])
  BY <1>1, PoolFacts
<1>4. worker[w].case \in Positions
  BY <1>1, <1>3, CorpusFacts DEF Jobs
<1>5. p \in PlansOf(pin, worker[w].case) /\ p \in Plans
  <2>1. answers[Pins[pin]][Corpus[worker[w].case]].plan \in Plans
    BY <1>1, <1>4, PoolFacts, AnswerFacts DEF Answers
  <2> QED BY <1>2, <2>1 DEF PlanAnswers, PlansOf, Tag
<1>6. CASE worker[w].planned > 0 /\ p # worker[w].plan
  BY <1>1, <1>2, <1>6, SettleInv
<1>7. CASE ~(worker[w].planned > 0 /\ p # worker[w].plan)
  <2> DEFINE job == Planned(worker[w], p)
  <2>1. worker' = [worker EXCEPT ![w] = job] /\ UNCHANGED slots
    BY <1>2, <1>7
  <2>2. worker[w].planned + 1 \in 1 .. Repeats
    BY <1>1, <1>3, BoundsAssumption DEF Jobs
  <2>3. worker[w].planned = 0 \/ worker[w].planned > 0
    BY <1>3, BoundsAssumption DEF Jobs
  <2>4. worker[w].seen \union {p} = {p}
    BY <1>3, <1>7, <2>3 DEF JobOK
  <2>5. job = [worker[w] EXCEPT !.plan = p, !.planned = worker[w].planned + 1, !.seen = {p}]
    BY <2>4 DEF Planned
  <2>6. job \in Jobs /\ job.case = worker[w].case /\ job.plan = p /\ job.seen = {p}
        /\ job.planned = worker[w].planned + 1
    <3>1. {p} \in SUBSET Plans /\ worker[w].planned + 1 \in 0 .. Repeats
      BY <1>5, <2>2
    <3>2. job = [case |-> worker[w].case, plan |-> p, planned |-> worker[w].planned + 1,
                 checked |-> worker[w].checked, seen |-> {p}]
      BY <1>3, <2>5 DEF Jobs
    <3>3. worker[w].case \in 0 .. Len(Corpus) /\ worker[w].checked \in 0 .. Batches
      BY <1>3 DEF Jobs
    <3> HIDE DEF job
    <3> QED BY <1>5, <3>1, <3>2, <3>3 DEF Jobs
  <2>7. job.planned # 0
    BY <2>2, <2>6
  <2> HIDE DEF job
  <2> QED BY <1>1, <1>5, <2>1, <2>6, <2>7, GoOnInv
<1> QED BY <1>6, <1>7

LEMMA CheckBatchInv ==
  ASSUME IInv, NEW w \in Workers, CheckBatch(w) PROVE IInv'
<1>1. phase = "recording" /\ worker[w].case # 0 /\ worker[w].planned = Repeats
      /\ UNCHANGED Outside /\ UNCHANGED next
  BY DEF CheckBatch, Busy
<1>2. worker[w] \in Jobs /\ JobOK(worker[w])
  BY <1>1, PoolFacts
<1>3. worker[w].planned # 0
  BY <1>1, BoundsAssumption
<1>4. CASE worker[w].checked + 1 < Batches /\ UNCHANGED slots
           /\ worker' = [worker EXCEPT ![w].checked = @ + 1]
  <2> DEFINE job == [worker[w] EXCEPT !.checked = @ + 1]
  <2>1. worker[w].checked + 1 \in 0 .. Batches
    BY <1>2, <1>4, BoundsAssumption DEF Jobs
  <2>2. job \in Jobs /\ job.case = worker[w].case /\ job.planned = worker[w].planned
        /\ job.plan = worker[w].plan /\ job.seen = worker[w].seen
    BY <1>2, <2>1 DEF Jobs
  <2>3. worker' = [worker EXCEPT ![w] = job]
    BY <1>4
  <2>4. IF job.planned = 0 THEN job.seen = {} ELSE job.seen = {job.plan}
    BY <1>2, <2>2 DEF JobOK
  <2>5. job.plan \in PlansOf(pin, job.case)
    BY <1>1, <1>2, <1>3, <2>2 DEF JobOK
  <2> HIDE DEF job
  <2> QED BY <1>1, <1>4, <2>2, <2>3, <2>4, <2>5, GoOnInv
<1>5. CASE Settle(w, Golden(Tag, worker[w].case, worker[w].plan,
                            answers[Tag][Corpus[worker[w].case]].oracle))
  <2>1. worker[w].plan \in PlansOf(pin, worker[w].case)
    BY <1>1, <1>2, <1>3 DEF JobOK
  <2>2. Golden(Tag, worker[w].case, worker[w].plan, answers[Tag][Corpus[worker[w].case]].oracle)
          \in GoldensOf(pin, worker[w].case)
    BY <2>1 DEF GoldensOf, Tag
  <2> QED BY <1>1, <1>5, <2>2, SettleInv
<1> QED BY <1>4, <1>5 DEF CheckBatch

-----------------------------------------------------------------------------
(* A version recorded *)

\* With every case settled and none an error, the version's goldens are all there.
LEMMA RecordedWhole ==
  ASSUME IInv, phase = "recording", Recorded, ~ \E i \in Positions : slots[i] = Failed,
         recorded' = Append(recorded, slots), UNCHANGED inputs
  PROVE  /\ recorded' \in Seq([Positions -> Content]) /\ Len(recorded') = pin
         /\ (\A p \in DOMAIN recorded, i \in Positions : recorded[p][i] \in GoldensOf(p, i))'
<1>1. \A i \in Positions : i < next
  BY PoolFacts, CorpusFacts DEF Recorded
<1>2. \A w \in Workers : worker[w].case = 0
  BY DEF Recorded
<1>3. \A i \in Positions : i # 0
  BY CorpusFacts
<1>4. \A i \in Positions : slots[i] \in GoldensOf(pin, i)
  BY <1>1, <1>2, <1>3, PoolFacts DEF SlotsOK
<1>5. \A i \in Positions : slots[i] \in Content
  BY <1>4, PoolFacts, GoldensAreContent
<1>6. slots \in [Positions -> Content]
  BY <1>5, PoolFacts DEF SlotsOK
<1>7. recorded \in Seq([Positions -> Content]) /\ Len(recorded) = pin - 1
  BY DEF IInv, RecordedOK, Recording
<1>8. recorded' \in Seq([Positions -> Content]) /\ Len(recorded') = pin
      /\ DOMAIN recorded' = 1 .. pin
      /\ recorded'[pin] = slots
      /\ \A p \in 1 .. pin : p # pin => p \in DOMAIN recorded /\ recorded'[p] = recorded[p]
  BY <1>6, <1>7, PoolFacts
<1>9. \A p \in DOMAIN recorded, i \in Positions : recorded[p][i] \in GoldensOf(p, i)
  BY DEF IInv, RecordedOK
<1>10. \A p \in DOMAIN recorded', i \in Positions : recorded'[p][i] \in GoldensOf(p, i)
  BY <1>4, <1>8, <1>9
<1>11. UNCHANGED <<answers, flaky>>
  BY DEF inputs
<1>12. \A p, i : GoldensOf(p, i)' = GoldensOf(p, i)
  BY <1>11 DEF GoldensOf, PlansOf
<1> QED BY <1>8, <1>10, <1>12

LEMMA FinishRecordingInv == ASSUME IInv, FinishRecording PROVE IInv'
<1>1. phase = "recording" /\ Recorded /\ StopPDP
      /\ UNCHANGED <<inputs, tree, open, mode, run, tries, cancelled, pool>>
  BY DEF FinishRecording
<1>2. CASE Exit("failed") /\ UNCHANGED <<recorded, pin, todo>>
  BY <1>1, <1>2, StopPDPExits DEF Left
<1>3. CASE /\ ~ \E i \in Positions : slots[i] = Failed
           /\ recorded' = Append(recorded, slots)
           /\ \/ pin = 1 /\ phase' = "starting" /\ pin' = 2 /\ UNCHANGED todo
              \/ pin = 2 /\ mode = "check" /\ phase' = "comparing" /\ UNCHANGED <<pin, todo>>
              \/ /\ pin = 2 /\ mode = "write" /\ phase' = "writing"
                 /\ todo' = DOMAIN Generated(recorded') /\ UNCHANGED pin
           /\ UNCHANGED exit
  <2>1. /\ recorded' \in Seq([Positions -> Content]) /\ Len(recorded') = pin
        /\ (\A p \in DOMAIN recorded, i \in Positions : recorded[p][i] \in GoldensOf(p, i))'
    BY <1>1, <1>3, RecordedWhole
  <2>2. UNCHANGED <<answers, flaky, declared, tree, open, mode, run, tries, next, worker, slots, exit>>
    BY <1>1, <1>3 DEF inputs, pool
  <2>3. exit = "none"
    BY <1>1 DEF IInv, Called
  <2>4. phase' \in {"starting", "comparing", "writing"} /\ pin' = 2
    BY <1>3
  <2>5. todo' \subseteq GeneratedFiles /\ (phase' = "writing" => todo' = GeneratedFiles)
    <3>1. todo \subseteq GeneratedFiles
      BY DEF IInv, WrittenOK
    <3>2. CASE UNCHANGED todo /\ phase' # "writing"
      BY <3>1, <3>2
    <3>3. CASE pin = 2 /\ todo' = DOMAIN Generated(recorded')
      BY <2>1, <3>3, GeneratedFacts
    <3> QED BY <1>3, <3>2, <3>3
  <2>6. TypeOK'
    <3>1. containers' \subseteq (1 .. MaxRuns) \X Tags \X {"held", "orphan"}
      BY <1>1, <2>2, StopPDPHeld
    <3>2. todo' \subseteq Files /\ pin' \in 1 .. 2
      BY <2>4, <2>5, FileFacts
    <3> QED BY <2>2, <2>4, <3>1, <3>2 DEF IInv, TypeOK
  <2>7. Called' /\ Probing'
    BY <1>1, <2>2, <2>3, <2>4 DEF IInv, Called, Probing
  <2>8. Held'
    BY <1>1, <2>2, StopPDPHeld DEF Held, OnePDPAtATime
  <2>9. (\A w \in Workers : JobOK(worker[w]))'
    <3>1. \A w \in Workers : worker[w].case = 0
      BY <1>1 DEF Recorded
    <3> QED BY <1>1, <2>2, <2>4, <3>1, PoolFacts DEF JobOK
  <2>10. SlotsOK'
    BY <1>1, <2>2, <2>4, PoolFacts DEF SlotsOK
  <2>11. RecordedOK'
    <3>1. CASE phase' = "starting"
      <4>1. Len(recorded') = pin' - 1
        BY <1>3, <2>1, <3>1
      <4> QED BY <2>1, <3>1, <4>1 DEF RecordedOK, Recording, Reporting
    <3>2. CASE phase' \in {"comparing", "writing"}
      <4>1. Len(recorded') = 2
        BY <1>3, <2>1, <3>2
      <4> QED BY <2>1, <3>2, <4>1 DEF RecordedOK, Recording, Reporting
    <3> QED BY <2>4, <3>1, <3>2
  <2>12. WrittenOK'
    <3>1. open' \in GeneratedFiles \union {Absent}
      BY <2>2 DEF IInv, WrittenOK
    <3>2. phase' = "writing" => mode' = "write"
      BY <1>3, <2>2
    <3> QED BY <2>4, <2>5, <3>1, <3>2 DEF WrittenOK
  <2>13. EndsRegenerated' /\ OkMeansDeclared'
    BY <2>2, <2>3 DEF EndsRegenerated, OkMeansDeclared
  <2> QED BY <2>6, <2>7, <2>8, <2>9, <2>10, <2>11, <2>12, <2>13 DEF IInv
<1> QED BY <1>2, <1>3 DEF FinishRecording

-----------------------------------------------------------------------------
(* The tree compared or written *)

\* While the tree is compared or written, what was recorded is what the PDPs answer.
LEMMA ReportingFacts ==
  ASSUME IInv, phase \in Reporting
  PROVE  /\ recorded \in Seq([Positions -> Content]) /\ Len(recorded) = 2 /\ DOMAIN recorded = 1 .. 2
         /\ \A p \in 1 .. 2, i \in Positions : recorded[p][i] \in GoldensOf(p, i)
         /\ Generated(recorded) \in [GeneratedFiles -> Content]
         /\ DOMAIN Generated(recorded) = GeneratedFiles
         /\ phase # "exited" /\ exit = "none" /\ phase \notin {"probing", "recording"}
<1>1. recorded \in Seq([Positions -> Content]) /\ Len(recorded) = 2
  BY DEF IInv, RecordedOK
<1>2. phase # "exited" /\ exit = "none" /\ phase \notin {"probing", "recording"}
  BY DEF IInv, Called, Reporting
<1>3. DOMAIN recorded = 1 .. 2
  BY <1>1
<1>4. \A p \in 1 .. 2, i \in Positions : recorded[p][i] \in GoldensOf(p, i)
  BY <1>2, <1>3 DEF IInv, RecordedOK
<1> QED BY <1>1, <1>2, <1>3, <1>4, GeneratedFacts

\* PDPs that always answer the same are recorded exactly.
LEMMA SteadyIsRecorded ==
  ASSUME IInv, phase \in Reporting, flaky = {}
  PROVE  Generated(recorded) = Expected
<1> DEFINE steady == [p \in DOMAIN Pins |-> [i \in Positions |-> Steady(p, i)]]
<1>1. \A p \in 1 .. 2, i \in Positions : recorded[p][i] = Steady(p, i)
  BY ReportingFacts DEF GoldensOf, PlansOf, Steady
<1>2. \A p \in 1 .. 2 : recorded[p] \in [Positions -> Content]
  <2>1. ASSUME NEW S, NEW s \in Seq(S), DOMAIN s = 1 .. 2, NEW p \in 1 .. 2
        PROVE  s[p] \in S
    BY <2>1
  <2> QED BY <2>1, ReportingFacts
<1>3. \A p \in 1 .. 2 : recorded[p] = [i \in Positions |-> Steady(p, i)]
  BY <1>1, <1>2
<1>4. recorded = [p \in 1 .. 2 |-> recorded[p]]
  BY ReportingFacts
<1>5. recorded = steady
  BY <1>3, <1>4, PinFacts
<1> QED BY <1>5 DEF Expected

\* No oracle recorded was declared otherwise: none answered was.
LEMMA DeclaredIsAnswered ==
  ASSUME IInv, phase \in Reporting, Degeneracies = {},
         NEW t \in Tags, NEW c \in Cases, <<t, c>> \notin Divergent
  PROVE  answers[t][c].oracle = declared[t][c]
<1>1. PICK p \in 1 .. 2 : Pins[p] = t
  BY PinFacts
<1>2. PICK i \in Positions : Corpus[i] = c
  BY CorpusFacts
<1>3. recorded[p][i] \in GoldensOf(p, i)
  BY ReportingFacts
<1>4. recorded[p][i][5] = answers[t][c].oracle
  BY <1>1, <1>2, <1>3, GoldenFacts DEF GoldensOf
<1>5. <<p, i>> \in (DOMAIN Pins) \X Positions
  BY PinFacts
<1>6. recorded[p][i][5] = declared[t][c]
  BY <1>1, <1>2, <1>5 DEF Degeneracies
<1> QED BY <1>4, <1>6

\* A run may conclude once the tree is what it generated.
LEMMA ConcludeInv ==
  ASSUME IInv, phase \in Reporting, Conclude, UNCHANGED <<Machine, files>>,
         \A f \in GeneratedFiles : tree[f] = Generated(recorded)[f],
         Stale = {}
  PROVE  IInv'
<1>1. phase' = "exited" /\ exit' \in {"ok", "degenerate"}
      /\ (exit' = "ok" => Degeneracies = {})
  BY DEF Conclude, Exit
<1>2. UNCHANGED <<answers, flaky, declared, tree, todo, open>>
  BY DEF Machine, inputs, files
<1>3. UNCHANGED <<mode, run, pin, containers, tries, next, worker, slots, recorded>>
  BY DEF Machine, pool
<1>4. TypeOK'
  BY <1>1, <1>2, <1>3 DEF IInv, TypeOK
<1>5. Called' /\ Probing'
  BY <1>1, <1>2, <1>3 DEF IInv, Called, Probing
<1>6. Held'
  BY <1>1, <1>2, <1>3, ReportingFacts DEF IInv, Held, OnePDPAtATime
<1>7. (\A w \in Workers : JobOK(worker[w]))'
  BY <1>1, <1>3 DEF IInv, JobOK
<1>8. SlotsOK' /\ RecordedOK' /\ WrittenOK'
  BY <1>1, <1>2, <1>3 DEF IInv, SlotsOK, RecordedOK, WrittenOK, Recording, Reporting
<1>9. EndsRegenerated'
  <2> SUFFICES ASSUME flaky = {}, NEW f \in Files
               PROVE  tree[f] = IF f \in DOMAIN Expected THEN Expected[f] ELSE Absent
    BY <1>2 DEF EndsRegenerated, Expected, Steady
  <2>1. Generated(recorded) = Expected /\ DOMAIN Expected = GeneratedFiles
    BY SteadyIsRecorded, ReportingFacts
  <2>2. CASE f \in GeneratedFiles
    BY <2>1, <2>2
  <2>3. CASE f \notin GeneratedFiles
    <3>1. f \in Goldens
      BY <2>3 DEF Files, GeneratedFiles
    <3> QED BY <2>1, <2>3, <3>1, ReportingFacts DEF Stale
  <2> QED BY <2>2, <2>3
<1>10. OkMeansDeclared'
  BY <1>1, <1>2, DeclaredIsAnswered DEF OkMeansDeclared
<1> QED BY <1>4, <1>5, <1>6, <1>7, <1>8, <1>9, <1>10 DEF IInv

LEMMA CompareInv == ASSUME IInv, Compare PROVE IInv'
<1>1. phase \in Reporting /\ UNCHANGED <<Machine, files>>
  BY DEF Compare, Reporting
<1>2. CASE Exit("out of date")
  BY <1>1, <1>2, ExitHolding DEF Machine, files, inputs, pool, Left
<1>3. CASE ~Differs /\ Conclude
  <2>1. (\A f \in GeneratedFiles : tree[f] = Generated(recorded)[f]) /\ Stale = {}
    BY <1>1, <1>3, ReportingFacts DEF Differs
  <2> QED BY <1>1, <1>3, <2>1, ConcludeInv
<1> QED BY <1>2, <1>3 DEF Compare

\* A step of the writing touches the tree and what is left of it alone.
LEMMA WritingInv ==
  ASSUME IInv, phase \in Reporting, phase' \in Reporting, UNCHANGED <<Machine, exit>>,
         tree' \in [Files -> Content], WrittenOK'
  PROVE  IInv'
<1>1. UNCHANGED <<answers, flaky, declared, exit>>
  BY DEF Machine, inputs
<1>2. UNCHANGED <<mode, run, pin, containers, tries, next, worker, slots, recorded>>
  BY DEF Machine, pool
<1>3. phase' \notin Recording /\ phase' # "exited"
  BY DEF Recording, Reporting
<1>4. TypeOK'
  <2>1. todo' \subseteq Files
    BY FileFacts DEF WrittenOK
  <2> QED BY <1>1, <1>2, <2>1 DEF IInv, TypeOK, Reporting
<1>5. Called' /\ Probing'
  BY <1>1, <1>2, <1>3, ReportingFacts DEF IInv, Called, Probing, Recording
<1>6. Held'
  BY <1>1, <1>2, ReportingFacts DEF IInv, Held, OnePDPAtATime
<1>7. (\A w \in Workers : JobOK(worker[w]))'
  BY <1>2, <1>3 DEF IInv, JobOK, Recording
<1>8. SlotsOK'
  BY <1>2, <1>3 DEF IInv, SlotsOK, Recording
<1>9. RecordedOK'
  BY <1>1, <1>2, <1>3, ReportingFacts DEF RecordedOK, GoldensOf, PlansOf
<1>10. EndsRegenerated' /\ OkMeansDeclared'
  BY <1>1, ReportingFacts DEF EndsRegenerated, OkMeansDeclared
<1> QED BY <1>4, <1>5, <1>6, <1>7, <1>8, <1>9, <1>10 DEF IInv

LEMMA OpenFileInv == ASSUME IInv, OpenFile PROVE IInv'
<1>1. phase = "writing" /\ open = Absent /\ UNCHANGED <<Machine, phase, exit>>
  BY DEF OpenFile
<1>2. PICK f \in todo : open' = f /\ todo' = todo \ {f} /\ tree' = [tree EXCEPT ![f] = Torn]
  BY DEF OpenFile
<1>3. todo \subseteq GeneratedFiles /\ f \in GeneratedFiles /\ tree \in [Files -> Content]
      /\ mode = "write"
  BY <1>1 DEF IInv, WrittenOK, TypeOK
<1>4. tree' \in [Files -> Content]
  <2>1. Torn \in Content
    BY DEF Content
  <2> QED BY <1>2, <1>3, <2>1
<1>5. UNCHANGED <<mode, recorded>>
  BY <1>1 DEF Machine
<1>6. \A g \in GeneratedFiles \ (todo' \union {open'}) : tree'[g] = Generated(recorded)[g]
  <2> TAKE g \in GeneratedFiles \ (todo' \union {open'})
  <2>1. g \notin todo /\ g # open /\ g \in Files /\ g # f
    BY <1>1, <1>2, FileFacts
  <2>2. tree[g] = Generated(recorded)[g]
    BY <1>1, <2>1 DEF IInv, WrittenOK
  <2> QED BY <1>2, <1>3, <2>1, <2>2
<1>7. WrittenOK'
  BY <1>1, <1>2, <1>3, <1>5, <1>6 DEF WrittenOK
<1> QED BY <1>1, <1>4, <1>7, WritingInv DEF Reporting

LEMMA FillFileInv == ASSUME IInv, FillFile PROVE IInv'
<1>1. phase = "writing" /\ open # Absent /\ UNCHANGED <<Machine, todo, exit>>
      /\ open' = Absent /\ tree' = [tree EXCEPT ![open] = Generated(recorded)[open]]
      /\ phase' = (IF todo = {} THEN "cleaning" ELSE "writing")
  BY DEF FillFile
<1>2. todo \subseteq GeneratedFiles /\ open \in GeneratedFiles /\ tree \in [Files -> Content]
      /\ mode = "write"
  BY <1>1 DEF IInv, WrittenOK, TypeOK
<1>3. Generated(recorded)[open] \in Content
  BY <1>1, <1>2, ReportingFacts DEF Reporting
<1>4. tree' \in [Files -> Content]
  BY <1>1, <1>2, <1>3
<1>5. UNCHANGED <<mode, recorded>>
  BY <1>1 DEF Machine
<1>6. \A g \in GeneratedFiles \ todo : tree'[g] = Generated(recorded)[g]
  <2> TAKE g \in GeneratedFiles \ todo
  <2>1. g \in Files
    BY FileFacts
  <2>2. g # open => tree[g] = Generated(recorded)[g]
    BY <1>1 DEF IInv, WrittenOK
  <2> QED BY <1>1, <1>2, <2>1, <2>2
<1>7. WrittenOK'
  BY <1>1, <1>2, <1>5, <1>6 DEF WrittenOK
<1> QED BY <1>1, <1>4, <1>7, WritingInv DEF Reporting

LEMMA RemoveStaleInv == ASSUME IInv, RemoveStale PROVE IInv'
<1>1. phase = "cleaning" /\ phase \in Reporting /\ UNCHANGED <<Machine, todo, open>>
  BY DEF RemoveStale, Reporting
<1>2. \A f \in GeneratedFiles : tree[f] = Generated(recorded)[f]
  BY <1>1 DEF IInv, WrittenOK
<1>3. ASSUME NEW f \in Stale, tree' = [tree EXCEPT ![f] = Absent], UNCHANGED <<phase, exit>>
      PROVE  IInv'
  <2>1. f \notin GeneratedFiles
    BY <1>1, ReportingFacts DEF Stale
  <2>2. tree \in [Files -> Content] /\ mode = "write"
    BY <1>1 DEF IInv, TypeOK, WrittenOK
  <2>3. tree' \in [Files -> Content]
    <3>1. Absent \in Content
      BY DEF Content
    <3> QED BY <1>3, <2>2, <3>1
  <2>4. \A g \in GeneratedFiles : tree'[g] = Generated(recorded)[g]
    <3> TAKE g \in GeneratedFiles
    <3>1. g \in Files /\ g # f
      BY <2>1, FileFacts
    <3> QED BY <1>2, <1>3, <2>2, <3>1
  <2>5. UNCHANGED <<mode, recorded>>
    BY <1>1 DEF Machine
  <2>6. WrittenOK'
    BY <1>1, <1>3, <2>2, <2>4, <2>5 DEF IInv, WrittenOK
  <2> QED BY <1>1, <1>3, <2>3, <2>6, WritingInv
<1>4. CASE Stale = {} /\ Conclude /\ UNCHANGED tree
  BY <1>1, <1>2, <1>4, ConcludeInv DEF files
<1> QED BY <1>3, <1>4 DEF RemoveStale

-----------------------------------------------------------------------------
(* Signals, and the next run *)

\* The invariant says nothing of the signal.
LEMMA SameInv ==
  ASSUME IInv,
         UNCHANGED <<answers, flaky, declared, tree, todo, open, mode, run, phase, pin>>,
         UNCHANGED <<containers, tries, next, worker, slots, recorded, exit>>
  PROVE  IInv'
<1>1. TypeOK' /\ Called' /\ Probing'
  BY DEF IInv, TypeOK, Called, Probing
<1>2. Held'
  BY DEF IInv, Held, OnePDPAtATime, Tag
<1>3. (\A w \in Workers : JobOK(worker[w]))'
  BY DEF IInv, JobOK, PlansOf
<1>4. SlotsOK' /\ RecordedOK'
  BY DEF IInv, SlotsOK, RecordedOK, GoldensOf, PlansOf
<1>5. WrittenOK'
  BY DEF IInv, WrittenOK
<1>6. EndsRegenerated'
  BY DEF IInv, EndsRegenerated, Expected, Steady
<1>7. OkMeansDeclared'
  BY DEF IInv, OkMeansDeclared
<1> QED BY <1>1, <1>2, <1>3, <1>4, <1>5, <1>6, <1>7 DEF IInv

LEMMA InterruptInv == ASSUME IInv, Interrupt PROVE IInv'
<1>1. UNCHANGED <<answers, flaky, declared, tree, todo, open, mode, run, phase, pin>>
      /\ UNCHANGED <<containers, tries, next, worker, slots, recorded, exit>>
  BY DEF Interrupt, inputs, files, pool
<1> QED BY <1>1, SameInv

LEMMA RerunInv == ASSUME IInv, Rerun PROVE IInv'
<1>1. run' = run + 1 /\ run < MaxRuns /\ mode' \in {"write", "check"} /\ Fresh
      /\ UNCHANGED <<inputs, tree, containers>>
  BY DEF Rerun
<1>2. run \in 1 .. MaxRuns /\ containers \subseteq (1 .. MaxRuns) \X Tags \X {"held", "orphan"}
      /\ \A c \in containers : c[1] <= run
  BY DEF IInv, TypeOK, Held
<1>3. run' \in 1 .. MaxRuns
  BY <1>1, <1>2, BoundsAssumption
<1>4. \A c \in containers : c[1] < run'
  <2>1. \A c \in containers : c[1] \in 1 .. MaxRuns
    BY <1>2
  <2> QED BY <1>1, <1>2, <2>1, BoundsAssumption
<1>5. Started'
  BY <1>1, <1>2, <1>3, <1>4 DEF Started, Fresh, inputs, IInv, TypeOK, Called
<1>6. Started' => IInv'
  BY StartOK, PTL
<1> QED BY <1>5, <1>6

-----------------------------------------------------------------------------
(* Every reachable state, and every step *)

LEMMA StepInv == ASSUME IInv, [Next]_vars PROVE IInv'
<1>1. CASE Progress
  BY <1>1, StartPDPInv, HealthyInv, UnhealthyInv, FinishRecordingInv, HandOffInv, RequestFailsInv,
     PlanCaseInv, CheckBatchInv, CompareInv, OpenFileInv, FillFileInv, RemoveStaleInv, DiskFailsInv
     DEF Progress
<1>2. CASE UNCHANGED vars
  BY <1>2, SameInv DEF vars
<1> QED BY <1>1, <1>2, InterruptInv, KillInv, RerunInv DEF Next

LEMMA InvHolds == Spec => []IInv
<1>1. Init => IInv
  BY InitInv
<1>2. IInv /\ [Next]_vars => IInv'
  BY StepInv
<1> QED BY <1>1, <1>2, PTL DEF Spec

\* The pool holds positions of the corpus and the disk known contents, whoever interrupts or
\* kills which run.
THEOREM TypeCorrect == Spec => []TypeOK
<1>1. IInv => TypeOK
  BY DEF IInv
<1> QED BY <1>1, InvHolds, PTL

\* A golden is recorded only when every plan answered for the case was the same (planCase), for any
\* number of requests and whatever the PDP answers.
THEOREM PlansAreRepeated == Spec => []OnePlanPerGolden
<1>1. IInv => OnePlanPerGolden
  <2> SUFFICES ASSUME IInv, NEW w \in Workers PROVE Cardinality(worker[w].seen) <= 1
    BY DEF OnePlanPerGolden
  <2>1. worker[w].seen = {} \/ worker[w].seen = {worker[w].plan}
    BY DEF IInv, JobOK
  <2>2. Cardinality({}) = 0
    BY FS_EmptySet
  <2>3. \A x : Cardinality({x}) = 1
    BY FS_Singleton
  <2>4. Cardinality(worker[w].seen) \in {0, 1}
    <3>1. CASE worker[w].seen = {}
      BY <2>2, <3>1, Zenon
    <3>2. CASE worker[w].seen = {worker[w].plan}
      BY <2>3, <3>2, Zenon
    <3> QED BY <2>1, <3>1, <3>2
  <2> QED BY <2>4
<1> QED BY <1>1, InvHolds, PTL

\* Exit status 0 means every oracle is as its case declares (degeneracyErrors, called by run()).
THEOREM SuccessIsDeclared == Spec => []OkMeansDeclared
<1>1. IInv => OkMeansDeclared
  BY DEF IInv
<1> QED BY <1>1, InvHolds, PTL

\* A run holds at most the PDP it records (startPDP and its stop), whatever earlier runs orphaned.
THEOREM ContainersAreLetGo == Spec => []OnePDPAtATime
<1>1. IInv => OnePDPAtATime
  BY DEF IInv, Held
<1> QED BY <1>1, InvHolds, PTL

\* A run that gets to its end leaves, or with -check has found, the tree the PDPs answer for
\* (writeTree, compareTree), whatever killed and failed runs left before it.
THEOREM TreeIsRegenerated == Spec => []EndsRegenerated
<1>1. IInv => EndsRegenerated
  BY DEF IInv
<1> QED BY <1>1, InvHolds, PTL

\* Nothing on disk changes before every case of both versions is recorded, or ever with -check
\* (run() records before it writes).
THEOREM TreeIsKept == Spec => TreeKeptUntilRecorded
<1>1. IInv /\ [Next]_vars => (tree' # tree => mode = "write" /\ Len(recorded) = 2)
  <2> SUFFICES ASSUME IInv, [Next]_vars, tree' # tree
               PROVE  mode = "write" /\ Len(recorded) = 2
    OBVIOUS
  <2>1. OpenFile \/ FillFile \/ RemoveStale
    BY DEF Next, Progress, vars, Machine, files, Outside, StartPDP, Healthy, Unhealthy,
           FinishRecording, HandOff, RequestFails, PlanCase, CheckBatch, Compare, DiskFails,
           Interrupt, Kill, Rerun
  <2>2. phase \in {"writing", "cleaning"}
    BY <2>1 DEF OpenFile, FillFile, RemoveStale
  <2> QED BY <2>2 DEF IInv, WrittenOK, RecordedOK, Reporting
<1> QED BY <1>1, InvHolds, PTL DEF Spec, TreeKeptUntilRecorded
-----------------------------------------------------------------------------
(* The pin bump: its inductive invariant *)

\* What the script remembers of the pins: before it moves them, and after.
Remembered ==
  /\ pc = "versions" =>
       local.old = pins.current /\ local.dropped = pins.previous /\ local.old < local.new
  /\ pc \in {"restate", "gomod", "ledgers"} =>
       pins.current = local.new /\ pins.previous = local.old /\ local.dropped < local.old

\* What each loop has left.
LoopOK ==
  /\ pc = "restate" => left \subseteq Composes
  /\ pc = "gomod" => left \subseteq DOMAIN GoModules
  /\ pc = "ledgers" => left \subseteq Adapters

\* The parts of Valid, as the steps of a bump restore them one after another.
ScopesIn(a, tags) == \A s \in ledger[a] : s \subseteq tags
ComposesAt(tag) == \A f \in Composes : compose[f] = tag
ModulesAt(tag) == \A m \in Range(GoModules) : gomod[m] = tag
RequiredAt(tag) == \A m \in Range(GoModules) \ Examples : gomod[m] = tag

Untouched == \A a \in Adapters : ScopesIn(a, {local.dropped, local.old})

\* What holds at each step of commands that nobody interrupted since the corpus was valid.
Uninterrupted ==
  /\ pc \in {"idle", "versions", "validate"} => Valid
  /\ pc = "restate" => (\A f \in Composes \ left : compose[f] = local.new) /\ Untouched
  /\ pc = "gomod" =>
       /\ ComposesAt(local.new) /\ Untouched
       /\ \A i \in DOMAIN GoModules \ left : gomod[GoModules[i]] = local.new
  /\ pc = "ledgers" =>
       /\ ComposesAt(local.new) /\ ModulesAt(local.new)
       /\ \A a \in left : ScopesIn(a, {local.dropped, local.old})
       /\ \A a \in Adapters \ left : ScopesIn(a, {local.new, local.old})
  /\ pc = "generate" =>
       /\ ComposesAt(pins.current) /\ RequiredAt(pins.current)
       /\ \A a \in Adapters : ScopesIn(a, Pinned)

PinInv ==
  /\ BumpTypeOK
  /\ PinsAscend
  /\ Remembered
  /\ LoopOK
  /\ ~stopped => Uninterrupted
  /\ UninterruptedBumpIsValid

-----------------------------------------------------------------------------
(* Types *)

\* Taking a tag out of scopes leaves scopes of tags.
LEMMA WithoutTagType ==
  ASSUME NEW scopes \in SUBSET SUBSET Release, NEW tag
  PROVE  WithoutTag(scopes, tag) \in SUBSET SUBSET Release
BY DEF WithoutTag

\* The commands leave the repository and the script's place in it well-formed, whatever stopped
\* before.
THEOREM BumpTypeCorrect == BumpSpec => []BumpTypeOK
<1>1. BumpInit => BumpTypeOK
  <2> SUFFICES ASSUME BumpInit PROVE BumpTypeOK
    OBVIOUS
  <2>1. 1 \in Release /\ 2 \in Release
    BY TagAssumption DEF Release
  <2>2. ledger \in [Adapters -> SUBSET SUBSET Release]
    BY <2>1, LedgersAssumption DEF BumpInit
  <2>3. bumps \in 0 .. MaxBumps
    BY TagAssumption DEF BumpInit
  <2> QED BY <2>1, <2>2, <2>3 DEF BumpInit, BumpTypeOK
<1>2. BumpTypeOK /\ [BumpNext]_bumpVars => BumpTypeOK'
  <2> SUFFICES ASSUME BumpTypeOK, [BumpNext]_bumpVars PROVE BumpTypeOK'
    OBVIOUS
  <2>1. CASE Bump
    <3>1. UNCHANGED <<repository, left, stopped>>
      BY <2>1 DEF Bump
    <3>2. PICK t \in Release :
            \/ /\ verdict' \in {"nothing to do", "refused"} /\ UNCHANGED <<pc, by, bumps, local>>
               /\ pc = "idle"
            \/ /\ bumps < MaxBumps /\ pc' = "versions" /\ by' = "bump" /\ verdict' = "running"
               /\ bumps' = bumps + 1
               /\ local' = [new |-> t, old |-> pins.current, dropped |-> pins.previous]
      BY <2>1 DEF Bump
    <3>3. bumps' \in 0 .. MaxBumps
      <4>1. bumps \in 0 .. MaxBumps /\ MaxBumps \in Nat
        BY TagAssumption DEF BumpTypeOK
      <4>2. bumps' = bumps \/ (bumps < MaxBumps /\ bumps' = bumps + 1)
        BY <3>2
      <4> QED BY <4>1, <4>2
    <3>4. local' \in [new : Release, old : Release, dropped : Release]
      <4>1. t \in Release /\ pins.current \in Release /\ pins.previous \in Release
        BY DEF BumpTypeOK
      <4>2. [new |-> t, old |-> pins.current, dropped |-> pins.previous]
              \in [new : Release, old : Release, dropped : Release]
        BY <4>1
      <4> QED BY <3>2, <4>2 DEF BumpTypeOK
    <3> QED BY <3>1, <3>2, <3>3, <3>4 DEF repository, BumpTypeOK
  <2>2. CASE WriteVersions
    BY <2>2 DEF BumpTypeOK, WriteVersions
  <2>3. CASE Restate
    BY <2>3 DEF BumpTypeOK, Restate
  <2>4. CASE UpdateModule
    BY <2>4 DEF BumpTypeOK, UpdateModule
  <2>5. CASE DropEntries
    <3>1. ledger' \in [Adapters -> SUBSET SUBSET Release]
      BY <2>5, WithoutTagType DEF BumpTypeOK, DropEntries
    <3> QED BY <2>5, <3>1 DEF BumpTypeOK, DropEntries
  <2>6. CASE Generate
    BY <2>6 DEF BumpTypeOK, Generate, Pinned
  <2>7. CASE Validate
    BY <2>7 DEF BumpTypeOK, Validate, repository
  <2>8. CASE Stop
    BY <2>8 DEF BumpTypeOK, Stop, Pinned
  <2>9. CASE Finish
    BY <2>9 DEF BumpTypeOK, Finish, repository
  <2>10. CASE AddEntry
    <3>1. PICK a \in Adapters : ledger' = [ledger EXCEPT ![a] = @ \union {{pins.current}}]
      BY <2>10 DEF AddEntry
    <3>2. ledger[a] \union {{pins.current}} \in SUBSET SUBSET Release
      BY DEF BumpTypeOK
    <3>3. ledger' \in [Adapters -> SUBSET SUBSET Release]
      BY <3>1, <3>2 DEF BumpTypeOK
    <3>4. UNCHANGED <<pins, compose, gomod, golden, pc, local, left, by, verdict, stopped, bumps>>
      BY <2>10 DEF AddEntry
    <3> QED BY <3>3, <3>4 DEF BumpTypeOK
  <2>11. CASE UNCHANGED bumpVars
    BY <2>11 DEF BumpTypeOK, bumpVars
  <2> QED BY <2>1, <2>2, <2>3, <2>4, <2>5, <2>6, <2>7, <2>8, <2>9, <2>10, <2>11 DEF BumpNext
<1> QED BY <1>1, <1>2, PTL DEF BumpSpec

-----------------------------------------------------------------------------
(* A bump, step by step *)

LEMMA TagsAreIntegers ==
  ASSUME BumpTypeOK
  PROVE  {pins.current, pins.previous, local.new, local.old, local.dropped} \subseteq Int /\ Release \subseteq Int
<1>1. {pins.current, pins.previous, local.new, local.old, local.dropped} \subseteq Release
  BY DEF BumpTypeOK
<1>2. Release \subseteq Int
  BY TagAssumption DEF Release
<1> QED BY <1>1, <1>2

\* Taking the oldest tag out of a ledger leaves scopes over the other tags.
LEMMA WithoutTagScopes ==
  ASSUME NEW scopes, NEW tag, NEW tags,
         \A s \in scopes : s \subseteq {tag} \union tags
  PROVE  \A s \in WithoutTag(scopes, tag) : s \subseteq tags
BY DEF WithoutTag

\* It keeps every other tag that was covered covered.
LEMMA WithoutTagCovers ==
  ASSUME NEW scopes, NEW tag, NEW t, t # tag,
         \E s \in scopes : s = {} \/ t \in s
  PROVE  \E s \in WithoutTag(scopes, tag) : s = {} \/ t \in s
<1>1. PICK s \in scopes : s = {} \/ t \in s
  OBVIOUS
<1>2. s # {tag} /\ s \ {tag} \in WithoutTag(scopes, tag)
  BY <1>1 DEF WithoutTag
<1>3. s \ {tag} = {} \/ t \in s \ {tag}
  BY <1>1
<1> QED BY <1>2, <1>3

LEMMA BumpInitInv == BumpTypeOK /\ BumpInit => PinInv
<1> SUFFICES ASSUME BumpTypeOK, BumpInit PROVE PinInv
  OBVIOUS
<1>1. Pinned = {1, 2} /\ pins.current = 2 /\ pins.previous = 1
  BY DEF BumpInit, Pinned
<1>2. \A a \in Adapters : \A s \in ledger[a] : s \subseteq Pinned
  BY <1>1, LedgersAssumption DEF BumpInit
<1>3. Valid
  BY <1>1, <1>2 DEF BumpInit, Valid
<1> QED
  BY <1>1, <1>3
     DEF BumpInit, PinInv, PinsAscend, Remembered, LoopOK, Uninterrupted, UninterruptedBumpIsValid

\* A new tag is newer than the current one.
LEMMA BumpInv == ASSUME PinInv, BumpTypeOK', Bump PROVE PinInv'
<1>1. UNCHANGED <<repository, left, stopped>> /\ pc = "idle" /\ verdict' # "rejected"
  BY DEF Bump
<1>2. \/ pc' = "idle"
      \/ /\ pc' = "versions" /\ local'.old = pins.current /\ local'.dropped = pins.previous
         /\ local'.old < local'.new
  <2>1. PICK t \in Release :
          \/ pc' = pc
          \/ /\ t > pins.current /\ pc' = "versions"
             /\ local' = [new |-> t, old |-> pins.current, dropped |-> pins.previous]
    BY DEF Bump
  <2>2. t \in Int /\ pins.current \in Int
    BY TagsAreIntegers DEF PinInv
  <2> QED BY <1>1, <2>1, <2>2
<1>3. PinsAscend' /\ Remembered' /\ LoopOK'
  BY <1>1, <1>2 DEF PinInv, PinsAscend, Remembered, LoopOK, repository
<1>4. Valid' <=> Valid
  BY <1>1 DEF Valid, Pinned, repository
<1>5. ~stopped' => Uninterrupted'
  BY <1>1, <1>2, <1>4 DEF PinInv, Uninterrupted, repository
<1> QED BY <1>1, <1>3, <1>5 DEF PinInv, UninterruptedBumpIsValid

\* Where the corpus was valid, the files that name the old image are all of them.
LEMMA WriteVersionsInv == ASSUME PinInv, BumpTypeOK', WriteVersions PROVE PinInv'
<1>1. /\ pc = "versions" /\ pc' = "restate"
      /\ pins' = [current |-> local.new, previous |-> local.old]
      /\ left' = {f \in Composes : compose[f] = local.old}
      /\ UNCHANGED <<compose, gomod, ledger, golden, local, by, verdict, stopped, bumps>>
  BY DEF WriteVersions
<1>2. /\ local.old = pins.current /\ local.dropped = pins.previous /\ local.old < local.new
      /\ pins.previous < pins.current /\ verdict # "rejected"
  BY <1>1 DEF PinInv, Remembered, PinsAscend, BumpTypeOK
<1>3. PinsAscend' /\ Remembered' /\ LoopOK'
  BY <1>1, <1>2 DEF PinsAscend, Remembered, LoopOK
<1>4. ASSUME ~stopped PROVE Uninterrupted'
  <2>1. Valid
    BY <1>1, <1>4 DEF PinInv, Uninterrupted
  <2>2. Untouched
    BY <1>2, <2>1 DEF Valid, Pinned, Untouched, ScopesIn
  <2>3. \A f \in Composes : compose[f] = local.old
    BY <1>2, <2>1 DEF Valid
  <2>4. Untouched'
    BY <1>1, <2>2 DEF Untouched, ScopesIn
  <2>5. \A f \in Composes \ left' : FALSE
    BY <1>1, <2>3
  <2> QED BY <1>1, <2>4, <2>5 DEF Uninterrupted
<1> QED BY <1>1, <1>2, <1>3, <1>4 DEF PinInv, UninterruptedBumpIsValid

LEMMA RestateInv == ASSUME PinInv, BumpTypeOK', Restate PROVE PinInv'
<1>1. /\ pc = "restate" /\ left \subseteq Composes
      /\ UNCHANGED <<pins, gomod, ledger, golden, local, by, verdict, stopped, bumps>>
  BY DEF Restate, PinInv, LoopOK
<1>2. Untouched' <=> Untouched
  BY <1>1 DEF Untouched, ScopesIn
<1>3. verdict # "rejected"
  BY <1>1 DEF PinInv, BumpTypeOK
<1>4. CASE left = {} /\ left' = DOMAIN GoModules /\ pc' = "gomod" /\ UNCHANGED compose
  <2>1. PinsAscend' /\ Remembered' /\ LoopOK'
    BY <1>1, <1>4 DEF PinInv, PinsAscend, Remembered, LoopOK
  <2>2. ~stopped => Uninterrupted'
    BY <1>1, <1>2, <1>4 DEF PinInv, Uninterrupted, ComposesAt
  <2> QED BY <1>1, <1>3, <2>1, <2>2 DEF PinInv, UninterruptedBumpIsValid
<1>5. ASSUME NEW f \in left, compose' = [compose EXCEPT ![f] = local.new],
             left' = left \ {f}, UNCHANGED pc
      PROVE  PinInv'
  <2>1. PinsAscend' /\ Remembered' /\ LoopOK'
    BY <1>1, <1>5 DEF PinInv, PinsAscend, Remembered, LoopOK
  <2>2. ASSUME ~stopped PROVE Uninterrupted'
    <3>1. Untouched /\ \A g \in Composes \ left : compose[g] = local.new
      BY <1>1, <2>2 DEF PinInv, Uninterrupted
    <3>2. \A g \in Composes \ left' : compose'[g] = local.new
      BY <1>5, <3>1 DEF PinInv, BumpTypeOK
    <3> QED BY <1>1, <1>2, <1>5, <3>1, <3>2 DEF Uninterrupted
  <2> QED BY <1>1, <1>3, <2>1, <2>2 DEF PinInv, UninterruptedBumpIsValid
<1> QED BY <1>4, <1>5 DEF Restate

LEMMA UpdateModuleInv == ASSUME PinInv, BumpTypeOK', UpdateModule PROVE PinInv'
<1>1. /\ pc = "gomod" /\ left \subseteq DOMAIN GoModules
      /\ UNCHANGED <<pins, compose, ledger, golden, local, by, verdict, stopped, bumps>>
  BY DEF UpdateModule, PinInv, LoopOK
<1>2. Untouched' <=> Untouched
  BY <1>1 DEF Untouched, ScopesIn
<1>3. verdict # "rejected"
  BY <1>1 DEF PinInv, BumpTypeOK
<1>4. CASE left = {} /\ left' = Adapters /\ pc' = "ledgers" /\ UNCHANGED gomod
  <2>1. PinsAscend' /\ Remembered' /\ LoopOK'
    BY <1>1, <1>4 DEF PinInv, PinsAscend, Remembered, LoopOK
  <2>2. ASSUME ~stopped PROVE Uninterrupted'
    <3>1. /\ ComposesAt(local.new) /\ Untouched
          /\ \A i \in DOMAIN GoModules \ left : gomod[GoModules[i]] = local.new
      BY <1>1, <2>2 DEF PinInv, Uninterrupted
    <3>2. ModulesAt(local.new)'
      BY <1>1, <1>4, <3>1 DEF ModulesAt, Range
    <3>3. ComposesAt(local.new)'
      BY <1>1, <3>1 DEF ComposesAt
    <3>4. \A a \in Adapters : ScopesIn(a, {local.dropped, local.old})'
      BY <1>1, <3>1 DEF Untouched, ScopesIn
    <3> QED BY <1>4, <3>2, <3>3, <3>4 DEF Uninterrupted
  <2> QED BY <1>1, <1>3, <2>1, <2>2 DEF PinInv, UninterruptedBumpIsValid
<1>5. ASSUME NEW i \in left, gomod' = [gomod EXCEPT ![GoModules[i]] = local.new],
             left' = left \ {i}, UNCHANGED pc
      PROVE  PinInv'
  <2>1. PinsAscend' /\ Remembered' /\ LoopOK'
    BY <1>1, <1>5 DEF PinInv, PinsAscend, Remembered, LoopOK
  <2>2. ASSUME ~stopped PROVE Uninterrupted'
    <3>1. /\ ComposesAt(local.new) /\ Untouched
          /\ \A j \in DOMAIN GoModules \ left : gomod[GoModules[j]] = local.new
      BY <1>1, <2>2 DEF PinInv, Uninterrupted
    <3>2. \A j \in DOMAIN GoModules : GoModules[j] \in DOMAIN gomod
      <4>1. DOMAIN gomod = Range(GoModules)
        BY DEF PinInv, BumpTypeOK
      <4> QED BY <4>1 DEF Range
    <3>3. \A j \in DOMAIN GoModules \ left' : gomod'[GoModules[j]] = local.new
      BY <1>1, <1>5, <3>1, <3>2
    <3>4. ComposesAt(local.new)'
      BY <1>1, <3>1 DEF ComposesAt
    <3> QED BY <1>1, <1>2, <1>5, <3>1, <3>3, <3>4 DEF Uninterrupted
  <2> QED BY <1>1, <1>3, <2>1, <2>2 DEF PinInv, UninterruptedBumpIsValid
<1> QED BY <1>4, <1>5 DEF UpdateModule

\* The dropped tag leaves one ledger after another.
LEMMA DropEntriesInv == ASSUME PinInv, BumpTypeOK', DropEntries PROVE PinInv'
<1>1. /\ pc = "ledgers" /\ left \subseteq Adapters
      /\ UNCHANGED <<pins, compose, gomod, golden, local, by, verdict, stopped, bumps>>
  BY DEF DropEntries, PinInv, LoopOK
<1>2. verdict # "rejected" /\ pins.current = local.new /\ pins.previous = local.old
  BY <1>1 DEF PinInv, BumpTypeOK, Remembered
<1>3. CASE left = {} /\ pc' = "generate" /\ UNCHANGED <<ledger, left>>
  <2>1. PinsAscend' /\ Remembered' /\ LoopOK'
    BY <1>1, <1>3 DEF PinInv, PinsAscend, Remembered, LoopOK
  <2>2. ASSUME ~stopped PROVE Uninterrupted'
    <3>1. /\ ComposesAt(local.new) /\ ModulesAt(local.new)
          /\ \A a \in Adapters : ScopesIn(a, {local.new, local.old})
      BY <1>1, <1>3, <2>2 DEF PinInv, Uninterrupted
    <3>2. ComposesAt(pins.current)' /\ RequiredAt(pins.current)'
      BY <1>1, <1>2, <3>1 DEF ComposesAt, ModulesAt, RequiredAt
    <3>3. \A a \in Adapters : ScopesIn(a, Pinned)'
      BY <1>1, <1>2, <1>3, <3>1 DEF ScopesIn, Pinned
    <3> QED BY <1>3, <3>2, <3>3 DEF Uninterrupted
  <2> QED BY <1>1, <1>2, <2>1, <2>2 DEF PinInv, UninterruptedBumpIsValid
<1>4. ASSUME NEW a \in left, ledger' = [ledger EXCEPT ![a] = WithoutTag(@, local.dropped)],
             left' = left \ {a}, UNCHANGED pc
      PROVE  PinInv'
  <2>1. PinsAscend' /\ Remembered' /\ LoopOK'
    BY <1>1, <1>4 DEF PinInv, PinsAscend, Remembered, LoopOK
  <2>2. ASSUME ~stopped PROVE Uninterrupted'
    <3>1. /\ ComposesAt(local.new) /\ ModulesAt(local.new)
          /\ \A b \in left : ScopesIn(b, {local.dropped, local.old})
          /\ \A b \in Adapters \ left : ScopesIn(b, {local.new, local.old})
      BY <1>1, <2>2 DEF PinInv, Uninterrupted
    <3>2. ComposesAt(local.new)' /\ ModulesAt(local.new)'
      BY <1>1, <3>1 DEF ComposesAt, ModulesAt
    <3>3. \A b \in Adapters : ledger'[b] = IF b = a THEN WithoutTag(ledger[a], local.dropped)
                                             ELSE ledger[b]
      BY <1>1, <1>4 DEF PinInv, BumpTypeOK
    <3>4. \A s \in WithoutTag(ledger[a], local.dropped) : s \subseteq {local.old}
      <4>1. \A s \in ledger[a] : s \subseteq {local.dropped} \union {local.old}
        BY <3>1 DEF ScopesIn
      <4> QED BY <4>1, WithoutTagScopes
    <3>5. \A b \in left' : ScopesIn(b, {local.dropped, local.old})'
      BY <1>1, <1>4, <3>1, <3>3 DEF ScopesIn
    <3>6. \A b \in Adapters \ left' : ScopesIn(b, {local.new, local.old})'
      BY <1>1, <1>4, <3>1, <3>3, <3>4 DEF ScopesIn
    <3> QED BY <1>1, <1>4, <3>2, <3>5, <3>6 DEF Uninterrupted
  <2> QED BY <1>1, <1>2, <2>1, <2>2 DEF PinInv, UninterruptedBumpIsValid
<1> QED BY <1>3, <1>4 DEF DropEntries

\* With the goldens of both pins there, nothing is left to reject.
LEMMA GenerateInv == ASSUME PinInv, BumpTypeOK', Generate PROVE PinInv'
<1>1. /\ pc = "generate" /\ golden' = Pinned
      /\ UNCHANGED <<pins, compose, gomod, ledger, local, left, by, bumps>>
      /\ \/ pc' = "validate" /\ UNCHANGED <<verdict, stopped>>
         \/ pc' = "idle" /\ verdict' = "stopped" /\ stopped' = TRUE
  BY DEF Generate
<1>2. verdict' # "rejected"
  BY <1>1 DEF PinInv, BumpTypeOK
<1>3. PinsAscend' /\ Remembered' /\ LoopOK'
  BY <1>1 DEF PinInv, PinsAscend, Remembered, LoopOK
<1>4. ASSUME ~stopped' PROVE Uninterrupted'
  <2>1. /\ ComposesAt(pins.current) /\ RequiredAt(pins.current)
        /\ \A a \in Adapters : ScopesIn(a, Pinned)
    BY <1>1, <1>4 DEF PinInv, Uninterrupted
  <2>2. Valid'
    BY <1>1, <2>1 DEF Valid, ComposesAt, RequiredAt, ScopesIn, Pinned
  <2> QED BY <1>1, <1>4, <2>2 DEF Uninterrupted
<1> QED BY <1>2, <1>3, <1>4 DEF PinInv, UninterruptedBumpIsValid

\* Only what an interruption left can be rejected.
LEMMA ValidateInv == ASSUME PinInv, BumpTypeOK', Validate PROVE PinInv'
<1>1. /\ pc = "validate" /\ pc' = "idle" /\ UNCHANGED <<repository, local, left, by, bumps>>
      /\ verdict' = IF Valid THEN "accepted" ELSE "rejected"
      /\ stopped' = (stopped /\ ~Valid)
  BY DEF Validate
<1>2. Valid' <=> Valid
  BY <1>1 DEF Valid, Pinned, repository
<1>3. PinsAscend' /\ Remembered' /\ LoopOK'
  BY <1>1 DEF PinInv, PinsAscend, Remembered, LoopOK, repository
<1>4. ~stopped => Valid
  BY <1>1 DEF PinInv, Uninterrupted
<1>5. ~stopped' => Uninterrupted'
  BY <1>1, <1>2, <1>4 DEF Uninterrupted
<1>6. UninterruptedBumpIsValid'
  BY <1>1, <1>4 DEF UninterruptedBumpIsValid, PinInv, BumpTypeOK
<1> QED BY <1>3, <1>5, <1>6 DEF PinInv

LEMMA StopInv == ASSUME PinInv, BumpTypeOK', Stop PROVE PinInv'
<1>1. /\ pc' = "idle" /\ verdict' = "stopped" /\ stopped' = TRUE
      /\ UNCHANGED <<pins, compose, gomod, ledger, local, by, bumps>>
  BY DEF Stop
<1> QED BY <1>1 DEF PinInv, PinsAscend, Remembered, LoopOK, UninterruptedBumpIsValid

LEMMA FinishInv == ASSUME PinInv, BumpTypeOK', Finish PROVE PinInv'
<1>1. /\ pc = "idle" /\ pc' = "generate" /\ verdict' = "running"
      /\ UNCHANGED <<repository, local, left, stopped, bumps>>
  BY DEF Finish
<1>2. PinsAscend' /\ Remembered' /\ LoopOK'
  BY <1>1 DEF PinInv, PinsAscend, Remembered, LoopOK, repository
<1>3. ASSUME ~stopped PROVE Uninterrupted'
  <2>1. Valid
    BY <1>1, <1>3 DEF PinInv, Uninterrupted
  <2>2. (/\ ComposesAt(pins.current) /\ RequiredAt(pins.current)
         /\ \A a \in Adapters : ScopesIn(a, Pinned))'
    BY <1>1, <2>1 DEF Valid, ComposesAt, RequiredAt, ScopesIn, Pinned, repository
  <2> QED BY <1>1, <2>2 DEF Uninterrupted
<1> QED BY <1>1, <1>2, <1>3 DEF PinInv, UninterruptedBumpIsValid

\* An entry for the current pin is one validate-corpus.sh accepts.
LEMMA AddEntryInv == ASSUME PinInv, BumpTypeOK', AddEntry PROVE PinInv'
<1>1. PICK a \in Adapters : ledger' = [ledger EXCEPT ![a] = @ \union {{pins.current}}]
  BY DEF AddEntry
<1>2. /\ pc = "idle"
      /\ UNCHANGED <<pins, compose, gomod, golden, pc, local, left, by, verdict, stopped, bumps>>
  BY DEF AddEntry
<1>3. PinsAscend' /\ Remembered' /\ LoopOK' /\ UninterruptedBumpIsValid'
  BY <1>2 DEF PinInv, PinsAscend, Remembered, LoopOK, UninterruptedBumpIsValid
<1>4. ASSUME ~stopped PROVE Uninterrupted'
  <2>1. Valid
    BY <1>2, <1>4 DEF PinInv, Uninterrupted
  <2>2. \A b \in Adapters : ledger'[b] = IF b = a THEN ledger[a] \union {{pins.current}} ELSE ledger[b]
    BY <1>1 DEF PinInv, BumpTypeOK
  <2>3. \A b \in Adapters : \A s \in ledger'[b] : s \subseteq Pinned
    BY <2>1, <2>2 DEF Valid, Pinned
  <2>4. Valid'
    BY <1>2, <2>1, <2>3 DEF Valid, Pinned
  <2> QED BY <1>2, <2>4 DEF Uninterrupted
<1> QED BY <1>2, <1>3, <1>4 DEF PinInv

LEMMA BumpInvHolds == BumpSpec => []PinInv
<1>1. BumpTypeOK /\ BumpInit => PinInv
  BY BumpInitInv
<1>2. ASSUME PinInv, BumpTypeOK', UNCHANGED bumpVars PROVE PinInv'
  <2>1. Valid' <=> Valid
    BY <1>2 DEF bumpVars, Valid, Pinned
  <2>2. Uninterrupted' <=> Uninterrupted
    BY <1>2, <2>1
       DEF bumpVars, Uninterrupted, Untouched, ScopesIn, ComposesAt, ModulesAt, RequiredAt, Pinned
  <2> QED
    BY <1>2, <2>2 DEF bumpVars, PinInv, PinsAscend, Remembered, LoopOK, UninterruptedBumpIsValid
<1>3. PinInv /\ BumpTypeOK' /\ [BumpNext]_bumpVars => PinInv'
  BY <1>2, BumpInv, WriteVersionsInv, RestateInv, UpdateModuleInv, DropEntriesInv, GenerateInv,
     ValidateInv, StopInv, FinishInv, AddEntryInv DEF BumpNext
<1> QED BY <1>1, <1>3, BumpTypeCorrect, PTL DEF BumpSpec

-----------------------------------------------------------------------------
(* Coverage *)

Covered(scopes, t) == \E s \in scopes : s = {} \/ t \in s

\* The tag that leaves the ledgers is no longer pinned.
LEMMA DropEntriesKeepsCoverage ==
  ASSUME PinInv, DropEntries, NEW a \in Adapters, NEW t \in Pinned, Covered(ledger[a], t)
  PROVE  Covered(ledger'[a], t)
<1>1. /\ pins.current = local.new /\ pins.previous = local.old /\ local.dropped < local.old
      /\ pins.previous < pins.current
  BY DEF DropEntries, PinInv, Remembered, PinsAscend
<1>2. t # local.dropped
  BY <1>1, TagsAreIntegers DEF Pinned, PinInv
<1>3. Covered(WithoutTag(ledger[a], local.dropped), t)
  BY <1>2, WithoutTagCovers DEF Covered
<1>4. ledger'[a] \in {ledger[a], WithoutTag(ledger[a], local.dropped)}
  BY DEF DropEntries, PinInv, BumpTypeOK
<1> QED BY <1>3, <1>4

LEMMA CoverageStep ==
  ASSUME PinInv, [BumpNext]_bumpVars, NEW a \in Adapters, NEW t \in Pinned, Covered(ledger[a], t)
  PROVE  Covered(ledger'[a], t)
<1>1. CASE UNCHANGED ledger
  BY <1>1
<1>2. CASE DropEntries
  BY <1>2, DropEntriesKeepsCoverage
<1>3. CASE AddEntry
  <2>1. ledger[a] \subseteq ledger'[a]
    BY <1>3 DEF AddEntry, PinInv, BumpTypeOK
  <2> QED BY <2>1 DEF Covered
<1> QED
  BY <1>1, <1>2, <1>3
     DEF BumpNext, Bump, WriteVersions, Restate, UpdateModule, Generate, Validate, Stop, Finish,
         repository, bumpVars

-----------------------------------------------------------------------------
(* Theorems *)

\* Whatever stopped, the pins are two releases in order.
THEOREM PinsStayInOrder == BumpSpec => []PinsAscend
<1>1. PinInv => PinsAscend
  BY DEF PinInv
<1> QED BY <1>1, BumpInvHolds, PTL

\* A bump that nobody interrupted, of a repository that was valid, leaves nothing to reject.
THEOREM OnlyInterruptionIsRejected == BumpSpec => []UninterruptedBumpIsValid
<1>1. PinInv => UninterruptedBumpIsValid
  BY DEF PinInv
<1> QED BY <1>1, BumpInvHolds, PTL

\* No step of any command loses what a ledger says of a PDP that is still tested.
THEOREM CoverageIsKept == BumpSpec => CoverageKept
<1>1. PinInv /\ [BumpNext]_bumpVars =>
        [\A a \in Adapters, t \in Pinned :
           t \in Pinned' /\ (\E s \in ledger[a] : s = {} \/ t \in s) =>
             \E s \in ledger'[a] : s = {} \/ t \in s]_bumpVars
  BY CoverageStep DEF Covered
<1> QED BY <1>1, BumpInvHolds, PTL DEF BumpSpec, CoverageKept
=============================================================================
