------------------------ MODULE PackageEngineProofs ------------------------
(***************************************************************************)
(* For every set of packages and every release of them: a plugin of        *)
(* PackageEngine finds what it is bound to published, publications are     *)
(* committed whole, what validation accepted fails for no reason that      *)
(* validation could have seen, and resolve's loop is a planner.            *)
(***************************************************************************)
EXTENDS PackageEngine, NumberLemmas

\* What the first plugin of a package needs to be there: it is not part of a
\* set of plugins each of which waits for another.
Acyclic(p) ==
    \A S \in SUBSET Plugins(p) : S # {} => \E i \in S : Dependencies(p, i) \cap S = {}

Working == {"generate", "finalize", "post", "overlay", "append"}

EngineTypes ==
    /\ release \in Release /\ native \in BOOLEAN
    /\ pass \in {"validate", "generate"}
    /\ at \in 1..Len(release)
    /\ stage \in Working \cup {"check", "order", "done", "failed", "cycle"}
    /\ order \in Seq(Plugins(k))
    /\ ran \subseteq Plugins(k)
    /\ current \in Plugins(k) \cup {None}
    /\ files \subseteq Rel

\* The plan lists plugins once, each after its dependencies.
PlanSound ==
    /\ \A m, n \in DOMAIN order : order[m] = order[n] => m = n
    /\ \A n \in DOMAIN order :
          Dependencies(k, order[n]) \subseteq {order[m] : m \in 1..(n - 1)}

\* How far a package has come.
StagesAgree ==
    /\ stage = "check" => order = <<>>
    /\ stage \in {"check", "order"} =>
          ran = {} /\ current = None /\ contracts = {} /\ files = {}
    /\ stage \in Working => pass = "generate" /\ Placed = Plugins(k)
    /\ stage \in Working \cup {"order"} => Resolvable(k)
    /\ stage \in Working \ {"generate"} => InPhase(k, "generate") \subseteq ran
    /\ stage = "order" => ~Skipped /\ (pass = "validate" => DirFree)
    /\ stage = "done" => current = None

\* A running plugin's dependencies have run, and so have published.
RunsAfter ==
    current # None =>
       /\ Resolvable(k)
       /\ current \notin ran
       /\ Dependencies(k, current) \subseteq ran
       /\ pending \subseteq Provides(k, current)

Accepted(j) ==
    ~(native /\ ~release[j].native) => Resolvable(release[j]) /\ Acyclic(release[j])
Apart(j) == \A i \in 1..(j - 1) : <<release[i].dir, release[j].dir>> \notin Overlap

\* What validation has gone past can be planned, and lies apart.
Validated ==
    \A j \in 1..Len(release) :
       pass = "generate" \/ j < at => Accepted(j) /\ Apart(j)

\* The release holds files of the packages before this one only.
Accumulated ==
    /\ pass = "validate" => output = {}
    /\ stage # "done" =>
          output \subseteq {Join(release[j].dir, p) : j \in 1..(at - 1), p \in Rel}

EngineInv ==
    /\ EngineTypes /\ PlanSound /\ StagesAgree
    /\ CommittedWhole /\ RunsAfter /\ Validated /\ Accumulated

-----------------------------------------------------------------------------
(* Packages and plans.                                                      *)

LEMMA PackageFacts ==
    ASSUME NEW p \in Package
    PROVE  /\ Plugins(p) \subseteq Nat /\ None \notin Plugins(p)
           /\ \A i \in Plugins(p) :
                 /\ Provides(p, i) \subseteq Contract
                 /\ Requires(p, i) \subseteq Requirement
                 /\ Dependencies(p, i) \subseteq Plugins(p)
           /\ \A q : Selected(p, q) \subseteq Plugins(p)
<1>1. p.phase \in Seq(Phase) /\ DOMAIN p.phase = 1..Len(p.phase)
  BY GraphAssumption
<1>2. Plugins(p) \subseteq Nat /\ None \notin Plugins(p)
  BY <1>1, ReleaseAssumption DEF Plugins
<1>3. \A q : Selected(p, q) \subseteq Plugins(p)
  BY DEF Selected, Candidates
<1>4. ASSUME NEW i \in Plugins(p)
      PROVE  /\ Provides(p, i) \subseteq Contract
             /\ Requires(p, i) \subseteq Requirement
  <2>1. p.provides[i] \in Seq(Contract) /\ p.requires[i] \in Seq(Requirement)
    BY GraphAssumption DEF Plugins
  <2> QED
    BY <2>1 DEF Provides, Requires, Elements
<1>5. ASSUME NEW i \in Plugins(p) PROVE Dependencies(p, i) \subseteq Plugins(p)
  BY <1>3 DEF Dependencies, Providers, InPhase
<1> QED
  BY <1>2, <1>3, <1>4, <1>5

LEMMA ThisPackage ==
    ASSUME EngineTypes
    PROVE  /\ release \in Seq(Package) /\ Len(release) \in Nat /\ at \in Nat
           /\ k \in Package
<1>1. release \in Seq(Package) /\ at \in 1..Len(release)
  BY ReleaseAssumption DEF EngineTypes
<1> QED
  BY <1>1 DEF k

\* A plan of all plugins shows that no set of them waits for itself: the first
\* of the set in the plan does not.
LEMMA PlannedIsAcyclic ==
    ASSUME EngineTypes, PlanSound, Placed = Plugins(k)
    PROVE  Acyclic(k)
<1> SUFFICES ASSUME NEW S \in SUBSET Plugins(k), S # {}
             PROVE  \E i \in S : Dependencies(k, i) \cap S = {}
  BY DEF Acyclic
<1> DEFINE Places == {n \in DOMAIN order : order[n] \in S}
<1>1. DOMAIN order = 1..Len(order) /\ Len(order) \in Nat
  BY DEF EngineTypes
<1>2. Places \in SUBSET Nat /\ Places # {}
  BY <1>1 DEF Placed, Elements
<1>3. PICK n \in Places : \A m \in Places : n <= m
  <2> HIDE DEF Places
  <2> QED
    BY <1>2, LeastNumber
<1>4. \A m \in 1..(n - 1) : m \in DOMAIN order /\ m \notin Places
  BY <1>1, <1>3
<1>5. Dependencies(k, order[n]) \cap S = {}
  BY <1>3, <1>4 DEF PlanSound
<1> QED
  BY <1>5

\* If nothing is ready and plugins are left, these wait for each other.
LEMMA StuckIsCyclic ==
    ASSUME EngineTypes, \A i \in Plugins(k) : ~Ready(i), NEW i \in Plugins(k) \ Placed
    PROVE  Dependencies(k, i) \cap (Plugins(k) \ Placed) # {}
BY ThisPackage, PackageFacts DEF Ready

-----------------------------------------------------------------------------
(* Steps.                                                                   *)

\* The next package is met as it was left by validation.
LEMMA AdvanceKeeps ==
    ASSUME EngineInv, Advance, UNCHANGED <<release, native>>,
           Accepted(at), Apart(at),
           pass = "validate" => output' = output,
           output' \subseteq {Join(release[j].dir, p) : j \in 1..at, p \in Rel}
    PROVE  EngineInv'
<1> USE DEF EngineInv
<1>1. /\ order' = <<>> /\ ran' = {} /\ current' = None /\ pending' = {}
      /\ contracts' = {} /\ files' = {}
      /\ stage' \in {"check", "done"} /\ at' \in 1..Len(release)
      /\ at \in Nat /\ Len(release) \in Nat
  BY ThisPackage DEF Advance, EngineTypes
<1>2. EngineTypes'
  <2>1. pass' \in {"validate", "generate"}
    BY DEF Advance, EngineTypes
  <2> QED
    BY <1>1, <2>1 DEF EngineTypes
<1>3. PlanSound'
  BY <1>1 DEF PlanSound
<1>4. StagesAgree' /\ CommittedWhole' /\ RunsAfter'
  BY <1>1 DEF StagesAgree, CommittedWhole, RunsAfter, Working
<1>5. Validated'
  <2> SUFFICES ASSUME NEW j \in 1..Len(release), pass' = "generate" \/ j < at'
               PROVE  Accepted(j) /\ Apart(j)
    BY DEF Validated, Accepted, Apart
  <2>1. pass = "generate" \/ j < at \/ j = at
    BY <1>1 DEF Advance, EngineTypes
  <2> QED
    BY <2>1 DEF Validated
<1>6. Accumulated'
  <2>1. CASE pass = "validate"
    <3>1. output' = {}
      BY <2>1 DEF Accumulated
    <3> QED
      BY <3>1 DEF Accumulated
  <2>2. CASE pass = "generate"
    <3>1. pass' = "generate" /\ (stage' # "done" => at' = at + 1)
      BY <2>2 DEF Advance
    <3>2. ASSUME stage' # "done"
          PROVE  output' \subseteq {Join(release[j].dir, p) : j \in 1..(at' - 1), p \in Rel}
      <4>1. \A j \in 1..at : j \in 1..(at' - 1)
        BY <1>1, <3>1, <3>2
      <4> QED
        BY <4>1
    <3> QED
      BY <3>1, <3>2 DEF Accumulated
  <2> QED
    BY <2>1, <2>2 DEF EngineTypes
<1> QED
  BY <1>2, <1>3, <1>4, <1>5, <1>6

\* Where only the stage moves on, the rest is what it was.
LEMMA StageKeeps ==
    ASSUME EngineInv, stage \notin {"done"},
           UNCHANGED <<release, native, pass, at, plan, run, output>>
    PROVE  /\ k' = k
           /\ PlanSound' /\ CommittedWhole' /\ RunsAfter' /\ Validated'
           /\ (stage' # "done" => Accumulated')
           /\ (stage' \in Working \cup {"order", "failed", "cycle"} => EngineTypes')
<1> USE DEF EngineInv, plan, run
<1>1. k' = k
  BY DEF k
<1>2. PlanSound' /\ CommittedWhole' /\ RunsAfter' /\ Validated'
  BY <1>1 DEF PlanSound, CommittedWhole, RunsAfter, Validated, Accepted, Apart
<1>3. stage' # "done" => Accumulated'
  BY DEF Accumulated
<1>4. stage' \in Working \cup {"order", "failed", "cycle"} => EngineTypes'
  BY <1>1 DEF EngineTypes
<1> QED
  BY <1>1, <1>2, <1>3, <1>4

LEMMA StopKeeps ==
    ASSUME EngineInv, stage # "done", NEW how \in {"failed", "cycle"}, Stop(how)
    PROVE  EngineInv'
<1>1. StagesAgree'
  BY DEF Stop, StagesAgree, Working
<1> QED
  BY <1>1, StageKeeps DEF Stop, EngineInv

LEMMA PlanKeeps ==
    ASSUME EngineInv, PlanStep
    PROVE  EngineInv'
<1> USE DEF EngineInv
<1>1. CASE Skip
  <2>1. stage = "check" /\ Skipped /\ Admitted /\ Advance /\ UNCHANGED <<release, native, output>>
    BY <1>1 DEF Skip
  <2>2. Accepted(at)
    BY <2>1 DEF Skipped, Accepted, k
  <2>3. Apart(at)
    BY <2>1 DEF Admitted, DirFree, Apart, k, EngineTypes, Validated
  <2>4. output' \subseteq {Join(release[j].dir, p) : j \in 1..at, p \in Rel}
    <3>1. \A j \in 1..(at - 1) : j \in 1..at
      BY ThisPackage
    <3> QED
      BY <2>1, <3>1 DEF Accumulated
  <2> QED
    BY <2>1, <2>2, <2>3, <2>4, AdvanceKeeps
<1>2. CASE Check
  <2>1. stage = "check" /\ stage' = "order" /\ ~Skipped /\ Admitted
        /\ UNCHANGED <<release, native, pass, at, plan, run, output>>
    BY <1>2 DEF Check
  <2>2. StagesAgree'
    BY <2>1 DEF StagesAgree, Admitted, DirFree, Skipped, Working, plan, run, k
  <2> QED
    BY <2>1, <2>2, StageKeeps
<1>3. CASE Reject
  BY <1>3, StopKeeps DEF Reject
<1>4. ASSUME NEW i \in Plugins(k), Place(i) PROVE EngineInv'
  <2>1. /\ stage = "order" /\ order' = Append(order, i)
        /\ UNCHANGED <<release, native, pass, at, stage, ran, run, output>>
        /\ i \notin Placed /\ Dependencies(k, i) \subseteq Placed
    BY <1>4 DEF Place, Ready
  <2>2. /\ k' = k /\ order \in Seq(Plugins(k)) /\ Len(order) \in Nat
        /\ DOMAIN order = 1..Len(order) /\ DOMAIN order' = 1..(Len(order) + 1)
        /\ \A n \in 1..Len(order) : order'[n] = order[n]
        /\ order'[Len(order) + 1] = i
    BY <2>1 DEF k, EngineTypes
  <2>3. EngineTypes'
    BY <2>1, <2>2 DEF EngineTypes, run
  <2>4. PlanSound'
    <3>1. \A n \in 1..Len(order) : order[n] # i
      BY <2>1, <2>2 DEF Placed, Elements
    <3>2. ASSUME NEW m \in DOMAIN order', NEW n \in DOMAIN order', order'[m] = order'[n]
          PROVE  m = n
      BY <2>2, <3>1, <3>2 DEF PlanSound
    <3>3. ASSUME NEW n \in DOMAIN order'
          PROVE  Dependencies(k, order'[n]) \subseteq {order'[m] : m \in 1..(n - 1)}
      <4>1. CASE n = Len(order) + 1
        <5>1. Placed = {order'[m] : m \in 1..(n - 1)}
          BY <2>2, <4>1 DEF Placed, Elements
        <5> QED
          BY <2>1, <2>2, <4>1, <5>1
      <4>2. CASE n \in 1..Len(order)
        <5>1. {order[m] : m \in 1..(n - 1)} = {order'[m] : m \in 1..(n - 1)}
          BY <2>2, <4>2
        <5> QED
          BY <2>2, <4>2, <5>1 DEF PlanSound
      <4> QED
        BY <2>2, <4>1, <4>2
    <3> QED
      BY <2>2, <3>2, <3>3 DEF PlanSound
  <2>5. StagesAgree' /\ CommittedWhole' /\ RunsAfter' /\ Validated' /\ Accumulated'
    BY <2>1, <2>2 DEF StagesAgree, CommittedWhole, RunsAfter, Validated, Accumulated,
       Working, run, DirFree, Skipped, Accepted, Apart
  <2> QED
    BY <2>3, <2>4, <2>5
<1>5. CASE Cycle
  BY <1>5, StopKeeps DEF Cycle
<1>6. CASE Planned
  <2>1. stage = "order" /\ Placed = Plugins(k) /\ UNCHANGED <<release, native, output>>
    BY <1>6 DEF Planned
  <2>2. CASE pass = "validate"
    <3>1. Accepted(at)
      BY <2>1, PlannedIsAcyclic DEF StagesAgree, Accepted, k
    <3>2. Apart(at)
      BY <2>1, <2>2 DEF StagesAgree, DirFree, Apart, k
    <3>3. output' = {}
      BY <2>1, <2>2 DEF Accumulated
    <3> QED
      BY <1>6, <2>1, <2>2, <3>1, <3>2, <3>3, AdvanceKeeps DEF Planned
  <2>3. CASE pass = "generate"
    <3>1. stage' = "generate" /\ UNCHANGED <<release, native, pass, at, plan, run, output>>
      BY <1>6, <2>3 DEF Planned
    <3>2. StagesAgree'
      BY <2>1, <2>3, <3>1 DEF StagesAgree, Working, plan, run, Placed, k
    <3>3. stage' \in Working /\ stage # "done" /\ stage' # "done"
      BY <2>1, <3>1 DEF Working
    <3> QED
      BY <3>1, <3>2, <3>3, StageKeeps
  <2> QED
    BY <2>2, <2>3 DEF EngineTypes
<1> QED
  BY <1>1, <1>2, <1>3, <1>4, <1>5, <1>6 DEF PlanStep

\* Whatever the plan puts before the next plugin of a phase has run, and the
\* plan puts its dependencies there.
LEMMA DependenciesRan ==
    ASSUME EngineInv, stage \in Phase, NEW n \in DOMAIN order, NextUp(n)
    PROVE  Dependencies(k, order[n]) \subseteq ran
<1> USE DEF EngineInv
<1> SUFFICES ASSUME NEW d \in Dependencies(k, order[n]) PROVE d \in ran
  OBVIOUS
<1>1. order[n] \in Plugins(k) /\ k.phase[order[n]] = stage
  BY DEF NextUp, InPhase
<1>2. d \in Plugins(k) /\ d \notin InPhase(k, stage) \ ran
  BY <1>1, ThisPackage, PackageFacts DEF PlanSound, NextUp
<1>3. CASE stage = "generate"
  <2>1. d \in Providers(k, order[n])
    BY <1>1, <1>3 DEF Dependencies
  <2>2. d \in InPhase(k, "generate")
    BY <1>1, <1>3, <2>1 DEF Providers, StagesAgree, Working, Resolvable, PhasesAgree
  <2> QED
    BY <1>2, <1>3, <2>2
<1>4. CASE stage = "post"
  <2>1. InPhase(k, "generate") \subseteq ran
    BY <1>4 DEF StagesAgree, Working
  <2>2. k.phase[d] \in Phase
    BY <1>2, ThisPackage, GraphAssumption DEF Plugins
  <2> QED
    BY <1>2, <1>4, <2>1, <2>2 DEF Phase, InPhase
<1> QED
  BY <1>3, <1>4 DEF Phase

LEMMA StartKeeps ==
    ASSUME EngineInv, Start
    PROVE  EngineInv'
<1> USE DEF EngineInv
<1>1. PICK n \in DOMAIN order : NextUp(n) /\ current' = order[n]
  BY DEF Start
<1>2. /\ stage \in Phase /\ pending' = {}
      /\ UNCHANGED <<release, native, pass, at, stage, plan, contracts, files, output>>
  BY DEF Start, Idle
<1>3. current' \in Plugins(k) \ ran /\ Dependencies(k, current') \subseteq ran /\ k' = k
  BY <1>1, <1>2, DependenciesRan DEF NextUp, InPhase, k
<1>4. RunsAfter'
  BY <1>2, <1>3 DEF RunsAfter, StagesAgree, Working, Phase, plan
<1>5. EngineTypes' /\ PlanSound' /\ CommittedWhole'
  BY <1>2, <1>3 DEF EngineTypes, PlanSound, CommittedWhole, plan
<1>6. StagesAgree' /\ Validated' /\ Accumulated'
  BY <1>2, <1>3 DEF StagesAgree, Validated, Accumulated, Accepted, Apart, Working, Phase,
     plan, Placed, DirFree, Skipped
<1> QED
  BY <1>4, <1>5, <1>6

LEMMA ReturnKeeps ==
    ASSUME EngineInv, Return
    PROVE  EngineInv'
<1> USE DEF EngineInv
<1>1. /\ stage \in Phase /\ current # None /\ Provides(k, current) \subseteq pending
      /\ ran' = ran \cup {current}
      /\ contracts' = contracts \cup {<<current, c>> : c \in pending}
      /\ current' = None
      /\ UNCHANGED <<release, native, pass, at, stage, order, files, output>>
  BY DEF Return, Running, PublishedAll
<1>2. current \in Plugins(k) \ ran /\ k' = k /\ pending = Provides(k, current)
  BY <1>1 DEF RunsAfter, EngineTypes, k
<1>3. CommittedWhole'
  <2> SUFFICES ASSUME NEW i \in Plugins(k)
               PROVE  {c \in Contract : <<i, c>> \in contracts'} =
                         IF i \in ran' THEN Provides(k, i) ELSE {}
    BY <1>2 DEF CommittedWhole
  <2>1. {c \in Contract : <<i, c>> \in contracts} = IF i \in ran THEN Provides(k, i) ELSE {}
    BY DEF CommittedWhole
  <2>2. CASE i = current
    <3>1. Provides(k, i) \subseteq Contract
      BY ThisPackage, PackageFacts
    <3> QED
      BY <1>1, <1>2, <2>1, <2>2, <3>1
  <2>3. CASE i # current
    <3>1. \A c : <<i, c>> \in contracts' <=> <<i, c>> \in contracts
      BY <1>1, <2>3
    <3> QED
      BY <1>1, <2>1, <2>3, <3>1
  <2> QED
    BY <2>2, <2>3
<1>4. EngineTypes' /\ PlanSound' /\ RunsAfter'
  BY <1>1, <1>2 DEF EngineTypes, PlanSound, RunsAfter
<1>5. StagesAgree' /\ Validated' /\ Accumulated'
  BY <1>1, <1>2 DEF StagesAgree, Validated, Accumulated, Accepted, Apart, Working, Phase,
     Placed, DirFree, Skipped
<1> QED
  BY <1>3, <1>4, <1>5

LEMMA AppendKeeps ==
    ASSUME EngineInv, AppendTree
    PROVE  EngineInv'
<1> USE DEF EngineInv
<1>1. stage = "append" /\ pass = "generate"
  BY DEF AppendTree, StagesAgree, Working
<1>2. CASE Paths \cap output = {}
  <2>1. output' = output \cup Paths /\ Advance /\ UNCHANGED <<release, native>>
    BY <1>2 DEF AppendTree
  <2>2. Accepted(at) /\ Apart(at)
    BY <1>1 DEF Validated, EngineTypes
  <2>3. Paths \subseteq {Join(release[j].dir, p) : j \in 1..at, p \in Rel}
    <3>1. at \in 1..at
      BY DEF EngineTypes
    <3> QED
      BY <3>1 DEF Paths, k, EngineTypes
  <2>4. output \subseteq {Join(release[j].dir, p) : j \in 1..at, p \in Rel}
    <3>1. \A j \in 1..(at - 1) : j \in 1..at
      BY ThisPackage
    <3> QED
      BY <1>1, <3>1 DEF Accumulated
  <2> QED
    BY <1>1, <2>1, <2>2, <2>3, <2>4, AdvanceKeeps
<1>3. CASE Paths \cap output # {}
  BY <1>1, <1>3, StopKeeps DEF AppendTree
<1> QED
  BY <1>2, <1>3

LEMMA RunKeeps ==
    ASSUME EngineInv, RunStep
    PROVE  EngineInv'
<1> USE DEF EngineInv
<1>1. ASSUME NEW c \in Contract, Publish(c) PROVE EngineInv'
  <2>1. /\ current # None /\ c \in Provides(k, current)
        /\ pending' = pending \cup {c} /\ k' = k
        /\ UNCHANGED <<release, native, pass, at, stage, plan, current, contracts,
                       files, output>>
    BY <1>1 DEF Publish, Running, k
  <2>2. EngineTypes' /\ PlanSound' /\ CommittedWhole' /\ RunsAfter'
    BY <2>1 DEF EngineTypes, PlanSound, CommittedWhole, RunsAfter, plan
  <2>3. StagesAgree' /\ Validated' /\ Accumulated'
    BY <2>1 DEF StagesAgree, Validated, Accumulated, Accepted, Apart, plan, Placed, DirFree, Skipped
  <2> QED
    BY <2>2, <2>3
<1>2. ASSUME NEW p \in Rel, Emit(p) PROVE EngineInv'
  <2>1. /\ stage \in Working /\ files' = files \cup {p} /\ k' = k
        /\ UNCHANGED <<release, native, pass, at, stage, plan, current, pending,
                       contracts, output>>
    BY <1>2 DEF Emit, Running, k, Working, Phase
  <2>2. EngineTypes' /\ PlanSound' /\ CommittedWhole' /\ RunsAfter'
    BY <2>1 DEF EngineTypes, PlanSound, CommittedWhole, RunsAfter, plan
  <2>3. StagesAgree' /\ Validated' /\ Accumulated'
    BY <2>1 DEF StagesAgree, Validated, Accumulated, Accepted, Apart, plan, Placed,
       DirFree, Skipped, Working
  <2> QED
    BY <2>2, <2>3
<1>3. CASE Fail
  <2>1. stage # "done"
    BY <1>3 DEF Fail, MayFail, Running, Phase
  <2> QED
    BY <1>3, <2>1, StopKeeps DEF Fail
<1>4. CASE Generated \/ Finalize \/ PostRan \/ Overlay
  <2>1. /\ stage \in Working /\ stage' \in Working \ {"generate"}
        /\ UNCHANGED <<release, native, pass, at, plan, run, output>>
    BY <1>4 DEF Generated, Finalize, PostRan, Overlay, PhaseOver, Working
  <2>2. InPhase(k, "generate") \subseteq ran
    BY <1>4 DEF Generated, Finalize, PostRan, Overlay, PhaseOver, Ran, StagesAgree, Working
  <2>3. stage # "done" /\ stage' \notin {"done", "check", "order"}
    BY <2>1 DEF Working
  <2>4. StagesAgree'
    BY <2>1, <2>2, <2>3 DEF StagesAgree, plan, run, Placed, k
  <2> QED
    BY <2>1, <2>3, <2>4, StageKeeps
<1> QED
  BY <1>1, <1>2, <1>3, <1>4, StartKeeps, ReturnKeeps, AppendKeeps DEF RunStep

LEMMA InitKeeps == Init => EngineInv
<1> SUFFICES ASSUME Init PROVE EngineInv
  OBVIOUS
<1>1. release \in Seq(Package) /\ release # <<>> /\ at = 1
  BY ReleaseAssumption DEF Init
<1>2. at \in 1..Len(release)
  BY <1>1
<1> QED
  BY <1>1, <1>2 DEF Init, EngineInv, EngineTypes, PlanSound, StagesAgree, CommittedWhole,
     RunsAfter, Validated, Accumulated, Working

\* The order of resolve, the plugins that ran and what they published fit each
\* other, in every package and at every point of generation.
THEOREM EngineInvariant == Spec => []EngineInv
<1>1. ASSUME EngineInv, UNCHANGED vars PROVE EngineInv'
  <2>1. k' = k
    BY <1>1 DEF vars, k
  <2>2. EngineTypes' /\ PlanSound' /\ CommittedWhole' /\ RunsAfter'
    BY <1>1, <2>1 DEF vars, plan, run, EngineInv, EngineTypes, PlanSound, CommittedWhole,
       RunsAfter
  <2>3. StagesAgree' /\ Validated' /\ Accumulated'
    BY <1>1, <2>1 DEF vars, plan, run, EngineInv, StagesAgree, Validated, Accumulated,
       Accepted, Apart, Placed, DirFree, Skipped
  <2> QED
    BY <2>2, <2>3 DEF EngineInv
<1>2. EngineInv /\ [Next]_vars => EngineInv'
  BY <1>1, PlanKeeps, RunKeeps DEF Next
<1> QED
  BY <1>2, InitKeeps, PTL DEF Spec

\* A plugin never meets a provider that is still to run: what it is bound to
\* has been published before it starts, across the phases as well.
THEOREM ReadsAreServed == Spec => []ReadsServed
<1>1. ASSUME EngineInv PROVE ReadsServed
  <2> SUFFICES ASSUME current # None, NEW q \in Requires(k, current),
                      NEW p \in Selected(k, q)
               PROVE  <<p, q.contract>> \in contracts
    BY DEF ReadsServed
  <2>1. current \in Plugins(k) /\ Resolvable(k) /\ Dependencies(k, current) \subseteq ran
    BY <1>1 DEF EngineInv, EngineTypes, RunsAfter
  <2>2. q.contract \in Contract /\ p \in Plugins(k)
    BY <1>1, <2>1, ThisPackage, PackageFacts DEF EngineInv, Requirement
  <2>3. q.contract \in Provides(k, p)
    BY <2>1 DEF Resolvable, Bindable, Candidates
  <2>4. p \in ran
    BY <2>1 DEF Dependencies, Providers
  <2>5. q.contract \in {c \in Contract : <<p, c>> \in contracts}
    BY <1>1, <2>2, <2>3, <2>4 DEF EngineInv, CommittedWhole
  <2> QED
    BY <2>5
<1> QED
  BY <1>1, EngineInvariant, PTL

\* A plugin's publications become visible together when it returns, and none of
\* a plugin that is running or has failed.
THEOREM CommitsAreWhole == Spec => []CommittedWhole
<1>1. EngineInv => CommittedWhole
  BY DEF EngineInv
<1> QED
  BY <1>1, EngineInvariant, PTL

\* Neither resolve nor the append of a package's files fails once all packages
\* have been validated.
THEOREM ValidationIsSufficient == Spec => ValidationSuffices
<1>1. ASSUME EngineInv, [Next]_vars, pass = "generate", stage \in {"check", "order", "append"}
      PROVE  stage' \notin {"failed", "cycle"}
  <2> USE <1>1 DEF EngineInv
  <2>1. Accepted(at) /\ Apart(at)
    BY DEF Validated, EngineTypes
  <2>2. ~Reject
    BY <2>1 DEF Reject, Admitted, Skipped, Accepted, k
  <2>3. ~Cycle
    <3> SUFFICES ASSUME Cycle PROVE FALSE
      OBVIOUS
    <3> DEFINE Left == Plugins(k) \ Placed
    <3>1. Left # {} /\ \A i \in Left : Dependencies(k, i) \cap Left # {}
      <4>1. Placed \subseteq Plugins(k)
        BY DEF EngineTypes, Placed, Elements
      <4> QED
        BY <4>1, StuckIsCyclic DEF Cycle
    <3>2. Left \in SUBSET Plugins(k)
      OBVIOUS
    <3>3. Acyclic(k)
      BY <2>1 DEF Accepted, Cycle, StagesAgree, Skipped, k
    <3> QED
      BY <3>1, <3>2, <3>3 DEF Acyclic
  <2>4. ASSUME AppendTree PROVE stage' \notin {"failed", "cycle"}
    <3>1. Paths \cap output = {}
      <4> SUFFICES ASSUME NEW f \in Paths, f \in output PROVE FALSE
        OBVIOUS
      <4>1. PICK p \in Rel : f = Join(k.dir, p)
        BY DEF Paths, EngineTypes
      <4>2. PICK j \in 1..(at - 1), q \in Rel : f = Join(release[j].dir, q)
        BY <2>4 DEF Accumulated, AppendTree
      <4>3. release[j] \in Package /\ k \in Package
        BY <4>2, ThisPackage DEF EngineTypes
      <4>4. release[j].dir \in Dir /\ k.dir \in Dir
        BY <4>3, ReleaseAssumption
      <4>5. <<release[j].dir, k.dir>> \in Overlap
        BY <4>1, <4>2, <4>4, DirAssumption
      <4> QED
        BY <2>1, <4>2, <4>5 DEF Apart, k
    <3>2. Advance
      BY <2>4, <3>1 DEF AppendTree
    <3> QED
      BY <3>2 DEF Advance
  <2>5. ASSUME PlanStep PROVE stage' \notin {"failed", "cycle"}
    BY <2>2, <2>3, <2>5 DEF PlanStep, Skip, Check, Place, Planned, Advance
  <2>6. ASSUME RunStep PROVE stage' \notin {"failed", "cycle"}
    BY <2>4, <2>6 DEF RunStep, Start, Publish, Emit, Return, Fail, MayFail, Running, Phase,
       Generated, Finalize, PostRan, Overlay, PhaseOver
  <2> QED
    BY <2>5, <2>6 DEF Next, vars
<1>2. EngineInv /\ [Next]_vars =>
         [(pass = "generate" /\ stage \in {"check", "order", "append"})
             => stage' \notin {"failed", "cycle"}]_vars
  BY <1>1
<1> QED
  BY <1>2, EngineInvariant, PTL DEF Spec, ValidationSuffices

-----------------------------------------------------------------------------
(* Planning.                                                                *)

\* Where a package stands decides what has come of its planning.
LEMMA OutcomeIs ==
    /\ stage = "check" => PlanOutcome = "idle"
    /\ stage = "order" => PlanOutcome = "planning"
    /\ stage = "cycle" => PlanOutcome = "cycle"
    /\ stage \in {"done", "failed"} /\ order = <<>> => PlanOutcome = "idle"
    /\ stage \in {"done", "failed"} /\ order # <<>> => PlanOutcome = "ordered"
    /\ stage \in Working => PlanOutcome = "ordered"
BY DEF PlanOutcome, Working

LEMMA OutcomeIsThen ==
    /\ stage' = "check" => PlanOutcome' = "idle"
    /\ stage' = "order" => PlanOutcome' = "planning"
    /\ stage' = "cycle" => PlanOutcome' = "cycle"
    /\ stage' \in {"done", "failed"} /\ order' = <<>> => PlanOutcome' = "idle"
    /\ stage' \in {"done", "failed"} /\ order' # <<>> => PlanOutcome' = "ordered"
    /\ stage' \in Working => PlanOutcome' = "ordered"
BY DEF PlanOutcome, Working

LEMMA PlanStepIsPlanners ==
    ASSUME EngineInv, PlanStep
    PROVE  [Planner!Next]_Planner!vars
<1> USE OutcomeIs, OutcomeIsThen DEF Planner!Next, Planner!vars
<1>1. CASE Skip
  <2>1. stage = "check" /\ stage' \in {"check", "done"} /\ order' = <<>>
    BY <1>1 DEF Skip, Advance, EngineInv, StagesAgree, Working
  <2>2. Planner!Discard
    BY <2>1 DEF Planner!Discard
  <2> QED
    BY <2>2
<1>2. CASE Check
  <2>1. stage = "check" /\ stage' = "order" /\ order' = order /\ PlanGraph' = PlanGraph
    BY <1>2 DEF Check, plan, PlanGraph, k
  <2>2. Planner!Begin
    BY <2>1 DEF Planner!Begin
  <2> QED
    BY <2>2
<1>3. CASE Reject
  <2>1. /\ stage = "check" /\ stage' = "failed" /\ order = <<>>
        /\ order' = order /\ PlanGraph' = PlanGraph
    BY <1>3 DEF Reject, Stop, plan, PlanGraph, k, EngineInv, StagesAgree
  <2> QED
    BY <2>1
<1>4. ASSUME NEW i \in Plugins(k), Place(i) PROVE [Planner!Next]_Planner!vars
  <2>1. /\ stage = "order" /\ stage' = stage /\ order' = Append(order, i)
        /\ PlanGraph' = PlanGraph /\ i \in DOMAIN PlanGraph
        /\ PlanGraph[i] = Dependencies(k, i)
    BY <1>4 DEF Place, PlanGraph, k
  <2>2. i \notin Planner!Placed /\ PlanGraph[i] \subseteq Planner!Placed
    BY <1>4, <2>1 DEF Place, Ready, Placed, Elements, Planner!Placed
  <2>3. Planner!Place(i)
    BY <2>1, <2>2 DEF Planner!Place
  <2> QED
    BY <2>1, <2>3
<1>5. CASE Cycle
  <2> DEFINE Left == Plugins(k) \ Placed
  <2>1. /\ stage = "order" /\ stage' = "cycle" /\ order' = order /\ PlanGraph' = PlanGraph
        /\ \A i \in Plugins(k) : ~Ready(i)
    BY <1>5 DEF Cycle, Stop, plan, PlanGraph, k
  <2>2. Left # {}
    BY <1>5 DEF Cycle, EngineInv, EngineTypes, Placed, Elements
  <2>3. Left \in SUBSET DOMAIN PlanGraph /\ \A i \in Left : PlanGraph[i] \cap Left # {}
    BY <2>1, StuckIsCyclic DEF PlanGraph, EngineInv
  <2>4. Planner!GiveUp
    <3> HIDE DEF Left
    <3> QED
      BY <2>1, <2>2, <2>3 DEF Planner!GiveUp, Planner!Cyclic
  <2> QED
    BY <2>4
<1>6. CASE Planned
  <2>1. stage = "order" /\ Placed = Plugins(k)
    BY <1>6 DEF Planned
  <2>2. Planner!Complete
    BY <2>1 DEF Planner!Complete, Planner!Placed, Placed, Elements, PlanGraph
  <2>3. CASE pass = "validate"
    <3>1. order' = <<>> /\ stage' \in {"check", "done"}
      BY <1>6, <2>3 DEF Planned, Advance
    <3>2. Planner!Discard
      BY <2>2, <3>1 DEF Planner!Discard
    <3> QED
      BY <3>2
  <2>4. CASE pass # "validate"
    <3>1. stage' = "generate" /\ order' = order /\ PlanGraph' = PlanGraph
      BY <1>6, <2>4 DEF Planned, plan, PlanGraph, k
    <3>2. Planner!Finish
      BY <2>2, <3>1 DEF Planner!Finish, Working
    <3> QED
      BY <3>2
  <2> QED
    BY <2>3, <2>4
<1> QED
  BY <1>1, <1>2, <1>3, <1>4, <1>5, <1>6 DEF PlanStep

LEMMA RunStepIsPlanners ==
    ASSUME EngineInv, RunStep
    PROVE  [Planner!Next]_Planner!vars
<1> USE OutcomeIs, OutcomeIsThen DEF Planner!Next, Planner!vars
\* Within a plan's run nothing of it changes; a failure of an empty plan, and
\* the next package, put it away.
<1>1. ASSUME stage \in Working, stage' \in Working, order' = order, PlanGraph' = PlanGraph
      PROVE  [Planner!Next]_Planner!vars
  BY <1>1
<1>2. ASSUME stage \in Working, stage' \in {"check", "done", "failed"}, order' = <<>>
      PROVE  [Planner!Next]_Planner!vars
  <2>1. Planner!Discard
    BY <1>2 DEF Planner!Discard
  <2> QED
    BY <2>1
<1>3. ASSUME stage \in Working, stage' = "failed", order' = order, PlanGraph' = PlanGraph
      PROVE  [Planner!Next]_Planner!vars
  BY <1>2, <1>3
<1>4. ASSUME \/ Start \/ \E c \in Contract : Publish(c)
             \/ \E p \in Rel : Emit(p)
             \/ Return \/ Generated \/ Finalize \/ PostRan \/ Overlay
      PROVE  [Planner!Next]_Planner!vars
  <2>1. /\ stage \in Working /\ stage' \in Working
        /\ order' = order /\ PlanGraph' = PlanGraph
    BY <1>4 DEF Start, Idle, Publish, Emit, Return, Running, Generated, Finalize, PostRan,
       Overlay, PhaseOver, Phase, Working, plan, PlanGraph, k
  <2> QED
    BY <1>1, <2>1
<1>5. CASE Fail
  <2>1. stage \in Working /\ stage' = "failed" /\ order' = order /\ PlanGraph' = PlanGraph
    BY <1>5 DEF Fail, MayFail, Running, Phase, Stop, Working, plan, PlanGraph, k
  <2> QED
    BY <1>3, <2>1
<1>6. CASE AppendTree
  <2>1. stage \in Working
    BY <1>6 DEF AppendTree, Working
  <2>2. CASE Paths \cap output = {}
    <3>1. stage' \in {"check", "done"} /\ order' = <<>>
      BY <1>6, <2>2 DEF AppendTree, Advance
    <3> QED
      BY <1>2, <2>1, <3>1
  <2>3. CASE Paths \cap output # {}
    <3>1. stage' = "failed" /\ order' = order /\ PlanGraph' = PlanGraph
      BY <1>6, <2>3 DEF AppendTree, Stop, plan, PlanGraph, k
    <3> QED
      BY <1>3, <2>1, <3>1
  <2> QED
    BY <2>2, <2>3
<1> QED
  BY <1>4, <1>5, <1>6 DEF RunStep

\* resolve's loop implements PlanOrder: it lists every plugin once and after
\* all it depends on, and reports a cycle only where there is one.
THEOREM EngineImplementsPlanner == Spec => ImplementsPlanner
<1>1. Init => Planner!Init
  BY OutcomeIs DEF Init, Planner!Init
<1>2. EngineInv /\ [Next]_vars => [Planner!Next]_Planner!vars
  <2>1. UNCHANGED vars => UNCHANGED Planner!vars
    BY DEF vars, plan, run, Planner!vars, PlanGraph, PlanOutcome, k
  <2> QED
    BY <2>1, PlanStepIsPlanners, RunStepIsPlanners DEF Next
<1> QED
  BY <1>1, <1>2, EngineInvariant, PTL DEF Spec, ImplementsPlanner, Planner!Spec
=============================================================================
