-------------------------- MODULE JsPluginsProofs --------------------------
(***************************************************************************)
(* For every configuration of JavaScript plugins: the depth-first search   *)
(* is a planner, and no transform or hook runs before those of what its    *)
(* plugin needs have returned.                                             *)
(***************************************************************************)
EXTENDS JsPlugins, TLAPS

Ended == {"materialize", "failed", "cycle"}
PlanUsed == Phase \cup {"transform", "materialize"}

JsTypes ==
    /\ k \in Package
    /\ stage \in {"check", "plan"} \cup PlanUsed \cup Ended
    /\ stack \in Seq(Plugins(k)) /\ sorted \in Seq(Plugins(k))
    /\ done \subseteq Plugins(k)
    /\ current \in Plugins(k) \cup {None}

\* Each plugin being visited is needed by the one below it, and is visited once.
StackSound ==
    /\ \A m, n \in DOMAIN stack : stack[m] = stack[n] => m = n
    /\ \A n \in DOMAIN stack : n + 1 \in DOMAIN stack => stack[n + 1] \in Needed(stack[n])
    /\ Visiting \cap Visited = {}

\* Plugins are left once, each after what it needs.
SortedSound ==
    /\ \A m, n \in DOMAIN sorted : sorted[m] = sorted[n] => m = n
    /\ \A n \in DOMAIN sorted :
          Needed(sorted[n]) \subseteq {sorted[m] : m \in 1..(n - 1)}

\* How far the generation has come.
StagesAgree ==
    /\ stage = "check" => sorted = <<>>
    /\ stage \in {"check", "plan"} => done = {} /\ current = None
    /\ stage \in PlanUsed \cup {"plan"} => Accepted
    /\ stage \in PlanUsed => Visited = Plugins(k)
    /\ stage = "transform" => done \subseteq k.transforms /\ current = None
    /\ stage = "post" => InPhase(k, "generate") \subseteq done
    /\ stage = "materialize" => done = Plugins(k) /\ current = None

\* What a plugin that runs or has run needs has run before it.
TransformedAfter ==
    stage = "transform" => \A i \in done : Needed(i) \cap k.transforms \subseteq done
RunsAfter == current # None => Accepted /\ Needed(current) \subseteq done

\* A plugin whose hooks have returned has published what it provides.
DonePublished ==
    stage \in Phase \/ current # None => \A i \in done : Completed(i)

JsInv ==
    /\ JsTypes /\ StackSound /\ SortedSound /\ StagesAgree
    /\ TransformedAfter /\ RunsAfter /\ DonePublished

-----------------------------------------------------------------------------
(* The graph.                                                               *)

LEMMA PackageFacts ==
    ASSUME NEW p \in Package
    PROVE  /\ Plugins(p) \subseteq Nat /\ None \notin Plugins(p)
           /\ \A i \in Plugins(p) : p.phase[i] \in Phase
           /\ p.transforms \subseteq Plugins(p)
           /\ \A i \in Plugins(p) : p.named[i] \subseteq Plugins(p)
           /\ \A q : Selected(p, q) \subseteq Plugins(p)
<1>1. p.phase \in Seq(Phase) /\ DOMAIN p.phase = 1..Len(p.phase)
  BY GraphAssumption
<1>2. Plugins(p) \subseteq Nat /\ None \notin Plugins(p)
  BY <1>1, JsAssumption DEF Plugins
<1>3. \A i \in Plugins(p) : p.phase[i] \in Phase
  BY <1>1 DEF Plugins
<1>4. p.transforms \subseteq Plugins(p) /\ \A i \in Plugins(p) : p.named[i] \subseteq Plugins(p)
  BY JsAssumption DEF Plugins
<1>5. \A q : Selected(p, q) \subseteq Plugins(p)
  BY DEF Selected, Candidates
<1> QED
  BY <1>2, <1>3, <1>4, <1>5

LEMMA NeededArePlugins ==
    ASSUME JsTypes, NEW i \in Plugins(k)
    PROVE  Needed(i) \subseteq Plugins(k)
BY PackageFacts DEF JsTypes, Needed, Providers

\* What a generate plugin of an accepted configuration needs is one too.
LEMMA GenerateNeedsGenerate ==
    ASSUME JsTypes, Accepted, NEW i \in InPhase(k, "generate")
    PROVE  Needed(i) \subseteq InPhase(k, "generate")
<1>1. i \in Plugins(k) /\ k.phase[i] = "generate"
  BY DEF InPhase
<1>2. Providers(k, i) \subseteq InPhase(k, "generate")
  BY <1>1 DEF Accepted, PhasesAgree, Providers
<1>3. k.named[i] \subseteq InPhase(k, "generate")
  BY <1>1 DEF Accepted
<1> QED
  BY <1>2, <1>3 DEF Needed

\* A plugin does not come before what it needs, in a phase of its own.
LEMMA NotBeforeNeeded ==
    ASSUME SortedSound, JsTypes, NEW i, NEW d \in Needed(i), k.phase[i] = k.phase[d]
    PROVE  ~Before(i, d)
<1> SUFFICES ASSUME NEW n \in DOMAIN sorted, sorted[n] = i, \A m \in 1..n : sorted[m] # d
             PROVE  FALSE
  BY DEF Before
<1>1. PICK m \in 1..(n - 1) : sorted[m] = d
  BY DEF SortedSound
<1>2. n \in Nat /\ m \in 1..n
  BY DEF JsTypes
<1> QED
  BY <1>1, <1>2

\* Nor does it need itself.
LEMMA NotNeedingItself ==
    ASSUME SortedSound, JsTypes, NEW i \in Visited
    PROVE  i \notin Needed(i)
<1>1. PICK n \in DOMAIN sorted : sorted[n] = i
  BY DEF Visited, Elements
<1>2. \A m \in 1..(n - 1) : m \in DOMAIN sorted /\ m # n
  BY DEF JsTypes
<1> QED
  BY <1>1, <1>2 DEF SortedSound

\* The next of the due plugins of a phase needs none of the others.
LEMMA NextNeedsNoneDue ==
    ASSUME JsTypes, SortedSound, Visited = Plugins(k),
           NEW due, NEW f, due \subseteq InPhase(k, f), NEW i, NextOf(due, i)
    PROVE  Needed(i) \cap due = {}
<1> SUFFICES ASSUME NEW d \in Needed(i) \cap due PROVE FALSE
  OBVIOUS
<1>1. i \in due /\ i \in Plugins(k) /\ k.phase[i] = f /\ k.phase[d] = f
  BY DEF NextOf, InPhase
<1>2. d # i
  BY <1>1, NotNeedingItself
<1>3. Before(i, d)
  BY <1>2 DEF NextOf
<1> QED
  BY <1>1, <1>3, NotBeforeNeeded


-----------------------------------------------------------------------------
(* Steps.                                                                   *)

\* Where the search rests, it stays sound.
LEMMA SearchRests ==
    ASSUME StackSound, SortedSound, UNCHANGED <<k, stack, sorted>>
    PROVE  StackSound' /\ SortedSound' /\ Visited' = Visited
<1>1. Visiting' = Visiting /\ Visited' = Visited /\ \A i : Needed(i)' = Needed(i)
  BY DEF Visiting, Visited, Elements, Needed
<1>2. StackSound'
  BY <1>1 DEF StackSound, Needed
<1>3. SortedSound'
  BY <1>1 DEF SortedSound, Needed
<1> QED
  BY <1>1, <1>2, <1>3

\* A step of the search keeps it sound.
LEMMA SearchKeeps ==
    ASSUME JsInv, PlanStep
    PROVE  JsInv'
<1> USE DEF JsInv, plan, run
<1>1. CASE Reject \/ Accept
  <2>1. k' = k /\ stack' = stack /\ sorted' = sorted /\ UNCHANGED run
    BY <1>1 DEF Reject, Accept
  <2>2. stage = "check" /\ stage' \in {"failed", "plan"} /\ (stage' = "plan" => Accepted)
    BY <1>1 DEF Reject, Accept
  <2>3. JsTypes' /\ StackSound' /\ SortedSound'
    BY <2>1, <2>2, SearchRests DEF JsTypes, Ended
  <2>4. StagesAgree'
    BY <2>1, <2>2 DEF StagesAgree, PlanUsed, Phase, Accepted
  <2>5. TransformedAfter' /\ RunsAfter' /\ DonePublished'
    BY <2>1, <2>2 DEF TransformedAfter, RunsAfter, DonePublished, Phase, Accepted, Needed,
       Completed, StagesAgree
  <2> QED
    BY <2>3, <2>4, <2>5
<1>2. CASE FindCycle
  <2>1. k' = k /\ stack' = stack /\ sorted' = sorted /\ UNCHANGED run
    BY <1>2 DEF FindCycle
  <2>2. stage = "plan" /\ stage' = "cycle" /\ done = {} /\ current = None
    BY <1>2 DEF FindCycle, StagesAgree
  <2>3. JsTypes' /\ StackSound' /\ SortedSound'
    BY <2>1, <2>2, SearchRests DEF JsTypes, Ended
  <2>4. StagesAgree' /\ TransformedAfter' /\ RunsAfter' /\ DonePublished'
    BY <2>1, <2>2 DEF StagesAgree, TransformedAfter, RunsAfter, DonePublished, PlanUsed, Phase
  <2> QED
    BY <2>3, <2>4
<1>3. ASSUME NEW i \in Plugins(k), Visit(i) \/ Descend(i) PROVE JsInv'
  <2>1. /\ stage = "plan" /\ UNCHANGED <<k, stage, sorted, run>>
        /\ stack' = Append(stack, i) /\ i \notin Visited /\ i \notin Visiting
        /\ stack # <<>> => i \in Needed(Top)
    <3>1. CASE Visit(i)
      <4>1. stack' = Append(stack, i)
        BY <3>1 DEF Visit
      <4> QED
        BY <3>1, <4>1 DEF Visit, Visiting, Elements
    <3>2. CASE Descend(i)
      BY <3>2 DEF Descend
    <3> QED
      BY <1>3, <3>1, <3>2
  <2>2. /\ stack \in Seq(Plugins(k)) /\ Len(stack) \in Nat /\ DOMAIN stack = 1..Len(stack)
        /\ DOMAIN stack' = 1..(Len(stack) + 1)
        /\ \A n \in 1..Len(stack) : stack'[n] = stack[n]
        /\ stack'[Len(stack) + 1] = i
    BY <2>1 DEF JsTypes
  <2>3. StackSound'
    <3>1. \A n \in 1..Len(stack) : stack[n] # i /\ stack[n] \notin Visited
      BY <2>1, <2>2 DEF Visiting, Elements, StackSound
    <3>2. ASSUME NEW m \in DOMAIN stack', NEW n \in DOMAIN stack', stack'[m] = stack'[n]
          PROVE  m = n
      BY <2>2, <3>1, <3>2 DEF StackSound
    <3>3. ASSUME NEW n \in DOMAIN stack', n + 1 \in DOMAIN stack'
          PROVE  stack'[n + 1] \in Needed(stack'[n])
      <4>1. CASE n = Len(stack)
        <5>1. stack # <<>> /\ Top = stack[n]
          BY <2>2, <4>1, <3>3 DEF Top
        <5> QED
          BY <2>1, <2>2, <4>1, <5>1, <3>3
      <4>2. CASE n # Len(stack)
        <5>1. n \in 1..Len(stack) /\ n + 1 \in 1..Len(stack)
          BY <2>2, <3>3, <4>2
        <5> QED
          BY <2>2, <5>1 DEF StackSound
      <4> QED
        BY <4>1, <4>2
    <3>4. Visiting' \cap Visited' = {}
      BY <2>1, <2>2, <3>1 DEF Visiting, Visited, Elements
    <3> QED
      BY <2>1, <3>2, <3>3, <3>4 DEF StackSound, Needed
  <2>4. JsTypes'
    BY <2>1, <2>2 DEF JsTypes
  <2>5. SortedSound' /\ StagesAgree' /\ TransformedAfter' /\ RunsAfter' /\ DonePublished'
    BY <2>1 DEF SortedSound, StagesAgree, TransformedAfter, RunsAfter, DonePublished,
       PlanUsed, Phase, Needed, Accepted, Visited, Completed
  <2> QED
    BY <2>3, <2>4, <2>5
<1>4. CASE Leave
  <2> DEFINE top == Len(stack)
  <2>1. /\ stage = "plan" /\ UNCHANGED <<k, stage, run>> /\ stack # <<>>
        /\ sorted' = Append(sorted, Top) /\ stack' = SubSeq(stack, 1, top - 1)
        /\ Needed(Top) \subseteq Visited
    BY <1>4 DEF Leave
  <2>2. /\ stack \in Seq(Plugins(k)) /\ top \in Nat \ {0} /\ DOMAIN stack = 1..top
        /\ Top = stack[top] /\ Top \in Plugins(k)
        /\ DOMAIN stack' = 1..(top - 1)
        /\ \A n \in 1..(top - 1) : stack'[n] = stack[n]
        /\ stack' \in Seq(Plugins(k))
    BY <2>1 DEF JsTypes, Top
  <2>3. /\ sorted \in Seq(Plugins(k)) /\ Len(sorted) \in Nat /\ DOMAIN sorted = 1..Len(sorted)
        /\ DOMAIN sorted' = 1..(Len(sorted) + 1)
        /\ \A n \in 1..Len(sorted) : sorted'[n] = sorted[n]
        /\ sorted'[Len(sorted) + 1] = Top
    BY <2>1, <2>2 DEF JsTypes
  <2>4. Top \notin Visited /\ \A n \in 1..Len(sorted) : sorted[n] # Top
    <3>1. Top \in Visiting
      BY <2>2 DEF Visiting, Elements
    <3>2. Top \notin Visited
      BY <3>1 DEF StackSound
    <3> QED
      BY <2>3, <3>2 DEF Visited, Elements
  <2>5. Visited' = Visited \cup {Top}
    BY <2>3 DEF Visited, Elements
  <2>6. StackSound'
    <3>1. ASSUME NEW n \in 1..(top - 1)
          PROVE  stack[n] \notin Visited /\ stack[n] # Top /\ n \in DOMAIN stack
      <4>1. n \in DOMAIN stack /\ top \in DOMAIN stack /\ n # top
        BY <2>2
      <4>2. stack[n] # Top
        BY <2>2, <4>1 DEF StackSound
      <4>3. stack[n] \in Visiting
        BY <4>1 DEF Visiting, Elements
      <4> QED
        BY <4>1, <4>2, <4>3 DEF StackSound
    <3>2. Visiting' \cap Visited' = {}
      BY <2>2, <2>5, <3>1 DEF Visiting, Elements
    <3>3. \A n \in DOMAIN stack' : n + 1 \in DOMAIN stack' => stack'[n + 1] \in Needed(stack'[n])
      BY <2>2, <3>1 DEF StackSound
    <3>4. \A m, n \in DOMAIN stack' : stack'[m] = stack'[n] => m = n
      BY <2>2, <3>1 DEF StackSound
    <3> QED
      BY <2>1, <3>2, <3>3, <3>4 DEF StackSound, Needed
  <2>7. SortedSound'
    <3>1. ASSUME NEW m \in DOMAIN sorted', NEW n \in DOMAIN sorted', sorted'[m] = sorted'[n]
          PROVE  m = n
      BY <2>3, <2>4, <3>1 DEF SortedSound
    <3>2. ASSUME NEW n \in DOMAIN sorted'
          PROVE  Needed(sorted'[n]) \subseteq {sorted'[m] : m \in 1..(n - 1)}
      <4>1. CASE n = Len(sorted) + 1
        <5>1. Visited = {sorted'[m] : m \in 1..(n - 1)}
          BY <2>3, <4>1 DEF Visited, Elements
        <5> QED
          BY <2>1, <2>3, <4>1, <5>1
      <4>2. CASE n \in 1..Len(sorted)
        <5>1. {sorted[m] : m \in 1..(n - 1)} = {sorted'[m] : m \in 1..(n - 1)}
          BY <2>3, <4>2
        <5> QED
          BY <2>3, <4>2, <5>1 DEF SortedSound
      <4> QED
        BY <2>3, <4>1, <4>2
    <3> QED
      BY <2>1, <3>1, <3>2 DEF SortedSound, Needed
  <2>8. JsTypes'
    BY <2>1, <2>2, <2>3 DEF JsTypes
  <2>9. StagesAgree' /\ TransformedAfter' /\ RunsAfter' /\ DonePublished'
    BY <2>1 DEF StagesAgree, TransformedAfter, RunsAfter, DonePublished, PlanUsed, Phase,
       Needed, Accepted, Completed
  <2> QED
    BY <2>6, <2>7, <2>8, <2>9
<1>5. CASE Planned
  <2>1. /\ stage = "plan" /\ stage' = "transform" /\ UNCHANGED <<k, plan, run>>
        /\ Plugins(k) \subseteq Visited /\ done = {} /\ current = None
    BY <1>5 DEF Planned, StagesAgree
  <2>2. Visited = Plugins(k)
    BY <2>1 DEF JsTypes, Visited, Elements
  <2>3. JsTypes' /\ StackSound' /\ SortedSound'
    BY <2>1, SearchRests DEF JsTypes, PlanUsed
  <2>4. StagesAgree'
    BY <2>1, <2>2 DEF StagesAgree, PlanUsed, Phase, Accepted, Visited, Elements
  <2>5. TransformedAfter' /\ RunsAfter' /\ DonePublished'
    BY <2>1 DEF TransformedAfter, RunsAfter, DonePublished, Phase
  <2> QED
    BY <2>3, <2>4, <2>5
<1> QED
  BY <1>1, <1>2, <1>3, <1>4, <1>5 DEF PlanStep


\* A step of the run keeps what is planned, and runs nothing before its needs.
LEMMA RunKeeps ==
    ASSUME JsInv, RunStep
    PROVE  JsInv'
<1> USE DEF JsInv
<1>0. k \in Package /\ done \subseteq Plugins(k)
  BY DEF JsTypes
<1>1. ASSUME NEW i \in Plugins(k), Transform(i) PROVE JsInv'
  <2>1. /\ stage = "transform" /\ NextOf(k.transforms \ done, i) /\ done' = done \cup {i}
        /\ UNCHANGED <<k, stage, plan, current, published>> /\ Accepted
        /\ Visited = Plugins(k) /\ current = None /\ done \subseteq k.transforms
    BY <1>1 DEF Transform, StagesAgree, PlanUsed
  <2>2. StackSound' /\ SortedSound'
    BY <2>1, SearchRests DEF plan
  <2>3. k.transforms \ done \subseteq InPhase(k, "generate")
    BY <1>0, <2>1, PackageFacts DEF Accepted, InPhase, Phase
  <2>4. Needed(i) \cap k.transforms \subseteq done
    BY <2>1, <2>3, NextNeedsNoneDue
  <2>5. JsTypes' /\ StagesAgree'
    BY <2>1 DEF JsTypes, StagesAgree, plan, PlanUsed, Phase, NextOf, Accepted, Visited
  <2>6. TransformedAfter' /\ RunsAfter' /\ DonePublished'
    BY <2>1, <2>4 DEF TransformedAfter, RunsAfter, DonePublished, Phase, Needed
  <2> QED
    BY <2>2, <2>5, <2>6
<1>2. ASSUME NEW i \in Plugins(k), Start(i) PROVE JsInv'
  <2>1. /\ stage \in Phase /\ NextOf(InPhase(k, stage) \ done, i) /\ current' = i
        /\ UNCHANGED <<k, stage, plan, done, published>> /\ Accepted
        /\ Visited = Plugins(k)
    BY <1>2 DEF Start, StagesAgree, PlanUsed
  <2>2. StackSound' /\ SortedSound'
    BY <2>1, SearchRests DEF plan
  <2>3. Needed(i) \subseteq Plugins(k) /\ Needed(i) \cap (InPhase(k, stage) \ done) = {}
    BY <2>1, NextNeedsNoneDue, NeededArePlugins DEF InPhase
  <2>4. Needed(i) \subseteq done
    <3>1. CASE stage = "generate"
      BY <2>1, <2>3, <3>1, GenerateNeedsGenerate DEF NextOf
    <3>2. CASE stage = "post"
      <4>1. \A d \in Plugins(k) : d \in InPhase(k, "generate") \/ d \in InPhase(k, "post")
        BY <1>0, PackageFacts DEF InPhase, Phase
      <4> QED
        BY <2>3, <3>2, <4>1 DEF StagesAgree
    <3> QED
      BY <2>1, <3>1, <3>2 DEF Phase
  <2>5. JsTypes' /\ StagesAgree'
    BY <2>1 DEF JsTypes, StagesAgree, plan, PlanUsed, Phase, Accepted, Visited
  <2>6. TransformedAfter' /\ RunsAfter' /\ DonePublished'
    BY <2>1, <2>4 DEF TransformedAfter, RunsAfter, DonePublished, Phase, Needed, Accepted,
       Completed
  <2> QED
    BY <2>2, <2>5, <2>6
<1>3. ASSUME NEW c \in Contract, Publish(c) PROVE JsInv'
  <2>1. /\ stage \in Phase /\ published \subseteq published'
        /\ UNCHANGED <<k, stage, plan, done, current>>
    BY <1>3 DEF Publish, Running
  <2>2. StackSound' /\ SortedSound'
    BY <2>1, SearchRests DEF plan
  <2>3. JsTypes' /\ StagesAgree'
    BY <2>1 DEF JsTypes, StagesAgree, plan, PlanUsed, Phase, Accepted, Visited
  <2>4. TransformedAfter' /\ RunsAfter' /\ DonePublished'
    BY <2>1 DEF TransformedAfter, RunsAfter, DonePublished, Phase, Needed, Accepted, Completed
  <2> QED
    BY <2>2, <2>3, <2>4
<1>4. CASE Fail
  <2>1. /\ stage \in Phase \/ stage = "transform"
        /\ stage' = "failed" /\ UNCHANGED <<k, plan, run>>
    BY <1>4 DEF Fail, Running
  <2>2. StackSound' /\ SortedSound'
    BY <2>1, SearchRests DEF plan
  <2>3. JsTypes' /\ StagesAgree'
    BY <2>1 DEF JsTypes, StagesAgree, plan, run, PlanUsed, Phase, Ended
  <2>4. TransformedAfter' /\ RunsAfter' /\ DonePublished'
    BY <2>1 DEF TransformedAfter, RunsAfter, DonePublished, Phase, Needed, Accepted, Completed,
       run
  <2> QED
    BY <2>2, <2>3, <2>4
<1>5. CASE GenerateNative
  <2>1. /\ stage = "transform" /\ stage' = "generate" /\ done' = {} /\ current = None
        /\ UNCHANGED <<k, plan, current, published>>
    BY <1>5 DEF GenerateNative, StagesAgree
  <2>2. StackSound' /\ SortedSound'
    BY <2>1, SearchRests DEF plan
  <2>3. JsTypes' /\ StagesAgree'
    BY <2>1 DEF JsTypes, StagesAgree, plan, PlanUsed, Phase, Accepted, Visited
  <2>4. TransformedAfter' /\ RunsAfter' /\ DonePublished'
    BY <2>1 DEF TransformedAfter, RunsAfter, DonePublished
  <2> QED
    BY <2>2, <2>3, <2>4
<1>6. CASE Return
  <2>1. /\ stage \in Phase /\ current # None /\ Completed(current)
        /\ done' = done \cup {current} /\ current' = None
        /\ UNCHANGED <<k, stage, plan, published>>
    BY <1>6 DEF Return, Running
  <2>2. StackSound' /\ SortedSound'
    BY <2>1, SearchRests DEF plan
  <2>3. JsTypes' /\ StagesAgree'
    BY <2>1 DEF JsTypes, StagesAgree, plan, PlanUsed, Phase, Accepted, Visited
  <2>4. TransformedAfter' /\ RunsAfter' /\ DonePublished'
    BY <2>1 DEF TransformedAfter, RunsAfter, DonePublished, Phase, Completed
  <2> QED
    BY <2>2, <2>3, <2>4
<1>7. CASE NextPhase
  <2>1. /\ stage \in Phase /\ current = None /\ InPhase(k, stage) \subseteq done
        /\ stage' = IF stage = "generate" THEN "post" ELSE "materialize"
        /\ UNCHANGED <<k, plan, run>>
    BY <1>7 DEF NextPhase
  <2>2. StackSound' /\ SortedSound'
    BY <2>1, SearchRests DEF plan
  <2>3. stage = "post" => done = Plugins(k)
    BY <1>0, <2>1, PackageFacts DEF StagesAgree, InPhase, Phase
  <2>4. JsTypes' /\ StagesAgree'
    BY <2>1, <2>3 DEF JsTypes, StagesAgree, plan, run, PlanUsed, Phase, Accepted, Visited
  <2>5. TransformedAfter' /\ RunsAfter' /\ DonePublished'
    BY <2>1 DEF TransformedAfter, RunsAfter, DonePublished, Phase, Completed, run
  <2> QED
    BY <2>2, <2>4, <2>5
<1> QED
  BY <1>1, <1>2, <1>3, <1>4, <1>5, <1>6, <1>7 DEF RunStep

\* The stack and the visits of planPlugins, and how far the hooks have come.
THEOREM JsInvariant == Spec => []JsInv
<1>1. Init => JsInv
  BY DEF Init, JsInv, JsTypes, StackSound, SortedSound, StagesAgree, TransformedAfter,
     RunsAfter, DonePublished, Visiting, Visited, Elements, PlanUsed, Phase
<1>2. ASSUME JsInv, UNCHANGED vars PROVE JsInv'
  <2>1. StackSound' /\ SortedSound'
    BY <1>2, SearchRests DEF JsInv, vars, plan
  <2>2. JsTypes' /\ StagesAgree' /\ TransformedAfter' /\ RunsAfter' /\ DonePublished'
    BY <1>2 DEF JsInv, vars, plan, run, JsTypes, StagesAgree, TransformedAfter, RunsAfter,
       DonePublished, Accepted, Visited, Needed, Completed
  <2> QED
    BY <2>1, <2>2 DEF JsInv
<1> QED
  BY <1>1, <1>2, SearchKeeps, RunKeeps, PTL DEF Spec, Next

\* Though the plan splits the visits by phase and hooks publish while they run,
\* no transform or hook runs before those of what its plugin needs have
\* returned, what it is bound to has been published, and in the end all have run.
THEOREM NeedsAreServed == Spec => []NeedsServed
<1>1. ASSUME JsInv PROVE NeedsServed
  <2>1. ASSUME current # None, NEW q \in Requires(k, current), NEW p \in Selected(k, q)
        PROVE  <<p, q.contract>> \in published
    <3>1. Accepted /\ current \in Plugins(k) /\ Needed(current) \subseteq done
      BY <1>1, <2>1 DEF JsInv, JsTypes, RunsAfter
    <3>2. p \in done
      BY <3>1 DEF Needed, Providers
    <3>3. q.contract \in Provides(k, p)
      BY <3>1 DEF Accepted, Bindable, Candidates
    <3> QED
      BY <1>1, <2>1, <3>2, <3>3 DEF JsInv, DonePublished, Completed
  <2> QED
    BY <1>1, <2>1 DEF JsInv, NeedsServed, TransformedAfter, RunsAfter, StagesAgree
<1> QED
  BY <1>1, JsInvariant, PTL


-----------------------------------------------------------------------------
(* Planning.                                                                *)

\* Where a generation stands decides what has come of its planning.
LEMMA OutcomeIs ==
    /\ stage = "check" => PlanOutcome = "idle"
    /\ stage = "plan" => PlanOutcome = "planning"
    /\ stage = "cycle" => PlanOutcome = "cycle"
    /\ stage = "failed" => PlanOutcome = IF sorted = <<>> THEN "idle" ELSE "ordered"
    /\ stage \in PlanUsed => PlanOutcome = "ordered"
BY DEF PlanOutcome, PlanUsed, Phase

LEMMA OutcomeIsThen ==
    /\ stage' = "check" => PlanOutcome' = "idle"
    /\ stage' = "plan" => PlanOutcome' = "planning"
    /\ stage' = "cycle" => PlanOutcome' = "cycle"
    /\ stage' = "failed" => PlanOutcome' = IF sorted' = <<>> THEN "idle" ELSE "ordered"
    /\ stage' \in PlanUsed => PlanOutcome' = "ordered"
BY DEF PlanOutcome, PlanUsed, Phase

\* Above a place that is not the last there is another.
LEMMA NextPlace ==
    ASSUME NEW L \in Nat, NEW a \in 1..L, NEW m \in a..L, m # L
    PROVE  m + 1 \in a..L /\ m + 1 \in 1..L
OBVIOUS

\* From a plugin that is being visited, and that the top of the stack needs,
\* each needs the next one above it, and the top needs the first: a cycle.
LEMMA BackEdgeIsCyclic ==
    ASSUME JsInv, FindCycle
    PROVE  \E S \in SUBSET DOMAIN PlanGraph : Planner!Cyclic(S)
<1>1. /\ stack # <<>> /\ stack \in Seq(Plugins(k)) /\ Len(stack) \in Nat \ {0}
      /\ DOMAIN stack = 1..Len(stack) /\ Top = stack[Len(stack)]
  BY DEF FindCycle, JsInv, JsTypes, Top
<1>2. PICK a \in DOMAIN stack : stack[a] \in Needed(Top)
  BY DEF FindCycle, Visiting, Elements
<1> DEFINE S == {stack[m] : m \in a..Len(stack)}
<1>3. a \in 1..Len(stack) /\ \A m \in a..Len(stack) : m \in DOMAIN stack /\ m \in Nat
  BY <1>1, <1>2
<1>4. S \in SUBSET DOMAIN PlanGraph
  BY <1>1, <1>3 DEF PlanGraph
<1>5. stack[a] \in S
  BY <1>3
<1>6. ASSUME NEW p \in S PROVE PlanGraph[p] \cap S # {}
  <2>1. PICK m \in a..Len(stack) : p = stack[m]
    OBVIOUS
  <2>2. PlanGraph[p] = Needed(p)
    BY <1>4 DEF PlanGraph
  <2>3. CASE m = Len(stack)
    BY <1>1, <1>2, <1>5, <2>1, <2>2, <2>3
  <2>4. CASE m # Len(stack)
    <3>1. m + 1 \in a..Len(stack) /\ m + 1 \in DOMAIN stack
      <4>1. Len(stack) \in Nat /\ a \in 1..Len(stack)
        BY <1>1, <1>3
      <4>2. m + 1 \in a..Len(stack) /\ m + 1 \in 1..Len(stack)
        BY <2>4, <4>1, NextPlace
      <4> QED
        BY <1>1, <4>2
    <3>2. stack[m + 1] \in Needed(p)
      BY <1>3, <2>1, <3>1 DEF JsInv, StackSound
    <3> QED
      BY <2>2, <3>1, <3>2
  <2> QED
    BY <2>3, <2>4
<1>7. Planner!Cyclic(S)
  <2> HIDE DEF S
  <2> QED
    BY <1>5, <1>6 DEF Planner!Cyclic
<1> QED
  BY <1>4, <1>7

LEMMA SearchIsPlanners ==
    ASSUME JsInv, PlanStep
    PROVE  [Planner!Next]_Planner!vars
<1> USE OutcomeIs, OutcomeIsThen DEF Planner!Next, Planner!vars
<1>1. CASE Reject
  <2>1. /\ stage = "check" /\ stage' = "failed" /\ sorted = <<>> /\ sorted' = sorted
        /\ PlanGraph' = PlanGraph
    BY <1>1 DEF Reject, JsInv, StagesAgree, plan, PlanGraph, Needed
  <2> QED
    BY <2>1
<1>2. CASE Accept
  <2>1. /\ stage = "check" /\ stage' = "plan" /\ sorted' = sorted /\ PlanGraph' = PlanGraph
    BY <1>2 DEF Accept, plan, PlanGraph, Needed
  <2>2. Planner!Begin
    BY <2>1 DEF Planner!Begin
  <2> QED
    BY <2>2
<1>3. CASE FindCycle
  <2>1. /\ stage = "plan" /\ stage' = "cycle" /\ sorted' = sorted /\ PlanGraph' = PlanGraph
    BY <1>3 DEF FindCycle, plan, PlanGraph, Needed
  <2>2. Planner!GiveUp
    BY <1>3, <2>1, BackEdgeIsCyclic DEF Planner!GiveUp
  <2> QED
    BY <2>2
<1>4. ASSUME NEW i \in Plugins(k), Visit(i) \/ Descend(i) PROVE [Planner!Next]_Planner!vars
  <2>1. stage = "plan" /\ stage' = stage /\ sorted' = sorted /\ PlanGraph' = PlanGraph
    BY <1>4 DEF Visit, Descend, PlanGraph, Needed
  <2> QED
    BY <2>1
<1>5. CASE Leave
  <2>1. /\ stage = "plan" /\ stage' = stage /\ sorted' = Append(sorted, Top)
        /\ PlanGraph' = PlanGraph /\ Needed(Top) \subseteq Visited
    BY <1>5 DEF Leave, PlanGraph, Needed
  <2>2. Top \in Plugins(k) /\ Top \in Visiting
    BY <1>5 DEF Leave, Top, JsInv, JsTypes, Visiting, Elements
  <2>3. Planner!Placed = Visited
    BY DEF Planner!Placed, Visited, Elements
  <2>4. Top \notin Planner!Placed
    BY <2>2, <2>3 DEF JsInv, StackSound
  <2>5. Top \in DOMAIN PlanGraph /\ PlanGraph[Top] = Needed(Top)
    BY <2>2 DEF PlanGraph
  <2>6. Planner!Place(Top)
    BY <2>1, <2>3, <2>4, <2>5 DEF Planner!Place
  <2> QED
    BY <2>5, <2>6
<1>6. CASE Planned
  <2>1. /\ stage = "plan" /\ stage' = "transform" /\ sorted' = sorted /\ PlanGraph' = PlanGraph
        /\ Plugins(k) \subseteq Visited
    BY <1>6 DEF Planned, plan, PlanGraph, Needed
  <2>2. Planner!Complete
    BY <2>1 DEF Planner!Complete, Planner!Placed, Visited, Elements, PlanGraph
  <2>3. Planner!Finish
    BY <2>1, <2>2 DEF Planner!Finish, PlanUsed
  <2> QED
    BY <2>3
<1> QED
  BY <1>1, <1>2, <1>3, <1>4, <1>5, <1>6 DEF PlanStep

\* The run leaves the plan as it is; the failure of an empty one puts it away.
LEMMA RunIsPlanners ==
    ASSUME JsInv, RunStep
    PROVE  [Planner!Next]_Planner!vars
<1> USE OutcomeIs, OutcomeIsThen DEF Planner!Next, Planner!vars
<1>1. sorted' = sorted /\ PlanGraph' = PlanGraph
  BY DEF RunStep, Transform, Start, Publish, Fail, GenerateNative, Return, NextPhase, plan,
     PlanGraph, Needed
<1>2. stage \in PlanUsed /\ stage' \in PlanUsed \cup {"failed"}
  BY DEF RunStep, Transform, Start, Publish, Fail, GenerateNative, Return, NextPhase, Running,
     PlanUsed, Phase
<1>3. CASE stage' \in PlanUsed
  BY <1>1, <1>2, <1>3
<1>4. CASE stage' = "failed" /\ sorted # <<>>
  BY <1>1, <1>2, <1>4
<1>5. CASE stage' = "failed" /\ sorted = <<>>
  <2>1. Planner!Discard
    BY <1>1, <1>2, <1>5 DEF Planner!Discard
  <2> QED
    BY <2>1
<1> QED
  BY <1>2, <1>3, <1>4, <1>5

\* The depth-first search implements PlanOrder: it leaves every plugin once and
\* after all it needs, and finds a cycle only where there is one.
THEOREM SearchImplementsPlanner == Spec => ImplementsPlanner
<1>1. Init => Planner!Init
  BY OutcomeIs DEF Init, Planner!Init
<1>2. JsInv /\ [Next]_vars => [Planner!Next]_Planner!vars
  <2>1. UNCHANGED vars => UNCHANGED Planner!vars
    BY DEF vars, plan, run, Planner!vars, PlanGraph, PlanOutcome, Needed
  <2> QED
    BY <2>1, SearchIsPlanners, RunIsPlanners DEF Next
<1> QED
  BY <1>1, <1>2, JsInvariant, PTL DEF Spec, ImplementsPlanner, Planner!Spec
=============================================================================
