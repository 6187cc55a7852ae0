----------------------------- MODULE JsPlugins -----------------------------
(***************************************************************************)
(* JavaScript plugins over the native packages: planPlugins and            *)
(* contractRuntime (packages/npm/sdk/plugin-engine.cjs) and the hooks loop *)
(* of generate (packages/npm/sdk/index.cjs).  The provider graph has the   *)
(* rules of PluginGraph, and plugins may also require one another by name. *)
(* Plans come from a depth-first search; the dependencies of a plugin are  *)
(* visited in an order that is left open.  Hooks are asynchronous but      *)
(* awaited one by one, and may fail.                                       *)
(***************************************************************************)
EXTENDS PluginGraph

CONSTANT None

\* named[i]: plugins required by name; transforms: those with transformApi.
\* The array of plugins is one package.
ASSUME JsAssumption ==
    /\ None \notin Nat
    /\ \A k \in Package :
          /\ k.named \in [DOMAIN k.phase -> SUBSET DOMAIN k.phase]
          /\ k.transforms \subseteq DOMAIN k.phase

VARIABLES
    k,       \* the plugins of the configuration
    stage,   \* "check", "plan", "transform", "generate", "post"; or how it ended
    stack,   \* plugins being visited, the last one on top
    sorted,  \* plugins visited
    done,    \* plugins whose transformApi, then whose hooks, have returned
    current, \* the plugin whose hooks run, or None
    published\* <<plugin, contract>> in the publications map

plan == <<stack, sorted>>
run == <<done, current, published>>
vars == <<k, stage, plan, run>>

Visited == Elements(sorted)
Visiting == Elements(stack)
Top == stack[Len(stack)]
Needed(i) == Providers(k, i) \cup k.named[i]

\* A plugin's name is its identity here, contract tokens are theirs.
Accepted ==
    /\ DistinctInstances(k)
    /\ \A i \in Plugins(k) :
          /\ k.phase[i] = "post" => i \notin k.transforms
          /\ Injective(k.provides[i])
          /\ \A q \in Requires(k, i) : Bindable(k, q)
          /\ RequiresOnce(k, i)
          /\ PhasesAgree(k, i)
          /\ k.phase[i] = "generate" => k.named[i] \subseteq InPhase(k, "generate")

-----------------------------------------------------------------------------
Reject ==
    /\ stage = "check"
    /\ ~Accepted
    /\ stage' = "failed"
    /\ UNCHANGED <<k, plan, run>>

Accept ==
    /\ stage = "check"
    /\ Accepted
    /\ stage' = "plan"
    /\ UNCHANGED <<k, plan, run>>

\* The next plugin of the array that no visit has reached.
Visit(i) ==
    /\ stage = "plan"
    /\ stack = <<>>
    /\ i \in Plugins(k) \ Visited
    /\ \A j \in Plugins(k) \ Visited : i <= j
    /\ stack' = <<i>>
    /\ UNCHANGED <<k, stage, sorted, run>>

Descend(d) ==
    /\ stage = "plan"
    /\ stack # <<>>
    /\ d \in Needed(Top) \ (Visited \cup Visiting)
    /\ stack' = Append(stack, d)
    /\ UNCHANGED <<k, stage, sorted, run>>

\* Faulty variant: a plugin that needs itself is not noticed.
FindCycleOfOthers ==
    /\ stage = "plan"
    /\ stack # <<>>
    /\ Needed(Top) \cap (Visiting \ {Top}) # {}
    /\ stage' = "cycle"
    /\ UNCHANGED <<k, plan, run>>

FindCycle ==
    /\ stage = "plan"
    /\ stack # <<>>
    /\ Needed(Top) \cap Visiting # {}
    /\ stage' = "cycle"
    /\ UNCHANGED <<k, plan, run>>

\* Faulty variant: a plugin is placed when its visit begins to unwind.
LeaveEarly ==
    /\ stage = "plan"
    /\ stack # <<>>
    /\ Needed(Top) \subseteq Visited \cup Visiting
    /\ sorted' = Append(sorted, Top)
    /\ stack' = SubSeq(stack, 1, Len(stack) - 1)
    /\ UNCHANGED <<k, stage, run>>

Leave ==
    /\ stage = "plan"
    /\ stack # <<>>
    /\ Needed(Top) \subseteq Visited
    /\ sorted' = Append(sorted, Top)
    /\ stack' = SubSeq(stack, 1, Len(stack) - 1)
    /\ UNCHANGED <<k, stage, run>>

Planned ==
    /\ stage = "plan"
    /\ stack = <<>>
    /\ Plugins(k) \subseteq Visited
    /\ stage' = "transform"
    /\ UNCHANGED <<k, plan, run>>

-----------------------------------------------------------------------------
\* The plan's order: the generate plugins first, each part as it was visited.
Before(i, j) ==
    IF k.phase[i] = k.phase[j]
    THEN \E n \in DOMAIN sorted : sorted[n] = i /\ \A m \in 1..n : sorted[m] # j
    ELSE k.phase[i] = "generate"

\* The first in the plan's order of the plugins that are due.
NextOf(due, i) == i \in due /\ \A j \in due \ {i} : Before(i, j)

\* A hook runs until it returns or throws.
Running == stage \in Phase /\ current # None

Fail ==
    /\ Running \/ stage = "transform"
    /\ stage' = "failed"
    /\ UNCHANGED <<k, plan, run>>

Transform(i) ==
    /\ stage = "transform"
    /\ NextOf(k.transforms \ done, i)
    /\ done' = done \cup {i}
    /\ UNCHANGED <<k, stage, plan, current, published>>

\* The native packages are generated from the transformed API.
GenerateNative ==
    /\ stage = "transform"
    /\ k.transforms \subseteq done
    /\ stage' = "generate"
    /\ done' = {}
    /\ UNCHANGED <<k, plan, current, published>>

Start(i) ==
    /\ stage \in Phase
    /\ current = None
    /\ NextOf(InPhase(k, stage) \ done, i)
    /\ current' = i
    /\ UNCHANGED <<k, stage, plan, done, published>>

\* A publication is in the map at once.
Publish(c) ==
    /\ Running
    /\ c \in Provides(k, current)
    /\ <<current, c>> \notin published
    /\ published' = published \cup {<<current, c>>}
    /\ UNCHANGED <<k, stage, plan, done, current>>

\* Faulty variant: complete looks at one contract only.
CompletedSome(i) ==
    Provides(k, i) # {} => \E c \in Provides(k, i) : <<i, c>> \in published

Completed(i) == \A c \in Provides(k, i) : <<i, c>> \in published

Return ==
    /\ Running
    /\ Completed(current)
    /\ done' = done \cup {current}
    /\ current' = None
    /\ UNCHANGED <<k, stage, plan, published>>

NextPhase ==
    /\ stage \in Phase
    /\ current = None
    /\ InPhase(k, stage) \subseteq done
    /\ stage' = IF stage = "generate" THEN "post" ELSE "materialize"
    /\ UNCHANGED <<k, plan, run>>

-----------------------------------------------------------------------------
Init ==
    /\ k \in Package
    /\ stage = "check"
    /\ stack = <<>> /\ sorted = <<>>
    /\ done = {} /\ current = None /\ published = {}

PlanStep ==
    \/ Reject \/ Accept \/ FindCycle \/ Leave \/ Planned
    \/ \E i \in Plugins(k) : Visit(i) \/ Descend(i)

RunStep ==
    \/ \E i \in Plugins(k) : Transform(i) \/ Start(i)
    \/ \E c \in Contract : Publish(c)
    \/ Fail \/ GenerateNative \/ Return \/ NextPhase

Next == PlanStep \/ RunStep
Spec == Init /\ [][Next]_vars

\* One thread of control, whose hooks settle.
FairSpec == Spec /\ WF_vars(Next)

-----------------------------------------------------------------------------
(* Properties.                                                              *)

\* Though the plan splits the visits' order by phase, and hooks publish while
\* they run: no transform or hook runs before those of what its plugin needs,
\* contracts or named plugins, have returned, and in the end all have run.
NeedsServed ==
    /\ stage = "transform" =>
          \A i \in done : Needed(i) \cap k.transforms \subseteq done
    /\ current # None =>
          /\ Needed(current) \subseteq done
          /\ \A q \in Requires(k, current) : \A p \in Selected(k, q) :
                <<p, q.contract>> \in published
    /\ stage = "materialize" => done = Plugins(k)

\* The search finds a cycle only where there is one, and places every plugin
\* after what it needs.
PlanGraph == [i \in Plugins(k) |-> Needed(i)]
PlanOutcome ==
    CASE stage = "check" -> "idle"
      [] stage = "plan" -> "planning"
      [] stage = "cycle" -> "cycle"
      [] stage = "failed" /\ sorted = <<>> -> "idle"
      [] OTHER -> "ordered"
Planner == INSTANCE PlanOrder WITH
    graph <- PlanGraph, order <- sorted, outcome <- PlanOutcome
ImplementsPlanner == Planner!Spec

\* Every generation comes to an end.
GenerationEnds == <>(stage \in {"materialize", "failed", "cycle"})
=============================================================================
