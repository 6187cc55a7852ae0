--------------------------- MODULE PackageEngine ---------------------------
(***************************************************************************)
(* Packages::generate and generate_native_report (crates/core/src/         *)
(* engine.rs).  All packages of a release are validated, then generated    *)
(* one after the other: resolve orders the plugins, run lets them publish  *)
(* typed contracts and emit files, first those of the generate phase, then *)
(* the language finalizer, then those of the post phase, and the package's *)
(* tree is appended to the release.  A plugin is code of its own: what it  *)
(* publishes and emits, and whether it fails, is left open.  What a        *)
(* contract carries, the API and a file's text are left out.               *)
(***************************************************************************)
EXTENDS PluginGraph

CONSTANTS
    Dir,      \* package directories
    Overlap,  \* pairs of directories one of which is a prefix of the other
    Rel,      \* package-relative paths a plugin may emit
    Join(_, _), \* the path under the release's root
    Release,  \* sequences of packages a caller may register
    None      \* no plugin

\* Besides its graph a package has its directory, whether every plugin of it
\* supports native input, and whether it has HTTP middleware or idempotency
\* policy.
ASSUME ReleaseAssumption ==
    /\ None \notin Nat
    /\ Release \subseteq Seq(Package) \ {<<>>}
    /\ \A k \in Package : k.dir \in Dir /\ k.native \in BOOLEAN /\ k.policy \in BOOLEAN
ASSUME DirAssumption ==
    /\ \A d \in Dir : <<d, d>> \in Overlap
    /\ \A d, e \in Dir, p, q \in Rel : Join(d, p) = Join(e, q) =>
          <<d, e>> \in Overlap /\ (d = e => p = q)

VARIABLES
    release,  \* the packages registered
    native,   \* generate_native rather than generate
    pass,     \* "validate" or "generate"
    at,       \* the package it is working on
    stage,    \* where in that package it is
    order,    \* plugins planned so far
    ran,      \* plugins that returned
    current,  \* the plugin that is running, or None
    pending,  \* contracts it has published so far
    contracts,\* <<plugin, contract>> published to the package
    files,    \* package-relative paths emitted
    output    \* paths of the packages done

plan == <<order, ran>>
run == <<current, pending, contracts, files>>
vars == <<release, native, pass, at, stage, plan, run, output>>

k == release[at]
Placed == Elements(order)

-----------------------------------------------------------------------------
(* Validation and planning.                                                 *)

\* Faulty variant: only equal directories are refused.
DirsDistinct == \A j \in 1..(at - 1) : release[j].dir # k.dir

\* No earlier package's directory, of a skipped one either, overlaps this one.
DirFree == \A j \in 1..(at - 1) : <<release[j].dir, k.dir>> \notin Overlap

Skipped == native /\ ~k.native

\* The next package; after the last one the next pass, or the end.
Advance ==
    /\ IF at < Len(release)
       THEN at' = at + 1 /\ stage' = "check" /\ UNCHANGED pass
       ELSE IF pass = "validate"
            THEN pass' = "generate" /\ at' = 1 /\ stage' = "check"
            ELSE stage' = "done" /\ UNCHANGED <<pass, at>>
    /\ order' = <<>>
    /\ ran' = {}
    /\ current' = None
    /\ pending' = {}
    /\ contracts' = {}
    /\ files' = {}

Stop(how) ==
    /\ stage' = how
    /\ UNCHANGED <<release, native, pass, at, plan, run, output>>

\* Directories are compared when the packages are validated, before a package
\* that cannot take native input is skipped.
Admitted ==
    /\ pass = "validate" => DirFree
    /\ pass = "validate" /\ native /\ ~Skipped => ~k.policy
    /\ ~Skipped => Resolvable(k)

Skip ==
    /\ stage = "check"
    /\ Skipped /\ Admitted
    /\ Advance
    /\ UNCHANGED <<release, native, output>>

Check ==
    /\ stage = "check"
    /\ ~Skipped /\ Admitted
    /\ stage' = "order"
    /\ UNCHANGED <<release, native, pass, at, plan, run, output>>

Reject ==
    /\ stage = "check"
    /\ ~Admitted
    /\ Stop("failed")

\* Faulty variant: a plugin need not wait for itself.
ReadyBesidesItself(i) ==
    /\ i \in Plugins(k) \ Placed
    /\ Dependencies(k, i) \subseteq Placed \cup {i}

Ready(i) ==
    /\ i \in Plugins(k) \ Placed
    /\ Dependencies(k, i) \subseteq Placed

Place(i) ==
    /\ stage = "order"
    /\ Ready(i)
    /\ \A j \in Plugins(k) : Ready(j) => i <= j
    /\ order' = Append(order, i)
    /\ UNCHANGED <<release, native, pass, at, stage, ran, run, output>>

\* Faulty variant: a cycle is only looked for before anything is placed.
CycleAtOnce ==
    /\ stage = "order"
    /\ Placed = {} /\ Plugins(k) # {}
    /\ \A i \in Plugins(k) : ~Ready(i)
    /\ Stop("cycle")

Cycle ==
    /\ stage = "order"
    /\ Placed # Plugins(k)
    /\ \A i \in Plugins(k) : ~Ready(i)
    /\ Stop("cycle")

\* validate throws the plan away, run follows it.
Planned ==
    /\ stage = "order"
    /\ Placed = Plugins(k)
    /\ IF pass = "validate"
       THEN Advance
       ELSE stage' = "generate" /\ UNCHANGED <<pass, at, plan, run>>
    /\ UNCHANGED <<release, native, output>>

-----------------------------------------------------------------------------
(* Running the plan.                                                        *)

Idle == stage \in Phase /\ current = None
Running == stage \in Phase /\ current # None

\* The first plugin of the phase in the plan's order that has not run.
NextUp(n) ==
    /\ n \in DOMAIN order
    /\ order[n] \in InPhase(k, stage) \ ran
    /\ \A m \in 1..(n - 1) : order[m] \notin InPhase(k, stage) \ ran

Start ==
    /\ Idle
    /\ \E n \in DOMAIN order : NextUp(n) /\ current' = order[n]
    /\ pending' = {}
    /\ UNCHANGED <<release, native, pass, at, stage, plan, contracts, files, output>>

\* A publication that is not declared, or made before, is an error to the plugin.
Publish(c) ==
    /\ Running
    /\ c \in Provides(k, current) \ pending
    /\ pending' = pending \cup {c}
    /\ UNCHANGED <<release, native, pass, at, stage, plan, current, contracts,
                   files, output>>

\* A path that somebody has emitted is an error to the plugin, or finalizer.
Emit(p) ==
    /\ Running \/ stage = "finalize"
    /\ p \notin files
    /\ files' = files \cup {p}
    /\ UNCHANGED <<release, native, pass, at, stage, plan, current, pending,
                   contracts, output>>

\* Faulty variant: nobody checks that what was declared has been published.
PublishedSome(i) == pending \subseteq Provides(k, i)

PublishedAll(i) == Provides(k, i) \subseteq pending

\* A plugin that succeeds commits what it has published.
Return ==
    /\ Running
    /\ PublishedAll(current)
    /\ ran' = ran \cup {current}
    /\ contracts' = contracts \cup {<<current, c>> : c \in pending}
    /\ current' = None
    /\ pending' = {}
    /\ UNCHANGED <<release, native, pass, at, stage, order, files, output>>

MayFail ==
    \/ Running
    \/ stage \in {"finalize", "overlay"}
    \/ stage = "generate" /\ ran = {}

\* A plugin fails, or omits a publication; or the finalizer, a layer over the
\* assembled package or, before any plugin runs, its idempotency policy fails.
Fail ==
    /\ MayFail
    /\ Stop("failed")

PhaseOver(from, to) ==
    /\ stage = from
    /\ stage' = to
    /\ UNCHANGED <<release, native, pass, at, plan, run, output>>

Ran(f) == Idle /\ stage = f /\ InPhase(k, f) \subseteq ran

Generated == Ran("generate") /\ PhaseOver("generate", "finalize")
Finalize == PhaseOver("finalize", "post")
PostRan == Ran("post") /\ PhaseOver("post", "overlay")
\* Middleware, finalize_files, customizations and the source quality pass.
Overlay == PhaseOver("overlay", "append")

Paths == {Join(k.dir, p) : p \in files}

\* A path that another package emitted is an error to the release.
AppendTree ==
    /\ stage = "append"
    /\ IF Paths \cap output = {}
       THEN /\ output' = output \cup Paths
            /\ Advance
            /\ UNCHANGED <<release, native>>
       ELSE Stop("failed")

-----------------------------------------------------------------------------
Init ==
    /\ release \in Release
    /\ native \in BOOLEAN
    /\ pass = "validate" /\ at = 1 /\ stage = "check"
    /\ order = <<>> /\ ran = {}
    /\ current = None /\ pending = {} /\ contracts = {} /\ files = {}
    /\ output = {}

PlanStep == Skip \/ Check \/ Reject \/ (\E i \in Plugins(k) : Place(i)) \/ Cycle \/ Planned

RunStep ==
    \/ Start
    \/ \E c \in Contract : Publish(c)
    \/ \E p \in Rel : Emit(p)
    \/ Return \/ Fail
    \/ Generated \/ Finalize \/ PostRan \/ Overlay \/ AppendTree

Next == PlanStep \/ RunStep
Spec == Init /\ [][Next]_vars

\* One thread, whose plugins return.
FairSpec == Spec /\ WF_vars(Next)

-----------------------------------------------------------------------------
(* Properties.                                                              *)

\* A plugin never meets "provider did not publish" or a provider that is still
\* to run: whatever it declared and is bound to has been published before it
\* starts, across the phases as well.
ReadsServed ==
    current # None =>
       \A q \in Requires(k, current) : \A p \in Selected(k, q) :
          <<p, q.contract>> \in contracts

\* The publications of a plugin become visible together: all it declares or
\* none, and none of a plugin that is still running or has failed.
CommittedWhole ==
    \A i \in Plugins(k) :
       {c \in Contract : <<i, c>> \in contracts} = IF i \in ran THEN Provides(k, i) ELSE {}

\* What validation accepted does not fail for a reason validation could have
\* seen: neither resolve nor the append of the package's files, only a plugin,
\* the finalizer or an overlay.
ValidationSuffices ==
    [][(pass = "generate" /\ stage \in {"check", "order", "append"})
          => stage' \notin {"failed", "cycle"}]_vars

\* What planning has come to, as its caller sees it.
PlanOutcome ==
    CASE stage = "check" -> "idle"
      [] stage = "order" -> "planning"
      [] stage = "cycle" -> "cycle"
      [] stage \in {"done", "failed"} /\ order = <<>> -> "idle"
      [] OTHER -> "ordered"
PlanGraph == [i \in Plugins(k) |-> Dependencies(k, i)]

\* resolve's loop is a planner: its order and its cycle error are right.
Planner == INSTANCE PlanOrder WITH graph <- PlanGraph, outcome <- PlanOutcome
ImplementsPlanner == Planner!Spec

\* Every generation comes to an end: planning never waits for a plugin that
\* cannot be placed, a phase never for one that is not in the plan.
GenerationEnds == <>(stage \in {"done", "failed", "cycle"})
=============================================================================
