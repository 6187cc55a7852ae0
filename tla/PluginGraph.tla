---------------------------- MODULE PluginGraph ----------------------------
(***************************************************************************)
(* The provider graph of one package, as Package::resolve builds it        *)
(* (crates/core/src/engine.rs).  A plugin is the index under which it was  *)
(* registered.  It has an instance id, a phase, the contracts it provides  *)
(* and the contracts it requires, each from an explicit provider (an id)   *)
(* or, when Unselected, from whichever plugin provides it.                 *)
(***************************************************************************)
EXTENDS Naturals, Sequences

CONSTANTS
    Contract,   \* contract types (TypeId)
    StableName, \* Contract |-> the stable name it is published under
    Instance,   \* instance ids
    Unselected, \* no explicit provider
    Package     \* packages that may be registered

Phase == {"generate", "post"}
Requirement == [contract : Contract, provider : Instance \cup {Unselected}, optional : BOOLEAN]

ASSUME GraphAssumption ==
    /\ Unselected \notin Instance
    /\ \A k \in Package :
          /\ k.phase \in Seq(Phase)
          /\ k.id \in [DOMAIN k.phase -> Instance]
          /\ k.provides \in [DOMAIN k.phase -> Seq(Contract)]
          /\ k.requires \in [DOMAIN k.phase -> Seq(Requirement)]

Elements(s) == {s[i] : i \in DOMAIN s}

Plugins(k) == DOMAIN k.phase
InPhase(k, f) == {i \in Plugins(k) : k.phase[i] = f}
Provides(k, i) == Elements(k.provides[i])
Requires(k, i) == Elements(k.requires[i])
Candidates(k, c) == {i \in Plugins(k) : c \in Provides(k, i)}

-----------------------------------------------------------------------------
(* The checks of resolve.                                                   *)

DistinctInstances(k) ==
    \A i, j \in Plugins(k) : k.id[i] = k.id[j] => i = j

Injective(s) == \A i, j \in DOMAIN s : s[i] = s[j] => i = j

Mentioned(k) ==
    UNION {Provides(k, i) \cup {q.contract : q \in Requires(k, i)} : i \in Plugins(k)}

\* One stable name is one contract type.
Compatible(k) ==
    \A c, d \in Mentioned(k) : StableName[c] = StableName[d] => c = d

\* The provider a requirement is bound to: a set of at most one plugin.
Selected(k, q) ==
    IF q.provider = Unselected THEN Candidates(k, q.contract)
    ELSE {i \in Plugins(k) : k.id[i] = q.provider}

\* A requirement has one provider, which provides it, or may go without.
Bindable(k, q) ==
    /\ \A i, j \in Selected(k, q) : i = j
    /\ Selected(k, q) \subseteq Candidates(k, q.contract)
    /\ Selected(k, q) = {} => q.provider = Unselected /\ q.optional

RequiresOnce(k, i) ==
    \A a, b \in DOMAIN k.requires[i] :
       k.requires[i][a].contract = k.requires[i][b].contract => a = b

\* Generation plugins cannot depend on post plugins.
PhasesAgree(k, i) ==
    k.phase[i] = "generate" =>
       \A q \in Requires(k, i) : Selected(k, q) \subseteq InPhase(k, "generate")

Resolvable(k) ==
    /\ DistinctInstances(k)
    /\ Compatible(k)
    /\ \A i \in Plugins(k) :
          /\ Injective(k.provides[i])
          /\ \A q \in Requires(k, i) : Bindable(k, q)
          /\ RequiresOnce(k, i)
          /\ PhasesAgree(k, i)

\* Faulty variant: an optional requirement does not order the plugins.
ProvidersRequired(k, i) ==
    UNION {Selected(k, q) : q \in {r \in Requires(k, i) : ~r.optional}}

Providers(k, i) == UNION {Selected(k, q) : q \in Requires(k, i)}

\* A post plugin depends on every generation plugin as well.
Dependencies(k, i) ==
    Providers(k, i) \cup (IF k.phase[i] = "post" THEN InPhase(k, "generate") ELSE {})
=============================================================================
