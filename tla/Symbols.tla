------------------------------ MODULE Symbols ------------------------------
(***************************************************************************)
(* SymbolRequests (crates/core/src/symbols/allocator.rs): names that the   *)
(* emitters of a target ask for are reserved, then allocated all at once   *)
(* and frozen.  A name is a word with the ordinals appended to it, so      *)
(* Order_2 is [word |-> Order, suffix |-> <<2>>].  resolve() is taken      *)
(* apart: its first loop, each turn of the second, and the freeze;         *)
(* namespaces share nothing, so their order is left open.                  *)
(***************************************************************************)
EXTENDS Naturals, Sequences, FiniteSets

CONSTANTS
    Entity,   \* source entities, numbered in the order of BlockId
    Target,
    Module,   \* canonical target-relative modules
    Word,
    Lower(_), \* words and modules in lower case
    Preferred, \* names that may be asked for
    MaxOrdinal, \* the last suffix, u64::MAX in the code
    MaxRequests, \* bound on reserved symbols
    MaxForbidden \* bound on reserved external names

ASSUME EntityAssumption == Entity \subseteq Nat
ASSUME BoundsAssumption ==
    MaxOrdinal \in Nat /\ MaxRequests \in Nat /\ MaxForbidden \in Nat

Name == [word : Word, suffix : Seq(Nat)]
SymbolKey == [entity : Entity, target : Target, module : Module]

ASSUME PreferredAssumption == Preferred \subseteq Name

VARIABLES
    requests,  \* symbol key |-> preferred name
    forbidden, \* <<target, module, name>> reserved for the runtime
    sensitive, \* target |-> whether case matters, where rules were given
    step,      \* planning, suffixing (in the second loop) or resolved
    symbols    \* symbol key |-> allocated name

symbolVars == <<requests, forbidden, sensitive, step, symbols>>

-----------------------------------------------------------------------------
NoNames == [k \in {} |-> k]

SameNamespace(k, l) == k.target = l.target /\ k.module = l.module

Sensitive(t) == t \in DOMAIN sensitive => sensitive[t]

\* Names are compared after folding.
Folded(t, n) ==
    IF Sensitive(t) THEN n
    ELSE [word |-> Lower(n.word), suffix |-> n.suffix]

\* What k may not be called because of the runtime,
Foreign(k, n) ==
    \E f \in forbidden :
        f[1] = k.target /\ f[2] = k.module /\ Folded(k.target, f[3]) = Folded(k.target, n)

\* because somebody in its namespace prefers it,
Wanted(k, n) ==
    \E l \in DOMAIN requests :
        SameNamespace(k, l) /\ Folded(k.target, requests[l]) = Folded(k.target, n)

\* or because it has been given away.
Taken(k, n) ==
    \E l \in DOMAIN symbols :
        SameNamespace(k, l) /\ Folded(k.target, symbols[l]) = Folded(k.target, n)

\* Modules that differ in case only cannot be told apart on every file system.
Used(t) ==
    {k.module : k \in {l \in DOMAIN requests : l.target = t}}
    \cup {f[2] : f \in {g \in forbidden : g[1] = t}}
Portable ==
    \A t \in Target : \A m, n \in Used(t) : Lower(m) = Lower(n) => m = n

-----------------------------------------------------------------------------
TargetRules(t, s) ==
    /\ step = "planning"
    /\ Used(t) = {}
    /\ sensitive' = [u \in DOMAIN sensitive \cup {t} |-> IF u = t THEN s ELSE sensitive[u]]
    /\ UNCHANGED <<requests, forbidden, step, symbols>>

ReserveName(t, m, n) ==
    /\ step = "planning"
    /\ Cardinality(forbidden) < MaxForbidden
    /\ forbidden' = forbidden \cup {<<t, m, n>>}
    /\ UNCHANGED <<requests, sensitive, step, symbols>>

\* A second request for the same symbol is the first, or fails.
Reserve(k, n) ==
    /\ step = "planning"
    /\ k \notin DOMAIN requests
    /\ Cardinality(DOMAIN requests) < MaxRequests
    /\ requests' = [l \in DOMAIN requests \cup {k} |-> IF l = k THEN n ELSE requests[l]]
    /\ UNCHANGED <<forbidden, sensitive, step, symbols>>

\* Faulty variant: the runtime's names are compared as they are written.
KeepsWithoutFolding(k) ==
    /\ ~\E f \in forbidden : f = <<k.target, k.module, requests[k]>>
    /\ \A l \in DOMAIN requests :
          SameNamespace(k, l) /\ Folded(k.target, requests[l]) = Folded(k.target, requests[k])
             => k.entity <= l.entity

\* Faulty variant: a name that two entities prefer is kept by none.
KeepsUnlessShared(k) ==
    /\ ~Foreign(k, requests[k])
    /\ \A l \in DOMAIN requests :
          SameNamespace(k, l) /\ Folded(k.target, requests[l]) = Folded(k.target, requests[k])
             => k = l

\* The first entity that prefers a name keeps it.
Keeps(k) ==
    /\ ~Foreign(k, requests[k])
    /\ \A l \in DOMAIN requests :
          SameNamespace(k, l) /\ Folded(k.target, requests[l]) = Folded(k.target, requests[k])
             => k.entity <= l.entity

Resolve ==
    /\ step = "planning"
    /\ Portable
    /\ step' = "suffixing"
    /\ symbols' = [k \in {l \in DOMAIN requests : Keeps(l)} |-> requests[k]]
    /\ UNCHANGED <<requests, forbidden, sensitive>>

Pending == DOMAIN requests \ DOMAIN symbols

Suffixed(k, o) == [word |-> requests[k].word, suffix |-> Append(requests[k].suffix, o)]

Free(k, o) ==
    ~Foreign(k, Suffixed(k, o)) /\ ~Wanted(k, Suffixed(k, o)) /\ ~Taken(k, Suffixed(k, o))

NextUp(k) ==
    /\ step = "suffixing"
    /\ k \in Pending
    /\ \A l \in Pending : SameNamespace(k, l) => k.entity <= l.entity

\* The first ordinal from 2 on that makes the name free.
Suffix(k, o) ==
    /\ NextUp(k)
    /\ Free(k, o)
    /\ \A i \in 2..(o - 1) : ~Free(k, i)
    /\ symbols' = [l \in DOMAIN symbols \cup {k} |->
                      IF l = k THEN Suffixed(k, o) ELSE symbols[l]]
    /\ UNCHANGED <<requests, forbidden, sensitive, step>>

\* Faulty variant: what was allocated so far stays.
ExhaustedKeeping(k) ==
    /\ NextUp(k)
    /\ \A o \in 2..MaxOrdinal : ~Free(k, o)
    /\ step' = "planning"
    /\ UNCHANGED <<requests, forbidden, sensitive, symbols>>

\* Without one nothing is resolved.
Exhausted(k) ==
    /\ NextUp(k)
    /\ \A o \in 2..MaxOrdinal : ~Free(k, o)
    /\ step' = "planning"
    /\ symbols' = NoNames
    /\ UNCHANGED <<requests, forbidden, sensitive>>

Freeze ==
    /\ step = "suffixing"
    /\ Pending = {}
    /\ step' = "resolved"
    /\ UNCHANGED <<requests, forbidden, sensitive, symbols>>

-----------------------------------------------------------------------------
SymbolsInit ==
    /\ requests = NoNames /\ forbidden = {} /\ sensitive = NoNames
    /\ step = "planning" /\ symbols = NoNames

SymbolsNext ==
    \/ \E t \in Target, s \in BOOLEAN : TargetRules(t, s)
    \/ \E t \in Target, m \in Module, n \in Preferred : ReserveName(t, m, n)
    \/ \E k \in SymbolKey, n \in Preferred : Reserve(k, n)
    \/ Resolve
    \/ \E k \in SymbolKey, o \in 2..MaxOrdinal : Suffix(k, o)
    \/ \E k \in SymbolKey : Exhausted(k)
    \/ Freeze

SymbolsSpec == SymbolsInit /\ [][SymbolsNext]_symbolVars

-----------------------------------------------------------------------------
(* Properties.                                                              *)

SymbolsTypeOK ==
    /\ DOMAIN requests \subseteq SymbolKey
    /\ \A k \in DOMAIN requests : requests[k] \in Preferred
    /\ forbidden \subseteq Target \X Module \X Preferred
    /\ DOMAIN sensitive \subseteq Target
    /\ \A t \in DOMAIN sensitive : sensitive[t] \in BOOLEAN
    /\ step \in {"planning", "suffixing", "resolved"}
    /\ DOMAIN symbols \subseteq DOMAIN requests
    /\ \A k \in DOMAIN symbols : symbols[k] \in Name
    /\ step = "planning" => symbols = NoNames
    /\ step = "resolved" => DOMAIN symbols = DOMAIN requests

\* Two symbols of a module never get names that the target cannot tell apart,
\* and none gets a name of the runtime.
NamesDistinct ==
    \A k \in DOMAIN symbols :
       /\ ~Foreign(k, symbols[k])
       /\ \A l \in DOMAIN symbols :
             SameNamespace(k, l) /\ Folded(k.target, symbols[k]) = Folded(k.target, symbols[l])
                => k = l

\* Docs: suffixes are allocated "without stealing a name such as another
\* entity's explicit Order_2".  A symbol is called what it asked for or what
\* nobody in its module did, and if somebody is refused a name that the
\* runtime does not need, somebody else who asked for it has it.
NothingStolen ==
    /\ \A k \in DOMAIN symbols :
          symbols[k] = requests[k] \/ ~Wanted(k, symbols[k])
    /\ step # "planning" =>
          \A k \in DOMAIN requests :
             ~Foreign(k, requests[k]) =>
                \E l \in DOMAIN symbols :
                   /\ SameNamespace(k, l) /\ symbols[l] = requests[l]
                   /\ Folded(k.target, requests[l]) = Folded(k.target, requests[k])

\* The outcome is a function of the reservations: each suffix is the first that
\* is free of the runtime, of preferences and of entities before, so that the
\* order of reservation, of namespaces and of later entities does not show.
\* If the ordinals run out, nothing is kept of what was allocated before.
SuffixesAreFirst ==
    /\ \A k \in DOMAIN symbols : symbols[k] # requests[k] =>
          \E o \in 2..MaxOrdinal :
             /\ symbols[k] = Suffixed(k, o)
             /\ \A i \in 2..(o - 1) :
                   \/ Foreign(k, Suffixed(k, i))
                   \/ Wanted(k, Suffixed(k, i))
                   \/ \E l \in DOMAIN symbols :
                         /\ SameNamespace(k, l) /\ l.entity < k.entity
                         /\ Folded(k.target, symbols[l]) = Folded(k.target, Suffixed(k, i))
    /\ step = "planning" => symbols = NoNames
=============================================================================
