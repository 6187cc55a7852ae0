--------------------------- MODULE SymbolsProofs ---------------------------
(***************************************************************************)
(* For any entities, targets, modules, names and way of folding them, the  *)
(* allocation of Symbols keeps its types, gives no two symbols of a module *)
(* names that the target cannot tell apart, takes from nobody a name that  *)
(* was asked for, and appends the first free suffix where it must.         *)
(***************************************************************************)
EXTENDS Symbols, NumberLemmas

\* Types, distinct names and kept names together are inductive: a suffix is distinct from
\* what was allocated before only because all of that is in Taken, and the
\* first loop's names are distinct because entities are ordered.
IInv == SymbolsTypeOK /\ NamesDistinct /\ NothingStolen

LEMMA KeyIsItsParts ==
    ASSUME NEW k \in SymbolKey, NEW l \in SymbolKey,
           k.entity = l.entity, SameNamespace(k, l)
    PROVE  k = l
BY DEF SymbolKey, SameNamespace

LEMMA SuffixedType ==
    ASSUME SymbolsTypeOK, NEW k \in DOMAIN requests, NEW o \in Nat
    PROVE  Suffixed(k, o) \in Name
<1>1. requests[k] \in Name
  BY PreferredAssumption DEF SymbolsTypeOK
<1>2. Append(requests[k].suffix, o) \in Seq(Nat)
  BY <1>1 DEF Name
<1> QED
  BY <1>1, <1>2 DEF Suffixed, Name

LEMMA InitHolds == SymbolsInit => IInv
BY DEF SymbolsInit, IInv, SymbolsTypeOK, NamesDistinct, NothingStolen, NoNames

LEMMA NextType ==
    ASSUME SymbolsTypeOK, [SymbolsNext]_symbolVars
    PROVE  SymbolsTypeOK'
<1>1. ASSUME NEW t \in Target, NEW s \in BOOLEAN, TargetRules(t, s) PROVE SymbolsTypeOK'
  BY <1>1 DEF TargetRules, SymbolsTypeOK, NoNames
<1>2. ASSUME NEW t \in Target, NEW m \in Module, NEW n \in Preferred, ReserveName(t, m, n)
      PROVE  SymbolsTypeOK'
  BY <1>2 DEF ReserveName, SymbolsTypeOK, NoNames
<1>3. ASSUME NEW k \in SymbolKey, NEW n \in Preferred, Reserve(k, n) PROVE SymbolsTypeOK'
  BY <1>3 DEF Reserve, SymbolsTypeOK, NoNames
<1>4. ASSUME Resolve PROVE SymbolsTypeOK'
  BY <1>4, PreferredAssumption DEF Resolve, SymbolsTypeOK, NoNames
<1>5. ASSUME NEW k \in SymbolKey, NEW o \in 2..MaxOrdinal, Suffix(k, o) PROVE SymbolsTypeOK'
  <2>1. k \in DOMAIN requests /\ step = "suffixing"
    BY <1>5 DEF Suffix, NextUp, Pending
  <2>2. Suffixed(k, o) \in Name
    BY <2>1, SuffixedType, BoundsAssumption
  <2> QED
    BY <1>5, <2>1, <2>2 DEF Suffix, SymbolsTypeOK, NoNames
<1>6. ASSUME NEW k \in SymbolKey, Exhausted(k) PROVE SymbolsTypeOK'
  BY <1>6 DEF Exhausted, SymbolsTypeOK, NoNames
<1>7. ASSUME Freeze PROVE SymbolsTypeOK'
  BY <1>7 DEF Freeze, SymbolsTypeOK, Pending, NoNames
<1>8. ASSUME UNCHANGED symbolVars PROVE SymbolsTypeOK'
  BY <1>8 DEF symbolVars, SymbolsTypeOK, NoNames
<1> QED
  BY <1>1, <1>2, <1>3, <1>4, <1>5, <1>6, <1>7, <1>8 DEF SymbolsNext

LEMMA NextDistinct ==
    ASSUME IInv, [SymbolsNext]_symbolVars
    PROVE  NamesDistinct'
<1> USE DEF IInv
<1>1. CASE symbols' = NoNames
  BY <1>1 DEF NamesDistinct, NoNames
<1>2. CASE Resolve
  <2>1. ASSUME NEW k \in DOMAIN symbols' PROVE ~Foreign(k, symbols[k])'
    BY <1>2, <2>1 DEF Resolve, Keeps, Foreign, Folded, Sensitive
  <2>2. ASSUME NEW k \in DOMAIN symbols', NEW l \in DOMAIN symbols', SameNamespace(k, l),
               Folded(k.target, symbols[k])' = Folded(k.target, symbols[l])'
        PROVE  k = l
    <3>1. /\ Keeps(k) /\ Keeps(l) /\ k \in DOMAIN requests /\ l \in DOMAIN requests
          /\ symbols'[k] = requests[k] /\ symbols'[l] = requests[l]
      BY <1>2, <2>2 DEF Resolve
    <3>2. Folded(k.target, requests[k]) = Folded(k.target, requests[l])
      BY <1>2, <2>2, <3>1 DEF Resolve, Folded, Sensitive
    <3>3. k.entity <= l.entity /\ l.entity <= k.entity
      BY <2>2, <3>1, <3>2 DEF Keeps, SameNamespace
    <3>4. k \in SymbolKey /\ l \in SymbolKey
      BY <3>1 DEF SymbolsTypeOK
    <3>5. k.entity = l.entity
      <4>1. k.entity \in Nat /\ l.entity \in Nat
        BY <3>4, EntityAssumption DEF SymbolKey
      <4> QED
        BY <3>3, <4>1
    <3> QED
      BY <2>2, <3>4, <3>5, KeyIsItsParts
  <2> QED
    BY <2>1, <2>2 DEF NamesDistinct, SameNamespace
<1>3. ASSUME NEW k \in SymbolKey, NEW o \in 2..MaxOrdinal, Suffix(k, o)
      PROVE  NamesDistinct'
  <2> DEFINE new == Suffixed(k, o)
  <2>1. /\ symbols' = [l \in DOMAIN symbols \cup {k} |-> IF l = k THEN new ELSE symbols[l]]
        /\ UNCHANGED <<requests, forbidden, sensitive>>
        /\ ~Foreign(k, new) /\ ~Taken(k, new) /\ k \notin DOMAIN symbols
    BY <1>3 DEF Suffix, Free, NextUp, Pending
  <2> HIDE DEF new
  <2>2. ASSUME NEW l \in DOMAIN symbols'
        PROVE  ~Foreign(l, symbols[l])'
    BY <2>1, <2>2 DEF NamesDistinct, Foreign, Folded, Sensitive
  <2>3. ASSUME NEW l \in DOMAIN symbols', NEW m \in DOMAIN symbols', SameNamespace(l, m),
               Folded(l.target, symbols[l])' = Folded(l.target, symbols[m])'
        PROVE  l = m
    <3>1. Folded(l.target, symbols'[l]) = Folded(l.target, symbols'[m])
      BY <2>1, <2>3 DEF Folded, Sensitive
    <3>2. CASE l = k /\ m # k
      BY <2>1, <2>3, <3>1, <3>2 DEF Taken
    <3>3. CASE m = k /\ l # k
      <4>1. SameNamespace(k, l) /\ Folded(k.target, symbols[l]) = Folded(k.target, new)
        BY <2>1, <2>3, <3>1, <3>3 DEF SameNamespace
      <4> QED
        BY <2>1, <2>3, <3>3, <4>1 DEF Taken
    <3>4. CASE l # k /\ m # k
      BY <2>1, <2>3, <3>1, <3>4 DEF NamesDistinct
    <3> QED
      BY <3>2, <3>3, <3>4
  <2> QED
    BY <2>2, <2>3 DEF NamesDistinct, SameNamespace
<1>4. CASE UNCHANGED <<requests, forbidden, sensitive, symbols>>
  BY <1>4 DEF NamesDistinct, SameNamespace, Foreign, Folded, Sensitive
<1>5. step = "planning" => symbols = NoNames
  BY DEF SymbolsTypeOK
<1>6. ASSUME NEW t \in Target, NEW s \in BOOLEAN, TargetRules(t, s) PROVE symbols' = NoNames
  BY <1>5, <1>6 DEF TargetRules
<1>7. ASSUME NEW t \in Target, NEW m \in Module, NEW n \in Preferred, ReserveName(t, m, n)
      PROVE  symbols' = NoNames
  BY <1>5, <1>7 DEF ReserveName
<1>8. ASSUME NEW k \in SymbolKey, NEW n \in Preferred, Reserve(k, n) PROVE symbols' = NoNames
  BY <1>5, <1>8 DEF Reserve
<1>9. ASSUME NEW k \in SymbolKey, Exhausted(k) PROVE symbols' = NoNames
  BY <1>9 DEF Exhausted
<1> QED
  BY <1>1, <1>2, <1>3, <1>4, <1>6, <1>7, <1>8, <1>9 DEF SymbolsNext, symbolVars, Freeze

\* Of those who ask for a name the runtime leaves free, the first keeps it.
LEMMA FirstKeeps ==
    ASSUME SymbolsTypeOK, NEW k \in DOMAIN requests, ~Foreign(k, requests[k])
    PROVE  \E l \in DOMAIN requests :
              /\ SameNamespace(k, l) /\ Keeps(l)
              /\ Folded(k.target, requests[l]) = Folded(k.target, requests[k])
<1> DEFINE Rivals == {l \in DOMAIN requests :
              /\ SameNamespace(k, l)
              /\ Folded(k.target, requests[l]) = Folded(k.target, requests[k])}
           Ages == {l.entity : l \in Rivals}
<1>1. \A l \in Rivals : l \in SymbolKey /\ l.entity \in Nat
  BY EntityAssumption DEF SymbolsTypeOK, SymbolKey
<1>2. Ages \in SUBSET Nat /\ k.entity \in Ages
  BY <1>1 DEF SameNamespace
<1>3. PICK a \in Ages : \A b \in Ages : a <= b
  <2> HIDE DEF Ages
  <2> QED
    BY <1>2, LeastNumber
<1>4. PICK l \in Rivals : l.entity = a
  OBVIOUS
<1>5. ~Foreign(l, requests[l])
  BY <1>4 DEF Foreign, SameNamespace
<1>6. ASSUME NEW m \in DOMAIN requests, SameNamespace(l, m),
             Folded(l.target, requests[m]) = Folded(l.target, requests[l])
      PROVE  l.entity <= m.entity
  <2>1. m \in Rivals
    BY <1>4, <1>6 DEF SameNamespace
  <2> QED
    BY <1>3, <1>4, <2>1
<1> QED
  BY <1>4, <1>5, <1>6 DEF Keeps

LEMMA NextKept ==
    ASSUME IInv, [SymbolsNext]_symbolVars
    PROVE  NothingStolen'
<1> USE DEF IInv
<1>1. CASE Resolve
  <2>1. ASSUME NEW k \in DOMAIN requests', ~Foreign(k, requests[k])'
        PROVE  \E l \in DOMAIN symbols' :
                  /\ SameNamespace(k, l) /\ symbols'[l] = requests'[l]
                  /\ Folded(k.target, requests[l])' = Folded(k.target, requests[k])'
    <3>1. k \in DOMAIN requests /\ ~Foreign(k, requests[k])
      BY <1>1, <2>1 DEF Resolve, Foreign, Folded, Sensitive
    <3>2. PICK l \in DOMAIN requests :
             /\ SameNamespace(k, l) /\ Keeps(l)
             /\ Folded(k.target, requests[l]) = Folded(k.target, requests[k])
      BY <3>1, FirstKeeps
    <3> QED
      BY <1>1, <3>2 DEF Resolve, Folded, Sensitive
  <2>2. \A k \in DOMAIN symbols' : symbols'[k] = requests'[k]
    BY <1>1 DEF Resolve
  <2> QED
    BY <2>1, <2>2 DEF NothingStolen, SameNamespace
<1>2. ASSUME NEW k \in SymbolKey, NEW o \in 2..MaxOrdinal, Suffix(k, o)
      PROVE  NothingStolen'
  <2> DEFINE new == Suffixed(k, o)
  <2>1. /\ symbols' = [l \in DOMAIN symbols \cup {k} |-> IF l = k THEN new ELSE symbols[l]]
        /\ UNCHANGED <<requests, forbidden, sensitive, step>>
        /\ ~Wanted(k, new) /\ k \notin DOMAIN symbols
    BY <1>2 DEF Suffix, Free, NextUp, Pending
  <2> HIDE DEF new
  <2>2. ASSUME NEW l \in DOMAIN symbols'
        PROVE  symbols'[l] = requests'[l] \/ ~Wanted(l, symbols[l])'
    <3>1. CASE l = k
      <4>1. PICK n : n = new
        OBVIOUS
      <4>2. symbols'[k] = n /\ ~Wanted(k, n)
        BY <2>1, <4>1
      <4>3. ~Wanted(k, n)'
        BY <2>1, <4>2 DEF Wanted, Folded, Sensitive
      <4> QED
        BY <3>1, <4>2, <4>3 DEF Wanted
    <3>2. CASE l # k
      <4>1. l \in DOMAIN symbols /\ symbols'[l] = symbols[l]
        BY <2>1, <2>2, <3>2
      <4>2. Wanted(l, symbols[l])' = Wanted(l, symbols[l])
        BY <2>1, <4>1 DEF Wanted, Folded, Sensitive, SameNamespace
      <4> QED
        BY <2>1, <4>1, <4>2 DEF NothingStolen
    <3> QED
      BY <3>1, <3>2
  <2>3. ASSUME step' # "planning", NEW m \in DOMAIN requests', ~Foreign(m, requests[m])'
        PROVE  \E l \in DOMAIN symbols' :
                  /\ SameNamespace(m, l) /\ symbols'[l] = requests'[l]
                  /\ Folded(m.target, requests[l])' = Folded(m.target, requests[m])'
    <3>1. PICK l \in DOMAIN symbols :
             /\ SameNamespace(m, l) /\ symbols[l] = requests[l]
             /\ Folded(m.target, requests[l]) = Folded(m.target, requests[m])
      BY <2>1, <2>3 DEF NothingStolen, Foreign, Folded, Sensitive
    <3> QED
      BY <2>1, <3>1 DEF Folded, Sensitive
  <2> QED
    BY <2>2, <2>3 DEF NothingStolen, SameNamespace
<1>3. CASE UNCHANGED <<requests, forbidden, sensitive, symbols>> /\ (step' = step \/ step # "planning")
  <2>1. /\ \A k \in DOMAIN symbols : Wanted(k, symbols[k])' <=> Wanted(k, symbols[k])
        /\ \A k \in DOMAIN requests : Foreign(k, requests[k])' <=> Foreign(k, requests[k])
        /\ \A k, l \in DOMAIN requests :
              Folded(k.target, requests[l])' = Folded(k.target, requests[l])
    BY <1>3 DEF Foreign, Wanted, Folded, Sensitive
  <2>2. DOMAIN symbols \subseteq DOMAIN requests
    BY DEF SymbolsTypeOK
  <2> QED
    BY <1>3, <2>1, <2>2 DEF NothingStolen
<1>4. CASE step' = "planning" /\ symbols' = NoNames
  BY <1>4 DEF NothingStolen, NoNames
<1>5. step = "planning" => symbols = NoNames
  BY DEF SymbolsTypeOK
<1>6. ASSUME NEW t \in Target, NEW s \in BOOLEAN, TargetRules(t, s) PROVE NothingStolen'
  BY <1>4, <1>5, <1>6 DEF TargetRules
<1>7. ASSUME NEW t \in Target, NEW m \in Module, NEW n \in Preferred, ReserveName(t, m, n)
      PROVE  NothingStolen'
  BY <1>4, <1>5, <1>7 DEF ReserveName
<1>8. ASSUME NEW k \in SymbolKey, NEW n \in Preferred, Reserve(k, n) PROVE NothingStolen'
  BY <1>4, <1>5, <1>8 DEF Reserve
<1>9. ASSUME NEW k \in SymbolKey, Exhausted(k) PROVE NothingStolen'
  BY <1>4, <1>9 DEF Exhausted
<1>10. CASE Freeze
  BY <1>3, <1>10 DEF Freeze
<1>11. CASE UNCHANGED symbolVars
  BY <1>3, <1>11 DEF symbolVars
<1> QED
  BY <1>1, <1>2, <1>6, <1>7, <1>8, <1>9, <1>10, <1>11 DEF SymbolsNext

\* Types, distinct names and kept names are invariant together.
THEOREM Invariance == SymbolsSpec => []IInv
<1>1. IInv /\ [SymbolsNext]_symbolVars => IInv'
  BY NextType, NextDistinct, NextKept DEF IInv
<1> QED
  BY <1>1, InitHolds, PTL DEF SymbolsSpec

\* Every variable keeps its type, and a failed resolution leaves nothing behind.
THEOREM TypeCorrect == SymbolsSpec => []SymbolsTypeOK
<1>1. IInv => SymbolsTypeOK
  BY DEF IInv
<1> QED
  BY <1>1, Invariance, PTL

\* No two symbols of a module are ever given names that the target's comparison
\* equates, nor any a name of the runtime, for any folding of names.
THEOREM NamesAreDistinct == SymbolsSpec => []NamesDistinct
<1>1. IInv => NamesDistinct
  BY DEF IInv
<1> QED
  BY <1>1, Invariance, PTL

\* Every symbol is called what it asked for or what nobody in its module did,
\* and a name the runtime leaves free goes to one of those who asked for it.
THEOREM NothingIsStolen == SymbolsSpec => []NothingStolen
<1>1. IInv => NothingStolen
  BY DEF IInv
<1> QED
  BY <1>1, Invariance, PTL

-----------------------------------------------------------------------------
(* Suffixes.                                                                *)

\* Suffixes go to the entities of a namespace in their order, so that whoever
\* has one came before all that still wait.
AllocatedInOrder ==
    \A l \in DOMAIN symbols : symbols[l] # requests[l] =>
       \A k \in Pending : SameNamespace(k, l) => l.entity < k.entity

SuffixInv == SuffixesAreFirst /\ AllocatedInOrder

\* What is taken from k was asked for by somebody, or given to one before k.
LEMMA TakenBefore ==
    ASSUME IInv, AllocatedInOrder, NEW k \in Pending, NEW n, Taken(k, n)
    PROVE  \/ Wanted(k, n)
           \/ \E l \in DOMAIN symbols :
                 /\ SameNamespace(k, l) /\ l.entity < k.entity
                 /\ Folded(k.target, symbols[l]) = Folded(k.target, n)
<1>1. PICK l \in DOMAIN symbols :
         SameNamespace(k, l) /\ Folded(k.target, symbols[l]) = Folded(k.target, n)
  BY DEF Taken
<1>2. CASE symbols[l] = requests[l]
  BY <1>1, <1>2 DEF Wanted, IInv, SymbolsTypeOK
<1>3. CASE symbols[l] # requests[l]
  BY <1>1, <1>3 DEF AllocatedInOrder
<1> QED
  BY <1>2, <1>3

LEMMA SuffixKeepsOrder ==
    ASSUME IInv, AllocatedInOrder, NEW k \in SymbolKey, NEW o \in 2..MaxOrdinal, Suffix(k, o)
    PROVE  AllocatedInOrder'
<1>1. /\ symbols' = [l \in DOMAIN symbols \cup {k} |->
                        IF l = k THEN Suffixed(k, o) ELSE symbols[l]]
      /\ requests' = requests /\ k \in Pending
      /\ \A l \in Pending : SameNamespace(k, l) => k.entity <= l.entity
  BY DEF Suffix, NextUp
<1>2. DOMAIN symbols' = DOMAIN symbols \cup {k} /\ Pending' = Pending \ {k}
  BY <1>1 DEF Pending
<1> SUFFICES ASSUME NEW l \in DOMAIN symbols', symbols'[l] # requests'[l],
                    NEW m \in Pending', SameNamespace(m, l)
             PROVE  l.entity < m.entity
  BY DEF AllocatedInOrder, SameNamespace
<1>3. CASE l = k
  <2>1. m \in SymbolKey /\ m # k /\ SameNamespace(k, m)
    BY <1>2, <1>3 DEF Pending, IInv, SymbolsTypeOK, SameNamespace
  <2>2. k.entity <= m.entity /\ k.entity # m.entity
    BY <1>1, <1>2, <2>1, KeyIsItsParts
  <2>3. k.entity \in Nat /\ m.entity \in Nat
    BY <2>1, EntityAssumption DEF SymbolKey
  <2> QED
    BY <1>3, <2>2, <2>3
<1>4. CASE l # k
  <2>1. l \in DOMAIN symbols /\ symbols'[l] = symbols[l] /\ m \in Pending
    BY <1>1, <1>2, <1>4
  <2> QED
    BY <1>1, <2>1 DEF AllocatedInOrder
<1> QED
  BY <1>3, <1>4

LEMMA SuffixStaysFirst ==
    ASSUME IInv, SuffixInv, NEW k \in SymbolKey, NEW o \in 2..MaxOrdinal, Suffix(k, o)
    PROVE  SuffixesAreFirst'
<1>1. /\ symbols' = [l \in DOMAIN symbols \cup {k} |->
                        IF l = k THEN Suffixed(k, o) ELSE symbols[l]]
      /\ UNCHANGED <<requests, forbidden, sensitive, step>>
      /\ step = "suffixing" /\ k \in Pending
      /\ \A i \in 2..(o - 1) : ~Free(k, i)
  BY DEF Suffix, NextUp
<1>2. DOMAIN symbols' = DOMAIN symbols \cup {k} /\ k \notin DOMAIN symbols
  BY <1>1 DEF Pending
<1>3. ASSUME NEW l \in DOMAIN symbols', symbols'[l] # requests'[l]
      PROVE  \E p \in 2..MaxOrdinal :
                /\ symbols'[l] = Suffixed(l, p)
                /\ \A i \in 2..(p - 1) :
                      \/ Foreign(l, Suffixed(l, i))
                      \/ Wanted(l, Suffixed(l, i))
                      \/ \E m \in DOMAIN symbols' :
                            /\ SameNamespace(l, m) /\ m.entity < l.entity
                            /\ Folded(l.target, symbols'[m]) = Folded(l.target, Suffixed(l, i))
  <2>1. \A m \in DOMAIN symbols : m \in DOMAIN symbols' /\ symbols'[m] = symbols[m]
    BY <1>1, <1>2
  <2>2. CASE l = k
    <3>1. ASSUME NEW i \in 2..(o - 1)
          PROVE  \/ Foreign(k, Suffixed(k, i))
                 \/ Wanted(k, Suffixed(k, i))
                 \/ \E m \in DOMAIN symbols :
                       /\ SameNamespace(k, m) /\ m.entity < k.entity
                       /\ Folded(k.target, symbols[m]) = Folded(k.target, Suffixed(k, i))
      <4> QED
        BY <1>1, TakenBefore DEF Free, SuffixInv
    <3>2. symbols'[k] = Suffixed(k, o)
      BY <1>1
    <3> QED
      BY <2>1, <2>2, <3>1, <3>2
  <2>3. CASE l # k
    <3>1. l \in DOMAIN symbols /\ symbols[l] # requests[l] /\ symbols'[l] = symbols[l]
      BY <1>1, <1>2, <1>3, <2>3
    <3> QED
      BY <2>1, <3>1 DEF SuffixInv, SuffixesAreFirst
  <2> QED
    BY <2>2, <2>3
<1>4. /\ \A l, i : Suffixed(l, i)' = Suffixed(l, i)
      /\ \A t, n : Folded(t, n)' = Folded(t, n)
  BY <1>1 DEF Suffixed, Folded, Sensitive
<1>5. ASSUME NEW l, NEW i
      PROVE  /\ Foreign(l, Suffixed(l, i))' = Foreign(l, Suffixed(l, i))
             /\ Wanted(l, Suffixed(l, i))' = Wanted(l, Suffixed(l, i))
             /\ Folded(l.target, Suffixed(l, i))' = Folded(l.target, Suffixed(l, i))
             /\ \A m : Folded(l.target, symbols[m])' = Folded(l.target, symbols'[m])
  BY <1>1 DEF Foreign, Wanted, SameNamespace, Suffixed, Folded, Sensitive
<1>6. ASSUME NEW l \in DOMAIN symbols', symbols'[l] # requests'[l]
      PROVE  \E p \in 2..MaxOrdinal :
                /\ symbols'[l] = Suffixed(l, p)'
                /\ \A i \in 2..(p - 1) :
                      \/ Foreign(l, Suffixed(l, i))'
                      \/ Wanted(l, Suffixed(l, i))'
                      \/ \E m \in DOMAIN symbols' :
                            /\ SameNamespace(l, m) /\ m.entity < l.entity
                            /\ Folded(l.target, symbols[m])' = Folded(l.target, Suffixed(l, i))'
  <2>1. PICK p \in 2..MaxOrdinal :
                /\ symbols'[l] = Suffixed(l, p)
                /\ \A i \in 2..(p - 1) :
                      \/ Foreign(l, Suffixed(l, i))
                      \/ Wanted(l, Suffixed(l, i))
                      \/ \E m \in DOMAIN symbols' :
                            /\ SameNamespace(l, m) /\ m.entity < l.entity
                            /\ Folded(l.target, symbols'[m]) = Folded(l.target, Suffixed(l, i))
    BY <1>3, <1>6
  <2>2. Suffixed(l, p)' = Suffixed(l, p)
    BY <1>4
  <2> QED
    BY <1>5, <2>1, <2>2
<1>7. step' # "planning"
  BY <1>1
<1> QED
  BY <1>6, <1>7 DEF SuffixesAreFirst, SameNamespace

LEMMA NextSuffixInv ==
    ASSUME IInv, SuffixInv, [SymbolsNext]_symbolVars
    PROVE  SuffixInv'
<1>1. CASE symbols' = NoNames
  BY <1>1 DEF SuffixInv, SuffixesAreFirst, AllocatedInOrder, NoNames
<1>2. CASE Resolve
  <2>1. step' = "suffixing" /\ \A k \in DOMAIN symbols' : symbols'[k] = requests'[k]
    BY <1>2 DEF Resolve
  <2> QED
    BY <2>1 DEF SuffixInv, SuffixesAreFirst, AllocatedInOrder
<1>3. ASSUME NEW k \in SymbolKey, NEW o \in 2..MaxOrdinal, Suffix(k, o)
      PROVE  SuffixInv'
  BY <1>3, SuffixKeepsOrder, SuffixStaysFirst DEF SuffixInv
<1>4. CASE UNCHANGED <<requests, forbidden, sensitive, symbols>> /\ (step' = step \/ step' = "resolved")
  <2>1. AllocatedInOrder'
    BY <1>4 DEF SuffixInv, AllocatedInOrder, Pending, SameNamespace
  <2>2. /\ \A l, i : Suffixed(l, i)' = Suffixed(l, i)
        /\ \A t, n : Folded(t, n)' = Folded(t, n)
    BY <1>4 DEF Suffixed, Folded, Sensitive
  <2>3. \A l, n : Foreign(l, n)' = Foreign(l, n) /\ Wanted(l, n)' = Wanted(l, n)
    BY <1>4, <2>2 DEF Foreign, Wanted, SameNamespace
  <2>4. SuffixesAreFirst'
    BY <1>4, <2>2, <2>3 DEF SuffixInv, SuffixesAreFirst, SameNamespace
  <2> QED
    BY <2>1, <2>4 DEF SuffixInv
<1>5. step = "planning" => symbols = NoNames
  BY DEF IInv, SymbolsTypeOK
<1>6. ASSUME NEW t \in Target, NEW s \in BOOLEAN, TargetRules(t, s) PROVE SuffixInv'
  BY <1>1, <1>5, <1>6 DEF TargetRules
<1>7. ASSUME NEW t \in Target, NEW m \in Module, NEW n \in Preferred, ReserveName(t, m, n)
      PROVE  SuffixInv'
  BY <1>1, <1>5, <1>7 DEF ReserveName
<1>8. ASSUME NEW k \in SymbolKey, NEW n \in Preferred, Reserve(k, n) PROVE SuffixInv'
  BY <1>1, <1>5, <1>8 DEF Reserve
<1>9. ASSUME NEW k \in SymbolKey, Exhausted(k) PROVE SuffixInv'
  BY <1>1, <1>9 DEF Exhausted
<1>10. CASE Freeze
  BY <1>4, <1>10 DEF Freeze
<1>11. CASE UNCHANGED symbolVars
  BY <1>4, <1>11 DEF symbolVars
<1> QED
  BY <1>2, <1>3, <1>6, <1>7, <1>8, <1>9, <1>10, <1>11 DEF SymbolsNext

\* Each suffix is the first free of the runtime, of what anybody asks for and
\* of entities before, so that the outcome is a function of the reservations;
\* a resolution that runs out of ordinals keeps nothing.
THEOREM SuffixesAreTheFirst == SymbolsSpec => []SuffixesAreFirst
<1>1. SymbolsInit => SuffixInv
  BY DEF SymbolsInit, SuffixInv, SuffixesAreFirst, AllocatedInOrder, NoNames
<1>2. IInv /\ SuffixInv /\ [SymbolsNext]_symbolVars => SuffixInv'
  BY NextSuffixInv
<1>3. SuffixInv => SuffixesAreFirst
  BY DEF SuffixInv
<1> QED
  BY <1>1, <1>2, <1>3, Invariance, PTL DEF SymbolsSpec
=============================================================================
