--------------------------- MODULE DeliveryProofs ---------------------------
(***************************************************************************)
(* Theorems about the services that deliver what was generated.            *)
(* Broker: an identity is accepted once, and the store passes its limit by *)
(* less than the number of exchanges, for every number of exchanges and    *)
(* identities, every policy of ages that keeps an empty marker longer than *)
(* an identity may live, and every crash and restart.                      *)
(* ProviderResource: for every number of objects, values and polls, every  *)
(* valid set of criteria, and every choice of waiters, no object is lost   *)
(* from Terraform's state, and what a create or an update records on       *)
(* success is what the API has.                                            *)
(* Publish: what jobs report of a release is true, for any number of jobs, *)
(* files and builds, and whatever uploads are lost, refused or overtaken,  *)
(* because the registry is immutable.                                      *)
(* NpmLifecycle: a package.json between its author and its generators, for *)
(* every manifest, and that merging a second time changes nothing.         *)
(***************************************************************************)
EXTENDS NpmLifecycle, Broker, ProviderResource, Publish, FiniteSetTheorems, TLAPS

USE BrokerAssumption, ProviderAssumption, PublishAssumption


-----------------------------------------------------------------------------
(* Broker: the inductive invariant.                                         *)

Stages == {"idle", "verified", "sweeping", "swept", "room", "opened"}

BrokerTypes ==
    /\ now \in Nat
    /\ claims \in [Identity -> Claim]
    /\ marker \in [Identity -> {"none", "empty", "full"}]
    /\ since \in [Identity -> Nat]
    /\ stage \in [Exchange -> Stages]
    /\ holds \in [Exchange -> Identity \cup {Unclaimed}]
    /\ doomed \in [Exchange -> SUBSET Identity]
    /\ uses \in [Identity -> {0, 1}]

\* An identity that was used is remembered for as long as it lives.
Remembered == \A i \in Identity : uses[i] = 1 /\ ~Expired(i) => marker[i] # "none"

\* No identity outlives the longest life by which an empty marker is judged.
EmptyBounded ==
    \A i \in Identity : marker[i] = "empty" => claims[i].exp <= since[i] + Lifetime + Skew

\* The identity of an exchange was timely once, and time only passes.
HeldTimely ==
    \A e \in Exchange : stage[e] # "idle" =>
        /\ holds[e] \in Identity
        /\ claims[holds[e]].exp <= now + Lifetime + Skew

\* A cleanup only ever removes markers of identities that have expired, also
\* when it removes them long after it judged them.
DoomedExpired == \A e \in Exchange : \A i \in doomed[e] : Expired(i)

BrokerInv == BrokerTypes /\ Remembered /\ EmptyBounded /\ HeldTimely /\ DoomedExpired

-----------------------------------------------------------------------------
LEMMA ClaimTimes ==
    ASSUME BrokerTypes, NEW i \in Identity
    PROVE  claims[i].iat \in Int /\ claims[i].exp \in Int
BY DEF BrokerTypes

\* What is stale has expired: an empty marker is only given up once it is
\* older than any identity that could have made it.
LEMMA StaleExpired ==
    ASSUME BrokerInv, NEW i \in Identity, Stale(i)
    PROVE  Expired(i)
<1>1. CASE marker[i] = "full" /\ Expired(i)
  BY <1>1
<1>2. CASE marker[i] = "empty" /\ since[i] < now - Grace
  <2>1. claims[i].exp <= since[i] + Lifetime + Skew
    BY <1>2 DEF BrokerInv, EmptyBounded
  <2>2. since[i] \in Nat /\ now \in Nat
    BY DEF BrokerInv, BrokerTypes
  <2>3. claims[i].exp \in Int
    BY ClaimTimes DEF BrokerInv
  <2> QED
    BY <1>2, <2>1, <2>2, <2>3 DEF Expired
<1> QED
  BY <1>1, <1>2 DEF Stale

LEMMA InitBrokerInv == BrokerInit => BrokerInv
BY DEF BrokerInit, BrokerInv, BrokerTypes, Stages, Remembered, EmptyBounded,
       HeldTimely, DoomedExpired

\* The steps of an exchange that leave the markers, the clock and the uses
\* alone keep what is said of them.
LEMMA MarkersUntouched ==
    ASSUME BrokerInv, UNCHANGED <<now, claims, marker, since, uses>>
    PROVE  Remembered' /\ EmptyBounded'
BY DEF BrokerInv, Remembered, EmptyBounded, Expired

LEMMA VerifyInv ==
    ASSUME BrokerInv, NEW e \in Exchange, NEW i \in Identity, Verify(e, i)
    PROVE  BrokerInv'
<1>1. BrokerTypes'
  BY DEF BrokerInv, BrokerTypes, Verify, Reaches, Stages
<1>2. HeldTimely'
  <2>1. claims[i].exp <= now + Lifetime + Skew
    <3>1. claims[i].iat \in Int /\ claims[i].exp \in Int /\ now \in Nat
      BY ClaimTimes DEF BrokerInv, BrokerTypes
    <3>2. claims[i].iat <= now + Skew /\ claims[i].exp - claims[i].iat <= Lifetime
      BY <3>1 DEF Verify, Timely
    <3> QED
      BY <3>1, <3>2
  <2>2. holds' = [holds EXCEPT ![e] = i] /\ stage' = [stage EXCEPT ![e] = "verified"]
    BY DEF Verify, Reaches
  <2>3. UNCHANGED <<now, claims>>
    BY DEF Verify
  <2> QED
    BY <2>1, <2>2, <2>3 DEF BrokerInv, BrokerTypes, HeldTimely
<1>3. DoomedExpired'
  BY DEF BrokerInv, DoomedExpired, Expired, Verify
<1>4. Remembered' /\ EmptyBounded'
  BY MarkersUntouched DEF Verify
<1> QED
  BY <1>1, <1>2, <1>3, <1>4 DEF BrokerInv

LEMMA JudgeInv ==
    ASSUME BrokerInv, NEW e \in Exchange, Judge(e)
    PROVE  BrokerInv'
<1> DEFINE stale == {i \in Identity : Stale(i)}
<1>1. /\ stage' = [stage EXCEPT ![e] = "sweeping"] \/ stage' = [stage EXCEPT ![e] = "swept"]
      /\ doomed' = [doomed EXCEPT ![e] = stale] \/ doomed' = [doomed EXCEPT ![e] = {}]
      /\ stage[e] = "verified"
      /\ UNCHANGED <<now, claims, marker, since, holds, uses>>
  BY DEF Judge, Reaches
<1>2. stale \subseteq Identity /\ \A i \in stale : Expired(i)
  BY StaleExpired
<1> HIDE DEF stale
<1>3. BrokerTypes'
  BY <1>1, <1>2 DEF BrokerInv, BrokerTypes, Stages
<1>4. HeldTimely'
  BY <1>1 DEF BrokerInv, BrokerTypes, HeldTimely
<1>5. DoomedExpired'
  BY <1>1, <1>2 DEF BrokerInv, BrokerTypes, DoomedExpired, Expired
<1>6. Remembered' /\ EmptyBounded'
  BY <1>1, MarkersUntouched
<1> QED
  BY <1>3, <1>4, <1>5, <1>6 DEF BrokerInv

LEMMA SweepInv ==
    ASSUME BrokerInv, NEW e \in Exchange, Sweep(e)
    PROVE  BrokerInv'
<1>1. \A i \in Identity : marker'[i] = IF i \in doomed[e] THEN "none" ELSE marker[i]
  BY DEF Sweep
<1>2. UNCHANGED <<now, claims, since, holds, uses>>
  BY DEF Sweep
<1>3. BrokerTypes'
  BY DEF BrokerInv, BrokerTypes, Sweep, Reaches, Stages
<1>4. Remembered'
  BY <1>1, <1>2 DEF BrokerInv, Remembered, DoomedExpired, Expired
<1>5. EmptyBounded'
  BY <1>1, <1>2 DEF BrokerInv, EmptyBounded
<1>6. HeldTimely'
  BY <1>2 DEF BrokerInv, BrokerTypes, HeldTimely, Sweep, Reaches
<1>7. DoomedExpired'
  BY <1>2 DEF BrokerInv, BrokerTypes, DoomedExpired, Expired, Sweep
<1> QED
  BY <1>3, <1>4, <1>5, <1>6, <1>7 DEF BrokerInv

\* Leaving, whatever the reason, takes no marker along.
LEMMA LeavesInv ==
    ASSUME BrokerInv, NEW e \in Exchange, Leaves(e),
           UNCHANGED <<now, claims, marker, since, uses>>,
           doomed' = doomed \/ doomed' = [doomed EXCEPT ![e] = {}]
    PROVE  BrokerInv'
<1>1. BrokerTypes'
  BY DEF BrokerInv, BrokerTypes, Leaves, Reaches, Stages
<1>2. HeldTimely'
  BY DEF BrokerInv, BrokerTypes, HeldTimely, Leaves, Reaches
<1>3. DoomedExpired'
  BY DEF BrokerInv, BrokerTypes, DoomedExpired, Expired
<1> QED
  BY <1>1, <1>2, <1>3, MarkersUntouched DEF BrokerInv

LEMMA RoomInv ==
    ASSUME BrokerInv, NEW e \in Exchange, Room(e)
    PROVE  BrokerInv'
<1>1. CASE Reaches(e, "room") /\ UNCHANGED holds
  <2>1. BrokerTypes'
    BY <1>1 DEF BrokerInv, BrokerTypes, Room, Reaches, Stages
  <2>2. HeldTimely'
    BY <1>1 DEF BrokerInv, BrokerTypes, HeldTimely, Room, Reaches
  <2>3. DoomedExpired'
    BY DEF BrokerInv, DoomedExpired, Expired, Room
  <2> QED
    BY <2>1, <2>2, <2>3, MarkersUntouched DEF BrokerInv, Room
<1>2. CASE Leaves(e)
  BY <1>2, LeavesInv DEF Room
<1> QED
  BY <1>1, <1>2 DEF Room

\* The heart of the matter: who creates a marker for an identity that lives
\* is the first to do so.
LEMMA OpenInv ==
    ASSUME BrokerInv, NEW e \in Exchange, Open(e)
    PROVE  BrokerInv'
<1> DEFINE i == holds[e]
<1>1. i \in Identity /\ claims[i].exp <= now + Lifetime + Skew
  BY DEF Open, BrokerInv, HeldTimely
<1>2. CASE marker[i] = "none"
  <2>1. /\ marker' = [marker EXCEPT ![i] = "empty"]
        /\ since' = [since EXCEPT ![i] = now]
        /\ uses' = [uses EXCEPT ![i] = IF Expired(i) THEN uses[i] ELSE uses[i] + 1]
        /\ stage' = [stage EXCEPT ![e] = "opened"]
        /\ stage[e] = "room"
        /\ UNCHANGED <<now, claims, holds, doomed>>
    BY <1>2 DEF Open, Reaches
  <2>2. Expired(i) \/ uses[i] = 0
    BY <1>1, <1>2 DEF BrokerInv, BrokerTypes, Remembered
  <2> HIDE DEF i
  <2>3. BrokerTypes'
    BY <1>1, <2>1, <2>2 DEF BrokerInv, BrokerTypes, Stages
  <2>4. Remembered'
    BY <1>1, <2>1, <2>2 DEF BrokerInv, BrokerTypes, Remembered, Expired
  <2>5. EmptyBounded'
    BY <1>1, <2>1 DEF BrokerInv, BrokerTypes, EmptyBounded
  <2>6. HeldTimely'
    BY <2>1 DEF BrokerInv, BrokerTypes, HeldTimely
  <2>7. DoomedExpired'
    BY <2>1 DEF BrokerInv, DoomedExpired, Expired
  <2> QED
    BY <2>3, <2>4, <2>5, <2>6, <2>7 DEF BrokerInv
<1>3. CASE marker[i] # "none"
  BY <1>3, LeavesInv DEF Open
<1> QED
  BY <1>2, <1>3

LEMMA WriteInv ==
    ASSUME BrokerInv, NEW e \in Exchange, Write(e)
    PROVE  BrokerInv'
<1> DEFINE i == holds[e]
<1>1. /\ marker' = [marker EXCEPT ![i] = IF marker[i] = "none" THEN marker[i] ELSE "full"]
      /\ UNCHANGED <<now, claims, since, doomed, uses>>
      /\ i \in Identity
  BY DEF Write, BrokerInv, HeldTimely
<1>2. BrokerTypes'
  BY <1>1 DEF BrokerInv, BrokerTypes, Write, Leaves, Reaches, Stages
<1>3. HeldTimely'
  BY <1>1 DEF BrokerInv, BrokerTypes, HeldTimely, Write, Leaves, Reaches
<1> HIDE DEF i
<1>4. Remembered'
  BY <1>1 DEF BrokerInv, BrokerTypes, Remembered, Expired
<1>5. EmptyBounded'
  BY <1>1 DEF BrokerInv, BrokerTypes, EmptyBounded
<1>6. DoomedExpired'
  BY <1>1 DEF BrokerInv, DoomedExpired, Expired
<1> QED
  BY <1>2, <1>3, <1>4, <1>5, <1>6 DEF BrokerInv

LEMMA RestartInv ==
    ASSUME BrokerInv, BrokerRestarts
    PROVE  BrokerInv'
<1>1. BrokerTypes'
  BY DEF BrokerInv, BrokerTypes, BrokerRestarts, Stages
<1>2. HeldTimely' /\ DoomedExpired'
  BY DEF BrokerRestarts, HeldTimely, DoomedExpired
<1> QED
  BY <1>1, <1>2, MarkersUntouched DEF BrokerInv, BrokerRestarts

\* What has expired stays so.
LEMMA TickInv ==
    ASSUME BrokerInv, Tick
    PROVE  BrokerInv'
<1>1. /\ now' = now + 1 /\ now \in Nat
      /\ UNCHANGED <<claims, marker, since, sweptAt, stage, holds, doomed, uses>>
  BY DEF Tick, BrokerInv, BrokerTypes
<1>2. ASSUME NEW i \in Identity, Expired(i) PROVE Expired(i)'
  <2>1. claims[i].exp \in Int
    BY ClaimTimes DEF BrokerInv
  <2> QED
    BY <1>1, <1>2, <2>1 DEF Expired
<1>3. BrokerTypes'
  BY <1>1 DEF BrokerInv, BrokerTypes
<1>4. Remembered'
  BY <1>1, <1>2 DEF BrokerInv, Remembered
<1>5. EmptyBounded'
  BY <1>1 DEF BrokerInv, EmptyBounded
<1>6. HeldTimely'
  <2>1. ASSUME NEW e \in Exchange, stage[e] # "idle"
        PROVE  holds[e] \in Identity /\ claims[holds[e]].exp <= now + 1 + Lifetime + Skew
    <3>1. holds[e] \in Identity /\ claims[holds[e]].exp <= now + Lifetime + Skew
      BY <2>1 DEF BrokerInv, HeldTimely
    <3>2. claims[holds[e]].exp \in Int
      BY <3>1, ClaimTimes DEF BrokerInv
    <3> QED
      BY <1>1, <3>1, <3>2
  <2> QED
    BY <1>1, <2>1 DEF HeldTimely
<1>7. DoomedExpired'
  BY <1>1, <1>2 DEF BrokerInv, BrokerTypes, DoomedExpired
<1> QED
  BY <1>3, <1>4, <1>5, <1>6, <1>7 DEF BrokerInv

LEMMA NextInv ==
    ASSUME BrokerInv, [BrokerNext]_brokerVars
    PROVE  BrokerInv'
<1>1. CASE BrokerRestarts
  BY <1>1, RestartInv
<1>2. CASE Tick
  BY <1>2, TickInv
<1>3. ASSUME NEW e \in Exchange, ExchangeStep(e) PROVE BrokerInv'
  <2>1. CASE \E i \in Identity : Verify(e, i)
    BY <2>1, VerifyInv
  <2>2. CASE Judge(e)
    BY <2>2, JudgeInv
  <2>3. CASE Sweep(e)
    BY <2>3, SweepInv
  <2>4. CASE Room(e)
    BY <2>4, RoomInv
  <2>5. CASE Open(e)
    BY <2>5, OpenInv
  <2>6. CASE Write(e)
    BY <2>6, WriteInv
  <2>7. CASE Deny(e)
    BY <2>7, LeavesInv DEF Deny
  <2> QED
    BY <1>3, <2>1, <2>2, <2>3, <2>4, <2>5, <2>6, <2>7 DEF ExchangeStep
<1>4. CASE UNCHANGED brokerVars
  BY <1>4 DEF brokerVars, BrokerInv, BrokerTypes, Remembered, EmptyBounded,
              HeldTimely, DoomedExpired, Expired
<1> QED
  BY <1>1, <1>2, <1>3, <1>4 DEF BrokerNext

\* The broker's markers and its judgement of them (FileReplayStore.consume,
\* verifyOidc) keep the inductive invariant.
THEOREM BrokerInvariant == BrokerSpec => []BrokerInv
<1>1. BrokerInv /\ [BrokerNext]_brokerVars => BrokerInv'
  BY NextInv
<1> QED
  BY InitBrokerInv, <1>1, PTL DEF BrokerSpec

\* An identity is accepted at most once before it expires, whoever presents it
\* at the same time, and across crashes, restarts and cleanups (consume).
THEOREM IdentityUsedOnce == BrokerSpec => []UsedOnce
<1>1. BrokerInv => UsedOnce
  BY DEF BrokerInv, BrokerTypes, UsedOnce
<1> QED
  BY BrokerInvariant, <1>1, PTL

-----------------------------------------------------------------------------
(* The store's limit.                                                       *)

\* Exchanges that have found room and may still create a marker.
InRoom == {e \in Exchange : stage[e] = "room"}

\* Each of them has its place in the excess over the limit.
RoomKept ==
    /\ IsFiniteSet(Markers)
    /\ Cardinality(Markers) + Cardinality(InRoom) < Limit + Cardinality(Exchange)

LEMMA InRoomFinite ==
    /\ IsFiniteSet(InRoom) /\ IsFiniteSet(InRoom')
    /\ Cardinality(InRoom) \in Nat /\ Cardinality(InRoom') \in Nat
    /\ Cardinality(InRoom) <= Cardinality(Exchange)
    /\ Cardinality(InRoom') <= Cardinality(Exchange)
    /\ Cardinality(Exchange) \in Nat \ {0}
<1>1. InRoom \in SUBSET Exchange /\ InRoom' \in SUBSET Exchange
  BY DEF InRoom
<1> QED
  BY <1>1, FS_Subset, FS_CardinalityType, FS_EmptySet

\* A step that creates no marker and lets nobody into the room.
LEMMA NoneCreated ==
    ASSUME RoomKept, Markers' \subseteq Markers, InRoom' \subseteq InRoom
    PROVE  RoomKept'
<1>1. /\ IsFiniteSet(Markers') /\ Cardinality(Markers') <= Cardinality(Markers)
      /\ Cardinality(Markers) \in Nat /\ Cardinality(Markers') \in Nat
  BY FS_Subset, FS_CardinalityType DEF RoomKept
<1>2. Cardinality(InRoom') <= Cardinality(InRoom)
  BY InRoomFinite, FS_Subset
<1> QED
  BY <1>1, <1>2, InRoomFinite DEF RoomKept

LEMMA LeavesRoom ==
    ASSUME BrokerTypes, NEW e \in Exchange, NEW s \in Stages \ {"room"}, Reaches(e, s)
    PROVE  InRoom' = InRoom \ {e}
BY DEF BrokerTypes, Reaches, InRoom

\* Whoever enters the room has seen the store below its limit.
LEMMA EntersRoom ==
    ASSUME BrokerTypes, RoomKept, NEW e \in Exchange, Room(e)
    PROVE  RoomKept'
<1>1. Markers' = Markers
  BY DEF Room, Markers
<1>2. CASE Cardinality(Markers) < Limit
  <2>1. Cardinality(Markers) \in Nat
    BY FS_CardinalityType DEF RoomKept
  <2> QED
    BY <1>1, <1>2, <2>1, InRoomFinite DEF RoomKept
<1>3. CASE Leaves(e)
  BY <1>1, <1>3, LeavesRoom, NoneCreated DEF Leaves, Stages
<1> QED
  BY <1>2, <1>3 DEF Room

\* Whoever creates a marker gives up its place.
LEMMA TakesPlace ==
    ASSUME BrokerTypes, HeldTimely, RoomKept, NEW e \in Exchange, Open(e)
    PROVE  RoomKept'
<1> DEFINE i == holds[e]
<1>1. e \in InRoom /\ i \in Identity /\ InRoom' = InRoom \ {e}
  BY LeavesRoom DEF Open, Leaves, InRoom, HeldTimely, Stages
<1>2. CASE marker[i] = "none"
  <2>1. Markers' = Markers \cup {i} /\ i \notin Markers
    BY <1>1, <1>2 DEF Open, Markers, BrokerTypes
  <2>2. /\ IsFiniteSet(Markers') /\ Cardinality(Markers') = Cardinality(Markers) + 1
        /\ Cardinality(Markers) \in Nat
    BY <2>1, FS_AddElement, FS_CardinalityType DEF RoomKept
  <2>3. Cardinality(InRoom') = Cardinality(InRoom) - 1
    BY <1>1, InRoomFinite, FS_RemoveElement
  <2> QED
    BY <2>2, <2>3, InRoomFinite DEF RoomKept
<1>3. CASE marker[i] # "none"
  <2>1. Markers' = Markers
    BY <1>3 DEF Open, Markers
  <2> QED
    BY <1>1, <2>1, NoneCreated
<1> QED
  BY <1>2, <1>3

LEMMA NextRoomKept ==
    ASSUME BrokerInv, RoomKept, [BrokerNext]_brokerVars
    PROVE  RoomKept'
<1> USE DEF BrokerInv
<1>1. CASE BrokerRestarts
  BY <1>1, NoneCreated DEF BrokerRestarts, Markers, InRoom
<1>2. CASE Tick \/ UNCHANGED brokerVars
  BY <1>2, NoneCreated DEF Tick, brokerVars, Markers, InRoom
<1>3. ASSUME NEW e \in Exchange, ExchangeStep(e) PROVE RoomKept'
  <2>1. CASE (\E i \in Identity : Verify(e, i)) \/ Judge(e) \/ Deny(e)
    <3>1. Markers' = Markers
      BY <2>1 DEF Verify, Judge, Deny, Markers
    <3>2. InRoom' = InRoom \ {e}
      BY <2>1, LeavesRoom DEF Verify, Judge, Deny, Leaves, Stages
    <3> QED
      BY <3>1, <3>2, NoneCreated
  <2>2. CASE Sweep(e)
    <3>1. Markers' \subseteq Markers
      BY <2>2 DEF Sweep, Markers
    <3>2. InRoom' = InRoom \ {e}
      BY <2>2, LeavesRoom DEF Sweep, Stages
    <3> QED
      BY <3>1, <3>2, NoneCreated
  <2>3. CASE Write(e)
    <3>1. Markers' \subseteq Markers
      BY <2>3 DEF Write, Markers, BrokerTypes
    <3>2. InRoom' = InRoom \ {e}
      BY <2>3, LeavesRoom DEF Write, Leaves, Stages
    <3> QED
      BY <3>1, <3>2, NoneCreated
  <2> QED
    BY <1>3, <2>1, <2>2, <2>3, EntersRoom, TakesPlace DEF ExchangeStep
<1> QED
  BY <1>1, <1>2, <1>3 DEF BrokerNext

LEMMA InitRoomKept == BrokerInit => RoomKept
<1> SUFFICES ASSUME BrokerInit PROVE RoomKept
  OBVIOUS
<1>1. Markers = {} /\ InRoom = {}
  BY DEF BrokerInit, Markers, InRoom
<1>2. IsFiniteSet(Markers) /\ Cardinality(Markers) = 0 /\ Cardinality(InRoom) = 0
  BY <1>1, FS_EmptySet
<1>3. Limit \in Nat /\ Cardinality(Exchange) \in Nat \ {0}
  BY InRoomFinite, BrokerAssumption
<1>4. \A l \in Nat, n \in Nat \ {0} : 0 + 0 < l + n
  OBVIOUS
<1> QED
  BY <1>2, <1>3, <1>4 DEF RoomKept

\* The store passes its limit by less than the number of exchanges that are
\* handled at once, because consume lists it before it creates a marker.
THEOREM StoreIsBounded == BrokerSpec => []StoreBounded
<1>1. RoomKept => StoreBounded
  <2> SUFFICES ASSUME RoomKept PROVE StoreBounded
    OBVIOUS
  <2>1. Cardinality(Markers) \in Nat
    BY FS_CardinalityType DEF RoomKept
  <2> QED
    BY <2>1, InRoomFinite DEF RoomKept, StoreBounded
<1>2. BrokerInv /\ RoomKept /\ [BrokerNext]_brokerVars => RoomKept'
  BY NextRoomKept
<1> QED
  BY <1>1, <1>2, InitRoomKept, BrokerInvariant, PTL DEF BrokerSpec


-----------------------------------------------------------------------------
(* ProviderResource: the inductive invariant.                               *)

ProviderTypes ==
    /\ remote \in [Object -> [phase : Phase \cup {"absent", "gone"},
                              value : Value \cup {Null}, next : Value \cup {Null}]]
    /\ polled \in SUBSET Method
    /\ state \in [id : Object \cup {Null}, value : Value \cup {Null}, tainted : BOOLEAN]
    /\ method \in Method \cup {Null, "Read"}
    /\ planned \in Value \cup {Null}
    /\ at \in {"idle", "waiting"}
    /\ accepted \in SUBSET Object

\* Only an object that the provider knows of is managed, and the API made it.
KnownOnly ==
    /\ state.id # Null => state.id \in accepted
    /\ \A o \in accepted : remote[o].phase # "absent"

\* The API holds values as it stores them, and only an update changes one.
Normalised ==
    \A o \in Object : remote[o].phase # "absent" =>
        /\ remote[o].value \in Value /\ Canonical[remote[o].value] = remote[o].value
        /\ remote[o].next \in Value /\ Canonical[remote[o].next] = remote[o].next
        /\ remote[o].phase # "updating" => remote[o].next = remote[o].value

\* A waiter waits for the managed object, and what is on its way is what was
\* planned.  No object that is deleted is still being created.
WaitsForPlan ==
    at = "waiting" =>
        /\ state.id # Null
        /\ method \in Method /\ (method # "Update" => method \in polled)
        /\ method = "Delete" => remote[state.id].phase # "creating"
        /\ method # "Delete" => planned \in Value
        /\ method = "Create" => remote[state.id].phase # "updating"
        /\ method = "Update" =>
               remote[state.id].next \in {remote[state.id].value, Canonical[planned]}

Recorded ==
    at = "idle" /\ outcome = "ok" /\ method \in {"Create", "Update"} => state.id # Null

ProviderInv ==
    /\ ProviderTypes /\ KnownOnly /\ Normalised /\ WaitsForPlan /\ Recorded
    /\ Managed /\ RecordedIsReal

-----------------------------------------------------------------------------
(* What the API answers and becomes.                                        *)

\* An answer that names the object shows it as it is.
LEMMA AnswerShows ==
    ASSUME NEW o \in Object, NEW a \in Replies(o), a.id = o
    PROVE  /\ Alive(o)
           /\ a.value = remote[o].value
           /\ a.phase = "ready" => remote[o].phase \in {"ready", "updating"}
<1>1. a \in Shown(o) /\ Alive(o)
  BY DEF Replies, Bare
<1>2. QED
  BY <1>1 DEF Shown

\* Only what is gone, or being created, is not found.
LEMMA AnswerMissing ==
    ASSUME NEW o \in Object, NEW a \in Replies(o), a.status = 404
    PROVE  ~Alive(o) \/ remote[o].phase = "creating"
BY DEF Replies, Bare, Shown, Unanswered

\* A change of one object leaves the others alone.
LEMMA TurnsOne ==
    ASSUME ProviderTypes, NEW o \in Object, NEW p, NEW v, NEW w, Turns(o, p, v, w)
    PROVE  /\ remote'[o] = [phase |-> p, value |-> v, next |-> w]
           /\ \A x \in Object : x # o => remote'[x] = remote[x]
           /\ p \in Phase \cup {"absent", "gone"} /\ v \in Value \cup {Null} /\ w \in Value \cup {Null}
                  => remote' \in [Object -> [phase : Phase \cup {"absent", "gone"},
                                             value : Value \cup {Null}, next : Value \cup {Null}]]
BY DEF ProviderTypes, Turns

\* The managed object is one the API made.
LEMMA ManagedKnown ==
    ASSUME ProviderInv, state.id # Null
    PROVE  /\ state.id \in Object /\ state.id \in accepted
           /\ remote[state.id].phase # "absent"
BY DEF ProviderInv, ProviderTypes, KnownOnly

-----------------------------------------------------------------------------
(* The invariant holds initially, and every step preserves it.             *)

LEMMA InitProviderInv == ProviderInit => ProviderInv
BY DEF ProviderInit, ProviderInv, ProviderTypes, KnownOnly, Normalised, WaitsForPlan, Recorded,
       Managed, RecordedIsReal, Unmanaged

\* An operation that fails changes neither the state nor, by itself, the API.
LEMMA FailsInv ==
    ASSUME ProviderInv, Fails, UNCHANGED <<remote, polled, accepted, denied>>,
           method' \in Method \cup {Null, "Read"}, planned' \in Value \cup {Null}
    PROVE  ProviderInv'
<1>1. ProviderTypes' /\ KnownOnly' /\ Normalised'
  BY DEF ProviderInv, ProviderTypes, KnownOnly, Normalised, Fails, Ended
<1>2. WaitsForPlan' /\ Recorded' /\ RecordedIsReal'
  BY DEF WaitsForPlan, Recorded, RecordedIsReal, Fails, Ended
<1>3. Managed'
  BY DEF ProviderInv, Managed, Alive, Fails
<1>4. QED
  BY <1>1, <1>2, <1>3 DEF ProviderInv

LEMMA RejectedInv ==
    ASSUME ProviderInv, NEW m \in Method, NEW v \in Value, Rejected(m, v)
    PROVE  ProviderInv'
BY FailsInv DEF Rejected, Starts

LEMMA SettlesInv ==
    ASSUME ProviderInv, NEW o \in Object, Settles(o)
    PROVE  ProviderInv'
<1> USE DEF Settles, opVars
<1>1. PICK p \in Phase \cup {"gone"}, v \in Value : Turns(o, p, v, v)
  BY DEF ProviderInv, Normalised, Phase, Alive
<1>2. /\ Alive(o)
      /\ p # "updating" /\ p # "creating"
      /\ v \in {remote[o].value, remote[o].next}
      /\ remote[o].phase = "ready" => p = "gone"
  BY <1>1 DEF Turns, ProviderInv, ProviderTypes, Alive, Phase
<1>3. /\ remote'[o] = [phase |-> p, value |-> v, next |-> v]
      /\ \A x \in Object : x # o => remote'[x] = remote[x]
      /\ ProviderTypes'
  BY <1>1, TurnsOne DEF ProviderInv, ProviderTypes
<1>4. KnownOnly' /\ Normalised' /\ Recorded'
  <2>1. KnownOnly'
    BY <1>2, <1>3 DEF ProviderInv, ProviderTypes, KnownOnly, Phase, Alive
  <2>2. Normalised'
    BY <1>2, <1>3 DEF ProviderInv, ProviderTypes, Normalised, Phase, Alive
  <2>3. Recorded'
    BY <1>2, <1>3, ManagedKnown
       DEF ProviderInv, ProviderTypes, KnownOnly, Recorded, Phase, Alive
  <2> QED
    BY <2>1, <2>2, <2>3
<1>5. WaitsForPlan'
  BY <1>2, <1>3 DEF ProviderInv, ProviderTypes, WaitsForPlan, Normalised
<1>6. Managed'
  BY <1>2, <1>3 DEF ProviderInv, Managed, Alive, ProviderTypes
<1>7. RecordedIsReal'
  <2>1. CASE o = state.id
    BY <2>1, <1>2, <1>3 DEF ProviderInv, RecordedIsReal, Alive, Phase
  <2>2. CASE o # state.id
    BY <2>2, <1>3 DEF ProviderInv, ProviderTypes, RecordedIsReal, Recorded
  <2>3. QED
    BY <2>1, <2>2
<1>8. QED
  BY <1>3, <1>4, <1>5, <1>6, <1>7 DEF ProviderInv

LEMMA CreateInv ==
    ASSUME ProviderInv, NEW o \in Object, NEW v \in Value, Create(o, v)
    PROVE  ProviderInv'
<1> DEFINE kept == Canonical[v]
<1>1. PICK p \in {"creating", "ready"} : Turns(o, p, kept, kept) /\ ("Create" \notin polled => p = "ready")
  BY DEF Create
<1>2. /\ remote'[o] = [phase |-> p, value |-> kept, next |-> kept]
      /\ \A x \in Object : x # o => remote'[x] = remote[x]
      /\ remote' \in [Object -> [phase : Phase \cup {"absent", "gone"},
                                 value : Value \cup {Null}, next : Value \cup {Null}]]
  BY <1>1, TurnsOne DEF ProviderInv, Phase
<1>3. /\ state.id = Null /\ remote[o].phase = "absent"
      /\ method' = "Create" /\ planned' = v
      /\ UNCHANGED <<polled, denied>>
  BY DEF Create, Starts
<1>4. Normalised'
  BY <1>2, <1>3 DEF ProviderInv, Normalised
<1>5. o \notin accepted
  BY <1>3 DEF ProviderInv, KnownOnly
<1>6. CASE Fails /\ UNCHANGED accepted
  <2>1. ProviderTypes' /\ KnownOnly'
    BY <1>2, <1>3, <1>5, <1>6 DEF ProviderInv, ProviderTypes, KnownOnly, Fails, Ended, Method
  <2>2. WaitsForPlan' /\ Recorded' /\ RecordedIsReal'
    BY <1>6 DEF WaitsForPlan, Recorded, RecordedIsReal, Fails, Ended
  <2>3. Managed'
    BY <1>2, <1>3, <1>5, <1>6 DEF ProviderInv, ProviderTypes, Managed, Alive, Fails
  <2>4. QED
    BY <1>4, <2>1, <2>2, <2>3 DEF ProviderInv
<1>7. ASSUME accepted' = accepted \cup {o}, NEW t \in BOOLEAN,
             state' = [id |-> o, value |-> v, tainted |-> t],
             \/ at' = "waiting" /\ outcome' = "none" /\ "Create" \in polled
             \/ /\ at' = "idle" /\ p = "ready"
                /\ outcome' = (IF kept = v THEN "ok" ELSE "error") /\ t = (kept # v)
      PROVE  ProviderInv'
  <2>1. ProviderTypes' /\ KnownOnly'
    BY <1>2, <1>3, <1>7 DEF ProviderInv, ProviderTypes, KnownOnly, Method
  <2>2. WaitsForPlan' /\ Recorded'
    BY <1>1, <1>2, <1>3, <1>7 DEF WaitsForPlan, Recorded, Method
  <2>3. Managed'
    BY <1>2, <1>3, <1>5, <1>7 DEF ProviderInv, ProviderTypes, Managed, Alive
  <2>4. RecordedIsReal'
    <3>1. /\ state'.id = o /\ state'.value = v /\ state'.tainted = t
          /\ remote'[o].phase = p /\ remote'[o].value = kept /\ remote'[o].next = kept
      BY <1>2, <1>7
    <3>2. CASE at' = "waiting"
      BY <3>2 DEF RecordedIsReal
    <3>3. CASE at' = "idle" /\ kept # v
      BY <3>3, <1>7 DEF RecordedIsReal
    <3>4. CASE at' = "idle" /\ p = "ready" /\ kept = v /\ t = FALSE
      BY <3>1, <3>4, <1>3 DEF RecordedIsReal
    <3>5. QED
      BY <1>7, <3>2, <3>3, <3>4
  <2>5. QED
    BY <1>4, <2>1, <2>2, <2>3, <2>4 DEF ProviderInv
<1>8. CASE "Create" \in polled /\ accepted' = accepted \cup {o} /\ state' = Recovery(o, v) /\ Waits
  BY <1>7, <1>8 DEF Recovery, Waits
<1>9. CASE /\ "Create" \notin polled /\ accepted' = accepted \cup {o}
           /\ state' = [Recovery(o, v) EXCEPT !.tainted = kept # v]
           /\ Ended(IF kept = v THEN "ok" ELSE "error")
  BY <1>1, <1>7, <1>9 DEF Recovery, Ended
<1>10. QED
  BY <1>6, <1>8, <1>9 DEF Create

LEMMA UpdateInv ==
    ASSUME ProviderInv, NEW v \in Value, Update(v)
    PROVE  ProviderInv'
<1> DEFINE o == state.id
<1>1. /\ o \in Object /\ o \in accepted /\ Alive(o) /\ remote[o].phase # "absent"
  BY ManagedKnown DEF Update
<1>2. PICK p \in {"updating", "ready"}, w \in Value :
        /\ Turns(o, p, w, Canonical[v]) /\ Canonical[w] = w
        /\ p # "updating" => w = Canonical[v]
  BY <1>1 DEF Update, ProviderInv, Normalised
<1>3. /\ remote'[o] = [phase |-> p, value |-> w, next |-> Canonical[v]]
      /\ \A x \in Object : x # o => remote'[x] = remote[x]
      /\ remote' \in [Object -> [phase : Phase \cup {"absent", "gone"},
                                 value : Value \cup {Null}, next : Value \cup {Null}]]
  BY <1>1, <1>2, TurnsOne DEF ProviderInv, Phase
<1>4. /\ UNCHANGED <<state, polled, accepted, denied>>
      /\ method' = "Update" /\ planned' = v
      /\ \/ at' = "waiting"
         \/ at' = "idle" /\ outcome' = "error"
  BY DEF Update, Starts, Waits, Fails, Ended
<1>5. ProviderTypes' /\ KnownOnly'
  BY <1>1, <1>2, <1>3, <1>4 DEF ProviderInv, ProviderTypes, KnownOnly, Method
<1>6. Normalised'
  BY <1>2, <1>3 DEF ProviderInv, Normalised
<1>7. WaitsForPlan' /\ Recorded' /\ RecordedIsReal'
  BY <1>1, <1>3, <1>4 DEF Update, WaitsForPlan, Recorded, RecordedIsReal, Method
<1>8. Managed'
  BY <1>1, <1>3, <1>4 DEF ProviderInv, ProviderTypes, Managed, Alive
<1>9. QED
  BY <1>5, <1>6, <1>7, <1>8 DEF ProviderInv

\* Removing the managed object from the state loses nothing but what the API
\* does not have, or denied having.
LEMMA RemovedInv ==
    ASSUME ProviderInv, state.id # Null, state' = Unmanaged,
           at' = "idle" /\ outcome' = "ok",
           method' \in {"Delete", "Read"}, planned' \in Value \cup {Null},
           \A o \in Object : o # state.id => remote'[o] = remote[o],
           ProviderTypes', Normalised',
           remote'[state.id].phase # "absent",
           remote'[state.id].phase \notin Phase \/ state.id \in denied',
           UNCHANGED accepted, denied \subseteq denied'
    PROVE  ProviderInv'
<1>1. KnownOnly'
  BY ManagedKnown DEF ProviderInv, ProviderTypes, KnownOnly, Unmanaged
<1>2. WaitsForPlan' /\ Recorded' /\ RecordedIsReal'
  BY DEF WaitsForPlan, Recorded, RecordedIsReal
<1>3. Managed'
  BY DEF ProviderInv, ProviderTypes, Managed, Alive
<1>4. QED
  BY <1>1, <1>2, <1>3 DEF ProviderInv

LEMMA DeleteInv ==
    ASSUME ProviderInv, Delete
    PROVE  ProviderInv'
<1> DEFINE o == state.id
<1>1. /\ o \in Object /\ o # Null /\ o \in accepted /\ Alive(o) /\ remote[o].phase # "absent"
  BY ManagedKnown DEF Delete
<1>2. PICK p \in {"gone", "deleting"} :
        Turns(o, p, remote[o].value, remote[o].value) /\ ("Delete" \notin polled => p = "gone")
  BY DEF Delete
<1>3. /\ remote'[o] = [phase |-> p, value |-> remote[o].value, next |-> remote[o].value]
      /\ \A x \in Object : x # o => remote'[x] = remote[x]
      /\ remote' \in [Object -> [phase : Phase \cup {"absent", "gone"},
                                 value : Value \cup {Null}, next : Value \cup {Null}]]
  BY <1>1, <1>2, TurnsOne DEF ProviderInv, ProviderTypes, Phase
<1>4. method' = "Delete" /\ planned' = Null /\ UNCHANGED <<polled, accepted, denied>>
  BY DEF Delete, Starts
<1>5. Normalised'
  BY <1>1, <1>3 DEF ProviderInv, Normalised
<1>6. ASSUME state' = state,
             (at' = "waiting" /\ "Delete" \in polled) \/ (at' = "idle" /\ outcome' = "error")
      PROVE  ProviderInv'
  <2>1. ProviderTypes' /\ KnownOnly'
    BY <1>1, <1>3, <1>4, <1>6 DEF ProviderInv, ProviderTypes, KnownOnly, Method
  <2>2. WaitsForPlan' /\ Recorded' /\ RecordedIsReal'
    BY <1>1, <1>2, <1>3, <1>4, <1>6 DEF WaitsForPlan, Recorded, RecordedIsReal, Method
  <2>3. Managed'
    BY <1>1, <1>3, <1>4, <1>6 DEF ProviderInv, ProviderTypes, Managed, Alive
  <2>4. QED
    BY <1>5, <2>1, <2>2, <2>3 DEF ProviderInv
<1>7. CASE DeletesNow /\ state' = Unmanaged /\ Ended("ok")
  <2>1. ProviderTypes'
    BY <1>3, <1>4, <1>7 DEF ProviderInv, ProviderTypes, Method, Unmanaged, Ended
  <2>2. remote'[state.id].phase \notin Phase
    BY <1>2, <1>3, <1>1, <1>7 DEF DeletesNow, Phase
  <2>3. QED
    BY <1>1, <1>3, <1>4, <1>5, <1>7, <2>1, <2>2, RemovedInv DEF Ended
<1>8. CASE Fails
  BY <1>6, <1>8 DEF Fails, Ended
<1>9. CASE ~DeletesNow /\ Waits /\ UNCHANGED state
  BY <1>6, <1>9 DEF Waits, DeletesNow
<1>10. QED
  BY <1>7, <1>8, <1>9, Zenon DEF Delete

LEMMA DeleteMissingInv ==
    ASSUME ProviderInv, DeleteMissing
    PROVE  ProviderInv'
<1> DEFINE o == state.id
<1>1. o # Null /\ method' = "Delete" /\ planned' = Null /\ UNCHANGED <<remote, polled, accepted>>
  BY DEF DeleteMissing, Starts
<1>2. state' = Unmanaged /\ at' = "idle" /\ outcome' = "ok"
  BY DEF DeleteMissing, Removes, Ended
<1>3. (Alive(o) => o \in denied') /\ denied \subseteq denied'
  BY DEF DeleteMissing, Removes
<1>4. ProviderTypes' /\ Normalised'
  BY <1>1, <1>2 DEF ProviderInv, ProviderTypes, Normalised, Unmanaged, Method
<1>5. QED
  BY <1>1, <1>2, <1>3, <1>4, ManagedKnown, RemovedInv DEF Alive

LEMMA ReadInv ==
    ASSUME ProviderInv, Read
    PROVE  ProviderInv'
<1> DEFINE o == state.id
<1>1. o \in Object /\ o # Null /\ o \in accepted /\ remote[o].phase # "absent"
  BY ManagedKnown DEF Read
<1>2. method' = "Read" /\ planned' = Null /\ UNCHANGED <<remote, polled, accepted>>
  BY DEF Read, Starts
<1>3. PICK a \in Replies(o) :
        \/ a.status = 404 /\ Removes(o)
        \/ /\ a.id = o /\ state' = [state EXCEPT !.value = a.value]
           /\ Ended("ok") /\ UNCHANGED denied
        \/ Fails /\ UNCHANGED denied
  BY DEF Read
<1>4. CASE a.status = 404 /\ Removes(o)
  <2>1. state' = Unmanaged /\ at' = "idle" /\ outcome' = "ok"
    BY <1>4 DEF Removes, Ended
  <2>2. (Alive(o) => o \in denied') /\ denied \subseteq denied'
    BY <1>4 DEF Removes
  <2>3. ProviderTypes' /\ Normalised'
    BY <1>2, <2>1 DEF ProviderInv, ProviderTypes, Normalised, Unmanaged, Method
  <2>4. QED
    BY <1>1, <1>2, <2>1, <2>2, <2>3, RemovedInv DEF Alive
<1>5. CASE a.id = o /\ state' = [state EXCEPT !.value = a.value] /\ Ended("ok") /\ UNCHANGED denied
  <2>1. a.value = remote[o].value
    BY <1>1, <1>5, AnswerShows
  <2>2. /\ state'.id = o
        /\ state' \in [id : Object \cup {Null}, value : Value \cup {Null}, tainted : BOOLEAN]
    BY <1>1, <1>5, <2>1 DEF ProviderInv, ProviderTypes
  <2>3. ProviderTypes' /\ KnownOnly' /\ Normalised'
    BY <1>1, <1>2, <1>5, <2>2 DEF ProviderInv, ProviderTypes, KnownOnly, Normalised, Ended
  <2>4. WaitsForPlan' /\ Recorded' /\ RecordedIsReal'
    BY <1>2, <1>5 DEF WaitsForPlan, Recorded, RecordedIsReal, Ended
  <2>5. Managed'
    BY <1>2, <1>5, <2>2 DEF ProviderInv, Managed, Alive
  <2>6. QED
    BY <2>3, <2>4, <2>5 DEF ProviderInv
<1>6. CASE Fails /\ UNCHANGED denied
  BY <1>2, <1>6, FailsInv
<1>7. QED
  BY <1>3, <1>4, <1>5, <1>6

\* A create or an update that is completed has recorded what the API has.
LEMMA CompletesInv ==
    ASSUME ProviderInv, at = "waiting", method \in {"Create", "Update"},
           NEW a \in Replies(state.id), Completes(a),
           UNCHANGED <<remote, polled, method, planned, accepted, denied>>,
           method = "Create" /\ [phase |-> "ready"] \in Success["Create"] => a.phase = "ready"
    PROVE  ProviderInv'
<1> DEFINE o == state.id
<1>1. o \in Object /\ o # Null /\ o \in accepted /\ planned \in Value
  BY ManagedKnown DEF ProviderInv, WaitsForPlan
<1>2. CASE Fails
  BY <1>2, FailsInv DEF ProviderInv, ProviderTypes
<1>3. CASE Agrees(a) /\ state' = [id |-> o, value |-> planned, tainted |-> FALSE] /\ Ended("ok")
  <2>1. /\ Alive(o) /\ remote[o].value = planned
        /\ a.phase = "ready" => remote[o].phase \in {"ready", "updating"}
    BY <1>1, <1>3, AnswerShows DEF Agrees
  <2>2. remote[o].next = planned
    <3>1. Canonical[planned] = planned /\ remote[o].phase # "absent"
      BY <1>1, <2>1, ManagedKnown DEF ProviderInv, Normalised
    <3>2. CASE method = "Update"
      BY <1>1, <2>1, <3>1, <3>2 DEF ProviderInv, WaitsForPlan
    <3>3. CASE method = "Create"
      BY <1>1, <2>1, <3>1, <3>3 DEF ProviderInv, WaitsForPlan, Normalised
    <3>4. QED
      BY <3>2, <3>3
  <2>3. ProviderTypes' /\ KnownOnly' /\ Normalised'
    BY <1>1, <1>3 DEF ProviderInv, ProviderTypes, KnownOnly, Normalised, Ended
  <2>4. WaitsForPlan' /\ Recorded'
    BY <1>1, <1>3 DEF WaitsForPlan, Recorded, Ended
  <2>5. Managed'
    BY <1>3 DEF ProviderInv, Managed, Alive
  <2>6. method = "Create" => remote[o].phase # "updating"
    BY DEF ProviderInv, WaitsForPlan
  <2>7. RecordedIsReal'
    BY <1>3, <2>1, <2>2, <2>6 DEF RecordedIsReal
  <2>8. QED
    BY <2>3, <2>4, <2>5, <2>7 DEF ProviderInv
<1>4. QED
  BY <1>2, <1>3 DEF Completes

\* An polls that decided nothing is counted, and changes nothing else.
LEMMA AgainInv ==
    ASSUME ProviderInv, Again,
           UNCHANGED <<remote, polled, method, planned, accepted, denied>>
    PROVE  ProviderInv'
BY DEF ProviderInv, ProviderTypes, KnownOnly, Normalised, WaitsForPlan, Recorded, Managed,
       RecordedIsReal, Alive, Again

LEMMA PollInv ==
    ASSUME ProviderInv, Poll
    PROVE  ProviderInv'
<1> DEFINE o == state.id
           failed(a) == a.status = Unanswered \/ Matches(Failure[method], a)
           done(a) == Matches(Success[method], a)
<1>1. /\ at = "waiting" /\ method \in polled
      /\ UNCHANGED <<remote, polled, method, planned, accepted, denied>>
  BY DEF Poll
<1>2. /\ o \in Object /\ o # Null /\ o \in accepted /\ remote[o].phase # "absent"
      /\ method \in Method
  BY <1>1, ManagedKnown DEF ProviderInv, WaitsForPlan
<1>3. PICK a \in Replies(o) :
        \/ Fails
        \/ method = "Delete" /\ a.status = 404 /\ state' = Unmanaged /\ Ended("ok")
        \/ Again
        \/ method # "Delete" /\ done(a) /\ Completes(a)
  BY DEF Poll
<1>4. CASE Fails
  BY <1>1, <1>4, FailsInv DEF ProviderInv, ProviderTypes
<1>5. CASE method = "Delete" /\ a.status = 404 /\ state' = Unmanaged /\ Ended("ok")
  <2>1. remote'[o].phase \notin Phase
    BY <1>1, <1>2, <1>5, AnswerMissing DEF ProviderInv, WaitsForPlan, Alive
  <2>2. ProviderTypes' /\ Normalised'
    BY <1>1, <1>5 DEF ProviderInv, ProviderTypes, Normalised, Unmanaged, Ended
  <2>3. at' = "idle" /\ outcome' = "ok" /\ method' = "Delete" /\ planned' \in Value \cup {Null}
    BY <1>1, <1>5, <2>2 DEF Ended, ProviderTypes
  <2>4. QED
    BY <1>1, <1>2, <1>5, <2>1, <2>2, <2>3, RemovedInv
<1>6. CASE Again
  BY <1>1, <1>6, AgainInv
<1>7. CASE method # "Delete" /\ done(a) /\ Completes(a)
  <2>1. method \in {"Create", "Update"}
    BY <1>2, <1>7 DEF Method
  <2>2. ASSUME [phase |-> "ready"] \in Success[method]
        PROVE  a.phase = "ready"
    <3>1. DEFINE c == [phase |-> "ready"]
    <3>2. "phase" \in DOMAIN c /\ c.phase = "ready"
      OBVIOUS
    <3>3. IF "phase" \in DOMAIN c THEN a.phase = c.phase ELSE a.status = c.status
      BY <1>7, <2>2 DEF Matches
    <3>4. QED
      BY <3>2, <3>3
  <2>3. QED
    BY <1>1, <1>7, <2>1, <2>2, CompletesInv
<1>8. QED
  BY <1>3, <1>4, <1>5, <1>6, <1>7

LEMMA GivesUpInv ==
    ASSUME ProviderInv, GivesUp
    PROVE  ProviderInv'
BY FailsInv DEF GivesUp, ProviderInv, ProviderTypes

\* An operation without a waiter has no criteria; only an update waits then.
LEMMA RefreshInv ==
    ASSUME ProviderInv, Refresh
    PROVE  ProviderInv'
<1>1. /\ at = "waiting" /\ method \notin polled
      /\ UNCHANGED <<remote, polled, method, planned, accepted, denied>>
  BY DEF Refresh
<1>2. PICK a \in Replies(state.id) : Completes(a) \/ Fails
  BY DEF Refresh
<1>3. CASE Fails
  BY <1>1, <1>3, FailsInv DEF ProviderInv, ProviderTypes
<1>4. CASE Completes(a)
  BY <1>1, <1>4, CompletesInv DEF ProviderInv, WaitsForPlan, Method
<1>5. QED
  BY <1>2, <1>3, <1>4

-----------------------------------------------------------------------------
\* The invariant holds in every behaviour: of the parts, KnownOnly says that
\* only objects with an identity are managed, Normalised and WaitsForPlan that
\* what an operation that was given up still changes cannot pass for the plan
\* of the next one.
THEOREM ProviderInvariant == ProviderSpec => []ProviderInv
<1>1. ASSUME ProviderInv, [ProviderNext]_providerVars
      PROVE  ProviderInv'
  <2>1. CASE UNCHANGED providerVars
    BY <1>1, <2>1 DEF ProviderInv, ProviderTypes, KnownOnly, Normalised, WaitsForPlan, Recorded,
                      Managed, RecordedIsReal, Alive, providerVars, opVars
  <2>2. CASE ProviderNext
    BY <1>1, <2>2, RejectedInv, CreateInv, UpdateInv, DeleteInv, DeleteMissingInv, ReadInv, PollInv,
       GivesUpInv, RefreshInv, SettlesInv DEF ProviderNext
  <2>3. QED
    BY <1>1, <2>1, <2>2
<1>2. QED
  BY InitProviderInv, <1>1, PTL DEF ProviderSpec

\* No object whose creation was answered with an identity is lost from
\* Terraform's state while the API has it and has not denied having it,
\* whatever fails, times out, is lost or is given up (waitPolling and the
\* generated Create, Read, Update and Delete).
THEOREM ManagedAlways == ProviderSpec => []Managed
BY ProviderInvariant, PTL DEF ProviderInv

\* What a create or an update records when it reports success is what the API
\* has or is about to have, also when the completing answer was stale.
THEOREM RecordedAlways == ProviderSpec => []RecordedIsReal
BY ProviderInvariant, PTL DEF ProviderInv



-----------------------------------------------------------------------------
(* Publish: the inductive invariant.                                        *)

JobPhase ==
    {"new", "prepared", "uploading", "succeeded", "failed", "differs"}

PublishTypes ==
    /\ stored \in [Distribution -> Build \cup {Missing}]
    /\ plan \in [Job -> [Distribution -> Build]]
    /\ local \in [Job -> [Distribution -> Build]]
    /\ phase \in [Job -> JobPhase]

PublishInv == PublishTypes /\ ReportedIsPublished /\ DifferenceIsReal

-----------------------------------------------------------------------------
LEMMA FilesAreDistributed == Files \subseteq Distribution
BY DEF Files

\* What a lookup finds equal, and complete, is in the registry.
LEMMA LookupIsTrue ==
    ASSUME NEW j \in Job, NEW S \in SUBSET Stored
    PROVE  /\ Differs(j, S) => \E f \in Files : stored[f] \notin {Missing, plan[j][f]}
           /\ ~Differs(j, S) /\ Complete(S) =>
                 \A f \in Files :
                    IF registry = "go" THEN stored[f] # Missing ELSE stored[f] = plan[j][f]
BY DEF Stored, Differs, Complete

\* A step that changes neither the registry nor the plans keeps what is said of
\* the jobs whose phase it leaves alone.
LEMMA OthersKept ==
    ASSUME PublishInv, NEW j \in Job, NEW p \in JobPhase, Becomes(j, p),
           UNCHANGED <<registry, stored, plan, local>>,
           p = "succeeded" =>
              \A f \in Files :
                 IF registry = "go" THEN stored[f] # Missing ELSE stored[f] = plan[j][f],
           p = "differs" => \E f \in Files : stored[f] \notin {Missing, plan[j][f]}
    PROVE  PublishInv'
<1>1. /\ phase'[j] = p
      /\ \A i \in Job : i # j => phase'[i] = phase[i]
      /\ Files' = Files
  BY DEF PublishInv, PublishTypes, Becomes, Files
<1>2. PublishTypes'
  BY DEF PublishInv, PublishTypes, Becomes
<1>3. ReportedIsPublished'
  BY <1>1 DEF PublishInv, ReportedIsPublished
<1>4. DifferenceIsReal'
  BY <1>1 DEF PublishInv, DifferenceIsReal
<1> QED
  BY <1>2, <1>3, <1>4 DEF PublishInv

LEMMA NothingKept ==
    ASSUME PublishInv, UNCHANGED <<registry, stored, plan, phase>>,
           local' \in [Job -> [Distribution -> Build]]
    PROVE  PublishInv'
BY DEF PublishInv, PublishTypes, ReportedIsPublished, DifferenceIsReal, Files

LEMMA PrepareInv ==
    ASSUME PublishInv, NEW j \in Job, Prepare(j)
    PROVE  PublishInv'
<1>1. UNCHANGED <<registry, stored, plan, local>>
  BY DEF Prepare
<1>2. PICK p \in JobPhase :
        /\ Becomes(j, p)
        /\ p = "succeeded" => \E S \in SUBSET Stored : ~Differs(j, S) /\ Complete(S)
        /\ p = "differs" => \E S \in SUBSET Stored : Differs(j, S)
  BY DEF Prepare, JobPhase
<1> QED
  BY <1>1, <1>2, OthersKept, LookupIsTrue

LEMMA BeginUploadInv ==
    ASSUME PublishInv, NEW j \in Job, BeginUpload(j)
    PROVE  PublishInv'
BY OthersKept DEF BeginUpload, JobPhase

\* The registry never replaces a file that it has.
LEMMA UploadInv ==
    ASSUME PublishInv, NEW j \in Job, NEW f \in Distribution, Upload(j, f)
    PROVE  PublishInv'
<1>1. stored' \in [Distribution -> Build \cup {Missing}]
  BY DEF Upload, Uploaded, PublishInv, PublishTypes
<1>2. \A g \in Distribution : stored[g] # Missing => stored'[g] = stored[g]
  BY DEF Upload, PublishInv, PublishTypes
<1>3. UNCHANGED <<registry, plan, local>> /\ Files' = Files
  BY DEF Upload, Files
<1>4. /\ phase' \in [Job -> JobPhase]
      /\ \A i \in Job : phase'[i] = phase[i] \/ phase'[i] = "failed"
  BY DEF Upload, Becomes, PublishInv, PublishTypes, JobPhase
<1>5. ReportedIsPublished'
  BY <1>2, <1>3, <1>4, FilesAreDistributed DEF PublishInv, PublishTypes, ReportedIsPublished
<1>6. DifferenceIsReal'
  <2> SUFFICES ASSUME NEW i \in Job, phase'[i] = "differs"
               PROVE  \E g \in Files : stored'[g] \notin {Missing, plan[i][g]}
    BY <1>3 DEF DifferenceIsReal
  <2>1. PICK g \in Files : stored[g] \notin {Missing, plan[i][g]}
    BY <1>4 DEF PublishInv, DifferenceIsReal
  <2> QED
    BY <1>2, <2>1, FilesAreDistributed
<1> QED
  BY <1>1, <1>3, <1>4, <1>5, <1>6 DEF PublishInv, PublishTypes

LEMMA ConfirmInv ==
    ASSUME PublishInv, NEW j \in Job, Confirm(j)
    PROVE  PublishInv'
<1>1. UNCHANGED <<registry, stored, plan, local>>
  BY DEF Confirm
<1>2. CASE UNCHANGED phase
  BY <1>1, <1>2, NothingKept DEF PublishInv, PublishTypes
<1>3. CASE \E p \in JobPhase :
             /\ Becomes(j, p)
             /\ p = "succeeded" => \E S \in SUBSET Stored : ~Differs(j, S) /\ Complete(S)
             /\ p = "differs" => \E S \in SUBSET Stored : Differs(j, S)
  BY <1>1, <1>3, OthersKept, LookupIsTrue
<1> QED
  BY <1>2, <1>3 DEF Confirm, JobPhase

\* Only a job that has not succeeded gets another plan.
LEMMA RerunInv ==
    ASSUME PublishInv, NEW j \in Job, Rerun(j)
    PROVE  PublishInv'
<1>1. PICK b \in Build : plan' = [plan EXCEPT ![j] = [f \in Distribution |-> b]]
  BY DEF Rerun
<1>2. /\ phase' = [phase EXCEPT ![j] = "new"]
      /\ local' = [local EXCEPT ![j] = plan'[j]]
      /\ UNCHANGED <<registry, stored>> /\ Files' = Files
  BY DEF Rerun, Becomes, Files
<1>3. PublishTypes'
  BY <1>1, <1>2 DEF PublishInv, PublishTypes, JobPhase
<1>4. \A i \in Job : \/ phase'[i] = "new"
                     \/ phase'[i] = phase[i] /\ plan'[i] = plan[i]
  BY <1>1, <1>2 DEF PublishInv, PublishTypes
<1>5. ReportedIsPublished' /\ DifferenceIsReal'
  BY <1>2, <1>4 DEF PublishInv, ReportedIsPublished, DifferenceIsReal
<1> QED
  BY <1>3, <1>5 DEF PublishInv

LEMMA InitPublished == PublishInit => PublishInv
BY DEF PublishInit, PublishInv, PublishTypes, JobPhase, ReportedIsPublished, DifferenceIsReal

-----------------------------------------------------------------------------
\* The invariant holds in every behaviour.
THEOREM PublishInvariant == PublishSpec => []PublishInv
<1>1. ASSUME PublishInv, [PublishNext]_publishVars
      PROVE  PublishInv'
  <2>1. CASE UNCHANGED publishVars
    BY <1>1, <2>1, NothingKept DEF publishVars, PublishInv, PublishTypes
  <2>2. ASSUME NEW j \in Job, Rebuild(j)
        PROVE  PublishInv'
    <3>1. local' \in [Job -> [Distribution -> Build]]
      <4>1. PICK f \in Files, b \in Build : local' = [local EXCEPT ![j][f] = b]
        BY <2>2 DEF Rebuild
      <4>2. [local[j] EXCEPT ![f] = b] \in [Distribution -> Build]
        BY <1>1 DEF PublishInv, PublishTypes
      <4> QED
        BY <1>1, <4>1, <4>2 DEF PublishInv, PublishTypes
    <3> QED
      BY <1>1, <2>2, <3>1, NothingKept DEF Rebuild
  <2>3. ASSUME NEW j \in Job, JobStep(j) \/ Rerun(j)
        PROVE  PublishInv'
    BY <1>1, <2>3, PrepareInv, BeginUploadInv, UploadInv, ConfirmInv, RerunInv DEF JobStep
  <2> QED
    BY <1>1, <2>1, <2>2, <2>3 DEF PublishNext
<1> QED
  BY InitPublished, <1>1, PTL DEF PublishSpec

\* A job reports success only of what it prepared: the registry has those
\* bytes, whatever uploads were refused, lost, or overtaken by another job
\* (preparePublish, confirmPublished).
THEOREM ReportsAreTrue == PublishSpec => []ReportedIsPublished
BY PublishInvariant, PTL DEF PublishInv

\* A job that stops for a difference has found other bytes under one of its
\* names; a release half uploaded or not visible yet never stops it.
THEOREM DifferencesAreReal == PublishSpec => []DifferenceIsReal
BY PublishInvariant, PTL DEF PublishInv

-----------------------------------------------------------------------------
(* NpmLifecycle: what a merge keeps and adds.                               *)

LEMMA Appended ==
    ASSUME NEW existing, NEW required
    PROVE  /\ DOMAIN AppendMissing(existing, required) = DOMAIN existing \cup DOMAIN required
           /\ \A x \in DOMAIN existing : AppendMissing(existing, required)[x] = existing[x]
BY DEF AppendMissing

\* A dependency that is not the author's is added to the section it was
\* generated for.
LEMMA MergedSections ==
    ASSUME NEW e, NEW g, NEW s \in Section
    PROVE  /\ DOMAIN MergeNpm(e, g).deps[s] =
                  DOMAIN Parsed(e).deps[s] \cup (DOMAIN g.deps[s] \ Chosen(Parsed(e)))
           /\ \A d \in DOMAIN Parsed(e).deps[s] :
                  MergeNpm(e, g).deps[s][d] = Parsed(e).deps[s][d]
<1> DEFINE missing == Restrict(g.deps[s], DOMAIN g.deps[s] \ Chosen(Parsed(e)))
<1>1. MergeNpm(e, g).deps[s] = AppendMissing(Parsed(e).deps[s], missing)
  BY DEF MergeNpm
<1>2. DOMAIN missing = DOMAIN g.deps[s] \ Chosen(Parsed(e))
  BY DEF Restrict
<1>3. /\ DOMAIN AppendMissing(Parsed(e).deps[s], missing) =
             DOMAIN Parsed(e).deps[s] \cup DOMAIN missing
      /\ \A d \in DOMAIN Parsed(e).deps[s] :
             AppendMissing(Parsed(e).deps[s], missing)[d] = Parsed(e).deps[s][d]
  BY Appended
<1> HIDE DEF missing
<1>4. PICK merged, section : merged = MergeNpm(e, g).deps[s] /\ section = Parsed(e).deps[s]
  OBVIOUS
<1>5. /\ DOMAIN merged = DOMAIN section \cup DOMAIN missing
      /\ \A d \in DOMAIN section : merged[d] = section[d]
  BY ONLY <1>1, <1>3, <1>4
<1> QED
  BY ONLY <1>2, <1>4, <1>5

LEMMA MergedChoice ==
    ASSUME NEW e, NEW g
    PROVE  Chosen(g) \subseteq Chosen(MergeNpm(e, g))
<1> SUFFICES ASSUME NEW s \in Section, NEW d \in DOMAIN g.deps[s]
             PROVE  \E x \in Section : d \in DOMAIN MergeNpm(e, g).deps[x]
  BY DEF Chosen
<1>1. CASE d \in Chosen(Parsed(e))
  <2>1. PICK x \in Section : d \in DOMAIN Parsed(e).deps[x]
    BY <1>1 DEF Chosen
  <2> QED
    BY <2>1, MergedSections
<1>2. CASE d \notin Chosen(Parsed(e))
  BY <1>2, MergedSections
<1> QED
  BY <1>1, <1>2

LEMMA MergedRest ==
    ASSUME NEW e, NEW g
    PROVE  /\ MergeNpm(e, g).identity = g.identity
           /\ MergeNpm(e, g).exports = AppendMissing(g.exports, Parsed(e).exports)
           /\ MergeNpm(e, g).settings = AppendMissing(Parsed(e).settings, g.settings)
           /\ MergeNpm(e, g).files = Parsed(e).files \cup g.files
BY DEF MergeNpm

\* Whatever a release requires is in the manifest it was merged into, whatever
\* the author, or other releases, had put there (merge_npm_manifest).
THEOREM RequirementsAreMet == Spec => []RequirementsMet
<1>1. Init => RequirementsMet
  BY DEF Init, RequirementsMet
<1>2. RequirementsMet /\ [Next]_vars => RequirementsMet'
  <2> SUFFICES ASSUME RequirementsMet, [Next]_vars PROVE RequirementsMet'
    OBVIOUS
  <2>1. CASE Author
    BY <2>1 DEF Author, RequirementsMet
  <2>2. ASSUME NEW g \in Release, Regenerate(g) PROVE RequirementsMet'
    <3>1. pkg' = MergeNpm(pkg, g) /\ last' = g
      BY <2>2 DEF Regenerate
    <3>2. \A x \in DOMAIN g.exports : MergeNpm(pkg, g).exports[x] = g.exports[x]
      <4>1. MergeNpm(pkg, g).exports = AppendMissing(g.exports, Parsed(pkg).exports)
        BY MergedRest
      <4>2. \A x \in DOMAIN g.exports :
                AppendMissing(g.exports, Parsed(pkg).exports)[x] = g.exports[x]
        BY Appended
      <4> QED
        BY <4>1, <4>2
    <3>3. g.files \subseteq MergeNpm(pkg, g).files
      BY MergedRest
    <3>4. Chosen(last)' = Chosen(g) /\ Chosen(pkg)' = Chosen(MergeNpm(pkg, g))
      BY <3>1 DEF Chosen
    <3> QED
      BY <3>1, <3>2, <3>3, <3>4, MergedRest, MergedChoice DEF RequirementsMet
  <2>3. CASE UNCHANGED vars
    BY <2>3 DEF vars, RequirementsMet, Chosen
  <2> QED
    BY <2>1, <2>2, <2>3 DEF Next
<1> QED
  BY <1>1, <1>2, PTL DEF Spec

\* Regeneration keeps every dependency of the author in its section and with
\* its range, and lists it in no other, for every manifest and every release.
THEOREM UserChoicesSurvive == Spec => UserChoiceSurvives
<1>1. ASSUME NEW g \in Release, Regenerate(g), pkg # Absent,
             NEW s \in Section, NEW d \in Chosen(pkg)
      PROVE  /\ d \in DOMAIN pkg'.deps[s] <=> d \in DOMAIN pkg.deps[s]
             /\ d \in DOMAIN pkg.deps[s] => pkg'.deps[s][d] = pkg.deps[s][d]
  <2>1. pkg' = MergeNpm(pkg, g) /\ Parsed(pkg) = pkg
    BY <1>1 DEF Regenerate, Parsed
  <2> QED
    BY <2>1, MergedSections
<1>2. [Next]_vars =>
         [\A g \in Release : Regenerate(g) /\ pkg # Absent =>
             \A s \in Section, d \in Chosen(pkg) :
                /\ d \in DOMAIN pkg'.deps[s] <=> d \in DOMAIN pkg.deps[s]
                /\ d \in DOMAIN pkg.deps[s] => pkg'.deps[s][d] = pkg.deps[s][d]]_vars
  BY <1>1
<1> QED
  BY <1>2, PTL DEF Spec, UserChoiceSurvives

\* Merging the same release once more changes nothing: what Materialize assumes
\* of a merge.
THEOREM MergeRepeats ==
    ASSUME NEW e, NEW g, MergeNpm(e, g) # Absent
    PROVE  MergeNpm(MergeNpm(e, g), g) = MergeNpm(e, g)
<1> PICK m : m = MergeNpm(e, g)
  OBVIOUS
<1> DEFINE again(s) == Restrict(g.deps[s], DOMAIN g.deps[s] \ Chosen(m))
<1>1. Parsed(m) = m /\ m = [identity |-> m.identity, deps |-> m.deps, settings |-> m.settings,
                            exports |-> m.exports, files |-> m.files]
  BY DEF Parsed, MergeNpm
<1>2. \A f, x : DOMAIN x \subseteq DOMAIN AppendMissing(f, x)
  BY Appended
<1>3. \A f, x, y : DOMAIN y \subseteq DOMAIN AppendMissing(f, x) =>
         AppendMissing(AppendMissing(f, x), y) = AppendMissing(f, x)
  BY DEF AppendMissing
<1>4. ASSUME NEW s \in Section PROVE AppendMissing(m.deps[s], again(s)) = m.deps[s]
  <2>1. DOMAIN again(s) = {}
    <3>1. Chosen(g) \subseteq Chosen(m)
      BY MergedChoice
    <3>2. DOMAIN g.deps[s] \subseteq Chosen(g)
      BY DEF Chosen
    <3>3. DOMAIN again(s) = DOMAIN g.deps[s] \ Chosen(m)
      BY DEF Restrict
    <3> QED
      BY <3>1, <3>2, <3>3
  <2>2. m.deps[s] = AppendMissing(Parsed(e).deps[s],
                                  Restrict(g.deps[s], DOMAIN g.deps[s] \ Chosen(Parsed(e))))
    BY DEF MergeNpm
  <2> HIDE DEF again
  <2> QED
    BY <1>3, <2>1, <2>2
<1>5. [s \in Section |-> AppendMissing(m.deps[s], again(s))] = m.deps
  <2>1. m.deps = [s \in Section |-> m.deps[s]]
    BY DEF MergeNpm
  <2> HIDE DEF again
  <2> QED
    BY <1>4, <2>1
<1>6. AppendMissing(m.settings, g.settings) = m.settings
  BY <1>2, <1>3, MergedRest
<1>7. AppendMissing(g.exports, m.exports) = m.exports
  <2>1. \A f, x : AppendMissing(f, AppendMissing(f, x)) = AppendMissing(f, x)
    BY DEF AppendMissing
  <2> QED
    BY <2>1, MergedRest
<1>8. m.identity = g.identity /\ m.files \cup g.files = m.files
  BY MergedRest
<1>9. MergeNpm(m, g) =
         [identity |-> g.identity,
          deps     |-> [s \in Section |-> AppendMissing(m.deps[s], again(s))],
          settings |-> AppendMissing(m.settings, g.settings),
          exports  |-> AppendMissing(g.exports, m.exports),
          files    |-> m.files \cup g.files]
  BY <1>1 DEF MergeNpm
<1> HIDE DEF again
<1> QED
  BY <1>1, <1>5, <1>6, <1>7, <1>8, <1>9
=============================================================================
