------------------------------- MODULE Broker -------------------------------
(***************************************************************************)
(* The token broker: exchanges of one-time OIDC identities for tokens of   *)
(* the App, its persistent replay markers, and restarts.  The checks of an *)
(* identity that do not depend on time (signature, policy) may refuse it   *)
(* at any time; GitHub's tokens, minted once a marker is written, and what *)
(* they are scoped to are left out.                                        *)
(***************************************************************************)
EXTENDS Integers, FiniteSets

CONSTANTS
    Identity,
    Unclaimed,
    Exchange,   \* requests the server handles at once
    Claim,      \* the times an identity may claim: [iat, exp]
    Lifetime,   \* the longest an identity may live, and the oldest it may be
    Skew,       \* how far in the future it may be issued
    Grace,      \* the age from which an empty marker is stale
    Interval,   \* cleanups are further apart than this
    Limit,      \* markers in the store from which exchanges are refused
    MaxTime     \* bound on time

ASSUME BrokerAssumption ==
    /\ Claim \subseteq [iat : Int, exp : Int]
    /\ {Lifetime, Skew, Grace, Interval, Limit, MaxTime} \subseteq Nat
    /\ Lifetime + Skew <= Grace
    /\ Unclaimed \notin Identity
    /\ IsFiniteSet(Exchange) /\ Exchange # {}

VARIABLES
    now,
    claims,     \* times of the identities
    marker,     \* per identity: "none", "empty" or "full"
    since,      \* when its marker was created
    sweptAt,    \* the store's last cleanup, or -1
    stage,      \* where an exchange is
    holds,      \* the identity of an exchange
    doomed,     \* the markers its cleanup found stale
    uses        \* markers created for an identity before it expired

brokerVars == <<now, claims, marker, since, sweptAt, stage, holds, doomed, uses>>

Expired(i) == claims[i].exp <= now
Markers == {i \in Identity : marker[i] # "none"}

BrokerInit ==
    /\ now = 0
    /\ claims \in [Identity -> Claim]
    /\ marker = [i \in Identity |-> "none"]
    /\ since = [i \in Identity |-> 0]
    /\ sweptAt = -1
    /\ stage = [e \in Exchange |-> "idle"]
    /\ holds = [e \in Exchange |-> Unclaimed]
    /\ doomed = [e \in Exchange |-> {}]
    /\ uses = [i \in Identity |-> 0]

Reaches(e, s) == stage' = [stage EXCEPT ![e] = s]
Leaves(e) == Reaches(e, "idle") /\ holds' = [holds EXCEPT ![e] = Unclaimed]

\* Faulty variant: an identity may be issued ahead of the clock.
TimelyEver(i) ==
    /\ ~Expired(i)
    /\ claims[i].iat >= now - Lifetime
    /\ claims[i].exp - claims[i].iat \in 1..Lifetime

Timely(i) ==
    /\ ~Expired(i)
    /\ claims[i].iat <= now + Skew
    /\ claims[i].iat >= now - Lifetime
    /\ claims[i].exp - claims[i].iat \in 1..Lifetime

Verify(e, i) ==
    /\ stage[e] = "idle"
    /\ Timely(i)
    /\ Reaches(e, "verified")
    /\ holds' = [holds EXCEPT ![e] = i]
    /\ UNCHANGED <<now, claims, marker, since, sweptAt, doomed, uses>>

\* A marker outlives its identity.  One left empty by a crash does not say
\* when that expires, and is kept for as long as any identity could live.
Stale(i) ==
    \/ marker[i] = "full" /\ Expired(i)
    \/ marker[i] = "empty" /\ since[i] < now - Grace

\* The first exchange after an interval reads the markers; others may do so
\* as well until its cleanup has ended.
Judge(e) ==
    LET due == sweptAt = -1 \/ now - sweptAt > Interval IN
    /\ stage[e] = "verified"
    /\ Reaches(e, IF due THEN "sweeping" ELSE "swept")
    /\ doomed' = [doomed EXCEPT ![e] = IF due THEN {i \in Identity : Stale(i)} ELSE {}]
    /\ UNCHANGED <<now, claims, marker, since, sweptAt, holds, uses>>

Sweep(e) ==
    /\ stage[e] = "sweeping"
    /\ marker' = [i \in Identity |-> IF i \in doomed[e] THEN "none" ELSE marker[i]]
    /\ sweptAt' = now
    /\ doomed' = [doomed EXCEPT ![e] = {}]
    /\ Reaches(e, "swept")
    /\ UNCHANGED <<now, claims, since, holds, uses>>

\* Faulty variant: the limit itself is still allowed.
RoomAtLimit(e) ==
    /\ stage[e] = "swept"
    /\ IF Cardinality(Markers) <= Limit
       THEN Reaches(e, "room") /\ UNCHANGED holds
       ELSE Leaves(e)
    /\ UNCHANGED <<now, claims, marker, since, sweptAt, doomed, uses>>

\* The store is listed, and only then is the marker created.
Room(e) ==
    /\ stage[e] = "swept"
    /\ IF Cardinality(Markers) < Limit
       THEN Reaches(e, "room") /\ UNCHANGED holds
       ELSE Leaves(e)
    /\ UNCHANGED <<now, claims, marker, since, sweptAt, doomed, uses>>

\* Creation is exclusive: who finds the marker of its identity is refused.
Open(e) ==
    LET i == holds[e] IN
    /\ stage[e] = "room"
    /\ IF marker[i] = "none"
       THEN /\ marker' = [marker EXCEPT ![i] = "empty"]
            /\ since' = [since EXCEPT ![i] = now]
            /\ uses' = [uses EXCEPT ![i] = IF Expired(i) THEN @ ELSE @ + 1]
            /\ Reaches(e, "opened") /\ UNCHANGED holds
       ELSE Leaves(e) /\ UNCHANGED <<marker, since, uses>>
    /\ UNCHANGED <<now, claims, sweptAt, doomed>>

\* The file is open: writing to it makes no new file of one that was removed.
\* The token is asked for next, and the exchange ends.
Write(e) ==
    LET i == holds[e] IN
    /\ stage[e] = "opened"
    /\ marker' = [marker EXCEPT ![i] = IF @ = "none" THEN @ ELSE "full"]
    /\ Leaves(e)
    /\ UNCHANGED <<now, claims, since, sweptAt, doomed, uses>>

\* A check refuses the identity, or a file operation fails.
Deny(e) ==
    /\ stage[e] # "idle"
    /\ Leaves(e)
    /\ doomed' = [doomed EXCEPT ![e] = {}]
    /\ UNCHANGED <<now, claims, marker, since, sweptAt, uses>>

BrokerRestarts ==
    /\ stage' = [e \in Exchange |-> "idle"]
    /\ holds' = [e \in Exchange |-> Unclaimed]
    /\ doomed' = [e \in Exchange |-> {}]
    /\ sweptAt' = -1
    /\ UNCHANGED <<now, claims, marker, since, uses>>

Tick ==
    /\ now < MaxTime
    /\ now' = now + 1
    /\ UNCHANGED <<claims, marker, since, sweptAt, stage, holds, doomed, uses>>

ExchangeStep(e) ==
    \/ \E i \in Identity : Verify(e, i)
    \/ Judge(e) \/ Sweep(e) \/ Room(e) \/ Open(e) \/ Write(e) \/ Deny(e)

BrokerNext == BrokerRestarts \/ Tick \/ \E e \in Exchange : ExchangeStep(e)
BrokerSpec == BrokerInit /\ [][BrokerNext]_brokerVars

-----------------------------------------------------------------------------
\* An identity is accepted once while it lives, whoever presents it at the same
\* time or after a restart, and whether or not its marker could be written.
UsedOnce == \A i \in Identity : uses[i] <= 1

\* Exchanges that list the store at the same time pass its limit by less than
\* their number.
StoreBounded == Cardinality(Markers) < Limit + Cardinality(Exchange)
=============================================================================
