-------------------------- MODULE ProviderResource --------------------------
(***************************************************************************)
(* A resource of a generated Terraform provider: its create, read, update  *)
(* and delete against an API that may finish them later, the waiters that  *)
(* poll its read operation, and the state Terraform keeps of one managed   *)
(* object.  A plan stands for all attributes the user may set.  Terraform, *)
(* which decides what to run and marks what a failed create left as        *)
(* tainted, and the API are modelled from what the provider relies on.     *)
(***************************************************************************)
EXTENDS Naturals

CONSTANTS
    Object,      \* objects the API may create
    Value,       \* values of the attributes
    Null,
    Canonical,   \* what the API makes of a value that it is sent
    Success,     \* the criteria of each waiter
    Failure,
    MaxPolls     \* polls of a waiter

Method == {"Create", "Update", "Delete"}
Phase == {"creating", "ready", "updating", "failed", "deleting"}
Unanswered == 0      \* the status of a call that got no answer
Status == {Unanswered, 200, 202, 404, 500}
Criterion == [status : Status \ {Unanswered}] \cup [phase : Phase]

\* What the plan of a provider demands of its waiters.
ValidPolling ==
    /\ {Success, Failure} \subseteq [Method -> SUBSET Criterion]
    /\ \A m \in Method : Success[m] # {} /\ Success[m] # Failure[m]
    /\ \A m \in {"Create", "Update"} : \A c \in Success[m] : "status" \in DOMAIN c => c.status = 200
    /\ [status |-> 404] \in Success["Delete"]
    /\ \A m \in Method : \A g \in {Success[m], Failure[m]} :
           \A c, d \in g : DOMAIN c = DOMAIN d => c = d
    /\ MaxPolls \in Nat \ {0}

\* An API that is sent back what it stored stores that.
ASSUME ProviderAssumption ==
    /\ ValidPolling
    /\ Canonical \in [Value -> Value] /\ \A v \in Value : Canonical[Canonical[v]] = Canonical[v]
    /\ Null \notin Object /\ Null \notin Value /\ Null \notin Phase

VARIABLES
    remote,    \* the API's objects: phase, value, and the value on its way
    polled,    \* the methods that have a waiter
    state,     \* Terraform's state: the managed object, its value and taint
    method,    \* the operation that runs, or ran last
    planned,   \* its plan
    at,        \* idle, or waiting for the object to become what was planned
    polls,
    outcome,   \* how the operation ended
    accepted,  \* objects whose creation was answered with an identity
    denied     \* objects that the API said did not exist before they were ready

opVars == <<method, planned, at, polls, outcome>>
providerVars == <<remote, polled, state, opVars, accepted, denied>>

Unmanaged == [id |-> Null, value |-> Null, tainted |-> FALSE]
Alive(o) == remote[o].phase \in Phase

ProviderInit ==
    /\ remote = [o \in Object |-> [phase |-> "absent", value |-> Null, next |-> Null]]
    /\ polled \in SUBSET Method
    /\ state = Unmanaged
    /\ method = Null /\ planned = Null /\ at = "idle" /\ polls = 0 /\ outcome = "none"
    /\ accepted = {} /\ denied = {}

-----------------------------------------------------------------------------
(* The API.  An object that is being created may not be found yet, and one *)
(* that is being updated may still be shown as it was.                     *)

Bare(s) == [status |-> s, id |-> Null, phase |-> Null, value |-> Null]

Shown(o) ==
    LET p == remote[o].phase IN
    [status : {200}, id : {o, Null}, value : {remote[o].value},
     phase : IF p = "updating" THEN {"updating", "ready"} ELSE {p}]

Replies(o) ==
    {Bare(Unanswered), Bare(500)}
    \cup (IF Alive(o) THEN Shown(o) ELSE {Bare(404)})
    \cup (IF remote[o].phase = "creating" THEN {Bare(404)} ELSE {})
    \cup (IF remote[o].phase \in {"creating", "updating", "deleting"} THEN {Bare(202)} ELSE {})

Turns(o, p, v, w) == remote' = [remote EXCEPT ![o] = [phase |-> p, value |-> v, next |-> w]]

\* What the API has accepted ends in one way or another, and others may delete
\* the object.
Settles(o) ==
    LET r == remote[o] IN
    /\ \/ r.phase = "creating" /\ \E p \in {"ready", "failed"} : Turns(o, p, r.value, r.value)
       \/ r.phase = "updating" /\ \/ Turns(o, "ready", r.next, r.next)
                                  \/ Turns(o, "failed", r.value, r.value)
       \/ r.phase = "deleting" /\ Turns(o, "ready", r.value, r.value)
       \/ Alive(o) /\ Turns(o, "gone", r.value, r.value)
    /\ UNCHANGED <<polled, state, opVars, accepted, denied>>

-----------------------------------------------------------------------------
(* The provider.                                                           *)

Starts(m, v) ==
    /\ at = "idle"
    /\ method' = m /\ planned' = v /\ polls' = 0

Waits == at' = "waiting" /\ outcome' = "none"
Ended(r) == at' = "idle" /\ outcome' = r

\* Faulty variant: a create that failed leaves no state behind.
FailsForgetting == Ended("error") /\ state' = IF state.tainted THEN Unmanaged ELSE state

Fails == Ended("error") /\ UNCHANGED state

\* What is saved before a waiter starts.
Recovery(o, v) == [id |-> o, value |-> v, tainted |-> TRUE]

\* Faulty variant: the answer is taken over whatever was planned.
AgreesAnyhow(a) == a.id = state.id

\* An answer for the managed object that does not change what was planned.
Agrees(a) == a.id = state.id /\ a.value = planned

\* The mutation was refused, or did not reach the API.
Rejected(m, v) ==
    /\ Starts(m, v)
    /\ state.id = Null <=> m = "Create"
    /\ Fails
    /\ UNCHANGED <<remote, polled, accepted, denied>>

\* An answer without a usable identity leaves no trace of the object.
Create(o, v) ==
    LET kept == Canonical[v] IN
    /\ Starts("Create", v)
    /\ state.id = Null /\ remote[o].phase = "absent"
    /\ \E p \in (IF "Create" \in polled THEN {"creating", "ready"} ELSE {"ready"}) :
           Turns(o, p, kept, kept)
    /\ \/ Fails /\ UNCHANGED accepted
       \/ /\ accepted' = accepted \cup {o}
          /\ "Create" \in polled
          /\ state' = Recovery(o, v)
          /\ Waits
       \/ /\ accepted' = accepted \cup {o}
          /\ "Create" \notin polled
          /\ state' = [Recovery(o, v) EXCEPT !.tainted = kept # v]
          /\ Ended(IF kept = v THEN "ok" ELSE "error")
    /\ UNCHANGED <<polled, denied>>

Update(v) ==
    LET o == state.id IN
    /\ Starts("Update", v)
    /\ o # Null /\ ~state.tainted /\ v # state.value
    /\ Alive(o)
    /\ \/ "Update" \in polled /\ Turns(o, "updating", remote[o].value, Canonical[v])
       \/ Turns(o, "ready", Canonical[v], Canonical[v])
    /\ \/ Waits /\ UNCHANGED state
       \/ Fails
    /\ UNCHANGED <<polled, accepted, denied>>

Removes(o) ==
    /\ state' = Unmanaged
    /\ denied' = IF Alive(o) THEN denied \cup {o} ELSE denied
    /\ Ended("ok")

\* Faulty variant: what was accepted counts as done.
DeletesAtOnce == TRUE

\* Without a waiter the API deletes at once.
DeletesNow == "Delete" \notin polled

Delete ==
    LET o == state.id IN
    /\ Starts("Delete", Null)
    /\ o # Null /\ Alive(o)
    /\ \/ Turns(o, "gone", remote[o].value, remote[o].value)
       \/ "Delete" \in polled /\ Turns(o, "deleting", remote[o].value, remote[o].value)
    /\ \/ Fails
       \/ DeletesNow /\ state' = Unmanaged /\ Ended("ok")
       \/ ~DeletesNow /\ Waits /\ UNCHANGED state
    /\ UNCHANGED <<polled, accepted, denied>>

\* An object the API does not find need not be deleted.
DeleteMissing ==
    LET o == state.id IN
    /\ Starts("Delete", Null)
    /\ o # Null /\ Bare(404) \in Replies(o)
    /\ Removes(o)
    /\ UNCHANGED <<remote, polled, accepted>>

Read ==
    LET o == state.id IN
    /\ Starts("Read", Null)
    /\ o # Null
    /\ \E a \in Replies(o) :
           \/ a.status = 404 /\ Removes(o)
           \/ /\ a.status = 200 /\ a.id = o
              /\ state' = [state EXCEPT !.value = a.value]
              /\ Ended("ok") /\ UNCHANGED denied
           \/ /\ a.status # 404 /\ (a.status = 200 => a.id # o)
              /\ Fails /\ UNCHANGED denied
    /\ UNCHANGED <<remote, polled, accepted>>

\* The answer completes a create or an update, unless it contradicts the plan.
Completes(a) ==
    \/ /\ Agrees(a)
       /\ state' = [id |-> state.id, value |-> planned, tainted |-> FALSE]
       /\ Ended("ok")
    \/ ~Agrees(a) /\ Fails

\* A group is a conjunction; an empty one never matches.
Matches(criteria, a) ==
    /\ criteria # {}
    /\ \A c \in criteria : IF "phase" \in DOMAIN c THEN a.phase = c.phase ELSE a.status = c.status

Again == polls' = polls + 1 /\ UNCHANGED <<at, outcome, state>>

Poll ==
    LET deleting == method = "Delete" IN
    /\ at = "waiting" /\ method \in polled /\ polls < MaxPolls
    /\ \E a \in Replies(state.id) :
         LET failed == a.status = Unanswered \/ Matches(Failure[method], a)
             done == Matches(Success[method], a)
         IN  \/ failed /\ Fails /\ UNCHANGED polls
             \/ /\ ~failed /\ a.status = 404
                /\ \/ /\ deleting /\ done
                      /\ state' = Unmanaged /\ Ended("ok") /\ UNCHANGED polls
                   \/ method = "Create" /\ Again
                   \/ /\ ~(deleting /\ done) /\ method # "Create"
                      /\ Fails /\ UNCHANGED polls
             \/ ~failed /\ a.status = 500 /\ Fails /\ UNCHANGED polls
             \/ /\ ~failed /\ a.status \in {200, 202}
                /\ \/ ~deleting /\ a.status # 202 /\ done /\ Completes(a) /\ UNCHANGED polls
                   \/ (deleting \/ a.status = 202 \/ ~done) /\ Again
    /\ UNCHANGED <<remote, polled, method, planned, accepted, denied>>

\* The attempts are used up, the deadline passes or the user interrupts.
GivesUp ==
    /\ at = "waiting" /\ method \in polled
    /\ Fails
    /\ UNCHANGED <<remote, polled, method, planned, polls, accepted, denied>>

\* An update without a waiter reads the object once.
Refresh ==
    /\ at = "waiting" /\ method \notin polled
    /\ \E a \in Replies(state.id) :
           \/ a.status = 200 /\ Completes(a)
           \/ a.status # 200 /\ Fails
    /\ UNCHANGED <<remote, polled, method, planned, polls, accepted, denied>>

ProviderNext ==
    \/ \E m \in Method, v \in Value : Rejected(m, v)
    \/ \E v \in Value : Update(v) \/ \E o \in Object : Create(o, v)
    \/ Delete \/ DeleteMissing \/ Read \/ Poll \/ GivesUp \/ Refresh
    \/ \E o \in Object : Settles(o)

ProviderSpec == ProviderInit /\ [][ProviderNext]_providerVars

-----------------------------------------------------------------------------
(* A waiter that times out, an answer that is lost, an operation that fails *)
(* after it was accepted and a deletion that is refused late leave every   *)
(* object the provider has an identity for in Terraform's state, for as    *)
(* long as the API has it: otherwise the next apply makes another one and  *)
(* nobody deletes the first.  Excepted are objects the API denied having.  *)
Managed == \A o \in accepted : Alive(o) => o = state.id \/ o \in denied

(* A create or an update that reports success has recorded what the API    *)
(* has, or is about to have, even if the answer that completed it showed   *)
(* an object that an earlier operation, given up since, still changes; and *)
(* an object that had to be ready is ready, not failed, unless others have *)
(* deleted it since.                                                       *)
RecordedIsReal ==
    at = "idle" /\ outcome = "ok" /\ method \in {"Create", "Update"} =>
        /\ ~state.tainted /\ state.value = planned
        /\ remote[state.id].value = planned /\ remote[state.id].next = planned
        /\ method = "Create" /\ [phase |-> "ready"] \in Success["Create"] /\ "Create" \in polled
               => remote[state.id].phase \in {"ready", "gone"}
=============================================================================
