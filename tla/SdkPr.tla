------------------------------- MODULE SdkPr -------------------------------
(***************************************************************************)
(* poolster sdk pr: open_pr (crates/cli/src/sdk_automation.rs) generates   *)
(* the SDKs from a source commit into a clone of the SDK repository, on    *)
(* the branch of the open pull request or on a new one, and pushes.        *)
(* Between its requests it works on its clones: generation and transfer    *)
(* are one local step.  Files of the output root: the generated code, the  *)
(* package's delivery metadata (its version) and the ownership inventory,  *)
(* which holds what the other two were when they were generated.           *)
(***************************************************************************)
EXTENDS Forge

CONSTANTS
    Job,      \* runs of the command that may overlap: a workflow's, a laptop's
    Source,   \* the code that each source commit generates
    Version0, \* version of a package that was never generated here
    Start,    \* trees the SDK repository may have at first
    MaxCrashes \* bound on runs that are cut short

ASSUME SdkAssumption ==
    /\ NoFile \notin {Source[n] : n \in DOMAIN Source}
    /\ Author \notin Job /\ Closed # "open" /\ NoFile # Version0
    /\ MaxCommits \in Nat /\ MaxAuthored \in Nat /\ MaxCrashes \in Nat

\* People release, and so raise the version, but do not take it back.
ASSUME VersionAssumption ==
    /\ \A t \in Start : {"code", "meta", "ownership"} \subseteq DOMAIN t
    /\ \A change \in Change :
          "meta" \in DOMAIN change => change["meta"] \notin {NoFile, Version0}

VARIABLES
    run,     \* job |-> its run, or Idle
    crashes, \* runs cut short so far (bound)
    settled  \* history: n when a run of source commit n completed, all else
             \* untouched since it began; 0 otherwise

vars == <<forge, run, crashes, settled>>

\* at: what it does next; n: the source commit; existing: it found an open pull
\* request; base: what it cloned; head: the parent of its commit; quiet
\* (history): nobody else has changed the repository since it began.
Idle == [at |-> "idle", n |-> 0, existing |-> FALSE, base |-> 0, head |-> 0,
         quiet |-> FALSE]

-----------------------------------------------------------------------------
(* Generation into the checkout.                                            *)

\* Commits whose files the clone can show: it is one deep, and the review
\* branch is fetched down to it.
Shown(r) ==
    IF ~r.existing THEN {r.base}
    ELSE IF r.base \in Past(r.head) THEN (Past(r.head) \ Past(r.base)) \cup {r.base}
    ELSE Past(r.head)

\* A release changed nothing but the version that was generated.
Released(t, shown) == \E c \in shown : TreeOf(c)["meta"] = t["ownership"].meta

\* Owned files must be as they were generated, but for a release; without an
\* inventory other code must not be there.
Transferable(r) ==
    LET t == TreeOf(r.head) IN
    IF t["ownership"] # NoFile
    THEN /\ t["code"] = t["ownership"].code
         /\ t["meta"] # NoFile
         /\ t["meta"] = t["ownership"].meta \/ Released(t, Shown(r))
    ELSE t["code"] \in {NoFile, Source[r.n]}

\* Faulty variant: the version is the one of a new package.
VersionReset(t) == Version0

Version(t) == IF t["meta"] = NoFile THEN Version0 ELSE t["meta"]

Generated(r) ==
    LET t == TreeOf(r.head)
        v == Version(t)
    IN  [t EXCEPT !["code"] = Source[r.n], !["meta"] = v,
                  !["ownership"] = [code |-> Source[r.n], meta |-> v]]

-----------------------------------------------------------------------------
(* A run.                                                                   *)

Goes(j, r) == run' = [run EXCEPT ![j] = r]
Disturbing(j, r) ==
    run' = [i \in Job |-> IF i = j THEN r ELSE [run[i] EXCEPT !.quiet = FALSE]]

\* Faulty variant: a pull request that was closed or merged counts.
FoundPullOfAnyState == branch # 0

FoundPull == pr # Closed

ListPulls(j) ==
    /\ run[j] = Idle
    /\ \E n \in DOMAIN Source :
          Goes(j, [Idle EXCEPT !.at = "clone", !.n = n, !.existing = FoundPull,
                               !.quiet = TRUE])
    /\ UNCHANGED <<forge, crashes, settled>>

Clone(j) ==
    /\ run[j].at = "clone"
    /\ Goes(j, [run[j] EXCEPT !.at = "branch", !.base = base])
    /\ UNCHANGED <<forge, crashes, settled>>

\* prepare_pr_branch: the head of the pull request, or the base.
Prepare(j) ==
    /\ run[j].at = "branch"
    /\ Goes(j, IF run[j].existing /\ branch = 0 THEN Idle
               ELSE [run[j] EXCEPT !.at = "transfer",
                         !.head = IF run[j].existing THEN branch ELSE run[j].base])
    /\ UNCHANGED <<forge, crashes, settled>>

Complete(j) == settled' = IF run[j].quiet THEN run[j].n ELSE 0

Transfer(j) ==
    /\ run[j].at = "transfer"
    /\ IF ~Transferable(run[j])
       THEN Goes(j, Idle) /\ UNCHANGED settled
       ELSE IF Generated(run[j]) = TreeOf(run[j].head)
       THEN Goes(j, Idle) /\ Complete(j)
       ELSE Goes(j, [run[j] EXCEPT !.at = "push"]) /\ UNCHANGED settled
    /\ UNCHANGED <<forge, crashes>>

\* Faulty variant: git push --force.
PushableByForce(r) == TRUE

Pushable(r) == FastForward(r.head)

Push(j) ==
    /\ run[j].at = "push"
    /\ Pushable(run[j])
    /\ Commit(Generated(run[j]), {run[j].head}, j)
    /\ branch' = Fresh
    /\ Disturbing(j, [run[j] EXCEPT !.at = "offer"])
    /\ settled' = 0
    /\ UNCHANGED <<base, pr, crashes>>

Rejected(j) ==
    /\ run[j].at = "push"
    /\ ~Pushable(run[j])
    /\ Goes(j, Idle)
    /\ UNCHANGED <<forge, crashes, settled>>

\* gh pr edit takes the number found at first, open or not: its text only.
EditPull(j) ==
    /\ run[j].at = "offer"
    /\ run[j].existing
    /\ Goes(j, Idle)
    /\ Complete(j)
    /\ UNCHANGED <<forge, crashes>>

CreatePull(j) ==
    /\ run[j].at = "offer"
    /\ ~run[j].existing
    /\ IF CanOpen
       THEN pr' = "open" /\ Disturbing(j, Idle) /\ Complete(j)
       ELSE Goes(j, Idle) /\ UNCHANGED <<pr, settled>>
    /\ UNCHANGED <<commits, base, branch, crashes>>

\* A run may be cut short anywhere, after its push too.
Crash(j) ==
    /\ run[j] # Idle
    /\ crashes < MaxCrashes
    /\ crashes' = crashes + 1
    /\ Goes(j, Idle)
    /\ UNCHANGED <<forge, settled>>

-----------------------------------------------------------------------------
Init ==
    /\ \E t \in Start : ForgeInit(t)
    /\ run = [j \in Job |-> Idle]
    /\ crashes = 0 /\ settled = 0

RunStep(j) ==
    \/ ListPulls(j) \/ Clone(j) \/ Prepare(j) \/ Transfer(j) \/ Push(j)
    \/ Rejected(j) \/ EditPull(j) \/ CreatePull(j) \/ Crash(j)

PeopleStep ==
    /\ People
    /\ run' = [j \in Job |-> [run[j] EXCEPT !.quiet = FALSE]]
    /\ settled' = 0
    /\ UNCHANGED crashes

Next == (\E j \in Job : RunStep(j)) \/ PeopleStep

Spec == Init /\ [][Next]_vars

-----------------------------------------------------------------------------
(* Properties.                                                              *)

Pushed == branch' \notin {branch, 0} /\ commits'[branch'].by \in Job

\* A push keeps every commit of the review branch as it is at that moment, and
\* replaces no code, or setup, that somebody edited on the branch or on the base
\* it was made from, whenever the edit was made.
EditsSurvive ==
    [][Pushed =>
          LET c == commits'[branch']
              t == TreeOf(Max(c.past \ {branch'}))
          IN  /\ branch # 0 => branch \in c.past
              /\ t["code"] \notin {NoFile, c.tree["code"]} =>
                    t["ownership"] # NoFile /\ t["code"] = t["ownership"].code]_vars

\* The base branch never goes back to a version before the released one: not
\* when a pull request generated before the release is merged after it.
ReleasedVersionKept ==
    [][TreeOf(base)["meta"] \notin {NoFile, Version0} =>
          commits'[base'].tree["meta"] # Version0]_vars

\* A run that completed undisturbed leaves what it generated, or installed, in the
\* open pull request, or finds it merged: a leftover branch does not hide it.
ReviewOffered ==
    settled # 0 =>
       TreeOf(IF pr = Closed THEN base ELSE branch)["code"] = Source[settled]

\* Docs: "Normal pushes reject races instead of forcing branch history".  While
\* nobody else touches the repository during a run, its push is accepted.
PushRejectsOnlyRaces ==
    \A j \in Job : (run[j].at = "push" /\ run[j].quiet) => Pushable(run[j])

\* Docs: "cross-repository sync also retains the destination's released
\* version".  A destination that differs from its inventory only by a release's
\* version is regenerated, not refused.
ReleasedVersionAdopted ==
    \A j \in Job : run[j].at = "transfer" =>
       LET t == TreeOf(run[j].head) IN
       (/\ t["ownership"] # NoFile /\ t["meta"] # NoFile
        /\ t["code"] = t["ownership"].code
        /\ Released(t, Past(run[j].head)))
       => Transferable(run[j])
=============================================================================
