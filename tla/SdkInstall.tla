----------------------------- MODULE SdkInstall -----------------------------
(***************************************************************************)
(* poolster sdk install (crates/cli/src/sdk_install.rs): a staged setup,   *)
(* the workflows and helpers of an SDK repository, goes to a review branch *)
(* of that repository and is offered in a pull request.  Runs, people and  *)
(* files are as in SdkPr: the setup is "code", the manifest of released    *)
(* versions is "meta", and the inventory has what earlier runs installed.  *)
(* A run works on a full clone between its requests.                       *)
(***************************************************************************)
EXTENDS SdkPr

-----------------------------------------------------------------------------
(* The destination's files.                                                 *)

\* A manifest that is there keeps its versions.
Manifest(t) == IF t["meta"] = NoFile THEN Version0 ELSE t["meta"]

\* Faulty variant: whatever has an entry in the inventory is overwritten.
InstallableIfListed(r) ==
    LET t == TreeOf(r.head) IN
    \/ t["code"] \in {NoFile, Source[r.n]}
    \/ t["ownership"] # NoFile

\* updates: a file that is there is the staged one, or the one installed last.
Installable(r) ==
    LET t == TreeOf(r.head) IN
    \/ t["code"] \in {NoFile, Source[r.n]}
    \/ t["ownership"] # NoFile /\ t["ownership"].code = t["code"]

\* A manifest is listed once a run has written it, as it was then.
Listed(t) ==
    CASE t["meta"] = NoFile -> Version0
      [] t["meta"] # NoFile /\ t["ownership"] # NoFile -> t["ownership"].meta
      [] OTHER -> NoFile

Installed(r) ==
    LET t == TreeOf(r.head)
    IN  [t EXCEPT !["code"] = Source[r.n], !["meta"] = Manifest(t),
                  !["ownership"] = [code |-> Source[r.n], meta |-> Listed(t)]]

-----------------------------------------------------------------------------
(* A run.                                                                   *)

CloneAll(j) ==
    /\ run[j] = Idle
    /\ \E n \in DOMAIN Source :
          Goes(j, [Idle EXCEPT !.at = "look", !.n = n, !.base = base, !.quiet = TRUE])
    /\ UNCHANGED <<forge, crashes, settled>>

\* git ls-remote.  The setup branch of an earlier run is built upon.
LookForBranch(j) ==
    /\ run[j].at = "look"
    /\ Goes(j, IF branch = 0 THEN [run[j] EXCEPT !.at = "update", !.head = run[j].base]
               ELSE [run[j] EXCEPT !.at = "fetch", !.existing = TRUE])
    /\ UNCHANGED <<forge, crashes, settled>>

Fetch(j) ==
    /\ run[j].at = "fetch"
    /\ Goes(j, IF branch = 0 THEN Idle
               ELSE [run[j] EXCEPT !.at = "update", !.head = branch])
    /\ UNCHANGED <<forge, crashes, settled>>

\* A refusal comes before anything is written.
Install(j) ==
    /\ run[j].at = "update"
    /\ Goes(j, IF ~Installable(run[j]) THEN Idle
               ELSE [run[j] EXCEPT !.at = IF Installed(run[j]) = TreeOf(run[j].head)
                                          THEN "count" ELSE "push"])
    /\ UNCHANGED <<forge, crashes, settled>>

PushSetup(j) ==
    /\ run[j].at = "push"
    /\ Pushable(run[j])
    /\ Commit(Installed(run[j]), {run[j].head}, j)
    /\ branch' = Fresh
    /\ Disturbing(j, [run[j] EXCEPT !.at = "count", !.head = Fresh])
    /\ settled' = 0
    /\ UNCHANGED <<base, pr, crashes>>

\* git rev-list: is anything of the branch missing from the base that was cloned?
NothingToOffer(r) == r.head \in Past(r.base)

\* "SDK automation is already installed".
AlreadyInstalled(j) ==
    /\ run[j].at = "count"
    /\ NothingToOffer(run[j])
    /\ Goes(j, Idle)
    /\ IF run[j].existing THEN UNCHANGED settled ELSE Complete(j)
    /\ UNCHANGED <<forge, crashes>>

\* gh pr list: an open pull request will do as it is.
FindPull(j) ==
    /\ run[j].at = "count"
    /\ ~NothingToOffer(run[j])
    /\ IF FoundPull
       THEN Goes(j, Idle) /\ Complete(j)
       ELSE Goes(j, [run[j] EXCEPT !.at = "open"]) /\ UNCHANGED settled
    /\ UNCHANGED <<forge, crashes>>

OpenSetupPull(j) ==
    /\ run[j].at = "open"
    /\ IF CanOpen
       THEN pr' = "open" /\ Disturbing(j, Idle) /\ Complete(j)
       ELSE Goes(j, Idle) /\ UNCHANGED <<pr, settled>>
    /\ UNCHANGED <<commits, base, branch, crashes>>

-----------------------------------------------------------------------------
InstallStep(j) ==
    \/ CloneAll(j) \/ LookForBranch(j) \/ Fetch(j) \/ Install(j) \/ PushSetup(j)
    \/ Rejected(j) \/ AlreadyInstalled(j) \/ FindPull(j) \/ OpenSetupPull(j) \/ Crash(j)

InstallNext == (\E j \in Job : InstallStep(j)) \/ PeopleStep
InstallSpec == Init /\ [][InstallNext]_vars

-----------------------------------------------------------------------------
\* Docs: "Tracked installed files preserve edits and report refresh conflicts".
\* A run that nobody disturbs says that the setup is installed only if the base
\* branch has it.
InstalledIsThere ==
    \A j \in Job : run[j].at = "count" /\ run[j].quiet /\ NothingToOffer(run[j]) =>
        TreeOf(base)["code"] = Source[run[j].n]
=============================================================================
