------------------------------- MODULE Forge -------------------------------
(***************************************************************************)
(* The repository on GitHub that the automations write to: commits, the    *)
(* base branch, one review branch and its pull request, and the people who *)
(* commit, merge, close and delete there.  External: modelled from how     *)
(* packages/internal/spec-sync and crates/cli/src/sdk_automation.rs and    *)
(* sdk_install.rs use it.  A commit's tree is a function from files to     *)
(* contents.                                                               *)
(***************************************************************************)
EXTENDS Naturals, Sequences, FiniteSetsExt

CONSTANTS
    Author,    \* who commits what no automation does
    Closed,    \* no open pull request
    NoFile,
    Change,  \* what a person's commit may write: files |-> contents
    MaxCommits, \* bound on the commits ever made
    MaxAuthored \* bound on those made by people

VARIABLES
    commits, \* every commit; past holds its ancestors and itself
    base,    \* head of the base branch
    branch,  \* head of the review branch, 0 when there is none
    pr       \* what the open pull request says, or Closed
forge == <<commits, base, branch, pr>>

TreeOf(c) == commits[c].tree
Past(c) == commits[c].past
Tip == IF branch = 0 THEN base ELSE branch

Fresh == Len(commits) + 1
Commit(tree, parents, by) ==
    /\ Len(commits) < MaxCommits
    /\ commits' = Append(commits,
           [tree |-> tree, by |-> by,
            past |-> {Fresh} \cup UNION {Past(p) : p \in parents}])

Authored(tree, parents) ==
    /\ Cardinality({c \in DOMAIN commits : commits[c].by = Author}) < MaxAuthored
    /\ Commit(tree, parents, Author)

\* What a push without force, or an update with force: false, accepts.
FastForward(parent) == branch = 0 \/ branch \in Past(parent)

Ahead == branch # 0 /\ branch \notin Past(base)

\* A pull request needs a branch with something to merge, and is the only one.
CanOpen == pr = Closed /\ Ahead

-----------------------------------------------------------------------------
(* People.                                                                  *)

Edited(t, change) == [f \in DOMAIN t |-> IF f \in DOMAIN change THEN change[f] ELSE t[f]]

EditOf(head) ==
    \E change \in Change :
       /\ Edited(TreeOf(head), change) # TreeOf(head)
       /\ Authored(Edited(TreeOf(head), change), {head})

PushBranch ==
    /\ branch # 0
    /\ EditOf(branch)
    /\ branch' = Fresh
    /\ UNCHANGED <<base, pr>>

PushBase ==
    /\ EditOf(base)
    /\ base' = Fresh
    /\ UNCHANGED <<branch, pr>>

MergeBase == Max(Past(base) \cap Past(branch))

\* One file merged three ways; a set, empty on a conflict.
Merged(o, b, h) == IF b = o THEN {h} ELSE IF h \in {o, b} THEN {b} ELSE {}

\* A merge commit has both heads in its past, a squash only the base.
Merge ==
    /\ pr # Closed
    /\ LET o == TreeOf(MergeBase)  b == TreeOf(base)  h == TreeOf(branch)
       IN  /\ \A f \in DOMAIN b : Merged(o[f], b[f], h[f]) # {}
           /\ \E heads \in {{base}, {base, branch}} :
                 Authored([f \in DOMAIN b |-> CHOOSE x \in Merged(o[f], b[f], h[f]) : TRUE], heads)
    /\ base' = Fresh
    /\ pr' = Closed
    /\ UNCHANGED branch

Close ==
    /\ pr # Closed
    /\ pr' = Closed
    /\ UNCHANGED <<commits, base, branch>>

\* Deleting the branch closes its pull request.
DeleteBranch ==
    /\ branch # 0
    /\ branch' = 0
    /\ pr' = Closed
    /\ UNCHANGED <<commits, base>>

People == PushBranch \/ PushBase \/ Merge \/ Close \/ DeleteBranch

ForgeInit(tree) ==
    /\ commits = <<[tree |-> tree, by |-> Author, past |-> {1}]>>
    /\ base = 1 /\ branch = 0 /\ pr = Closed

=============================================================================
