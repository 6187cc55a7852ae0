------------------------------ MODULE SpecSync ------------------------------
(***************************************************************************)
(* syncSpec (packages/internal/spec-sync/sync.mjs): a source repository    *)
(* copies its specification, with a provenance file, to a review branch of *)
(* another repository and offers it in a pull request.  Every request may  *)
(* time out before it is handled, after, or be handled later still; a      *)
(* workflow's concurrency group runs one job of a source at a time.        *)
(* Blobs, trees and commits are made by the request that moves the branch: *)
(* nothing refers to them before.  The reads at the parent commit are one  *)
(* step, the commit cannot change.                                         *)
(***************************************************************************)
EXTENDS Forge

CONSTANTS
    Conn,       \* source repositories (and paths) connected to the target
    Spec0,      \* specifications
    SpecAt,     \* connection |-> the specification at each of its commits
    Target,     \* trees the target may have before the first sync
    MaxTimeouts \* bound on requests given up

Provenance == [conn : Conn, sha : Nat, spec : Spec0]

ASSUME SyncAssumption ==
    /\ SpecAt \in [Conn -> Seq(Spec0)]
    /\ NoFile \notin Spec0 \cup Provenance /\ Author \notin Conn
    /\ Closed \notin Nat
    /\ MaxCommits \in Nat /\ MaxAuthored \in Nat /\ MaxTimeouts \in Nat

\* People may remove a provenance file but write none.
ASSUME ProvenanceAssumption ==
    /\ \A t \in Target :
          /\ {"spec", "provenance"} \subseteq DOMAIN t
          /\ t["spec"] \in Spec0 \cup {NoFile} /\ t["provenance"] = NoFile
    /\ \A change \in Change :
          "provenance" \in DOMAIN change => change["provenance"] = NoFile

VARIABLES
    sync,     \* connection |-> its run, or NoSync
    late,     \* moves of the branch whose run gave up, still to be handled
    timeouts, \* requests given up so far (bound)
    synced   \* history: <<c, n>> when c's run of commit n completed, all else
              \* untouched since it began

syncVars == <<forge, sync, late, timeouts, synced>>

NoMove == [parent |-> 0, tree |-> NoFile, create |-> FALSE, by |-> NoFile]

\* at: what it does next; sha: the source commit it syncs; base and head: what
\* it has read of the branches; about: the source commit its pull request will
\* name; move: the move of the branch it has requested; quiet (history, no
\* step reads it): nobody else has changed the repository since it began.
NoSync == [at |-> "idle", sha |-> 0, base |-> 0, head |-> 0, about |-> 0,
         move |-> NoMove, quiet |-> FALSE]

-----------------------------------------------------------------------------
(* What the run makes of the parent commit it has read.                     *)

Recorded(t) == t["provenance"]

\* Faulty variant: whose provenance it is does not matter.
MineWhoever(c, t) == t # NoFile

Mine(c, t) == Recorded(t) # NoFile => Recorded(t).conn = c

\* The specification is what the provenance says; without provenance a review
\* branch must not have one, the base branch may.
Unedited(t, onBranch) ==
    IF Recorded(t) # NoFile THEN t["spec"] = Recorded(t).spec
    ELSE onBranch => t["spec"] = NoFile

\* Faulty variant: the recorded commit is kept whatever the bytes are.
EffectiveOld(c, n, t) == IF Recorded(t) # NoFile THEN Recorded(t).sha ELSE n

\* Bytes that are there already keep the provenance of the run that put them.
Effective(c, n, t) ==
    IF Recorded(t) # NoFile /\ t["spec"] = SpecAt[c][n] THEN Recorded(t).sha ELSE n

Updated(c, n, t) ==
    [t EXCEPT !["spec"] = SpecAt[c][n],
              !["provenance"] = [conn |-> c, sha |-> Effective(c, n, t), spec |-> SpecAt[c][n]]]

-----------------------------------------------------------------------------
(* A run.                                                                   *)

Proceeds(c, r) == [sync EXCEPT ![c] = r]

\* c's run goes on as r and has changed the repository under the others.
Interferes(c, r) ==
    [d \in Conn |-> IF d = c THEN r ELSE [sync[d] EXCEPT !.quiet = FALSE]]
Interfered == [d \in Conn |-> [sync[d] EXCEPT !.quiet = FALSE]]

GetBase(c) ==
    /\ sync[c] = NoSync
    /\ \E n \in DOMAIN SpecAt[c] :
          sync' = Proceeds(c, [NoSync EXCEPT !.at = "branch", !.sha = n, !.base = base,
                                      !.quiet = TRUE])
    /\ UNCHANGED <<forge, late, timeouts, synced>>

\* Reads the branch and the files at the parent, and decides.
GetBranch(c) ==
    LET parent == IF branch = 0 THEN sync[c].base ELSE branch
        t == TreeOf(parent)
        n == sync[c].sha
        read == [sync[c] EXCEPT !.head = branch, !.about = Effective(c, n, t)]
        move == [parent |-> parent, tree |-> Updated(c, n, t), create |-> branch = 0, by |-> c]
    IN  /\ sync[c].at = "branch"
        /\ sync' = Proceeds(c,
              IF ~Mine(c, t) \/ ~Unedited(t, branch # 0) THEN NoSync
              ELSE IF t = Updated(c, n, t) THEN [read EXCEPT !.at = "pulls"]
              ELSE [read EXCEPT !.at = "move", !.move = move])
        /\ UNCHANGED <<forge, late, timeouts, synced>>

\* Faulty variant: force: true.
MovableByForce(q) == q.create => branch = 0

\* POST git/refs needs a new branch; PATCH with force: false a descendant of
\* an existing one.
Movable(q) == IF q.create THEN branch = 0 ELSE branch # 0 /\ FastForward(q.parent)

Move(q) ==
    /\ Movable(q)
    /\ Commit(q.tree, {q.parent}, q.by)
    /\ branch' = Fresh
    /\ UNCHANGED <<base, pr>>

\* The branch moves and the run learns of it.
Moved(c) ==
    /\ sync[c].at = "move"
    /\ Move(sync[c].move)
    /\ sync' = Interferes(c, [sync[c] EXCEPT !.at = "pulls", !.move = NoMove, !.head = Fresh])
    /\ synced' = <<>>
    /\ UNCHANGED <<late, timeouts>>

MoveRefused(c) ==
    /\ sync[c].at = "move"
    /\ ~Movable(sync[c].move)
    /\ sync' = Proceeds(c, NoSync)
    /\ UNCHANGED <<forge, late, timeouts, synced>>

\* Any request may go unanswered, and the run ends; a move may still come.
GiveUp(c) ==
    /\ sync[c] # NoSync
    /\ timeouts < MaxTimeouts
    /\ timeouts' = timeouts + 1
    /\ sync' = Proceeds(c, NoSync)
    /\ late' \in {late, late \cup ({sync[c].move} \ {NoMove})}
    /\ UNCHANGED <<forge, synced>>

Arrive(q) ==
    /\ late' = late \ {q}
    /\ IF Movable(q)
       THEN Move(q) /\ sync' = Interfered /\ synced' = <<>>
       ELSE UNCHANGED <<forge, sync, synced>>
    /\ UNCHANGED timeouts

Completes(c) ==
    /\ synced' = IF sync[c].quiet THEN <<c, sync[c].sha>> ELSE <<>>
    /\ UNCHANGED <<commits, base, branch, late, timeouts>>

\* An open pull request gets the run's text.
UpdatePull(c) ==
    /\ sync[c].at = "pulls"
    /\ pr # Closed
    /\ pr' = sync[c].about
    /\ sync' = Interferes(c, NoSync)
    /\ Completes(c)

\* Without one there may be no branch either,
FindNoPull(c) ==
    /\ sync[c].at = "pulls"
    /\ pr = Closed
    /\ IF sync[c].head = 0
       THEN Completes(c) /\ sync' = Proceeds(c, NoSync) /\ UNCHANGED pr
       ELSE sync' = Proceeds(c, [sync[c] EXCEPT !.at = "compare"])
            /\ UNCHANGED <<forge, late, timeouts, synced>>

\* Faulty variant: a run only opens a pull request for its own commit.
NeedsPullForOwn(c) == Ahead /\ TreeOf(branch)["provenance"] # NoFile
                      /\ Recorded(TreeOf(branch)).sha = sync[c].sha

NeedsPull(c) == Ahead

\* or it has nothing to merge; the comparison fails if it is gone by now.
Compare(c) ==
    /\ sync[c].at = "compare"
    /\ IF branch # 0 /\ ~NeedsPull(c)
       THEN Completes(c) /\ sync' = Proceeds(c, NoSync) /\ UNCHANGED pr
       ELSE sync' = Proceeds(c, IF branch = 0 THEN NoSync ELSE [sync[c] EXCEPT !.at = "open"])
            /\ UNCHANGED <<forge, late, timeouts, synced>>

OpenPull(c) ==
    /\ sync[c].at = "open"
    /\ IF CanOpen
       THEN pr' = sync[c].about /\ sync' = Interferes(c, NoSync) /\ Completes(c)
       ELSE sync' = Proceeds(c, NoSync)
            /\ UNCHANGED <<forge, late, timeouts, synced>>

-----------------------------------------------------------------------------
SyncInit ==
    /\ \E t \in Target : ForgeInit(t)
    /\ sync = [c \in Conn |-> NoSync]
    /\ late = {} /\ timeouts = 0 /\ synced = <<>>

SyncStep(c) ==
    \/ GetBase(c) \/ GetBranch(c) \/ Moved(c) \/ MoveRefused(c) \/ GiveUp(c)
    \/ UpdatePull(c) \/ FindNoPull(c) \/ Compare(c) \/ OpenPull(c)

SyncNext ==
    \/ \E c \in Conn : SyncStep(c)
    \/ \E q \in late : Arrive(q)
    \/ People /\ sync' = Interfered /\ synced' = <<>> /\ UNCHANGED <<late, timeouts>>

SyncSpec == SyncInit /\ [][SyncNext]_syncVars

-----------------------------------------------------------------------------
(* Properties.                                                              *)

MovedBySync == branch' \notin {branch, 0} /\ commits'[branch'].by \in Conn

\* No move of the review branch, answered or late, drops a commit of it or
\* replaces a specification that somebody edited there, whatever was pushed
\* after the run read the branch.
SpecEditsSurvive ==
    [][MovedBySync /\ branch # 0 =>
          /\ branch \in commits'[branch'].past
          /\ Unedited(TreeOf(branch), TRUE)]_syncVars

\* A target belongs to the first source connected to it: neither branch passes
\* from one connection's provenance to another's, unless people removed it.
ConnectionKept ==
    [][\A h \in {<<base, base'>>, <<branch, branch'>>} :
          (h[1] # h[2] /\ 0 \notin {h[1], h[2]}) =>
             LET r == Recorded(commits[h[1]].tree)
                 n == Recorded(commits'[h[2]].tree)
             IN  (r # NoFile /\ n # NoFile) => r.conn = n.conn]_syncVars

\* A provenance file names a source commit that has the recorded bytes.
ProvenanceTrue ==
    \A c \in DOMAIN commits :
       LET r == Recorded(TreeOf(c)) IN r # NoFile => SpecAt[r.conn][r.sha] = r.spec

\* A run that nobody interfered with and that did not give up leaves its
\* specification under review, or merged: whatever an earlier run left undone
\* (a branch without a pull request) is made good, and the pull request names
\* the commit that the provenance names.
SpecOffered ==
    synced # <<>> =>
       LET c == synced[1]
           n == synced[2]
           t == TreeOf(Tip)
       IN  /\ t["spec"] = SpecAt[c][n]
           /\ Recorded(t) # NoFile /\ Recorded(t).conn = c
           /\ Ahead => pr = Recorded(t).sha
=============================================================================
