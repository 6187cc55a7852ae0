-------------------------- MODULE AutomationProofs --------------------------
(***************************************************************************)
(* The automations that write to a review branch, for every history of     *)
(* commits, any number of runs and connections, and people who push,       *)
(* merge, close and delete in between: what SpecSync, SdkPr and SdkInstall *)
(* keep of other people's work, and what an undisturbed run offers.        *)
(***************************************************************************)
EXTENDS SdkInstall, SpecSync, NumberLemmas

-----------------------------------------------------------------------------
(* The repository.                                                          *)

\* A commit's past is older than the commit and goes back to the first one.
History ==
    /\ commits \in Seq({commits[c] : c \in DOMAIN commits}) /\ commits # <<>>
    /\ \A c \in DOMAIN commits :
          /\ c \in Past(c) /\ 1 \in Past(c) /\ Past(c) \subseteq 1..c
          /\ DOMAIN TreeOf(c) = DOMAIN TreeOf(1)
    /\ base \in DOMAIN commits /\ branch \in DOMAIN commits \cup {0}
    /\ pr # Closed => branch # 0

\* Commits are never lost, and a branch that moves moves to a new one.
Later ==
    /\ History'
    /\ DOMAIN commits \subseteq DOMAIN commits'
    /\ \A c \in DOMAIN commits : commits'[c] = commits[c]
    /\ branch' \in {branch, 0, Fresh}

LEMMA Numbers ==
    ASSUME History
    PROVE  /\ DOMAIN commits = 1..Len(commits) /\ Len(commits) \in Nat
           /\ 1 \in DOMAIN commits /\ Fresh \notin DOMAIN commits
           /\ Fresh \in Nat /\ Fresh # 0
           /\ \A c \in DOMAIN commits : c \in Nat /\ c < Fresh /\ c # 0
BY DEF History, Fresh

LEMMA ForgeStays ==
    ASSUME History, UNCHANGED commits, base' = base, branch' \in {branch, 0},
           pr' # Closed => branch' # 0
    PROVE  Later
BY DEF Later, History, Past, TreeOf

\* One commit more, and a head or two that may be it.
LEMMA CommitGrows ==
    ASSUME History, NEW tree, NEW parents \in SUBSET DOMAIN commits, parents # {}, NEW by,
           DOMAIN tree = DOMAIN TreeOf(1), Commit(tree, parents, by),
           base' \in {base, Fresh}, branch' \in {branch, Fresh},
           pr' # Closed => branch' # 0
    PROVE  /\ Later
           /\ DOMAIN commits' = DOMAIN commits \cup {Fresh}
           /\ commits'[Fresh] =
                 [tree |-> tree, by |-> by,
                  past |-> {Fresh} \cup UNION {Past(p) : p \in parents}]
<1> DEFINE new == [tree |-> tree, by |-> by,
                   past |-> {Fresh} \cup UNION {Past(p) : p \in parents}]
           Old == {commits[c] : c \in DOMAIN commits}
<1>1. commits' = Append(commits, new)
  BY DEF Commit
<1>2. commits \in Seq(Old \cup {new}) /\ new \in Old \cup {new}
  <2>1. commits \in Seq(Old)
    BY DEF History
  <2> HIDE DEF Old, new
  <2> QED
    BY <2>1
<1>3. /\ commits' \in Seq(Old \cup {new})
      /\ Len(commits') = Len(commits) + 1
      /\ \A c \in 1..Len(commits) : commits'[c] = commits[c]
      /\ commits'[Len(commits) + 1] = new
  <2> HIDE DEF Old, new
  <2> QED
    BY <1>1, <1>2
<1>4. DOMAIN commits' = 1..(Len(commits) + 1)
  <2> HIDE DEF Old, new
  <2> QED
    BY <1>3
<1>5. DOMAIN commits' = DOMAIN commits \cup {Fresh}
  BY <1>4, Numbers DEF Fresh
<1>6. /\ \A c \in DOMAIN commits : commits'[c] = commits[c]
      /\ commits'[Fresh] = new
  BY <1>3, Numbers DEF Fresh
<1>7. commits' \in Seq({commits'[c] : c \in DOMAIN commits'})
  <2>1. Old \cup {new} = {commits'[c] : c \in DOMAIN commits'}
    <3> HIDE DEF new
    <3> QED
      BY <1>5, <1>6
  <2> HIDE DEF Old, new
  <2> QED
    BY <1>3, <2>1
<1>8. ASSUME NEW c \in DOMAIN commits'
      PROVE  /\ c \in Past(c)' /\ 1 \in Past(c)' /\ Past(c)' \subseteq 1..c
             /\ DOMAIN TreeOf(c)' = DOMAIN TreeOf(1)'
  <2>1. TreeOf(1)' = TreeOf(1)
    BY <1>6, Numbers DEF TreeOf
  <2>2. CASE c \in DOMAIN commits
    BY <1>6, <2>1, <2>2 DEF History, Past, TreeOf
  <2>3. CASE c = Fresh
    <3>1. Past(c)' = {Fresh} \cup UNION {Past(p) : p \in parents} /\ TreeOf(c)' = tree
      BY <1>6, <2>3 DEF Past, TreeOf
    <3>2. \A p \in parents : 1 \in Past(p) /\ Past(p) \subseteq 1..p /\ p \in Nat /\ p < Fresh
      BY Numbers DEF History
    <3>3. \A p \in parents : \A d \in Past(p) : d \in 1..Fresh
      BY <3>2, Numbers
    <3>4. Fresh \in 1..Fresh
      BY Numbers
    <3> QED
      BY <2>1, <2>3, <3>1, <3>2, <3>3, <3>4
  <2> QED
    BY <1>5, <2>2, <2>3
<1>9. commits' # <<>> /\ base' \in DOMAIN commits' /\ branch' \in DOMAIN commits' \cup {0}
  <2>1. Len(commits') # 0
    BY <1>3, Numbers
  <2> QED
    BY <1>5, <2>1 DEF History
<1>10. History'
  <2> HIDE DEF new, Old
  <2> QED
    BY <1>7, <1>8, <1>9 DEF History
<1> QED
  BY <1>5, <1>6, <1>10 DEF Later

LEMMA FirstCommit ==
    ASSUME NEW t, ForgeInit(t)
    PROVE  /\ History /\ TreeOf(1) = t /\ DOMAIN commits = {1}
           /\ base = 1 /\ branch = 0 /\ pr = Closed
<1> DEFINE first == [tree |-> t, by |-> Author, past |-> {1}]
<1>1. /\ commits = <<first>> /\ DOMAIN commits = {1} /\ commits[1] = first
      /\ base = 1 /\ branch = 0 /\ pr = Closed
  BY DEF ForgeInit
<1>2. commits \in Seq({commits[c] : c \in DOMAIN commits}) /\ commits # <<>>
  <2> HIDE DEF first
  <2>1. {commits[c] : c \in DOMAIN commits} = {first}
    BY <1>1
  <2>2. <<first>> \in Seq({first}) /\ <<first>> # <<>>
    OBVIOUS
  <2> QED
    BY <1>1, <2>1, <2>2
<1>3. History
  <2> HIDE DEF first
  <2>1. 1 \in 1..1
    OBVIOUS
  <2>2. Past(1) = {1}
    BY <1>1 DEF Past, first
  <2> QED
    BY <1>1, <1>2, <2>1, <2>2 DEF History
<1> QED
  BY <1>1, <1>3 DEF TreeOf

\* What a person commits: an edit of a head, or a merge of the branch into the base.
LEMMA PeopleCommit ==
    ASSUME History, People
    PROVE  /\ Later
           /\ \/ commits' = commits /\ base' = base /\ branch' \in {branch, 0}
              \/ /\ DOMAIN commits' = DOMAIN commits \cup {Fresh}
                 /\ commits'[Fresh].by = Author
                 /\ \/ \E head \in {base, branch} \ {0}, change \in Change :
                          /\ commits'[Fresh].tree = Edited(TreeOf(head), change)
                          /\ commits'[Fresh].past = {Fresh} \cup Past(head)
                          /\ \/ base' = Fresh /\ head = base /\ branch' = branch
                             \/ branch' = Fresh /\ head = branch /\ base' = base
                    \/ /\ branch # 0 /\ base' = Fresh /\ branch' = branch
                       /\ commits'[Fresh].past \in {{Fresh} \cup Past(base),
                                                    {Fresh} \cup Past(base) \cup Past(branch)}
                       /\ \A f \in DOMAIN TreeOf(base) :
                             commits'[Fresh].tree[f] \in
                                Merged(TreeOf(MergeBase)[f], TreeOf(base)[f], TreeOf(branch)[f])
<1>1. CASE Close \/ DeleteBranch
  BY <1>1, ForgeStays DEF Close, DeleteBranch, History
<1>2. ASSUME NEW head \in {base, branch} \ {0}, EditOf(head),
             base' \in {base, Fresh}, branch' \in {branch, Fresh}, UNCHANGED pr
      PROVE  /\ Later
             /\ DOMAIN commits' = DOMAIN commits \cup {Fresh}
             /\ commits'[Fresh].by = Author
             /\ \E change \in Change :
                   /\ commits'[Fresh].tree = Edited(TreeOf(head), change)
                   /\ commits'[Fresh].past = {Fresh} \cup Past(head)
  <2>1. PICK change \in Change : Authored(Edited(TreeOf(head), change), {head})
    BY <1>2 DEF EditOf
  <2>2. head \in DOMAIN commits
    BY <1>2 DEF History
  <2>3. DOMAIN Edited(TreeOf(head), change) = DOMAIN TreeOf(1)
    BY <2>2 DEF Edited, History
  <2>4. pr' # Closed => branch' # 0
    BY <1>2, Numbers DEF History
  <2>5. UNION {Past(p) : p \in {head}} = Past(head)
    OBVIOUS
  <2>6. /\ Later
        /\ DOMAIN commits' = DOMAIN commits \cup {Fresh}
        /\ commits'[Fresh] = [tree |-> Edited(TreeOf(head), change), by |-> Author,
                              past |-> {Fresh} \cup UNION {Past(p) : p \in {head}}]
    BY <1>2, <2>1, <2>2, <2>3, <2>4, CommitGrows DEF Authored
  <2> QED
    BY <2>5, <2>6
<1>3. CASE PushBranch
  <2>1. base # Fresh /\ branch \in {base, branch} \ {0}
    BY <1>3, Numbers DEF PushBranch, History
  <2> QED
    BY <1>2, <1>3, <2>1 DEF PushBranch
<1>4. CASE PushBase
  <2>1. base \in {base, branch} \ {0}
    BY Numbers DEF History
  <2> QED
    BY <1>2, <1>4, <2>1 DEF PushBase
<1>5. CASE Merge
  <2> DEFINE o == TreeOf(MergeBase)  b == TreeOf(base)  h == TreeOf(branch)
             tree == [f \in DOMAIN b |-> CHOOSE x \in Merged(o[f], b[f], h[f]) : TRUE]
  <2>1. PICK heads \in {{base}, {base, branch}} : Authored(tree, heads)
    BY <1>5 DEF Merge
  <2>2. \A f \in DOMAIN b : tree[f] \in Merged(o[f], b[f], h[f])
    BY <1>5 DEF Merge
  <2>3. base' = Fresh /\ pr' = Closed /\ branch' = branch /\ branch # 0
    BY <1>5 DEF Merge, History
  <2>4. heads \in SUBSET DOMAIN commits /\ heads # {}
    BY <2>1, <2>3 DEF History
  <2>5. DOMAIN tree = DOMAIN TreeOf(1)
    BY DEF History
  <2>6. UNION {Past(p) : p \in heads} \in {Past(base), Past(base) \cup Past(branch)}
    BY <2>1
  <2>7. /\ Later
        /\ DOMAIN commits' = DOMAIN commits \cup {Fresh}
        /\ commits'[Fresh] = [tree |-> tree, by |-> Author,
                              past |-> {Fresh} \cup UNION {Past(p) : p \in heads}]
    <3> HIDE DEF tree
    <3> QED
      BY <2>1, <2>3, <2>4, <2>5, CommitGrows DEF Authored
  <2> HIDE DEF tree
  <2> QED
    BY <2>2, <2>3, <2>6, <2>7
<1> QED
  BY <1>1, <1>3, <1>4, <1>5 DEF People

-----------------------------------------------------------------------------
(* Specification sync.                                                      *)

\* A provenance file that names a commit with the recorded bytes.
TrueRecord(t) ==
    LET r == Recorded(t)
    IN  r # NoFile => r \in Provenance /\ SpecAt[r.conn][r.sha] = r.spec

\* A requested move writes a true record, and where it does not create the
\* branch it was made from a head of it that nobody had edited.
SoundMove(q) ==
    /\ q.parent \in DOMAIN commits
    /\ DOMAIN q.tree = DOMAIN TreeOf(1)
    /\ TrueRecord(q.tree)
    /\ ~q.create => Unedited(TreeOf(q.parent), TRUE) /\ (branch = 0 \/ q.parent <= branch)

\* A tree with c's specification of commit n, under the provenance of commit a.
Carries(t, c, n, a) ==
    /\ t["spec"] = SpecAt[c][n]
    /\ Recorded(t) # NoFile /\ Recorded(t).conn = c /\ Recorded(t).sha = a

\* What a run that nobody disturbs knows of the repository.
UpToDate(c) ==
    LET r == sync[c] IN
    /\ r.at = "branch" => r.base = base
    /\ r.at = "move" => Carries(r.move.tree, c, r.sha, r.about)
    /\ r.at \in {"pulls", "compare", "open"} =>
          r.head = branch /\ Carries(TreeOf(Tip), c, r.sha, r.about)

RunFine(c) ==
    LET r == sync[c] IN
    /\ r = [at |-> r.at, sha |-> r.sha, base |-> r.base, head |-> r.head,
            about |-> r.about, move |-> r.move, quiet |-> r.quiet]
    /\ r.at \in {"idle", "branch", "move", "pulls", "compare", "open"}
    /\ r.at # "idle" => r.sha \in DOMAIN SpecAt[c]
    /\ r.at = "branch" => r.base \in DOMAIN commits
    /\ IF r.at = "move" THEN SoundMove(r.move) ELSE r.move = NoMove
    /\ r.quiet => r.at # "idle" /\ UpToDate(c)

RecordsTrue == \A c \in DOMAIN commits : TrueRecord(TreeOf(c))

SyncInv ==
    /\ History
    /\ {"spec", "provenance"} \subseteq DOMAIN TreeOf(1)
    /\ RecordsTrue
    /\ sync = [c \in Conn |-> sync[c]]
    /\ \A c \in Conn : RunFine(c)
    /\ \A q \in late : SoundMove(q)
    /\ SpecOffered

\* What a run would write names a commit that has the bytes it writes.
LEMMA UpdatedTrue ==
    ASSUME NEW c \in Conn, NEW n \in DOMAIN SpecAt[c], NEW t, NEW onBranch,
           {"spec", "provenance"} \subseteq DOMAIN t,
           TrueRecord(t), Mine(c, t), Unedited(t, onBranch)
    PROVE  LET w == Updated(c, n, t) IN
           /\ TrueRecord(w) /\ DOMAIN w = DOMAIN t
           /\ Carries(w, c, n, Effective(c, n, t))
<1> DEFINE a == Effective(c, n, t)
           r == [conn |-> c, sha |-> a, spec |-> SpecAt[c][n]]
           w == Updated(c, n, t)
<1>1. SpecAt[c] \in Seq(Spec0) /\ n \in Nat /\ SpecAt[c][n] \in Spec0
  BY SyncAssumption
<1>2. a \in Nat /\ SpecAt[c][a] = SpecAt[c][n]
  BY <1>1 DEF Effective, TrueRecord, Mine, Unedited, Provenance
<1>3. r \in Provenance
  BY <1>1, <1>2 DEF Provenance
<1>4. w["spec"] = SpecAt[c][n] /\ w["provenance"] = r /\ DOMAIN w = DOMAIN t
  BY DEF Updated
<1> QED
  <2> HIDE DEF w, a
  <2> QED
    BY <1>2, <1>3, <1>4, SyncAssumption DEF TrueRecord, Recorded, Carries, w, a

LEMMA SyncInitFine == SyncInit => SyncInv
<1> SUFFICES ASSUME SyncInit PROVE SyncInv
  OBVIOUS
<1>1. PICK t \in Target : ForgeInit(t)
  BY DEF SyncInit
<1>2. History /\ TreeOf(1) = t /\ DOMAIN commits = {1}
  BY <1>1, FirstCommit
<1>3. RecordsTrue /\ {"spec", "provenance"} \subseteq DOMAIN TreeOf(1)
  BY <1>2, ProvenanceAssumption DEF RecordsTrue, TrueRecord, Recorded
<1>4. /\ sync = [c \in Conn |-> NoSync] /\ late = {} /\ synced = <<>>
  BY DEF SyncInit
<1>5. \A c \in Conn : RunFine(c)
  BY <1>4 DEF RunFine, NoSync
<1> QED
  BY <1>2, <1>3, <1>4, <1>5 DEF SyncInv, SpecOffered

-----------------------------------------------------------------------------
(* What a change of the repository leaves of a run.                         *)

LEMMA HeadsAgree ==
    ASSUME History, Later
    PROVE  /\ TreeOf(1)' = TreeOf(1)
           /\ \A c \in DOMAIN commits : TreeOf(c)' = TreeOf(c) /\ Past(c)' = Past(c)
           /\ branch' = 0 \/ branch' = branch \/ \A c \in DOMAIN commits : c <= branch'
BY Numbers DEF Later, TreeOf, Past

\* A requested move stays sound, whatever happens to the branch.
LEMMA MoveStaysSound ==
    ASSUME History, Later, NEW q, SoundMove(q)
    PROVE  /\ q.parent \in DOMAIN commits'
           /\ DOMAIN q.tree = DOMAIN TreeOf(1)'
           /\ TrueRecord(q.tree)
           /\ ~q.create => /\ Unedited(commits'[q.parent].tree, TRUE)
                           /\ branch' = 0 \/ q.parent <= branch'
BY HeadsAgree DEF SoundMove, Later, TreeOf

LEMMA LateStaysSound ==
    ASSUME SyncInv, Later, NEW q \in late
    PROVE  SoundMove(q)'
BY MoveStaysSound DEF SyncInv, SoundMove, TrueRecord, Recorded, Unedited, TreeOf

\* Another run goes on as it was, disturbed or in the same repository.
LEMMA OtherStaysFine ==
    ASSUME SyncInv, Later, NEW d \in Conn,
           \/ sync'[d] = [sync[d] EXCEPT !.quiet = FALSE]
           \/ UNCHANGED <<commits, base, branch>> /\ sync'[d] = sync[d]
    PROVE  RunFine(d)'
<1> DEFINE r == sync[d]  s == sync'[d]
<1>1. RunFine(d) /\ History
  BY DEF SyncInv
<1>2. /\ s.at = r.at /\ s.sha = r.sha /\ s.base = r.base /\ s.head = r.head
      /\ s.about = r.about /\ s.move = r.move
      /\ s = [at |-> s.at, sha |-> s.sha, base |-> s.base, head |-> s.head,
              about |-> s.about, move |-> s.move, quiet |-> s.quiet]
      /\ s.quiet => r.quiet /\ UNCHANGED <<commits, base, branch, sync[d]>>
  BY <1>1 DEF RunFine
<1>3. r.at = "move" => SoundMove(sync[d].move)'
  <2> HAVE r.at = "move"
  <2>1. SoundMove(r.move)
    BY <1>1 DEF RunFine
  <2>2. /\ r.move.parent \in DOMAIN commits'
        /\ DOMAIN r.move.tree = DOMAIN TreeOf(1)'
        /\ TrueRecord(r.move.tree)
        /\ ~r.move.create => /\ Unedited(commits'[r.move.parent].tree, TRUE)
                             /\ branch' = 0 \/ r.move.parent <= branch'
    <3> HIDE DEF r
    <3> QED
      BY <1>1, <2>1, MoveStaysSound
  <2>3. r.move = sync'[d].move
    BY <1>2
  <2> HIDE DEF r
  <2> QED
    BY <2>2, <2>3 DEF SoundMove, TrueRecord, Recorded, Unedited, TreeOf
<1>4. s.quiet => s.at # "idle" /\ UpToDate(d)'
  BY <1>1, <1>2 DEF RunFine, UpToDate, Carries, Recorded, Tip, TreeOf
<1>5. r.base \in DOMAIN commits => s.base \in DOMAIN commits'
  BY <1>2 DEF Later
<1>6. /\ r.at \in {"idle", "branch", "move", "pulls", "compare", "open"}
      /\ r.at # "idle" => r.sha \in DOMAIN SpecAt[d]
      /\ r.at = "branch" => r.base \in DOMAIN commits
      /\ r.at # "move" => r.move = NoMove
  BY <1>1 DEF RunFine
<1> QED
  BY <1>2, <1>3, <1>4, <1>5, <1>6 DEF RunFine

\* A step of one run, in a repository that moves on or does not.
LEMMA SyncGoesOn ==
    ASSUME SyncInv, Later, NEW c \in Conn, RunFine(c)',
           \/ sync' = Interferes(c, sync'[c])
           \/ UNCHANGED <<commits, base, branch>> /\ sync' = Proceeds(c, sync'[c]),
           \A q \in late' : q \in late \/ SoundMove(q)',
           RecordsTrue', SpecOffered'
    PROVE  SyncInv'
<1>1. sync' = [d \in Conn |-> sync'[d]]
  BY DEF SyncInv, Interferes, Proceeds
<1>2. ASSUME NEW d \in Conn PROVE RunFine(d)'
  <2>1. CASE d # c
    <3>1. \/ sync'[d] = [sync[d] EXCEPT !.quiet = FALSE]
          \/ UNCHANGED <<commits, base, branch>> /\ sync'[d] = sync[d]
      BY <2>1 DEF SyncInv, Interferes, Proceeds
    <3> QED
      BY <3>1, OtherStaysFine
  <2> QED
    BY <2>1
<1>3. \A q \in late' : SoundMove(q)'
  BY LateStaysSound
<1>4. History' /\ ({"spec", "provenance"} \subseteq DOMAIN TreeOf(1))'
  BY HeadsAgree DEF SyncInv, Later
<1> QED
  BY <1>1, <1>2, <1>3, <1>4 DEF SyncInv

\* A step that leaves commits and branches alone.
LEMMA SameCommits ==
    ASSUME SyncInv, UNCHANGED <<commits, base, branch>>, pr' # Closed => branch' # 0
    PROVE  /\ Later /\ RecordsTrue'
           /\ UNCHANGED <<pr, synced>> => SpecOffered'
BY ForgeStays DEF SyncInv, RecordsTrue, TreeOf, SpecOffered, Tip, Ahead, Past

\* A run that completes undisturbed has offered its specification.
LEMMA CompletesOffered ==
    ASSUME SyncInv, NEW c \in Conn, sync[c].at \in {"pulls", "compare", "open"}, Completes(c),
           sync[c].quiet /\ Ahead => pr' = sync[c].about
    PROVE  SpecOffered'
<1>1. UNCHANGED <<commits, base, branch>>
  BY DEF Completes
<1>2. CASE ~sync[c].quiet
  BY <1>2 DEF Completes, SpecOffered
<1>3. CASE sync[c].quiet
  <2>1. Carries(TreeOf(Tip), c, sync[c].sha, sync[c].about)
    BY <1>3 DEF SyncInv, RunFine, UpToDate
  <2>2. TreeOf(Tip)' = TreeOf(Tip) /\ Ahead' = Ahead
    BY <1>1 DEF Tip, TreeOf, Ahead, Past
  <2>3. synced' = <<c, sync[c].sha>>
    BY <1>3 DEF Completes
  <2>4. synced'[1] = c /\ synced'[2] = sync[c].sha
    BY <2>3
  <2> QED
    BY <1>3, <2>1, <2>2, <2>4 DEF Carries, SpecOffered
<1> QED
  BY <1>2, <1>3

\* A run that ends is idle.
LEMMA IdleFine ==
    ASSUME NEW c \in Conn, sync'[c] = NoSync
    PROVE  RunFine(c)'
BY DEF RunFine, NoSync

LEMMA GetBranchFine ==
    ASSUME SyncInv, NEW c \in Conn, GetBranch(c)
    PROVE  RunFine(c)' /\ sync' = Proceeds(c, sync'[c])
<1> DEFINE parent == IF branch = 0 THEN sync[c].base ELSE branch
           t == TreeOf(parent)
           n == sync[c].sha
           w == Updated(c, n, t)
           read == [sync[c] EXCEPT !.head = branch, !.about = Effective(c, n, t)]
           move == [parent |-> parent, tree |-> w, create |-> branch = 0, by |-> c]
<1>1. /\ sync[c].at = "branch" /\ UNCHANGED <<forge, late, timeouts, synced>>
      /\ sync' = Proceeds(c, IF ~Mine(c, t) \/ ~Unedited(t, branch # 0) THEN NoSync
                             ELSE IF t = w THEN [read EXCEPT !.at = "pulls"]
                             ELSE [read EXCEPT !.at = "move", !.move = move])
  BY DEF GetBranch
<1>2. /\ RunFine(c) /\ n \in DOMAIN SpecAt[c] /\ sync[c].base \in DOMAIN commits
      /\ sync = [d \in Conn |-> sync[d]] /\ History
      /\ sync[c].quiet => sync[c].base = base
      /\ sync[c].move = NoMove
  BY <1>1 DEF SyncInv, RunFine, UpToDate
<1>3. parent \in DOMAIN commits /\ (sync[c].quiet => parent = Tip)
  BY <1>2 DEF History, Tip
<1>4. {"spec", "provenance"} \subseteq DOMAIN t /\ DOMAIN t = DOMAIN TreeOf(1) /\ TrueRecord(t)
  BY <1>2, <1>3 DEF SyncInv, History, RecordsTrue
<1> HIDE DEF parent
<1>5. CASE ~Mine(c, t) \/ ~Unedited(t, branch # 0)
  BY <1>1, <1>2, <1>5, IdleFine DEF Proceeds
<1>6. CASE Mine(c, t) /\ Unedited(t, branch # 0)
  <2>1. /\ TrueRecord(w) /\ DOMAIN w = DOMAIN t
        /\ Carries(w, c, n, Effective(c, n, t))
    BY <1>2, <1>4, <1>6, UpdatedTrue
  <2> HIDE DEF t, w, n
  <2>2. CASE t = w
    <3>1. sync'[c] = [read EXCEPT !.at = "pulls"] /\ sync' = Proceeds(c, sync'[c])
      BY <1>1, <1>2, <1>6, <2>2 DEF Proceeds
    <3>2. /\ sync'[c].at = "pulls" /\ sync'[c].sha = n /\ sync'[c].head = branch
          /\ sync'[c].about = Effective(c, n, t) /\ sync'[c].move = NoMove
          /\ sync'[c].quiet = sync[c].quiet
          /\ sync'[c] = [at |-> "pulls", sha |-> n, base |-> sync[c].base, head |-> branch,
                         about |-> Effective(c, n, t), move |-> NoMove,
                         quiet |-> sync[c].quiet]
      BY <1>2, <3>1 DEF RunFine, n
    <3>3. sync[c].quiet => Carries(TreeOf(Tip), c, n, Effective(c, n, t))
      BY <1>3, <2>1, <2>2 DEF t
    <3>4. branch' = branch /\ TreeOf(Tip)' = TreeOf(Tip)
      BY <1>1 DEF forge, Tip, TreeOf
    <3>5. sync'[c].quiet => UpToDate(c)'
      BY <3>2, <3>3, <3>4 DEF UpToDate, Carries, Recorded
    <3> QED
      BY <1>2, <3>1, <3>2, <3>5 DEF RunFine, n
  <2>3. CASE t # w
    <3>1. /\ sync'[c] = [read EXCEPT !.at = "move", !.move = move]
          /\ sync' = Proceeds(c, sync'[c])
      BY <1>1, <1>2, <1>6, <2>3 DEF Proceeds
    <3>2. /\ sync'[c].at = "move" /\ sync'[c].sha = n /\ sync'[c].move = move
          /\ sync'[c].about = Effective(c, n, t) /\ sync'[c].quiet = sync[c].quiet
          /\ sync'[c] = [at |-> "move", sha |-> n, base |-> sync[c].base, head |-> branch,
                         about |-> Effective(c, n, t), move |-> move,
                         quiet |-> sync[c].quiet]
      BY <1>2, <3>1 DEF RunFine, n
    <3>3. SoundMove(move)
      <4>1. ~move.create => Unedited(TreeOf(move.parent), TRUE) /\ move.parent = branch
        BY <1>6 DEF t, parent
      <4>2. branch = 0 \/ branch <= branch
        BY <1>2, Numbers DEF History
      <4> QED
        BY <1>3, <1>4, <2>1, <4>1, <4>2 DEF SoundMove
    <3>4. SoundMove(sync[c].move)'
      <4> HIDE DEF move
      <4>1. commits' = commits /\ branch' = branch
        BY <1>1 DEF forge
      <4> QED
        BY <3>2, <3>3, <4>1 DEF SoundMove, TrueRecord, Recorded, Unedited, TreeOf
    <3>5. UpToDate(c)'
      BY <2>1, <3>2 DEF UpToDate, Carries, Recorded
    <3> QED
      <4> HIDE DEF move
      <4> QED
        BY <1>2, <3>1, <3>2, <3>4, <3>5 DEF RunFine, n
  <2> QED
    BY <2>2, <2>3
<1> QED
  BY <1>5, <1>6

\* The steps that only read.
LEMMA ReadsFine ==
    ASSUME SyncInv, NEW c \in Conn,
           GetBase(c) \/ GetBranch(c) \/ MoveRefused(c) \/ GiveUp(c)
    PROVE  SyncInv'
<1>1. UNCHANGED <<forge, synced>>
  BY DEF GetBase, GetBranch, MoveRefused, GiveUp
<1>2. Later /\ RecordsTrue' /\ SpecOffered'
  BY <1>1, SameCommits DEF forge, SyncInv, History
<1>3. RunFine(c)' /\ sync' = Proceeds(c, sync'[c])
  <2>1. CASE GetBase(c)
    <3>1. PICK n \in DOMAIN SpecAt[c] :
             sync' = Proceeds(c, [NoSync EXCEPT !.at = "branch", !.sha = n, !.base = base,
                                                !.quiet = TRUE])
      BY <2>1 DEF GetBase
    <3>2. /\ sync' = Proceeds(c, sync'[c])
          /\ sync'[c] = [at |-> "branch", sha |-> n, base |-> base, head |-> 0, about |-> 0,
                         move |-> NoMove, quiet |-> TRUE]
      BY <3>1 DEF Proceeds, SyncInv, NoSync
    <3>3. base' = base /\ base \in DOMAIN commits'
      BY <1>1 DEF forge, SyncInv, History
    <3> QED
      BY <3>2, <3>3 DEF RunFine, UpToDate
  <2>2. CASE MoveRefused(c) \/ GiveUp(c)
    <3>1. sync' = Proceeds(c, NoSync)
      BY <2>2 DEF MoveRefused, GiveUp
    <3> QED
      BY <3>1, IdleFine DEF Proceeds, SyncInv
  <2> QED
    BY <2>1, <2>2, GetBranchFine
<1>4. \A q \in late' : q \in late \/ SoundMove(q)'
  <2>1. CASE ~GiveUp(c)
    BY <2>1 DEF GetBase, GetBranch, MoveRefused
  <2>2. CASE GiveUp(c)
    <3>1. late' \subseteq late \cup ({sync[c].move} \ {NoMove})
      BY <2>2 DEF GiveUp
    <3>2. sync[c].move # NoMove => SoundMove(sync[c].move)
      BY DEF SyncInv, RunFine
    <3> QED
      BY <1>2, <3>1, <3>2, MoveStaysSound
         DEF SyncInv, SoundMove, TrueRecord, Recorded, Unedited, TreeOf
  <2> QED
    BY <2>1, <2>2
<1> QED
  BY <1>1, <1>2, <1>3, <1>4, SyncGoesOn DEF forge

\* A run between its requests after the move, whose repository stays.
LEMMA StepsOn ==
    ASSUME SyncInv, NEW c \in Conn, UNCHANGED <<commits, base, branch>>,
           sync[c].at \in {"pulls", "compare"}, NEW to \in {"compare", "open"},
           sync' = Proceeds(c, [sync[c] EXCEPT !.at = to])
    PROVE  RunFine(c)' /\ sync' = Proceeds(c, sync'[c])
<1>1. RunFine(c) /\ sync = [d \in Conn |-> sync[d]]
  BY DEF SyncInv
<1>2. /\ sync'[c] = [sync[c] EXCEPT !.at = to] /\ sync' = Proceeds(c, sync'[c])
  BY <1>1 DEF Proceeds
<1>3. /\ sync'[c].at = to /\ sync'[c].sha = sync[c].sha /\ sync'[c].head = sync[c].head
      /\ sync'[c].about = sync[c].about /\ sync'[c].move = NoMove
      /\ sync'[c].quiet = sync[c].quiet
      /\ sync'[c] = [at |-> to, sha |-> sync[c].sha, base |-> sync[c].base,
                     head |-> sync[c].head, about |-> sync[c].about, move |-> NoMove,
                     quiet |-> sync[c].quiet]
  BY <1>1, <1>2 DEF RunFine
<1>4. branch' = branch /\ TreeOf(Tip)' = TreeOf(Tip)
  BY DEF Tip, TreeOf
<1>5. sync'[c].quiet => UpToDate(c)'
  BY <1>1, <1>3, <1>4 DEF RunFine, UpToDate, Carries, Recorded
<1> QED
  BY <1>1, <1>2, <1>3, <1>5 DEF RunFine

\* The steps on the pull request.
LEMMA PullsFine ==
    ASSUME SyncInv, NEW c \in Conn,
           UpdatePull(c) \/ FindNoPull(c) \/ Compare(c) \/ OpenPull(c)
    PROVE  SyncInv'
<1>1. UNCHANGED <<commits, base, branch, late>> /\ sync[c].at \in {"pulls", "compare", "open"}
  BY DEF UpdatePull, FindNoPull, Compare, OpenPull, Completes, forge
<1>2. pr' # Closed => branch' # 0
  BY <1>1 DEF UpdatePull, FindNoPull, Compare, OpenPull, CanOpen, Ahead, forge, SyncInv, History
<1>3. Later /\ RecordsTrue' /\ (UNCHANGED <<pr, synced>> => SpecOffered')
  BY <1>1, <1>2, SameCommits
<1>4. /\ RunFine(c)'
      /\ sync' = Interferes(c, sync'[c]) \/ sync' = Proceeds(c, sync'[c])
  <2>1. CASE sync' = Interferes(c, NoSync) \/ sync' = Proceeds(c, NoSync)
    <3>1. sync'[c] = NoSync
      BY <2>1 DEF Interferes, Proceeds, SyncInv
    <3> QED
      BY <2>1, <3>1, IdleFine
  <2>2. CASE FindNoPull(c) /\ sync' = Proceeds(c, [sync[c] EXCEPT !.at = "compare"])
    BY <1>1, <2>2, StepsOn DEF FindNoPull
  <2>3. CASE Compare(c) /\ sync' = Proceeds(c, [sync[c] EXCEPT !.at = "open"])
    BY <1>1, <2>3, StepsOn DEF Compare
  <2> QED
    BY <2>1, <2>2, <2>3 DEF UpdatePull, FindNoPull, Compare, OpenPull
<1>5. SpecOffered'
  <2>1. CASE UNCHANGED <<pr, synced>>
    BY <1>3, <2>1
  <2>2. CASE Completes(c) /\ (sync[c].quiet /\ Ahead => pr' = sync[c].about)
    BY <1>1, <2>2, CompletesOffered
  <2>3. FindNoPull(c) /\ sync[c].head = 0 /\ sync[c].quiet => ~Ahead
    BY DEF FindNoPull, SyncInv, RunFine, UpToDate, Ahead
  <2> QED
    BY <2>1, <2>2, <2>3 DEF UpdatePull, FindNoPull, Compare, NeedsPull, OpenPull, forge
<1> QED
  BY <1>1, <1>3, <1>4, <1>5, SyncGoesOn

-----------------------------------------------------------------------------
(* The branch moves.                                                        *)

LEMMA MoveIsSound ==
    ASSUME SyncInv, NEW q, SoundMove(q), Move(q)
    PROVE  /\ Later /\ RecordsTrue'
           /\ DOMAIN commits' = DOMAIN commits \cup {Fresh}
           /\ branch' = Fresh /\ TreeOf(Tip)' = q.tree /\ Fresh # 0
           /\ commits'[Fresh].past = {Fresh} \cup Past(q.parent)
<1>1. /\ q.parent \in DOMAIN commits /\ DOMAIN q.tree = DOMAIN TreeOf(1) /\ TrueRecord(q.tree)
  BY DEF SoundMove
<1>2. /\ Commit(q.tree, {q.parent}, q.by) /\ branch' = Fresh /\ UNCHANGED <<base, pr>>
  BY DEF Move
<1>3. Fresh # 0
  BY Numbers DEF SyncInv
<1>4. /\ Later /\ DOMAIN commits' = DOMAIN commits \cup {Fresh}
      /\ commits'[Fresh] = [tree |-> q.tree, by |-> q.by,
                            past |-> {Fresh} \cup UNION {Past(p) : p \in {q.parent}}]
  BY <1>1, <1>2, <1>3, CommitGrows DEF SyncInv
<1>5. RecordsTrue'
  <2> SUFFICES ASSUME NEW c \in DOMAIN commits' PROVE TrueRecord(commits'[c].tree)
    BY DEF RecordsTrue, TreeOf, TrueRecord, Recorded
  <2>1. CASE c = Fresh
    BY <1>1, <1>4, <2>1
  <2>2. CASE c \in DOMAIN commits
    BY <1>4, <2>2 DEF Later, SyncInv, RecordsTrue, TreeOf
  <2> QED
    BY <1>4, <2>1, <2>2
<1>6. TreeOf(Tip)' = q.tree
  BY <1>2, <1>3, <1>4 DEF Tip, TreeOf
<1>7. UNION {Past(p) : p \in {q.parent}} = Past(q.parent)
  OBVIOUS
<1> QED
  BY <1>2, <1>3, <1>4, <1>5, <1>6, <1>7

LEMMA MovedFine ==
    ASSUME SyncInv, NEW c \in Conn, Moved(c)
    PROVE  SyncInv'
<1> DEFINE q == sync[c].move
<1>1. /\ sync[c].at = "move" /\ Move(q)
      /\ sync' = Interferes(c, [sync[c] EXCEPT !.at = "pulls", !.move = NoMove, !.head = Fresh])
      /\ synced' = <<>> /\ late' = late
  BY DEF Moved
<1>2. RunFine(c) /\ SoundMove(q) /\ (sync[c].quiet => Carries(q.tree, c, sync[c].sha, sync[c].about))
  BY <1>1 DEF SyncInv, RunFine, UpToDate
<1>3. /\ Later /\ RecordsTrue' /\ branch' = Fresh /\ TreeOf(Tip)' = q.tree
  <2> HIDE DEF q
  <2> QED
    BY <1>1, <1>2, MoveIsSound
<1>4. /\ sync'[c] = [at |-> "pulls", sha |-> sync[c].sha, base |-> sync[c].base,
                     head |-> Fresh, about |-> sync[c].about, move |-> NoMove,
                     quiet |-> sync[c].quiet]
  BY <1>1, <1>2 DEF RunFine, Interferes
<1>5. sync' = Interferes(c, sync'[c])
  BY <1>1 DEF Interferes
<1>6. sync'[c].quiet => UpToDate(c)'
  BY <1>2, <1>3, <1>4 DEF UpToDate, Carries, Recorded
<1>7. RunFine(c)'
  <2>1. sync[c].sha \in DOMAIN SpecAt[c]
    BY <1>1, <1>2 DEF RunFine
  <2> QED
    BY <1>4, <1>6, <2>1 DEF RunFine
<1>8. SpecOffered'
  BY <1>1 DEF SpecOffered
<1> QED
  BY <1>1, <1>3, <1>5, <1>7, <1>8, SyncGoesOn

\* All runs are disturbed by what others did.
LEMMA InterferedFine ==
    ASSUME SyncInv, Later, sync' = Interfered, synced' = <<>>, late' \subseteq late, RecordsTrue'
    PROVE  SyncInv'
<1>1. sync' = [d \in Conn |-> sync'[d]]
  BY DEF Interfered
<1>2. ASSUME NEW d \in Conn PROVE RunFine(d)'
  BY OtherStaysFine DEF Interfered
<1>3. \A q \in late' : SoundMove(q)'
  BY LateStaysSound
<1>4. History' /\ ({"spec", "provenance"} \subseteq DOMAIN TreeOf(1))'
  BY HeadsAgree DEF SyncInv, Later
<1>5. SpecOffered'
  BY DEF SpecOffered
<1> QED
  BY <1>1, <1>2, <1>3, <1>4, <1>5 DEF SyncInv

LEMMA ArriveFine ==
    ASSUME SyncInv, NEW q \in late, Arrive(q)
    PROVE  SyncInv'
<1>1. SoundMove(q) /\ late' \subseteq late
  BY DEF SyncInv, Arrive
<1>2. CASE Movable(q)
  <2>1. Move(q) /\ sync' = Interfered /\ synced' = <<>>
    BY <1>2 DEF Arrive
  <2> QED
    BY <1>1, <2>1, MoveIsSound, InterferedFine
<1>3. CASE ~Movable(q)
  <2>1. UNCHANGED <<forge, sync, synced>>
    BY <1>3 DEF Arrive
  <2>2. Later /\ RecordsTrue' /\ SpecOffered'
    BY <2>1, SameCommits DEF forge, SyncInv, History
  <2>3. \A d \in Conn : RunFine(d)'
    BY <2>1, <2>2, OtherStaysFine DEF forge
  <2>4. sync' = [d \in Conn |-> sync'[d]]
    BY <2>1 DEF SyncInv
  <2>5. History' /\ ({"spec", "provenance"} \subseteq DOMAIN TreeOf(1))'
    BY <2>2, HeadsAgree DEF SyncInv, Later
  <2>6. \A p \in late' : SoundMove(p)'
    BY <1>1, <2>2, LateStaysSound
  <2> QED
    BY <2>2, <2>3, <2>4, <2>5, <2>6 DEF SyncInv
<1> QED
  BY <1>2, <1>3

LEMMA PeopleFine ==
    ASSUME SyncInv, People, sync' = Interfered, synced' = <<>>, UNCHANGED late
    PROVE  SyncInv'
<1>1. History /\ RecordsTrue /\ {"spec", "provenance"} \subseteq DOMAIN TreeOf(1)
  BY DEF SyncInv
<1>2. Later
  BY <1>1, PeopleCommit
<1>3. RecordsTrue'
  <2> SUFFICES ASSUME NEW c \in DOMAIN commits' PROVE TrueRecord(commits'[c].tree)
    BY DEF RecordsTrue, TreeOf, TrueRecord, Recorded
  <2>1. CASE c \in DOMAIN commits
    BY <1>1, <1>2, <2>1 DEF Later, RecordsTrue, TreeOf
  <2>2. CASE c \notin DOMAIN commits
    <3>1. c = Fresh /\ commits' # commits
      BY <1>1, <2>2, PeopleCommit
    <3>2. ASSUME NEW head \in {base, branch} \ {0}, NEW change \in Change,
                 commits'[Fresh].tree = Edited(TreeOf(head), change)
          PROVE  TrueRecord(commits'[c].tree)
      <4>1. head \in DOMAIN commits /\ "provenance" \in DOMAIN TreeOf(head)
        BY <1>1 DEF History
      <4>2. commits'[c].tree["provenance"] \in {TreeOf(head)["provenance"], NoFile}
        BY <3>1, <3>2, <4>1, ProvenanceAssumption DEF Edited
      <4> QED
        BY <1>1, <4>1, <4>2 DEF RecordsTrue, TrueRecord, Recorded
    <3>3. ASSUME branch # 0,
                 \A f \in DOMAIN TreeOf(base) :
                    commits'[Fresh].tree[f] \in
                       Merged(TreeOf(MergeBase)[f], TreeOf(base)[f], TreeOf(branch)[f])
          PROVE  TrueRecord(commits'[c].tree)
      <4>1. /\ base \in DOMAIN commits /\ branch \in DOMAIN commits
            /\ "provenance" \in DOMAIN TreeOf(base)
        BY <1>1, <3>3 DEF History
      <4>2. commits'[c].tree["provenance"] \in
               {TreeOf(base)["provenance"], TreeOf(branch)["provenance"]}
        BY <3>1, <3>3, <4>1 DEF Merged
      <4> QED
        BY <1>1, <4>1, <4>2 DEF RecordsTrue, TrueRecord, Recorded
    <3> QED
      BY <1>1, <3>1, <3>2, <3>3, PeopleCommit
  <2> QED
    BY <2>1, <2>2
<1> QED
  BY <1>2, <1>3, InterferedFine

\* What syncSpec has read, asked for and recorded fits the repository, with any
\* number of connections, requests that are handled late and people.
THEOREM SyncInvariant == SyncSpec => []SyncInv
<1>1. ASSUME SyncInv, UNCHANGED syncVars PROVE SyncInv'
  <2>1. Later /\ RecordsTrue' /\ SpecOffered'
    BY <1>1, SameCommits DEF syncVars, forge, SyncInv, History
  <2>2. \A d \in Conn : RunFine(d)'
    BY <1>1, <2>1, OtherStaysFine DEF syncVars, forge
  <2>3. sync' = [d \in Conn |-> sync'[d]]
    BY <1>1 DEF SyncInv, syncVars
  <2>4. History' /\ ({"spec", "provenance"} \subseteq DOMAIN TreeOf(1))'
    BY <1>1, <2>1, HeadsAgree DEF SyncInv, Later
  <2>5. \A p \in late' : SoundMove(p)'
    BY <1>1, <2>1, LateStaysSound DEF syncVars
  <2> QED
    BY <2>1, <2>2, <2>3, <2>4, <2>5 DEF SyncInv
<1>2. SyncInv /\ [SyncNext]_syncVars => SyncInv'
  BY <1>1, ReadsFine, PullsFine, MovedFine, ArriveFine, PeopleFine DEF SyncNext, SyncStep
<1> QED
  BY <1>2, SyncInitFine, PTL DEF SyncSpec

\* Every provenance file names a source commit that has the recorded bytes,
\* with any number of runs, late requests and people who remove the file.
THEOREM ProvenanceIsTrue == SyncSpec => []ProvenanceTrue
<1>1. SyncInv => ProvenanceTrue
  BY DEF SyncInv, RecordsTrue, TrueRecord, ProvenanceTrue
<1> QED
  BY <1>1, SyncInvariant, PTL

\* A run that nobody interfered with leaves its specification under review, or
\* merged, and a pull request that names the commit the provenance names.
THEOREM SpecIsOffered == SyncSpec => []SpecOffered
<1>1. SyncInv => SpecOffered
  BY DEF SyncInv
<1> QED
  BY <1>1, SyncInvariant, PTL

\* A move of an existing branch was made from the head that it replaces.
LEMMA MovesFromHead ==
    ASSUME SyncInv, NEW q, SoundMove(q), Movable(q), Move(q), branch # 0
    PROVE  branch \in commits'[branch'].past /\ Unedited(TreeOf(branch), TRUE)
<1>1. /\ q.parent \in DOMAIN commits /\ branch \in Past(q.parent)
      /\ Unedited(TreeOf(q.parent), TRUE) /\ q.parent <= branch
  BY DEF SoundMove, Movable, FastForward
<1>2. branch \in 1..q.parent /\ q.parent \in Nat
  BY <1>1, Numbers DEF SyncInv, History
<1>3. branch = q.parent
  BY <1>1, <1>2
<1> QED
  BY <1>1, <1>3, MoveIsSound

\* A move, late ones too, drops no commit of the review branch and replaces no
\* specification that somebody edited there.
THEOREM SpecEditsAreKept == SyncSpec => SpecEditsSurvive
<1>1. ASSUME SyncInv, SyncNext, MovedBySync, branch # 0
      PROVE  branch \in commits'[branch'].past /\ Unedited(TreeOf(branch), TRUE)
  <2> USE <1>1
  <2>1. ASSUME NEW c \in Conn, Moved(c)
        PROVE  branch \in commits'[branch'].past /\ Unedited(TreeOf(branch), TRUE)
    <3>1. SoundMove(sync[c].move) /\ Move(sync[c].move) /\ Movable(sync[c].move)
      BY <2>1 DEF Moved, Move, SyncInv, RunFine
    <3> QED
      BY <3>1, MovesFromHead
  <2>2. ASSUME NEW q \in late, Arrive(q)
        PROVE  branch \in commits'[branch'].past /\ Unedited(TreeOf(branch), TRUE)
    <3>1. SoundMove(q) /\ Move(q) /\ Movable(q)
      BY <2>2 DEF Arrive, Move, SyncInv, MovedBySync, forge
    <3> QED
      BY <3>1, MovesFromHead
  <2>3. ~People
    <3> SUFFICES ASSUME People PROVE FALSE
      OBVIOUS
    <3>1. branch' = Fresh /\ commits'[Fresh].by = Author
      <4>1. Later /\ History
        BY PeopleCommit DEF SyncInv
      <4>2. branch' = Fresh
        BY <4>1 DEF Later, MovedBySync
      <4>3. Fresh \in DOMAIN commits' /\ Fresh \notin DOMAIN commits
        BY <4>1, <4>2, Numbers DEF Later, History
      <4> QED
        BY <4>1, <4>2, <4>3, PeopleCommit
    <3> QED
      BY <3>1, SyncAssumption DEF MovedBySync
  <2>4. ASSUME NEW c \in Conn, SyncStep(c) PROVE Moved(c)
    BY <2>4 DEF SyncStep, GetBase, GetBranch, MoveRefused, GiveUp, UpdatePull, FindNoPull,
       Compare, OpenPull, Completes, forge, MovedBySync
  <2> QED
    BY <2>1, <2>2, <2>3, <2>4 DEF SyncNext
<1>2. SyncInv /\ [SyncNext]_syncVars =>
         [MovedBySync /\ branch # 0 =>
            /\ branch \in commits'[branch'].past
            /\ Unedited(TreeOf(branch), TRUE)]_syncVars
  BY <1>1
<1> QED
  BY <1>2, SyncInvariant, PTL DEF SyncSpec, SpecEditsSurvive

-----------------------------------------------------------------------------
(* Whose the target is.                                                     *)

\* Since a commit p that the base branch has, the ancestors of h, and h itself,
\* record one connection, or none; and h has a specification, so that nobody
\* but that connection goes on from it.
Kin(h) ==
    /\ TreeOf(h)["spec"] # NoFile
    /\ \E p \in Past(h) \cap Past(base), c \in Conn :
          \A o \in Past(h) :
             o >= p /\ Recorded(TreeOf(o)) # NoFile => Recorded(TreeOf(o)).conn = c

\* A requested move goes on from what is its connection's, or nobody's.
OwnMove(q) ==
    /\ q.by \in Conn
    /\ Mine(q.by, TreeOf(q.parent))
    /\ q.tree["spec"] # NoFile /\ Recorded(q.tree) # NoFile /\ Recorded(q.tree).conn = q.by
    /\ q.create => q.parent \in Past(base)

OwnRun(c) ==
    /\ sync[c].at = "branch" => sync[c].base \in Past(base)
    /\ sync[c].at = "move" => OwnMove(sync[c].move)

ConnInv ==
    /\ branch # 0 => Kin(branch)
    /\ \A c \in Conn : OwnRun(c)
    /\ \A q \in late : OwnMove(q)

\* The base branch goes on, and all stays that was there.
Onward == Later /\ \A d \in Past(base) : d \in Past(base)'

LEMMA KinStays ==
    ASSUME History, Onward, NEW h \in DOMAIN commits, Kin(h)
    PROVE  Kin(h)'
<1>1. /\ \A d \in DOMAIN commits : TreeOf(d)' = TreeOf(d) /\ Past(d)' = Past(d)
  BY HeadsAgree DEF Onward
<1>2. \A o \in Past(h) : o \in DOMAIN commits
  BY Numbers DEF History
<1>3. PICK p \in Past(h) \cap Past(base), c \in Conn :
         \A o \in Past(h) :
            o >= p /\ Recorded(TreeOf(o)) # NoFile => Recorded(TreeOf(o)).conn = c
  BY DEF Kin
<1>4. \A o \in Past(h)' :
         o >= p /\ Recorded(TreeOf(o)') # NoFile => Recorded(TreeOf(o)').conn = c
  BY <1>1, <1>2, <1>3
<1>5. p \in Past(h)' /\ p \in Past(base)' /\ TreeOf(h)'["spec"] # NoFile
  BY <1>1, <1>3 DEF Onward, Kin
<1> QED
  BY <1>4, <1>5 DEF Kin, Recorded

LEMMA OwnStays ==
    ASSUME History, Onward, NEW q, SoundMove(q), OwnMove(q)
    PROVE  OwnMove(q)'
<1>1. q.parent \in DOMAIN commits
  BY DEF SoundMove
<1>2. TreeOf(q.parent)' = TreeOf(q.parent)
  BY <1>1, HeadsAgree DEF Onward
<1> QED
  BY <1>2 DEF OwnMove, Onward, Mine, Recorded

\* A new head of the branch, made from a commit of its kin.
LEMMA HeadIsKin ==
    ASSUME SyncInv, Onward, NEW f, f = Fresh, NEW parent \in DOMAIN commits,
           commits'[f].past = {f} \cup Past(parent),
           NEW p \in Past(parent) \cap Past(base), NEW c \in Conn,
           \A o \in Past(parent) :
              o >= p /\ Recorded(TreeOf(o)) # NoFile => Recorded(TreeOf(o)).conn = c,
           commits'[f].tree["spec"] # NoFile,
           Recorded(commits'[f].tree) # NoFile => Recorded(commits'[f].tree).conn = c
    PROVE  Kin(f)'
<1>1. \A d \in DOMAIN commits : TreeOf(d)' = TreeOf(d)
  BY HeadsAgree DEF Onward, SyncInv
<1>2. \A o \in Past(parent) : o \in DOMAIN commits
  BY Numbers DEF SyncInv, History
<1>3. TreeOf(f)' = commits'[f].tree /\ Past(f)' = {f} \cup Past(parent)
  BY DEF TreeOf, Past
<1>4. \A o \in Past(f)' :
         o >= p /\ Recorded(TreeOf(o)') # NoFile => Recorded(TreeOf(o)').conn = c
  BY <1>1, <1>2, <1>3
<1>5. p \in Past(f)' /\ p \in Past(base)'
  BY <1>3 DEF Onward
<1> QED
  BY <1>3, <1>4, <1>5 DEF Kin, Recorded

\* A step that makes no commit.
LEMMA NoCommitKeeps ==
    ASSUME SyncInv, ConnInv, UNCHANGED <<commits, base>>, branch' \in {branch, 0}, Later,
           \A c \in Conn : OwnRun(c) => OwnRun(c)',
           \A q \in late' : q \in late \/ OwnMove(q)
    PROVE  ConnInv'
<1>1. Onward /\ History
  BY DEF Onward, Past, SyncInv
<1>2. branch' # 0 => Kin(branch)'
  <2> SUFFICES ASSUME branch' # 0 PROVE Kin(branch)'
    OBVIOUS
  <2>1. PICK h : h = branch
    OBVIOUS
  <2>2. h \in DOMAIN commits /\ Kin(h) /\ branch' = h
    BY <2>1 DEF ConnInv, SyncInv, History
  <2>3. Kin(h)'
    BY <1>1, <2>2, KinStays
  <2> QED
    BY <2>2, <2>3 DEF Kin
<1>3. \A q \in late' : OwnMove(q)'
  BY DEF ConnInv, OwnMove, Mine, Recorded, TreeOf, Past
<1> QED
  BY <1>2, <1>3 DEF ConnInv

\* A run that goes on from where it was, or has no move to ask for.
LEMMA RunOwned ==
    ASSUME SyncInv, ConnInv, Onward, NEW d \in Conn,
           sync'[d].at \in {"branch", "move"} =>
              sync'[d].at = sync[d].at /\ sync'[d].base = sync[d].base
              /\ sync'[d].move = sync[d].move
    PROVE  OwnRun(d)'
<1>1. OwnRun(d) /\ RunFine(d) /\ History
  BY DEF ConnInv, SyncInv
<1>2. sync'[d].at = "branch" => (sync[d].base \in Past(base))'
  BY <1>1 DEF OwnRun, Onward
<1>3. ASSUME sync'[d].at = "move" PROVE OwnMove(sync[d].move)'
  <2>1. PICK q : q = sync[d].move /\ q = sync'[d].move
    BY <1>3
  <2>2. SoundMove(q) /\ OwnMove(q)
    BY <1>1, <1>3, <2>1 DEF OwnRun, RunFine
  <2>3. OwnMove(q)'
    BY <1>1, <2>2, OwnStays
  <2> QED
    BY <2>1, <2>3 DEF OwnMove
<1> QED
  BY <1>2, <1>3 DEF OwnRun

LEMMA GetBranchOwns ==
    ASSUME SyncInv, ConnInv, NEW c \in Conn, GetBranch(c)
    PROVE  OwnRun(c)'
<1> DEFINE parent == IF branch = 0 THEN sync[c].base ELSE branch
           t == TreeOf(parent)
           n == sync[c].sha
           w == Updated(c, n, t)
           move == [parent |-> parent, tree |-> w, create |-> branch = 0, by |-> c]
<1>1. /\ sync[c].at = "branch" /\ UNCHANGED forge
      /\ RunFine(c) /\ History /\ n \in DOMAIN SpecAt[c] /\ sync[c].base \in DOMAIN commits
      /\ sync[c].base \in Past(base)
      /\ sync = [d \in Conn |-> sync[d]]
  BY DEF GetBranch, SyncInv, RunFine, ConnInv, OwnRun
<1>2. CASE sync'[c].at = "move"
  <2>1. /\ Mine(c, t) /\ Unedited(t, branch # 0) /\ sync'[c].move = move
        /\ sync'[c].at # "branch"
    BY <1>1, <1>2 DEF GetBranch, Proceeds, NoSync, RunFine
  <2>2. parent \in DOMAIN commits
    BY <1>1 DEF History
  <2>3. {"spec", "provenance"} \subseteq DOMAIN t /\ TrueRecord(t)
    BY <2>2 DEF SyncInv, History, RecordsTrue
  <2>4. Carries(w, c, n, Effective(c, n, t))
    <3> HIDE DEF parent, w
    <3> QED
      BY <1>1, <2>1, <2>3, UpdatedTrue DEF w
  <2>5. SpecAt[c][n] # NoFile
    BY <1>1, SyncAssumption
  <2>6. OwnMove(move)
    <3> HIDE DEF w, n, t
    <3>1. w["spec"] # NoFile /\ Recorded(w) # NoFile /\ Recorded(w).conn = c
      BY <2>4, <2>5 DEF Carries, n
    <3>2. Mine(c, TreeOf(parent))
      BY <2>1 DEF t
    <3>3. branch = 0 => parent \in Past(base)
      BY <1>1
    <3> QED
      BY <3>1, <3>2, <3>3 DEF OwnMove
  <2>7. OwnMove(sync[c].move)'
    <3> HIDE DEF move
    <3>1. commits' = commits /\ base' = base
      BY <1>1 DEF forge
    <3> QED
      BY <2>1, <2>6, <3>1 DEF OwnMove, Mine, Recorded, TreeOf, Past
  <2> QED
    BY <2>1, <2>7 DEF OwnRun
<1>3. CASE sync'[c].at # "move"
  <2>1. sync'[c].at # "branch"
    BY <1>1 DEF GetBranch, Proceeds, NoSync, RunFine
  <2> QED
    BY <1>3, <2>1 DEF OwnRun
<1> QED
  BY <1>2, <1>3

\* The steps of a run that leave commits and branches alone.
LEMMA QuietStepsOwn ==
    ASSUME SyncInv, ConnInv, NEW c \in Conn, SyncStep(c), ~Moved(c)
    PROVE  ConnInv'
<1>1. UNCHANGED <<commits, base, branch>> /\ (pr' # Closed => branch' # 0)
  BY DEF SyncStep, GetBase, GetBranch, MoveRefused, GiveUp, UpdatePull, FindNoPull, Compare,
         OpenPull, Completes, forge, CanOpen, Ahead, SyncInv, History
<1>2. Later /\ History
  BY <1>1, SameCommits DEF SyncInv
<1>3. Onward
  BY <1>1, <1>2 DEF Onward, Past
<1>4. sync = [d \in Conn |-> sync[d]] /\ RunFine(c)
  BY DEF SyncInv
<1>5. ASSUME NEW d \in Conn, d # c PROVE OwnRun(d)'
  <2>1. \E r : sync' = Proceeds(c, r) \/ sync' = Interferes(c, r)
    BY DEF SyncStep, GetBase, GetBranch, MoveRefused, GiveUp, UpdatePull, FindNoPull, Compare,
           OpenPull
  <2>2. RunFine(d)
    BY DEF SyncInv
  <2>3. /\ sync'[d].at = sync[d].at /\ sync'[d].base = sync[d].base
        /\ sync'[d].move = sync[d].move
    BY <1>4, <1>5, <2>1, <2>2 DEF Proceeds, Interferes, RunFine
  <2> QED
    BY <1>3, <2>3, RunOwned
<1>6. OwnRun(c)'
  <2>1. CASE GetBase(c)
    <3>1. sync'[c].at = "branch" /\ sync'[c].base = base
      BY <1>4, <2>1 DEF GetBase, Proceeds, NoSync
    <3>2. base \in Past(base)'
      BY <1>1, <1>2 DEF History, Past
    <3> QED
      BY <1>1, <3>1, <3>2 DEF OwnRun
  <2>2. CASE MoveRefused(c) \/ GiveUp(c) \/ UpdatePull(c) \/ FindNoPull(c) \/ Compare(c) \/ OpenPull(c)
    <3>1. sync'[c].at \notin {"branch", "move"}
      BY <1>4, <2>2 DEF MoveRefused, GiveUp, UpdatePull, FindNoPull, Compare, OpenPull, Proceeds,
         Interferes, NoSync, RunFine
    <3> QED
      BY <3>1 DEF OwnRun
  <2> QED
    BY <2>1, <2>2, GetBranchOwns DEF SyncStep
<1>7. \A q \in late' : q \in late \/ OwnMove(q)
  <2>1. late' \subseteq late \cup ({sync[c].move} \ {NoMove})
    BY DEF SyncStep, GetBase, GetBranch, MoveRefused, GiveUp, UpdatePull, FindNoPull, Compare,
           OpenPull, Completes
  <2>2. sync[c].move # NoMove => OwnMove(sync[c].move)
    BY <1>4 DEF RunFine, ConnInv, OwnRun
  <2> QED
    BY <2>1, <2>2
<1> QED
  BY <1>1, <1>2, <1>5, <1>6, <1>7, NoCommitKeeps

\* What a head that moves from t to u must not do.
SameConn(t, u) == Recorded(t) # NoFile /\ Recorded(u) # NoFile => Recorded(t).conn = Recorded(u).conn

\* A move starts the branch from what the base branch has, or goes on from its
\* head, whose record is the move's connection.
LEMMA MoveOwns ==
    ASSUME SyncInv, ConnInv, NEW q, SoundMove(q), OwnMove(q), Movable(q), Move(q)
    PROVE  /\ Onward /\ base' = base /\ Kin(branch)'
           /\ branch # 0 => SameConn(TreeOf(branch), commits'[branch'].tree)
<1>1. /\ Later /\ DOMAIN commits' = DOMAIN commits \cup {Fresh} /\ branch' = Fresh
      /\ commits'[Fresh].past = {Fresh} \cup Past(q.parent) /\ base' = base
      /\ TreeOf(Tip)' = q.tree /\ Fresh # 0
  BY MoveIsSound DEF Move
<1>2. PICK f : f = Fresh
  OBVIOUS
<1>3. commits'[f].tree = q.tree /\ branch' = f
  BY <1>1, <1>2 DEF Tip, TreeOf
<1>4. Onward /\ History
  <2>1. base \in DOMAIN commits
    BY DEF SyncInv, History
  <2> QED
    BY <1>1, <2>1, HeadsAgree DEF Onward, SyncInv
<1>5. q.parent \in DOMAIN commits
  BY DEF SoundMove
<1>6. \E p \in Past(q.parent) \cap Past(base) :
         \A o \in Past(q.parent) :
            o >= p /\ Recorded(TreeOf(o)) # NoFile => Recorded(TreeOf(o)).conn = q.by
  <2>1. CASE q.create
    <3>1. q.parent \in Past(q.parent) /\ q.parent \in Past(base) /\ Past(q.parent) \subseteq 1..q.parent
          /\ q.parent \in Nat
      BY <1>4, <1>5, <2>1, Numbers DEF History, OwnMove
    <3>2. \A o \in Past(q.parent) : o >= q.parent => o = q.parent
      BY <3>1
    <3>3. Recorded(TreeOf(q.parent)) # NoFile => Recorded(TreeOf(q.parent)).conn = q.by
      BY DEF OwnMove, Mine
    <3> QED
      BY <3>1, <3>2, <3>3
  <2>2. CASE ~q.create
    <3>1. branch = q.parent /\ branch # 0 /\ Unedited(TreeOf(branch), TRUE)
      <4>1. /\ branch # 0 /\ branch \in Past(q.parent) /\ q.parent <= branch
            /\ Unedited(TreeOf(q.parent), TRUE)
        BY <2>2 DEF SoundMove, Movable, FastForward
      <4>2. branch \in 1..q.parent /\ q.parent \in Nat
        BY <1>4, <1>5, <4>1, Numbers DEF History
      <4>3. branch = q.parent
        BY <4>1, <4>2
      <4> QED
        BY <4>1, <4>3
    <3>2. Recorded(TreeOf(branch)) # NoFile /\ Recorded(TreeOf(branch)).conn = q.by
      BY <3>1 DEF ConnInv, Kin, Unedited, OwnMove, Mine
    <3>3. PICK p \in Past(branch) \cap Past(base), c \in Conn :
             \A o \in Past(branch) :
                o >= p /\ Recorded(TreeOf(o)) # NoFile => Recorded(TreeOf(o)).conn = c
      BY <3>1 DEF ConnInv, Kin
    <3>4. branch \in Past(branch) /\ branch >= p
      BY <1>4, <1>5, <3>1, <3>3, Numbers DEF History
    <3>5. c = q.by
      BY <3>2, <3>3, <3>4
    <3> QED
      BY <3>1, <3>3, <3>5
  <2> QED
    BY <2>1, <2>2
<1>7. q.tree["spec"] # NoFile /\ Recorded(q.tree).conn = q.by /\ q.by \in Conn
  BY DEF OwnMove
<1>8. Kin(f)'
  <2>1. PICK p \in Past(q.parent) \cap Past(base) :
           \A o \in Past(q.parent) :
              o >= p /\ Recorded(TreeOf(o)) # NoFile => Recorded(TreeOf(o)).conn = q.by
    BY <1>6
  <2> QED
    BY <1>1, <1>2, <1>3, <1>4, <1>5, <1>7, <2>1, HeadIsKin
<1>9. branch # 0 => SameConn(TreeOf(branch), commits'[f].tree)
  <2> SUFFICES ASSUME branch # 0 PROVE SameConn(TreeOf(branch), commits'[f].tree)
    OBVIOUS
  <2>1. ~q.create /\ branch \in Past(q.parent) /\ q.parent <= branch
    BY DEF Movable, FastForward, SoundMove
  <2>2. branch \in 1..q.parent /\ q.parent \in Nat
    BY <1>4, <1>5, <2>1, Numbers DEF History
  <2>3. branch = q.parent
    BY <2>1, <2>2
  <2> QED
    BY <1>3, <1>7, <2>3 DEF SameConn, OwnMove, Mine
<1> QED
  BY <1>1, <1>3, <1>4, <1>8, <1>9 DEF Kin

\* The step of ConnectionKept.
KeepsConn ==
    \A h \in {<<base, base'>>, <<branch, branch'>>} :
       (h[1] # h[2] /\ 0 \notin {h[1], h[2]}) => SameConn(commits[h[1]].tree, commits'[h[2]].tree)

LEMMA MovedOwns ==
    ASSUME SyncInv, ConnInv, NEW c \in Conn, Moved(c)
    PROVE  ConnInv' /\ KeepsConn
<1>1. PICK q : q = sync[c].move
  OBVIOUS
<1>2. /\ SoundMove(q) /\ OwnMove(q) /\ Movable(q) /\ Move(q) /\ late' = late
      /\ sync' = Interferes(c, [sync[c] EXCEPT !.at = "pulls", !.move = NoMove, !.head = Fresh])
  BY <1>1 DEF Moved, Move, SyncInv, RunFine, ConnInv, OwnRun
<1>3. /\ Onward /\ base' = base /\ Kin(branch)'
      /\ branch # 0 => SameConn(TreeOf(branch), commits'[branch'].tree)
  BY <1>2, MoveOwns
<1>4. ASSUME NEW d \in Conn PROVE OwnRun(d)'
  <2>1. RunFine(d)
    BY DEF SyncInv
  <2>2. sync'[d].at \in {"branch", "move"} =>
           sync'[d].at = sync[d].at /\ sync'[d].base = sync[d].base
           /\ sync'[d].move = sync[d].move
    BY <1>2, <2>1 DEF Interferes, RunFine
  <2> QED
    BY <1>3, <2>2, RunOwned
<1>5. ASSUME NEW p \in late' PROVE OwnMove(p)'
  BY <1>2, <1>3, OwnStays DEF SyncInv, ConnInv
<1> QED
  BY <1>3, <1>4, <1>5 DEF ConnInv, KeepsConn, TreeOf

LEMMA ArriveOwns ==
    ASSUME SyncInv, ConnInv, NEW q \in late, Arrive(q)
    PROVE  ConnInv' /\ KeepsConn
<1>1. SoundMove(q) /\ OwnMove(q) /\ late' \subseteq late
  BY DEF SyncInv, ConnInv, Arrive
<1>2. CASE Movable(q)
  <2>1. Move(q) /\ sync' = Interfered
    BY <1>2 DEF Arrive
  <2>2. /\ Onward /\ base' = base /\ Kin(branch)'
        /\ branch # 0 => SameConn(TreeOf(branch), commits'[branch'].tree)
    BY <1>1, <1>2, <2>1, MoveOwns
  <2>3. ASSUME NEW d \in Conn PROVE OwnRun(d)'
    <3>1. RunFine(d)
      BY DEF SyncInv
    <3>2. /\ sync'[d].at = sync[d].at /\ sync'[d].base = sync[d].base
          /\ sync'[d].move = sync[d].move
      BY <2>1, <3>1 DEF Interfered, RunFine
    <3> QED
      BY <2>2, <3>2, RunOwned
  <2>4. ASSUME NEW p \in late' PROVE OwnMove(p)'
    BY <1>1, <2>2, OwnStays DEF SyncInv, ConnInv
  <2> QED
    BY <2>2, <2>3, <2>4 DEF ConnInv, KeepsConn, TreeOf
<1>3. CASE ~Movable(q)
  <2>1. UNCHANGED <<forge, sync, synced>>
    BY <1>3 DEF Arrive
  <2>2. Later
    BY <2>1, SameCommits DEF forge, SyncInv, History
  <2>3. \A c \in Conn : OwnRun(c) => OwnRun(c)'
    BY <2>1 DEF OwnRun, OwnMove, Mine, Recorded, TreeOf, Past, forge
  <2>4. ConnInv'
    BY <1>1, <2>1, <2>2, <2>3, NoCommitKeeps DEF forge
  <2> QED
    BY <2>1, <2>4 DEF KeepsConn, forge
<1> QED
  BY <1>2, <1>3

\* The last commit that both heads have lies in the branch's kin, so that the
\* record of a merge is the base's, or one of the same connection.
LEMMA MergeKeepsConn ==
    ASSUME SyncInv, ConnInv, branch # 0,
           NEW x \in Merged(TreeOf(MergeBase)["provenance"], TreeOf(base)["provenance"],
                            TreeOf(branch)["provenance"]),
           x # NoFile, Recorded(TreeOf(base)) # NoFile
    PROVE  Recorded(TreeOf(base)).conn = x.conn
<1>1. PICK p \in Past(branch) \cap Past(base), c \in Conn :
         \A o \in Past(branch) :
            o >= p /\ Recorded(TreeOf(o)) # NoFile => Recorded(TreeOf(o)).conn = c
  BY DEF ConnInv, Kin
<1>2. /\ branch \in DOMAIN commits /\ base \in DOMAIN commits
      /\ branch \in Past(branch) /\ Past(branch) \subseteq 1..branch /\ branch \in Nat
  BY Numbers DEF SyncInv, History
<1>3. PICK S : S = Past(base) \cap Past(branch)
  OBVIOUS
<1>4. S \in SUBSET (0..branch) /\ p \in S
  BY <1>1, <1>2, <1>3
<1>5. \E m \in S : \A y \in S : m >= y
  BY <1>2, <1>4, GreatestNumber
<1>6. MergeBase \in S /\ \A y \in S : MergeBase >= y
  BY <1>3, <1>5 DEF MergeBase, Max
<1>7. MergeBase \in Past(branch) /\ MergeBase >= p /\ branch >= p
  BY <1>1, <1>2, <1>3, <1>4, <1>6
<1>8. /\ Recorded(TreeOf(MergeBase)) # NoFile => Recorded(TreeOf(MergeBase)).conn = c
      /\ Recorded(TreeOf(branch)) # NoFile => Recorded(TreeOf(branch)).conn = c
  BY <1>1, <1>2, <1>7
<1> QED
  BY <1>8 DEF Merged, Recorded

\* People who leave the specification where it is.
SpecStays == \A change \in Change : "spec" \in DOMAIN change => change["spec"] # NoFile

LEMMA PeopleOwn ==
    ASSUME SyncInv, ConnInv, SpecStays, People, sync' = Interfered, UNCHANGED late
    PROVE  ConnInv' /\ KeepsConn
<1>1. History /\ Later
  BY PeopleCommit DEF SyncInv
<1>2. ASSUME NEW d \in Conn
      PROVE  /\ sync'[d].at = sync[d].at /\ sync'[d].base = sync[d].base
             /\ sync'[d].move = sync[d].move
  BY DEF Interfered, SyncInv, RunFine
<1>3. CASE commits' = commits /\ base' = base /\ branch' \in {branch, 0}
  <2>1. \A d \in Conn : OwnRun(d) => OwnRun(d)'
    BY <1>2, <1>3 DEF OwnRun, OwnMove, Mine, Recorded, TreeOf, Past
  <2>2. ConnInv'
    BY <1>1, <1>3, <2>1, NoCommitKeeps
  <2> QED
    BY <1>3, <2>2 DEF KeepsConn
<1>4. ASSUME Onward, branch' # 0 => Kin(branch)' PROVE ConnInv'
  <2>1. \A d \in Conn : OwnRun(d)'
    BY <1>2, <1>4, RunOwned
  <2>2. ASSUME NEW q \in late' PROVE OwnMove(q)'
    BY <1>4, OwnStays DEF SyncInv, ConnInv
  <2> QED
    BY <1>4, <2>1, <2>2 DEF ConnInv
<1>5. ASSUME Onward, branch' = branch PROVE branch' # 0 => Kin(branch)'
  <2> SUFFICES ASSUME branch' # 0 PROVE Kin(branch)'
    OBVIOUS
  <2>1. PICK h : h = branch
    OBVIOUS
  <2>2. h \in DOMAIN commits /\ Kin(h) /\ branch' = h
    BY <1>1, <1>5, <2>1 DEF ConnInv, History
  <2>3. Kin(h)'
    BY <1>1, <1>5, <2>2, KinStays
  <2> QED
    BY <2>2, <2>3 DEF Kin
<1>6. PICK f : f = Fresh
  OBVIOUS
<1>7. ASSUME NEW head \in {base, branch} \ {0}, NEW change \in Change,
             commits'[f].tree = Edited(TreeOf(head), change),
             commits'[f].past = {f} \cup Past(head),
             \/ base' = f /\ head = base /\ branch' = branch
             \/ branch' = f /\ head = branch /\ base' = base
      PROVE  ConnInv' /\ KeepsConn
  <2>1. head \in DOMAIN commits /\ {"spec", "provenance"} \subseteq DOMAIN TreeOf(head)
    BY <1>1 DEF History, SyncInv
  <2>2. /\ commits'[f].tree["provenance"] \in {TreeOf(head)["provenance"], NoFile}
        /\ TreeOf(head)["spec"] # NoFile => commits'[f].tree["spec"] # NoFile
    BY <1>7, <2>1, ProvenanceAssumption DEF Edited, SpecStays
  <2>3. SameConn(TreeOf(head), commits'[f].tree)
    BY <2>2 DEF SameConn, Recorded
  <2>4. Onward
    BY <1>1, <1>7, HeadsAgree DEF Onward, Past, History
  <2>5. CASE base' = f /\ head = base /\ branch' = branch
    BY <1>4, <1>5, <2>3, <2>4, <2>5 DEF KeepsConn, TreeOf
  <2>6. CASE branch' = f /\ head = branch /\ base' = base
    <3>1. branch # 0 /\ Kin(branch)
      BY <1>7, <2>6 DEF ConnInv
    <3>2. PICK p \in Past(head) \cap Past(base), c \in Conn :
             \A o \in Past(head) :
                o >= p /\ Recorded(TreeOf(o)) # NoFile => Recorded(TreeOf(o)).conn = c
      BY <2>6, <3>1 DEF Kin
    <3>3. head \in Past(head) /\ head >= p
      BY <1>1, <2>1, <3>2, Numbers DEF History
    <3>4. Recorded(commits'[f].tree) # NoFile => Recorded(commits'[f].tree).conn = c
      BY <2>2, <3>2, <3>3 DEF Recorded
    <3>5. Kin(f)'
      BY <1>6, <1>7, <2>1, <2>2, <2>4, <2>6, <3>1, <3>2, <3>4, HeadIsKin DEF Kin
    <3>6. Kin(branch)'
      BY <2>6, <3>5 DEF Kin
    <3> QED
      BY <1>4, <2>3, <2>4, <2>6, <3>6 DEF KeepsConn, TreeOf
  <2> QED
    BY <1>7, <2>5, <2>6
<1>8. ASSUME branch # 0, base' = f, branch' = branch,
             commits'[f].past \in {{f} \cup Past(base), {f} \cup Past(base) \cup Past(branch)},
             \A file \in DOMAIN TreeOf(base) :
                commits'[f].tree[file] \in
                   Merged(TreeOf(MergeBase)[file], TreeOf(base)[file], TreeOf(branch)[file])
      PROVE  ConnInv' /\ KeepsConn
  <2>1. Onward
    BY <1>1, <1>8 DEF Onward, Past
  <2>2. "provenance" \in DOMAIN TreeOf(base)
    BY <1>1 DEF SyncInv, History
  <2>3. SameConn(TreeOf(base), commits'[f].tree)
    BY <1>8, <2>2, MergeKeepsConn DEF SameConn, Recorded
  <2> QED
    BY <1>4, <1>5, <1>8, <2>1, <2>3 DEF KeepsConn, TreeOf
<1> QED
  BY <1>1, <1>3, <1>6, <1>7, <1>8, PeopleCommit

\* While people leave the specification where it is, neither branch passes from
\* one connection's provenance to another's, with any number of connections,
\* late requests and merges, unless people removed the provenance.  (Who
\* removes both files from the review branch leaves it to the next connection,
\* and merges that one's provenance over the first's.)
THEOREM ConnectionsAreKept == ASSUME SpecStays PROVE SyncSpec => ConnectionKept
<1>1. ASSUME SyncInit PROVE ConnInv
  <2>1. PICK t \in Target : ForgeInit(t)
    BY <1>1 DEF SyncInit
  <2> QED
    BY <1>1, <2>1 DEF SyncInit, ForgeInit, ConnInv, OwnRun, NoSync
<1>2. ASSUME SyncInv, ConnInv, SyncNext PROVE ConnInv' /\ KeepsConn
  <2>1. ASSUME NEW c \in Conn, SyncStep(c), ~Moved(c) PROVE ConnInv' /\ KeepsConn
    <3>1. UNCHANGED <<base, branch>>
      BY <2>1 DEF SyncStep, GetBase, GetBranch, MoveRefused, GiveUp, UpdatePull, FindNoPull,
         Compare, OpenPull, Completes, forge
    <3> QED
      BY <1>2, <2>1, <3>1, QuietStepsOwn DEF KeepsConn
  <2> QED
    BY <1>2, <2>1, MovedOwns, ArriveOwns, PeopleOwn DEF SyncNext
<1>3. ASSUME SyncInv, ConnInv, UNCHANGED syncVars PROVE ConnInv'
  <2>1. Later
    BY <1>3, SameCommits DEF syncVars, forge, SyncInv, History
  <2>2. \A d \in Conn : OwnRun(d) => OwnRun(d)'
    BY <1>3 DEF OwnRun, OwnMove, Mine, Recorded, TreeOf, Past, syncVars, forge
  <2> QED
    BY <1>3, <2>1, <2>2, NoCommitKeeps DEF syncVars, forge
<1>4. SyncInv /\ ConnInv /\ [SyncNext]_syncVars => ConnInv' /\ [KeepsConn]_syncVars
  BY <1>2, <1>3
<1>5. [KeepsConn]_syncVars =>
         [\A h \in {<<base, base'>>, <<branch, branch'>>} :
             (h[1] # h[2] /\ 0 \notin {h[1], h[2]}) =>
                LET r == Recorded(commits[h[1]].tree)
                    n == Recorded(commits'[h[2]].tree)
                IN  (r # NoFile /\ n # NoFile) => r.conn = n.conn]_syncVars
  BY DEF KeepsConn, SameConn
<1> QED
  BY <1>1, <1>4, <1>5, SyncInvariant, PTL DEF SyncSpec, ConnectionKept

-----------------------------------------------------------------------------
(* sdk pr and sdk install: what both keep.                                  *)

SdkNext == Next \/ InstallNext

\* A tree whose version a release has set.
HasRelease(t) == t["meta"] \notin {NoFile, Version0}

\* What descends from a released version is one.
ReleasesStay ==
    \A c \in DOMAIN commits : \A d \in Past(c) :
       HasRelease(TreeOf(d)) => HasRelease(TreeOf(c))

\* The code of a tree may be replaced by the code of source commit n.
Replaceable(t, n) ==
    \/ t["code"] \in {NoFile, Source[n]}
    \/ t["ownership"] # NoFile /\ t["code"] = t["ownership"].code

RunFields == {"at", "n", "existing", "base", "head", "quiet"}

SoundRun(r) ==
    /\ DOMAIN r = RunFields
    /\ r.at # "idle" => r.n \in DOMAIN Source
    /\ r.at \in {"branch", "look", "fetch", "update"} => r.base \in DOMAIN commits
    /\ r.at \in {"push", "transfer", "update", "count", "open"} => r.head \in DOMAIN commits
    /\ r.at = "push" => Replaceable(TreeOf(r.head), r.n)

RunSound(j) == SoundRun(run[j])

SdkInv ==
    /\ History
    /\ {"code", "meta", "ownership"} \subseteq DOMAIN TreeOf(1)
    /\ ReleasesStay
    /\ run = [j \in Job |-> run[j]]
    /\ \A j \in Job : RunSound(j)

LEMMA SdkInit == Init => SdkInv
<1> SUFFICES ASSUME Init PROVE SdkInv
  OBVIOUS
<1>1. PICK t \in Start : ForgeInit(t)
  BY DEF Init
<1>2. History /\ TreeOf(1) = t /\ DOMAIN commits = {1}
  BY <1>1, FirstCommit
<1>3. {"code", "meta", "ownership"} \subseteq DOMAIN TreeOf(1)
  BY <1>2, VersionAssumption
<1>4. ReleasesStay
  <2>1. Past(1) \subseteq 1..1 /\ 1..1 = {1}
    BY <1>2 DEF History
  <2> QED
    BY <1>2, <2>1 DEF ReleasesStay
<1>5. run = [j \in Job |-> Idle]
  BY DEF Init
<1>6. \A j \in Job : RunSound(j)
  BY <1>5 DEF RunSound, SoundRun, RunFields, Idle
<1> QED
  BY <1>2, <1>3, <1>4, <1>5, <1>6 DEF SdkInv

\* A run that others disturb, or that waits, stays sound.
LEMMA OtherStaysSound ==
    ASSUME SdkInv, Later, NEW j \in Job,
           run'[j] \in {run[j], [run[j] EXCEPT !.quiet = FALSE]}
    PROVE  RunSound(j)'
<1> DEFINE r == run[j]
<1>1. SoundRun(r) /\ History
  BY DEF SdkInv, RunSound
<1>2. /\ run'[j].at = r.at /\ run'[j].n = r.n /\ run'[j].base = r.base /\ run'[j].head = r.head
      /\ DOMAIN run'[j] = RunFields
  BY <1>1 DEF SoundRun, RunFields
<1>3. \A c \in DOMAIN commits : c \in DOMAIN commits' /\ commits'[c].tree = TreeOf(c)
  BY <1>1, HeadsAgree DEF Later, TreeOf
<1> QED
  BY <1>1, <1>2, <1>3 DEF RunSound, SoundRun, Replaceable, TreeOf

\* A step of one run.
LEMMA SdkGoesOn ==
    ASSUME SdkInv, Later, ReleasesStay', NEW j \in Job, RunSound(j)',
           Goes(j, run'[j]) \/ Disturbing(j, run'[j])
    PROVE  SdkInv'
<1>1. run' = [i \in Job |-> run'[i]]
  BY DEF SdkInv, Goes, Disturbing
<1>2. ASSUME NEW i \in Job PROVE RunSound(i)'
  <2>1. CASE i # j
    BY <2>1, OtherStaysSound DEF Goes, Disturbing, SdkInv
  <2> QED
    BY <2>1
<1>3. History' /\ ({"code", "meta", "ownership"} \subseteq DOMAIN TreeOf(1))'
  BY HeadsAgree DEF SdkInv, Later
<1> QED
  BY <1>1, <1>2, <1>3 DEF SdkInv

LEMMA SameReleases ==
    ASSUME SdkInv, UNCHANGED commits
    PROVE  ReleasesStay'
BY DEF SdkInv, ReleasesStay, TreeOf, Past

\* A commit upon another keeps its release.
LEMMA ReleasesGrow ==
    ASSUME SdkInv, Later, DOMAIN commits' = DOMAIN commits \cup {Fresh},
           NEW parents \in SUBSET DOMAIN commits,
           commits'[Fresh].past = {Fresh} \cup UNION {Past(p) : p \in parents},
           \A p \in parents : \A d \in Past(p) :
              HasRelease(TreeOf(d)) => HasRelease(commits'[Fresh].tree)
    PROVE  ReleasesStay'
<1> SUFFICES ASSUME NEW c \in DOMAIN commits', NEW d \in commits'[c].past,
                    HasRelease(commits'[d].tree)
             PROVE  HasRelease(commits'[c].tree)
  BY DEF ReleasesStay, TreeOf, Past, HasRelease
<1>1. \A e \in DOMAIN commits : commits'[e].tree = TreeOf(e) /\ commits'[e].past = Past(e)
  BY HeadsAgree DEF SdkInv, TreeOf, Past, Later
<1>2. \A e \in DOMAIN commits : Past(e) \subseteq DOMAIN commits
  <2> SUFFICES ASSUME NEW e \in DOMAIN commits, NEW p \in Past(e) PROVE p \in DOMAIN commits
    OBVIOUS
  <2>1. p \in 1..e /\ e \in 1..Len(commits) /\ Len(commits) \in Nat
    BY Numbers DEF SdkInv, History
  <2> QED
    BY <2>1, Numbers DEF SdkInv
<1>3. CASE c \in DOMAIN commits
  BY <1>1, <1>2, <1>3 DEF SdkInv, ReleasesStay
<1>4. CASE c = Fresh /\ d # Fresh
  BY <1>1, <1>2, <1>4
<1>5. CASE c = Fresh /\ d = Fresh
  BY <1>5
<1> QED
  BY <1>3, <1>4, <1>5

\* A push puts a commit on top of the one it was made from.
LEMMA PushGrows ==
    ASSUME SdkInv, NEW head \in DOMAIN commits, NEW tree, NEW by,
           DOMAIN tree = DOMAIN TreeOf(1),
           HasRelease(TreeOf(head)) => HasRelease(tree),
           Commit(tree, {head}, by), branch' = Fresh, UNCHANGED <<base, pr>>
    PROVE  /\ Later /\ ReleasesStay'
           /\ Fresh \in DOMAIN commits' /\ Fresh # 0
           /\ commits'[Fresh].tree = tree /\ commits'[Fresh].by = by
           /\ commits'[Fresh].past = {Fresh} \cup Past(head)
<1>1. Fresh # 0 /\ History
  BY Numbers DEF SdkInv
<1>2. /\ Later /\ DOMAIN commits' = DOMAIN commits \cup {Fresh}
      /\ commits'[Fresh] = [tree |-> tree, by |-> by,
                            past |-> {Fresh} \cup UNION {Past(p) : p \in {head}}]
  BY <1>1, CommitGrows
<1>3. UNION {Past(p) : p \in {head}} = Past(head)
  OBVIOUS
<1>4. \A d \in Past(head) : HasRelease(TreeOf(d)) => HasRelease(tree)
  BY DEF SdkInv, ReleasesStay
<1>5. ReleasesStay'
  BY <1>2, <1>4, ReleasesGrow
<1> QED
  BY <1>1, <1>2, <1>3, <1>5

\* What a run pushes has the code of its source commit, and the version that
\* was there.
LEMMA GeneratedTree ==
    ASSUME SdkInv, NEW r, r.head \in DOMAIN commits
    PROVE  /\ DOMAIN Generated(r) = DOMAIN TreeOf(1)
           /\ Generated(r)["code"] = Source[r.n]
           /\ HasRelease(TreeOf(r.head)) => HasRelease(Generated(r))
<1>1. {"code", "meta", "ownership"} \subseteq DOMAIN TreeOf(r.head)
      /\ DOMAIN TreeOf(r.head) = DOMAIN TreeOf(1)
  BY DEF SdkInv, History
<1> QED
  BY <1>1 DEF Generated, HasRelease, Version

LEMMA InstalledTree ==
    ASSUME SdkInv, NEW r, r.head \in DOMAIN commits
    PROVE  /\ DOMAIN Installed(r) = DOMAIN TreeOf(1)
           /\ Installed(r)["code"] = Source[r.n]
           /\ HasRelease(TreeOf(r.head)) => HasRelease(Installed(r))
<1>1. {"code", "meta", "ownership"} \subseteq DOMAIN TreeOf(r.head)
      /\ DOMAIN TreeOf(r.head) = DOMAIN TreeOf(1)
  BY DEF SdkInv, History
<1> QED
  BY <1>1 DEF Installed, HasRelease, Manifest

LEMMA PushKeeps ==
    ASSUME SdkInv, NEW j \in Job, Push(j) \/ PushSetup(j)
    PROVE  /\ SdkInv' /\ Later /\ branch' = Fresh /\ UNCHANGED <<base, pr>>
           /\ Fresh \in DOMAIN commits' /\ commits'[Fresh].past = {Fresh} \cup Past(run[j].head)
           /\ commits'[Fresh].tree["code"] = Source[run[j].n]
<1> DEFINE r == run[j]
<1>1. RunSound(j) /\ r.at = "push" /\ r.head \in DOMAIN commits
  BY DEF SdkInv, RunSound, SoundRun, Push, PushSetup
<1>2. /\ \E tree \in {Generated(r), Installed(r)} : Commit(tree, {r.head}, j)
      /\ branch' = Fresh /\ UNCHANGED <<base, pr>>
      /\ \/ Disturbing(j, [r EXCEPT !.at = "offer"])
         \/ Disturbing(j, [r EXCEPT !.at = "count", !.head = Fresh])
  BY DEF Push, PushSetup
<1>3. PICK tree \in {Generated(r), Installed(r)} : Commit(tree, {r.head}, j)
  BY <1>2
<1>4. /\ DOMAIN tree = DOMAIN TreeOf(1) /\ tree["code"] = Source[r.n]
      /\ HasRelease(TreeOf(r.head)) => HasRelease(tree)
  BY <1>1, GeneratedTree, InstalledTree
<1>5. /\ Later /\ ReleasesStay' /\ Fresh \in DOMAIN commits'
      /\ commits'[Fresh].tree = tree /\ commits'[Fresh].past = {Fresh} \cup Past(r.head)
  BY <1>1, <1>2, <1>3, <1>4, PushGrows
<1>6. Disturbing(j, run'[j]) /\ RunSound(j)'
  <2>1. PICK x \in {[r EXCEPT !.at = "offer"], [r EXCEPT !.at = "count", !.head = Fresh]} :
           Disturbing(j, x)
    BY <1>2
  <2>2. run'[j] = x
    BY <2>1 DEF Disturbing
  <2>3. SoundRun(x)'
    BY <1>1, <1>5, <2>1 DEF RunSound, SoundRun, RunFields
  <2> QED
    BY <2>1, <2>2, <2>3 DEF RunSound, SoundRun
<1>7. SdkInv'
  BY <1>5, <1>6, SdkGoesOn
<1> QED
  BY <1>2, <1>4, <1>5, <1>7

\* Whatever else a run does leaves the commits and branches alone.
LEMMA WorkKeeps ==
    ASSUME SdkInv, NEW j \in Job, RunStep(j) \/ InstallStep(j), ~Push(j), ~PushSetup(j)
    PROVE  SdkInv' /\ Later /\ UNCHANGED <<commits, base, branch>>
<1> DEFINE r == run[j]
<1>1. RunSound(j) /\ run = [i \in Job |-> run[i]] /\ History
  BY DEF SdkInv
<1>2. UNCHANGED <<commits, base, branch>> /\ (pr' # Closed => branch' # 0)
  BY <1>1 DEF RunStep, InstallStep, ListPulls, Clone, Prepare, Transfer, Rejected, EditPull,
     CreatePull, Crash, CloneAll, LookForBranch, Fetch, Install, AlreadyInstalled, FindPull,
     OpenSetupPull, CanOpen, Ahead, forge, History
<1>3. Later /\ ReleasesStay'
  BY <1>1, <1>2, ForgeStays, SameReleases
<1>4. ASSUME NEW x, Goes(j, x) \/ Disturbing(j, x), SoundRun(x)
      PROVE  SdkInv'
  <2>1. run'[j] = x /\ (Goes(j, run'[j]) \/ Disturbing(j, run'[j]))
    BY <1>1, <1>4 DEF Goes, Disturbing
  <2>2. RunSound(j)'
    BY <1>2, <1>4, <2>1 DEF RunSound, SoundRun, Replaceable, TreeOf
  <2> QED
    BY <1>3, <2>1, <2>2, SdkGoesOn
<1>5. SoundRun(Idle)
  BY DEF SoundRun, RunFields, Idle
<1>6. SdkInv'
  <2> USE DEF RunSound, SoundRun, RunFields
  <2>1. ASSUME NEW n \in DOMAIN Source
        PROVE  /\ SoundRun([Idle EXCEPT !.at = "clone", !.n = n, !.existing = FoundPull,
                                        !.quiet = TRUE])
               /\ SoundRun([Idle EXCEPT !.at = "look", !.n = n, !.base = base, !.quiet = TRUE])
    BY <1>1 DEF Idle, History
  <2>2. CASE ListPulls(j) \/ CloneAll(j)
    <3> HIDE DEF SoundRun
    <3> QED
      BY <1>4, <2>1, <2>2 DEF ListPulls, CloneAll
  <2>3. CASE Clone(j)
    <3>1. SoundRun([r EXCEPT !.at = "branch", !.base = base])
      BY <1>1, <2>3 DEF Clone, History
    <3> QED
      BY <1>4, <2>3, <3>1 DEF Clone
  <2>4. CASE Prepare(j)
    <3> DEFINE h == IF r.existing THEN branch ELSE r.base
    <3>1. ~(r.existing /\ branch = 0) => h \in DOMAIN commits
      BY <1>1, <2>4 DEF Prepare, History
    <3>2. h \in DOMAIN commits => SoundRun([r EXCEPT !.at = "transfer", !.head = h])
      BY <1>1, <2>4 DEF Prepare
    <3> QED
      BY <1>4, <1>5, <2>4, <3>1, <3>2 DEF Prepare
  <2>5. CASE Transfer(j)
    <3>1. Transferable(r) => SoundRun([r EXCEPT !.at = "push"])
      BY <1>1, <2>5 DEF Transfer, Transferable, Replaceable
    <3> QED
      BY <1>4, <1>5, <2>5, <3>1 DEF Transfer
  <2>6. CASE LookForBranch(j)
    <3>1. /\ SoundRun([r EXCEPT !.at = "update", !.head = r.base])
          /\ SoundRun([r EXCEPT !.at = "fetch", !.existing = TRUE])
      BY <1>1, <2>6 DEF LookForBranch
    <3> QED
      BY <1>4, <2>6, <3>1 DEF LookForBranch
  <2>7. CASE Fetch(j)
    <3>1. branch # 0 => SoundRun([r EXCEPT !.at = "update", !.head = branch])
      BY <1>1, <2>7 DEF Fetch, History
    <3> QED
      BY <1>4, <1>5, <2>7, <3>1 DEF Fetch
  <2>8. CASE Install(j)
    <3>1. Installable(r) => /\ SoundRun([r EXCEPT !.at = "count"])
                            /\ SoundRun([r EXCEPT !.at = "push"])
      BY <1>1, <2>8 DEF Install, Installable, Replaceable
    <3> QED
      BY <1>4, <1>5, <2>8, <3>1 DEF Install
  <2>9. CASE FindPull(j)
    <3>1. SoundRun([r EXCEPT !.at = "open"])
      BY <1>1, <2>9 DEF FindPull
    <3> QED
      BY <1>4, <1>5, <2>9, <3>1 DEF FindPull
  <2>10. CASE Rejected(j) \/ EditPull(j) \/ CreatePull(j) \/ Crash(j)
              \/ AlreadyInstalled(j) \/ OpenSetupPull(j)
    BY <1>4, <1>5, <2>10 DEF Rejected, EditPull, CreatePull, Crash, AlreadyInstalled, OpenSetupPull
  <2> QED
    BY <2>2, <2>3, <2>4, <2>5, <2>6, <2>7, <2>8, <2>9, <2>10 DEF RunStep, InstallStep
<1> QED
  BY <1>2, <1>3, <1>6

LEMMA MergeBaseIsCommon ==
    ASSUME History, branch # 0
    PROVE  MergeBase \in Past(base) \cap Past(branch)
<1> DEFINE S == Past(base) \cap Past(branch)
<1>1. base \in DOMAIN commits /\ branch \in DOMAIN commits /\ base \in Nat
  BY Numbers DEF History
<1>2. 1 \in S /\ \A c \in S : c \in 0..base
  BY <1>1 DEF History
<1>3. PICK m \in S : \A c \in S : c <= m
  BY <1>1, <1>2, GreatestNumber
<1>4. m \in S /\ \A c \in S : m >= c
  BY <1>2, <1>3
<1> QED
  BY <1>4 DEF MergeBase, Max

\* Nobody takes a release back.
LEMMA PeopleKeepReleases ==
    ASSUME SdkInv, People
    PROVE  Later /\ ReleasesStay'
<1>1. History /\ Later
  BY PeopleCommit DEF SdkInv
<1>2. \A c \in DOMAIN commits : \A d \in Past(c) : HasRelease(TreeOf(d)) => HasRelease(TreeOf(c))
  BY DEF SdkInv, ReleasesStay
<1>3. CASE commits' = commits
  BY <1>1, <1>3, SameReleases
<1>4. ASSUME DOMAIN commits' = DOMAIN commits \cup {Fresh},
             NEW head \in {base, branch} \ {0}, NEW change \in Change,
             commits'[Fresh].tree = Edited(TreeOf(head), change),
             commits'[Fresh].past = {Fresh} \cup Past(head)
      PROVE  ReleasesStay'
  <2>1. head \in DOMAIN commits /\ "meta" \in DOMAIN TreeOf(head)
    BY DEF SdkInv, History
  <2>2. HasRelease(TreeOf(head)) => HasRelease(commits'[Fresh].tree)
    BY <1>4, <2>1, VersionAssumption DEF HasRelease, Edited
  <2>3. commits'[Fresh].past = {Fresh} \cup UNION {Past(p) : p \in {head}}
    BY <1>4
  <2>4. \A p \in {head} : \A d \in Past(p) :
           HasRelease(TreeOf(d)) => HasRelease(commits'[Fresh].tree)
    BY <1>2, <2>1, <2>2
  <2>5. {head} \in SUBSET DOMAIN commits
    BY <2>1
  <2> QED
    BY <1>1, <1>4, <2>3, <2>4, <2>5, ReleasesGrow
<1>5. ASSUME DOMAIN commits' = DOMAIN commits \cup {Fresh}, branch # 0,
             NEW parents \in {{base}, {base, branch}},
             commits'[Fresh].past = {Fresh} \cup UNION {Past(p) : p \in parents},
             \A f \in DOMAIN TreeOf(base) :
                commits'[Fresh].tree[f] \in
                   Merged(TreeOf(MergeBase)[f], TreeOf(base)[f], TreeOf(branch)[f])
      PROVE  ReleasesStay'
  <2>1. /\ base \in DOMAIN commits /\ branch \in DOMAIN commits
        /\ "meta" \in DOMAIN TreeOf(base)
    BY <1>5 DEF SdkInv, History
  <2>2. MergeBase \in Past(base) /\ MergeBase \in Past(branch)
    BY <1>1, <1>5, MergeBaseIsCommon
  <2>3. HasRelease(TreeOf(MergeBase)) =>
           HasRelease(TreeOf(base)) /\ HasRelease(TreeOf(branch))
    BY <1>2, <2>1, <2>2
  <2>4. commits'[Fresh].tree["meta"] \in
           Merged(TreeOf(MergeBase)["meta"], TreeOf(base)["meta"], TreeOf(branch)["meta"])
    BY <1>5, <2>1
  <2>5. HasRelease(TreeOf(base)) \/ HasRelease(TreeOf(branch)) =>
           HasRelease(commits'[Fresh].tree)
    BY <2>3, <2>4 DEF HasRelease, Merged
  <2>6. \A p \in parents : \A d \in Past(p) :
           HasRelease(TreeOf(d)) => HasRelease(commits'[Fresh].tree)
    BY <1>2, <1>5, <2>1, <2>5
  <2>7. parents \in SUBSET DOMAIN commits
    BY <1>5, <2>1
  <2> QED
    BY <1>1, <1>5, <2>6, <2>7, ReleasesGrow
<1>6. ASSUME NEW past, past \in {{Fresh} \cup Past(base), {Fresh} \cup Past(base) \cup Past(branch)}
      PROVE  \E parents \in {{base}, {base, branch}} :
                past = {Fresh} \cup UNION {Past(p) : p \in parents}
  <2>1. /\ UNION {Past(p) : p \in {base}} = Past(base)
        /\ UNION {Past(p) : p \in {base, branch}} = Past(base) \cup Past(branch)
    OBVIOUS
  <2> QED
    BY <1>6, <2>1
<1> QED
  BY <1>1, <1>3, <1>4, <1>5, <1>6, PeopleCommit

LEMMA SdkPeopleKeep ==
    ASSUME SdkInv, PeopleStep
    PROVE  SdkInv'
<1>1. Later /\ ReleasesStay' /\ History
  BY PeopleKeepReleases DEF PeopleStep, SdkInv
<1>2. run' = [j \in Job |-> run'[j]]
  BY DEF PeopleStep
<1>3. \A j \in Job : RunSound(j)'
  BY <1>1, OtherStaysSound DEF PeopleStep
<1>4. ({"code", "meta", "ownership"} \subseteq DOMAIN TreeOf(1))'
  BY <1>1, HeadsAgree DEF SdkInv, Later
<1> QED
  BY <1>1, <1>2, <1>3, <1>4 DEF SdkInv, Later

LEMMA SdkStays ==
    ASSUME SdkInv, UNCHANGED vars
    PROVE  SdkInv'
<1>1. Later /\ ReleasesStay' /\ History
  BY ForgeStays, SameReleases DEF SdkInv, History, vars, forge
<1>2. \A j \in Job : RunSound(j)'
  BY <1>1, OtherStaysSound DEF vars
<1>3. ({"code", "meta", "ownership"} \subseteq DOMAIN TreeOf(1))'
  BY <1>1, HeadsAgree DEF SdkInv, Later
<1>4. run' = [j \in Job |-> run'[j]]
  BY DEF SdkInv, vars
<1> QED
  BY <1>1, <1>2, <1>3, <1>4 DEF SdkInv, Later

LEMMA SdkStepKeeps == SdkInv /\ [SdkNext]_vars => SdkInv'
BY PushKeeps, WorkKeeps, SdkPeopleKeep, SdkStays
   DEF SdkNext, Next, InstallNext, RunStep, InstallStep

\* What both commands keep, with any number of runs, crashes and commits.
THEOREM SdkInvariant == (Spec => []SdkInv) /\ (InstallSpec => []SdkInv)
<1>1. [Next]_vars => [SdkNext]_vars
  BY DEF SdkNext
<1>2. [InstallNext]_vars => [SdkNext]_vars
  BY DEF SdkNext
<1> QED
  BY <1>1, <1>2, SdkInit, SdkStepKeeps, PTL DEF Spec, InstallSpec

LEMMA BaseDescends ==
    ASSUME SdkInv, SdkNext
    PROVE  SdkInv' /\ base' \in DOMAIN commits' /\ base \in commits'[base'].past
           /\ commits'[base].tree = TreeOf(base)
<1>1. History /\ base \in DOMAIN commits /\ base \in Past(base)
  BY DEF SdkInv, History
<1>2. SdkInv'
  BY SdkStepKeeps
<1>3. ASSUME NEW j \in Job, RunStep(j) \/ InstallStep(j)
      PROVE  Later /\ base' = base
  <2>1. CASE Push(j) \/ PushSetup(j)
    BY <2>1, PushKeeps
  <2>2. CASE ~Push(j) /\ ~PushSetup(j)
    BY <1>3, <2>2, WorkKeeps
  <2> QED
    BY <2>1, <2>2
<1>4. ASSUME People
      PROVE  Later /\ (base' = base \/ (base' = Fresh /\ base \in commits'[Fresh].past))
  BY <1>1, <1>4, PeopleCommit
<1>5. Later /\ (base' = base \/ (base' = Fresh /\ base \in commits'[Fresh].past))
  BY <1>3, <1>4 DEF SdkNext, Next, InstallNext, PeopleStep
<1> QED
  BY <1>1, <1>2, <1>5 DEF Later, TreeOf, Past, SdkInv, History

\* A step never takes the base branch back to a version before the released one.
LEMMA ReleaseKept ==
    ASSUME SdkInv, SdkNext, TreeOf(base)["meta"] \notin {NoFile, Version0}
    PROVE  commits'[base'].tree["meta"] # Version0
<1>1. /\ SdkInv' /\ base' \in DOMAIN commits' /\ base \in commits'[base'].past
      /\ commits'[base].tree = TreeOf(base)
  BY BaseDescends
<1> QED
  BY <1>1 DEF SdkInv, ReleasesStay, HasRelease, TreeOf, Past

\* With either command the base branch never goes back to a version before the
\* released one, also when a pull request made before the release is merged after it.
THEOREM ReleasesAreKept == (Spec => ReleasedVersionKept) /\ (InstallSpec => ReleasedVersionKept)
<1> DEFINE Kept == TreeOf(base)["meta"] \notin {NoFile, Version0} =>
                      commits'[base'].tree["meta"] # Version0
<1>1. SdkInv /\ [SdkNext]_vars => [Kept]_vars
  BY ReleaseKept
<1>2. ([Next]_vars => [SdkNext]_vars) /\ ([InstallNext]_vars => [SdkNext]_vars)
  BY DEF SdkNext
<1> QED
  BY <1>1, <1>2, SdkInvariant, PTL DEF Spec, InstallSpec, ReleasedVersionKept

\* The newest commit of a past is the one whose past it is.
LEMMA HeadIsNewest ==
    ASSUME History, NEW head \in DOMAIN commits
    PROVE  Max(({Fresh} \cup Past(head)) \ {Fresh}) = head
<1> DEFINE S == ({Fresh} \cup Past(head)) \ {Fresh}
<1>1. head \in Nat /\ Past(head) \subseteq 1..head /\ head \in Past(head) /\ head < Fresh /\ Fresh \in Nat
  BY Numbers DEF History
<1>2. S = Past(head)
  BY <1>1
<1>3. /\ head \in S /\ \A y \in S : head >= y
      /\ \A x \in S : (\A y \in S : x >= y) => x = head
  BY <1>1, <1>2
<1>4. Max(S) = head
  <2> HIDE DEF S
  <2>1. Max(S) \in S /\ \A y \in S : Max(S) >= y
    BY <1>3 DEF Max
  <2> QED
    BY <1>3, <2>1
<1> QED
  BY <1>4

\* A push by either command keeps what is on the branch, and what people edited.
LEMMA PushKeepsEdits ==
    ASSUME SdkInv, SdkNext, Pushed
    PROVE  LET c == commits'[branch']
               t == TreeOf(Max(c.past \ {branch'}))
           IN  /\ branch # 0 => branch \in c.past
               /\ t["code"] \notin {NoFile, c.tree["code"]} =>
                     t["ownership"] # NoFile /\ t["code"] = t["ownership"].code
<1>1. ~People
  <2> SUFFICES ASSUME People PROVE FALSE
    OBVIOUS
  <2>1. History /\ Later
    BY PeopleCommit DEF SdkInv
  <2>2. branch' = Fresh /\ Fresh \in DOMAIN commits' /\ Fresh \notin DOMAIN commits
    BY <2>1, Numbers DEF Later, History, Pushed
  <2>3. commits'[Fresh].by = Author
    BY <2>1, <2>2, PeopleCommit
  <2> QED
    BY <2>2, <2>3, SdkAssumption DEF Pushed
<1>2. PICK j \in Job : RunStep(j) \/ InstallStep(j)
  BY <1>1 DEF SdkNext, Next, InstallNext, PeopleStep
<1>3. Push(j) \/ PushSetup(j)
  BY <1>2, WorkKeeps DEF Pushed
<1>4. /\ branch' = Fresh /\ commits'[Fresh].past = {Fresh} \cup Past(run[j].head)
      /\ commits'[Fresh].tree["code"] = Source[run[j].n]
  BY <1>3, PushKeeps
<1>5. /\ run[j].head \in DOMAIN commits /\ Replaceable(TreeOf(run[j].head), run[j].n)
      /\ branch # 0 => branch \in Past(run[j].head)
  BY <1>3 DEF SdkInv, RunSound, SoundRun, Push, PushSetup, Pushable, FastForward
<1>6. Max(commits'[branch'].past \ {branch'}) = run[j].head
  BY <1>4, <1>5, HeadIsNewest DEF SdkInv
<1> QED
  BY <1>4, <1>5, <1>6 DEF Replaceable

\* No push of either command drops a commit of the review branch or replaces
\* code that somebody edited, on the branch or on the base it was made from.
THEOREM EditsAreKept == (Spec => EditsSurvive) /\ (InstallSpec => EditsSurvive)
<1> DEFINE Kept ==
       Pushed =>
          LET c == commits'[branch']
              t == TreeOf(Max(c.past \ {branch'}))
          IN  /\ branch # 0 => branch \in c.past
              /\ t["code"] \notin {NoFile, c.tree["code"]} =>
                    t["ownership"] # NoFile /\ t["code"] = t["ownership"].code
<1>1. SdkInv /\ [SdkNext]_vars => [Kept]_vars
  BY PushKeepsEdits
<1>2. ([Next]_vars => [SdkNext]_vars) /\ ([InstallNext]_vars => [SdkNext]_vars)
  BY DEF SdkNext
<1> QED
  BY <1>1, <1>2, SdkInvariant, PTL DEF Spec, InstallSpec, EditsSurvive

-----------------------------------------------------------------------------
(* What an undisturbed run offers.                                          *)

\* A sdk pr run that nobody disturbed works on the heads as they are.
QuietPr(r) ==
    r.quiet =>
       /\ r.at # "idle" => r.existing = (pr # Closed)
       /\ r.at = "branch" => r.base = base
       /\ r.at \in {"transfer", "push"} => r.head = IF r.existing THEN branch ELSE base
       /\ r.at = "offer" => branch # 0 /\ TreeOf(branch)["code"] = Source[r.n]

PrInv == SdkInv /\ ReviewOffered /\ \A j \in Job : QuietPr(run[j])

\* So does a run of sdk install; a branch that it did not find has its own commit.
QuietInstall(r) ==
    r.quiet =>
       /\ r.base = base
       /\ r.at = "look" => ~r.existing
       /\ r.at = "fetch" => branch # 0 /\ r.existing
       /\ r.at \in {"update", "push"} => r.head = Tip /\ (branch # 0 => r.existing)
       /\ r.at \in {"count", "open"} =>
             /\ r.head = Tip /\ TreeOf(r.head)["code"] = Source[r.n]
             /\ branch # 0 /\ ~r.existing => branch \notin Past(r.base)

InstallInv == SdkInv /\ ReviewOffered /\ \A j \in Job : QuietInstall(run[j])

\* A step of one run leaves the promises of the others.
LEMMA QuietGoesOn ==
    ASSUME SdkInv, NEW j \in Job, NEW x,
           (Goes(j, x) /\ UNCHANGED forge) \/ Disturbing(j, x)
    PROVE  /\ (\A i \in Job : QuietPr(run[i])) /\ QuietPr(x)' => (\A i \in Job : QuietPr(run[i]))'
           /\ (\A i \in Job : QuietInstall(run[i])) /\ QuietInstall(x)'
                 => (\A i \in Job : QuietInstall(run[i]))'
<1>1. ASSUME NEW i \in Job
      PROVE  /\ QuietPr(run[i]) /\ QuietPr(x)' => QuietPr(run[i])'
             /\ QuietInstall(run[i]) /\ QuietInstall(x)' => QuietInstall(run[i])'
  <2>1. DOMAIN run[i] = RunFields /\ run = [k \in Job |-> run[k]]
    BY DEF SdkInv, RunSound, SoundRun
  <2>2. CASE i = j
    <3>1. run'[i] = x
      BY <2>1, <2>2 DEF Goes, Disturbing
    <3> QED
      BY <3>1 DEF QuietPr, QuietInstall
  <2>3. CASE i # j /\ Disturbing(j, x)
    <3>1. run'[i] = [run[i] EXCEPT !.quiet = FALSE]
      BY <2>3 DEF Disturbing
    <3>2. run'[i].quiet = FALSE
      BY <2>1, <3>1 DEF RunFields
    <3> QED
      BY <3>2 DEF QuietPr, QuietInstall
  <2>4. CASE i # j /\ Goes(j, x) /\ UNCHANGED forge
    <3>1. run'[i] = run[i]
      BY <2>1, <2>4 DEF Goes
    <3> QED
      BY <2>4, <3>1 DEF QuietPr, QuietInstall, forge, TreeOf, Tip, Past
  <2> QED
    BY <2>2, <2>3, <2>4
<1> QED
  BY <1>1

LEMMA PrInit == Init => PrInv
<1>1. Init => ReviewOffered /\ \A j \in Job : QuietPr(run[j])
  BY DEF Init, ReviewOffered, QuietPr, Idle
<1> QED
  BY <1>1, SdkInit DEF PrInv

LEMMA PrStepKeeps ==
    ASSUME PrInv, NEW j \in Job, RunStep(j)
    PROVE  PrInv'
<1> DEFINE r == run[j]
<1>1. /\ SdkInv /\ SoundRun(r) /\ History /\ QuietPr(r) /\ ReviewOffered
      /\ DOMAIN r = RunFields /\ \A i \in Job : QuietPr(run[i])
  BY DEF PrInv, SdkInv, RunSound, SoundRun
<1>2. SdkInv'
  BY <1>1, SdkStepKeeps DEF SdkNext, Next
<1>3. ASSUME NEW x, (Goes(j, x) /\ UNCHANGED forge) \/ Disturbing(j, x), QuietPr(x)',
             ReviewOffered'
      PROVE  PrInv'
  BY <1>1, <1>2, <1>3, QuietGoesOn DEF PrInv
<1>4. ASSUME UNCHANGED <<forge, settled>> PROVE ReviewOffered'
  BY <1>1, <1>4 DEF ReviewOffered, TreeOf, forge
<1>5. QuietPr(Idle)'
  BY DEF QuietPr, Idle
<1>6. CASE ListPulls(j)
  <2>1. PICK n \in DOMAIN Source :
           Goes(j, [Idle EXCEPT !.at = "clone", !.n = n, !.existing = FoundPull, !.quiet = TRUE])
           /\ UNCHANGED <<forge, settled>>
    BY <1>6 DEF ListPulls
  <2>0. PICK x : x = [Idle EXCEPT !.at = "clone", !.n = n, !.existing = FoundPull, !.quiet = TRUE]
    OBVIOUS
  <2>2. x.at = "clone" /\ x.existing = (pr # Closed)
    BY <2>0 DEF Idle, FoundPull
  <2>3. QuietPr(x)'
    BY <2>1, <2>2 DEF QuietPr, forge
  <2> QED
    BY <1>3, <1>4, <2>0, <2>1, <2>3
<1>7. CASE Clone(j)
  <2>0. PICK x : x = [r EXCEPT !.at = "branch", !.base = base]
    OBVIOUS
  <2>1. x.at = "branch" /\ x.base = base /\ x.existing = r.existing /\ x.quiet = r.quiet
    BY <1>1, <2>0 DEF RunFields
  <2>2. Goes(j, x) /\ UNCHANGED <<forge, settled>> /\ r.at = "clone"
    BY <1>7, <2>0 DEF Clone
  <2>3. QuietPr(x)'
    BY <1>1, <2>1, <2>2 DEF QuietPr, forge
  <2> QED
    BY <1>3, <1>4, <2>2, <2>3
<1>8. CASE Prepare(j)
  <2> DEFINE h == IF r.existing THEN branch ELSE r.base
  <2>0. PICK x : x = [r EXCEPT !.at = "transfer", !.head = h]
    OBVIOUS
  <2>1. x.at = "transfer" /\ x.head = h /\ x.existing = r.existing /\ x.quiet = r.quiet
    BY <1>1, <2>0 DEF RunFields
  <2>2. (Goes(j, Idle) \/ Goes(j, x)) /\ UNCHANGED <<forge, settled>> /\ r.at = "branch"
    BY <1>8, <2>0 DEF Prepare
  <2>3. QuietPr(x)'
    BY <1>1, <2>1, <2>2 DEF QuietPr, forge
  <2> QED
    BY <1>3, <1>4, <1>5, <2>2, <2>3
<1>9. CASE Transfer(j)
  <2>0. PICK x : x = [r EXCEPT !.at = "push"]
    OBVIOUS
  <2>1. x.at = "push" /\ x.head = r.head /\ x.existing = r.existing /\ x.quiet = r.quiet
    BY <1>1, <2>0 DEF RunFields
  <2>2. UNCHANGED forge /\ r.at = "transfer" /\ r.head \in DOMAIN commits
    BY <1>1, <1>9 DEF Transfer, SoundRun
  <2>3. CASE Goes(j, x) /\ UNCHANGED settled
    <3>1. QuietPr(x)'
      BY <1>1, <2>1, <2>2 DEF QuietPr, forge
    <3> QED
      BY <1>3, <1>4, <2>2, <2>3, <3>1
  <2>4. CASE Goes(j, Idle) /\ UNCHANGED settled
    BY <1>3, <1>4, <1>5, <2>2, <2>4
  <2>5. CASE Goes(j, Idle) /\ Generated(r) = TreeOf(r.head) /\ Complete(j)
    <3>1. TreeOf(r.head)["code"] = Source[r.n]
      BY <1>1, <2>2, <2>5, GeneratedTree
    <3>2. r.quiet => r.head = IF pr = Closed THEN base ELSE branch
      BY <1>1, <2>2 DEF QuietPr
    <3>3. ReviewOffered'
      BY <2>2, <2>5, <3>1, <3>2 DEF ReviewOffered, Complete, TreeOf, forge
    <3> QED
      BY <1>3, <1>5, <2>2, <2>5, <3>3
  <2> QED
    BY <1>9, <2>0, <2>3, <2>4, <2>5 DEF Transfer
<1>10. CASE Push(j)
  <2>0. PICK x : x = [r EXCEPT !.at = "offer"]
    OBVIOUS
  <2>1. x.at = "offer" /\ x.n = r.n /\ x.existing = r.existing /\ x.quiet = r.quiet
    BY <1>1, <2>0 DEF RunFields
  <2>2. Disturbing(j, x) /\ settled' = 0 /\ r.at = "push"
    BY <1>10, <2>0 DEF Push
  <2>3. /\ branch' = Fresh /\ UNCHANGED <<base, pr>> /\ Fresh # 0
        /\ commits'[Fresh].tree["code"] = Source[r.n]
    BY <1>1, <1>10, PushKeeps, Numbers
  <2>4. QuietPr(x)'
    BY <1>1, <2>1, <2>2, <2>3 DEF QuietPr, TreeOf
  <2>5. ReviewOffered'
    BY <2>2 DEF ReviewOffered
  <2> QED
    BY <1>3, <2>2, <2>4, <2>5
<1>11. CASE Rejected(j) \/ Crash(j)
  BY <1>3, <1>4, <1>5, <1>11 DEF Rejected, Crash
<1>12. CASE EditPull(j)
  <2>1. r.quiet => pr # Closed /\ TreeOf(branch)["code"] = Source[r.n]
    BY <1>1, <1>12 DEF EditPull, QuietPr
  <2>2. UNCHANGED forge /\ Complete(j) /\ Goes(j, Idle)
    BY <1>12 DEF EditPull
  <2>3. ReviewOffered'
    BY <2>1, <2>2 DEF ReviewOffered, Complete, TreeOf, forge
  <2> QED
    BY <1>3, <1>5, <2>2, <2>3
<1>13. CASE CreatePull(j)
  <2>1. r.quiet => TreeOf(branch)["code"] = Source[r.n]
    BY <1>1, <1>13 DEF CreatePull, QuietPr
  <2>2. UNCHANGED <<commits, base, branch>>
    BY <1>13 DEF CreatePull
  <2>3. CASE CanOpen /\ pr' = "open" /\ Disturbing(j, Idle) /\ Complete(j)
    <3>1. ReviewOffered'
      BY <2>1, <2>2, <2>3, SdkAssumption DEF ReviewOffered, Complete, TreeOf
    <3> QED
      BY <1>3, <1>5, <2>3, <3>1
  <2>4. CASE Goes(j, Idle) /\ UNCHANGED <<pr, settled>>
    BY <1>3, <1>4, <1>5, <2>2, <2>4 DEF forge
  <2> QED
    BY <1>13, <2>3, <2>4 DEF CreatePull
<1> QED
  BY <1>6, <1>7, <1>8, <1>9, <1>10, <1>11, <1>12, <1>13 DEF RunStep

\* People disturb every run, and nothing is promised of what came before.
LEMMA PeopleDisturb ==
    ASSUME SdkInv, PeopleStep
    PROVE  ReviewOffered' /\ (\A j \in Job : QuietPr(run[j]))' /\ (\A j \in Job : QuietInstall(run[j]))'
<1>1. ASSUME NEW j \in Job PROVE run'[j].quiet = FALSE
  BY DEF SdkInv, RunSound, SoundRun, RunFields, PeopleStep
<1> QED
  BY <1>1 DEF PeopleStep, ReviewOffered, QuietPr, QuietInstall

LEMMA AllStays ==
    ASSUME UNCHANGED vars
    PROVE  /\ PrInv => PrInv'
           /\ InstallInv => InstallInv'
<1>1. SdkInv => SdkInv'
  BY SdkStays
<1>2. ReviewOffered => ReviewOffered'
  BY DEF vars, forge, ReviewOffered, TreeOf
<1>3. /\ (\A j \in Job : QuietPr(run[j])) => (\A j \in Job : QuietPr(run[j]))'
      /\ (\A j \in Job : QuietInstall(run[j])) => (\A j \in Job : QuietInstall(run[j]))'
  BY DEF vars, forge, QuietPr, QuietInstall, TreeOf, Tip, Past
<1> QED
  BY <1>1, <1>2, <1>3 DEF PrInv, InstallInv

\* What a run of sdk pr, undisturbed since it cloned, knows of the repository.
THEOREM PrInvariant == Spec => []PrInv
<1>1. PrInv /\ PeopleStep => PrInv'
  BY SdkPeopleKeep, PeopleDisturb DEF PrInv
<1>2. PrInv /\ [Next]_vars => PrInv'
  BY <1>1, PrStepKeeps, AllStays DEF Next
<1> QED
  BY <1>2, PrInit, PTL DEF Spec

LEMMA InstallInit == Init => InstallInv
<1>1. Init => ReviewOffered /\ \A j \in Job : QuietInstall(run[j])
  BY DEF Init, ReviewOffered, QuietInstall, Idle
<1> QED
  BY <1>1, SdkInit DEF InstallInv

LEMMA InstallStepKeeps ==
    ASSUME InstallInv, NEW j \in Job, InstallStep(j)
    PROVE  InstallInv'
<1> DEFINE r == run[j]
<1>1. /\ SdkInv /\ SoundRun(r) /\ History /\ QuietInstall(r) /\ ReviewOffered
      /\ DOMAIN r = RunFields /\ \A i \in Job : QuietInstall(run[i])
  BY DEF InstallInv, SdkInv, RunSound, SoundRun
<1>2. SdkInv'
  BY <1>1, SdkStepKeeps DEF SdkNext, InstallNext
<1>3. ASSUME NEW x, (Goes(j, x) /\ UNCHANGED forge) \/ Disturbing(j, x), QuietInstall(x)',
             ReviewOffered'
      PROVE  InstallInv'
  BY <1>1, <1>2, <1>3, QuietGoesOn DEF InstallInv
<1>4. ASSUME UNCHANGED <<forge, settled>> PROVE ReviewOffered'
  BY <1>1, <1>4 DEF ReviewOffered, TreeOf, forge
<1>5. QuietInstall(Idle)'
  BY DEF QuietInstall, Idle
\* A run that goes on without touching the repository.
<1>6. ASSUME NEW x, Goes(j, x), UNCHANGED <<forge, settled>>, QuietInstall(x)
      PROVE  InstallInv'
  <2>1. QuietInstall(x)'
    BY <1>6 DEF QuietInstall, forge, Tip, TreeOf, Past
  <2> QED
    BY <1>3, <1>4, <1>6, <2>1
<1>7. QuietInstall(Idle)
  BY DEF QuietInstall, Idle
<1>8. CASE CloneAll(j)
  <2>1. PICK n \in DOMAIN Source :
           Goes(j, [Idle EXCEPT !.at = "look", !.n = n, !.base = base, !.quiet = TRUE])
           /\ UNCHANGED <<forge, settled>>
    BY <1>8 DEF CloneAll
  <2>2. QuietInstall([Idle EXCEPT !.at = "look", !.n = n, !.base = base, !.quiet = TRUE])
    BY DEF Idle, QuietInstall
  <2> QED
    BY <1>6, <2>1, <2>2
<1>9. CASE LookForBranch(j)
  <2>1. branch = 0 => QuietInstall([r EXCEPT !.at = "update", !.head = r.base])
    BY <1>1, <1>9 DEF LookForBranch, QuietInstall, RunFields, Tip
  <2>2. branch # 0 => QuietInstall([r EXCEPT !.at = "fetch", !.existing = TRUE])
    BY <1>1, <1>9 DEF LookForBranch, QuietInstall, RunFields
  <2> QED
    BY <1>6, <1>9, <2>1, <2>2 DEF LookForBranch
<1>10. CASE Fetch(j)
  <2>1. branch # 0 => QuietInstall([r EXCEPT !.at = "update", !.head = branch])
    BY <1>1, <1>10 DEF Fetch, QuietInstall, RunFields, Tip
  <2> QED
    BY <1>6, <1>7, <1>10, <2>1 DEF Fetch
<1>11. CASE Install(j)
  <2>1. r.at = "update" /\ r.head \in DOMAIN commits /\ UNCHANGED <<forge, settled>>
    BY <1>1, <1>11 DEF Install, SoundRun
  <2>2. QuietInstall([r EXCEPT !.at = "push"])
    BY <1>1, <2>1 DEF QuietInstall, RunFields
  <2>3. ASSUME Installed(r) = TreeOf(r.head) PROVE QuietInstall([r EXCEPT !.at = "count"])
    <3>1. TreeOf(r.head)["code"] = Source[r.n]
      BY <1>1, <2>1, <2>3, InstalledTree
    <3> QED
      BY <1>1, <2>1, <3>1 DEF QuietInstall, RunFields
  <2> QED
    BY <1>6, <1>7, <1>11, <2>1, <2>2, <2>3 DEF Install
<1>12. CASE PushSetup(j)
  <2>1. PICK x : x = [r EXCEPT !.at = "count", !.head = Fresh]
    OBVIOUS
  <2>2. /\ x.at = "count" /\ x.head = Fresh /\ x.n = r.n /\ x.quiet = r.quiet
        /\ x.base = r.base /\ x.existing = r.existing
    BY <1>1, <2>1 DEF RunFields
  <2>3. Disturbing(j, x) /\ settled' = 0
    BY <1>12, <2>1 DEF PushSetup
  <2>4. /\ branch' = Fresh /\ UNCHANGED <<base, pr>> /\ Later
        /\ commits'[Fresh].tree["code"] = Source[r.n]
    BY <1>1, <1>12, PushKeeps
  <2>5. Fresh # 0 /\ Fresh \notin Past(base)' /\ Tip' = Fresh
    <3>1. Past(base)' = Past(base) /\ base \in DOMAIN commits
      BY <1>1, <2>4, HeadsAgree DEF History, Past
    <3>2. Past(base) \subseteq 1..base /\ base \in Nat /\ base < Fresh /\ Fresh \in Nat
      BY <1>1, <3>1, Numbers DEF History
    <3> QED
      BY <1>1, <2>4, <3>1, <3>2, Numbers DEF Tip
  <2>6. QuietInstall(x)'
    BY <1>1, <2>2, <2>4, <2>5 DEF QuietInstall, TreeOf, Past
  <2>7. ReviewOffered'
    BY <2>3 DEF ReviewOffered
  <2> QED
    BY <1>3, <2>3, <2>6, <2>7
<1>13. CASE AlreadyInstalled(j)
  <2>1. UNCHANGED forge /\ Goes(j, Idle) /\ r.head \in Past(r.base) /\ r.at = "count"
    BY <1>13 DEF AlreadyInstalled, NothingToOffer
  <2>2. CASE UNCHANGED settled
    BY <1>6, <1>7, <2>1, <2>2
  <2>3. CASE ~r.existing /\ Complete(j)
    <3>1. r.quiet => branch = 0 /\ pr = Closed /\ TreeOf(base)["code"] = Source[r.n]
      BY <1>1, <2>1, <2>3 DEF QuietInstall, Tip, History
    <3>2. ReviewOffered'
      BY <2>1, <2>3, <3>1 DEF ReviewOffered, Complete, TreeOf, forge
    <3> QED
      BY <1>3, <1>5, <2>1, <3>2
  <2> QED
    BY <1>13, <2>2, <2>3 DEF AlreadyInstalled
<1>14. CASE FindPull(j)
  <2>1. UNCHANGED forge /\ r.at = "count"
    BY <1>14 DEF FindPull
  <2>2. CASE FoundPull /\ Goes(j, Idle) /\ Complete(j)
    <3>1. r.quiet => TreeOf(branch)["code"] = Source[r.n]
      BY <1>1, <2>1, <2>2 DEF QuietInstall, Tip, History, FoundPull
    <3>2. ReviewOffered'
      BY <2>1, <2>2, <3>1 DEF ReviewOffered, Complete, TreeOf, forge, FoundPull
    <3> QED
      BY <1>3, <1>5, <2>1, <2>2, <3>2
  <2>3. CASE Goes(j, [r EXCEPT !.at = "open"]) /\ UNCHANGED settled
    <3>1. QuietInstall([r EXCEPT !.at = "open"])
      BY <1>1, <2>1 DEF QuietInstall, RunFields
    <3> QED
      BY <1>6, <2>1, <2>3, <3>1
  <2> QED
    BY <1>14, <2>2, <2>3 DEF FindPull
<1>15. CASE OpenSetupPull(j)
  <2>1. UNCHANGED <<commits, base, branch>> /\ r.at = "open"
    BY <1>15 DEF OpenSetupPull
  <2>2. CASE CanOpen /\ pr' = "open" /\ Disturbing(j, Idle) /\ Complete(j)
    <3>1. r.quiet => TreeOf(branch)["code"] = Source[r.n]
      BY <1>1, <2>1, <2>2 DEF QuietInstall, Tip, CanOpen, Ahead
    <3>2. ReviewOffered'
      BY <2>1, <2>2, <3>1, SdkAssumption DEF ReviewOffered, Complete, TreeOf
    <3> QED
      BY <1>3, <1>5, <2>2, <3>2
  <2>3. CASE Goes(j, Idle) /\ UNCHANGED <<pr, settled>>
    BY <1>6, <1>7, <2>1, <2>3 DEF forge
  <2> QED
    BY <1>15, <2>2, <2>3 DEF OpenSetupPull
<1>16. CASE Rejected(j) \/ Crash(j)
  BY <1>6, <1>7, <1>16 DEF Rejected, Crash
<1> QED
  BY <1>8, <1>9, <1>10, <1>11, <1>12, <1>13, <1>14, <1>15, <1>16 DEF InstallStep

\* The same of a run of sdk install, which may build upon a leftover branch.
THEOREM InstallInvariant == InstallSpec => []InstallInv
<1>1. InstallInv /\ PeopleStep => InstallInv'
  BY SdkPeopleKeep, PeopleDisturb DEF InstallInv
<1>2. InstallInv /\ [InstallNext]_vars => InstallInv'
  BY <1>1, InstallStepKeeps, AllStays DEF InstallNext
<1> QED
  BY <1>2, InstallInit, PTL DEF InstallSpec

\* What an undisturbed run of either command generated or installed is under
\* review, or merged, when it has completed.
THEOREM ReviewIsOffered == (Spec => []ReviewOffered) /\ (InstallSpec => []ReviewOffered)
<1>1. (PrInv => ReviewOffered) /\ (InstallInv => ReviewOffered)
  BY DEF PrInv, InstallInv
<1> QED
  BY <1>1, PrInvariant, InstallInvariant, PTL
=============================================================================
