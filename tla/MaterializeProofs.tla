------------------------- MODULE MaterializeProofs -------------------------
(***************************************************************************)
(* Theorems about Materialize, for every set of paths, trees and           *)
(* concurrent runs and every number of edits and interruptions: no run     *)
(* loses what the author saved or touches a skipped package, an            *)
(* interrupted run can be run again, and an undisturbed one completes and  *)
(* leaves a tree that a check accepts.                                     *)
(***************************************************************************)
EXTENDS Materialize, TLAPS

USE PathAssumption, TextAssumption, MergeAssumption, TreeAssumption,
    BoundAssumption

-----------------------------------------------------------------------------
(* Shapes of the values a plan computes.                                    *)

\* A function on a subset of Path with values in Text is a table of files.
LEMMA FilesIntro ==
    ASSUME NEW S \in SUBSET Path, NEW f(_), \A p \in S : f(p) \in Text
    PROVE  [p \in S |-> f(p)] \in Files
<1>1. [p \in S |-> f(p)] \in [S -> Text]
  OBVIOUS
<1> QED
  BY <1>1 DEF Files

\* What a tree emits is text at relative paths.
LEMMA TreeFields ==
    ASSUME NEW t \in Tree
    PROVE  /\ Emitted(t) \subseteq Path
           /\ \A p \in Emitted(t) : t.files[p] \in Text
           /\ t.once \subseteq Emitted(t)
           /\ t.keep \subseteq Path
           /\ \A p \in Npm \cap Emitted(t) : t.files[p] \in NpmText
<1>1. t \in TreeShape
  OBVIOUS
<1>2. PICK S \in SUBSET Path : t.files \in [S -> Text]
  BY <1>1 DEF TreeShape, Files
<1> QED
  BY <1>1, <1>2 DEF TreeShape, Files, Emitted

\* An accepted plan writes texts only: what it merges is a manifest.
LEMMA ContentsAreText ==
    ASSUME TypeOK, NEW t \in Tree, NEW enforce \in BOOLEAN,
           Accepted(manifest, t, enforce), NEW p \in Planned(t)
    PROVE  Contents(t, p) \in Text
<1>1. p \in Emitted(t)
  BY DEF Planned
<1>2. CASE p \in Npm
  <2>1. ~Conflict(manifest, t, p, enforce)
    BY <1>1 DEF Accepted
  <2>2. disk[p] \in NpmText \cup {Absent}
    BY <1>2, <2>1 DEF Conflict, Mergeable
  <2>3. t.files[p] \in NpmText
    BY <1>1, <1>2, TreeFields
  <2> QED
    BY <1>2, <2>2, <2>3 DEF Contents
<1>3. CASE p \notin Npm
  BY <1>1, <1>3, TreeFields DEF Contents
<1> QED
  BY <1>2, <1>3

\* An ownership record maps some paths to entries.
LEMMA OwnershipFields ==
    ASSUME NEW m \in Ownership
    PROVE  DOMAIN m \subseteq Path /\ \A p \in DOMAIN m : m[p] \in Entry
<1>1. PICK S \in SUBSET Path : m \in [S -> Entry]
  BY DEF Ownership
<1> QED
  BY <1>1

LEMMA PlanShapes ==
    ASSUME TypeOK, NEW t \in Tree, Accepted(manifest, t, TRUE)
    PROVE  /\ [p \in Planned(t) |-> Contents(t, p)] \in Files
           /\ Obsolete(manifest, t) \subseteq Path
           /\ NewManifest(manifest, t) \in Ownership
<1>1. manifest \in Ownership
  BY DEF TypeOK, Accepted
<1>2. Planned(t) \subseteq Path
  BY TreeFields DEF Planned
<1>3. \A p \in Planned(t) : Contents(t, p) \in Text
  BY ContentsAreText
<1>4. [p \in Planned(t) |-> Contents(t, p)] \in [Planned(t) -> Text]
  BY <1>3
<1>5. Obsolete(manifest, t) \subseteq Path
  BY <1>1, OwnershipFields DEF Obsolete
<1>6. NewManifest(manifest, t) \in Ownership
  <2> DEFINE retained == {p \in DOMAIN manifest :
                             p \in t.keep \/ (p \in Emitted(t) /\ Skipped(t, p))}
             D == retained \cup Planned(t)
             e(p) == IF p \in Planned(t)
                     THEN [sha |-> Contents(t, p), once |-> p \in t.once]
                     ELSE manifest[p]
  <2>1. D \in SUBSET Path
    BY <1>1, <1>2, OwnershipFields
  <2>2. ASSUME NEW p \in D PROVE e(p) \in Entry
    <3>1. CASE p \in Planned(t)
      <4>1. (p \in t.once) \in BOOLEAN
        OBVIOUS
      <4>2. [sha |-> Contents(t, p), once |-> p \in t.once] \in Entry
        BY <1>3, <3>1, <4>1 DEF Entry
      <4> QED
        BY <3>1, <4>2
    <3>2. CASE p \notin Planned(t)
      BY <1>1, <3>2, OwnershipFields
    <3> QED
      BY <3>1, <3>2
  <2>3. NewManifest(manifest, t) = [p \in D |-> e(p)]
    BY DEF NewManifest
  <2> HIDE DEF D, e
  <2>4. [p \in D |-> e(p)] \in [D -> Entry]
    BY <2>2
  <2> QED
    BY <2>1, <2>3, <2>4 DEF Ownership
<1> QED
  BY <1>2, <1>4, <1>5, <1>6 DEF Files

LEMMA PutType ==
    ASSUME TypeOK, NEW p \in Path, NEW c \in Text \cup {Torn}
    PROVE  Put(p, c) \in [Path -> Content]
BY DEF TypeOK, Put, Content

-----------------------------------------------------------------------------
(* The inductive invariant.                                                 *)

\* A run that is under way knows its tree.
RunHasTree == \A r \in Run : phase[r] # "idle" => tree[r] \in Tree

\* Outside the merged manifests a record holds generated bytes only.
Generated(m) == \A p \in DOMAIN m \ Npm : m[p].sha \in Emittable(p)
RecordsAreGenerated ==
    /\ manifest # Torn => Generated(manifest)
    /\ \A r \in Run : Generated(record[r])

\* The author's bytes are a file, and not the one the manifest records.
MineIsUnrecorded ==
    \A p \in mine :
       /\ disk[p] \notin {Absent, Dir}
       /\ manifest # Torn /\ p \in DOMAIN manifest \ Npm => manifest[p].sha # disk[p]

\* What is still planned for a file of the author that was there when the run
\* planned does it no harm.
Harmless(r, p) ==
    \/ p \in late[r]
    \/ disk[p] = writes[r][p]
    \/ EqualMetadata(p, disk[p], writes[r][p])

PendingSparesMine ==
    \A r \in Run : phase[r] = "writing" =>
       /\ \A p \in (mine \cap DOMAIN writes[r]) \ (Npm \cup ReplayLock) : Harmless(r, p)
       /\ \A p \in mine \cap removals[r] : p \in late[r]

IInv ==
    TypeOK /\ RunHasTree /\ RecordsAreGenerated /\ MineIsUnrecorded /\ PendingSparesMine

-----------------------------------------------------------------------------
(* Type correctness.                                                        *)

LEMMA NoFilesType == NoFiles \in Files /\ NoFiles \in Ownership
<1>1. NoFiles \in [{} -> Text] /\ NoFiles \in [{} -> Entry]
  BY DEF NoFiles
<1>2. {} \in SUBSET Path
  OBVIOUS
<1>3. NoFiles \in Files
  BY ONLY <1>1, <1>2, Zenon DEF Files
<1>4. NoFiles \in Ownership
  BY ONLY <1>1, <1>2, Zenon DEF Ownership
<1> QED
  BY <1>3, <1>4

LEMMA InitInvariant == Init => IInv
<1> SUFFICES ASSUME Init PROVE IInv
  OBVIOUS
<1>1. TypeOK
  BY NoFilesType DEF Init, TypeOK, Content, Files
<1> QED
  BY <1>1 DEF Init, IInv, RunHasTree, RecordsAreGenerated, Generated, NoFiles,
            MineIsUnrecorded, PendingSparesMine

\* What is left to write after a write.
LEMMA RemainingType ==
    ASSUME NEW f \in Files, NEW p
    PROVE  [q \in DOMAIN f \ {p} |-> f[q]] \in Files
<1> DEFINE D == DOMAIN f \ {p}
<1>1. D \in SUBSET Path /\ \A q \in D : f[q] \in Text
  BY DEF Files
<1> HIDE DEF D
<1>2. [q \in D |-> f[q]] \in [D -> Text]
  BY <1>1
<1>3. [q \in D |-> f[q]] \in Files
  BY <1>1, <1>2 DEF Files
<1> QED
  BY <1>3 DEF D

LEMMA FilesFields ==
    ASSUME NEW f \in Files
    PROVE  DOMAIN f \subseteq Path /\ \A p \in DOMAIN f : f[p] \in Text
BY DEF Files

LEMMA NextType ==
    ASSUME TypeOK, RunHasTree, [Next]_vars
    PROVE  TypeOK'
<1>1. ASSUME NEW r \in Run, NEW t \in Tree, Check(r, t) PROVE TypeOK'
  BY <1>1 DEF Check, TypeOK, bounds, history
<1>2. ASSUME NEW r \in Run, Report(r) PROVE TypeOK'
  BY NoFilesType, <1>2 DEF Report, Return, TypeOK, bounds, history, Files
<1>3. ASSUME NEW r \in Run, Plan(r) PROVE TypeOK'
  <2>1. tree[r] \in Tree
    BY <1>3 DEF Plan, RunHasTree
  <2> QED
    BY <1>3, <2>1, PlanShapes DEF Plan, TypeOK, bounds, Files
<1>4. ASSUME NEW r \in Run, Refuse(r) PROVE TypeOK'
  BY NoFilesType, <1>4 DEF Refuse, Return, TypeOK, bounds, history, Files
<1>5. ASSUME NEW r \in Run, WriteFile(r) PROVE TypeOK'
  <2>1. writes[r] \in Files
    BY DEF TypeOK, Files
  <2>2. PICK p \in DOMAIN writes[r] :
           /\ disk' = Put(p, writes[r][p])
           /\ writes' = [writes EXCEPT ![r] = [q \in DOMAIN @ \ {p} |-> @[q]]]
           /\ mine' = mine \ {q \in {p} : ~Linked(q)}
           /\ late' = Touch({r}, {p})
           /\ UNCHANGED <<manifest, phase, tree, removals, record, bounds,
                          unfinished, settled>>
    BY <1>5 DEF WriteFile
  <2>3. p \in Path /\ writes[r][p] \in Text
    BY <2>1, FilesFields
  <2>4. disk' \in [Path -> Content]
    BY <2>2, <2>3, PutType
  <2>5. writes' \in [Run -> Files]
    BY <2>1, <2>2, RemainingType DEF TypeOK, Files
  <2>6. late' \in [Run -> SUBSET (Path \cup {Ledger})]
    BY <2>2, <2>3 DEF Touch, TypeOK
  <2> QED
    BY <2>2, <2>4, <2>5, <2>6 DEF TypeOK, bounds, Files
<1>6. ASSUME NEW r \in Run, RemoveFile(r) PROVE TypeOK'
  BY <1>6 DEF RemoveFile, Touch, TypeOK, bounds, Content
<1>7. ASSUME NEW r \in Run, Fail(r) PROVE TypeOK'
  BY NoFilesType, <1>7 DEF Fail, Return, TouchLast, Touch, TypeOK, bounds, Files
<1>8. ASSUME NEW r \in Run, WriteManifest(r) PROVE TypeOK'
  BY NoFilesType, <1>8
  DEF WriteManifest, Return, TouchLast, Touch, Unless, TypeOK, bounds, Files
<1>9. ASSUME NEW r \in Run, Stop(r) PROVE TypeOK'
  BY NoFilesType, <1>9
  DEF Stop, Interrupted, Return, TouchLast, Touch, Unless, TypeOK, Files
<1>10. ASSUME NEW r \in Run, TearFile(r) PROVE TypeOK'
  <2>1. writes[r] \in Files
    BY DEF TypeOK, Files
  <2>2. PICK p \in DOMAIN writes[r] :
           /\ Interrupted(r)
           /\ disk' = Put(p, Torn)
           /\ mine' = mine \ {q \in {p} : ~Linked(q)}
           /\ late' = TouchLast(r, {p})
           /\ UNCHANGED <<manifest, unfinished, settled>>
    BY <1>10 DEF TearFile
  <2>3. p \in Path
    BY <2>1, FilesFields
  <2>4. disk' \in [Path -> Content]
    BY <2>2, <2>3, PutType
  <2>5. late' \in [Run -> SUBSET (Path \cup {Ledger})]
    BY <2>2, <2>3 DEF TouchLast, Touch, TypeOK
  <2>6. /\ phase' \in [Run -> {"idle", "checked", "writing"}]
        /\ tree' \in [Run -> Tree \cup {NoTree}]
        /\ removals' \in [Run -> SUBSET Path]
    BY <2>2 DEF Interrupted, Return, TypeOK
  <2>7. writes' \in [Run -> Files] /\ record' \in [Run -> Ownership]
    BY NoFilesType, <2>2 DEF Interrupted, Return, TypeOK, Files
  <2>8. edits' \in 0..MaxEdits /\ stops' \in 0..MaxStops
    BY <2>2 DEF Interrupted, TypeOK
  <2> QED
    BY <2>2, <2>4, <2>5, <2>6, <2>7, <2>8 DEF TypeOK, Files
<1>11. ASSUME NEW r \in Run, TearManifest(r) PROVE TypeOK'
  BY NoFilesType, <1>11
  DEF TearManifest, Interrupted, Return, TouchLast, Touch, TypeOK, Files
<1>12. ASSUME NEW p \in Path, NEW c \in UserText[p], Save(p, c) PROVE TypeOK'
  BY <1>12 DEF Save, Edit, Touch, TypeOK, runVars, Content
<1>13. ASSUME NEW p \in Path, Delete(p) PROVE TypeOK'
  BY <1>13 DEF Delete, Edit, Touch, TypeOK, runVars, Content
<1>14. CASE LoseManifest
  BY NoFilesType, <1>14 DEF LoseManifest, Edit, Touch, TypeOK, runVars, Files
<1>15. CASE UNCHANGED vars
  BY <1>15 DEF vars, runVars, bounds, history, TypeOK
<1> QED
  BY <1>1, <1>2, <1>3, <1>4, <1>5, <1>6, <1>7, <1>8, <1>9, <1>10, <1>11,
     <1>12, <1>13, <1>14, <1>15 DEF Next, RunStep, AuthorStep

\* What a plan records is generated, or was recorded before.
LEMMA PlanRecordsGenerated ==
    ASSUME NEW m, Generated(m), NEW t \in Tree
    PROVE  Generated(NewManifest(m, t))
<1>1. ASSUME NEW p \in Planned(t) \ Npm PROVE Contents(t, p) \in Emittable(p)
  BY DEF Planned, Contents, Emittable
<1> QED
  BY <1>1 DEF Generated, NewManifest

LEMMA NextRecordsGenerated ==
    ASSUME TypeOK, RunHasTree, RecordsAreGenerated, [Next]_vars
    PROVE  RecordsAreGenerated'
<1>1. ASSUME UNCHANGED <<manifest, record>> PROVE RecordsAreGenerated'
  BY <1>1 DEF RecordsAreGenerated, Generated, Emittable, Emitted
<1>2. Generated(NoFiles)
  BY DEF Generated, NoFiles
<1>3. \A m : Generated(m)' <=> Generated(m)
  BY DEF Generated, Emittable, Emitted
<1>4. ASSUME NEW r \in Run, Return(r),
             manifest' = manifest \/ manifest' = record[r] \/ manifest' = Torn
      PROVE  RecordsAreGenerated'
  <2>1. \A q \in Run : record'[q] = record[q] \/ record'[q] = NoFiles
    BY <1>4 DEF Return, TypeOK
  <2> QED
    BY <1>2, <1>3, <1>4, <2>1 DEF RecordsAreGenerated
<1>5. ASSUME NEW r \in Run, Plan(r) PROVE RecordsAreGenerated'
  <2>1. tree[r] \in Tree /\ manifest' = manifest /\ Generated(manifest)
    BY <1>5 DEF Plan, RunHasTree, RecordsAreGenerated, Accepted
  <2>2. \A q \in Run : \/ record'[q] = record[q]
                       \/ record'[q] = NewManifest(manifest, tree[r])
    BY <1>5 DEF Plan, TypeOK
  <2>3. Generated(NewManifest(manifest, tree[r]))
    BY <2>1, PlanRecordsGenerated
  <2> QED
    BY <1>3, <2>1, <2>2, <2>3 DEF RecordsAreGenerated
<1>6. ASSUME NEW r \in Run, RunStep(r) PROVE RecordsAreGenerated'
  BY <1>1, <1>4, <1>5, <1>6
  DEF RunStep, Check, Report, Refuse, WriteFile, RemoveFile, Fail, WriteManifest,
      Stop, TearFile, TearManifest, Interrupted
<1>7. ASSUME LoseManifest PROVE RecordsAreGenerated'
  <2>1. manifest' = NoFiles /\ record' = record
    BY <1>7 DEF LoseManifest, Edit, runVars
  <2> QED
    BY <1>2, <1>3, <2>1 DEF RecordsAreGenerated
<1>8. ASSUME UNCHANGED vars \/ (\E p \in Path : Delete(p) \/ \E c \in UserText[p] : Save(p, c))
      PROVE  RecordsAreGenerated'
  BY <1>1, <1>8 DEF vars, runVars, Delete, Save, Edit
<1> QED
  BY <1>6, <1>7, <1>8 DEF Next, AuthorStep

LEMMA NextRunHasTree ==
    ASSUME TypeOK, RunHasTree, [Next]_vars
    PROVE  RunHasTree'
<1>1. ASSUME NEW r \in Run, NEW t \in Tree, Check(r, t) PROVE RunHasTree'
  BY <1>1 DEF Check, RunHasTree, TypeOK
<1>2. ASSUME NEW r \in Run, Plan(r) PROVE RunHasTree'
  BY <1>2 DEF Plan, RunHasTree, TypeOK
<1>3. ASSUME NEW r \in Run, Return(r) PROVE RunHasTree'
  BY <1>3 DEF Return, RunHasTree, TypeOK
<1>4. ASSUME UNCHANGED <<phase, tree>> PROVE RunHasTree'
  BY <1>4 DEF RunHasTree
<1>5. ASSUME NEW r \in Run, RunStep(r) PROVE RunHasTree'
  BY <1>1, <1>2, <1>3, <1>4, <1>5
  DEF RunStep, Report, Refuse, WriteFile, RemoveFile, Fail, WriteManifest, Stop,
      TearFile, TearManifest, Interrupted
<1>6. CASE AuthorStep
  BY <1>4, <1>6 DEF AuthorStep, Save, Delete, LoseManifest, Edit, runVars
<1> QED
  BY <1>4, <1>5, <1>6 DEF Next, vars, runVars

-----------------------------------------------------------------------------
(* The author's bytes.                                                      *)

\* No step but Plan gives a run something new to write or to remove.
NothingNewPlanned ==
    \A q \in Run : phase'[q] = "writing" =>
       /\ phase[q] = "writing"
       /\ DOMAIN writes'[q] \subseteq DOMAIN writes[q]
       /\ \A p \in DOMAIN writes'[q] : writes'[q][p] = writes[q][p]
       /\ removals'[q] \subseteq removals[q]
       /\ late[q] \subseteq late'[q]

\* The author's bytes stay, or every planning run is known to be late for them.
MineKeptOrLate ==
    \A p \in mine' :
       \/ p \in mine /\ disk'[p] = disk[p]
       \/ \A q \in Run : phase'[q] = "writing" => p \in late'[q]

LEMMA PendingKept ==
    ASSUME PendingSparesMine, NothingNewPlanned, MineKeptOrLate
    PROVE  PendingSparesMine'
BY DEF PendingSparesMine, NothingNewPlanned, MineKeptOrLate, Harmless

LEMMA MineKept ==
    ASSUME MineIsUnrecorded, manifest' = manifest,
           \A p \in mine' : p \in mine /\ disk'[p] = disk[p]
    PROVE  MineIsUnrecorded'
BY DEF MineIsUnrecorded

\* A run that returns has nothing left to do, the others are where they were.
LEMMA ReturnPlansNothing ==
    ASSUME TypeOK, NEW r \in Run, Return(r),
           \A q \in Run \ {r} : late[q] \subseteq late'[q]
    PROVE  NothingNewPlanned
BY DEF TypeOK, Return, NothingNewPlanned

\* Touch only adds to what the others are late for.
LEMMA TouchAdds ==
    ASSUME TypeOK, NEW r \in Run, NEW things,
           late' = Touch({r}, things) \/ late' = TouchLast(r, things)
    PROVE  \A q \in Run \ {r} : late[q] \subseteq late'[q]
<1>1. \A q \in Run : late[q] \subseteq Touch({r}, things)[q]
  BY DEF Touch
<1>2. \A q \in Run \ {r} : TouchLast(r, things)[q] = Touch({r}, things)[q]
  BY DEF Touch, TouchLast
<1> QED
  BY <1>1, <1>2

\* Put writes at p, or creates its directory, which was no file of the author.
LEMMA PutSparesOthers ==
    ASSUME MineIsUnrecorded, TypeOK, NEW p \in Path, NEW c,
           disk' = Put(p, c), mine' = mine \ {q \in {p} : ~Linked(q)}
    PROVE  /\ \A x \in mine' : x \in mine /\ disk'[x] = disk[x]
           /\ \A x \in mine : x # p => disk'[x] = disk[x]
<1>1. ASSUME NEW x \in mine, x # p PROVE disk'[x] = disk[x]
  <2>1. x \in Path /\ disk[x] # Absent
    BY DEF MineIsUnrecorded, TypeOK
  <2> QED
    BY <1>1, <2>1 DEF Put
<1>2. ASSUME NEW x \in mine' PROVE x \in mine /\ disk'[x] = disk[x]
  <2>1. CASE x # p
    BY <1>1, <2>1
  <2>2. CASE x = p
    <3>1. Linked(p)
      BY <2>2
    <3> QED
      BY <2>2, <3>1 DEF Put
  <2> QED
    BY <2>1, <2>2
<1> QED
  BY <1>1, <1>2

\* A plan that is accepted leaves the author's files alone.
LEMMA PlanSparesMine ==
    ASSUME TypeOK, RunHasTree, MineIsUnrecorded, PendingSparesMine,
           NEW r \in Run, Plan(r)
    PROVE  PendingSparesMine'
<1> DEFINE t == tree[r]
<1>1. /\ Accepted(manifest, t, TRUE)
      /\ phase' = [phase EXCEPT ![r] = "writing"]
      /\ writes' = [writes EXCEPT ![r] = [p \in Planned(t) |-> Contents(t, p)]]
      /\ removals' = [removals EXCEPT ![r] = Obsolete(manifest, t)]
      /\ late' = [late EXCEPT ![r] = {}]
      /\ mine' = mine /\ disk' = disk /\ manifest # Torn
  BY DEF Plan, Accepted
<1> HIDE DEF t
<1>2. ASSUME NEW p \in (mine \cap Planned(t)) \ (Npm \cup ReplayLock)
      PROVE  \/ disk[p] = Contents(t, p)
             \/ EqualMetadata(p, disk[p], Contents(t, p))
  <2>1. ~Conflict(manifest, t, p, TRUE) /\ disk[p] # Absent
    BY <1>1 DEF Accepted, Planned, MineIsUnrecorded
  <2>2. CASE p \in DOMAIN manifest
    BY <1>1, <2>1, <2>2 DEF Conflict, Edited, MineIsUnrecorded
  <2>3. CASE p \notin DOMAIN manifest
    BY <2>1, <2>3 DEF Conflict, Foreign, Contents
  <2> QED
    BY <2>2, <2>3
<1>3. ASSUME NEW p \in mine PROVE p \notin Obsolete(manifest, t)
  BY <1>1 DEF Accepted, Obsolete, MineIsUnrecorded
<1>4. ASSUME NEW q \in Run, q # r
      PROVE  /\ phase'[q] = phase[q] /\ writes'[q] = writes[q]
             /\ removals'[q] = removals[q] /\ late'[q] = late[q]
  BY <1>1, <1>4 DEF TypeOK
<1>5. /\ writes'[r] = [p \in Planned(t) |-> Contents(t, p)]
      /\ removals'[r] = Obsolete(manifest, t)
  BY <1>1 DEF TypeOK
<1>6. ASSUME NEW p \in (mine \cap DOMAIN writes'[r]) \ (Npm \cup ReplayLock)
      PROVE  Harmless(r, p)'
  <2>1. p \in Planned(t) /\ writes'[r][p] = Contents(t, p)
    BY <1>5
  <2> QED
    BY <1>1, <1>2, <2>1 DEF Harmless, EqualMetadata
<1>7. ASSUME NEW q \in Run, q # r, phase'[q] = "writing"
      PROVE  /\ \A p \in (mine' \cap DOMAIN writes'[q]) \ (Npm \cup ReplayLock) : Harmless(q, p)'
             /\ \A p \in mine' \cap removals'[q] : p \in late'[q]
  BY <1>1, <1>4, <1>7 DEF PendingSparesMine, Harmless
<1> QED
  BY <1>1, <1>3, <1>5, <1>6, <1>7 DEF PendingSparesMine

LEMMA NextSparesMine ==
    ASSUME IInv, [Next]_vars
    PROVE  MineIsUnrecorded' /\ PendingSparesMine'
<1> USE DEF IInv
<1>1. ASSUME NEW r \in Run, NEW t \in Tree, Check(r, t)
      PROVE  MineIsUnrecorded' /\ PendingSparesMine'
  <2>1. NothingNewPlanned /\ MineKeptOrLate
    BY <1>1 DEF Check, NothingNewPlanned, MineKeptOrLate, TypeOK, history
  <2> QED
    BY <1>1, <2>1, PendingKept, MineKept DEF Check, history
<1>2. ASSUME NEW r \in Run, Report(r) \/ Refuse(r)
      PROVE  MineIsUnrecorded' /\ PendingSparesMine'
  <2>1. Return(r) /\ UNCHANGED <<disk, manifest, mine, late>>
    BY <1>2 DEF Report, Refuse, history
  <2>2. NothingNewPlanned /\ MineKeptOrLate
    BY <2>1, ReturnPlansNothing DEF MineKeptOrLate
  <2> QED
    BY <2>1, <2>2, PendingKept, MineKept
<1>3. ASSUME NEW r \in Run, Plan(r)
      PROVE  MineIsUnrecorded' /\ PendingSparesMine'
  BY <1>3, PlanSparesMine, MineKept DEF Plan
<1>4. ASSUME NEW r \in Run, WriteFile(r)
      PROVE  MineIsUnrecorded' /\ PendingSparesMine'
  <2>1. PICK p \in DOMAIN writes[r] :
           /\ phase[r] = "writing"
           /\ disk' = Put(p, writes[r][p])
           /\ writes' = [writes EXCEPT ![r] = [q \in DOMAIN @ \ {p} |-> @[q]]]
           /\ mine' = mine \ {q \in {p} : ~Linked(q)}
           /\ late' = Touch({r}, {p})
           /\ UNCHANGED <<manifest, phase, removals>>
    BY <1>4 DEF WriteFile, Writing
  <2>2. p \in Path
    BY FilesFields DEF TypeOK, Files
  <2>3. \A x \in mine' : x \in mine /\ disk'[x] = disk[x]
    BY <2>1, <2>2, PutSparesOthers
  <2>4. writes'[r] = [q \in DOMAIN writes[r] \ {p} |-> writes[r][q]]
    BY <2>1 DEF TypeOK
  <2>5. \A q \in Run : q # r => writes'[q] = writes[q]
    BY <2>1 DEF TypeOK
  <2>6. \A q \in Run : late[q] \subseteq late'[q]
    BY <2>1 DEF Touch, TypeOK
  <2>7. \A q \in Run : /\ DOMAIN writes'[q] \subseteq DOMAIN writes[q]
                        /\ \A x \in DOMAIN writes'[q] : writes'[q][x] = writes[q][x]
    BY <2>4, <2>5
  <2>8. phase' = phase /\ removals' = removals
    BY <2>1
  <2>9. NothingNewPlanned
    BY <2>6, <2>7, <2>8 DEF NothingNewPlanned
  <2> QED
    BY <2>1, <2>3, <2>9, PendingKept, MineKept DEF MineKeptOrLate
<1>5. ASSUME NEW r \in Run, RemoveFile(r)
      PROVE  MineIsUnrecorded' /\ PendingSparesMine'
  <2>1. PICK p \in removals[r] :
           /\ disk' = [disk EXCEPT ![p] = Absent]
           /\ removals' = [removals EXCEPT ![r] = @ \ {p}]
           /\ mine' = mine \ {p}
           /\ late' = Touch({r}, {p})
           /\ UNCHANGED <<manifest, phase, writes>>
    BY <1>5 DEF RemoveFile
  <2>2. \A x \in mine' : x \in mine /\ disk'[x] = disk[x]
    BY <2>1 DEF TypeOK
  <2>3. \A q \in Run : removals'[q] \subseteq removals[q]
    BY <2>1 DEF TypeOK
  <2>4. \A q \in Run : late[q] \subseteq late'[q]
    BY <2>1 DEF Touch, TypeOK
  <2>5. phase' = phase /\ writes' = writes
    BY <2>1
  <2>6. NothingNewPlanned
    BY <2>3, <2>4, <2>5 DEF NothingNewPlanned
  <2> QED
    BY <2>1, <2>2, <2>6, PendingKept, MineKept DEF MineKeptOrLate
<1>6. ASSUME NEW r \in Run, Fail(r) \/ Stop(r)
      PROVE  MineIsUnrecorded' /\ PendingSparesMine'
  <2>1. Return(r) /\ late' = TouchLast(r, {}) /\ UNCHANGED <<disk, manifest, mine>>
    BY <1>6 DEF Fail, Stop, Interrupted
  <2>2. NothingNewPlanned /\ MineKeptOrLate
    BY <2>1, TouchAdds, ReturnPlansNothing DEF MineKeptOrLate
  <2> QED
    BY <2>1, <2>2, PendingKept, MineKept
<1>7. ASSUME NEW r \in Run, WriteManifest(r)
      PROVE  MineIsUnrecorded' /\ PendingSparesMine'
  <2>1. /\ Return(r) /\ late' = TouchLast(r, {Ledger}) /\ disk' = disk
        /\ manifest' = record[r]
        /\ mine' = {p \in mine : ~(/\ p \in DOMAIN record[r]
                                   /\ disk[p] = record[r][p].sha
                                   /\ disk[p] \in Emittable(p))}
    BY <1>7 DEF WriteManifest
  <2>2. NothingNewPlanned /\ MineKeptOrLate
    BY <2>1, TouchAdds, ReturnPlansNothing DEF MineKeptOrLate
  <2>3. Generated(record[r])
    BY DEF RecordsAreGenerated
  <2>4. MineIsUnrecorded'
    BY <2>1, <2>3 DEF MineIsUnrecorded, Generated
  <2> QED
    BY <2>2, <2>4, PendingKept
<1>8. ASSUME NEW r \in Run, TearFile(r)
      PROVE  MineIsUnrecorded' /\ PendingSparesMine'
  <2>1. PICK p \in DOMAIN writes[r] :
           /\ Return(r)
           /\ disk' = Put(p, Torn)
           /\ mine' = mine \ {q \in {p} : ~Linked(q)}
           /\ late' = TouchLast(r, {p})
           /\ manifest' = manifest
    BY <1>8 DEF TearFile, Interrupted
  <2>2. p \in Path
    BY FilesFields DEF TypeOK, Files
  <2>3. \A x \in mine' : x \in mine /\ disk'[x] = disk[x]
    BY <2>1, <2>2, PutSparesOthers
  <2>4. NothingNewPlanned
    BY <2>1, TouchAdds, ReturnPlansNothing
  <2> QED
    BY <2>1, <2>3, <2>4, PendingKept, MineKept DEF MineKeptOrLate
<1>9. ASSUME NEW r \in Run, TearManifest(r)
      PROVE  MineIsUnrecorded' /\ PendingSparesMine'
  <2>1. /\ Return(r) /\ late' = TouchLast(r, {Ledger}) /\ manifest' = Torn
        /\ UNCHANGED <<disk, mine>>
    BY <1>9 DEF TearManifest, Interrupted
  <2>2. NothingNewPlanned /\ MineKeptOrLate
    BY <2>1, TouchAdds, ReturnPlansNothing DEF MineKeptOrLate
  <2>3. MineIsUnrecorded'
    BY <2>1 DEF MineIsUnrecorded
  <2> QED
    BY <2>2, <2>3, PendingKept
<1>10. ASSUME NEW p \in Path, NEW c \in UserText[p], Save(p, c)
       PROVE  MineIsUnrecorded' /\ PendingSparesMine'
  <2>1. /\ late' = Touch({}, {p}) /\ manifest' = manifest
        /\ UNCHANGED <<phase, writes, removals>>
        /\ mine' = IF RecordedAs(p, c) THEN mine \ {p} ELSE mine \cup {p}
    BY <1>10 DEF Save, Edit, runVars
  <2>2. disk'[p] = c /\ c \notin {Absent, Dir}
    BY <1>10 DEF Save, TypeOK
  <2>3. ASSUME NEW x \in mine, x # p PROVE disk'[x] = disk[x]
    <3>1. x \in Path /\ disk[x] \notin {Absent, Dir}
      BY DEF MineIsUnrecorded, TypeOK
    <3>2. x # Parent[p]
      BY <1>10, <3>1 DEF Save, Writable
    <3> QED
      BY <1>10, <2>3, <3>1, <3>2 DEF Save
  <2>4. MineIsUnrecorded'
    BY <2>1, <2>2, <2>3 DEF MineIsUnrecorded, RecordedAs
  <2>5. NothingNewPlanned
    BY <2>1 DEF NothingNewPlanned, Touch, TypeOK
  <2>6. \A q \in Run : phase'[q] = "writing" => p \in late'[q]
    BY <2>1 DEF Touch, TypeOK
  <2>7. \A x \in mine' : x # p => x \in mine /\ disk'[x] = disk[x]
    BY <2>1, <2>3
  <2>8. MineKeptOrLate
    BY <2>6, <2>7 DEF MineKeptOrLate
  <2> QED
    BY <2>4, <2>5, <2>8, PendingKept
<1>11. ASSUME NEW p \in Path, Delete(p)
       PROVE  MineIsUnrecorded' /\ PendingSparesMine'
  <2>1. /\ late' = Touch({}, {p}) /\ manifest' = manifest
        /\ UNCHANGED <<phase, writes, removals>>
        /\ mine' = mine \ {p} /\ disk' = [disk EXCEPT ![p] = Absent]
    BY <1>11 DEF Delete, Edit, runVars
  <2>2. \A x \in mine' : x \in mine /\ disk'[x] = disk[x]
    BY <2>1 DEF TypeOK
  <2>3. NothingNewPlanned
    BY <2>1 DEF NothingNewPlanned, Touch, TypeOK
  <2> QED
    BY <2>1, <2>2, <2>3, PendingKept, MineKept DEF MineKeptOrLate
<1>12. ASSUME LoseManifest PROVE MineIsUnrecorded' /\ PendingSparesMine'
  <2>1. /\ late' = Touch({}, {Ledger}) /\ manifest' = NoFiles
        /\ UNCHANGED <<phase, writes, removals, disk, mine>>
    BY <1>12 DEF LoseManifest, Edit, runVars
  <2>2. NothingNewPlanned /\ MineKeptOrLate
    BY <2>1 DEF NothingNewPlanned, MineKeptOrLate, Touch, TypeOK
  <2>3. MineIsUnrecorded'
    BY <2>1 DEF MineIsUnrecorded, NoFiles
  <2> QED
    BY <2>2, <2>3, PendingKept
<1>13. ASSUME UNCHANGED vars PROVE MineIsUnrecorded' /\ PendingSparesMine'
  <2>1. UNCHANGED <<disk, manifest, mine, phase, writes, removals, late>>
    BY <1>13 DEF vars, runVars, history
  <2>2. NothingNewPlanned /\ MineKeptOrLate
    BY <2>1 DEF NothingNewPlanned, MineKeptOrLate
  <2> QED
    BY <2>1, <2>2, PendingKept, MineKept
<1> QED
  BY <1>1, <1>2, <1>3, <1>4, <1>5, <1>6, <1>7, <1>8, <1>9, <1>10, <1>11,
     <1>12, <1>13 DEF Next, RunStep, AuthorStep

-----------------------------------------------------------------------------
(* The theorems.                                                            *)

\* The invariant holds in every reachable state.
THEOREM Invariance == Spec => []IInv
<1>1. IInv /\ [Next]_vars => IInv'
  BY NextType, NextRunHasTree, NextRecordsGenerated, NextSparesMine DEF IInv
<1> QED
  BY <1>1, InitInvariant, PTL DEF Spec

\* Every variable keeps its type, whatever the trees, the runs and the bounds.
THEOREM TypeCorrect == Spec => []TypeOK
<1>1. IInv => TypeOK
  BY DEF IInv
<1> QED
  BY <1>1, Invariance, PTL

\* One step of a run loses nothing the author saved.
LEMMA StepLosesNoEdit ==
    ASSUME IInv, NEW r \in Run, WriteFile(r) \/ RemoveFile(r) \/ TearFile(r),
           NEW p \in mine \ (Npm \cup ReplayLock)
    PROVE  \/ disk'[p] = disk[p]
           \/ p \in late[r]
           \/ p \in DOMAIN writes[r] /\ disk[p] = writes[r][p]
           \/ \E c \in Text : EqualMetadata(p, disk[p], c)
<1> USE DEF IInv
<1>1. CASE RemoveFile(r)
  <2>1. PICK q \in removals[r] :
           phase[r] = "writing" /\ disk' = [disk EXCEPT ![q] = Absent]
    BY <1>1 DEF RemoveFile, Removing
  <2> QED
    BY <2>1 DEF PendingSparesMine, TypeOK
<1>2. CASE WriteFile(r) \/ TearFile(r)
  <2>1. PICK q, c :
           /\ q \in DOMAIN writes[r]
           /\ phase[r] = "writing" /\ disk' = Put(q, c)
           /\ mine' = mine \ {x \in {q} : ~Linked(x)}
    BY <1>2 DEF WriteFile, TearFile, Writing
  <2>2. q \in Path /\ writes[r][q] \in Text
    BY <2>1, FilesFields DEF TypeOK, Files
  <2>3. CASE p # q
    BY <2>1, <2>2, <2>3, PutSparesOthers
  <2>4. CASE p = q
    <3>1. Harmless(r, p)
      BY <2>1, <2>4 DEF PendingSparesMine
    <3> QED
      BY <2>1, <2>2, <2>4, <3>1 DEF Harmless
  <2> QED
    BY <2>3, <2>4
<1> QED
  BY <1>1, <1>2

\* No run overwrites, removes or cuts short what the author saved, for any
\* number of paths, trees, concurrent runs, edits and interruptions.
THEOREM EditsAreKept == Spec => LosesNoEdit
<1>1. IInv /\ [Next]_vars =>
         [\A r \in Run : (WriteFile(r) \/ RemoveFile(r) \/ TearFile(r)) =>
             \A p \in mine \ (Npm \cup ReplayLock) :
                 \/ disk'[p] = disk[p]
                 \/ p \in late[r]
                 \/ p \in DOMAIN writes[r] /\ disk[p] = writes[r][p]
                 \/ \E c \in Text : EqualMetadata(p, disk[p], c)]_vars
  BY StepLosesNoEdit
<1> QED
  BY <1>1, Invariance, PTL DEF Spec, LosesNoEdit

-----------------------------------------------------------------------------
(* What an undisturbed run has done, and what it has still to do.           *)

Undisturbed(r) == phase[r] = "writing" /\ late[r] = {}

\* A planned file that is still to be written is as the plan found it.
Ahead(r, p) ==
    LET t == tree[r] IN
    /\ p \in Planned(t)
    /\ ~Conflict(manifest, t, p, TRUE)
    /\ writes[r][p] = Contents(t, p)

\* One that has been written, or was skipped, is there, and the tree has
\* nothing to add to it.
Behind(r, p) ==
    LET t == tree[r] IN
    /\ disk[p] \notin {Absent, Dir}
    /\ \/ p \in t.once
       \/ disk[p] = Contents(t, p) /\ (p \in Npm => disk[p] \in NpmText)

\* Nothing the run did would make its plan be refused.
Resumable(r) ==
    LET t == tree[r] IN
    /\ manifest \in Ownership
    /\ Emitted(t) \cap t.keep = {}
    /\ \A p \in DOMAIN manifest \cup Emitted(t) : ~Linked(p)
    /\ DOMAIN writes[r] \subseteq Emitted(t)
    /\ \A p \in Emitted(t) : IF p \in DOMAIN writes[r] THEN Ahead(r, p) ELSE Behind(r, p)
    /\ \A p \in removals[r] :
          p \in DOMAIN manifest \ Emitted(t) /\ disk[p] = manifest[p].sha
    /\ \A p \in Obsolete(manifest, t) :
          \/ disk[p] = manifest[p].sha
          \/ disk[p] = Dir /\ \E q \in Emitted(t) : Parent[q] = p
    /\ DOMAIN record[r] \subseteq (DOMAIN manifest \cap t.keep) \cup Emitted(t)

ResumeInv == \A r \in Run : Undisturbed(r) => Resumable(r)

\* A run that is undisturbed after a step planned in it, or was undisturbed
\* before it, and only its own writes and removals have changed anything.
OwnStep(r) ==
    /\ Undisturbed(r)
    /\ tree'[r] = tree[r] /\ record'[r] = record[r] /\ manifest' = manifest
    /\ \/ WriteFile(r)
       \/ RemoveFile(r)
       \/ disk' = disk /\ writes'[r] = writes[r] /\ removals'[r] = removals[r]

LEMMA TouchDisturbs ==
    ASSUME TypeOK, NEW r \in Run, NEW by, NEW things, things # {}, r \notin by,
           late' = Touch(by, things), phase'[r] = phase[r]
    PROVE  ~Undisturbed(r)'
BY DEF TypeOK, Touch, Undisturbed

LEMMA LastTouchDisturbs ==
    ASSUME TypeOK, NEW r \in Run, NEW q \in Run, q # r, NEW thing,
           late' = TouchLast(q, {thing}), phase'[r] = phase[r]
    PROVE  ~Undisturbed(r)'
<1>1. TouchLast(q, {thing})[r] = Touch({q}, {thing})[r]
  BY DEF TouchLast, Touch
<1> QED
  BY <1>1 DEF TypeOK, Touch, Undisturbed

LEMMA UndisturbedSteps ==
    ASSUME TypeOK, [Next]_vars, NEW r \in Run, Undisturbed(r)'
    PROVE  Plan(r) \/ OwnStep(r)
<1>1. ASSUME UNCHANGED <<disk, manifest, tree, writes, removals, record, phase, late>>
      PROVE  OwnStep(r)
  BY <1>1 DEF OwnStep, Undisturbed
<1>2. ASSUME NEW q \in Run, NEW t \in Tree, Check(q, t) PROVE OwnStep(r)
  BY <1>2 DEF Check, OwnStep, Undisturbed, TypeOK, history
<1>3. ASSUME NEW q \in Run, Return(q), disk' = disk,
             \/ late' = late /\ manifest' = manifest
             \/ late' = TouchLast(q, {}) /\ manifest' = manifest
             \/ late' = TouchLast(q, {Ledger})
      PROVE  OwnStep(r)
  <2>1. q # r
    BY <1>3 DEF Return, Undisturbed, TypeOK
  <2>2. /\ phase'[r] = phase[r] /\ tree'[r] = tree[r] /\ record'[r] = record[r]
        /\ writes'[r] = writes[r] /\ removals'[r] = removals[r]
    BY <1>3, <2>1 DEF Return, TypeOK
  <2>3. late[r] \subseteq late'[r]
    BY <1>3, <2>1, TouchAdds
  <2>4. late' # TouchLast(q, {Ledger})
    BY <2>1, <2>2, LastTouchDisturbs
  <2> QED
    BY <1>3, <2>2, <2>3, <2>4 DEF OwnStep, Undisturbed
<1>4. ASSUME NEW q \in Run, Plan(q) PROVE Plan(r) \/ OwnStep(r)
  BY <1>4 DEF Plan, OwnStep, Undisturbed, TypeOK
<1>5. ASSUME NEW q \in Run, WriteFile(q) \/ RemoveFile(q) PROVE OwnStep(r)
  <2>1. /\ UNCHANGED <<phase, tree, record, manifest>>
        /\ \E p : late' = Touch({q}, {p})
    BY <1>5 DEF WriteFile, RemoveFile
  <2>2. q = r
    BY <2>1, TouchDisturbs
  <2>3. late[r] \subseteq late'[r]
    BY <2>1, <2>2 DEF Touch, TypeOK
  <2> QED
    BY <1>5, <2>1, <2>2, <2>3 DEF OwnStep, Undisturbed
<1>6. ASSUME NEW q \in Run, TearFile(q) PROVE OwnStep(r)
  <2>1. Return(q) /\ \E p : late' = TouchLast(q, {p})
    BY <1>6 DEF TearFile, Interrupted
  <2>2. q # r
    BY <2>1 DEF Return, Undisturbed, TypeOK
  <2>3. phase'[r] = phase[r]
    BY <2>1, <2>2 DEF Return, TypeOK
  <2> QED
    BY <2>1, <2>2, <2>3, LastTouchDisturbs
<1>7. ASSUME NEW q \in Run, RunStep(q) PROVE Plan(r) \/ OwnStep(r)
  BY <1>2, <1>3, <1>4, <1>5, <1>6, <1>7
  DEF RunStep, Report, Refuse, Fail, WriteManifest, Stop, TearManifest, Interrupted, history
<1>8. ASSUME AuthorStep PROVE OwnStep(r)
  <2>1. phase' = phase /\ \E things : things # {} /\ late' = Touch({}, things)
    BY <1>8 DEF AuthorStep, Save, Delete, LoseManifest, Edit, runVars
  <2> QED
    BY <2>1, TouchDisturbs
<1> QED
  BY <1>1, <1>7, <1>8 DEF Next, vars, runVars, history

\* What an accepted plan finds is what it may do.
LEMMA PlanResumable ==
    ASSUME TypeOK, RunHasTree, NEW r \in Run, Plan(r)
    PROVE  Resumable(r)'
<1> PICK t : t = tree[r]
  OBVIOUS
<1>1. /\ t \in Tree /\ tree'[r] = t /\ Accepted(manifest, t, TRUE)
      /\ disk' = disk /\ manifest' = manifest
      /\ writes'[r] = [p \in Planned(t) |-> Contents(t, p)]
      /\ removals'[r] = Obsolete(manifest, t)
      /\ record'[r] = NewManifest(manifest, t)
  <2>1. t \in Tree /\ Accepted(manifest, t, TRUE)
    BY DEF Plan, RunHasTree
  <2>2. disk' = disk /\ manifest' = manifest /\ tree' = tree
    BY DEF Plan
  <2>3. /\ writes' = [writes EXCEPT ![r] = [p \in Planned(t) |-> Contents(t, p)]]
        /\ removals' = [removals EXCEPT ![r] = Obsolete(manifest, t)]
        /\ record' = [record EXCEPT ![r] = NewManifest(manifest, t)]
    BY DEF Plan
  <2>4. tree'[r] = t
    BY <2>2
  <2>5. /\ writes'[r] = [p \in Planned(t) |-> Contents(t, p)]
        /\ removals'[r] = Obsolete(manifest, t)
        /\ record'[r] = NewManifest(manifest, t)
    <3>1. DOMAIN writes = Run /\ DOMAIN removals = Run /\ DOMAIN record = Run
      BY DEF TypeOK
    <3> QED
      BY ONLY r \in Run, <2>3, <3>1
  <2> QED
    BY ONLY <2>1, <2>2, <2>4, <2>5
<1>2. manifest \in Ownership /\ Emitted(t) \cap t.keep = {}
  <2>1. manifest \in Ownership \cup {Torn} /\ manifest # Torn
    BY <1>1 DEF TypeOK, Accepted
  <2> QED
    BY <1>1, <2>1 DEF Accepted
<1>3. \A p \in DOMAIN manifest \cup Emitted(t) : ~Linked(p)
  BY <1>1 DEF Accepted
<1>4. DOMAIN writes'[r] = Planned(t) /\ Planned(t) \subseteq Emitted(t)
  BY <1>1 DEF Planned
<1>5. ASSUME NEW p \in Planned(t) PROVE Ahead(r, p)'
  <2>1. ~Conflict(manifest, t, p, TRUE) /\ writes'[r][p] = Contents(t, p)
    BY <1>1, <1>4 DEF Accepted
  <2> QED
    BY <1>1, <2>1
    DEF Ahead, Planned, Skipped, Conflict, Mergeable, Edited, Foreign, Contents, EqualMetadata,
        Emitted
<1>6. ASSUME NEW p \in Emitted(t) \ Planned(t) PROVE Behind(r, p)'
  <2>1. p \in t.once /\ disk[p] # Absent
    BY DEF Planned, Skipped
  <2>2. ~Conflict(manifest, t, p, TRUE)
    BY <1>1 DEF Accepted
  <2> QED
    BY <1>1, <2>1, <2>2 DEF Behind, Conflict
<1>7. ASSUME NEW p \in Obsolete(manifest, t)
      PROVE  p \in DOMAIN manifest \ Emitted(t) /\ disk[p] = manifest[p].sha
  BY <1>1 DEF Accepted, Obsolete
<1>8. DOMAIN NewManifest(manifest, t) \subseteq (DOMAIN manifest \cap t.keep) \cup Emitted(t)
  BY DEF NewManifest, Planned
<1>9. /\ Obsolete(manifest, t)' = Obsolete(manifest, t) /\ Emitted(t)' = Emitted(t)
      /\ \A p : Linked(p)' <=> Linked(p)
  BY <1>1 DEF Obsolete, Emitted, Linked
<1> QED
  BY <1>1, <1>2, <1>3, <1>4, <1>5, <1>6, <1>7, <1>8, <1>9 DEF Resumable

\* One write: the file is there as the tree has it, the next ones are as they
\* were, and no emitted file has become a directory, for a directory is
\* written before what lies under it.
LEMMA WriteResumable ==
    ASSUME TypeOK, RunHasTree, NEW r \in Run, phase[r] = "writing", Resumable(r), WriteFile(r)
    PROVE  Resumable(r)'
<1> PICK t : t = tree[r]
  OBVIOUS
<1>1. PICK q \in DOMAIN writes[r] :
         /\ Least(DOMAIN writes[r], q)
         /\ Writable(q)
         /\ disk' = Put(q, writes[r][q])
         /\ writes' = [writes EXCEPT ![r] = [p \in DOMAIN @ \ {q} |-> @[p]]]
         /\ UNCHANGED <<manifest, tree, removals, record>>
  BY DEF WriteFile, Writing
<1>2. /\ t \in Tree /\ tree'[r] = t
      /\ writes[r] \in Files /\ DOMAIN writes[r] \subseteq Emitted(t)
      /\ Emitted(t) \subseteq Path /\ manifest \in Ownership
  BY <1>1, TreeFields DEF RunHasTree, TypeOK, Resumable, Files
<1>3. q \in Path /\ q \in Emitted(t) /\ writes[r][q] \in Text /\ Ahead(r, q) /\ ~Linked(q)
  BY <1>2, FilesFields DEF Resumable
<1>4. writes'[r] = [p \in DOMAIN writes[r] \ {q} |-> writes[r][p]]
  BY <1>1 DEF TypeOK
<1>5. /\ disk'[q] = writes[r][q]
      /\ \A p \in Path \ {q} :
            disk'[p] = (IF p = Parent[q] /\ disk[p] = Absent THEN Dir ELSE disk[p])
  BY <1>1, <1>3 DEF Put
<1>6. ASSUME NEW p \in Emitted(t), p # q PROVE disk'[p] = disk[p]
  <2>1. CASE p \in DOMAIN writes[r]
    <3>1. Rank[q] <= Rank[p] /\ p \in Path /\ Rank[p] \in Int /\ Rank[q] \in Int
      BY <1>1, <1>2, <1>3, <2>1 DEF Least
    <3>2. p # Parent[q]
      BY <1>3, <3>1
    <3> QED
      BY <1>5, <1>6, <3>1, <3>2
  <2>2. CASE p \notin DOMAIN writes[r]
    <3>1. Behind(r, p) /\ p \in Path
      BY <1>2, <2>2 DEF Resumable
    <3> QED
      BY <1>5, <1>6, <3>1 DEF Behind
  <2> QED
    BY <2>1, <2>2
<1>7. Behind(r, q)'
  <2>1. disk'[q] = Contents(t, q) /\ disk'[q] \in Text
    BY <1>3, <1>5 DEF Ahead
  <2>2. CASE q \in Npm
    <3>1. disk[q] \in NpmText \cup {Absent} /\ t.files[q] \in NpmText
      BY <1>2, <1>3, <2>2, TreeFields DEF Ahead, Conflict, Mergeable
    <3>2. disk'[q] \in NpmText /\ Merge(disk'[q], t.files[q]) = disk'[q]
      BY <2>1, <2>2, <3>1 DEF Contents
    <3> QED
      BY <1>2, <2>1, <2>2, <3>2 DEF Behind, Contents
  <2>3. CASE q \notin Npm
    BY <1>2, <2>1, <2>3 DEF Behind, Contents
  <2> QED
    BY <2>2, <2>3
<1>8. ASSUME NEW p \in DOMAIN writes'[r] PROVE Ahead(r, p)'
  <2>1. p # q /\ p \in DOMAIN writes[r] /\ writes'[r][p] = writes[r][p]
    BY <1>4
  <2>2. Ahead(r, p) /\ disk'[p] = disk[p]
    BY <1>2, <1>6, <2>1 DEF Resumable
  <2> QED
    BY <1>1, <1>2, <2>1, <2>2
    DEF Ahead, Planned, Skipped, Conflict, Mergeable, Edited, Foreign, Contents, EqualMetadata,
        Emitted
<1>9. ASSUME NEW p \in Emitted(t) \ DOMAIN writes'[r], p # q PROVE Behind(r, p)'
  <2>1. p \notin DOMAIN writes[r]
    BY <1>4, <1>9
  <2>2. Behind(r, p) /\ disk'[p] = disk[p]
    BY <1>6, <1>9, <2>1 DEF Resumable
  <2> QED
    BY <1>1, <1>2, <2>2 DEF Behind, Contents
<1>10. ASSUME NEW p \in Path, disk'[p] = Link PROVE disk[p] = Link
  BY <1>3, <1>5, <1>10
<1>11. ASSUME NEW p \in Path, Linked(p)' PROVE Linked(p)
  BY <1>10, <1>11 DEF Linked
<1>12. ASSUME NEW p \in removals[r] PROVE disk'[p] = disk[p]
  <2>1. p \in Path /\ p \in DOMAIN manifest \ Emitted(t) /\ disk[p] = manifest[p].sha
    BY DEF TypeOK, Resumable
  <2>2. manifest[p] \in Entry
    BY <1>2, <2>1, OwnershipFields
  <2>3. disk[p] # Absent /\ p # q
    BY <1>3, <2>1, <2>2 DEF Entry
  <2> QED
    BY <1>5, <2>1, <2>3
<1>13. ASSUME NEW p \in Obsolete(manifest, t)'
       PROVE  \/ disk'[p] = manifest[p].sha
              \/ disk'[p] = Dir /\ \E x \in Emitted(t) : Parent[x] = p
  <2>1. p \in DOMAIN manifest /\ p \in Path /\ p \notin Emitted(t)
    BY <1>1, <1>2, OwnershipFields DEF Obsolete, Emitted
  <2>2. CASE p = Parent[q] /\ disk[p] = Absent
    BY <1>3, <1>5, <2>1, <2>2
  <2>3. CASE ~(p = Parent[q] /\ disk[p] = Absent)
    <3>1. disk'[p] = disk[p]
      BY <1>3, <1>5, <2>1, <2>3
    <3>2. p \in Obsolete(manifest, t)
      BY <1>1, <3>1 DEF Obsolete, Emitted
    <3> QED
      BY <3>1, <3>2 DEF Resumable
  <2> QED
    BY <2>2, <2>3
<1>14. DOMAIN manifest \subseteq Path
  BY <1>2, OwnershipFields
<1>15. Emitted(t)' = Emitted(t) /\ DOMAIN writes'[r] \subseteq DOMAIN writes[r]
  BY <1>1, <1>4 DEF Emitted
<1> QED
  BY <1>1, <1>2, <1>7, <1>8, <1>9, <1>11, <1>12, <1>13, <1>14, <1>15 DEF Resumable


LEMMA RemoveResumable ==
    ASSUME TypeOK, RunHasTree, NEW r \in Run, phase[r] = "writing", Resumable(r), RemoveFile(r)
    PROVE  Resumable(r)'
<1> PICK t : t = tree[r]
  OBVIOUS
<1>1. PICK q \in removals[r] :
         /\ disk' = [disk EXCEPT ![q] = Absent]
         /\ removals' = [removals EXCEPT ![r] = @ \ {q}]
         /\ UNCHANGED <<manifest, tree, writes, record>>
  BY DEF RemoveFile
<1>2. /\ t \in Tree /\ tree'[r] = t /\ manifest \in Ownership /\ Emitted(t) \subseteq Path
      /\ removals'[r] = removals[r] \ {q} /\ q \in Path /\ q \notin Emitted(t)
      /\ \A p \in Path \ {q} : disk'[p] = disk[p]
      /\ disk'[q] = Absent
  BY <1>1, TreeFields DEF RunHasTree, TypeOK, Resumable
<1>3. ASSUME NEW p \in Emitted(t)
      PROVE  IF p \in DOMAIN writes'[r] THEN Ahead(r, p)' ELSE Behind(r, p)'
  <2>1. disk'[p] = disk[p]
    BY <1>2
  <2>2. IF p \in DOMAIN writes[r] THEN Ahead(r, p) ELSE Behind(r, p)
    BY DEF Resumable
  <2> QED
    BY <1>1, <1>2, <2>1, <2>2
    DEF Ahead, Behind, Planned, Skipped, Conflict, Mergeable, Edited, Foreign, Contents,
        EqualMetadata, Emitted
<1>4. ASSUME NEW p \in Path, Linked(p)' PROVE Linked(p)
  <2>1. \A x \in Path : disk'[x] = Link => disk[x] = Link
    BY <1>2
  <2> QED
    BY <1>4, <2>1 DEF Linked
<1>5. ASSUME NEW p \in removals'[r]
      PROVE  p \in DOMAIN manifest \ Emitted(t) /\ disk'[p] = manifest[p].sha
  <2>1. p \in removals[r] /\ p # q /\ p \in Path
    BY <1>2 DEF TypeOK
  <2> QED
    BY <1>2, <2>1 DEF Resumable
<1>6. ASSUME NEW p \in Obsolete(manifest, t)'
      PROVE  p \in Obsolete(manifest, t) /\ disk'[p] = disk[p]
  <2>1. p \in Path /\ p # q
    BY <1>1, <1>2, OwnershipFields DEF Obsolete
  <2> QED
    BY <1>1, <1>2, <2>1 DEF Obsolete, Emitted
<1>7. DOMAIN manifest \subseteq Path /\ Emitted(t)' = Emitted(t)
  BY <1>1, <1>2, OwnershipFields DEF Emitted
<1> QED
  BY <1>1, <1>2, <1>3, <1>4, <1>5, <1>6, <1>7 DEF Resumable

LEMMA StaysResumable ==
    ASSUME NEW r \in Run, Resumable(r), manifest' = manifest, disk' = disk,
           tree'[r] = tree[r], writes'[r] = writes[r], removals'[r] = removals[r],
           record'[r] = record[r]
    PROVE  Resumable(r)'
<1> PICK t : t = tree[r]
  OBVIOUS
<1>1. /\ Obsolete(manifest, t)' = Obsolete(manifest, t) /\ Emitted(t)' = Emitted(t)
      /\ \A p : Linked(p)' <=> Linked(p)
  BY DEF Obsolete, Emitted, Linked
<1>2. \A p : (Ahead(r, p) => Ahead(r, p)') /\ (Behind(r, p) => Behind(r, p)')
  BY DEF Ahead, Behind, Planned, Skipped, Conflict, Mergeable, Edited, Foreign, Contents,
         EqualMetadata, Emitted
<1> QED
  BY <1>1, <1>2 DEF Resumable

LEMMA NextResumable ==
    ASSUME TypeOK, RunHasTree, ResumeInv, [Next]_vars
    PROVE  ResumeInv'
<1> SUFFICES ASSUME NEW r \in Run, Undisturbed(r)' PROVE Resumable(r)'
  BY DEF ResumeInv
<1>1. CASE Plan(r)
  BY <1>1, PlanResumable
<1>2. CASE OwnStep(r)
  <2>1. Undisturbed(r) /\ phase[r] = "writing" /\ Resumable(r)
    BY <1>2 DEF OwnStep, ResumeInv, Undisturbed
  <2> QED
    BY <1>2, <2>1, WriteResumable, RemoveResumable, StaysResumable DEF OwnStep
<1> QED
  BY <1>1, <1>2, UndisturbedSteps

\* The tree of a run that was stopped, or that completed, while nobody else
\* was writing: nothing has been written since.
Resumed(t) ==
    \/ Accepted(manifest, t, TRUE)
    \/ \E p \in Emitted(t) : Parent[p] \in DOMAIN manifest /\ disk[Parent[p]] = Dir
Clean(t) == Accepted(manifest, t, TRUE) /\ Changes(manifest, t) = {}

QuietInv ==
    /\ unfinished # NoTree => (\A r \in Run : phase[r] # "writing") /\ Resumed(unfinished)
    /\ settled # NoTree => (\A r \in Run : phase[r] # "writing") /\ Clean(settled)

LEMMA StopIsResumed ==
    ASSUME TypeOK, RunHasTree, NEW r \in Run, phase[r] = "writing", Resumable(r)
    PROVE  Resumed(tree[r])
<1> PICK t : t = tree[r]
  OBVIOUS
<1>1. t \in Tree /\ manifest \in Ownership /\ manifest # Torn
  BY DEF RunHasTree, Resumable
<1>2. ASSUME NEW p \in Emitted(t) PROVE ~Conflict(manifest, t, p, TRUE)
  <2>1. CASE p \in DOMAIN writes[r]
    BY <2>1 DEF Resumable, Ahead
  <2>2. CASE p \notin DOMAIN writes[r]
    <3>1. Behind(r, p)
      BY <2>2 DEF Resumable
    <3>2. CASE p \in t.once
      BY <3>1, <3>2 DEF Behind, Conflict, Planned, Skipped
    <3>3. CASE p \notin t.once
      BY <3>1, <3>3 DEF Behind, Conflict, Mergeable, Edited, Foreign, Contents
    <3> QED
      BY <3>2, <3>3
  <2> QED
    BY <2>1, <2>2
<1>3. ASSUME NEW p \in Obsolete(manifest, t), disk[p] # Dir PROVE disk[p] = manifest[p].sha
  BY <1>3 DEF Resumable
<1>4. CASE \E p \in Obsolete(manifest, t) : disk[p] = Dir
  <2>1. PICK p \in Obsolete(manifest, t) : disk[p] = Dir
    BY <1>4
  <2>2. p \in DOMAIN manifest /\ manifest[p] \in Entry
    BY <1>1, OwnershipFields DEF Obsolete
  <2>3. disk[p] # manifest[p].sha
    BY <2>1, <2>2 DEF Entry
  <2>4. \E q \in Emitted(t) : Parent[q] = p
    BY <2>3 DEF Resumable
  <2> QED
    BY <2>1, <2>2, <2>4 DEF Resumed
<1>5. CASE \A p \in Obsolete(manifest, t) : disk[p] # Dir
  BY <1>1, <1>2, <1>3, <1>5 DEF Resumed, Accepted, Resumable
<1> QED
  BY <1>4, <1>5

LEMMA DoneIsClean ==
    ASSUME TypeOK, RunHasTree, NEW r \in Run, Recording(r), Resumable(r), manifest' = record[r],
           disk' = disk, NEW t, t = tree[r]
    PROVE  Clean(t)'
<1> PICK m : m = manifest'
  OBVIOUS
<1>1. /\ t \in Tree /\ manifest \in Ownership /\ record[r] \in Ownership
      /\ m # Torn /\ DOMAIN writes[r] = {}
  BY DEF RunHasTree, Resumable, Recording, TypeOK
<1>2. DOMAIN m \subseteq (DOMAIN manifest \cap t.keep) \cup Emitted(t)
  BY DEF Resumable
<1>3. ASSUME NEW p \in Emitted(t) PROVE Behind(r, p)
  BY <1>1 DEF Resumable
<1>4. ASSUME NEW p \in Emitted(t), p \in Planned(t)
      PROVE  disk[p] = Contents(t, p) /\ (p \in Npm => disk[p] \in NpmText)
  BY <1>3, <1>4 DEF Behind, Planned, Skipped
<1>5. ASSUME NEW p \in Emitted(t) PROVE ~Conflict(m, t, p, TRUE)
  BY <1>3, <1>4 DEF Conflict, Behind, Mergeable, Edited, Foreign, Contents, Planned
<1>6. Obsolete(m, t) = {}
  BY <1>2 DEF Obsolete
<1>7. \A p \in DOMAIN m \cup Emitted(t) : ~Linked(p)
  BY <1>2 DEF Resumable
<1>8. Emitted(t) \cap t.keep = {}
  BY DEF Resumable
<1>9. Accepted(m, t, TRUE)
  BY <1>1, <1>5, <1>6, <1>7, <1>8 DEF Accepted
<1>10. Changes(m, t) = {}
  BY <1>4, <1>6 DEF Changes, Planned
<1>11. /\ Planned(t)' = Planned(t) /\ Obsolete(m, t)' = Obsolete(m, t)
       /\ Emitted(t)' = Emitted(t)
       /\ \A p : Contents(t, p)' = Contents(t, p) /\ Linked(p)' = Linked(p)
  BY DEF Obsolete, Planned, Skipped, Emitted, Contents, Linked
<1>12. \A p : Conflict(m, t, p, TRUE)' = Conflict(m, t, p, TRUE)
  BY <1>11 DEF Conflict, Mergeable, Edited, Foreign, EqualMetadata
<1>13. Accepted(m, t, TRUE)'
  BY <1>9, <1>11, <1>12 DEF Accepted
<1>14. Changes(m, t)' = {}
  BY <1>10, <1>11, <1>12 DEF Changes
<1> QED
  BY <1>13, <1>14 DEF Clean, Accepted, Changes, Conflict, Obsolete

LEMMA QuietStays ==
    ASSUME QuietInv, UNCHANGED <<disk, manifest, unfinished, settled>>,
           \A q \in Run : phase'[q] = "writing" => phase[q] = "writing"
    PROVE  QuietInv'
<1>1. ASSUME NEW t, Accepted(manifest, t, TRUE) PROVE Accepted(manifest, t, TRUE)'
  BY <1>1
  DEF Accepted, Conflict, Mergeable, Edited, Foreign, Contents, EqualMetadata, Obsolete, Planned,
      Skipped, Emitted, Linked
<1>2. \A t : Changes(manifest, t)' = Changes(manifest, t)
  BY DEF Changes, Contents, Obsolete, Planned, Skipped, Emitted
<1>3. \A t : Resumed(t) => Resumed(t)'
  BY <1>1 DEF Resumed, Emitted
<1>4. \A t : Clean(t) => Clean(t)'
  BY <1>1, <1>2 DEF Clean
<1> QED
  BY <1>3, <1>4 DEF QuietInv

LEMMA NextQuiet ==
    ASSUME TypeOK, RunHasTree, ResumeInv, QuietInv, [Next]_vars
    PROVE  QuietInv'
<1>1. ASSUME NEW r \in Run, phase[r] = "writing" PROVE unfinished = NoTree /\ settled = NoTree
  BY <1>1 DEF QuietInv
<1>2. ASSUME NEW r \in Run, WriteFile(r) \/ RemoveFile(r) \/ Fail(r) \/ TearFile(r) \/ TearManifest(r)
      PROVE  QuietInv'
  <2>1. phase[r] = "writing" /\ UNCHANGED <<unfinished, settled>>
    BY <1>2
    DEF WriteFile, RemoveFile, Fail, TearFile, TearManifest, Writing, Removing, Recording
  <2> QED
    BY <1>1, <2>1 DEF QuietInv
<1>3. ASSUME NEW r \in Run, Return(r), OthersQuiet(r) PROVE \A q \in Run : phase'[q] # "writing"
  BY <1>3 DEF Return, OthersQuiet, TypeOK
<1>4. ASSUME NEW r \in Run, WriteManifest(r) PROVE QuietInv'
  <2>1. /\ Recording(r) /\ phase[r] = "writing" /\ manifest' = record[r] /\ disk' = disk
        /\ Return(r) /\ unfinished' = unfinished
        /\ settled' = Unless(late[r] = {} /\ OthersQuiet(r), tree[r])
    BY <1>4 DEF WriteManifest, Recording
  <2>2. unfinished' = NoTree
    BY <1>1, <2>1
  <2>3. CASE late[r] = {} /\ OthersQuiet(r)
    <3>1. Resumable(r)
      BY <2>1, <2>3 DEF ResumeInv, Undisturbed
    <3>2. PICK t : t = tree[r]
      OBVIOUS
    <3>3. Clean(t)'
      BY <2>1, <3>1, <3>2, DoneIsClean
    <3>4. settled' = t
      BY <2>1, <2>3, <3>2 DEF Unless
    <3>5. Clean(settled)'
      BY <3>3, <3>4
    <3> QED
      BY <1>3, <2>1, <2>2, <2>3, <3>5 DEF QuietInv
  <2>4. CASE ~(late[r] = {} /\ OthersQuiet(r))
    <3>1. settled' = NoTree
      BY <2>1, <2>4 DEF Unless
    <3> QED
      BY <2>2, <3>1 DEF QuietInv
  <2> QED
    BY <2>3, <2>4
<1>5. ASSUME NEW r \in Run, Stop(r) PROVE QuietInv'
  <2>1. /\ phase[r] = "writing" /\ manifest' = manifest /\ disk' = disk
        /\ Return(r) /\ settled' = settled
        /\ unfinished' = Unless(late[r] = {} /\ OthersQuiet(r), tree[r])
    BY <1>5 DEF Stop, Interrupted
  <2>2. settled' = NoTree
    BY <1>1, <2>1
  <2>3. CASE late[r] = {} /\ OthersQuiet(r)
    <3>1. PICK t : t = tree[r]
      OBVIOUS
    <3>2. Resumable(r) /\ Resumed(t)
      BY <2>1, <2>3, <3>1, StopIsResumed DEF ResumeInv, Undisturbed
    <3>3. Resumed(t)'
      BY <2>1, <3>2
      DEF Resumed, Accepted, Conflict, Mergeable, Edited, Foreign, Contents, EqualMetadata,
          Obsolete, Planned, Skipped, Emitted, Linked
    <3>4. unfinished' = t
      BY <2>1, <2>3, <3>1 DEF Unless
    <3>5. Resumed(unfinished)'
      BY <3>3, <3>4
    <3> QED
      BY <1>3, <2>1, <2>2, <2>3, <3>5 DEF QuietInv
  <2>4. CASE ~(late[r] = {} /\ OthersQuiet(r))
    <3>1. unfinished' = NoTree
      BY <2>1, <2>4 DEF Unless
    <3> QED
      BY <2>2, <3>1 DEF QuietInv
  <2> QED
    BY <2>3, <2>4
<1>6. ASSUME NEW r \in Run, Plan(r) PROVE QuietInv'
  BY <1>6 DEF Plan, QuietInv
<1>7. ASSUME NEW r \in Run, Report(r) \/ Refuse(r) \/ \E t \in Tree : Check(r, t) PROVE QuietInv'
  <2>1. UNCHANGED <<disk, manifest, unfinished, settled>>
    BY <1>7 DEF Report, Refuse, Check, history
  <2>2. \A q \in Run : phase'[q] = "writing" => phase[q] = "writing"
    <3>1. PICK to \in {"idle", "checked"} : phase' = [phase EXCEPT ![r] = to]
      BY <1>7 DEF Report, Refuse, Check, Return
    <3> QED
      BY <3>1 DEF TypeOK
  <2> QED
    BY ONLY <2>1, <2>2, QuietInv, QuietStays
<1>8. ASSUME AuthorStep PROVE QuietInv'
  BY <1>8 DEF AuthorStep, Save, Delete, LoseManifest, Edit, QuietInv
<1>9. CASE UNCHANGED vars
  BY <1>9, QuietStays DEF vars, runVars, history
<1> QED
  BY <1>2, <1>4, <1>5, <1>6, <1>7, <1>8, <1>9 DEF Next, RunStep

-----------------------------------------------------------------------------
(* What a skipped package keeps.                                            *)

\* Nothing planned is under a retained prefix, and while the record on disk is
\* the one the run planned with, the new one agrees with it there.
KeepInv ==
    \A r \in Run : phase[r] = "writing" =>
       /\ Emitted(tree[r]) \cap tree[r].keep = {}
       /\ DOMAIN writes[r] \subseteq Emitted(tree[r])
       /\ removals[r] \cap tree[r].keep = {}
       /\ Ledger \notin late[r] /\ manifest # Torn =>
             \A p \in tree[r].keep \cap DOMAIN manifest :
                p \in DOMAIN record[r] /\ record[r][p] = manifest[p]

\* What a step leaves of a run that goes on.
GoesOn(q) ==
    phase'[q] = "writing" =>
       /\ phase[q] = "writing"
       /\ tree'[q] = tree[q] /\ record'[q] = record[q]
       /\ DOMAIN writes'[q] \subseteq DOMAIN writes[q]
       /\ removals'[q] \subseteq removals[q]
       /\ Ledger \notin late'[q] => Ledger \notin late[q] /\ manifest' = manifest

LEMMA KeepStays ==
    ASSUME KeepInv, \A q \in Run : GoesOn(q)
    PROVE  KeepInv'
BY DEF KeepInv, GoesOn, Emitted

LEMMA ReturnGoesOn ==
    ASSUME TypeOK, NEW r \in Run, Return(r), NEW things,
           \/ late' = TouchLast(r, things) /\ (Ledger \in things \/ manifest' = manifest)
           \/ late' = late /\ manifest' = manifest
    PROVE  \A q \in Run : GoesOn(q)
<1> SUFFICES ASSUME NEW q \in Run, phase'[q] = "writing" PROVE GoesOn(q)
  BY DEF GoesOn
<1>1. q # r
  BY DEF Return, TypeOK
<1>2. /\ phase[q] = "writing" /\ tree'[q] = tree[q] /\ record'[q] = record[q]
      /\ writes'[q] = writes[q] /\ removals'[q] = removals[q]
  BY <1>1 DEF Return, TypeOK
<1>3. TouchLast(r, things)[q] = Touch({r}, things)[q]
  BY <1>1 DEF TouchLast, Touch
<1>4. Ledger \notin late'[q] => Ledger \notin late[q] /\ manifest' = manifest
  BY <1>1, <1>2, <1>3 DEF Touch
<1> QED
  BY <1>2, <1>4 DEF GoesOn

LEMMA PlanKeeps ==
    ASSUME TypeOK, KeepInv, NEW r \in Run, Plan(r)
    PROVE  KeepInv'
<1> PICK t : t = tree[r]
  OBVIOUS
<1>1. /\ Emitted(t) \cap t.keep = {}
      /\ writes'[r] = [p \in Planned(t) |-> Contents(t, p)]
      /\ removals'[r] = Obsolete(manifest, t)
      /\ record'[r] = NewManifest(manifest, t)
      /\ tree' = tree /\ manifest' = manifest
  BY DEF Plan, Accepted, TypeOK
<1>2. DOMAIN writes'[r] \subseteq Emitted(t) /\ removals'[r] \cap t.keep = {}
  BY <1>1 DEF Planned, Obsolete
<1>3. ASSUME NEW p \in t.keep \cap DOMAIN manifest
      PROVE  p \in DOMAIN record'[r] /\ record'[r][p] = manifest[p]
  <2>1. p \notin Planned(t)
    BY <1>1 DEF Planned
  <2> QED
    BY <1>1, <2>1 DEF NewManifest
<1>4. ASSUME NEW q \in Run, q # r
      PROVE  /\ phase'[q] = phase[q] /\ writes'[q] = writes[q] /\ record'[q] = record[q]
             /\ removals'[q] = removals[q] /\ late'[q] = late[q]
  BY <1>4 DEF Plan, TypeOK
<1>5. \A x : Emitted(x)' = Emitted(x)
  BY DEF Emitted
<1> QED
  BY <1>1, <1>2, <1>3, <1>4, <1>5 DEF KeepInv

LEMMA NextKeeps ==
    ASSUME TypeOK, KeepInv, [Next]_vars
    PROVE  KeepInv'
<1>1. ASSUME NEW r \in Run, Plan(r) PROVE KeepInv'
  BY <1>1, PlanKeeps
<1>2. ASSUME NEW r \in Run,
             Report(r) \/ Refuse(r) \/ Fail(r) \/ WriteManifest(r) \/ Stop(r) \/ TearFile(r)
               \/ TearManifest(r)
      PROVE  KeepInv'
  <2>1. Return(r)
    BY <1>2 DEF Report, Refuse, Fail, WriteManifest, Stop, TearFile, TearManifest, Interrupted
  <2>2. \E things : \/ late' = TouchLast(r, things) /\ (Ledger \in things \/ manifest' = manifest)
                    \/ late' = late /\ manifest' = manifest
    BY <1>2 DEF Report, Refuse, Fail, WriteManifest, Stop, TearFile, TearManifest, history
  <2> QED
    BY <2>1, <2>2, ReturnGoesOn, KeepStays
<1>3. ASSUME NEW r \in Run, NEW t \in Tree, Check(r, t) PROVE KeepInv'
  <2>1. \A q \in Run : GoesOn(q)
    BY <1>3 DEF Check, GoesOn, TypeOK, history
  <2> QED
    BY <2>1, KeepStays
<1>4. ASSUME NEW r \in Run, WriteFile(r) PROVE KeepInv'
  <2>1. PICK p \in DOMAIN writes[r] :
           /\ writes' = [writes EXCEPT ![r] = [q \in DOMAIN @ \ {p} |-> @[q]]]
           /\ late' = Touch({r}, {p})
           /\ UNCHANGED <<manifest, phase, tree, removals, record>>
    BY <1>4 DEF WriteFile
  <2>2. \A q \in Run : DOMAIN writes'[q] \subseteq DOMAIN writes[q] /\ late[q] \subseteq late'[q]
    BY <2>1 DEF TypeOK, Touch
  <2> QED
    BY <2>1, <2>2, KeepStays DEF GoesOn
<1>5. ASSUME NEW r \in Run, RemoveFile(r) PROVE KeepInv'
  <2>1. PICK p \in removals[r] :
           /\ removals' = [removals EXCEPT ![r] = @ \ {p}]
           /\ late' = Touch({r}, {p})
           /\ UNCHANGED <<manifest, phase, tree, writes, record>>
    BY <1>5 DEF RemoveFile
  <2>2. \A q \in Run : removals'[q] \subseteq removals[q] /\ late[q] \subseteq late'[q]
    BY <2>1 DEF TypeOK, Touch
  <2> QED
    BY <2>1, <2>2, KeepStays DEF GoesOn
<1>6. ASSUME AuthorStep PROVE KeepInv'
  <2>1. PICK things :
           /\ late' = Touch({}, things) /\ (Ledger \in things \/ manifest' = manifest)
           /\ UNCHANGED <<phase, tree, writes, removals, record>>
    BY <1>6 DEF AuthorStep, Save, Delete, LoseManifest, Edit, runVars
  <2> QED
    BY <2>1, KeepStays DEF GoesOn, Touch
<1>7. CASE UNCHANGED vars
  BY <1>7, KeepStays DEF GoesOn, vars, runVars, history
<1> QED
  BY <1>1, <1>2, <1>3, <1>4, <1>5, <1>6, <1>7 DEF Next, RunStep


LEMMA StepKeepsSkipped ==
    ASSUME IInv, KeepInv, NEW r \in Run, tree[r] # NoTree, RunStep(r), NEW p \in tree[r].keep
    PROVE  /\ disk'[p] = disk[p]
           /\ (Ledger \notin late[r] /\ manifest # Torn /\ manifest' # Torn
               /\ p \in DOMAIN manifest)
              => p \in DOMAIN manifest' /\ manifest'[p] = manifest[p]
<1> PICK t : t = tree[r]
  OBVIOUS
<1>0. t \in Tree /\ p \in Path /\ p \in t.keep /\ TypeOK
  BY TreeFields DEF IInv, TypeOK
<1>1. disk'[p] = disk[p]
  <2>1. ASSUME NEW q \in DOMAIN writes[r], NEW c, phase[r] = "writing", disk' = Put(q, c)
        PROVE  disk'[p] = disk[p]
    <3>1. q \in Emitted(t) /\ Emitted(t) \cap t.keep = {} /\ q \in Path
      BY <1>0, <2>1, TreeFields DEF KeepInv
    <3>2. p # q /\ p # Parent[q]
      BY <1>0, <3>1
    <3> QED
      BY <1>0, <2>1, <3>1, <3>2 DEF Put
  <2>2. CASE RemoveFile(r)
    BY <1>0, <2>2 DEF RemoveFile, Removing, KeepInv, TypeOK
  <2>3. CASE WriteFile(r) \/ TearFile(r)
    BY <2>1, <2>3 DEF WriteFile, TearFile, Writing
  <2>4. CASE disk' = disk
    BY <2>4
  <2> QED
    BY <2>2, <2>3, <2>4
    DEF RunStep, Check, Report, Plan, Refuse, Fail, WriteManifest, Stop, TearManifest
<1>2. ASSUME Ledger \notin late[r], manifest # Torn, manifest' # Torn, p \in DOMAIN manifest
      PROVE  p \in DOMAIN manifest' /\ manifest'[p] = manifest[p]
  <2>1. CASE WriteManifest(r)
    BY <1>0, <1>2, <2>1 DEF WriteManifest, Recording, KeepInv
  <2>2. CASE manifest' = manifest
    BY <1>2, <2>2
  <2> QED
    BY <1>2, <2>1, <2>2
    DEF RunStep, Check, Report, Plan, Refuse, WriteFile, RemoveFile, Fail, Stop, TearFile,
        TearManifest
<1> QED
  BY <1>1, <1>2

\* A run that skips a package touches nothing under its prefix, and its record
\* of what is there is the previous one, for every set of trees and runs.
THEOREM SkippedPackagesAreKept == Spec => SkippedPackageKept
<1>1. Init => KeepInv
  BY DEF Init, KeepInv
<1>2. IInv /\ KeepInv /\ [Next]_vars => KeepInv'
  BY NextKeeps DEF IInv
<1>3. IInv /\ KeepInv /\ [Next]_vars =>
         [\A r \in Run : tree[r] # NoTree /\ RunStep(r) =>
             \A p \in tree[r].keep :
                 /\ disk'[p] = disk[p]
                 /\ (Ledger \notin late[r] /\ manifest # Torn /\ manifest' # Torn
                     /\ p \in DOMAIN manifest)
                    => p \in DOMAIN manifest' /\ manifest'[p] = manifest[p]]_vars
  BY StepKeepsSkipped
<1> QED
  BY <1>1, <1>2, <1>3, Invariance, PTL DEF Spec, SkippedPackageKept

\* What an undisturbed run has done never makes its plan be refused; what was
\* stopped, or completed, stays as it was until somebody writes again.
THEOREM ResumeInvariant == Spec => [](ResumeInv /\ QuietInv)
<1>1. Init => ResumeInv /\ QuietInv
  BY DEF Init, ResumeInv, Undisturbed, QuietInv
<1>2. IInv /\ ResumeInv /\ [Next]_vars => ResumeInv'
  BY NextResumable DEF IInv
<1>3. IInv /\ ResumeInv /\ QuietInv /\ [Next]_vars => QuietInv'
  BY NextQuiet DEF IInv
<1> QED
  BY <1>1, <1>2, <1>3, Invariance, PTL DEF Spec

\* A run stopped between two steps can be run again, wherever it was, unless a
\* directory it made has the name of a recorded file that is gone.
THEOREM RerunsAreAccepted == Spec => []RerunAccepted
<1>1. QuietInv => RerunAccepted
  BY DEF QuietInv, Resumed, RerunAccepted
<1> QED
  BY <1>1, ResumeInvariant, PTL

\* After a run completes undisturbed, its tree is accepted and changes nothing.
THEOREM DoneMeansClean == Spec => []CleanAfterDone
<1>1. QuietInv => CleanAfterDone
  BY DEF QuietInv, Clean, CleanAfterDone
<1> QED
  BY <1>1, ResumeInvariant, PTL

\* A step of a run fails only after a disturbance, or for want of a directory.
LEMMA FailIsDisturbed ==
    ASSUME IInv, ResumeInv, NEW r \in Run, Fail(r)
    PROVE  \/ late[r] # {}
           \/ \E p \in DOMAIN writes[r] : Parent[p] # NoParent /\ ~Writable(p)
<1> SUFFICES ASSUME late[r] = {},
                    \A p \in DOMAIN writes[r] : Parent[p] # NoParent => Writable(p)
             PROVE  FALSE
  OBVIOUS
<1>1. phase[r] = "writing" /\ Resumable(r)
  BY DEF Fail, Writing, Removing, ResumeInv, Undisturbed
<1>2. CASE \E p \in DOMAIN writes[r] : Writing(r, p) /\ ~Writable(p)
  <2>1. PICK p \in DOMAIN writes[r] : ~Writable(p)
    BY <1>2
  <2>2. disk[p] = Dir
    BY <2>1 DEF Writable
  <2>3. Ahead(r, p)
    BY <1>1 DEF Resumable
  <2> QED
    BY <2>2, <2>3 DEF Ahead, Conflict
<1>3. CASE \E p \in removals[r] : Removing(r, p) /\ disk[p] \in {Absent, Dir}
  <2>1. PICK p \in removals[r] : disk[p] \in {Absent, Dir}
    BY <1>3
  <2>2. p \in DOMAIN manifest /\ disk[p] = manifest[p].sha /\ manifest \in Ownership
    BY <1>1 DEF Resumable
  <2>3. manifest[p].sha \in Text
    BY <2>2, OwnershipFields DEF Entry
  <2> QED
    BY <2>1, <2>2, <2>3
<1> QED
  BY <1>2, <1>3 DEF Fail

\* An undisturbed run comes to no write or removal that is impossible, but for
\* a file that lies where the directory of a planned one must be.
THEOREM UndisturbedRunsComplete == Spec => UndisturbedRunCompletes
<1>1. IInv /\ ResumeInv /\ [Next]_vars =>
         [\A r \in Run : Fail(r) =>
             \/ late[r] # {}
             \/ \E p \in DOMAIN writes[r] : Parent[p] # NoParent /\ ~Writable(p)]_vars
  BY FailIsDisturbed
<1> QED
  BY <1>1, Invariance, ResumeInvariant, PTL DEF Spec, UndisturbedRunCompletes

=============================================================================
