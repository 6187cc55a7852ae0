---------------------------- MODULE Materialize ----------------------------
(***************************************************************************)
(* Ownership-aware materialization of a generated tree (crates/core/src/   *)
(* files.rs): a run previews the tree with `check`, plans again with       *)
(* `write_to`, writes files one by one, removes obsolete ones and writes   *)
(* the ownership manifest last.  Nothing locks the output directory, so    *)
(* the author, and other runs, act between any two of those steps, and a   *)
(* run may stop between or inside two of them.                             *)
(*                                                                         *)
(* A file's bytes are one value of Text and its SHA-256 fingerprint is     *)
(* that value (fingerprints are taken to be collision free).  Owners'      *)
(* names and the syntactic checks of paths are left out.                   *)
(***************************************************************************)
EXTENDS Integers

CONSTANTS
    Path,        \* relative paths under the output root
    Rank,        \* position of a path in the order of a BTreeMap
    Parent,      \* the member of Path a path lies under, or NoParent
    NoParent,
    Text,        \* bytes a generator emits or an author saves
    UserText,    \* path |-> what the author may save there (Link included)
    Npm,         \* paths named package.json outside .poolster
    NpmText,     \* texts that parse as an npm manifest with valid sections
    Merge(_, _), \* merge_npm_manifest(existing, generated); see NpmManifest
    Reformat,    \* pairs of package metadata texts that parse to equal JSON
    Metadata,    \* paths ending in .poolster/package.json
    ReplayLock,  \* {.poolster/generation.lock.json} \cap Path
    Tree,        \* generated trees a run may be asked to materialize
    NoTree,
    Run,         \* processes that generate into this directory
    Ledger,      \* the ownership manifest's own path, no member of Path
    Absent, Torn, Dir, Link, \* no file; a cut-short write; a directory; a symlink
    MaxEdits,    \* bound on the author's steps
    MaxStops     \* bound on interrupted runs

\* Some paths, each with its text.
Files == UNION {[S -> Text] : S \in SUBSET Path}

(***************************************************************************)
(* A tree: the text of every emitted path (for Npm the generated manifest),*)
(* the paths inserted with insert_custom, and the paths under the prefixes *)
(* retained for skipped packages.                                          *)
(***************************************************************************)
TreeShape ==
    [files : Files,
     once  : SUBSET Path,
     keep  : SUBSET Path]

Entry == [sha : Text, once : BOOLEAN]
Ownership == UNION {[S -> Entry] : S \in SUBSET Path}
NoFiles == [p \in {} |-> Absent]
Content == Text \cup {Absent, Torn, Dir, Link}

ASSUME PathAssumption ==
    /\ Rank \in [Path -> Int]
    /\ \A p, q \in Path : Rank[p] = Rank[q] => p = q
    /\ Parent \in [Path -> Path \cup {NoParent}]
    /\ NoParent \notin Path
    \* A directory precedes what lies under it.
    /\ \A p \in Path : Parent[p] # NoParent => Rank[Parent[p]] < Rank[p]
    /\ Ledger \notin Path
ASSUME TextAssumption ==
    /\ {Absent, Torn, Dir, Link} \cap Text = {}
    /\ Absent \notin {Torn, Dir, Link} /\ Torn \notin {Dir, Link} /\ Dir # Link
    /\ UserText \in [Path -> SUBSET (Text \cup {Link})]
    /\ NpmText \subseteq Text
    /\ Torn \notin Ownership
\* The merge yields a manifest, and merging once more changes nothing: MergeNpm,
\* which is what the code merges with, is proved to in DeliveryProofs
\* (MergeRepeats).
ASSUME MergeAssumption ==
    \A g \in NpmText, e \in NpmText \cup {Absent} :
        Merge(e, g) \in NpmText /\ Merge(Merge(e, g), g) = Merge(e, g)
ASSUME TreeAssumption ==
    /\ Tree \subseteq TreeShape
    /\ NoTree \notin Tree
    /\ \A t \in Tree :
          /\ t.once \subseteq DOMAIN t.files
          /\ \A p \in Path : Parent[p] \in t.keep => p \in t.keep
          /\ \A p \in Npm \cap DOMAIN t.files : t.files[p] \in NpmText
ASSUME BoundAssumption == MaxEdits \in Nat /\ MaxStops \in Nat

VARIABLES
    disk,      \* path |-> what is there
    manifest,  \* .poolster/ownership.json; NoFiles when there is none
    phase,     \* run |-> "idle", "checked" (previewed) or "writing"
    tree,      \* run |-> the tree it materializes
    writes,    \* run |-> planned files it has still to write
    removals,  \* run |-> planned removals it has still to do
    record,    \* run |-> the manifest it will write
    edits,     \* author steps so far (bound)
    stops,     \* interruptions so far (bound)
    \* History: no action reads these.
    mine,      \* paths whose bytes are the author's, not a generator's
    late,      \* run |-> what others changed since it planned
    unfinished,\* tree of a run stopped between two steps, all else untouched
    settled    \* tree of a run that completed, all else untouched

runVars == <<phase, tree, writes, removals, record>>
bounds == <<edits, stops>>
history == <<mine, late, unfinished, settled>>
vars == <<disk, manifest, runVars, bounds, history>>

-----------------------------------------------------------------------------
(* The plan: GeneratedTree::plan(root, enforce_edits) against disk.         *)

Emitted(t) == DOMAIN t.files

\* A create-once file that is already there keeps its bytes and its entry.
Skipped(t, p) == p \in t.once /\ disk[p] # Absent

Planned(t) == {p \in Emitted(t) : ~Skipped(t, p)}

Contents(t, p) ==
    IF p \in Npm THEN Merge(disk[p], t.files[p]) ELSE t.files[p]

Mergeable(p) == disk[p] \in NpmText \cup {Absent}

EqualMetadata(p, existing, contents) ==
    p \in Metadata /\ <<existing, contents>> \in Reformat

\* Faulty variant: a file the first attempt already wrote looks edited.
EditedEvenIfEqual(m, t, p) ==
    /\ p \in DOMAIN m
    /\ disk[p] # m[p].sha
    /\ ~EqualMetadata(p, disk[p], Contents(t, p))

\* The author changed a file the tree emits again.
Edited(m, t, p) ==
    /\ p \in DOMAIN m
    /\ disk[p] # Contents(t, p)
    /\ disk[p] # m[p].sha
    /\ ~EqualMetadata(p, disk[p], Contents(t, p))

\* The file at an emitted path never was the generator's.
Foreign(m, t, p) ==
    /\ p \notin DOMAIN m
    /\ disk[p] # t.files[p]
    /\ p \notin ReplayLock

Conflict(m, t, p, enforce) ==
    \/ disk[p] = Dir
    \/ /\ p \in Planned(t) \cap Npm
       /\ ~Mergeable(p)
    \/ /\ p \in Planned(t) \ Npm
       /\ disk[p] # Absent
       /\ (enforce /\ Edited(m, t, p)) \/ Foreign(m, t, p)

\* Faulty variants: a skipped package's files, or the emitted ones, are removed.
ObsoleteDespiteKeep(m, t) ==
    {p \in DOMAIN m : p \notin Emitted(t) \cup Npm /\ ~m[p].once /\ disk[p] # Absent}
ObsoleteThoughEmitted(m, t) ==
    {p \in DOMAIN m : p \notin t.keep \cup Npm /\ ~m[p].once /\ disk[p] # Absent}

\* Previously owned files that the tree no longer emits and that exist.
Obsolete(m, t) ==
    {p \in DOMAIN m : /\ p \notin t.keep \cup Emitted(t) \cup Npm
                      /\ ~m[p].once
                      /\ disk[p] # Absent}

Linked(p) ==
    \/ disk[p] = Link
    \/ Parent[p] # NoParent /\ disk[Parent[p]] = Link

\* plan returns without an error.
Accepted(m, t, enforce) ==
    /\ m # Torn
    /\ \A p \in DOMAIN m \cup Emitted(t) : ~Linked(p)
    /\ Emitted(t) \cap t.keep = {}
    /\ \A p \in Emitted(t) : ~Conflict(m, t, p, enforce)
    /\ \A p \in Obsolete(m, t) : disk[p] # Dir /\ (enforce => disk[p] = m[p].sha)

\* Faulty variant: what is retained is fingerprinted anew, the author's edits
\* with it.
NewManifestAdopting(m, t) ==
    LET retained == {p \in DOMAIN m : p \in t.keep \/ (p \in Emitted(t) /\ Skipped(t, p))}
    IN  [p \in retained \cup Planned(t) |->
            IF p \in Planned(t)
            THEN [sha |-> Contents(t, p), once |-> p \in t.once]
            ELSE [m[p] EXCEPT !.sha = disk[p]]]

NewManifest(m, t) ==
    LET retained == {p \in DOMAIN m : p \in t.keep \/ (p \in Emitted(t) /\ Skipped(t, p))}
    IN  [p \in retained \cup Planned(t) |->
            IF p \in Planned(t)
            THEN [sha |-> Contents(t, p), once |-> p \in t.once]
            ELSE m[p]]

\* What `check` reports: added, modified and removed paths.
Changes(m, t) == {p \in Planned(t) : disk[p] # Contents(t, p)} \cup Obsolete(m, t)

-----------------------------------------------------------------------------
(* A run.                                                                   *)

\* These things change, by the hand of the runs in `by`, or of the author.
Touch(by, things) ==
    [q \in Run |-> IF q \notin by /\ phase[q] = "writing"
                   THEN late[q] \cup things ELSE late[q]]
TouchLast(r, things) == [Touch({r}, things) EXCEPT ![r] = {}]
OthersQuiet(r) == \A q \in Run \ {r} : phase[q] # "writing"
Unless(b, t) == IF b THEN t ELSE NoTree

\* tree.check(root): the preview every entry point makes before it writes; an
\* error ends the run here.
Check(r, t) ==
    /\ phase[r] = "idle"
    /\ Accepted(manifest, t, FALSE)
    /\ phase' = [phase EXCEPT ![r] = "checked"]
    /\ tree' = [tree EXCEPT ![r] = t]
    /\ UNCHANGED <<disk, manifest, writes, removals, record, bounds, history>>

\* What a run holds in memory once it has returned: nothing.
Return(r) ==
    /\ phase' = [phase EXCEPT ![r] = "idle"]
    /\ tree' = [tree EXCEPT ![r] = NoTree]
    /\ writes' = [writes EXCEPT ![r] = NoFiles]
    /\ removals' = [removals EXCEPT ![r] = {}]
    /\ record' = [record EXCEPT ![r] = NoFiles]

\* --check, or materialize with write = false: report and stop.
Report(r) ==
    /\ phase[r] = "checked"
    /\ Return(r)
    /\ UNCHANGED <<disk, manifest, bounds, history>>

\* write_to plans again, this time refusing edits, before it touches a file.
Plan(r) ==
    LET t == tree[r] IN
    /\ phase[r] = "checked"
    /\ Accepted(manifest, t, TRUE)
    /\ phase' = [phase EXCEPT ![r] = "writing"]
    /\ writes' = [writes EXCEPT ![r] = [p \in Planned(t) |-> Contents(t, p)]]
    /\ removals' = [removals EXCEPT ![r] = Obsolete(manifest, t)]
    /\ record' = [record EXCEPT ![r] = NewManifest(manifest, t)]
    /\ late' = [late EXCEPT ![r] = {}]
    /\ unfinished' = NoTree
    /\ settled' = NoTree
    /\ UNCHANGED <<disk, manifest, tree, bounds, mine>>

Refuse(r) ==
    /\ phase[r] = "checked"
    /\ ~Accepted(manifest, tree[r], TRUE)
    /\ Return(r)
    /\ UNCHANGED <<disk, manifest, bounds, history>>

Least(S, p) == p \in S /\ \A q \in S : Rank[p] <= Rank[q]

Writing(r, p) == phase[r] = "writing" /\ Least(DOMAIN writes[r], p)

Removing(r, p) ==
    /\ phase[r] = "writing"
    /\ DOMAIN writes[r] = {}
    /\ Least(removals[r], p)

Recording(r) ==
    phase[r] = "writing" /\ DOMAIN writes[r] = {} /\ removals[r] = {}

\* Faulty variant: a file that is already there is not opened.
WritableIfNew(p) ==
    /\ disk[p] = Absent
    /\ Parent[p] # NoParent => disk[Parent[p]] \in {Absent, Dir, Link}

\* create_dir_all fails on a parent that is a file, fs::write on a directory.
Writable(p) ==
    /\ disk[p] # Dir
    /\ Parent[p] # NoParent => disk[Parent[p]] \in {Absent, Dir, Link}

\* A write through a symlink the author made meanwhile leaves the link; one
\* through a linked directory lands outside the root.
Put(p, c) ==
    [q \in Path |->
        CASE q = p /\ ~Linked(p) -> c
          [] q # p /\ q = Parent[p] /\ disk[q] = Absent -> Dir
          [] OTHER -> disk[q]]

WriteFile(r) ==
    \E p \in DOMAIN writes[r] :
       /\ Writing(r, p)
       /\ Writable(p)
       /\ disk' = Put(p, writes[r][p])
       /\ writes' = [writes EXCEPT ![r] = [q \in DOMAIN @ \ {p} |-> @[q]]]
       /\ mine' = mine \ {q \in {p} : ~Linked(q)}
       /\ late' = Touch({r}, {p})
       /\ UNCHANGED <<manifest, phase, tree, removals, record, bounds,
                      unfinished, settled>>

\* fs::remove_file.
RemoveFile(r) ==
    \E p \in removals[r] :
       /\ Removing(r, p)
       /\ disk[p] \notin {Absent, Dir}
       /\ disk' = [disk EXCEPT ![p] = Absent]
       /\ removals' = [removals EXCEPT ![r] = @ \ {p}]
       /\ mine' = mine \ {p}
       /\ late' = Touch({r}, {p})
       /\ UNCHANGED <<manifest, phase, tree, writes, record, bounds,
                      unfinished, settled>>

\* The write or the removal the run has come to is impossible: it returns the
\* error, what it did so far stays, the manifest is not written.
Fail(r) ==
    /\ \/ \E p \in DOMAIN writes[r] : Writing(r, p) /\ ~Writable(p)
       \/ \E p \in removals[r] : Removing(r, p) /\ disk[p] \in {Absent, Dir}
    /\ Return(r)
    /\ late' = TouchLast(r, {})
    /\ UNCHANGED <<disk, manifest, bounds, mine, unfinished, settled>>

\* What some tree holds for a path.
Emittable(p) == {t.files[p] : t \in {u \in Tree : p \in Emitted(u)}}

\* The manifest is written; generated bytes that it records are not the author's.
WriteManifest(r) ==
    /\ Recording(r)
    /\ manifest' = record[r]
    /\ Return(r)
    /\ mine' = {p \in mine : ~(/\ p \in DOMAIN record[r]
                               /\ disk[p] = record[r][p].sha
                               /\ disk[p] \in Emittable(p))}
    /\ late' = TouchLast(r, {Ledger})
    /\ settled' = Unless(late[r] = {} /\ OthersQuiet(r), tree[r])
    /\ UNCHANGED <<disk, bounds, unfinished>>

Interrupted(r) ==
    /\ stops < MaxStops
    /\ stops' = stops + 1
    /\ Return(r)
    /\ UNCHANGED edits

\* The process dies, or an I/O error ends it, between two file operations.
Stop(r) ==
    /\ phase[r] = "writing"
    /\ Interrupted(r)
    /\ unfinished' = Unless(late[r] = {} /\ OthersQuiet(r), tree[r])
    /\ late' = TouchLast(r, {})
    /\ UNCHANGED <<disk, manifest, mine, settled>>

\* It dies inside fs::write, which truncates before it writes.
TearFile(r) ==
    \E p \in DOMAIN writes[r] :
       /\ Writing(r, p)
       /\ Writable(p)
       /\ Interrupted(r)
       /\ disk' = Put(p, Torn)
       /\ mine' = mine \ {q \in {p} : ~Linked(q)}
       /\ late' = TouchLast(r, {p})
       /\ UNCHANGED <<manifest, unfinished, settled>>

TearManifest(r) ==
    /\ Recording(r)
    /\ Interrupted(r)
    /\ manifest' = Torn
    /\ late' = TouchLast(r, {Ledger})
    /\ UNCHANGED <<disk, mine, unfinished, settled>>

-----------------------------------------------------------------------------
(* The author of the directory, at any moment.                              *)

Edit(things) ==
    /\ edits < MaxEdits
    /\ edits' = edits + 1
    /\ late' = Touch({}, things)
    /\ unfinished' = NoTree
    /\ settled' = NoTree
    /\ UNCHANGED <<runVars, stops>>

RecordedAs(p, c) == manifest # Torn /\ p \in DOMAIN manifest /\ manifest[p].sha = c

\* Saving the recorded text again restores the file, it is no edit.
Save(p, c) ==
    /\ Edit({p})
    /\ c # disk[p]
    /\ Writable(p)
    /\ Parent[p] # NoParent => disk[Parent[p]] # Link
    /\ disk' = [q \in Path |->
                    CASE q = p -> c
                      [] q # p /\ q = Parent[p] -> Dir
                      [] OTHER -> disk[q]]
    /\ mine' = IF RecordedAs(p, c) THEN mine \ {p} ELSE mine \cup {p}
    /\ UNCHANGED manifest

Delete(p) ==
    /\ Edit({p})
    /\ disk[p] \notin {Absent, Dir}
    /\ disk' = [disk EXCEPT ![p] = Absent]
    /\ mine' = mine \ {p}
    /\ UNCHANGED manifest

\* The bookkeeping file is not checked in, or removed because it is damaged.
LoseManifest ==
    /\ Edit({Ledger})
    /\ manifest # NoFiles
    /\ manifest' = NoFiles
    /\ UNCHANGED <<disk, mine>>

-----------------------------------------------------------------------------
\* An empty directory; the author's own files come by Save.
Init ==
    /\ disk = [p \in Path |-> Absent]
    /\ manifest = NoFiles
    /\ phase = [r \in Run |-> "idle"]
    /\ tree = [r \in Run |-> NoTree]
    /\ writes = [r \in Run |-> NoFiles]
    /\ removals = [r \in Run |-> {}]
    /\ record = [r \in Run |-> NoFiles]
    /\ edits = 0 /\ stops = 0
    /\ mine = {}
    /\ late = [r \in Run |-> {}]
    /\ unfinished = NoTree
    /\ settled = NoTree

RunStep(r) ==
    \/ \E t \in Tree : Check(r, t)
    \/ Report(r)
    \/ Plan(r)
    \/ Refuse(r)
    \/ WriteFile(r)
    \/ RemoveFile(r)
    \/ Fail(r)
    \/ WriteManifest(r)
    \/ Stop(r)
    \/ TearFile(r)
    \/ TearManifest(r)

AuthorStep ==
    \/ \E p \in Path : (\E c \in UserText[p] : Save(p, c)) \/ Delete(p)
    \/ LoseManifest

Next == (\E r \in Run : RunStep(r)) \/ AuthorStep

Spec == Init /\ [][Next]_vars

-----------------------------------------------------------------------------
(* Properties.                                                              *)

TypeOK ==
    /\ disk \in [Path -> Content]
    /\ manifest \in Ownership \cup {Torn}
    /\ phase \in [Run -> {"idle", "checked", "writing"}]
    /\ tree \in [Run -> Tree \cup {NoTree}]
    /\ writes \in [Run -> Files]
    /\ removals \in [Run -> SUBSET Path]
    /\ record \in [Run -> Ownership]
    /\ edits \in 0..MaxEdits /\ stops \in 0..MaxStops
    /\ mine \subseteq Path
    /\ late \in [Run -> SUBSET (Path \cup {Ledger})]
    /\ unfinished \in Tree \cup {NoTree}
    /\ settled \in Tree \cup {NoTree}

\* What the author saved is never overwritten, removed or cut short by a run,
\* whatever came between (other trees, skipped packages, create-once files,
\* other runs, interruptions): `plan` refuses it.  The exceptions are the
\* merged npm manifests, the replay lock, package metadata that was merely
\* reformatted, bytes equal to what the run emits (they are adopted), and a
\* file saved again between the run's plan and its write.
LosesNoEdit ==
    [][\A r \in Run : (WriteFile(r) \/ RemoveFile(r) \/ TearFile(r)) =>
          \A p \in mine \ (Npm \cup ReplayLock) :
              \/ disk'[p] = disk[p]
              \/ p \in late[r]
              \/ p \in DOMAIN writes[r] /\ disk[p] = writes[r][p]
              \/ \E c \in Text : EqualMetadata(p, disk[p], c)]_vars

\* A run that skips a package leaves every file under its prefix as it is, and
\* the manifest it writes keeps what the ownership record said of them.
SkippedPackageKept ==
    [][\A r \in Run : tree[r] # NoTree /\ RunStep(r) =>
          \A p \in tree[r].keep :
              /\ disk'[p] = disk[p]
              /\ (Ledger \notin late[r] /\ manifest # Torn /\ manifest' # Torn
                  /\ p \in DOMAIN manifest)
                 => p \in DOMAIN manifest' /\ manifest'[p] = manifest[p]]_vars

\* A run that was stopped between two steps can be run again: nothing the
\* first attempt left behind is mistaken for an edit, whichever write or
\* removal it had reached, as long as nobody touched the directory since.  One
\* case is excepted: the author had deleted a recorded file, and the first
\* attempt made a directory of that name.
RerunAccepted ==
    unfinished # NoTree =>
        \/ Accepted(manifest, unfinished, TRUE)
        \/ \E p \in Emitted(unfinished) : Parent[p] \in DOMAIN manifest /\ disk[Parent[p]] = Dir

\* After a run completes undisturbed, the same tree is accepted and `check`
\* reports no change, npm merge and create-once files included.
CleanAfterDone ==
    settled # NoTree =>
       /\ Accepted(manifest, settled, TRUE)
       /\ Changes(manifest, settled) = {}

\* A run that passed the preflight and that nobody disturbed does not fail half
\* way: every planned write and removal is possible when it is reached.  One
\* thing the preflight does not look at is excepted, a file that lies where a
\* planned file's directory must be.
UndisturbedRunCompletes ==
    [][\A r \in Run : Fail(r) =>
          \/ late[r] # {}
          \/ \E p \in DOMAIN writes[r] : Parent[p] # NoParent /\ ~Writable(p)]_vars

\* "Preflight catches validation errors before writing"; "unchanged owned
\* output: may update or remove it; regenerate normally" (docs/reference/
\* regeneration/safe-regeneration.md): an undisturbed run never fails half way.
PreflightSuffices == [][\A r \in Run : Fail(r) => late[r] # {}]_vars
=============================================================================
