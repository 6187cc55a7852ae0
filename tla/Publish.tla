------------------------------ MODULE Publish ------------------------------
(***************************************************************************)
(* The release action: jobs that publish one version of a package to a     *)
(* registry whose files are immutable and may show up late.  Two jobs may  *)
(* run at once, and each may be cut short and run again with a new build.  *)
(***************************************************************************)
EXTENDS Naturals, FiniteSets

CONSTANTS
    Job,
    Distribution,  \* files of a PyPI release; the other registries have one
    Archive,       \* that file
    Build,         \* digests a file may have
    Missing

ASSUME PublishAssumption ==
    /\ Archive \in Distribution
    /\ Missing \notin Build

Registries == {"npm", "crates.io", "pypi", "go"}

VARIABLES
    registry,
    stored,  \* the version's files in the registry
    plan,    \* per job: the digests it prepared
    local,   \* per job: the digests of the files on its disk
    phase,   \* per job
    left,    \* per job: files still to upload
    looked   \* per job: lookups made to confirm

publishVars == <<registry, stored, plan, local, phase, left, looked>>

Files == IF registry = "pypi" THEN Distribution ELSE {Archive}
Stored == {f \in Files : stored[f] # Missing}

PublishInit ==
    /\ registry \in Registries
    /\ stored = [f \in Distribution |-> Missing]
    /\ plan \in [Job -> {[f \in Distribution |-> b] : b \in Build}]
    /\ local = plan
    /\ phase = [j \in Job |-> "new"]
    /\ left = [j \in Job |-> {}]
    /\ looked = [j \in Job |-> 0]

Becomes(j, p) == phase' = [phase EXCEPT ![j] = p]

\* Faulty variant: a file that is not there yet differs.
DiffersIfMissing(j, S) ==
    registry # "go" /\ S # {} /\ \E f \in Files : f \notin S \/ stored[f] # plan[j][f]

\* What a lookup that sees the files S of the registry says of a job's files.
\* The Go proxy is asked for the version only.
Differs(j, S) == registry # "go" /\ \E f \in S : stored[f] # plan[j][f]

\* Faulty variant: a release is complete once it has some file.
CompleteOnceThere(S) == S # {}

Complete(S) == Files \subseteq S

\* preparePublish: the artifacts are built, and the registry is looked up.
Prepare(j) ==
    /\ phase[j] = "new"
    /\ \/ \E S \in SUBSET Stored :
             \/ Differs(j, S) /\ Becomes(j, "differs")
             \/ ~Differs(j, S) /\ Complete(S) /\ Becomes(j, "succeeded")
             \/ ~Differs(j, S) /\ ~Complete(S) /\ Becomes(j, "prepared")
       \/ Becomes(j, "failed")
    /\ UNCHANGED <<registry, stored, plan, local, left, looked>>

\* A Go module has no artifact on the disk to verify.
LocalUnchanged(j) == registry = "go" \/ \A f \in Files : local[j][f] = plan[j][f]

\* The publish phase verifies its artifact; PyPA's action uploads what it finds.
BeginUpload(j) ==
    /\ phase[j] = "prepared"
    /\ IF registry = "pypi" \/ LocalUnchanged(j)
       THEN Becomes(j, "uploading") /\ left' = [left EXCEPT ![j] = Files]
       ELSE Becomes(j, "failed") /\ UNCHANGED left
    /\ UNCHANGED <<registry, stored, plan, local, looked>>

\* cargo publish packages once more, and the Go proxy reads the tag itself.
Uploaded(j, f) == IF registry \in {"crates.io", "go"} THEN Build ELSE {local[j][f]}

\* The registry takes a file unless it has one; its answer may be lost, and a
\* failed upload may have been taken.  PyPA's action ends at a failure, the
\* other uploads go on to ask the registry.
Upload(j, f) ==
    /\ phase[j] = "uploading" /\ f \in left[j]
    /\ \/ stored[f] = Missing /\ \E b \in Uploaded(j, f) : stored' = [stored EXCEPT ![f] = b]
       \/ UNCHANGED stored
    /\ \/ left' = [left EXCEPT ![j] = @ \ {f}] /\ UNCHANGED phase
       \/ registry = "pypi" /\ Becomes(j, "failed") /\ left' = [left EXCEPT ![j] = {}]
    /\ UNCHANGED <<registry, plan, local, looked>>

\* confirmPublished: up to three lookups, until one sees every file.
Confirm(j) ==
    /\ phase[j] = "uploading" /\ left[j] = {}
    /\ IF registry = "pypi" /\ looked[j] = 0 /\ ~LocalUnchanged(j)
       THEN Becomes(j, "failed") /\ UNCHANGED looked
       ELSE \/ \E S \in SUBSET Stored :
                  \/ Differs(j, S) /\ Becomes(j, "differs") /\ UNCHANGED looked
                  \/ ~Differs(j, S) /\ Complete(S) /\ Becomes(j, "succeeded") /\ UNCHANGED looked
                  \/ /\ ~Differs(j, S) /\ ~Complete(S)
                     /\ looked' = [looked EXCEPT ![j] = @ + 1]
                     /\ IF looked[j] = 2 THEN Becomes(j, "failed") ELSE UNCHANGED phase
            \/ Becomes(j, "failed") /\ UNCHANGED looked
    /\ UNCHANGED <<registry, stored, plan, local, left>>

\* A job that failed or was cut short runs again, with what it builds then.
Rerun(j) ==
    /\ phase[j] # "succeeded"
    /\ Becomes(j, "new")
    /\ \E b \in Build : plan' = [plan EXCEPT ![j] = [f \in Distribution |-> b]]
    /\ local' = [local EXCEPT ![j] = plan'[j]]
    /\ left' = [left EXCEPT ![j] = {}]
    /\ looked' = [looked EXCEPT ![j] = 0]
    /\ UNCHANGED <<registry, stored>>

\* Another step of the workflow rebuilds a file on the job's disk.
Rebuild(j) ==
    /\ phase[j] \in {"prepared", "uploading"}
    /\ \E f \in Files, b \in Build : local' = [local EXCEPT ![j][f] = b]
    /\ UNCHANGED <<registry, stored, plan, phase, left, looked>>

JobStep(j) ==
    \/ Prepare(j) \/ BeginUpload(j) \/ Confirm(j)
    \/ \E f \in Distribution : Upload(j, f)

PublishNext == \E j \in Job : JobStep(j) \/ Rerun(j) \/ Rebuild(j)
PublishSpec == PublishInit /\ [][PublishNext]_publishVars

-----------------------------------------------------------------------------
\* A job reports success only of what it prepared: whichever of its uploads was
\* refused, lost or overtaken by another job, the registry has those bytes.
\* (Of a Go module it is the tag that says what they are.)
ReportedIsPublished ==
    \A j \in Job : phase[j] = "succeeded" =>
        \A f \in Files :
            IF registry = "go" THEN stored[f] # Missing ELSE stored[f] = plan[j][f]

\* A job finds a difference only where the registry has other bytes for one of
\* its files: a release that is half uploaded, or not visible yet, is no
\* difference, and jobs with equal builds never stop one another.
DifferenceIsReal ==
    \A j \in Job : phase[j] = "differs" =>
        \E f \in Files : stored[f] \notin {Missing, plan[j][f]}
=============================================================================
