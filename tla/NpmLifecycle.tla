---------------------------- MODULE NpmLifecycle ----------------------------
(***************************************************************************)
(* A package.json over its life: the author edits it, generators of        *)
(* successive releases regenerate it, and NpmManifest merges.              *)
(***************************************************************************)
EXTENDS NpmManifest, TLC

CONSTANTS
    Dep, Version, Key,
    Release,  \* manifests successive releases of the generator emit
    Nothing   \* no release has been merged, or the author edited since

VARIABLES
    pkg,  \* the manifest on disk, or Absent
    last  \* the release merged last
vars == <<pkg, last>>

Init == pkg = Absent /\ last = Nothing

Regenerate(g) ==
    /\ pkg' = MergeNpm(pkg, g)
    /\ last' = g

\* Every field of the file is the author's to change; one change per step.
Author ==
    LET m == Parsed(pkg) IN
    /\ \/ \E s \in Section, d \in Dep, v \in Version :
             pkg' = [m EXCEPT !.deps[s] = (d :> v) @@ @]
       \/ \E s \in Section, d \in Dep :
             pkg' = [m EXCEPT !.deps[s] = Restrict(@, DOMAIN @ \ {d})]
       \/ \E k \in Key : pkg' = [m EXCEPT !.settings = (k :> "user") @@ @]
       \/ \E k \in Key : pkg' = [m EXCEPT !.exports = (k :> "user") @@ @]
       \/ \E k \in Key : pkg' = [m EXCEPT !.files = @ \ {k}]
       \/ pkg' = [m EXCEPT !.identity = "user"]
    /\ last' = Nothing

Next == Author \/ \E g \in Release : Regenerate(g)
Spec == Init /\ [][Next]_vars

-----------------------------------------------------------------------------
\* Regeneration keeps the section and the range the author chose for every
\* dependency, and never lists it a second time in another section.
UserChoiceSurvives ==
    [][\A g \in Release : Regenerate(g) /\ pkg # Absent =>
         \A s \in Section, d \in Chosen(pkg) :
            /\ d \in DOMAIN pkg'.deps[s] <=> d \in DOMAIN pkg.deps[s]
            /\ d \in DOMAIN pkg.deps[s] => pkg'.deps[s][d] = pkg.deps[s][d]]_vars

\* After a release is merged, everything it requires is there: each dependency
\* in some section, its identity, and its export destinations unchanged.
RequirementsMet ==
    last # Nothing =>
        /\ pkg.identity = last.identity
        /\ Chosen(last) \subseteq Chosen(pkg)
        /\ \A k \in DOMAIN last.exports : pkg.exports[k] = last.exports[k]
        /\ last.files \subseteq pkg.files
=============================================================================
