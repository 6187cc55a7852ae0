--------------------------- MODULE MCMaterialize ---------------------------
(* Two scenes, one of which is chosen at the start.  "Alone": one run after *)
(* another over the replay lock, an npm manifest merged by NpmManifest, and *)
(* a file of a package that may be skipped, in a directory the author may   *)
(* replace by a file or a link.  "Pair": two processes that generate into   *)
(* one directory at once, over a create-once file and a skippable package.  *)
EXTENDS Materialize, TLC

CONSTANTS dir, skp, npm, lock, ext, g1, g2, u1

VARIABLE scene

Npms == INSTANCE NpmManifest WITH Section <- {"dependencies"}, NoIdentity <- "none"

PathsOf == [Alone |-> {npm, dir, skp, lock}, Pair |-> {ext, dir}]
MCPath == PathsOf.Alone \cup PathsOf.Pair
MCRank == [p \in MCPath |-> CASE p = lock -> 0 [] p = npm -> 1 [] p = dir -> 2
                              [] p = skp -> 3 [] p = ext -> 4]
MCParent == [p \in MCPath |-> IF p = skp THEN dir ELSE NoParent]

Manifest(id, deps) ==
    [Npms!EmptyManifest EXCEPT !.identity = id, !.deps["dependencies"] = deps]
MCNpmText == {Manifest(id, "zod" :> v) : id \in {"user", "sdk"}, v \in {3, 4}}
MCMerge(e, g) == Npms!MergeNpm(e, g)

MCText == {g1, g2, u1} \cup MCNpmText
MCUserText ==
    [p \in MCPath |-> CASE p = npm -> {Manifest("user", "zod" :> 3), u1}
                        [] p \in {dir, skp} -> {u1, Link}
                        [] p = lock -> {u1}
                        [] p = ext -> {g2}]

Emits(f, o, k) == [files |-> f, once |-> o, keep |-> k]

\* Everything; the package of skp, or of dir, skipped; the package dropped; a
\* file in the place of its directory.
Package == npm :> Manifest("sdk", "zod" :> 4)
TreesOf ==
    [Alone |-> {Emits(Package @@ (skp :> g1), {}, {}),
                Emits(Package @@ (lock :> g2), {}, {skp}),
                Emits(lock :> g1, {}, {}),
                Emits(dir :> g1, {}, {})},
     Pair  |-> {Emits((ext :> g1) @@ (dir :> g1), {ext}, {}),
                Emits(ext :> g2, {ext}, {dir, skp}),
                Emits(ext :> g2, {}, {})}]
MCTree == TreesOf.Alone \cup TreesOf.Pair

\* A step within the scene: its trees, its paths, and as many runs and stops.
Within ==
    /\ \A r \in Run : tree'[r] \in TreesOf[scene] \cup {NoTree}
    /\ \A p \in MCPath \ PathsOf[scene] : disk'[p] = Absent
    /\ scene = "Alone" => \A q, r \in Run : q = r \/ "idle" \in {phase'[q], phase'[r]}
    /\ scene = "Pair" => stops' < MaxStops /\ disk'[dir] # Link

MCInit == Init /\ scene \in {"Alone", "Pair"}
MCNext == Next /\ UNCHANGED scene /\ Within
MCSpec == MCInit /\ [][MCNext]_<<vars, scene>>

Symmetry == Permutations(Run)
=============================================================================
