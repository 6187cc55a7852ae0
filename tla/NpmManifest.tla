---------------------------- MODULE NpmManifest ----------------------------
(***************************************************************************)
(* merge_npm_manifest (crates/core/src/files.rs): a generated package.json *)
(* is merged into the one on disk.  A manifest is a record: its identity   *)
(* (name and version), its dependency sections, its remaining settings     *)
(* (scripts and other objects, one level of keys), its exports and its     *)
(* `files` array, whose order is left out.  User-owned values win and      *)
(* missing requirements are added; identity and the generated export       *)
(* destinations are the generator's.                                       *)
(***************************************************************************)
EXTENDS Functions

CONSTANTS
    Section,   \* dependencies, devDependencies, peerDependencies, optionalDependencies
    Absent,    \* there is no package.json: merged as "{}"
    NoIdentity \* of the empty object

Empty == [p \in {} |-> p]

EmptyManifest ==
    [identity |-> NoIdentity,
     deps     |-> [s \in Section |-> Empty],
     settings |-> Empty,
     exports  |-> Empty,
     files    |-> {}]

\* existing wins where both define a key.
AppendMissing(existing, required) ==
    [k \in DOMAIN existing \cup DOMAIN required |->
        IF k \in DOMAIN existing THEN existing[k] ELSE required[k]]

Chosen(m) == UNION {DOMAIN m.deps[s] : s \in Section}

Parsed(existing) == IF existing = Absent THEN EmptyManifest ELSE existing

\* Faulty variants: a dependency is looked for in its own section only; the
\* author's exports win.
MergeNpmBySection(existing, generated) ==
    LET user == Parsed(existing)
    IN  [identity |-> generated.identity,
         deps     |-> [s \in Section |-> AppendMissing(user.deps[s], generated.deps[s])],
         settings |-> AppendMissing(user.settings, generated.settings),
         exports  |-> AppendMissing(generated.exports, user.exports),
         files    |-> user.files \cup generated.files]
MergeNpmUserExports(existing, generated) ==
    LET user == Parsed(existing)
    IN  [MergeNpmBySection(existing, generated) EXCEPT
            !.exports = AppendMissing(user.exports, generated.exports)]

MergeNpm(existing, generated) ==
    LET user == Parsed(existing)
        missing(s) == Restrict(generated.deps[s], DOMAIN generated.deps[s] \ Chosen(user))
    IN  [identity |-> generated.identity,
         deps     |-> [s \in Section |-> AppendMissing(user.deps[s], missing(s))],
         settings |-> AppendMissing(user.settings, generated.settings),
         exports  |-> AppendMissing(generated.exports, user.exports),
         files    |-> user.files \cup generated.files]
=============================================================================
