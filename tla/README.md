# Poolster (kaji), specified

TLA+ models of the parts of this repository that keep state, run in steps, or are run by several
parties at once; TLC configurations that explore them on small instances; and theorems that TLAPS
proves for every instance. Paths below are relative to the repository root.

Poolster generates SDKs. A Rust core turns an OpenAPI document (or a native package definition)
into package trees through plugins with typed contracts, and materializes a tree into a directory
that people also edit. A JavaScript SDK hosts plugins of its own around the native engine, and
automations carry specifications and generated SDKs between repositories on GitHub.

## Inventory

| Component (source) | State it keeps | Operations | Talks to |
|---|---|---|---|
| Tree and materialization (`crates/core/src/files.rs`, `crates/node/src/materialize.rs`) | the output directory, `.poolster/ownership.json` | `check`, `plan`, `write_to` | the file system, shared with the author and with other runs; no lock |
| npm manifest merge (`files.rs`, `merge_npm_manifest`) | none of its own; `package.json` | one merge | called from `plan` |
| Package engine (`crates/core/src/engine.rs`, `engine/context.rs`) | contract store, staged publications, tree under construction | `generate`, `generate_native_report`: validate all, then resolve, run, finalize, overlay, append per package | calls plugins, the language finalizer, customization |
| JavaScript plugin engine (`packages/npm/sdk/plugin-engine.cjs`, `index.cjs`) | published contracts, completed providers | `planPlugins`, `contractRuntime`, awaited hooks | the native engine between transform and post phase; materialization |
| Symbol planner (`crates/core/src/symbols/`) | reservations, allocated symbols | `reserve`, `reserve_name`, `set_target`, `resolve` | plugins, through contracts |
| Specification sync (`packages/internal/spec-sync/sync.mjs`) | nothing local; a provenance file on a review branch | `syncSpec` | GitHub's API, with request timeouts |
| SDK pull requests (`crates/cli/src/sdk_automation.rs`) | a temporary clone; the ownership inventory in the SDK repository | `open_pr` | git and `gh`; a person's release workflow |
| SDK setup install (`crates/cli/src/sdk_install.rs`) | as above | `install` | git and `gh` |
| Publication (`packages/internal/sdk-publish/publish.mjs`, `action.yml`) | the artifacts of a job and their digests; registry versions | prepare, publish, confirm | registries that answer late; jobs of other workflow runs |
| Token broker (`packages/internal/github-app-broker/`) | one-use identity markers on disk | exchange, cleanup | GitHub, clients |
| Bundler integration (`packages/integrations/unplugin/`) | queue of generations, watched files | buildStart, watchChange | the JavaScript SDK |
| Emitted client runtimes (`crates/plugins/<language>/`) | a cached OAuth token; per call, attempts, recoveries, hooks; per traversal, a continuation | call, token exchange, retry, next page | the API and its token issuer, concurrent callers |
| Emitted Terraform provider (`crates/plugins/terraform/`) | Terraform's state of a resource | create, read, update, delete, waiters | an API that finishes operations later |
| Customization overlays (`crates/core/src/customization.rs`) | author overlays beside the tree | apply | the package engine |
| Command line (`crates/cli/src/main.rs`, ...) | lock file | generate, check, update, eject, migrate | all of the above |
| Renderers, parsers, data models, OpenAPI compiler | none | functions from documents to text | the package engine |

What is hard here:

* **The output directory is shared.** `write_to` plans against the directory once and then writes
  file by file. The author's editor, a second generator and a kill come between any two of those
  steps; a write may be cut short, which truncates first. What tells an edit from the generator's own
  half-done work is the ownership manifest, which is written last. Correct means: no saved byte is
  lost, and a run that was stopped between two of its steps, or is repeated, is not refused because of its own traces.
  (A write that was cut short is refused: the code takes what it left for an edit, or cannot read the
  manifest.)
* **Plugins order themselves.** Contracts, optional and explicit providers, names, phases and
  registration order decide a schedule. Correct means: a plugin finds what it reads, an error means
  a real cycle, a failed plugin publishes nothing, and a late package's error never comes after
  earlier packages were generated.
* **The automations work on stale reads.** They read a review branch, work for seconds or minutes,
  and move it; people push, merge, squash, close and delete meanwhile; a request may time out and
  be handled later; a run may end between its push and its pull request. Correct means: no
  person's commit or edit is dropped, what was generated ends up under review, and a leftover
  branch neither hides nor blocks a later run.
* **Names collide.** Reserved, preferred and suffixed names meet under comparisons that fold case.
  Correct means: distinct names, a result that depends on the reservations only.
* **Eleven runtimes promise the same thing.** Each emitted client has its own retry loop, token
  provider, hooks and page iterators, in the idiom of its language: a lock, a promise, an actor, a
  mailbox. Correct means: one token exchange however many calls find their tokens rejected, no
  replay with the rejected token, no unsafe request sent twice, no page skipped or read twice.
* **Remote systems answer late or not at all.** A registry shows an upload later than it took it; an
  API accepts a create whose poll then fails; the bundler reports a change while a generation runs;
  the broker stops between creating a replay marker and writing it. Correct means: success is
  reported of what is really there, nothing that was made is forgotten, nothing counts twice.

`PROJECT.json` lists, under `hazards`, each place in the code where one of these bites, and the
properties that cover it.

## Modules

| Module | Models | State and actions in terms of the code |
|---|---|---|
| `Materialize` | `files.rs`: `GeneratedTree::plan`, `check`, `write_to` | `disk` and `manifest` are the directory and `ownership.json`; per run, `writes`, `removals` and `record` are what `plan` returned. `Check`/`Report`, `Plan`/`Refuse`, `WriteFile`, `RemoveFile`, `WriteManifest` follow `write_to` in its `BTreeMap` order; `Fail` is an I/O error half way; `Stop`, `TearFile`, `TearManifest` are interruptions between and inside writes; `Save`, `Delete`, `LoseManifest` are the author. `mine`, `late`, `unfinished`, `settled` are history that no action reads |
| `NpmManifest`, `NpmLifecycle` | `merge_npm_manifest` as an operator; a `package.json` that its author edits and releases regenerate | `pkg` is the file; `Regenerate(g)` is the merge of release `g`. `MCMaterialize` uses the same operator as its `Merge` |
| `PluginGraph` | the declarations of a package and what both engines derive from them | operators only: compatibility, selection of providers, phases, dependencies |
| `PlanOrder` | nothing in the code: what planning promises | the abstract specification: place only what is ready, give up only on a cycle |
| `PackageEngine` | `Packages::generate` and `generate_native_report`, `resolve`, `run`, the contract context | `pass`, `at`, `stage` are the control point; `order` is `resolve`'s result; `pending` is the staged publications, `contracts` the committed ones. `Place`, `Cycle`, `Planned` are turns of `resolve`'s loop; `Start`, `Publish`, `Emit`, `Return`, `Fail` the run of one plugin; `Finalize`, `Overlay`, `AppendTree` the end of a package |
| `JsPlugins` | `planPlugins`' depth-first search, `contractRuntime`, hooks around native generation | `stack` and `sorted` are the search's `visiting` and visited order; `Publish` writes the shared map at once; transforms and the awaited hooks go on to the plugin that is `NextOf` those due, in the order `Before`: generate plugins first, each part as it was visited |
| `Symbols` | `SymbolRequests` | `Reserve`, `ReserveName`, `TargetRules`; `Resolve` is the first loop of `resolve`, `Suffix` and `Exhausted` one turn of the second, `Freeze` its end |
| `Forge` | external: a repository with a base branch, one review branch and its pull request | people push, edit, merge (or squash), close and delete; `Change` is what a person's commit may write; the three automations extend it |
| `SpecSync` | `syncSpec` | per connection, one action per request that can change or be outdated: `GetBase`, `GetBranch`, `Moved`/`MoveRefused`, `GiveUp` with the request in `late`, `Arrive`, then the pull request |
| `SdkPr` | `open_pr` with `prepare_pr_branch`, `transfer_owned_output`, `adopt_release_only_changes` | `ListPulls`, `Clone`, `Prepare`, `Transfer`, `Push`/`Rejected`, `EditPull`/`CreatePull`, `Crash` between any two |
| `Publish` | `publish.mjs` with the steps of `action.yml` around it, over npm, crates.io, PyPI and Go | per job, `plan` are the digests it prepared, `local` the files on its disk, `left` what it has to upload; `stored` is the registry. A lookup sees any subset of what is stored; `Upload` may be taken, refused, or both taken and reported as failed; `Rerun` is a job run again with a new build |
| `Broker` | `broker.mjs`: an exchange up to its replay marker, `ReplayStore` | `Verify`, `Judge` and `Sweep` (cleanup), `Room` (the limit), `Open` and `Write` (the marker in its two steps), `Deny`, `BrokerRestarts`, `Tick` |
| `Watch` | `createController` of the bundler plugin and the command it runs | `queued` is the promise chain, `changed` what the bundler has yet to report; `ReadRecipe`, `ReadSource`, `Succeed`, `FailGeneration` are a generation |
| `TokenCache` | nothing in the code: what a provider promises | the abstract specification: one exchange at a time, none while a live token is cached |
| `TokenUse`, `TokenProvider` | the OAuth providers of ten clients and the calls that share one | `TokenUse` has the steps the languages have in common (`Begin`, `Answered`, `Retoken`, `Invalidate`, `UnderLock`, ...); `TokenProvider` composes a provider per language from them, and adds TypeScript's promise, Swift's reentrant actor and Elixir's mailbox |
| `RetryLoop` | one buffered call of eleven clients: its attempts, its OAuth recovery, its lifecycle hooks | `phase` is the control point; an answer has a status and a body that may break off (`last`, `whole`), or is lost in one of four ways; each client has a start, an action that acquires its token, one per answer and a pause |
| `Pager` | the page iterators of ten languages, over their cursor, page, pages, offset and URL forms | `cursor` is the continuation; `Asks` is the common shape (call, check, yield, move), and each language says when it stops, breaks and goes where |
| `ProviderResource` | a resource of a generated Terraform provider with its waiters | `remote` is the API, `state` Terraform's record; `Create`, `Update`, `Delete`, `DeleteMissing`, `Read`, `Poll`, `GivesUp`, `Refresh`; `Settles` is the API finishing what it accepted |
| `SdkInstall` | `sdk install`, with `updates` | extends `SdkPr`, whose runs, people and endings it shares: `CloneAll`, `LookForBranch`, `Fetch` of a leftover branch, `Install`, `PushSetup`, `AlreadyInstalled`, `FindPull`, `OpenSetupPull` |
| `MaterializeProofs`, `PackageEngineProofs`, `JsPluginsProofs`, `SymbolsProofs`, `AutomationProofs`, `DeliveryProofs`, `ClientProofs`, `NumberLemmas` | theorems | `AutomationProofs` is about `SpecSync`, `SdkPr` and `SdkInstall`; `DeliveryProofs` about `NpmLifecycle`, `Publish`, `Broker` and `ProviderResource`; `ClientProofs` about `RetryLoop`, `TokenProvider` and `Pager` |

`MC*` modules give the constants their values for one `.cfg`. Operators with names such as
`EditedEvenIfEqual`, `NeedsPullForOwn` or `PushableByForce` are faulty variants that stand before
the operator they vary: `PROJECT.json` pairs each with the property that refutes it, which shows
that the property depends on that line of the code.

Composition: `NpmManifest` is plugged into `Materialize` by instantiation; `PackageEngine` and
`JsPlugins` are both shown to implement `PlanOrder` through a refinement mapping and share
`PluginGraph`; `SpecSync`, `SdkPr` and `SdkInstall` extend `Forge`; `TokenProvider` is shown to implement
`TokenCache` once per language. `RetryLoop` takes the provider's answer as given: a token or none.

Several `MC` modules hold *scenes*: components that have nothing to do with one another are checked
in one run, and `Init` chooses which of them moves. A scene's states are those of its module alone;
nothing is explored twice.

Data is abstracted to what the properties tell apart. A file's bytes are one value that is also its
SHA-256 (no collisions), a contract is a name without payload, a commit is a tree of a few files and
the set of its ancestors, a symbol is a word and the ordinals appended to it.

## Runs

| Run | What it shows |
|---|---|
| `materialize` | Two scenes. One generator after another, two interruptions, two author steps, four trees: everything, packages skipped, one dropped, a file in the place of its directory; over the replay lock, a merged `package.json`, and a file in a directory the author may turn into a file or a link. And two processes that generate into one directory at once, with a create-once file. No saved byte is lost (`LosesNoEdit`), a run that was stopped between two steps may be repeated (`RerunAccepted`), where one that died inside a write may not, `check` is clean after a run (`CleanAfterDone`), a skipped package keeps its files and its records, and a run that nobody disturbs completes |
| `materialize_move` | *violated*: a release that moves `client` to `client/mod` fails half way |
| `engine` | Every package of three plugins over two contracts, pairs with explicit handles and doubled declarations, releases of two packages with overlapping directories: reads are served, publications are atomic, validation suffices, `resolve` implements `PlanOrder`, and every generation ends |
| `js_plugins` | The same questions of the JavaScript planner, whose split by phase comes after its search: a transform or a hook runs only after those of all plugins it needs, named ones included, have returned (`NeedsServed`). And the bundler's generations while the author edits the recipe and its sources: the output is current in the end (`EventuallyCurrent`) |
| `automations` | Three scenes over one repository on GitHub, against people who push, merge, squash, close and delete. Two overlapping runs of `sdk pr`, or runs of `sdk install` one after another, one of which may be cut short: edits survive, a released version is never reset, what was generated or installed is under review. Two sources that sync into one target, one request that times out and is handled before, after or never: edits survive late requests, provenance is true, a connection is kept, a spec is left under review |
| `sdk_pr_stuck` | *violated*: after a run that ended between push and pull request, every push is rejected |
| `sdk_pr_release` | *violated*: a destination that was only released is refused as edited |
| `clients` | Three scenes. Three calls on one OAuth provider, in ten languages: the provider implements `TokenCache`, a replay never carries the rejected token, every call ends whoever gives up. One call of eleven clients against an API that answers as it likes: attempts and replays are bounded and used up over what the client retries, hooks are told of a failure once where the loop sees it, no loop falls through. One traversal of an operation's pages in ten languages: items come once and in order whatever calls fail (`EndMeansAll`), and an API whose continuations never end holds no capped iterator (`TraversalBounded`) |
| `delivery` | Five scenes. A `package.json` over its author's edits and two releases; two jobs that publish one version to four registries; two exchanges over three identities at the broker; a Terraform resource with every choice of waiters; three entities that reserve names. Success is reported of what is published, a difference is real, an identity is used once, the store is bounded, no object is lost from Terraform's state and what is recorded is what the API has, names are distinct, none is stolen and each suffix is the first free one |
| `sdk_install` | *violated*: a setup is said to be installed that the base branch does not have |
| `java_hooks` | *violated*: a call of the Java client that succeeds tells its hooks nothing |
| `pager_start` | *violated*: TypeScript's offset iterator, called without an offset, ends after one page |

### Bounds

Bounds are constants named `Max...` in the guards. They are chosen so that every action and every
disjunct of it occurs, and so that one more actor or step would only repeat an interference already
there: an edit can fall between any two steps of a run with two author steps (one before and one
after the plan); a second interruption hits the retry of the first; two runs are the smallest number
that interleave, and each reads the directory's or repository's state, never the other run; three
plugins are the smallest number with a path that leaves and re-enters a phase; `MaxOrdinal = 3`
leaves two suffixes for three symbols, so that they run out. In `automations` two to three
authored commits (one of them the repository's first) and four in all let people edit before and
after the read of a run, and one timeout or crash leaves the state that every later run must cope with; setups are installed one after
another, since a person runs that command. Runs and authors are
symmetric where a `SYMMETRY` is declared; no liveness property is checked under symmetry. The
engine's packages are chosen in `Init`, so a run of it explores every package of its set.

In `clients`, three callers are the smallest number where one holds the exchange, one waits and one
comes back with an older rejection; one of them may not replay its request; two tokens let the
first be rejected and replaced. Three attempts let a recovery fall on the first, the last and the one
between. The cap of four pages is less than what an API that answers anything can be asked for in
five calls, while five items on pages of one or two make honest traversals that reach the cap, and
others that do not; the largest integer, 3, is within reach of a page number and of an offset, so
that overflow occurs; continuations may repeat, alternate and run in a circle.

In `delivery`, time runs to 3 with a life and a skew of 1 and a grace of 2, the tightest the
assumption admits, so that an identity expires while its marker is empty, held or judged; the limit
of one marker is met by two exchanges. Two jobs with two possible builds agree or differ, and may
be run again. Two objects are the smallest number where one can be lost; of three values the API
stores one as another; two polls leave one that does not settle. In `js_plugins`, two
sources and three edits let the recipe turn to a new source, or break, and that source be edited
while a generation runs.

`CHECK_DEADLOCK FALSE` stands where the system really stops: bounded histories, or a call, a
traversal or a generation that has ended.

### Fairness

`PackageEngine` and `JsPlugins` assume `WF_vars(Next)`. Both are one thread that has
nothing to wait for but the hook it called, so the assumption says that a called plugin returns or
fails, and the loops are left because of their own conditions. A plugin of the model may emit any
path only once and publish each contract once, which is why it returns.

`Watch` assumes that the bundler reports a watched file's change and that a command ends, with
success or not; the author owes no step. `TokenProvider` assumes that a call and the provider go on:
an exchange ends because every client bounds it by a timeout, a lock is released because its holder
goes on. Nobody has to call, to cancel or to revoke. No other module states a liveness property: an
author, a forge, a registry and a process that may be killed owe nobody a step.

## What is proved

By TLAPS, for every value of the constants that the modules' named assumptions admit: any set of
paths and trees, any number of runs, callers, connections, commits, plugins or pages, any bound.
Every safety, action and refinement property that a passing run checks is a theorem too, one of them
(`ConnectionKept`) under a hypothesis about people; the liveness properties are not (below).

Each module of proofs states its inductive invariant next to the properties it carries. A proof
that an invariant is kept has one step per action of `Next`.

### `MaterializeProofs`

`EditsAreKept` (`LosesNoEdit`) and `TypeCorrect`, from `Invariance` (`Spec => []IInv`).
`LosesNoEdit` is about steps, and neither it nor the types are enough by themselves. `IInv` adds

* `RunHasTree`: a run that is under way has a tree;
* `RecordsAreGenerated`: outside merged npm manifests, the ownership manifest and whatever a run
  is about to record name bytes that some tree emits;
* `MineIsUnrecorded`: a file whose bytes are the author's is not recorded with those bytes, so a
  plan sees it as edited or foreign;
* `PendingSparesMine`: what a run still has to write or remove does not touch a file of the author,
  unless that file changed after the run's plan or already has the planned bytes.

The plan is where the work is (`PlanSparesMine`): a conflict-free plan leaves `mine` alone. With
two runs the last one to finish writes its manifest over the other's, and the argument is that both
wrote generated records.

`SkippedPackagesAreKept` needs of a run only that nothing it has to write or remove lies under a
kept prefix, and that it will record what was recorded there (`KeepInv`). `RerunsAreAccepted`, `DoneMeansClean` and `UndisturbedRunsComplete` rest on a second invariant, `ResumeInvariant`. `ResumeInv` says of a run that nobody disturbed since its
plan that each file of its tree is either still to be written and as the plan found it (`Ahead`), or is
there and the tree has nothing to add to it (`Behind`), while what the manifest records and the
tree no longer has is as recorded, or has made room for a directory; so the tree is acceptable
whether the run stops now or ends. `QuietInv` carries that over from a run that stopped or ended to
the next change of anybody. An undisturbed run meets no impossible write because a directory precedes what lies
under it, so that by the time a file is written its parent is a directory or the plan found a file
there, which is the case `UndisturbedRunCompletes` excepts.

### `PackageEngineProofs`, `JsPluginsProofs`

`ReadsAreServed`, `CommitsAreWhole`, `ValidationIsSufficient` from `EngineInvariant`: `order` lists
plugins once and after their dependencies (`PlanSound`), from the generate phase on it lists all of
them and the package is resolvable (`StagesAgree`), a running plugin's dependencies have run and what
it has pending is within what it declares (`RunsAfter`), whatever validation has gone past is
acceptable, acyclic and apart (`Validated`), and the output has files of earlier packages only
(`Accumulated`). `NeedsAreServed` from `JsInvariant`: the stack is a path of needs and disjoint from
what was visited (`StackSound`), plugins are left after what they need (`SortedSound`), and because a
generate plugin never needs a post plugin the split by phase keeps that order.

`EngineImplementsPlanner` and `SearchImplementsPlanner` prove the refinements of `PlanOrder` step by
step: every step of either engine is a step of the planner, or none, under the mapping `PlanGraph`,
`PlanOutcome`. The search gives up on a plugin that it is visiting, and the plugins above it
on the stack are a set each of which waits for another.

### `SymbolsProofs`

`NamesAreDistinct` and `NothingIsStolen`, from `IInv == TypeOK /\ NamesDistinct /\ NothingStolen`.
The two are inductive only together: a suffix is new because everything wanted and allocated is in
`Taken`, and the first loop serves each name because among those who ask for it one has the least
entity. Nothing is assumed of `Lower`: any folding of names will do. `SuffixesAreTheFirst` adds
`AllocatedInOrder`: whoever has a suffix comes before all of its namespace that still wait, so that
what was taken from it was asked for, or went to one before it.

### `AutomationProofs`

All of them start from `History`: a commit's past is older than the commit and goes back to the first.

* The sync: `ProvenanceIsTrue`, `SpecIsOffered`, `SpecEditsAreKept` from `SyncInvariant`. `RunFine`
  says of each run, and `SoundMove` of each late request, that the commit it would move the branch
  to has the head it read in its past, and that this head was unedited where the move replaces the
  specification: a request that arrives late is refused or was sound.
* `ConnectionsAreKept`, under the hypothesis `SpecStays`: people delete no specification. `ConnInv` says
  that all commits of the review branch since it left the base belong to one connection, and so a
  merge does. The hypothesis is needed, and the attempt to do without it is how it was found: who
  removes the specification and the provenance file from a review branch leaves it to the next connection,
  and a merge of that branch puts this connection's provenance over the first one's on
  the base. The people of `automations` edit a specification and may remove a provenance file, but
  do not delete the specification, so that `ConnectionKept` holds there.
* Both commands on SDK repositories: `EditsAreKept`, `ReleasesAreKept` from `SdkInvariant`
  (`RunSound`, for any number of overlapping runs of `sdk pr` and of `sdk install`), `ReviewIsOffered`
  from `PrInvariant` and `InstallInvariant`, which say what a run that nobody interfered with
  (`quiet`) may conclude from what it read.

### `DeliveryProofs`

* `IdentityUsedOnce`, for any number of exchanges and identities. `UsedOnce` counts the markers
  created for an identity before it expires. `BrokerInv` adds that a used identity is remembered
  while it lives (`Remembered`); that a held identity was timely once, so that its expiry is bounded
  by the clock (`HeldTimely`); hence that an empty marker is never younger than the longest life by
  which it is judged (`EmptyBounded`); and that a cleanup, which may remove markers long after it
  read them, removes expired ones only (`DoomedExpired`). The assumption that carries it is
  `Lifetime + Skew <= Grace`: the code's largest life and its 30 seconds of skew are within the 700
  seconds that an empty marker is kept.
* `StoreIsBounded`, a counting argument: the markers, and the exchanges that have found room but have
  not yet created theirs, are together fewer than the limit and the exchanges there are
  (`RoomKept`).
* `ManagedAlways` and `RecordedAlways`, for any number of objects, values and polls, every set of
  criteria that `validate_polling` accepts and every choice of waiters. `ProviderInv` adds that only
  objects with an identity are managed (`KnownOnly`), that the API holds values as it stores them
  and only an update changes one (`Normalised`), and that a waiter waits for the managed object,
  whose change on its way is the plan of the one that waits (`WaitsForPlan`).
* `ReportsAreTrue` and `DifferencesAreReal`: a stored file never changes, so what a lookup saw
  stays so, however late it was (`LookupIsTrue`).
* `RequirementsAreMet`, `UserChoicesSurvive`, and `MergeRepeats`: merging a release into its
  own result changes nothing. `Materialize` assumes that of its `Merge`; this is the proof for the
  merge the code has.

### `ClientProofs`

* One call: `BudgetIsKept` and `NothingFallsThrough` from `Counts`, which relates sends, attempts and
  recoveries in each of the eleven loops; `HooksAreTold` adds `Telling`, what each hook has heard by
  where the call is. Both name what a client's loop does not catch (`NeverRetried`, `Heard`): a lost
  answer in Python, a body that breaks off after the loop has chosen.
* One provider: `ReplaysAreFresh` from `TokenInvariant`: types, who holds the lock or the exchange, and
  that between a rejection and the replay it is known which token was rejected, and the cache does not
  have it again once it is dropped (`Recovering`; not in Swift, see below). `ProvidersAreTokenCaches` proves the refinement of
  `TokenCache` for each language.
* One traversal: `TraversalsAreBounded` from `PagerInvariant` (what an iterator remembers is what it
  asked for); `EndsMeanAll` from `TraversalInvariant`: of an honest API, what was yielded are the items
  from the start up to the page asked for next, in ten languages and five forms of pagination.

`NumberLemmas` has the facts about numbers and sequences that several of them need, among them that
a nonempty set of naturals has a least element, from the library's fact that `<` is well-founded.

### Assumptions

Each is named, stands in the module that declares its constants, and is evaluated by TLC on its
instances. Those with content:

* `PathAssumption`, `TreeAssumption`: the order of paths is the `BTreeMap`'s, where a directory
  precedes what lies under it; a skipped package is a prefix, so what lies under a kept path is kept.
* `MergeAssumption`: merging npm manifests gives one, and merging again changes nothing.
* `TextAssumption`: no manifest that can be written reads like one that was cut short.
* `VersionAssumption`, `ProvenanceAssumption`: people who commit to an SDK do not take its version
  back or remove it; people who commit to a target may remove a provenance file but write none.
* `BrokerAssumption`: `Lifetime + Skew <= Grace`, and finitely many exchanges at a time.
* `ProviderAssumption`: the API normalises a value once and for all, and the criteria are valid.
* `PublishAssumption`, `GraphAssumption`, `PagerAssumption` and the others are shapes and bounds.

### What the proofs changed

An attempt that fails is a finding about the model. These were corrected against the source:

* `PackageEngine` and `JsPlugins` let a plugin whose hook had failed go on publishing; actions of a
  plugin are now guarded by `Running`.
* `RerunAccepted` was false where the author deletes a recorded file and the first attempt then makes a
  directory of that name for a file under it. A rerun finds a directory where the manifest records a
  file, and is refused. The property now excepts it, and `materialize` has a tree in which it occurs.
* `JsPlugins` kept the split order in a variable of its own, and the relation `Before` says the same of
  the visits; `Pager` built pages by filtering, `Span` says the same directly; what people may
  write is the constant `Change` of `Forge` rather than an operator.

### What is only model-checked

`GenerationEnds` of both engines, `EventuallyCurrent` of the bundler and `EveryCallEnds` of the token providers: liveness under fairness, and
`ENABLED`, are out of the prover's reach. So is induction over data: what a recursive definition
computes for every input; the models have none that a theorem needs.

## What the checks say about the code

Six statements of the documentation or of comments do not hold of the code.

* `materialize_move`: docs/reference/regeneration/safe-regeneration.md says that preflight catches
  validation errors before writing. `plan` does not look at a planned file's parents, and writes
  precede removals: a release that moves an owned file `client` to `client/mod` stops at
  `create_dir_all` with part of its files written, and so does every retry.
  `UndisturbedRunCompletes` excepts exactly this. One tree of `materialize` makes the same move, of a file
  to a path under its own, so that the exception is met there too.
* `sdk_pr_stuck`: docs/reference/automation/sdk-automation.md says that pushes reject races. Without
  an open pull request the commit's parent is the cloned base, so a leftover branch makes every push
  a rejected one, with nobody racing.
* `sdk_pr_release`: the same page says that cross-repository sync retains the released version. The
  destination's clone is one commit deep, so the history that would prove a release-only change
  is not there, and the destination is refused.
* `sdk_install`: docs/reference/automation/github-actions.md says that tracked installed files report
  refresh conflicts. `sdk install` builds upon the branch of an earlier installation. When that was
  merged and kept, and the setup was edited on the base since, the branch neither changes nor is
  ahead, and the command says that the setup is already installed. `ReviewOffered` does not count
  this ending.
* `java_hooks`: docs/guides/runtime-middleware.md offers lifecycle hooks "to observe calls". The
  Java renderer's text replacement puts `afterResponse` into the pagination helper instead of the
  request, so a buffered call that succeeds tells it nothing. `HooksTold`, of the passing run, says
  what does hold of each client.
* `pager_start`: docs/guides/pagination.md lists offset/limit among the forms TypeScript pages
  through. Without an offset the generated iterator computes with `Number(undefined)` and returns after
  its first page, without an error; every other language starts at 0.

Smaller observations, without a run:

* docs/reference/regeneration/safe-regeneration.md says that output with a generation notice is
  adopted; `plan` looks for no notice, and refuses such output as foreign.
* `resolve`'s check that no provider is in a later phase is implied by its cycle detection, since
  every post plugin depends on every generate plugin; and the lookup of `preferred` in the second
  loop of `SymbolRequests::resolve` is implied by the first loop for every name it leaves
  unforbidden.
* `validate_polling` accepts a delete criterion that asks for a 404 and for a member of its body
  together, which no answer matches; such a waiter ends at its attempts.
* Swift's actor may hand a rejected token out once more: a caller that resumes before the one that
  began the exchange may see the token rejected and invalidated before it is cached. Swift is
  excepted from `ReplayIsFresh` for that.
* A failed fetch ends Swift's URL iterator: the URL counts as seen, and asking again reports a
  repeated continuation. Java's cap counts failed calls. Go's iterators, Python's and PHP's but for
  the page form, TypeScript's URLs and Elixir's cursors have no cap. Where the next number would
  overflow, TypeScript, Rust, Java and C# end without an error. `EndsEarly` and `Capped` name these.

* The clients do not catch the same failures. Python's `except` names what urllib wraps, a failure to
  connect or to send: a timeout or a reset while the answer is awaited, and a body that breaks off,
  raise past the loop with attempts left and without `on_error`. The asynchronous client reads a
  buffered body inside the attempt that is retried; only an error that a stream got, or an answer that
  a middleware left open, is read where nothing is caught. In Rust (`bytes()`), in TypeScript for an
  error's body and in PHP over a PSR-18 client with lazy bodies, a body that breaks off ends the call
  untold. Ruby and Swift do not retry a name that does not resolve or a certificate that is no good.
* docs/guides/runtime-middleware.md, docs/guides/idempotency.md and
  docs/reference/outputs/generated-sdks.md say that Ruby and Swift add no automatic retries. Both have
  the loop that `RubyAttempt` and `SwiftAttempt` model, Ruby's with one attempt unless it is configured;
  docs/reference/outputs/native-sdk-providers.md lists Ruby's as opt-in.

## What is not modelled

`PROJECT.json` gives the reason per component. In short: renderers, parsers, data models and the
OpenAPI compiler are functions from documents to text without steps, and the larger part of the
repository's lines; the command line is I/O around `Materialize`; the overlays are planned. Partly modelled are:

* the JavaScript SDK: input loading, the emitted file store and the native addon are left out;
* `sdk_automation.rs`: options, the recipe's diff, the pull request's text, language isolation and
  scaffolding (`write_scaffold` writes before its inventory, as `Materialize` does) are left out;
* the token broker: signatures, policy, key cache, rate limits and the token that GitHub issues;
* the client runtimes: streams, bodies, item iterators and the lengths of pauses. PHP's token provider
  is left out: docs/guides/oauth-webhooks.md does not promise single flight between fibers. C#, Java,
  PHP, Elixir and Swift recover from a 401 below their retry loop, once per attempt;
* the Terraform provider: planning, composite and nested attributes, state upgrades, data sources. A
  create whose answer carries no identity leaves no trace in the code, nor in the model; `Managed`
  excepts objects that the API answered 404 for before they were ready.

These details of modelled definitions are left out, and no property tells the difference: the files that
bundled middleware may add in `Overlay`; the errors about a plugin's name in `Accepted` of `JsPlugins`;
requests about a pull request, as opposed to a branch, that `GiveUp` could leave to be handled late;
a delete without a waiter that is answered 202 and reported as an error.

Within modelled components the owners' names in the manifest, the syntax of paths, references and
identifiers, contract payloads, the wording of messages and pull request texts are left out.
`SpecSync` reads all files at one immutable commit in one step, and `SdkPr` generates and transfers
in one local step, because nobody else can touch a temporary clone. `Pager` assumes that an honest
API respects the limit it is given.

Hazards that no property covers, each with its reason in `PROJECT.json`: a pull request that is
merged or closed while its SDK is generated, and the scaffold's inventory.

## Plan

Order of work, most important first. Done:

1. `Materialize` with `NpmManifest`, its runs, `EditsAreKept`.
2. `PluginGraph`, `PlanOrder`, `PackageEngine`, `JsPlugins`.
3. `Forge`, `SpecSync`, `SdkPr`, `SdkInstall`.
4. `Symbols`, `NamesAreDistinct`, `NothingIsStolen`.
5. `Publish`, `Broker` with `IdentityUsedOnce`, `Watch`.
6. `TokenCache`, `TokenProvider`, `RetryLoop`, `Pager`.
7. `ProviderResource` with `ManagedAlways` and `RecordedAlways`.

8. `PackageEngineProofs`, `JsPluginsProofs`, with both step simulations of `PlanOrder`.
9. `AutomationProofs`: edits, releases, provenance, connections and reviews.
10. `DeliveryProofs` and `ClientProofs`, with the step simulation of `TokenCache`.
11. The rest of `MaterializeProofs` and `SymbolsProofs`.

Left:

12. Overlays, as the content of `PackageEngine`'s `Overlay` step, with their ownership of paths.
13. `Generator`: `PackageEngine`'s output as the tree of `Materialize`, with failures between them,
    and the theorem that a failed generation writes nothing.
14. The planning of a Terraform provider's entities; validation of pagination plans.
15. An abstract specification of a review branch (commits are added, edits are kept) that `SpecSync`
    and `SdkPr` both implement, from the invariants of `AutomationProofs`.

To keep the number of runs readable, a violation run whose question is settled by a change in the
code is retired when a new one is added, and small instances are scenes of one run.
