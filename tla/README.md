# A TLA+ model of llm-wiki-bff

llm-wiki-bff is the backend of a personal wiki. A Gin server (the *BFF*) stores
a user's raw sources, serves the generated wiki, answers queries about it and
starts a Cloud Run job (the *worker*, `cmd/olw_worker`) that turns raw sources
into a new *generation* of the wiki. Objects live in a GCS bucket (or on a
mounted or local file system), documents in Firestore.

This directory models the parts of it that are hard to test: what happens when
executions, BFF instances and admin requests meet at the same objects, when
calls fail, are lost or arrive late, and when a process dies between two steps.

## Contents

| module | models | kind |
| --- | --- | --- |
| `ObjectStore` | lease, manifest and canonical objects of one project, conditional requests and what a caller learns of them | component |
| `PublishProtocol` | worker executions, BFF legacy write sessions and admin rebuilds acting on that store | composition, `EXTENDS ObjectStore` |
| `GenerationHistory` | the promise to readers: one unforked history of generations | abstract specification |
| `PublishProperties` | the properties of `PublishProtocol`, and `GenerationHistory` instantiated on it | properties |
| `PublishInvariants` | inductive strengthenings | properties |
| `PublishProofs`, `PublishHistoryProofs` | theorems | proofs |
| `MCPublish` | instances | TLC |
| `WorkspacePublish` | publication into a mounted vault: lease, stage, journal, renames, rollback, recovery | component |
| `AtomicVault` | the promise of that publication: all outputs at once or none | abstract specification |
| `MCWorkspace` | its properties and instances | TLC |
| `WorkspaceProofs` | theorems | proofs |
| `PipelineTrigger` | `POST /pipeline/run`, its quota transaction and refund, and the admin trigger | component |
| `MCTrigger` | its properties and instances | TLC |
| `TriggerProofs` | theorems | proofs |
| `SourceReceipts` | raw files, annotations, source IDs, receipts and lifecycle statuses across runs | component |
| `MCSources` | its properties | TLC |
| `SourcesProofs` | theorems | proofs |
| `IndexReads` | requests pinned to a view, three in-process caches, index rebuilds under lock and lease, publication | component |
| `ConceptIdentity` | concept IDs, their migration to Synto entities, redirects, admin rebuilds | component |
| `SyntoIndex` | enrichment and the two validators of `INDEX.json` | component |
| `SyntoVault` | preparing a workspace for Synto, the child processes, the preflight before publication | component |
| `ContentProofs` | theorems about the four components above | proofs |
| `SuggestedQueries` | generating, validating, publishing and reading the query chips | component |
| `WorkerLog` | live stream, stored log, failure diagnostic and the BFF's reading of it | component |
| `ProjectAdmin` | creating, listing, renaming and deleting projects and users | component |
| `AdminProofs` | theorems | proofs |
| `Accounts` | registration and its setting, login, rotation of refresh tokens | component |
| `RateLimiter` | the per-address limiter and its cleanup | component |
| `QueryAnswer` | one query from configuration to citations | component |
| `ServiceProofs` | theorems about `QueryAnswer`, `Accounts`, `RateLimiter` and `SuggestedQueries` | proofs |
| `MCContent` | `MCSources`, `ConceptIdentity` and `ProjectAdmin` in one instance | TLC |
| `MCService` | `SyntoIndex`, `SyntoVault`, `SuggestedQueries`, `WorkerLog`, `Accounts`, `RateLimiter`, `IndexReads` and `QueryAnswer` in one instance | TLC |

`PROJECT.json` maps every definition to the lines it models, and lists the
runs, the mutants that show that each property can fail, the hazards and the
findings. A definition whose comment begins with "Mutant:" is such a mutated
form and is not used by any specification.

Run a configuration with `tlc -config PublishSafety.cfg MCPublish`, check a
proof module with `tlapm PublishProofs.tla`.

## Inventory

For each part: its state, its operations, whom it meets, what is hard, and what
makes it correct.

**Generation publication, cloud mode** (`cmd/olw_worker/cloud_publish.go`,
`lease_liveness.go`, `cloud_execution_probe.go`). State: `lease.json` and
`current.json` of the project, generation objects, receipts, one diagnostic per
execution. Operations: acquire the lease (reclaiming it from an ended
execution), materialize the current generation or the canonical objects, run
Synto and the reconcilers, upload, commit the manifest by compare-and-swap, read
back when the answer is missing, write receipts or diagnostics, release.
Meets: other executions, restarted tasks of the same execution, BFF legacy
writes, admin rebuilds. Hard: three-call reclaim, lost answers, crashes, late
requests. Correct when the lease excludes, a manifest names only complete
generations, manifests never fork, receipts and reports are true, and an
orphaned lease does not block the project.

**BFF legacy writes** (`internal/gcs/client.go`, `internal/storage`). Before a
project has a manifest the BFF may write canonical generated paths, under the
same lease. Correct when no acknowledged write is shadowed by a first manifest
that was built without it.

**Admin generation rebuild** (`internal/gcs/generation_rebuild.go`). Reads the
manifest, uploads derived artifacts and commits without the lease.

**Local workspace publication** (`cmd/olw_worker/workspace_publish.go`,
`main.go`). State: vault lease, stage and backup directories, journal,
destinations. Operations: acquire, recover, stage, publish entry by entry,
commit, clean up, roll back. Hard: every file operation may fail, the process
may die anywhere, recovery may itself be interrupted. Correct when the vault
shows one whole generation, and what is recorded agrees with it.

**Pipeline trigger and quota** (`internal/handler/v1/pipeline_quota.go`,
`endpoints.go`, `internal/firestore/quota.go`, `internal/pipelinequota`). State:
the quota document, the Cloud Run executions. Operations: read the clock, list
executions, count pending work, reserve in a transaction, call `jobs:run`,
refund. Meets: other requests, the admin trigger, a call that starts a job and
loses its answer. Correct when limit and cooldown hold and runs do not overlap.

**Source receipts, lifecycle and annotations** (`internal/sourcestatus`,
`internal/sourcelifecycle`, `internal/handler/v1/annotation.go`,
`raw_upload.go`, `source_reconcile.go`, the receipt half of `cloud_publish.go`).
State: raw files, one annotation per source, the receipts artifact, the ID map
and `raw_status.json`. A run snapshots raw files and annotations, Synto writes
pages, source IDs are reconciled, and receipts are merged by a bounded
compare-and-swap while users go on editing. Correct when a receipt never claims
an input the run did not ingest, IDs stay, and "no pending work" means that
nothing is left to ingest.

**Index rebuild, generation reads and caches** (`internal/handler/v1/idmap.go`,
`id_routing.go`, `internal/gcs/client.go`, `internal/cache`). A request pins the
manifest it finds first; three caches keep what requests loaded; a rebuild runs
under a Firestore lock with a TTL that its release deletes whoever holds it, and
under the storage lease. Correct when a request never mixes generations, writes
of rebuilds do not overlap, and a cached ID map is never older than a rebuild
that was acknowledged.

**Concept reconciliation** (`concept_reconcile.go`, `internal/wikiindex`). IDs
of concept pages move from legacy IDs to Synto entities; redirects keep old
links. Correct when every link that worked keeps working or ends at its entity,
and redirects neither chain in a circle nor point to nothing.

**Synto adapter, INDEX and vault** (`synto_adapter.go`, `synto_identity.go`).
A child process writes the wiki; the worker decides whether to adopt, initialise
or migrate a vault, checks it before and after each child, joins `INDEX.json`
with `agent/concepts.json` and validates it; the BFF validates it again. Correct
when a child never starts on a vault it would destroy, what is published can be
adopted by the next run, and what the two validators disagree about is known.

**Worker log and failure diagnostics** (`live_stream.go`, `main.go`,
`failure_diagnostic.go`). Redaction over chunk boundaries, framing, bounding,
one failure record at the end. Correct when no secret is printed or stored, a
recorded failure is found in the stored log, and the worker adds no record to
one that is there.

**Suggested queries** (`internal/suggestedqueries`, `main.go`). A model is asked
once per run and may answer anything. Correct when what was generated is shown,
about concepts that were given, and a failure never replaces a good set.

**Projects and users** (`endpoints.go`, `init_project.go`,
`project_mutation.go`). Documents whose IDs are `owner_suffix`, markers of
`Idempotency-Key`, object prefixes; deletions of many calls, each of which may
fail, that take no lock and may overlap. Correct when one key makes one project,
a deletion takes only its targets, and one that stopped can be repeated.

**Accounts** (`internal/auth`, `internal/syssettings`) and **rate limiter**
(`internal/middleware`). In-process tokens and counters under concurrent
requests. Correct when a login has at most one good refresh token and no window
sees more than twice the limit, which is what the cleanup leaves of it.

**Query pipeline** (`internal/query`, `queryruntime`, `queryconfig`,
`queryquality`, `search`). Parallel expansion attempts, deterministic merging,
qualification, selection, contexts with issued references. Correct when hard
criteria hold for every result and every citation is to a page that was shown.

**Left out**: wiring and configuration, the local development file store,
one-shot tools (`cmd/sync`, `cmd/backfill`, `cmd/versioncheck`), the offline
query experiments, generated API documentation, deployment workflows. They keep
no protocol state.

## Plan

1. `ObjectStore`, `PublishProtocol`, `GenerationHistory`: the commit point of
   the whole system. *Done, with theorems.*
2. `WorkspacePublish`, `AtomicVault`. *Done, with theorems.*
3. `PipelineTrigger`. *Done, with theorems.*
4. `SourceReceipts`, `ConceptIdentity`: what the wiki holds over several runs.
   *Done, with theorems.*
5. `IndexReads`: views, caches, rebuilds. *Done, with theorems.*
6. `SyntoIndex`, `SyntoVault`, `SuggestedQueries`, `WorkerLog`. *Done;
   `WorkerLog` is model-checked, the others have theorems.*
7. `ProjectAdmin`, `Accounts`, `RateLimiter`. *Done, with theorems.*
8. `QueryAnswer`. *Done, with theorems.*

The configurations are few and each asks one question. Components that share no
variable are checked in one run (see below).

## Publication

### State and actions

`ObjectStore` keeps, of a project's bucket, the lease object, the manifest
object and the set of canonical writes; `clock` is the source of object
generations, `log` a history variable with every manifest ever committed. A
request carries the condition that `gcsConditions` builds: create needs
absence, delete needs the generation that was read, commit needs the generation
of the manifest that was materialized. A caller sees one of three outcomes:
`Answered`, `Refused` (412/404, which may also be the library's own repetition
of a request that was applied), `Unanswered` (applied, lost, or, with
`LateDelivery`, still under way and applied by a later `Arrive`).

`PublishProtocol` has one action per call of the worker, in the order of
`runCloudWorkerBatch`:

| code | actions |
| --- | --- |
| `acquireCloudLease`, `tryCreateCloudLease` | `CreateLease`, `CreateConflict`, `CreateFails` |
| `maybeReclaimCloudLease`, `Probe`, `allowLeaseReclaim` | `InspectLease`, `ProbeHolder`, `ReclaimLease` |
| `materializeCloudWorkspace`, `materializeLegacyCloudOutputs` | `ReadManifest`, `ReadLegacyOutputs` |
| Synto, postprocess, reconciliation | `RunBatch` |
| `publishCloudGenerationWithFiles` | `UploadOutput` per file, `CommitManifest` |
| `confirmManifestCommit` | `ConfirmManifestCommit` |
| `writeCloudFailureReceipts`, `recordCloudAmbiguousManifestFailure`, `writeCloudReceipts` | `RecordFailure`, `RecordAmbiguous`, `WriteReceipts` |
| deferred release with `RetryGenerationCleanup` | `ReleaseLease`, `ReleaseLeaseFails` |
| Cloud Run | `Launch`, `Crash`, `RestartTask`, `EndExecution` |
| `BeginLegacyGenerationWrite`, `withGenerationWriteLease` | `BeginSession`, `CheckNoManifest`, `RecheckNoManifest`, `PutLegacy`, `EndSession`, `CrashSession` |
| `RebuildIndexGeneration` | `ReadForRebuild`, `UploadRebuild`, `CommitRebuild` |

Abstracted: what a generation contains (a count of files and the set of legacy
writes it was built from), which sources get a receipt (a record exists or
not), and how Cloud Run's answers are parsed (`Probe` never answers terminal
for a running execution). A failing read, upload or batch costs a fault;
`MaxFaults` bounds faults per behaviour.

### Runs

| run | instance | shows |
| --- | --- | --- |
| `publish_safety` | 2 executions × 2 tasks, 1 session, 1 rebuild, 1 fault, late delivery | the lease excludes, generations are complete, reports are true, the history does not fork |
| `publish_receipts` | 2 executions in both stages, a session of 2 writes, 2 files, 3 faults | acknowledged legacy writes are in every manifest; failure receipts are true |
| `publish_recovery` | 2 executions × 2 tasks, full or clean, 1 fault, late delivery | an orphaned lease does not block the project |
| `rebuild_hides_commit` | 1 execution, 1 rebuild, 1 fault | *violation*: see Findings |

Two executions are enough for each conflict at the lease (a holder and a
reclaimer) and the second task of an execution gives the third party; workers
are interchangeable, so they are a symmetry set in the safety runs. Two files
let an upload stop in the middle. A single fault already orphans a lease or
loses an answer; three allow a lost commit answer, a failed read-back and a
failed release in one behaviour. `LegacyCovered` is only stated for instances
without clean rebuilds, which drop the prior content on purpose, and
`publish_receipts` excludes late delivery: a commit that is applied after the
read-back cannot be foreseen by anybody.

`Recovery` is checked under weak fairness of `WorkerStep`: a task that is not
killed is one sequential program whose storage calls all end in a timeout.
Nothing is assumed of launches, sessions, rebuilds or late requests. It excludes
leases of a BFF session (`Redacted`): the code never reclaims those, and
`docs/DEPLOYMENT.md` tells the operator to.

### Proofs

All theorems hold for every number of executions, sessions, rebuilds, files,
tasks, writes and faults, and, but for the last two, for late delivery or not.
They rest on the assumptions on constants that are stated in the modules (`FaultAssumption`,
`ProcAssumption`, `BoundAssumption`): the bounds are natural numbers, the sets
of processes are disjoint, and the names for "nobody" and "no generation" are
not processes or generations.

* `TypeCorrect`: `Spec => []TypeOK`. `TypeOK` bounds the loop counters, so it
  needs `CountInv`: at "upload" some file is missing, at "release" an attempt is
  left, a session that goes on has a write left, and an id that is still ahead
  has no files.
* `LeaseKept` and `MutualExclusion`: `HolderKeepsLease` is not inductive; a
  reclaimer's delete is only harmless because the generation it names belongs to
  an execution that has ended. `LeaseInv` says what a reclaimer knows
  (`ReclaimJustified`), that generations are handed out once
  (`LeaseGensIssued`, `HeldUnique`), and that an abandoned delete never names the
  lease of a process inside (`LateDeletesHarmless`). Mutual exclusion follows:
  two processes inside would have created the same object.
* `CommitsAreComplete`, `ReportsAreTrue`, `HistoryRefinement`: `HistoryInv` says
  that who read the current manifest object names its id (`BaseMatches`), that
  an id before its commit is neither committed nor under way and one under way
  is under way once (`IdsFresh`), and that uploads are complete before the commit
  is sent. `HistoryRefinement` is `Spec => HistorySpec`: each commit appends one
  manifest whose predecessor is the last one, every other step stutters.
* `AcknowledgedWritesStay`: `LegacyCovered`, when no abandoned request is applied
  later and no run is a clean rebuild (both are needed: a late first commit
  would shadow a write acknowledged in between, a clean rebuild drops the prior
  content on purpose). Admin rebuilds are allowed. `CoverInv` follows the writes
  from the acknowledgement to the manifest: they are stored at the canonical
  paths, an execution that found no manifest carries all of them, and a
  publisher that found one carries what that manifest covers. The step that
  needs care is the commit of a first manifest: `LeaseExclusive` rules out a
  session about to write, and a rebuild cannot commit one, for it read a manifest
  before.
* `FailureReceiptsAreTrue`: `FailureReceiptTrue`, without late requests and
  without admin rebuilds (`rebuild_hides_commit` shows what they break).
  `OutcomeInv` says that an execution that gives up did not commit, that one
  whose commit took effect unnoticed still finds its own id at the read-back
  (here the lease is needed again), and that an id with a failure receipt is
  past its commit.

The lease, history and receipt proofs go through a *shape*: the few facts about a step
that matter to the invariant (which object was created or deleted, who moved
where). One lemma shows that a step of that shape preserves the invariant, and
one lemma per action shows that the action has the shape.

## Local vault

`WorkspacePublish` has one action per file operation of
`publishStagedOutputs`, `cleanupCommittedPublish`, `rollbackPublish` and
`recoverInterruptedPublish`, each of which may fail. Renames and journal writes
happen or do not; removing a directory may stop half way and leave it
`Damaged`. `Die` kills the process anywhere, `OperatorUnlock` stands for the
operator who removes the lease of a process that is gone (the code never does).
`trouble` counts failures since there was no journal, `worst` is its maximum.

`workspace_vault` (three runs, two destinations of which one is a directory that
existed before, two failures per publication) checks that a committed
publication is never rolled back whatever fails (`CommittedStays`), and, as long
as no publication has met a second failure, that what recovery would leave
(`View`) changes as `AtomicVault` says (`VaultAtomic`) and that a run recorded
as failed is not shown (`FailedNeverShown`). Three runs give a publication, a
failing one and a recovering one in sequence; two destinations give every
mixture. The condition on the second failure is needed: `repeated_rollback` shows
what happens without it.

`WorkspaceProofs` proves the three for every number of runs, destinations and
failures (`VaultChangesAtOnce`, `FailedRunsAreNeverShown`,
`CommittedOutputsStay`), from `WorkspaceAssumption` alone: there is a
destination, and the names for old, absent and damaged content and for "nobody"
differ from each other and from the runs. `WorkspaceInv` is the inductive
invariant; TLC checked it on the instance of `workspace_vault` before it was
proved. `PlaceInv` relates the place of a run to the lease and to the journals on
disk and in memory. `LoopInv` says, entry by entry, what the publishing loop has
moved so far, `RollInv` how a rollback's journal may be ahead of the one on disk:
by one mark whose write failed, and which is not yet true of the vault.
`MovedAway` says that an output that was moved away and not replaced is not
there; it is why a restore is never blocked after a single failure. `CalmInv`
says that, short of a second failure, a rollback meets no error and a run that
is shown has committed and recorded no failure. Of each action it is then shown
that the vault stands for the same outputs as before (`QuietStep`), but for the
write of the committed journal, which is a `Publish` of `AtomicVault`
(`CommitStep`). `CommittedOutputsStay` needs no bound on failures: only the loop
and a rollback move outputs, and neither runs beside a committed journal.

## Pipeline trigger

`PipelineTrigger` has one action per external call of a request; any other
request may act in between. Time is a tick counter; a request ends within
`MaxRequest` ticks (the server's and the HTTP client's timeouts). One clock is
assumed for all BFF instances. The Firestore transaction is one step; a lost
commit answer leaves the reservation. When the list of executions cannot be
read, or an execution has no status yet, the code uses a lock that nothing in
the repository writes: its value is arbitrary in the model. The unenforced mode
without a quota store has no state and is left out.

`trigger_runs` (three user requests and one admin, limit 2, cooldown 2 ticks,
requests of at most 1 tick, a day of 5) checks the daily limit, the cooldown,
and that executions of accepted users overlap only if the later request could
not see the list. Three requests are what it takes to exceed the limit of two;
the clock runs over midnight. That the cooldown is longer than a request is the
condition under which all this holds: `short_cooldown` drops it. Deadlock is not
checked: the requests of an instance simply end.

`TriggerProofs` proves the three properties for every number of requests, limit,
length of a day and cooldown with `MaxRequest < Cooldown` (`LimitIsKept`,
`CooldownStaysKept`, `RunsStayApart`). The condition is exact: with
`MaxRequest = Cooldown` TLC already finds the limit exceeded. What makes the
invariant inductive is what the quota document stands for while requests are
between their calls. `TimelyInv` says that no request under way is older than
`MaxRequest`. `QuotaInv` says that the document accounts for every accepted
request (`Covers`), that at most one reservation is open and is the stored one,
because the cooldown it started outlasts the request, and that the older
document a refund would write back accounts for every accepted request as well.
`SeenInv` says that a request that saw the list of executions knows of each
accepted run still under way.

## The wiki's content

`content` checks `SourceReceipts`, `ConceptIdentity` and `ProjectAdmin` at once.
They share no variable, so the product of their state spaces would say nothing
more: the first state chooses which of them moves (`part`), the others stay in
an initial state, and TLC explores the union of the three state graphs.
Invariants and action properties of one component hold in the union exactly if
they hold in its own graph. Deadlock is not checked in this run: runs, edits and
requests of an instance simply end.

**Sources.** A run is `StartRun`, which copies the raw files, `CopyAnnotations`
(one after the other, so a user may edit in between), `MaterializeWorkspace`,
`RunSynto`, `CommitWiki`, `MergeReceipts` and `WriteReceipts`; `RunStops` ends it
anywhere. Digests are the
contents themselves, a source ID is the raw file and the run that first wrote a
page for it, which is all that `reconcileSourceIDMap` can tell apart. Uploading
is two steps, comparing and writing, as in the code; an annotation write carries
the version it was read at. Publication itself is one step here:
`PublishProtocol` has its details, and its lease is why a run has the project
for itself. Two raw files, two texts, an empty and a non-empty annotation, two
sessions, three edits and three runs: a first run publishes a page, a second
gives it its receipt, a third meets what was edited in between. A reduced
instance with five runs and four edits was explored as well; it reaches the
stuck receipts described under Findings.

`ReceiptsTrue`, `ReceiptedIdsKept`, `ReceiptsAccepted`, `NoWorkMeansIngested`
and `AnnotationsNotLost` are the promises; `suggested_receipts` shows that the
first fails as soon as the suggested-queries stage is among `RunKinds`. The
five are also theorems of `SourcesProofs`, see Proofs below.

**Identity.** Pages, `INDEX.json` and the ID map over successive runs and admin
rebuilds; two slugs, two legacy IDs and two entities give renaming, swapping,
merging and disappearing. With the Synto executor `INDEX.json` always exists, so
`reconcileWorkspaceConcepts` always takes its direct-entity path; the older
paths for a missing INDEX (`filterUnmappedLegacyConcepts`,
`augmentLegacyConceptEntities`, `mapSyntoEntityIDsFromIndexTruth`,
`reconcileConceptIDMapWithEntities`, `planConceptLifecycle`) cannot be reached
and are left out.

**Projects and users.** Owners, keys and project IDs are sequences of the parts
between separators, given in `MCContent`: an owner and a key that contain the
separator, so that IDs of one owner begin like those of the other, and one
document is the marker of either; two overlapping creations, two documents from
before owners were stored, and two deletions at a time that stop at any call,
of the same user or not, against uploads under way. `AdminDeleteProject` and
`AdminDeleteUser` take no lock, so each deletion (`Deletions`) works on the lists
it read when it began, call by call. `overtaken` remembers which markers on a
deletion's list another one has removed since: such a marker may have been
created anew by another owner, and the second delete, which has no condition,
removes that one too (see Findings). It is the only document or object that
`OnlyTargetsDeleted` lets a deletion take from somebody else. `MaxChanges`
bounds renamings and writes together. Both creations carry the key; a third one
without a key, which only generates an ID, was explored once beside them
(1.4 million states for the union) and violates nothing.

Symmetry: clients, slugs and creations use the same two model values, texts,
legacy IDs and deletions two others; a permutation acts on the variables of one
component only, because the others are in a state that it leaves as it is.

## The components around it

`service` checks eight more components in the same way, as a union.

* `SyntoIndex`: a document of up to two articles and a group of source concepts
  is built field by field, and then one field deviates: each takes every class of
  strings that one of the validators tells apart (empty, blank, padded, over 1024
  bytes, two dots inside, a "." element, a control character, NUL, outer white
  space before a name or an absolute path, ...). `DecodersAgree` says that both
  read the same plan or refuse, except for `Loose`, the exact list of what one of
  them refuses although the other may not: a class missing from the list violates
  it, and so does a class that both accept. The list is under Findings.
  `EnrichSound` compares the joined document with its inputs.
* `SyntoVault`: a child may leave `.synto`, `.olw` and the configuration in any
  state and exit with or without an error, over two runs, so that the second
  begins with what the first published. `SyntoStartsSafely`: no child starts on
  an unsafe configuration, on changed inputs or, where identities exist, without
  the state that holds them. `PublishedIsAdopted`: what is published can be
  adopted. The preflight runs before either kind of publication
  (`workspace_publish.go:374` for a local vault), and so the property is about
  both.
* `SuggestedQueries`: the model answers with any two candidates, also with
  duplicates, statements and unknown concepts; two runs, with concepts that
  change in between.
* `WorkerLog`: two streams, four writes from chunks that split a secret at each
  of its positions, that print a failure record of their own or a truncation
  marker, a bound small enough that each kind of truncation happens,
  two tasks. The secret `s s k` repeats its first symbol, so that a prefix has
  to be kept while another attempt at it begins.
  `StoredLogHonest` says what is stored whatever the child printed: within the
  bound and without the key; if the worker recorded its failure, a record on a
  line of its own; otherwise no more records than the child printed; never one
  added to a record that is there; and, unless the child printed a marker, a
  marker only where the bound was met and else the whole text. It is about keys like this one, of which no end is also a
  beginning; see the notes under Findings for the others.
* `Accounts`: two processes, two logins, overlapping refreshes, restarts.
* `RateLimiter`: four requests, limit one, a window of two ticks and a sweep
  every three, so that a sweep meets both an expired and a fresh entry.
* `IndexReads`: one action per critical section: `LookupRouting` takes `idRoutingMu`
  and keeps it until `StoreRouting`, the other two caches are looked up and stored
  in two sections. A rebuild is one action per call, from `CheckManifest` to
  `listCacheInvalidate`, which answers it; `LockExpires` may strike at any time.
  `LoseObject` makes a generation unreadable, where the code must fail rather than
  read another file. Two readers and two rebuilds with one manifest suffice for
  each race: a load against an invalidation, a slow rebuild against its successor,
  a rebuild against a publication; the theorems cover every other number.
* `QueryAnswer`: three pages, two criteria of different kinds, two attempts, a
  limit of two with one exploration slot; the corpus, the named pages and each
  attempt's plan are arbitrary. A plan may name a criterion under several roles,
  only not as required and excluded. Goals are left out: for what the properties
  see they are preferred criteria under another name. Scores are abstracted to
  what ranks before what.

Attempts and readers, and rebuilds, are symmetric. Deadlock is not checked:
every request ends.

### Proofs

`ContentProofs`, for every number of readers, rebuilds and manifests, where the
only assumptions are that `MaxManifests` is a natural number and that the name for
"nobody" is not a process:

* `RebuildsExclude`: `RebuildsExclusive` follows from `WriterHolds`, that who
  writes holds the lease and no manifest exists. The Firestore lock plays no
  part in the argument: it may expire and be deleted by anybody.
* `ViewsDoNotMix`: `OneViewPerRequest` needs that cache entries, and content
  about to become one, carry the generation of their key (`CachesByView`), and
  that nothing is used before the view is pinned.
* `RoutingIsFresh`: `RoutingNotOlderThanAnswer` is not inductive: the danger is
  a request that loaded the old map before the invalidation and stores it
  after. `FillsInOrder` says that who is between lookup and store holds the
  mutex, and that what it loaded is as new as every rebuild that has already
  invalidated the routing cache but is not answered yet; `VersionsOrdered` that
  the canonical map is as new as every rebuild past writing it.

`SourcesProofs`, for every number of raw files, texts, annotations, clients,
edits and runs:

* `ReceiptedIdsStayKept`, `ReceiptsStayAccepted`: `IdInv` says that a snapshot
  describes the copies the run has made (`SnapsTrue`) and, stage by stage of a
  run (`IdsInv`), that a raw file has one page and one receipted ID unless it
  came back, that pages agree with receipts, and that what a run copied holds
  every raw file with a receipt that is still there.
* `ReceiptsStayTrue`, `NoWorkStaysIngested`: `TruthInv` adds that the page about
  to be committed was made from the snapshot, that a committed snapshot was
  ingested, and that the receipts being merged claim nothing else.
* `NoAnnotationLost`: the write is conditional on the generation its author
  fetched; only the shape of annotations and sessions is needed (`NotesInv`).

The first four assume `Skippable = {}`: Synto leaves no raw file without a page.
Synto is external and might; with one skippable file TLC refutes `ReceiptsTrue`
(see Findings). `ReceiptsStayTrue` and `NoWorkStaysIngested` also assume
that no run is for the suggested queries alone, which is the finding
`suggested_receipts`. `NoWorkStaysIngested` needs that `Raws` is finite, because
pending work is counted.

`ContentProofs`, for every set of slugs, legacy IDs, entities, runs and children:

* `RedirectsStaySound`, `LinksStayKept`: `IdentityInv` is `RedirectsSound` with
  the shape of the ID map and of the articles: legacy IDs are redirected only to
  entities and entities not at all, so a route has at most one hop, through
  Synto runs, migrations, failing reconciliations and admin rebuilds alike.
* `RunsStartSafely`, `PublicationsAreAdopted`: `VaultInv` says which checks each
  stage of a run has behind it (`StageInv`); a child may leave anything, and only
  what the preflight saw after the last child counts.

and for every `INDEX.json` and list of agent concepts over the classes of
strings that the validators tell apart, of any length and with any number of
defects at once (`Documents`, more than the runs build):

* `DecodersStayAlike`: field by field, what the two validators check is the same
  unless the document is `Loose` (`ArticlesAlike`, `GroupsAlike`, `RestAlike`),
  and one of them refuses a document that is.
  That the BFF asks for an article ID and the worker does not shows nowhere,
  because no plan is made without one.
* `JoinStaysSound`: a proof names one article, because the join requires unique
  IDs and paths (`ProofNames`, `FillIsProved`), so a fill is as unique as its
  proof (`FilledDistinct`), and IDs and paths stay (`FilledPlans`).

`AdminProofs`, for every finite set of owners, keys and generated IDs, every set
of requests and every document from before owners were stored. `AdminAssumption`
says what the generator of IDs gives: one part without a separator, that ends no
key and is no older project's ID or label. Owners and keys may contain the
separator and begin alike; nothing is assumed of them.

* `AdminInvariant`: each document is a project's, a marker's or an older one
  (`DocsFormed`); a project is named once but for its marker (`ProjectsUnique`);
  an ID about to be created is nowhere yet (`CreatesFresh`); the answer to a key
  is in its marker (`AnswersMarked`); the lists of a deletion are its user's
  or name its one project (`ListsOwned`), are distinct (`ListsDistinct`) and miss
  nothing but what came too late (`ListsComplete`); and once a project's objects are gone new ones came too late
  (`TargetEmpty`).
* `KeysNameProjects`: two answers to one key are both in the one marker, and a
  list contains a project once because the documents it is made from have
  different projects.
* `DataAnchored`: `DocumentsAnchorData` is part of the inductive invariant; it
  needs the order of a deletion's calls, objects first, its own document last.
* `DeletionsHitTargets`: what is classified belongs to the owner who created it
  (`DocsFormed`), also when another owner's name begins its ID. The lists of a
  deletion hold nothing else, and stay so while other deletions and creations go
  on (`ListsOwned`): a project's ID is never given again, and a marker on the list
  stays its user's until another deletion removes it, which `overtaken` records.

`ServiceProofs`, for every corpus, set of criteria, number of attempts and
selection limit:

* `CitationsAreBacked`: `CitationInv` adds which stages have contexts and
  answers; citations are filtered through the references issued once.
* `HardCriteriaAreKept`: a result qualified under the merged plan, and the
  merged plan contains every exclusion and each unanimous requirement.

for every number of processes, logins and tokens:

* `LoginsKeepOneToken`: `OneTokenPerLogin` counts; `FamilyApart` says the same
  of pairs, and extends it to tokens that a request has taken out of the store
  and will replace. With `TokensIssued`, that no token in use is one still to be
  handed out, it is inductive.

and for every finite set of requests, limit, window and cleanup period above the
window:

* `WindowsKeepLimit`: one entry lets at most the limit through in a window
  (`EntriesKeepLimit`), because it remembers every accepted request that still
  counts (`Remembers`). A deleted entry takes its memory with it, so the limit
  may be reached twice. `DroppedInv` says that a request may count itself in an
  entry already deleted only in the tick of that cleanup; then requests in
  entries two apart are a cleanup period apart (`EntriesApart`), so no window
  touches three entries.

and for every set of concepts, answers of the model and number of runs:

* `GeneratedSetsAreShown`, `LastGoodSetIsKept`: `ChipInv` says that a run either
  carries a set made from what its model answered, or still shows what the
  project showed before; the rest is that the reader's checks accept what the
  writer's accepted.

## Findings

* `rebuild_hides_commit`: an admin rebuild that commits between a worker's
  unanswered commit and its read-back makes the worker record a failure for a
  generation that was committed, against `cmd/olw_worker/DESIGN.md:135-138`.
* `repeated_rollback`: a rollback that is repeated after it restored an output
  removes what it restored (`workspace_publish.go:567`), because the journal
  still says the destination was published and the missing backup is no error.
* `short_cooldown`: `RefundQuota` writes an old snapshot back unconditionally;
  with a cooldown below the time of a trigger call it erases another request's
  reservation and the daily limit is exceeded.
* `admin_race`: the admin trigger checks for running executions and starts one
  without a reservation, so two can run at once.
* `suggested_receipts`: a run for the suggested queries alone writes success
  receipts for every mapped source (`cloud_publish.go:410`), although Synto never
  ran. A raw file edited since the last full run then counts as ingested, and
  the quota gate refuses the run that would ingest it.

Noticed while modelling, without a run of its own:

* `DESIGN.md:207-211` says that no failed diagnostic is written when the outcome
  of the commit is unknown; `recordCloudAmbiguousManifestFailure`
  (`cloud_publish.go:1120`) writes one, and its tests expect it.
  `RecordAmbiguous` follows the code.
* `readPipelineFailureDiagnostic` (`endpoints.go:1543`) decodes with
  `DisallowUnknownFields` into a type (`handler/types.go:228-238`) without the
  fields `execution` and `message` that the worker always writes
  (`failure_diagnostic.go:336-352`), so a status never shows the worker's
  reason. `readPipelineFailureDiagnostic` in `WorkerLog` follows the code.
* A raw file that is removed, drops out of a generation and is uploaded again
  gets a second source ID while its old receipt is kept; `normalizeCloudReceipts`
  then refuses every further merge of the project. It takes five runs and four
  edits. The receipt properties exempt such files (`back`).
* The two validators of `INDEX.json` differ (`Loose`), although a comment calls
  the BFF's decoder the one that both use. What only the worker accepts is
  published, and the BFF's rebuild refuses it:
  article names of 1025 to 4096 bytes; an article ID, article name, source kind,
  synthesis title or concept name that is blank; an empty or blank pack text, no
  language, no capabilities; a null count; a confidence too large for a float64;
  two dots inside a name in any path; a source ID or a group's source path with
  outer white space; a synthesis path that is blank, or absolute once trimmed (the
  BFF trims it); a NUL in a group's or a synthesis path; two concepts of a group
  that differ in outer white space only (the worker compares untrimmed names, the
  BFF trimmed ones); more groups than the limit. What only the BFF accepts: an
  article's `entity_id` with outer white space (trimmed), a control character or
  NUL in an article path, a "." element in a source ID, a group's or a synthesis
  path, and more source concepts in all than the limit, which it applies to each
  group.
* Deletions overlap without a lock, and a marker is deleted without a condition
  (`endpoints.go:3188`). Two deletions of user `u` both list the marker `u_a_k`;
  one removes it, the owner `u_a` creates a project with the key `k`, whose marker
  has the same ID, and the other deletion removes that. `OnlyTargetsDeleted` allows
  exactly this.
* The worker's log trusts what the child printed. A child that prints a failure
  record keeps the worker from adding its own (`cloud_publish.go:1291`, `1305`), and
  several such lines all stay; a truncation marker at the end of its output is
  removed and taken for a sign that something was cut (`cloud_publish.go:1334`).
* A raw file with a receipt that Synto leaves without a page when it starts from
  an empty wiki (a clean rebuild) still gets a success receipt for its present
  text: `mergeCloudSuccess` asks for a known ID and an unchanged input, not for a
  page made from it. Whether Synto ever does so is not decided by this
  repository.
* `sanitizePipelineLog`, `cappedRedactingWriter` and `ensureWikiTOML` have no
  callers outside tests; `BuildIDMap` drops `IDRedirects`, and the `Redirects`
  field is written and never read; the query pipeline's legacy executor cannot
  be selected.
* `rawUploadProjectReady` (`raw_upload.go:169`) asks for a document `owner_value`
  with the status ready, which the marker of an `Idempotency-Key` has too. An
  upload to a project named like the key is accepted, and nothing removes its
  objects with the user. `BeginWrite` takes project IDs only.
* `safeDiagnosticEmit` moves the sink's cut back to where the key begins in the
  tail, also when that beginning lies inside an earlier occurrence. For a key
  that overlaps itself (`s k s` in `s k s k s`) the stored log then redacts the
  second occurrence where the console redacts the first: no whole key is left,
  but the log is not the redaction of the whole text, and TLC refutes
  `StoredLogHonest` for such a key (`LiveStreamFaithful` holds for it).
* A new announcement creates the settings document and thereby closes a
  registration that only the environment had opened.

## Only model-checked

* `Recovery`: liveness under fairness is out of the prover's reach.
* `LiveStreamFaithful`, `StoredLogHonest` of `WorkerLog`: what redaction and
  bounding compute is defined by recursion over the text, and statements about
  it for every text need induction over data. `StoredLogHonest` moreover holds
  only for keys that do not overlap themselves.

## Not modelled

* The local development file store (`internal/localfs`): one user, plain file
  I/O, no concurrent writers.
* Wiring, configuration and one-shot tools (`cmd/bff`, `internal/config`,
  `cmd/sync`, `cmd/backfill`, `cmd/versioncheck`): no protocol state. Of
  `cmd/bff`, only what decides the cache and limiter lifetimes is used.
* The offline query experiments, generated API documentation, deployment
  workflows and scripts.
* Within modelled components: byte budgets of materialization, the parsing of
  Cloud Run's JSON, text normalisation and scoring weights of queries, rewriting
  of links in pages, password hashing and token signatures. `PROJECT.json` says
  for each component what is left out.
