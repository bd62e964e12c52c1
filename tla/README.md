# gmeow in TLA+

gmeow stores mail and contacts as content-addressed objects, derives analysis
results and search projections from them, and serves both through several
interfaces. This directory models the parts of it whose correctness depends on
the order of steps of several actors, checks the models with TLC and proves with
TLAPS what the storage tier with its maintenance passes, the ingest of mail, the
JMAP state, the job queues and two services promise. `PROJECT.json` maps every
definition to the lines it was translated from.

## The system

The services own their state and talk over gRPC and RabbitMQ
(`src/docs/ARCHITECTURE.md`):

| Service | Owns | Package |
|---|---|---|
| FILESTORE | objects, annotations, source index, cursors | `internal/filestore`, `internal/rpc/filestore_server.go` |
| SCHEDULER | which work is due, the queues | `internal/scheduler` |
| ANALYSIS | running analyzers over objects | `internal/analysis` |
| QUERY | the PostgreSQL projection | `internal/query/postgres` |
| SOURCE | pulling mail, archives and contacts in | `internal/source`, `internal/contactio` |
| EMBEDDING | contact identity resolution | `internal/embedding` |
| INTERFACE | JMAP, MCP, IMAP, REST, operations | `internal/appsvc`, `internal/interface` |

A message travels: SOURCE claims it and writes it to FILESTORE; FILESTORE
commits chunks, recipe and manifest and notifies SCHEDULER; SCHEDULER publishes
a projection refresh and analysis jobs; ANALYSIS writes annotations back, which
are notified again; QUERY shows what was projected. JMAP clients change flags
and mailboxes, which FILESTORE keeps and QUERY serves. In the background Gc and
Repack reclaim space and the self-heal sweep looks for work that went missing.

## Modules

| Module | Models | Source |
|---|---|---|
| `ObjectStore` | what the store promises: listed objects are readable | abstract |
| `ChunkStore` | chunks, packs, index, recipes, the three write paths, crash | `filestore/chunkstore.go`, `commit_batch.go`, `store.go`, `object_annotations.go` |
| `ChunkMaintenance` | Gc and Repack beside the writers of `ChunkStore` | `filestore/gc.go`, `repack.go` |
| `PackCache` | readers of chunks, cached pack handles, Repack under them | `filestore/packcache.go`, `chunkstore.go`, `repack.go` |
| `ObjectRecords` | the rows about objects: manifests, annotations, source, parent and change indexes, deletes | `filestore/store.go`, `gc.go`, `source_ingest.go`, `projection.go`, `object_annotations.go`, `compound_parent_refresh.go` |
| `ObjectChanges` | write, notice, batcher, projection queue, projection | `rpc/filestore_server.go`, `scheduler/scheduler.go`, `rabbitmq/broker.go` |
| `SelfHeal` | backpressure, idle detection, the sweep | `scheduler/scheduler.go` |
| `AnalysisJobs` | job queues, worker, circuit breaker, retries, `reconcile-pending` | `analysis/worker.go`, `circuitbreaker.go`, `rabbitmq/analysis_source.go`, `broker.go` |
| `SourceBackfill` | ingest claims, backfill and inbox refresh, cursors | `source/interfaces.go`, `gmail.go`, `filestore/source_ingest.go`, `cli/source.go` |
| `MailVersions` | the version set of one Message-ID: lock, lookup, promotion, manifest merge | `source/archive_import.go`, `archive_membership.go`, `gmail.go`, `filestore/store.go` |
| `ArchiveQueue` | queued archive import: walk, high-water mark, workers, failed and retry queues | `source/archive_import_queue.go`, `cli/source.go`, `rabbitmq/source_import.go` |
| `BackendPool` | the resident processes of one analyzer: Run, reaper, Close | `analysis/backend.go` |
| `Operations` | operations that identical requests share | `appsvc/operations.go`, `query/postgres/operations.go` |
| `ContactIdentity` | contact import against the identity service: ledger, memos, index, saved state, repair | `embedding/resolve.go`, `iddiff.go`, `index.go`, `state.go`, `repair.go`, `contactio/resolve_import.go`, `cli/query.go` |
| `JmapState` | Email/set and Mailbox/set over FILESTORE and QUERY, Rebuild | `appsvc/services.go`, `query/postgres/jmap.go`, `source_cursor.go`, `index.go` |
| `MessageBags` | the messages of a broker with their copies; used by the two queue modules | external |
| `MC*` | constants, bounds and symmetry for TLC | |
| `ChunkStoreProofs` | proofs about `ChunkStore` | |
| `MaintenanceProofs` | proofs about `ChunkMaintenance` | |
| `PackCacheProofs` | proofs about `PackCache` | |
| `SourceBackfillProofs` | proofs about `SourceBackfill` | |
| `MailVersionsProofs` | proofs about `MailVersions` | |
| `JmapProofs` | proofs about `JmapState` | |
| `AnalysisJobsProofs` | proofs about `AnalysisJobs` | |
| `ServiceProofs` | proofs about `Operations`, `BackendPool` and `ArchiveQueue` | |

Components that share no state are checked in one run where their graphs are
small: `MCServices` (`ObjectChanges`, `SelfHeal`, `Operations`, `BackendPool`),
`MCStores` (`ChunkStore`, `JmapState`), `MCImports` (`MailVersions`,
`ContactIdentity`), `MCRepack` (`ChunkMaintenance`, `PackCache`) and `MCGc`
(`ChunkMaintenance`, `ObjectRecords`) let one of theirs, the `subject`, take all
steps of a behaviour.

### ChunkStore

`index`, `recipe`, `manifest` and `ann` are the Pebble rows `c/`, `r/`, `m/`,
`a/`; `packs` holds the bytes of the pack files, one unit per chunk, `synced`
how much of each is known to be on disk; `active` is the cached append position
(`activePackKnown`, `activePackID`, `activePackSize`). A writer runs Put,
PutCompound or WriteAnnotation with an externalised payload, with one step for
each lookup, each append under `packMu`, the fsync of the touched packs and the
commit. A batched writer sees its own batch and the committed index, as the code
does. `crash` keeps any prefix of a pack not shorter than its synced part, may
leave torn bytes behind it, and forgets every writer and the cached position.
A failed append leaves torn bytes and drops the cached position. Compression,
dictionaries and the merge of manifest fields are left out. A delete drops the
rows there are; like the code it does not ask for a manifest.

### ChunkMaintenance

Extends `ChunkStore`. The phases of Gc (mark on a snapshot, re-scan of young
recipes, sweep of chunk rows, re-check and drop of orphan recipes) and of Repack
(choose the active pack, scan, list, copy live chunks, redirect rows, remove)
are separate steps, because the code holds `maintenanceMu`, which no writer
takes. The clock `now` is the one of the `UpdatedAt` stamps; `MaxPut` bounds how
long a write is in flight and `Grace` is `gcGracePeriod`. The history variables
`hit`, `borrowed`, `rewritten` and `unscanned` record the cases in which a
guarantee does not hold, so that the invariants say exactly when it does.

### PackCache

`handles` are the open pack files with their reference counts, `lru` the entries
of the cache. A reader looks its chunk up, takes the cached handle or opens the
file outside the lock and inserts it (another may have done so meanwhile), reads
and releases; when the file is gone it looks the chunk up once more. Repack
moves the chunks of a pack, drops its cache entry and unlinks the file, one step
each.

### ObjectRecords

`rows` is the key space of Pebble, from keys to values. A request reads and is
then left with a list of calls: a `commitBatch` writes its rows at once, a
`syncSink` one by one, an index update reads again when its turn comes. Put,
AttachProvenance, WriteOverlays, the refresh of parents and DeleteImport hold
the manifest lock of the object over read and write; PutCompound,
WriteAnnotation and DeleteObject do not. A request may be cut off between two
calls, and a crash cuts off all of them. `given`, `owner` and `crossed` are
history: what was written, who has a reference, and what an unguarded overlap
or a cut may have spoilt.

### ObjectChanges

A write raises `version[d]` and leaves a notice; a full channel blocks its
handler. The batcher turns notices into calls, the scheduler skips projection
refreshes of pending digests, the worker loads (`ProjectionObject`) and projects
each object, clears and acks. Failures: a call that does not arrive, a publish
without a confirm (its digests are cleared, the message may be there or not), a
batch that fails at any point (requeued whole; its digests stay pending and the
call in progress goes on), a batch that cannot be decoded (discarded; its digests
stay pending), an ack that fails after some deliveries, a scheduler crash
(redelivery, pending set lost, call failed), a FILESTORE crash (notices lost).
`dropped` and `overtaken` record the objects whose latest notice was lost or
skipped with nothing on its way that reads them again, `discarded` the pending
digests whose delivery is gone.

### SelfHeal

One tick samples the depth, updates the backpressure flag with its two
watermarks, looks at the write flag and sweeps one chunk from the cursor when
the idle threshold has passed. A failed publish cuts a chunk short.

### AnalysisJobs

One analyzer. `queues` is the bag of messages in the work, failed, retry and
dead-letter queues; `Handle` is split at its calls: breaker, run, write
annotation, ack or publish to the failed queue. A worker crash requeues its
deliveries and resets the breaker and the cache. The backend may go down and
comes up again; objects may be deleted and stored again. An operator may run
`reconcile-pending`, which moves the work queue to a scratch queue job by job,
drops duplicates and jobs whose result is there, and moves the rest back; it may
stop after every call.

### BackendPool

`slots` and `ready` are the two channels, `all` the registered backends, `alive`
the processes. A client in Run waits for a ready backend or a slot, spawns,
registers, waits for readiness, uses the backend and gives it back, or forgets
it and gives the slot back. The reaper takes every ready backend out and returns
the young ones; Close ends what is registered. A process may crash or never get
ready.

### Operations

`records` are the rows of one request hash, of which a unique index allows one
that is running. A caller looks for a running record, inserts one, or on a
conflict looks again; the creator starts an executor; every caller polls, and a
waiter wakes it early. A statement may fail with or without effect and the
process may crash, which leaves its running record `orphaned`.

### SourceBackfill

A runner is a goroutine looping over `RunBackfill`; the messages of a page are
ingested concurrently, each through lookup, claim, second lookup, put and
release. Every FILESTORE call may fail, a claim may run out or be lost, the
process may crash. The runners share one cursor record that each reads, changes
and writes whole. `failed`, `leaked` and `overdue` record the messages for which
the code gives less than the full promise.

### JmapState

FILESTORE has an `overlay` per email and the mailbox catalog in a `cursor`;
QUERY has `members` and `rows`. Email/set and Mailbox/set read QUERY, write
FILESTORE, then QUERY; only Mailbox/set takes a lock. Projection refreshes and
Rebuild read FILESTORE and write QUERY later, and every call is a step. Calls
may fail, QUERY may be wiped. The notice of an overlay write is published,
skipped as pending, or lost with a failed call (`noticeLost`); a refresh that
fails is delivered again (`refreshFails`). The history variables record what
clients were told and the overlaps that the properties except.

### MailVersions

All mail with one Message-ID shares a compound object. `canon` is its manifest:
the mail facet, the `version_set` facet, the parts by slot and the provenance;
`record` and `stored` are the objects stored for one mail alone. A worker takes
the lock of its process, looks the identity up, and attaches provenance, writes
a membership record, or adds a version; the last reads the canonical body twice
(`canonicalBodyOrder`, `shouldPromoteCanonical`), stores parts, patches and
record, and merges its manifest (`MergeManifest` is `mergeManifest` with its
rules for counts, scales and the canonical id). PutCompound and AttachProvenance
are a read and a commit with a step between them, since they do not exclude each
other. Workers may be in one or two processes (`procOf`), Gmail may hydrate the
same message, one call may fail or one process crash. `overlapped`, `gmailWrote`,
`orderLost`, `cut`, `recorded` and `crowned` are history.

### ContactIdentity

`svc` is the Service of the process that has the resolution state: its ledger of
entities with their claims and valid times, the memo of cards it has seen, the
index of identifiers, the vectors and the residual basis with the memo of scored
claims; `saved` is its state file and `deltas` the records in FILESTORE. An
importer resolves the cards of a file one by one, each under the service's lock,
and then writes the new claims of each. An import may fail or be interrupted
anywhere; the service may stop with or without saving, be reset, and be repaired,
which merges entities along the positive edges that no cannot-link forbids.
Scores are any: a card joins any candidate or a new entity. `dropped` is history:
the new claims that an import was cut off before writing.

### ArchiveQueue

`enq` is the enqueue run with the last path and offset it published; `msgs` is
the bag of messages in the work, failed, retry and dead-letter queues, with those
delivered but not acknowledged. A worker that failed a job publishes it to the
failed queue, acknowledges, and then serves the failed queue through the stream
its process keeps open: it waits for a first message, which another worker may
take, and goes on until none is ready. The high-water mark is compared with the
number of messages, copies included. A publish may fail before or after the
broker has the message, a process may stop at every step.

## Runs

| Run | Checks |
|---|---|
| `stores` | committed rows point at synced bytes (`IndexDurable`), recipes resolve, and the store implements `ObjectStore`; JMAP mailboxes form a forest, mailboxes and flags a client was told of are kept, QUERY converges to FILESTORE, no email loses its last visible mailbox |
| `gc` | no pass takes a chunk that a stored object's own write put there, nor the recipe of a reachable payload or file; locked writers lose no mutation of a record, the indexes agree with the manifests, a walk of the changes misses none |
| `repack` | rows and the append position survive Repack while the sealed packs hold only rows its scan saw; no pack handle is closed under a reader or leaked, and one pass never fails a read |
| `gc_dedup` (violation) | a Put that deduplicated against an unreferenced chunk loses it to Gc |
| `services` | every write is projected unless its notice was lost or overtaken; self-heal comes back to every object; identical requests share one execution and every caller is answered; backend slots are conserved, Close ends the processes it can see, every Run returns |
| `analysis_jobs` | no job is lost, retries are used only by the job's own failures, every job whose object stays ends as an annotation or a dead letter |
| `breaker_bogus_probe` (violation) | a probe whose object is gone leaves the circuit half-open for ever |
| `source_backfill` | cursors cover only accounted mail, claims serialise writers and always have a holder, a message is written once, the backfill ends |
| `imports` | the lock serialises the manifest writes of one process; facets, canonical content, version records and provenance agree and only grow; a finished import has landed; the identity service's memo, index, counts and scored claims agree with its ledger, its merges respect cannot-links and forget no time, and a contact import that ends well has every claim accounted for |
| `contact_reimport` (violation) | an import of contacts that was cut before its records were written is not completed by repeating it |
| `archive_queue` | no published mail is lost, the walk publishes what it does not skip, every mail is settled or dead-lettered |
| `jmap_rebuild` (violation) | after a wipe the rebuild fails on an email in a custom mailbox, because the catalog is projected last |

The four violation runs state a sentence of the repository's comments or
documents, quoted in the findings of `PROJECT.json`, and show a behaviour of the
code that contradicts it.

### Bounds

- `stores`, chunks: two writers, two chunks shared by a file and by a compound
  object or a payload, two packs of two chunks. This gives deduplication between
  writers, a rollover, a torn write and a crash at each step. The compound object
  and the payload do not occur in one behaviour, and the packs hold at most three
  chunks; the clock, which only Gc reads, is stopped.
- `gc`: one writer, a file and a payload with a chunk each, clock 0 to 3 with grace
  2 and writes of at most 1 tick, so that a write can begin before, during and
  after each phase, and an old row can be past its grace period. `gc_dedup` has two
  writers and a shared chunk; the theorems hold for any content.
- `gc`, records: a part, two compounds, three references of two sources, two of
  them versions of one mail, two analyzers; the store is empty, has one message, or
  one that shares a reference with its part. Two requests give every pair of
  overlapping operations; one cut.
- `repack`: one writer, a file of two chunks and a payload with one of them, two
  packs: one sealed and one active. Readers: two, of one chunk, a cache of one
  handle, three packs, so that a handle is evicted under a reader and a chunk
  moves twice.
- `services`, changes: two digests, three writes, one failure, channel of 1, so that
  the channel fills up, a refresh meets a pending one at every stage, and a batch
  with a delivery of each digest fails half way. The component alone was also
  checked with two failures, which makes the combined run too long.
  Self-heal: four objects and chunks of two, so that the walk wraps. Operations:
  two callers, two records, one fault. Pool: three clients for two slots, so that
  one waits, three process names, one failure.
- `analysis_jobs`: two workers and objects, threshold 2, one retry; of failures,
  outage, crash, delete and a run of `reconcile-pending` any three. Two is the
  least with a late result beside a probe. Runs with liveness use no symmetry.
- `stores`, JMAP: one email, two Email/sets, two custom mailboxes of two names, two
  edits per Mailbox/set, four requests, failures, wipes or rebuilds in all. Two
  mailboxes are the least with a cycle or a clash of names. `jmap_rebuild` needs
  one custom mailbox.
- `source_backfill`: two messages in different orders for the two runners, one
  crash, one failed call, one expiry.
- `imports`, mail: a short mail, a longer one, one with other headers, a Gmail
  message of middle length; four deliveries, so that one mail comes twice, and one
  fault. Behaviours are not followed past an unseen overwrite, about which no
  property says anything. Workers and processes are symmetric.
- `imports`, contacts: two files with three cards that share an email at different
  times, two importers, two imports, one cut, two ends or resets of the service,
  three entities; blocking finds one candidate and two samples make a basis, so
  that an entity can be missed, merged later and scored in two bases.
- `archive_queue`: an mbox with two mails, a file whose path sorts before it and
  a mail the parser rejects in a second root; high-water mark 2, one retry, two
  failed imports, one stop, one process with two workers, the least with one
  worker taking what the other waits for.

Deadlock checking is off where the bounded events run out; `source_backfill`
checks it, because the inbox refresh never stops.

### Fairness

Weak fairness of loops of the program that block on nothing but each other: a
write handler with its notice, the notice batcher, the call it makes, the
projection worker, the analysis workers, the failure router,
a `reconcile-pending` run, the import workers and the walk of an enqueue run,
the tick of the self-heal loop, the runners and their ingests, a request for an
operation and its executor, a Run of the backend pool, its reaper and Close. Of
the environment it is assumed that a retry delay and a breaker window elapse, that an
outage ends, that the queue is drained (a backfill under backpressure waits for
that), and that a backend answers or times out.
Strong fairness only of `acquire` of the backend pool: Go serves the goroutines
blocked on a channel in the order they came. Writes, failures, crashes, expiries
and deletes need never happen.

## Proofs

For every set of chunks, digests and writers and all bounds, from
`ChunkStoreAssumption` and `NoneAssumption` (the digests' contents are chunks,
the kinds of digest are disjoint, the pack target is positive):

- `StoreInvariant`: `TypeOK /\ StoreInv` is an invariant of `Spec`;
- `TypeCorrect`, `CrashSafe` (`IndexDurable`), `RecipesAlwaysResolve`,
  `RowsAlwaysBacked`, `ActivePackAlwaysCached`: its conjuncts;
- `Refinement`: `ChunkStore` implements `ObjectStore`;
- `PacksAreImmutable`: the action property `PacksImmutable`.

`IndexDurable` is not inductive. A commit copies the batch of a writer into the
index, so the batch has to be durable by then; it is durable because the fsync
covers every pack the batch touches; and a batch entry points at the right bytes
because the cached position of the active pack is its real end. `StoreInv` adds
these: `WriterOK` says of each writer that its batch locates bytes that are in
the packs, that what it has seen is committed or in its batch, that it commits
only with its whole content seen and, after the fsync, durable;
`ActivePackCached` covers the offsets. That appends and fsyncs only extend what is
there is stated once (`Grows`) and used for all.

`MaintenanceProofs`, from the same assumptions and `MaintenanceAssumption`, for any
content, writers and packs, with the steps of Gc and Repack anywhere among those
of the writers:

- `RepackSafe` (`RepackKeepsRows`). A pack is removed in one step; that no row
  points into it by then takes the pass so far. `RepackInv`: the packs still to be
  visited are sealed, since appends go to the active pack or a later one and no
  writer holds a buffered entry of theirs, so the rows of the scan are all the
  rows there are (`Sealed`, `Scanned`); each is moved, its copy on disk before the
  row points to it (`Moving`, `Copied`).
- `GraceProtectsWrites` (`OwnChunksSurvive`) and `RecipesAlwaysKept`
  (`GcKeepsRecipes`), both under the hypothesis `2 * MaxPut <= Grace`: a write
  takes at most half of the grace period. What Gc condemned when it marked is swept
  later, so `MaintInv` says what stays true of it: no writer in flight stored a
  dead chunk, and nothing refers or is about to refer to an orphan (`Doomed`,
  `Condemned`). The grace period matters at the mark: what a writer in flight
  relies on was stamped since the oldest write in flight at that time began, and
  so at most twice the longest write ago (`Flight`).

`PackCacheProofs` proves `HandlesCounted` and `ReadsSurviveRepack` of `PackCache`
for any chunks, readers, packs, handles and any size of the cache, from
`PackCacheAssumption`. `CacheOK` relates the handles, the list of the least
recently used and the readers: a cached handle is open and not evicted, one that
only readers have is marked evicted, so that the last of them closes it, one
between its opening and its insertion is its opener's alone, and every other is
closed. One lemma for each critical section of the cache's lock says what it does
to handles that agree with the list. For the reads, `ReadsInv` says that the index
names existing packs and that a removed pack never comes back, so that a second
lookup finds another pack than the first.

`MailVersionsProofs` proves four properties of `MailVersions` for any mail, number
of workers and processes, and any bounds, from `MailAssumption` (what the constants
are, and that `None` is none of them). `ImportSerialised` is `LockSerialises`, which
speaks of a flag that a commit sets when it replaces a manifest its writer has not
read. The inductive invariant `LockInv`
adds that a worker past the lock holds it, and that what such a worker has read
is the manifest as it is, in one process and without a write by Gmail; a write by
one worker finds every other worker before the lock (`OneHolder`).

The other three speak of behaviours in which no writer replaced a manifest it had
not read:

- `VersionsAlwaysCoherent` (`CanonicalCoherent`). `VersionsInv`: the manifest is
  one that the importer and Gmail can build (`ManifestOK`: its records fill the
  slots up to its count, and it shows the body of one mail that is known), and
  every worker may rely on what it found (`JobOK`), since nothing FILESTORE has is
  taken back (`Kept`). What a merge makes of a manifest is stated once for each
  kind of write (`isFurther`, `isHydrated`, `isAttached`).
- `ImportsAlwaysLand` (`ImportsLand`) and `RecordsAlwaysTruthful`
  (`RecordsTruthful`). `OneProcessInv`: in one process only the holder of the lock
  is on its way, so a record that waits for its commit belongs to that worker, and
  a mail that a manifest lists has what its import promised or its worker is about
  to write it (`MailsOK`, `HolderOK`). The count of a version set is compared with
  the cardinality of its records through a bijection (`RecordCount`).

`JmapProofs` proves `MailboxesAlwaysKept` (`AckedMailboxesKept`),
`EmailsAlwaysConverge` (`EmailsConverge`), `FlagsAlwaysKept` (`AckedFlagsKept`) and
`MailAlwaysVisible` (`MailStaysVisible`) of `JmapState`, for any emails, mailboxes
and patches, any edits per Mailbox/set and any number of Email/sets at once, from
`JmapStateAssumption` and `InitialAssumption` (the mailboxes there are at first
were made by Mailbox/set). The four share one invariant,
`JmapInv`, because what one store will hold is decided by what the others hold
now: both catalogs and their copies are well formed (`CatalogsOK`); every copy of
an overlay that a call, a refresh or the rebuild carries is the overlay or is
marked old (`CopiesOK`); rows that do not show it have a refresh coming or an
exception (`ConvergingOK`): a notice that is lost excuses its email only when no
other notice or call will bring the overlay to QUERY, and a refresh that fails
excuses nothing; what is owed is in whatever may be written next (`FlagsOK`), and
so is a mailbox that both catalogs have (`ShownOK`). The edits of a Mailbox/set are
a recursive function of their number; that every draft is well formed is shown by
the least number of edits for which it would not be.

`SourceBackfillProofs` proves `ClaimsSerialise`, `CursorCovers` and `IngestedOnce`
of `SourceBackfill` for any mailbox, any number of runners and any number of
failures, crashes and expiries, from `SourceBackfillAssumption` (the pages list
messages; the word for no owner is no runner). None is inductive. `IngestInv`
has three parts besides the types. `Claims`: a holder's claim is the row in
FILESTORE until it runs out, and a row has a holder unless it was left behind.
`Work`: what each step of an ingest follows from; a release comes after a write
or a hit, a deferred one after a write or an error, a write under a claim in
force finds nothing stored. `Passed`: a runner rewrites the other entries of the
cursor record as it read them, so the messages behind every position, in the
record, in the records read and in the runners, are accounted for: stored,
failed, left behind, or held by an ingest. An ingest that ends accounts for its
message (`IngestAccounts`): a busy message has a live claim, a live claim has an
owner, and an owner holds it or has left it behind. The module has the steps of
an ingest, then those of runners, crashes and expiries.

`ServiceProofs`, from the assumptions of `ArchiveQueue`, for any archive,
workers, processes and limits:

- `JobsAreNeverLost` (`JobsNeverLost`). A message may be there and yet about to be
  acknowledged, so the invariant `QueueInv` says more: a published job is settled
  or has a message that is not `Spent`, a delivery being spent when its worker
  has settled the job or published it again and only the acknowledgement is left.
  `Deliveries` says that every worker holds the delivery its place calls for, and
  no two.
- `WalkAlwaysPublishes` (`WalkPublishes`). `WalkInv`: what a run without a fatal
  failure has passed is published or sorts before something passed earlier, and
  the state file names a mail that was passed. `WalkAssumption` says how mails lie
  in the files of an archive: of one file, in the order of their offsets.

It also proves, for any callers, clients, processes and bounds:

- `ExecutionAlwaysShared` (`SharedExecution` of `Operations`). `OperationsInv`: the
  unique index leaves one running record, a creator's record exists, and an
  executor that has nothing more to do has ended or orphaned its record.
- `SlotsAlwaysConserved` (`SlotsConserved` of `BackendPool`). `PoolInv` adds which
  places of a client go with a backend, that a backend to be forgotten has ended,
  and what closeAll has still to close while it runs.

`AnalysisJobsProofs`, from `AnalysisJobsAssumption`, for any objects, workers and
limits and any number of failures, outages, crashes and deletes:

- `RetriesAlwaysEarned` (`RetriesEarned`). `RetriesPaid` counts the routing that is
  still to come: a message on the failed queue has one failure more than attempts.
- `JobsAreNeverLost` (`JobsNeverLost`) under `[]OneRun`: the runs of
  `reconcile-pending` do not overlap. Without that the property is false (see
  below). `JobsKept`: what a run has seen is on its scratch queue until the run
  returns it, so that what it drops as a duplicate has another copy; a worker that
  is done has its object in the cache, and the cache is right while nothing is
  deleted.

The broker is a function from messages to the number of copies (`MessageBags`);
the lemmas need only its domain.

The proofs use the specifications of the components alone (`MaintSpec`,
`PackCacheSpec`, `JmapSpec`, `OperationsSpec`, `BackendPoolSpec`); in the runs the
same steps are those of the subject. No proof uses fairness. The inductive
invariants were also checked with TLC, on small instances like those of the runs.

Only model-checked: the records of FILESTORE, the projection of changes and the
self-heal sweep, the identity service, and everything about liveness, which is
out of reach of the prover.
`TypeCorrect`, `RowsAlwaysBacked`, `ActivePackAlwaysCached` and
`PacksAreImmutable` are proved only: no run repeats them.

## Where the code promises less

Besides the four findings, the models show cases in which a guarantee does not
hold. They are exceptions written into the properties:

- a page whose messages failed still advances the backfill cursor, so a resumed
  backfill does not retry them (`failed` in `CursorCovers`);
- a message that is busy because of a claim orphaned by a crash or by a lost
  answer is passed in the same way (`leaked`);
- a claim that expires under its owner allows a second write (`overdue`);
- a payload recipe that is written again while its old row waits to be swept is
  dropped (`rewritten`);
- notices are lost with a crash of FILESTORE, a call or publish that fails (the
  batcher logs the error and forgets the batch), or a batch that is discarded
  (`dropped`), until the next write or a rebuild;
- a discarded batch leaves its digests pending, so that later refreshes of them
  are skipped until the scheduler restarts; only a full change still brings the
  object to QUERY (`discarded`, `overtaken`);
- a write that lands after the projection worker read the object and is notified
  before the worker clears its digest is skipped as pending and not projected
  (`overtaken`);
- a Put in flight across the scan of Repack may commit a row into a pack that
  Repack then removes (`unscanned`);
- `--enqueue-only` skips a mail whose path sorts before the last published one:
  a file `a.eml` beside a directory `a`, or a whole root given after one that
  sorts behind it; the command reports success (`WalkPublishes`);
- two import processes, or an import beside a Gmail hydration, can replace a
  manifest they have not read (`overlapped`), and a hydration over an archive
  version set replaces the canonical content but not the version set
  (`gmailWrote`);
- when the first of the two reads of the canonical body fails and the second does
  not, a promoted body is stored beside the canonical slot (`orderLost`);
- an import of a further version that was cut after its commit is a duplicate when
  delivered again, if by then the canonical body is equal to its own (it was
  promoted itself, or another mail or a hydration brought the same body), and its
  variant compound is never stored (`cut`, `crowned`);
- two import-worker processes both consume the failed queue: a failed job handed
  to a process whose workers do not fail stays there until it stops;
- the worker's annotation cache is sound only until a delete and a re-ingest;
- two overlapping runs of `reconcile-pending` can lose a job: the second returns
  what the first left on the scratch queue, and the first drops it as a duplicate
  of what it moved itself; and a run that does not wait for its first delivery
  can end with jobs left on the scratch queue until the next run (`leftBehind`);
- PutCompound, WriteAnnotation and DeleteObject take no manifest lock, so one of
  them beside another writer of the row can undo its change; two refreshes of a
  parent can leave an older summary of a part (`crossed` in `MutationsKept`);
- an AttachProvenance cut off between its writes leaves the reference out of the
  source index, and a repetition finds nothing new and does not mend it; a
  PutCompound cut off leaves parts that do not know their parent;
- an annotation stamped before the last change of its object, or a cut before the
  change index is written, hides the change from `WalkChangedProjection`;
- a second repack between the second lookup of a reader and its open fails the
  read (`gone`);
- Close of the backend pool does not end a backend that a Run in progress
  registers after it looked (`late`);
- an operation whose executor is gone stays running, and its callers wait until
  their own context ends (`orphaned`);
- a claim that is observed again at another valid time does not widen the span the
  ledger has, since only the claims that are new reach `add`; the valid time is
  part of the memo's key but not of the FILESTORE fingerprint;
- a repair compares raw vectors, because the residual basis is not restored with
  the state, and does not save which cards went to the entities it merged;
- the new claims of a cut contact import stay unwritten (`dropped`);
- overlapping Email/sets of one email, a lost notice of an Email/set whose own
  write to QUERY failed, and a refresh that reads an email before a write and
  swallows its notice, leave QUERY behind the overlay (`excused`) and
  may drop a flag; a mailbox set on an email that only one of the catalogs has is
  not kept (`owed`); a Mailbox/set after a wipe of QUERY drops the mailboxes that
  QUERY does not have (`behind`); a move beside the destruction of its mailbox
  leaves an email in no visible mailbox (`stranded`).

With a self-heal chunk size of 1 the sweep cursor does not move, since the next
chunk starts at the last object of the previous one; the run uses 2.

## Not modelled

The PostgreSQL statements, HTTP, gRPC and AMQP encodings, message, archive and
contact parsers, the RDF and ontology conversions, the embedding arithmetic and
the generated code are data conversion or I/O: what they do is a function of
their input, too large to enumerate and without an order of steps to get wrong.
They are most of the repository (generated protobuf code alone is more than a
fifth of its lines), so the modules cover a tenth of all lines. The components
of `PROJECT.json` give the reason for each part left out.

Failures are transient and bounded. A batch with an object that can never be
projected is redelivered for ever, and the deliveries read with it too; no
liveness property speaks of that. A body that cannot be decoded is none that the
scheduler publishes. The wait of a backfill under backpressure delays its next
page and changes nothing, so `SourceBackfill` has no state for it.

Out of the modelled parts: the Gmail history mode, claims of message parts,
`--jobs` of the import worker, `PurgeAll`, dictionaries, and deletes of stored
mail beside SOURCE's positive lookup cache (which has no eviction by delete;
the hazard list names it).

## Plan

1. SOURCE: history mode of Gmail, deletes against the lookup cache.
2. FILESTORE: chunk cache and dictionaries beside Repack; `Verify`.
3. QUERY: contact alias claims; Rebuild beside refreshes of several objects.
4. EMBEDDING: name vectors and their persistence.
5. Proofs: the records of FILESTORE, and the ledger of the identity service.
6. Composition: `ObjectChanges` with `SelfHeal`, so that the sweep is shown to
   repair what a lost notice left behind.
