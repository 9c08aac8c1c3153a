# TLA+ models of AtlasRAG

AtlasRAG ingests documents into a PostgreSQL database, splits them into chunks,
embeds the chunks, and answers only from what a principal may read.  This
directory holds TLA+ modules that model its core logic, TLC configurations that
check them on small instances, and proofs that TLAPS checks for every instance.

Run from this directory:

    tlc -workers 2 -config MCIngestionLifecycle.cfg MCIngestionLifecycle
    tlapm IngestionLifecycle_proofs.tla   # likewise for the other *_proofs modules

`PROJECT.json` lists the components, the runs with their properties, a mutation
of the code for each property that makes it fail, the source lines of every
definition, the findings, the hazards, and the theorems.

Source paths below are relative to the repository; `atlasrag/` stands for
`src/atlasrag/`.

## 1. The system

### Components, their state and their operations

| Component | State | Operations | Status |
|---|---|---|---|
| Ingestion lifecycle (`modules/ingestion/services/ingestion_lifecycle.py`, `repositories/ingestion.py`) | `ingestion_items`: status, attempt_count, claimed_at, lease_expires_at, started_at, completed_at; `chunks` | add_item, claim, heartbeat, schedule_retry, mark_failed, replace_chunks_and_mark_completed, reap_expired_items | modelled |
| Job handler (`modules/ingestion/workers/`, `platform/jobs/heartbeat.py`) | two asyncio tasks per claimed item: processor and heartbeat | handle | modelled |
| Outbox and publisher (`platform/jobs/repositories/outbox.py`, `publisher.py`) | `job_outbox`: published_at, failed_at, attempt_count, lease_expires_at | enqueue, discard, claim batch, dispatch, mark, release | modelled |
| Celery tasks and broker (`platform/jobs/tasks/`, `celery_app.py`) | queues of messages; unacknowledged deliveries | late acknowledgement, redelivery | partly |
| Group membership (`modules/identity/services/group_membership.py`) | `group_memberships`; `principals` | add, remove; activate, deactivate, retire | modelled |
| Principals and superadmin policy (`principal_lifecycle.py`, `superadmin_policy.py`) | `principals` | activate, deactivate, retire; keep one superadmin | modelled |
| Roles, permissions, authorization (`role_assignment.py`, `permission_management.py`, `permission_authorization.py`, `scripts/bootstrap_superadmin.py`) | `user_roles`, `principal_permissions` | assign, revoke, grant, require_permission, bootstrap | partly: one role, one permission |
| Identity resolution (`identity_resolver.py`) | `users`, `user_identifier` | resolve, provision on first sight | modelled |
| Embedding runs (`modules/embedding/services/`, `repositories/embedding_run.py`) | `embedding_runs`, `chunk_embeddings` | create, claim, heartbeat, retry, persist, reap, recover | modelled |
| Embedding batches (`modules/embedding/batching/`) | asyncio tasks, semaphores | plan, embed with retries, validate, order | modelled |
| Document versions (`modules/knowledge/services/document_version_management.py`) | `document_versions` with effective periods under an exclusion constraint | create, publish, withdraw, archive | modelled |
| Artifacts and their upload (`document_artifact_upload.py`, `document_artifact_management.py`) | `document_artifacts` and the object store | upload, register, status transitions, load | modelled |
| Documents and ACLs (`document_management.py`, `document_acl_management.py`) | `documents`, `document_acl` | create, delete, grant, revoke | modelled |
| Ingestion pipeline (`modules/ingestion/services/ingestion_pipeline.py`) | none of its own: five transactions of five services | ingest | modelled |
| Chunking (`modules/ingestion/chunking/`) | none | split, section, tables | modelled |
| Extraction (`modules/ingestion/extraction/`) | none | primary and fallback extractor | partly: outcomes only |
| Object storage (`platform/storage/`) | bucket | put, get, delete | partly: environment of uploads |
| Token verification, AI providers, sessions and start-up, HTTP API, development scripts | caches at most | adapters and routes | not modelled, see section 5 |

### How they interact

    API -> authentication -> authorization -> operation   (a transaction each)
    ingestion pipeline -> create_document -> create_version
        -> upload (put; row; commit | delete object) -> create_run -> add_item
    ingestion pipeline -> add_item --(one transaction)--> ingestion_items
                                                            \--> job_outbox
    publish_outbox -> leases rows of job_outbox -> broker message -> marks the row
    broker message -> process_ingestion_item -> claim -> processor and heartbeat
        -> chunks and COMPLETED | FAILED | PENDING and a new row of job_outbox
    process_embedding_run -> claim -> batches -> vectors and COMPLETED | ...

The processes (API, Celery workers, publishers) share nothing but PostgreSQL and
the broker.  PostgreSQL runs at READ COMMITTED: nothing in the repository sets
another isolation level.  A worker owns an item while the row is RUNNING with the
worker's attempt number and a lease in the future.

### What is hard

* **Time.** Leases are written from the clock of a worker and compared with
  `now()` of the database, which is the time at which the transaction began.
* **Late workers.** A worker may sleep past its lease and wake up in any
  statement; only the attempt number in the WHERE clause keeps it out.
* **Two stores.** Rows and messages are not written together: the outbox gives
  at-least-once delivery, and late acknowledgement redelivers.
* **Faults.** Crashes in every step, failed statements, and commits whose answer
  is lost, after which the code believes in a failure that did not happen.
* **Check, then write.** At READ COMMITTED a check sees what is committed; what
  must stay true until the write needs a row lock or a constraint.
* **Database and object store.** No transaction spans both; a `finally` makes up
  for the difference, and believes what the commit seemed to be.
* **Tasks that outlive their job.** `asyncio.gather` raises with the first batch
  that fails and leaves the others running.

### What makes each component correct

* ingestion: attempt numbers fence; chunks on show belong to the completing
  attempt; a live lease is respected; attempts are bounded; an item lives as a
  `LeasedJob`;
* outbox: claims do not mix; nothing is marked published unsent; a run comes to
  the end of its batch and leaves no row out of reach; a row under a live lease
  changes by its holder only;
* both: an item that waits has work on its way, one row at most, and is started
  once its message is in the broker;
* groups: the active graph is acyclic; only active principals join;
* embedding runs: as ingestion, with recovery instead of an outbox; vectors
  are those of the chunks of the completed item; one run in flight;
* embedding batches: every vector belongs to the chunk it was made of; batches end;
* chunks: they say what the document says, in its order, inside a chunk and from
  chunk to chunk;
* document versions: at most one version is effective at a time, ended periods
  join their successors and stay, statuses go forward;
* artifacts: a row never names an object that is gone, and an object without a
  row needs a fault;
* ACLs: they change while the document is active only;
* access: an identity is one user; there is always a superadmin who can manage;
  retired principals stay so; locks are taken in one order.

`PROJECT.json` lists under "hazards" where each of these can go wrong.

## 2. The modules

| Module | Models |
|---|---|
| `LeasedJob` | the abstract specification: what a leased job promises, without workers, clocks, leases or crashes |
| `IngestionLifecycle` | the rows of `ingestion_items` and `chunks`, and the workers that handle them |
| `JobOutbox` | the rows of `job_outbox`, the publishers, and the queue |
| `IngestionSystem` | both of them over one database and one broker |
| `EmbeddingRuns` | the rows of `embedding_runs`, the vectors on show, requests, workers, messages and the recovery task |
| `GroupMembership` | nested groups, concurrent requests, and principals that change status |
| `DocumentVersions` | documents, their versions with effective periods, their ACLs, and concurrent requests |
| `ArtifactUploads` | extends it by artifacts, the object store, uploads, the ingestion pipeline, and the worker that loads an item's artifact |
| `AccessControl` | users, identities, the superadmin role, permissions, and the requests that log in, are authorized and manage them |
| `DocumentChunks` | tokenizer, chunkers, batch planner and the ordering of vectors, as functions |
| `EmbeddingBatches` | extends it by one document's way through a worker: extraction, chunking, concurrent batches |
| `*_proofs` | theorems about the module named; `IngestionSystem_proofs` uses those of its two parts, `ArtifactUploads_proofs` has those of `DocumentVersions` too, `EmbeddingBatches_proofs` those of `DocumentChunks` |
| `MC*` | instances for TLC |

### IngestionLifecycle

`items[i]` is the row; 0 in `lease` and `started` is SQL's NULL, and the clock
starts at 1.  `chunks[i]` abstracts the chunk set to the attempt that wrote it.
`workers[w]` is the Python call stack reduced to the transaction or computation
it is in.  One action stands for one transaction from `now()` on: `Begin` and
`BeginClaim` fix `tx`, any number of steps of others and of the clock may come
between, then the statement and the commit happen at once.  This merges the statement
with its commit; row locks make that exact, since a statement that meets a
locked row waits and then sees what was committed.  `tx` is kept because
`now()` does not move while the statement waits.  A renewal is one step that
ends with its statement; when it began is chosen in that step, from the times
since the one before it came back (`RenewalTimes`, `beat`).  `now()` and the
worker's clock, from which the new lease is computed, are of that time: a renewal
that has waited may find a lease live that has expired, or write an older one.

| Action | Code |
|---|---|
| `AddItem` | `add_item` |
| `BeginClaim`, `Claim`, `ClaimRefused` | `claim`, and the early return of `handle` |
| `RenewLease`, `LoseLease` | `LeasedJobHeartbeat.run`, and what `_run_claimed_item` makes of it |
| `FinishProcessing` | `DefaultIngestionProcessor.process` up to its last call: chunks, a permanent error, or another one |
| `Complete`, `CompleteLost`, `CompleteRaises` | `replace_chunks_and_mark_completed`: committed, no row matched, or an exception |
| `MarkFailed`, `MarkFailedRaises`, `ScheduleRetry`, `RetryRefused`, `OutcomeLost` | the three `except` clauses of `handle` |
| `ReapExpired` | `reap_expired_items` (no task calls it; it is there because the service offers it) |
| `Crash`, `DatabaseError`, `AnswerLost` | a process dies; a statement fails; a commit's answer is lost |

`CompleteRaises` covers two exceptions: the chunk set of a completed item is
immutable (`_guard_mutable_chunk_set`), and the CHECK constraint
`completed_not_before_started` may refuse a completion time of a clock that is
behind the one that started the item.  The handler turns both into a retry.

Messages are not in this module: a worker may take any item at any time, which
covers every duplicated, late or redelivered message.

### JobOutbox

`outbox` is the table in the order of `created_at`; `publishers[p]` is the rest
of the batch of a run of `publish_pending`, in the order in which RETURNING gave
it, which is any.  `sent` counts the messages of a row and is what the
properties are about; it is no column.  `Settled` is the statement of
`mark_published`, `mark_failed` and `release_publish_claim`, with the WHERE
clause of `_owned_by`.  A job type missing from `TASK_BY_JOB_TYPE` is an
aggregate in `Unroutable`.  Publishers and database agree on the time here: the
effect of clocks that differ is the subject of `IngestionLifecycle`.  Two
batches are claimed one after the other: SKIP LOCKED lets them run together
on different rows.

### IngestionSystem

Every action is a conjunction of an action of each side, in one step where the
code has one transaction: `AddItem`, `ScheduleRetry`.  The broker is a count of
messages for each item.  A message is used up when its task ends, by an
exception too (Celery's default with `acks_late`), is put back when the worker
process dies (`reject_on_worker_lost`), and may be delivered again while it is
handled (visibility timeout).  `RetryRefused` happens when the
discard of `schedule_retry` meets a row under a publish lease.
`stranded` remembers the items whose claim ended in an error, which used up the
message; the code has no such record, which is the point.

### EmbeddingRuns

`runs` is the table in the order of `created_at`; a run belongs to a target, a
pair of item and model.  `vectors[t]` abstracts the `chunk_embeddings` of a
target to the run and attempt that wrote them.  Time is abstract here: a lease is
live until it expires, at any moment, so renewals in time leave no trace.  What a
statement compares the lease with is `now()` of its transaction's start: a worker
whose lease has expired meanwhile, and has been seen expired by others, may still
complete (`OwnedBy` asks for status and attempt only), renew (`Renew`), or
find the lease lost (`LoseLease`).  The clocks of the processes do
not appear; `IngestionLifecycle` has them for the same statements.  Messages are
a set of runs: `Take` may leave the message where it is, which stands for any
number of copies.

| Action | Code |
|---|---|
| `CheckInFlight`, `AddRun`, `AddRefused`, `DispatchCreated` | `create_run`: the check, the insert under `uq_embedding_runs_in_flight`, and the best-effort message after the commit |
| `Claim`, `ClaimRefused`, `ClaimAnswerLost` | `claim`, and the early return of `handle` |
| `Persist`, `PersistAnswerLost` | `persist_vectors_and_mark_completed`; after a lost answer `handle` goes on to `schedule_retry` |
| `MarkFailed`, `ScheduleRetry`, `DispatchRetry` | the `except` clauses of `handle` |
| `Renew` | a heartbeat that began before the lease expired and is applied after it |
| `LoseLease` | a heartbeat that matches no row, or a last statement that matches none |
| `ReapExpired`, `FindStalePending`, `FindExpired`, `Redispatch`, `Recovered` | `EmbeddingRecoveryService.recover`, transaction by transaction and message by message |
| `Fail`, `FailRecovery`, `Redeliver` | crashes, failed statements, the visibility timeout |

Between the claim and the transaction that ends the attempt a worker only reads, so
one step `processing` stands for it.  The chunks of a completed item do not
change, and `ChunkSetChanged` is one more permanent error.

### GroupMembership

`memberships` holds the active rows, as pairs.  A request is one transaction
that locks group and member with SELECT ... FOR UPDATE, checks, and writes.
`Check` merges `has_active_membership` and `would_create_cycle`: the first
reads a row that nobody else can write, since both its principals are locked.
`Reaches` is the recursive query, as the least set closed under membership.
Superadmins, and the policy that protects them, are in `AccessControl`.

### DocumentVersions

`documents`, `versions` and `grants` are the tables (of the ACL, the unrevoked
rows); `locked[x]` is the request that holds row x FOR UPDATE; `requests[r]` is
where a request is in its one transaction.  A step is a statement.  The last
write and the commit are one step: before the commit nobody sees it, and
what it depends on is locked or guarded by a constraint, which the step evaluates.

| Action | Code |
|---|---|
| `CheckCanonicalKey`, `InsertDocument` | `create_document`: the check, then the insert under the unique key |
| `SoftDelete` | `delete_document`, one UPDATE |
| `LockForAcl`, `GrantAcl`, `RevokeAcl` | `grant_acl`, `revoke_acl` |
| `RequireActiveDocument`, `InsertVersion` | `create_version`, which locks nothing |
| `BeginPublish`, `BeginWithdraw`, `BeginArchive` | `find_by_id(lock=True)` and the checks of the row |
| `FindOpen`, `LockOpen` | `find_open_effective_version(lock=True)`: the row found by the statement's snapshot, and what PostgreSQL does with it once its lock is free |
| `Publish`, `Withdraw`, `Archive` | the UPDATEs, the exclusion constraint, the commit |
| `Abort` | any failure up to the commit, a deadlock included |

`FindOpen` and `LockOpen` are two steps because the row is chosen before the wait
and read again after it: a version that was closed meanwhile is not returned,
and one that was opened meanwhile is not looked for.
Version labels are left out: `InsertVersion` may be refused for one as soon as the
document has a version.

### ArtifactUploads

It adds `artifacts` (the table), `objects` (names in the bucket), `items` (what
became of the item that a pipeline queues) and `calls[c]` (which step of
the pipeline or upload is next; its transaction is request c of
`DocumentVersions`).  `trouble[a]` remembers the faults that an upload has met; the code
has no such record, and the properties say with it which fault they allow.

| Action | Code |
|---|---|
| `IngestCheckKey`, `IngestCreateDocument`, `IngestRequireDocument`, `IngestCreateVersion`, `CreateRun`, `QueueItem` | the calls of `ingest`, each its own transaction |
| `LockDocument`, `LockDraft` | `_validate_target` and what `upload` checks after it |
| `PutObject`, `AddArtifact`, `Compensate` | put, insert and commit, and the `finally` |
| `RegisterCheck`, `RegisterInsert`, `Transition` | `DocumentArtifactManagementService` |
| `LoadItem` | `ArtifactLoader.load` and the processor's reading of its errors |
| `Crash` | the process dies between any two steps |

`put` and `delete` may raise with or without their effect, and a commit may succeed
with its answer lost.

### AccessControl

`principals`, `identities`, `assigned` and `granted` are the tables reduced to their
open rows.  A request is resolved to a user (`Resolve`, `Recheck`, `Provision`,
`ResolveAfterConflict`), authorized by two statements (`ReadEffectivePrincipals`,
`RequirePermission`), and only then begins the transaction of its operation, which may
find that all of this has changed.  `LockPrincipal` and `LockRole` are the FOR UPDATE
statements; `CheckRemoval` is `protect_user_removal`.  `Free` is asked by
foreign keys too: an insert that names the actor waits while the actor's row is locked.
`Bootstrap` is the script, which skips authorization.

### DocumentChunks and EmbeddingBatches

A token is `<<block, line, place>>`, so that "no text is lost" and "the order
is kept" can be said of chunks.  `Split` gives the windows of the tokenizer without
its loop; the chunkers and `PlanBatches` are recursive functions over places in the
document, and where the code collects blocks as it meets them, `InTheirOrder` lists
the numbers of those it collects.  A row of a table is treated differently when it is the one that made
the group before it end, so the function of `EmitTable` takes the row and that fact.
A document is any sequence of extracted blocks (`DocumentsAssumption`), a
configuration any that `ChunkingConfig` accepts (`ConfigsAssumption`).
`EmbeddingBatches` takes any document of a set through `ExtractPrimary`,
`ExtractFallback`, `ChunkDocument` and `StartEmbedding`; then each task of a
batch acquires the semaphore, calls, sleeps and calls again (`Acquire`, `Answer`,
`TransientError`, `Wake`), until `Gather` has all or one has failed and `EndJob` ends the
job.  `batches[a]` are the tasks of attempt a: those of an attempt that has failed
go on while the next one runs.  An answer is any sequence of indices, of the
right length or one short.  Only the errors of a provider lead from the primary
extractor to the fallback; any other exception, there as in chunking and in a batch, is what the
handler makes of it (`ErrorKinds`): permanent, or transient, which an
exception of no class of its own is too.  A document may be refused before it is chunked
(no run, an invalid configuration, an unavailable tokenizer).

## 3. The runs

| Run | Instance | Asks |
|---|---|---|
| `ingestion` | 2 items, 2 workers with clocks 1 apart, 2 attempts, lease 1, clock to 3, 1 fault | safety of the lifecycle; `LeasedJob` is implemented |
| `outbox` | 2 aggregates (one unroutable), 2 publishers, batches of 2, 3 rows, 1 failure | safety of publication; a run leaves no row out of reach |
| `system` | 1 item, 2 workers, 1 publisher, 2 attempts, 3 rows, 1 fault, 1 failure | the two together: work is on its way, once, and moves on |
| `system_retry` | the same without faults | violation: a retry is refused |
| `embedding` | 1 target, 2 requests, 2 workers, 1 recovery, 2 runs, 2 attempts, 2 failures | safety of embedding runs |
| `embedding_recovery` | 2 targets, 1 request, 1 worker, 1 recovery with batches of one, 2 runs, 2 attempts, 1 failure | does every run end |
| `groups` | 3 groups, 1 user, 2 requests, 1 status change | what row locks give |
| `groups_cycle` | 4 groups, 2 requests | violation: what they do not give |
| `versions` | 1 document, 3 versions, 1 grantee, 2 requests, 3 times | effective periods under concurrent transitions; transitions end; ACLs |
| `uploads` | 1 document, 1 version, 2 callers and 1 request, 2 artifacts, 1 grantee | rows, objects and items after any fault |
| `access` | 3 users, 3 identities, 2 requests, provisioning on, symmetry | identity, superadmins, lock order |
| `batches` | all documents of up to 3 of 9 blocks with few tokens, 5 configurations; batches of 2 chunks or 6 tokens, 2 at a time, 2 attempts each, 2 of the run | chunks against the text; vectors against the chunks; every document ends |

### What they show

* `FencingToken`, `ChunksOfCompletingAttempt`, `PendingIsClaimable`,
  `LiveLeaseRespected`: no interleaving of late statements, renewals,
  reclaims and lost answers mixes two attempts.
* `ImplementsLeasedJob`: seen from outside, an item starts at most `MaxAttempts`
  times, ends once, by its running attempt, and shows that attempt's chunks.
* `ClaimToken`, `DispatchedAtLeastOnce`, `LivePublishLeaseRespected`: a late
  publisher settles nothing that is not its own, and a row is published only
  after its message went out, once for each claim at most.
* `ClaimedRowsComeBack`: a run of the publisher that has begun, and a crash or failures in it, leave no
  row that it took out of reach of the next run.  `PendingMovesOn`: an item whose message is in the broker
  is started, through redeliveries, crashes and retries; one without a message is started
  or comes to have a row that the next run of `publish_outbox` can claim.  Neither says that there
  is a next run, since nothing in the repository starts one.
* `PendingHasJob`: the reason why: a waiting item has a row, a message or a
  claiming worker.  The one exception is an item whose claim ended in a database
  error.  `OneWaitingJob`: retries do not pile rows up.
* `OneRunInFlight`, `VectorsOfNewestCompletedRun`, `EndedRunsStay`: requests that
  race, late attempts, lost answers and piled-up messages neither start two runs
  of a target, nor mix vectors, nor wake up a run that has ended.
* `EveryRunEnds`: a run that is committed ends, although its first message may be
  lost and recovery sends only a few messages at a time.  The claim limit alone would leave
  a run whose last attempt died RUNNING, and its target blocked; the reaper that runs
  first in `recover` closes that gap.
* `NoShortCycle`, `OnlyActiveJoin`: what the locks on two principals exclude.
* `EffectiveAtMostOne`, `EndsWhereSuccessorStarts`, `EndedPeriodsStay`,
  `StatusStepsForward`: two publications, or a publication and a withdrawal, of the same
  document never leave two effective versions, a gap that the code did not mean, or an
  end that moved.  First versions published together lock nothing in
  common: there the exclusion constraint alone decides.
* `TransitionsEnd`: a publication waits for one row at most, and no circle forms.
* `QueuedItemHasObject`, `RowHasObject`, `NoOrphans`: a lost commit answer makes the
  upload delete the object of a committed row; this row is never queued for
  ingestion by the pipeline that wrote it.  Nothing else parts a row from its object.  Every
  orphaned object has a fault of the store or a crash behind it.
* `UploadsJoinDrafts`, `AclOfActiveDocuments`: what was checked before a slow put or a
  second statement still holds at the commit, because the rows stay locked.
* `IdentityIsOneUser`, `SuperadminKept`, `RetiredStaysRetired`, `LocksInOrder`: first
  logins that race, superadmins who remove each other, a retirement between
  the check and the UPDATE of an activation.
* `ChunksCoverDocument`: both chunkers against the text of the document: all of it, in order inside
  each chunk and from each chunk to every later one, but for what an overlap or a table's header
  says again.  A chunk above `max_tokens` is possible in one case, see the observations.
* `VectorsOfTheirChunks`, `DocumentEnds`: neither permuted answers, nor the order in which
  batches end, nor tasks left over from a failed attempt bring vectors to wrong chunks or
  keep the semaphore.

### Findings

1. **A quick failure loses its retry** (`system_retry`).  The publisher leases a
   row, dispatches its message and only then marks it published.  When the
   attempt fails in between, `schedule_retry` discards the row of the item:
   `discard_pending_for_aggregate` sets `failed_at` and leaves `lease_expires_at`,
   which the CHECK constraint `failed_job_has_no_lease` forbids.  The error
   leaves the task, its message is used up, the item stays RUNNING.  The comment at
   `atlasrag/modules/ingestion/workers/job_handler.py:55` says that unknown
   failures are retried "to avoid permanently losing work".
2. **Two requests close a circle of four groups** (`groups_cycle`).
   `docs/adr/keycloak/identity-architecture.md:581` says that the active
   membership graph must be acyclic.  Given rows (b, c) and (d, a), the requests
   (a, b) and (c, d) lock disjoint principals, check at the same time, and both
   write.  Circles of two and three are excluded, as `ShortCyclesExcluded` proves.

### Observations

Met while modelling; no run is about them.  The models contain most of this behaviour,
and `PROJECT.json` lists it under hazards.

* A table row under its header may exceed `max_tokens`
  (`atlasrag/modules/ingestion/chunking/chunkers.py:199`): whether a row fits is
  asked only of the group it would join.  `ChunksCoverDocument` allows exactly this.
* `create_artifact` reads the version without a lock, so an artifact may join a version that is
  published meanwhile; `upload` may not.  No route calls it.
* The pipeline validates the chunking configuration after the upload: a refusal
  leaves document, version and artifact behind.  Nothing collects such rows, nor orphaned objects.
* After a lost commit answer a row names a deleted object.
* `has_unrevoked_grant` ignores `expires_at`: an expired grant blocks a new one.
* Authorization reads principals and grants in two statements and is over before
  the operation begins.
* `asyncio.gather` leaves batches of a failed attempt calling the provider.
* Waits for the actor's row, made by foreign keys, can form circles with FOR UPDATE locks: two
  managers who grant to each other, or a revocation of a role against a deactivation of its
  actor.  PostgreSQL ends one (`Abort`).  `LocksInOrder` is about FOR UPDATE alone.
* `scripts/bootstrap_superadmin.py:69`: the IntegrityError of a concurrent assignment is
  raised by the statement before the `try` of line 76 that would translate it.
* A request holds a session of its own while its services take others from the same pool.
* `scripts/clean_dev_data.py` deletes users without asking the superadmin policy.

### In the models, but checked by no property

* An item whose attempt has died stays RUNNING with an expired lease: the reaper of ingestion is
  called by no task.  `PendingHasJob` is about items that wait.
* Two requests on the same two groups in opposite order wait for each other until PostgreSQL ends
  one (`Abort` of `GroupMembership`).
* A document may be deleted between the check of `create_version` and its insert, which leaves
  a draft of a deleted document.  `UploadsJoinDrafts` says that no upload joins it.
* Circles of waits through foreign keys, see the observations.
* Batches that a failed attempt leaves running and those of the next attempt have a semaphore
  each, so that together they call the provider more often at a time than is configured.

### Bounds

Each bound is a constant with `Max` in its name; the guards that use it say so.

* Two workers are one attempt and the one that replaces it; with two attempts
  the limit is reached by reclaim and by retry.  A third worker would be a second
  zombie, which the proofs cover: they hold for any number.
* A lease of one instant and three instants let a lease expire twice, and the
  clocks of the workers differ by a full lease.
* One fault at any place; two faults in a row reach the states that a fault and
  a late worker reach.  The proofs do not bound faults.
* Two publishers, three rows and batches of two: a batch may be cut by the
  limit, lose its lease in the middle, and be claimed by the other.  `Abandon` only
  happens while the clock can still pass the lease it leaves; without that, the
  bound on the clock, and not the code, would strand the row.
* `MaxRows` is one more than the rows one item can need with two attempts.
* One target suffices for the safety of embedding runs, since no statement relates two
  targets; two runs are one that ended and its successor.  Two targets and batches
  of one are what recovery needs for one run to stand in the way of another.  With one
  failure in `embedding_recovery` the first message, a retry's message, a worker or a
  recovery is lost, and every run can still lose its lease at any time.
* Two requests and four groups are the fewest that close a circle past the
  locks; three groups and a user cover the other cases.
* Three versions are one that ends, its successor, and one that is published between or
  after them; three times give periods that touch, overlap, or leave room.  No statement relates
  two documents, except the unique key, which two requests race for.
* Two callers race for the same key, version and document; a third request
  publishes, deletes and changes ACLs meanwhile.  No faults are bounded in `uploads`: identifiers are,
  and an upload takes one for good.
* Three users are a superadmin, one that is made superadmin, and one that does neither; identities,
  users and requests are interchangeable, and no property of `access` is temporal beyond one
  step, so symmetry is sound.
* Blocks of up to seven tokens with windows of four (90 documents, five configurations) reach every case of the
  chunkers: an empty heading, a text that is split with and without overlap, a table without a
  header, one that is cut between rows, and rows that are too long at
  the beginning and in the middle.  Up to three chunks give up to three batches, more than run at a time.

Deadlock is checked for `ingestion` and `groups`.  `versions`, `uploads` and `access`
come to rest when identifiers are used up and all is withdrawn, deleted or retired;
`batches` when its document has ended.  `outbox` and
`system` come to rest when the clock is at its bound and all work is done, so
there it is not; nor in `embedding` and `embedding_recovery`, where the recovery
goes round for ever.

### Fairness

* The clock ticks until its bound.
* `WorkersRun`: a worker goes on with what it does (weak fairness: a coroutine
  that can run is run), and a waiting message is delivered if workers are free
  again and again (strong fairness: Celery's queue is served in order).
* `PublishersGoOn`: a run of `publish_outbox` that has begun goes on with its batch, or dies.
  That a run begins is assumed nowhere: `publish_outbox` is a task that
  no schedule and no code sends (`celery_app.py:75` schedules the embedding
  recovery only).  `ClaimBatch` may happen at any time and need never happen.
* In `EmbeddingRuns`, recovery goes on and starts again: beat sends it every
  `embedding_recovery_interval_seconds` (`celery_app.py:75`).  Workers go on, and a
  waiting message is taken if it can be again and again.  A lease that no worker renews expires, and rows
  grow old.  That presumes clocks that differ by less than a lease; with larger
  differences one row can make the reaper's statement fail for all.
* `DocumentVersions`: a request goes on (weak fairness), and one that waits for a row
  gets it if it is free again and again (strong fairness: PostgreSQL queues those who wait for a row).
* `EmbeddingBatches`: as long as something can happen something does; calls to providers
  have timeouts, and nothing in it is a fault that could happen for ever: attempts are counted.
* No fairness in `ArtifactUploads`, `AccessControl` and `GroupMembership`, which have safety properties only.
* No fairness for faults, new items or runs, redelivery, heartbeats or the reaper of
  ingestion.

## 4. The proofs

TLAPS proves for every set of items and workers, every attempt limit, lease and
skew, and any number of faults and instants (`ConstantsAssumption`):

| Theorem | States |
|---|---|
| `InvariantHolds` | `Spec => []IInv` |
| `TypeCorrectness`, `Fencing`, `ChunksAreOfCompletingAttempt`, `PendingItemsAreClaimable` | the invariants of the run `ingestion` |
| `LiveLeases` | `Spec => LiveLeaseRespected` |
| `Implements` | `Spec => ImplementsLeasedJob` |

None of the invariants is inductive.  `FencingToken` needs to know that no number in
use is ahead of the row (`TokensHandedOut`), or the next claim could hand it out
again.  `ChunksOfCompletingAttempt` needs that an absent item has no chunks
(`AbsentIsBlank`).  `LiveLeaseRespected` needs that the time of an open transaction is
not ahead of the clock (`TransactionsBegan`): a claim that finds the lease expired then
finds it expired at any later time.  `IInv` is their conjunction with `LeaseOnlyWhileRunning`,
a CHECK constraint of the table.  The proof has a lemma for each thing a step
does (stop, begin, release a row, claim), a lemma for each kind of step, and
`Invariance` with one case for each action.  `Implements` maps each action to
an action of `LeasedJob` or a stutter.

For groups, with any number of groups, users, requests and status changes
(`GroupAssumption`):

| Theorem | States |
|---|---|
| `GroupInvariant` | `Spec => []GInv` |
| `GroupTypes` | rows, statuses and requests keep their types |
| `ShortCyclesExcluded` | the invariant of the run `groups` |
| `OnlyActivePrincipalsJoin` | `Spec => OnlyActiveJoin` |

`NoShortCycle` becomes inductive with what a writing request still knows
(`WritesAreChecked`): no way of one or two memberships leads from its member to
its group.  It stays true because a request that adds such a membership would
have to hold a lock that the first one holds (`LocksExclusive`).
For longer ways that fails, and there the circle of four slips through.
`LockedAreActive` says that the principals a request has locked for adding are active.

For documents and their versions, with any documents, keys, versions, requests and
times (`TimeAssumption`, `NoneAssumption`, `RowsAssumption`):

| Theorem | States |
|---|---|
| `VersionsInvariant`, `VersionTypes` | `Spec => []VInv`, `Spec => []TypeOK` |
| `OneEffectiveVersion`, `SuccessorsJoin` | `EffectiveAtMostOne` and `EndsWhereSuccessorStarts` of the run `versions` |
| `EndedPeriods`, `StatusSteps`, `AclChangesOfActiveDocuments` | `EndedPeriodsStay`, `StatusStepsForward` and `AclOfActiveDocuments` of the same run |

`EffectiveAtMostOne` follows from `Exclusive`, what the exclusion constraint says of the
table.  The other properties need what each transaction holds (`VersionHeld`, `OpenHeld`,
`DocumentHeld`): the row it checked is locked by it and still is as it was checked, which
`HeldStays` carries over the steps of the others.  `EndsWhereSuccessorStarts` relates
two rows: a publication that closes a period has that version locked and open, and its own
row starts where the other now ends; a withdrawal or an archiving leaves the start of its
version, so it stays the successor of the one before.  `RowShapes` says that exactly the versions
that have been published have a start, and that no period is empty, which is how the constraint keeps
a withdrawal from moving an end past the successor's start.

For principals and the superadmin role, with any users, identities and requests
(`JitAssumption`, `NamesAssumption`):

| Theorem | States |
|---|---|
| `AccessInvariant`, `AccessTypes` | `Spec => []AInv`, `Spec => []TypeOK` |
| `OneUserPerIdentity`, `LockOrder` | `IdentityIsOneUser` and `LocksInOrder` of the run `access` |
| `SuperadminStays`, `RetiredPrincipals` | `SuperadminKept` and `RetiredStaysRetired` of the same run |

`SuperadminKept` is about two requests that remove each other's superadmin.  `Holds`
says that one about to write a removal has the role's row locked and another superadmin
is there; `LocalStays` shows that nobody takes that one away while the lock lasts.  It also needs that
the role itself stays usable (`RoleUsable`): no request deactivates its principal or revokes its
grant.  Whoever operates has been authorized, and then there is an active superadmin; the
alternative is `Untouched`: no assignment, no status changed, no request authorized.  So a
removal that is let through without counting, because its user is no superadmin, leaves
one too, and the user that the bootstrap script looked at without a lock is still active
when the first assignment is inserted.  `LocksOf` has the lock order: a holder of a principal's lock
is past it, a holder of the role's lock waits for no lock of its own.

For the outbox, with any aggregates, publishers, batch limit, lease, number of rows, failures
and instants (`OutboxAssumption`):

| Theorem | States |
|---|---|
| `OutboxInvariant`, `OutboxTypes` | `Spec => []OInv`, `Spec => []TypeOK` |
| `ClaimTokens`, `Dispatched` | `ClaimToken` and `DispatchedAtLeastOnce` of the run `outbox` |
| `LivePublishLease` | `Spec => LivePublishLeaseRespected` |

A publisher holds a list of claims, and a row's attempt number is the token of its claim.
`ClaimsHandedOut` says that no publisher has a number the row has not given out, `ClaimsApart`
that no two have the same: so a late publisher's update, which names row and number, finds its own claim or nothing.
`DispatchedAtLeastOnce` also bounds the messages of a row by its attempts.  That
becomes inductive as a budget (`SendBudget`): what was sent, and the attempts whose message may
still go out, are together at most the attempts; a dispatch moves one from the second part to the
first, which `DispatchEffect` counts.  `RowsOnce` is needed because a publisher settles the head of its
list by row number.

For items and outbox together (`SystemAssumption`):

| Theorem | States |
|---|---|
| `SystemInvariant`, `SystemTypes` | `Spec => []SInv`, `Spec => []TypeOK` |
| `OneWaitingJobOfAnItem`, `PendingItemsHaveJobs` | `OneWaitingJob` and `PendingHasJob` of the run `system` |
| `SystemImplementsLifecycle` | `Spec => ImplementsLifecycle`: the system implements `IngestionLifecycle` |
| `SystemImplementsOutbox` | `Spec => ImplementsOutbox`: the system implements `JobOutbox` |

`SInv` holds `IInv` of the items and `OInv` of the outbox (`LifecycleStep` and `OutboxStep` take
their steps over from the proofs of the parts) and what ties the two.  `PendingHasJob` alone is not
inductive: a publisher that marks a row published takes the item's last row away.
`DispatchedIsOnItsWay` says that by then its message, or the worker that took it, is there.  A claim that its row
no longer knows need not be followed: it can settle nothing.  `MessagesWereSent` is what the step of
the outbox that adds a retry asks for: `JobOutbox` alone lets a row be added only after a message of its
aggregate has gone out, and here a worker that retries had one.  Each of the system's
steps has a lemma that says how the work of the waiting items is kept (`...KeepsWork`).

For embedding runs, with any targets, requests, workers and recoveries, and any numbers of runs,
attempts and failures (`EmbeddingAssumption`):

| Theorem | States |
|---|---|
| `EmbeddingInvariant`, `EmbeddingTypes` | `Spec => []EInv`, `Spec => []TypeOK` |
| `OneRunPerTarget`, `VectorsShown` | `OneRunInFlight` and `VectorsOfNewestCompletedRun` of the run `embedding` |
| `EndedRuns` | `Spec => EndedRunsStay` |
| `AttemptsAreApart` | no two workers process one run in the same attempt |

`InFlightIsNewest` is stronger than `OneRunInFlight`: a run that has not ended is the newest of
its target, because `create_run` only inserts when nothing is in flight.  With it the run that
completes is the newest completed one, and its vectors are those to show.  That they are the
attempt's own needs that the worker's attempt number is the row's (`AttemptsHandedOut`,
`AttemptsApart`): one that lost its lease carries an older number and is turned away.

For uploads, with any documents, versions, artifacts, keys and calls (the assumptions of
`DocumentVersions`, `CallersAssumption`, `ArtifactsAssumption`):

| Theorem | States |
|---|---|
| `UploadsInvariant`, `UploadTypes` | `UploadsSpec => []UInv`, `UploadsSpec => []UploadsTypeOK` |
| `QueuedItemsHaveObjects`, `RowsHaveObjects`, `ObjectsHaveRows` | `QueuedItemHasObject`, `RowHasObject` and `NoOrphans` of the run `uploads` |
| `UploadsOfDrafts` | `UploadsSpec => UploadsJoinDrafts` |
| `UploadsKeepPeriods` | `Exclusive` and `EndsWhereSuccessorStarts` of `DocumentVersions` hold with uploads too |

`UInv` has two halves.  `RowsInv` is `VInv` with what each call relies on (`TargetHeld`): the
document it has seen, and, from its row locks on, that document active and the version a draft.  It is carried
over the steps of others by `KeptFor`, which each kind of step is shown to satisfy: a request
writes only new rows and rows it has locked (`VersionWrites`, `DocumentWrites`), a deletion only rows
nobody has locked.  `ObjectsInv` is about one artifact at a time: `ArtifactHeld` says for each stage of
the one call that has it whether the row and the object are there, `ArtifactOK` what the three
invariants say of it, and `OneArtifactStep` that a step about one artifact leaves the others.
`QueuedItemHasObject` needs that the call which queues the item went past the compensation
with row and object in place, and that nobody else has the identifier (`OneHolder`).

For chunks and batches, with any documents and configurations, any limits of batches, tokens and
tasks at a time, and any numbers of attempts (`DocumentsAssumption`, `ConfigsAssumption`,
`RunConfigAssumption`):

| Theorem | States |
|---|---|
| `SplitCovers` | what the tokenizer makes of a text |
| `ChunkTells` | what either chunker makes of a document |
| `PlanInOrder` | the batches, one after the other, are the chunks, and keep to the limits |
| `OrderedVectorsInOrder` | an answer of the provider is put in the order of its inputs or refused |
| `BatchesInvariant` | `Spec => []BatchesInv` |
| `VectorsCorrect`, `ChunksCorrect` | `VectorsOfTheirChunks` and `ChunksCoverDocument` of the run `batches` |

Here the work is in the data, and what the functions compute has to be shown by induction.  The
induction theorems of the library take an operator, which the provers cannot instantiate; so induction is
stated over a set of numbers instead (`Induction`, `DownInduction`), which follows from a nonempty set of
naturals having a least member.  A recursive function is a CHOOSE, which is known to satisfy its
equation only once some function does.  `ChainFunction` shows that there is one for the
equation that the planner and the chunkers have in common, "nothing at the end, otherwise a part and then the
rest from a later place", and `FlattenEquation` does it for `FlattenSeq`.  `FlattenPlaces`
then gives every place of a flattened sequence its place in one of the parts, and from it come what the text
of lines and blocks has (`FlattenText`) and its order (`FlattenSorted`).

The chunkers are proved inside out.  `Says(doc, c, title, chunks, X)` is what a sequence of chunks must have to tell
the tokens X in order, inside a chunk and from chunk to chunk: it holds of the empty sequence (`SaysNothing`), of one chunk
(`SaysOne`), of the pieces of a text (`SaysPieces`), and of two such sequences one after the other when the tokens
of the first come before those of the second, but for a table's header (`SaysMore`, `Apart`).  `SaysTextBlocks`, `SaysTable` and `SaysSection`
apply these to what the methods of `HeadingAwareChunker` emit, the last two by induction from the end; `SaysSectionOf`
adds the section's heading, `Tells` puts the sections of a document together, and
`ChunkTells` is about both chunkers.  That a chunk may be longer than `max_tokens` only
if it is one row under its header is shown where it arises, in `SaysTable`.

`BatchesInv` says that the chunks are those of the document from the moment they are stored, that the tasks of every
attempt are those of the plan, and that a task which is done has the vectors of its own
chunks.  It holds for tasks that an earlier attempt left running too, since each writes to
its own place (`TaskStep`).  When all of an attempt are done, gathering them in the order of the plan gives the
chunks in order (`FlattenTwice` with `PlanInOrder`).

Only model-checked is liveness (`ClaimedRowsComeBack`, `PendingMovesOn`, `EveryRunEnds`,
`TransitionsEnd`, `DocumentEnds`), which is out of the prover's reach.  Every invariant and every action
property that a passing run checks is the statement of a theorem.

## 5. Not modelled

* **Token verification**: a library checks signatures against keys fetched over HTTP; the only
  state is the cache of keys.  `AccessControl` begins with a verified identity.
* **AI providers, object storage adapters**: input/output and conversion.  Their outcomes
  are choices in the models that call them.
* **Sessions, configuration, start-up, routes**: wiring without state of its own.  The
  isolation level, expiry on commit and Celery's settings are facts the models use.
* **Read-only queries** (`can_read_document`, lists, effective permissions through groups):
  they change nothing.  `EffectivePrincipals` has the user and the superadmin role;
  the groups of a user, which the same recursive query adds, are not composed with it.
* **`update_document`**: titles and labels, on which nothing depends.
* **Hashes, sizes, page numbers, languages, quality metrics**: data that no decision of the
  modelled code depends on beyond accepting or refusing a call.
* **Development scripts** (`seed_dev_data.py`, `clean_dev_data.py`): not part of the running system.
* **Migrations**: those constraints that decide between behaviours are in the actions that meet
  them; the rest is schema.

## 6. The plan

What is left: effective principals composed with the groups of `GroupMembership`, and reads of
documents through ACLs on top of them.
