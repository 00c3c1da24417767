# Coldline: a TLA+ verification project

Coldline is a cold-chain operations service. An HTTP API accepts temperature readings, turns
every reading outside its accepted range into a durable *exception*, and hands the exception to
a worker over a Redis stream; the worker asks a model for a summary and records the outcome.
Beside that pipeline the API stores documents, loads a corpus and answers questions by hybrid
retrieval under access constraints; an initializer brings the stack up.

This directory models the parts of the program in which processes interleave, fail and retry, and
the rules that decide what a caller may see and what a search returns: TLA+ modules translated from the source, TLC configurations that check them on small instances,
and TLAPS proofs of the main results for every instance. Paths below are relative to the
repository, whose Python packages live in its `src/` directory (`src/src/...` in `PROJECT.json`).

## 1. The system: inventory

| Component | State it keeps | Operations | Source |
| --- | --- | --- | --- |
| exception ingress | none of its own; a handler's local view of a record | `ReadingApplication.accept`, the `/api/v1/readings` route | `src/api/use_cases.py`, `src/api/routes.py` |
| exception repository | table `exceptions` | `get`, `create`, `transition` (compare-and-set on the state) | `src/adapters/persistence/postgres.py` |
| job queue | Redis stream, consumer group, pending list | `publish`, `read`, `claim_stale`, `acknowledge`, gauges | `src/adapters/queue/redis_streams.py` |
| exception worker | a delivery in hand | `run_loop`, `_process_delivery`, `WorkerApplication.process` | `src/worker/*.py` |
| idempotent writes | table `idempotency_claims` | `claim`, `complete`, `release`, `IdempotencyHandler.run` | `src/api/idempotency.py`, `src/adapters/persistence/idempotency.py` |
| document store | tables `documents`, `chunks` | transactional save, scoped reads, the v2 route | `src/api/document_service.py`, `src/adapters/persistence/document_repository.py` |
| corpus ingestion | the same tables, the object store | upserting load, integrity checks | `src/api/ingest.py`, `src/adapters/persistence/corpus_loader.py` |
| hybrid retrieval | none | dense and sparse arms, authorization evidence, rank fusion | `src/adapters/retriever/postgres_hybrid.py`, `src/domain/fusion.py` |
| access constraints | none | composition of constraints, readability | `src/domain/access.py`, `src/domain/tenant_authorization.py` |
| retrieval orchestration | none | deduplication, citation limit, token-budget assembly | `src/api/retrieval_orchestration.py` |
| startup and readiness | schema, bucket, group | initializer with bounded retry, runtime bindings, readiness | `src/api/initialize.py`, `src/api/runtime.py` |
| object store | a bucket | put, get, listing, bucket creation | `src/adapters/object_store/s3.py` |
| reading contract and encoding | values of a reading | validation, redaction, range test, JSON | `src/domain/exceptions.py`, `src/domain/redaction.py` |
| evaluation tooling | none | attribution of a miss to a stage | `tests/diagnostics/*.py` |
| baseline reset | all of the above | `poe reset-baseline` | `pyproject.toml` |
| observation | logs, spans, gauges | redaction, telemetry, metrics, health | `src/adapters/telemetry.py`, `src/worker/metrics.py`, ... |

How they interact. The API, the worker, the initializer and a corpus load are separate processes
that share PostgreSQL, Redis and the object store and nothing else. Within one process everything is `asyncio`: a coroutine runs alone
between two awaits, and anything may run at an await. PostgreSQL makes one statement atomic (and
one transaction, in the document save); Redis makes one command atomic. No operation of the
pipeline spans the two, so every hard behaviour sits between two awaits:

* two handlers serve the same `reading_id`, which derives the same exception id;
* a handler dies, or loses the answer of a statement, between moving the record and publishing;
* `XADD` raises although Redis added the entry;
* a worker is slower than the stale threshold and a second worker claims its message;
* the delivery count is read by a second command after the claim it belongs to;
* a worker dies before, during or after the model call, or after recording the outcome and
  before acknowledging;
* the compensation of a failed publication races the worker that got the job after all;
* a load reads the two corpus artifacts apart while the initializer replaces them;
* loads and creates write the same documents, and a reload of a shorter document deletes nothing;
* a search is three statements on three connections, and a load may commit between any two;
* initializers overlap, stop half way and run again behind an object store that forgets.

`PROJECT.json` lists each of these at its line under `hazards`, with the properties that would
catch it, or why none does.

What makes each component correct:

* *ingress*: one job per exception; nothing is published before the record says so; a 503 is
  true; accepted work is never stranded;
* *queue and worker*: a message is not acknowledged before its record is terminal; one model call
  at a time, and at most the configured number; a terminal record is never rewritten; every
  published job finishes and leaves the pending list;
* *idempotent writes*: at most one effect per key, a replay answers what the effect answered;
* *document store and corpus*: a stored document is whole; what is stored was submitted or vouched
  for; a load is never torn and a create never replaces;
* *retrieval*: nothing outside the caller's constraint is in any stage or citation; fusion respects
  what the arms agree on; assembly respects the budget; the evidence means what the diagnostic takes
  it to mean;
* *startup*: the revision never lies about the schema, the API never serves an older one, a
  completed run leaves everything it promised, and every run ends;
* *encoding*: what was accepted can be read again.

## 2. Plan

| Order | Modules | State |
| --- | --- | --- |
| 1 | `ExceptionContracts`, `ExceptionRepository`, `JobQueue`, `ReadingIngress`, `ExceptionWorker`, composed in `ExceptionPipeline`; `ExceptionLifecycle` is the abstract specification; `PipelineReset` composes the pipeline with the operator's reset | done |
| 2 | idempotent writes, with an abstract "write once" specification it implements | done: `IdempotencyStore`, `IdempotentWrite`, which implements `WriteOnce` |
| 3 | document store and corpus ingestion under one set of tables, with an abstract catalogue it implements | done: `KnowledgeContracts`, `DocumentStore`, `CorpusIngestion`, which implements `Catalogue` |
| 4 | retrieval: access rules, the arms, fusion, assembly, the three statements of one search under concurrent writes, the attribution drawn from it | done: `HybridRetrieval`, `StageAttribution`, composed with the ingestion in `KnowledgeBase` |
| 5 | initializer, migration, readiness; the values of a reading through every encoding | done: `StackStartup`, `ReadingCodec` |

Every invariant and every action property that a run checks is proved (section 6), in
`ExceptionPipelineProofs` and `AttemptProofs`, `IdempotentWriteProofs`, `CorpusIngestionProofs`,
`KnowledgeProofs` with the lemmas of `RankingProofs`, `StackStartupProofs` and `ReadingCodecProofs`.

## 3. The modules and the code

**ExceptionContracts** has the shared vocabulary: identities, payloads, `ExceptionState`, the
delivery limit. **ExceptionRepository** has one operator per SQL statement: `Insert` and
`InsertConflicts` for `INSERT ... ON CONFLICT DO NOTHING`, `Transition` and `StateConflict` for
the guarded `UPDATE`. `"ABSENT"` stands for no row.

**JobQueue** keeps every entry ever added, in stream order, with the part of the pending list
that concerns it: whether it is new, pending, stale, acknowledged or flushed, and how often it
was delivered. `XAdd`, `XReadGroup`, `XAutoClaim`, `TimesDelivered` (XPENDING for one entry),
`XAck` are the commands the adapter sends. `claim_stale` sends two of them, so it is two steps of
the worker, and the count may be another delivery's by the time it is read.

**ReadingIngress** is `ReadingApplication.accept`. Each member of `Requests` is a handler that
serves one request after another; its `pc` names the await it is suspended at: `get` (the first
lookup), `create` (the INSERT), `reget` (the read after a conflicting INSERT), `queue` (RECEIVED
to QUEUED), `conflict` (the loser's read), `publish`, `compensate` (QUEUED to FAILED). One action
is what the code does from one await to the next, with the HTTP status the route gives the
outcome. `RequestAborted` is the await raising, or the process dying, before its effect; an
effect whose answer is lost is the ordinary step followed by an abort. `interrupted` is a ghost:
the identities whose publisher was stopped inside `PublishWindow`.

**ExceptionWorker** is `run_loop` and `WorkerApplication.process`. `claim`, `count`, `read` are
the queue awaits, `get` to `requeue` those of `process`, `ack` the acknowledgement. `LetGo` is
every way the loop drops a delivery without acknowledging it: RETRY, a caught exception, a failed
gauge refresh. `Persist` is a transition whose StateConflict escapes to the loop. `ordinal` and
`attempts` are ghosts that count model calls by delivery.

**ExceptionPipeline** composes them: any step of a handler, of a worker, or of time (`GoesStale`)
between any two others. **ExceptionLifecycle** is what a client that polls the record may see,
with the number of model calls. **PipelineReset** adds the three commands of `poe
reset-baseline`, in its order and not atomically. It adds two ghosts, which name the work a reset may
lose: `caught`, the unfinished work whose jobs the FLUSHDB removed, and `untaken`, what failed to be
published during the reset and could not be compensated. The TRUNCATE clears `interrupted`: a
publisher stopped before it excuses nothing that is accepted after it.

**IdempotencyStore** has one operator per statement on `idempotency_claims`. A completed row names
the document its stored response describes. **IdempotentWrite** is `IdempotencyHandler.run` around
the transaction of `POST /api/v2/documents`: `insert` and `lookup` are the two statements of
`claim`, repeated at most `ClaimAttempts` times when the row vanishes between them; `operation` is
the document transaction, `complete` and `release` the last await. The transaction commits
(`StoreDocument`), is refused by the primary key (`StoreRejected`), or loses its connection before
or after COMMIT was sent (`StoreFails`, or `Aborted` when the handler itself is stopped). In the
last case PostgreSQL still decides it (`Settle`), while later writers of the same document wait.
`CreateDocumentV1` is the unprotected v1 route writing the same table, and a key may hold a claim of
the other operation from the start. The conflict branch of `Complete` is in the code and in the
model; `OwnershipInv` shows that it is never taken. `storedUnder` and `abandoned` are ghosts: what
was stored under each key, and the keys whose owner was stopped. **WriteOnce** is the promise to a
client: a document is stored once and for good, and a key is answered once, about a stored document.

**KnowledgeContracts** has the documents, chunks and labels, chunking, and the access rule in its
three forms: `Readable` (the domain function), `ScopeClause` (the SQL of the document repository) and
`ConstraintClause` over `Constrain` (the composed constraint the retriever turns into a WHERE clause).
**DocumentStore** has the tables `documents` and `chunks`, what each writing transaction leaves in
them, and the scoped reads. A chunk row carries its own copy of the label, as in the schema.

**CorpusIngestion** is every writer of those tables. The publisher is the part of the initializer
that writes the two artifacts one after the other; a loader is `api.ingest`: `documents` and
`provenance` are its two object reads with the checks after each, `upsert` and `commit` its
transaction; a client is the v1 create route. `Held` are the document keys of transactions that have
written and not committed, on which another writer of the key waits. Every await can fail, and a
COMMIT whose answer is lost may have happened. `WritesAreExclusive` is what the row locks have to
give: from its first write to its commit, nobody else changes what a transaction wrote. **Catalogue** is the promise to
a reader: documents appear by single creates or by whole accepted releases.

**HybridRetrieval** is one search: `QueryPool`, `QueryDense` and `QuerySparse` are the statements of
the retriever, each on what is stored at that moment; `Fuse`, `Select` and `Assemble` are weighted
reciprocal rank fusion, the selection of one chunk per document, and the token budget with its trimmed
last block; the measurement route stops before assembly. **StageAttribution** is the supplied
diagnostic as operators: what one response shows of a target, the stage a miss is put down to, the
stages the evidence clears. **KnowledgeBase** interleaves the statements of searches with every step
of CorpusIngestion; its ghost `overtaken` are the searches that a commit has overtaken.

**StackStartup** is `api.initialize` call by call (each SQL file, the consumer group, the bounded wait
for the bucket, both uploads, `alembic upgrade head` as the read of the revision and the migrating
transaction), the operator's downgrade, an object store that restarts empty, and the API container:
when Compose starts it, and a readiness probe as its four calls. Runs overlap and stop anywhere.
`FlushDb` is the FLUSHDB of `poe reset-baseline`, which takes the consumer group away while the API
serves, and `WorkerStarts` the worker that creates it again. `ServedSchemaCurrent` therefore says of
the group only that it was created before the API started, and that nothing but a FLUSHDB removed it
since; what the reset does to the work in the stream is the subject of `PipelineReset`.

**ReadingCodec** follows the values of one reading: the contract, redaction, the range test, the
jsonb column, the queue payload and the decoding of both. The pipeline modules take a reading as
opaque; here its values are kept and the awaits left out. `nul` is where the text holds U+0000:
nowhere, only in what redaction replaces, or in what it leaves; `Stores` is the jsonb input, which
refuses the last.

## 4. The runs

| Run | Instance | What it shows |
| --- | --- | --- |
| `pipeline_safety` | 1 identity, 2 readings (one in range), 2 handlers, 2 workers, limit 2, 1 fault | every safety property, that terminal records are never rewritten, and that the pipeline implements `ExceptionLifecycle` |
| `pipeline_liveness` | 1 handler, 2 workers, limit 2, 1 fault, under `FairSpec` | published work finishes, the pending list drains, queued work finishes |
| `pipeline_reset` | 2 handlers, 2 workers, 2 deliveries a message | a reset loses only work unfinished at its FLUSHDB, or whose client was told 500 |
| `idempotent_write` | 2 keys, 1 document, 2 handlers, 3 claim attempts (as deployed), under `FairWriteSpec` | every property of the idempotent write, that it implements `WriteOnce`, and that every request is answered, however often its key changes hands |
| `corpus_ingestion` | 2 documents of at most 2 chunks, 3 releases, 2 loaders, 1 create handler | the tables stay whole and vouched for, nobody writes over an open transaction's documents, a create never replaces, and they implement `Catalogue` |
| `knowledge_search` | 4 documents, 2 releases, 1 loader, 13 requests; 128 full stores | scoping, evidence, fusion, context, and what the attribution may conclude |
| `stack_startup` | 2 initializers, 2 attempts, under `FairSpec` | schema and revision agree, the API is never ahead of the schema, whatever an operator migrates or flushes, completed runs are complete, runs end, a lost object store is noticed |
| `reading_codec` | 8 numbers, infinities and NaN included, 3 lengths of context, U+0000 or not | what can be decoded is what was accepted; only three kinds of reading are lost |
| `pipeline_duplicate`, `pipeline_promise`, `corpus_hidden`, `reading_nonfinite` | small | four statements of the repository the code does not meet (section 5) |

*Bounds.* Two handlers are enough for every race of the ingress: each race is between the winner
of one compare-and-set and one loser, and the theorems of section 6 confirm the invariants for
any number. Two workers and two deliveries give a redelivery that overlaps a slow first worker
and the exhaustion decision; the deployed limit is three, and the theorems hold for every limit.
One identity is enough, since a command on one message touches no other: that is part of what is
proved, for any set of identities. A second reading with the same id is needed for the in-range
refusal and for two bodies under one identity. `MaxFaults` bounds crashes and failing awaits of workers, not aborts of
handlers, which are unbounded; `MaxDeliveries` bounds `pipeline_reset` only, where a job that
meets a RECEIVED row is redelivered for ever. Two deliveries are what it takes for one worker to
acknowledge a message another works on; `ResetView` leaves out answers and ghosts that no later step
reads. The stream needs no bound: it holds one entry for
each identity, except after a reset. Symmetry is over handlers, workers, identities and loaders,
which the modules never tell apart, and is not used in the runs that check liveness.
For the idempotent write two handlers give a loser that looks up while the winner completes or
releases; a third party that takes the key in between is the winner's next request. Two keys give
one document under two keys. Nothing else needs a bound there: aborts, failures and requests are
unlimited.

The three releases of `corpus_ingestion` are one with two documents, one that moves the first of
them to another tenancy and makes it shorter, and one that its own custody file contradicts; with
two artifacts read apart, every mixture of releases is read. Two loaders overlap at every step,
once for all loads, since loads repeat without limit. `MaxChunks` is 2, so that a reload can be
shorter without being empty.

`knowledge_search` checks two kinds of store. In one, the two releases come and go under a search,
relabelling, shortening and adding what it is about to read. In the other the store is full and
stays as it is (`FullStoreIsStill` keeps the loader idle there), and takes every combination of four
bodies in three readable documents, arranged so that the arms agree, disagree, tie and return more
than `CandidatePool`, with a fourth document of another tenancy. Requests cover both clearances,
`top_k` below, at and above what there is, and weights 0, 3, 5 and 10 tenths. A pool of two, two
citations and four tokens are small enough that each limit is met, missed and met exactly. The
attribution is applied to every chunk of the store, as a target, under both releases.

`stack_startup` has two initializers, since every race of it is between two runs or between one run
and the operator, the object store, the worker or the API; two attempts give a wait that fails once and then
goes on and one that is exhausted. `reading_codec` has five finite numbers, enough for a reading
below, on, between and above two bounds on either side of zero; `ContextLimit` is 2, and redaction
makes a context one shorter, one longer or neither, and removes a U+0000 or not.

*Fairness.* Weak fairness for each handler's next step and each worker's next step (an asyncio
task whose await has returned is resumed), for the restart of a worker (`restart:
unless-stopped`), and for the stale threshold passing on some message of each identity (time).
None for arrivals, aborts, crashes or errors. A handler's await is assumed to return: the clients
carry timeouts that make it return or raise. `FairWriteSpec` asks the same of the idempotent write's
handlers (`Serve`), and that PostgreSQL decides a transaction whose client is gone (`Settle`), on
which a writer of the same document waits. The `FairSpec` of `StackStartup` asks that a started run
takes steps (its calls return or raise), that Compose starts and restarts the API, and that probes
go on (the healthcheck of `compose.yaml`); nobody has to start a run, restart the object store or
migrate. No fairness is assumed of writers or searches: their properties are safety properties.

## 5. What the code does differently from what the repository says

Each of the first four is the property of a run that TLC finds violated.

* `DuplicateResumesStrandedWork`. `tests/unit/api/test_use_cases.py` says "A duplicate must
  resume work stranded before queue publication." It does when the record is RECEIVED, the one
  case the test builds. Once the record is QUEUED, a handler stopped before `publish` leaves work
  no duplicate resumes, since any existing record that is not RECEIVED is answered as accepted.
  `NoStrandedWork` shows that this window is the only way to strand work.
* `FailureIsNeverAccepted`. "A terminal failure must return 409 rather than an empty 202
  promise." The read after a conflicting INSERT returns whatever it finds, FAILED included.
* `HiddenDocumentHasNoChunks`. `src/domain/repositories.py` says "A document the scope may not read is
  indistinguishable from a document that does not exist." A load upserts chunks and deletes none, and
  `get_chunks` goes by the label in the chunk's own row. A reload that makes a document shorter and
  moves it to another tenancy leaves its old last chunk readable to the old one. `StoreWhole` shows
  that the chunks of the current revision are always right: only trailing ones are left over.
* `RecordIsServed`. A reading with a NaN or infinite temperature passes the contract, counts as out of
  range, and is written as `null`, which no later read of the row can decode. `LosslessIsServed` shows
  that two others are lost. Redaction puts a placeholder for a shorter match, so that a context near
  its limit is stored beyond it. And the contract admits U+0000 in a context or an identifier, which
  `model_dump_json` writes as an escape that `$2::jsonb` refuses (`postgres.py`, line 59): unless
  redaction removed it, each submission is answered 500 and leaves no row. Every other valid reading
  out of its range is stored as redacted, answered and served.

Five more differences showed up while modelling, and the properties that hold are stated around them.

* A handler that resumes another's RECEIVED row publishes the reading of its own request, not the
  one the row holds, when one `reading_id` is sent with two bodies (`use_cases.py`, line 113).
* `RepositoryError` promises "Nothing is persisted when this is raised", but a connection lost while
  COMMIT is on its way raises it too, and the key is released for a write that takes effect. The
  retry is refused by the primary key; `AnswerIsOwnWrite` and `OneOwnerPerKey` show that it never
  becomes a second write or a wrong replay.
* `api/experiment.py`, line 32, says that a `top_k` above `CANDIDATE_POOL` could never be satisfied;
  fusion works on the union of two arms that each return that many.
* The diagnostic says of a chunk outside the pool that it "was never readable for this caller, so
  nothing downstream had the chance to lose it". The pool is read by a statement of its own, and a
  load that commits after it lets an arm return such a chunk. `QuietEvidence` and `MissAttributed`
  therefore speak of searches that no commit overtook.
* `poe reset-baseline` promises to "Clear exception and Redis data". Between its first two commands
  a record can be made anew while its truncated predecessor's job is still delivered. If the new
  publication then fails, one worker takes the record for the old job and another, that found no row a
  moment before, acknowledges that job, so that a lost worker leaves the record PROCESSING with
  nothing to resume it. The client was told 500. Compose runs one worker; `untaken` in
  `ResetLosesOnlyWhatItOverlaps` marks this case, and TLC finds no other.

## 6. What is proved

`ExceptionPipelineProofs` holds machine-checked proofs of the pipeline, with a reset and without one,
for every set of identities, readings, handlers and workers, every delivery limit and every fault
budget. The assumptions are the named ASSUMEs of the modules: in-range readings are readings,
`NoReading` is not one, the limit is a positive number, the fault budget a number.

* `TypeCorrect`: `Spec => []TypeOK`. The part that is not a typing statement is that a worker
  past its read has a message of the stream and a working handler a reading.
* `TerminalIsFinalHolds`: from `RecordsMoveForward`, which lists what every step may do to a record.
* `SafetyHolds`: `Spec => [](TypeOK /\ SafetyInv)`, and from it `PublishedIsDurableHolds`,
  `AcknowledgedIsTerminalHolds`, `NoStrandedWorkHolds`, `OneJobPerExceptionHolds`,
  `OneModelCallAtATimeHolds`, `ExhaustionIsEarnedHolds`, `RefusalIsVisibleHolds`, `OneOutcomeHolds`.

The safety properties are not inductive alone. `OneJobPerException` holds because at most one
handler is ever in the publish window of an exception, and while it is about to publish no job
exists (`PublicationInv`); that in turn needs that a record in the window or in the stream is past
RECEIVED, so that the compare-and-set cannot succeed again. `AcknowledgedIsTerminal` needs that a
worker at `ack` has a terminal record (`AcknowledgementInv`), and uses `PublicationInv` for the
branch of `process` that acknowledges a missing record: it is never taken without a reset.
`NoStrandedWork` needs that PROCESSING work has a message and that QUEUED work has one or a
publisher (`WorkInv`). `OneModelCallAtATime` needs that a record is not QUEUED while a worker is in
the model section (`CallerInv`). `ExhaustionIsEarned` needs that the count in a worker's hands is
never ahead of the queue's (`DeliveryInv`), though it may be behind.

The reset breaks most of this: after a TRUNCATE there are several jobs of one identity, two model
calls at once, and a worker may acknowledge a job whose record has just been created anew.
`ResetInv` is what is left. Until the TRUNCATE it is `SafetyInv`; from then on it says that unfinished
work that is not forfeit has a publisher or a `Steady` job, one that no worker is about to acknowledge.
That is inductive because a worker decides to acknowledge only at a moment when the record is absent
or terminal, so that no steady job of unfinished work is ever decided on; and a publisher leaves its
window with a new job that nobody holds, a failed record, or a 500. From it follow
`ResetLosesOnlyWhatItOverlapsHolds`, `ResetKeepsOneOutcome` and `ResetNeverRewrites`, for any number of
handlers, workers and deliveries. A job that is only in a worker's hands at the FLUSHDB costs nothing,
nor does a publisher that was stopped before the TRUNCATE.

`AttemptProofs` goes on from there to the number of model calls. `OrdinalInv` says that no two workers
hold the same delivery of a message, that the ordinal of a delivery is at most the queue's count and,
once it was read, the worker's own (an entry acknowledged meanwhile reads as 1, but then the record is
terminal), and that a delivery not yet started has made no attempt. `AttemptInv` says that while a
record is QUEUED every attempt was a delivery below the limit, since only such a one may bring it
back, and that with a caller, or after one was lost, there is one more at most. From them follow
`ModelCallsBoundedHolds` and `PipelineImplementsLifecycle`: an attempt adds exactly one to the count
that `ExceptionLifecycle` keeps, and there is room for it.

`IdempotentWriteProofs` does the same for the idempotent write, for every set of keys, documents
and handlers and every positive number of claim attempts; it assumes besides only that `NoDocument`
is not a document. `WriteInvHolds` is the inductive invariant. Its first half (`OwnershipInv`) says
that a handler between winning and giving up a key has that key's row in flight and is alone with it:
`OneOwnerPerKey` alone is not inductive, since nothing in it stops an insertion while an owner is
at work. Its second half (`RecordInv`) says that what an owner is about to record, and what is on
record, was stored under the same key. From it follow `OneOwnerPerKeyHolds`,
`ReplyIsRecordedHolds`, `AnswerIsOwnWriteHolds`, `NoOrphanedClaimHolds` and
`ImplementsWriteOnceHolds`, the refinement: each step of the detailed specification stores one
document, answers one key, or changes nothing the client sees.

`CorpusIngestionProofs` proves the ingestion for every set of documents, releases, submissions,
loaders and handlers, from the shape of a release and of a submission (`CorpusAssumption`,
`SubmissionAssumption`), that `Absent` is no document, row or release, and that identifiers are
ordered (`KnowledgeAssumption`). `IngestInv` adds to the types and the three invariants what they need
to be inductive: `KeysHeld`, that no two transactions that have written hold one document and that
what a create will commit is still absent, without which a create could replace and
`WritesAreExclusive` fail; and `LoadsChecked`, that a load past a check still satisfies it, since
a release is immutable while the objects are not. From it follow `StoreAlwaysWhole`,
`CustodyAlwaysChecked`, `WritesAlwaysExclusive`, `CreateNeverReplacesHolds` and
`IngestionImplementsCatalogue`: a committed load is one `Install` of an accepted release, a committed
create one `Create`, and nothing else is seen.

`KnowledgeProofs` builds on it. `ConstraintIsReadability` is the algebra of the access rules: for
every caller and every label, the clause of the composed constraint is `Readable`, though neither
is defined by the other. `SearchesOnlyRead` is the refinement `KnowledgeSpec => Spec`, which
lifts the theorems on the store to the store under searches (`SearchedStoreWhole`). `KnowledgeInv` is
the inductive invariant of any number of searches and writers: `IngestInv`; that the store is finite,
without which an arm has no best row; and of each search what it holds and has shown. `SearchReads`
says that every row of it is one its caller may read, checked as it was read and carried unchanged
(`ResultsAlwaysReadable`). `EvidenceOf` says that its answer is the response to its own request from
two arms, each well formed but perhaps read from different stores. `QuietOf` says of a search that no
writer overtook that both arms, and the pool, are what the same statements would return now.

What an answer then guarantees is a matter of the operators alone. `FusedOrders` and `Ranking` say
that the score with its tie-break is a strict total order and that fusion returns its first `topK`
candidates, ranked 1, 2, 3 without a gap: `EvidenceAlwaysAccounts` follows, and with
`DominatesOutscores`, which compares the sums of weighted reciprocal ranks as fractions,
`FusionAlwaysOrders`. `ArmsFetch` says that a row its caller may fetch is missing from the dense arm
only when the arm is full: `QuietAlwaysOneStore` and `MissAlwaysAttributed`. `ContextAlwaysFits` rests
on `SelectionFits` and on the sum of the words of what precedes a block.

`RankingProofs` holds the lemmas these need, about finite sets and nothing of the program: a finite set
has a least element in a numbering; the places of a strict total order are 1 to n, each taken once;
a sum over a set does not depend on the order it is taken in; spending a budget in order. Each is an
induction, and the library's induction theorems take an operator, which the provers cannot
instantiate; a minimal counterexample, in a family of sets or a set of numbers, takes its place.

`ReadingCodecProofs` proves the encoding for every limit and every effect of redaction on the length
of a context. `CodecInv` says that row and job hold one encoding of the submitted reading, that it
passed validation and the range test before it was stored, and that an error is always that the column
refuses it or that it does not decode; `AcceptedAlwaysRoundTrips` and `LosslessAlwaysServed` follow by the encoding of single numbers.

`StackStartupProofs` proves the startup for any number of overlapping initializers and any positive
number of attempts (`AttemptsAssumption`). `RunInv` says what a run may rely on at each of its
points: the files before its own are applied, the group was created once it is past it, its artifacts are
in the bucket unless the store was lost since it began. `SchemaMatchesVersion` alone is not
inductive: stamping the baseline is right only because the run that does it has seen the other
files applied.

The layout: lemmas on each operation of the tables and of the queue; lemmas on what a step of an
actor may do, in the terms of the invariants; one preservation lemma for each part; the theorems.
Only model-checked: all liveness (`PublishedWorkFinishes`, `PendingListDrains`, `AcceptedWorkFinishes`,
`RequestsAreAnswered`, `RunsEnd`, `LossIsNoticed`), since ENABLED and fairness are outside the prover's
reach; and the four statements of section 5, which are refuted. Every invariant, action property and
refinement of a passing run is a theorem.

## 7. What is left out, and why

* The runtime bindings forward one call each and the settings are read once; health files, logs,
  spans, metrics and gauges are written and never read back. The keep-or-revert policy of the
  evaluation compares two numbers.
* Scores are exact fractions, where the code uses floating point: two candidates whose scores differ
  by less than the rounding may be ordered otherwise. One order of identifiers stands for the
  collation of PostgreSQL and the sorting of Python.
* The query is fixed, so that the embedding is a distance and the text search a relevance per text; a
  title counts among the terms of its text. Chunking is a sequence of slices, not their words.
* A load takes the keys of all its documents in one step. PostgreSQL takes them row by row, and ends
  one of two loads that wait for each other with an error, which is `LoadFails`.
* Numbers of a reading are five finite values, the infinities and NaN; a text is its length and whether
  and where it holds U+0000.
* 004's insertion of the baseline revision is one atomic step: its `WHERE NOT EXISTS` and an `alembic
  upgrade` that commits within the same statement are not interleaved.
* The listing readiness asks for is one call: the two artifacts fit one page.
* XAUTOCLAIM examines a bounded number of pending entries in one call (ten for COUNT 1), so
  with many fresh entries ahead a stale one is found some calls later; the model finds it at once.
* The consumer that owns a pending entry, since no command the adapter sends depends on it.
* In the pipeline modules redaction happens before the first step. A gauge refresh of the worker
  matters only when it raises: `DeliveryError`.
* The deterministic model provider is a function with a delay: `ModelAnswers` takes either outcome.
* Timestamps; and, in the pipeline modules, whether a stored row can be decoded (`ReadingCodec`).
