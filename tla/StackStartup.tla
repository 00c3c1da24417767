------------------------------ MODULE StackStartup ------------------------------
(***************************************************************************)
(* Bringing the stack up: the one-shot initializer applies the schema, the  *)
(* consumer group, the bucket, the corpus artifacts and the migration; the  *)
(* API container waits for it and answers readiness probes.  Initializers   *)
(* may run twice, together, and stop anywhere; the object store keeps       *)
(* nothing across a restart; an operator may migrate down, or flush Redis.  *)
(***************************************************************************)
EXTENDS Naturals, Sequences

CONSTANTS
    Initializers,   \* runs of api.initialize that may overlap
    Attempts        \* OBJECT_STORE_ATTEMPTS

ASSUME AttemptsAssumption == Attempts \in Nat \ {0}

VARIABLES
    schema,     \* PostgreSQL: SQL files applied, alembic revision, the migrated column
    group,      \* Redis: the consumer group was not created yet, exists, or was flushed away
    store,      \* object storage: it answers, the bucket exists, the keys in it
    run,        \* the initializers
    api,        \* the API container: [pc, probe, ready]
    rolledBack  \* ghost: an operator migrated down after the last migration
vars == <<schema, group, store, run, api, rolledBack>>

SchemaFiles == <<"exceptions", "corpus", "idempotency", "baseline">>
CorpusFiles == <<"documents", "provenance">>
Revisions == {"none", "0001baseline", "c0d895eb5c59"}

RunPC == {"idle", "schema", "group", "head", "create", "upload", "read", "upgrade", "completed", "failed"}

RunState == [pc : RunPC, next : 1..5, attempt : 0..Attempts, seen : Revisions, lost : BOOLEAN]

StartTypeOK ==
    /\ schema \in [files : SUBSET (1..4), version : Revisions, column : BOOLEAN]
    /\ group \in {"absent", "exists", "flushed"}
    /\ store \in [up : BOOLEAN, bucket : BOOLEAN, objects : SUBSET (1..2)]
    /\ run \in [Initializers -> RunState]
    /\ api \in [pc : {"created", "serving", "stopped"}, probe : {"none", "database", "corpus", "redis", "objects"},
                found : BOOLEAN, ready : BOOLEAN]
    /\ rolledBack \in BOOLEAN

NewRun(pc) == [pc |-> pc, next |-> 1, attempt |-> 0, seen |-> "none", lost |-> FALSE]

Init ==
    /\ schema = [files |-> {}, version |-> "none", column |-> FALSE]
    /\ group = "absent"
    /\ store = [up |-> FALSE, bucket |-> FALSE, objects |-> {}]
    /\ run = [p \in Initializers |-> NewRun("idle")]
    /\ api = [pc |-> "created", probe |-> "none", found |-> FALSE, ready |-> FALSE]
    /\ rolledBack = FALSE

-----------------------------------------------------------------------------
\* A run ends: only what it promised is remembered of one that completed.
Failed(p) == run' = [run EXCEPT ![p] = NewRun("failed")]
Completed(p) == run' = [run EXCEPT ![p] = [NewRun("completed") EXCEPT !.lost = run[p].lost]]

Start(p) ==
    /\ run[p].pc \in {"idle", "completed", "failed"}
    /\ run' = [run EXCEPT ![p] = NewRun("schema")]
    /\ UNCHANGED <<schema, group, store, api, rolledBack>>

\* Mutant of Stamped: every start stamps the baseline.
StampedAlways(version) == "0001baseline"

\* 004: the baseline is inserted only into an empty version table.
Stamped(version) == IF version = "none" THEN "0001baseline" ELSE version

\* One SQL file, one implicit transaction.
ApplySchema(p) ==
    /\ run[p].pc = "schema"
    /\ LET file == run[p].next IN
       /\ schema' = [schema EXCEPT !.files = @ \cup {file},
                                   !.version = IF SchemaFiles[file] = "baseline" THEN Stamped(@) ELSE @]
       /\ run' = [run EXCEPT ![p].pc = IF file = Len(SchemaFiles) THEN "group" ELSE "schema",
                             ![p].next = IF file = Len(SchemaFiles) THEN 1 ELSE file + 1]
    /\ UNCHANGED <<group, store, api, rolledBack>>

\* XGROUP CREATE MKSTREAM; BUSYGROUP is success.
CreateGroup(p) ==
    /\ run[p].pc = "group"
    /\ group' = "exists"
    /\ run' = [run EXCEPT ![p].pc = "head"]
    /\ UNCHANGED <<schema, store, api, rolledBack>>

\* ensure_bucket returned: the wait is over, and its count with it.
BucketReady(p) == run' = [run EXCEPT ![p].pc = "upload", ![p].attempt = 0]

HeadBucket(p) ==
    /\ run[p].pc = "head"
    /\ store.up
    /\ \/ store.bucket /\ BucketReady(p)
       \/ ~store.bucket /\ run' = [run EXCEPT ![p].pc = "create"]
    /\ UNCHANGED <<schema, group, store, api, rolledBack>>

\* A bucket that another initializer created in between is success.
CreateBucket(p) ==
    /\ run[p].pc = "create"
    /\ store.up
    /\ store' = [store EXCEPT !.bucket = TRUE]
    /\ BucketReady(p)
    /\ UNCHANGED <<schema, group, api, rolledBack>>

\* Mutant of BucketUnavailable: the attempts are counted per call, not per wait.
BucketUnavailableForgets(p) ==
    /\ run[p].pc \in {"head", "create"}
    /\ run' = [run EXCEPT ![p].pc = IF run[p].pc = "head" THEN "create" ELSE "head"]
    /\ UNCHANGED <<schema, group, store, api, rolledBack>>

\* Object storage is down or rejects a call: the wait is retried a bounded number of times.
BucketUnavailable(p) ==
    /\ run[p].pc \in {"head", "create"}
    /\ IF run[p].attempt + 1 < Attempts
       THEN run' = [run EXCEPT ![p].pc = "head", ![p].attempt = @ + 1]
       ELSE Failed(p)
    /\ UNCHANGED <<schema, group, store, api, rolledBack>>

\* Mutant of Upload: the second artifact is not waited for.
UploadFirstOnly(p) ==
    /\ run[p].pc = "upload"
    /\ store.up /\ store.bucket
    /\ store' = [store EXCEPT !.objects = @ \cup {run[p].next}]
    /\ run' = [run EXCEPT ![p].pc = "read"]
    /\ UNCHANGED <<schema, group, api, rolledBack>>

Upload(p) ==
    /\ run[p].pc = "upload"
    /\ store.up /\ store.bucket
    /\ store' = [store EXCEPT !.objects = @ \cup {run[p].next}]
    /\ run' = [run EXCEPT ![p].pc = IF run[p].next = Len(CorpusFiles) THEN "read" ELSE "upload",
                          ![p].next = @ + 1]
    /\ UNCHANGED <<schema, group, api, rolledBack>>

\* alembic upgrade head reads the revision in the transaction it migrates in.
ReadRevision(p) ==
    /\ run[p].pc = "read"
    /\ \/ schema.version = "c0d895eb5c59" /\ Completed(p)
       \/ /\ schema.version # "c0d895eb5c59"
          /\ run' = [run EXCEPT ![p].pc = "upgrade", ![p].seen = schema.version]
    /\ UNCHANGED <<schema, group, store, api, rolledBack>>

\* Mutant of Upgrade: the column is committed without the revision.
UpgradeUnstamped(p) ==
    /\ run[p].pc = "upgrade"
    /\ schema' = [schema EXCEPT !.column = TRUE]
    /\ Completed(p)
    /\ UNCHANGED <<group, store, api, rolledBack>>

\* The column, its constraint and the new revision commit together.  Another process that
\* migrated since makes ADD COLUMN, or the revision's UPDATE, fail.
Upgrade(p) ==
    /\ run[p].pc = "upgrade"
    /\ \/ /\ ~schema.column /\ schema.version = run[p].seen
          /\ schema' = [schema EXCEPT !.column = TRUE, !.version = "c0d895eb5c59"]
          /\ Completed(p)
          /\ rolledBack' = FALSE
       \/ /\ schema.column \/ schema.version # run[p].seen
          /\ Failed(p)
          /\ UNCHANGED <<schema, rolledBack>>
    /\ UNCHANGED <<group, store, api>>

\* A call of the run fails, two CREATE ... IF NOT EXISTS collide, or the process is killed.
RunFails(p) ==
    /\ run[p].pc \notin {"idle", "completed", "failed"}
    /\ Failed(p)
    /\ UNCHANGED <<schema, group, store, api, rolledBack>>

-----------------------------------------------------------------------------
\* PERSISTENCE is 0.
StoreStarts ==
    /\ ~store.up
    /\ store' = [up |-> TRUE, bucket |-> FALSE, objects |-> {}]
    /\ UNCHANGED <<schema, group, run, api, rolledBack>>

StoreStops ==
    /\ store.up
    /\ store' = [up |-> FALSE, bucket |-> FALSE, objects |-> {}]
    /\ run' = [p \in Initializers |-> [run[p] EXCEPT !.lost = @ \/ run[p].pc \notin {"idle", "failed"}]]
    /\ UNCHANGED <<schema, group, api, rolledBack>>

\* poe migrate-down, inside the running API container: one revision back, in one transaction.
Downgrade ==
    /\ api.pc = "serving"
    /\ schema.version # "none"
    /\ schema' = [schema EXCEPT !.column = FALSE,
                                !.version = IF @ = "c0d895eb5c59" THEN "0001baseline" ELSE "none"]
    /\ rolledBack' = TRUE
    /\ UNCHANGED <<group, store, run, api>>

\* poe reset-baseline, while anything runs: FLUSHDB, once the TRUNCATE before it found its table,
\* takes the stream and the group with it.  A worker creates them again when it starts.
FlushDb ==
    /\ 1 \in schema.files
    /\ group = "exists" /\ group' = "flushed"
    /\ UNCHANGED <<schema, store, run, api, rolledBack>>

\* The worker's container also waits for a completed run once, and restarts on its own.
WorkerStarts ==
    /\ api.pc # "created" \/ \E p \in Initializers : run[p].pc = "completed"
    /\ group = "flushed" /\ group' = "exists"
    /\ UNCHANGED <<schema, store, run, api, rolledBack>>

-----------------------------------------------------------------------------
ApiAt(pc) == api' = [pc |-> pc, probe |-> "none", found |-> FALSE, ready |-> FALSE]

\* Mutant of CreateApi: the container starts beside the initializer.
CreateApiUnordered ==
    /\ api.pc = "created"
    /\ ApiAt("serving")
    /\ UNCHANGED <<schema, group, store, run, rolledBack>>

\* depends_on: service_completed_successfully.
CreateApi ==
    /\ api.pc = "created"
    /\ \E p \in Initializers : run[p].pc = "completed"
    /\ ApiAt("serving")
    /\ UNCHANGED <<schema, group, store, run, rolledBack>>

\* restart: unless-stopped, which waits for no initializer.
ApiStops == api.pc = "serving" /\ ApiAt("stopped") /\ UNCHANGED <<schema, group, store, run, rolledBack>>
ApiRestarts == api.pc = "stopped" /\ ApiAt("serving") /\ UNCHANGED <<schema, group, store, run, rolledBack>>

StartProbe ==
    /\ api.pc = "serving" /\ api.probe = "none"
    /\ api' = [api EXCEPT !.probe = "database"]
    /\ UNCHANGED <<schema, group, store, run, rolledBack>>

\* One answer of /health/ready; what the probe found on the way goes with it.
Answered(ready) == api' = [api EXCEPT !.probe = "none", !.found = FALSE, !.ready = ready]
NotReady == Answered(FALSE)

\* Mutant of AskObjects: an object store that raises is left out of the answer.
AskObjectsIgnored ==
    /\ api.probe = "objects"
    /\ Answered(api.found)
    /\ UNCHANGED <<schema, group, store, run, rolledBack>>

\* list_keys raises without a bucket; the three answers are taken together at the end.
AskObjects ==
    /\ api.probe = "objects"
    /\ \/ store.up /\ store.bucket /\ Answered(api.found)
       \/ ~(store.up /\ store.bucket) /\ NotReady
    /\ UNCHANGED <<schema, group, store, run, rolledBack>>

\* SELECT 1, to_regclass('public.chunks') and PING, each a call of its own that may raise.
AskDatabase ==
    /\ api.probe \in {"database", "corpus", "redis"}
    /\ \/ api' = [api EXCEPT
              !.probe = CASE api.probe = "database" -> "corpus"
                          [] api.probe = "corpus" -> "redis"
                          [] api.probe = "redis" -> "objects",
              !.found = IF api.probe = "corpus" THEN 2 \in schema.files ELSE @]
       \/ NotReady
    /\ UNCHANGED <<schema, group, store, run, rolledBack>>

-----------------------------------------------------------------------------
RunStep(p) ==
    \/ ApplySchema(p) \/ CreateGroup(p) \/ HeadBucket(p) \/ CreateBucket(p) \/ BucketUnavailable(p)
    \/ Upload(p) \/ ReadRevision(p) \/ Upgrade(p) \/ RunFails(p)

Probe == StartProbe \/ AskDatabase \/ AskObjects

Next ==
    \/ \E p \in Initializers : Start(p) \/ RunStep(p)
    \/ StoreStarts \/ StoreStops \/ Downgrade \/ FlushDb \/ WorkerStarts
    \/ CreateApi \/ ApiStops \/ ApiRestarts \/ Probe

Spec == Init /\ [][Next]_vars

\* A run executes whatever was started; Compose starts a container whose condition holds and
\* restarts the API; the healthcheck probes for ever, and its calls end.
FairSpec ==
    /\ Spec
    /\ \A p \in Initializers : WF_vars(RunStep(p))
    /\ WF_vars(CreateApi) /\ WF_vars(ApiRestarts) /\ WF_vars(Probe)

-----------------------------------------------------------------------------
(* Safety: the revision table never lies about the schema, whatever initializers overlap or  *)
(* stop and whoever migrates down: the migrated column is there exactly at its revision, and *)
(* a stamped database has all the tables (initialize.py:59, :89; migration c0d895eb5c59).    *)
SchemaMatchesVersion ==
    /\ schema.column <=> schema.version = "c0d895eb5c59"
    /\ schema.version # "none" => schema.files = 1..4

(* Action property: no start rewinds the revision; only an operator does (004_migration_     *)
(* baseline.sql:13: "keeps its own revision instead of being silently rewound").             *)
Rank(version) == CASE version = "none" -> 0 [] version = "0001baseline" -> 1 [] version = "c0d895eb5c59" -> 2
VersionNeverRewound == [][Rank(schema'.version) >= Rank(schema.version) \/ Downgrade]_vars

(* Safety: the API never serves against a schema older than the code, unless an operator     *)
(* migrated down since (initialize.py:79), nor before its consumer group was created, which   *)
(* afterwards is missing only between an operator's FLUSHDB and the next start of a worker    *)
(* or an initializer; although a container that restarts waits for no initializer and         *)
(* another one may be half way.                                                              *)
ServedSchemaCurrent ==
    api.pc # "created" =>
        /\ schema.column \/ rolledBack
        /\ schema.files = 1..4
        /\ group \in {"exists", "flushed"}

(* Safety: a run that completed leaves the bucket with both artifacts, whatever other runs   *)
(* did, unless the object store restarted since it began (initialize.py:92).                 *)
CompletedRunProvisioned ==
    \A p \in Initializers :
        run[p].pc = "completed" /\ ~run[p].lost => store.up /\ store.bucket /\ store.objects = 1..2

(* The strengthening that carries the proofs: what an initializer may rely on at each point  *)
(* of its run, whatever the other ones, the object store and the operator have done since.   *)
RunInv(p) ==
    LET at == run[p].pc IN
    /\ at = "schema" => run[p].next \in 1..4 /\ 1..(run[p].next - 1) \subseteq schema.files
    /\ at \in {"group", "head", "create"} => run[p].next = 1
    /\ at = "upload" => run[p].next \in 1..2
    /\ at \notin {"idle", "schema", "failed"} => schema.files = 1..4
    /\ at \notin {"idle", "schema", "group", "failed"} => group # "absent"
    /\ at \in {"schema", "group", "head", "create"} => run[p].attempt < Attempts
    /\ at \in {"upload", "read", "upgrade", "completed"} /\ ~run[p].lost =>
          /\ store.up /\ store.bucket
          /\ 1..(IF at = "upload" THEN run[p].next - 1 ELSE 2) \subseteq store.objects
    /\ at = "completed" => schema.column \/ rolledBack

StartInv ==
    /\ StartTypeOK /\ SchemaMatchesVersion /\ ServedSchemaCurrent
    /\ \A p \in Initializers : RunInv(p)

(* Liveness: a run ends, even when object storage never answers (initialize.py:119).         *)
RunsEnd == \A p \in Initializers : run[p].pc = "schema" ~> run[p].pc \in {"completed", "failed"}

(* Liveness: an API that said ready does not keep saying so while the object store is gone   *)
(* (runtime.py:142).                                                                         *)
LossIsNoticed == [](api.ready /\ ~store.up => <>(store.up \/ ~api.ready))
=============================================================================
