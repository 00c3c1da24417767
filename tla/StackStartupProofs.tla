--------------------------- MODULE StackStartupProofs ---------------------------
(***************************************************************************)
(* Machine-checked theorems about StackStartup, for any number of           *)
(* initializers and of attempts at the object store.                        *)
(***************************************************************************)
EXTENDS StackStartup, TLAPS

-----------------------------------------------------------------------------
\* The two sequences, as the steps below use them.
LEMMA FileCounts ==
    /\ Len(SchemaFiles) = 4 /\ Len(CorpusFiles) = 2
    /\ SchemaFiles[4] = "baseline"
    /\ \A n \in 1..3 : SchemaFiles[n] # "baseline"
BY DEF SchemaFiles, CorpusFiles

LEMMA StampedRevision == \A version \in Revisions : Stamped(version) \in Revisions \ {"none"}
BY DEF Stamped, Revisions

-----------------------------------------------------------------------------
\* The steps of a run keep the strengthened invariant.

LEMMA StartInvInit == Init => StartInv
<1> SUFFICES ASSUME Init PROVE StartInv
  OBVIOUS
<1>1. run = [q \in Initializers |-> NewRun("idle")]  BY DEF Init
<1>2. NewRun("idle") \in RunState
  <2>1. 0 \in 0..Attempts /\ 1 \in 1..5  BY AttemptsAssumption
  <2> QED BY <2>1 DEF NewRun, RunState, RunPC, Revisions
<1>3. \A q \in Initializers : run[q].pc = "idle"  BY <1>1 DEF NewRun
<1>4. StartTypeOK
  <2>1. run \in [Initializers -> RunState]  BY <1>1, <1>2
  <2>2. schema \in [files : SUBSET (1..4), version : Revisions, column : BOOLEAN]  BY DEF Init, Revisions
  <2>3. store \in [up : BOOLEAN, bucket : BOOLEAN, objects : SUBSET (1..2)]  BY DEF Init
  <2> QED BY <2>1, <2>2, <2>3 DEF Init, StartTypeOK
<1>5. SchemaMatchesVersion /\ ServedSchemaCurrent  BY DEF Init, SchemaMatchesVersion, ServedSchemaCurrent
<1>6. \A q \in Initializers : RunInv(q)  BY <1>3 DEF RunInv
<1> QED BY <1>4, <1>5, <1>6 DEF StartInv

\* What a step of one initializer does to the runs.
LEMMA RunMoves ==
    ASSUME run \in [Initializers -> RunState], NEW p \in Initializers, NEW r \in RunState,
           run' = [run EXCEPT ![p] = r]
    PROVE  /\ run' \in [Initializers -> RunState]
           /\ run'[p] = r
           /\ \A q \in Initializers : q # p => run'[q] = run[q]
OBVIOUS

LEMMA StartKeeps ==
    ASSUME StartInv, NEW p \in Initializers, Start(p) PROVE StartInv'
<1> USE AttemptsAssumption DEF StartInv
<1>1. NewRun("schema") \in RunState  BY DEF NewRun, RunState, RunPC, Revisions
<1>2. /\ run' \in [Initializers -> RunState]
      /\ run'[p] = NewRun("schema")
      /\ \A q \in Initializers : q # p => run'[q] = run[q]
  BY <1>1, RunMoves DEF Start, StartTypeOK
<1>3. StartTypeOK'  BY <1>2 DEF Start, StartTypeOK
<1>4. SchemaMatchesVersion' /\ ServedSchemaCurrent'
  BY DEF Start, SchemaMatchesVersion, ServedSchemaCurrent
<1>5. ASSUME NEW q \in Initializers PROVE RunInv(q)'
  <2>1. CASE q = p  BY <1>2, <2>1 DEF Start, NewRun, RunInv
  <2>2. CASE q # p  BY <1>2, <2>2 DEF Start, RunInv
  <2> QED BY <2>1, <2>2
<1> QED BY <1>3, <1>4, <1>5

LEMMA ApplySchemaKeeps ==
    ASSUME StartInv, NEW p \in Initializers, ApplySchema(p) PROVE StartInv'
<1> DEFINE file == run[p].next
           r == [run[p] EXCEPT !.pc = IF file = 4 THEN "group" ELSE "schema",
                               !.next = IF file = 4 THEN 1 ELSE file + 1]
<1> USE AttemptsAssumption DEF StartInv
<1>1. /\ file \in 1..4 /\ 1..(file - 1) \subseteq schema.files
      /\ run[p].attempt < Attempts /\ run[p] \in RunState
  BY DEF ApplySchema, RunInv, StartTypeOK
<1>2. /\ schema' = [files |-> schema.files \cup {file},
                    version |-> IF file = 4 THEN Stamped(schema.version) ELSE schema.version,
                    column |-> schema.column]
      /\ run' = [run EXCEPT ![p] = r]
  <2>1. SchemaFiles[file] = "baseline" <=> file = 4  BY <1>1, FileCounts
  <2>2. schema \in [files : SUBSET (1..4), version : Revisions, column : BOOLEAN]  BY DEF StartTypeOK
  <2>3. schema' = [schema EXCEPT !.files = schema.files \cup {file},
                                 !.version = IF file = 4 THEN Stamped(schema.version) ELSE schema.version]
    BY <2>1, <2>2 DEF ApplySchema
  <2>4. run' = [run EXCEPT ![p] = r]  BY FileCounts DEF ApplySchema, StartTypeOK
  <2> QED BY <2>2, <2>3, <2>4
<1>3. /\ r \in RunState
      /\ r.pc = (IF file = 4 THEN "group" ELSE "schema")
      /\ r.next = (IF file = 4 THEN 1 ELSE file + 1)
      /\ r.attempt = run[p].attempt
  <2>1. (IF file = 4 THEN "group" ELSE "schema") \in RunPC  BY DEF RunPC
  <2>2. (IF file = 4 THEN 1 ELSE file + 1) \in 1..5  BY <1>1
  <2> QED BY <1>1, <2>1, <2>2 DEF RunState
<1> HIDE DEF r
<1>4. /\ run' \in [Initializers -> RunState]
      /\ run'[p] = r
      /\ \A q \in Initializers : q # p => run'[q] = run[q]
  BY <1>2, <1>3, RunMoves DEF StartTypeOK
<1>5. StartTypeOK'
  <2>1. schema.version \in Revisions /\ schema.files \in SUBSET (1..4) /\ schema.column \in BOOLEAN
    BY DEF StartTypeOK
  <2>2. schema' \in [files : SUBSET (1..4), version : Revisions, column : BOOLEAN]
    BY <1>1, <1>2, <2>1, StampedRevision
  <2> QED BY <1>4, <2>2 DEF ApplySchema, StartTypeOK
<1>6. file = 4 => schema'.files = 1..4  BY <1>1, <1>2, <1>5 DEF StartTypeOK
<1>7. SchemaMatchesVersion'
  <2>1. schema.column <=> schema'.version = "c0d895eb5c59"
    BY <1>2 DEF SchemaMatchesVersion, Stamped
  <2>2. schema'.version # "none" => schema'.files = 1..4
    <3>1. CASE file = 4  BY <1>6, <3>1
    <3>2. CASE file # 4  BY <1>1, <1>2, <3>2 DEF SchemaMatchesVersion
    <3> QED BY <3>1, <3>2
  <2> QED BY <1>2, <2>1, <2>2 DEF SchemaMatchesVersion
<1>8. schema.files = 1..4 => schema'.files = 1..4  BY <1>1, <1>2
<1>9. ServedSchemaCurrent'  BY <1>2, <1>8 DEF ApplySchema, ServedSchemaCurrent
<1>10. ASSUME NEW q \in Initializers PROVE RunInv(q)'
  <2>1. CASE q = p
    <3>1. CASE file = 4  BY <1>1, <1>3, <1>4, <1>6, <2>1, <3>1 DEF RunInv
    <3>2. CASE file # 4
      <4>1. file + 1 \in 1..4 /\ 1..((file + 1) - 1) \subseteq schema'.files  BY <1>1, <1>2, <3>2
      <4> HIDE DEF file
      <4> QED BY <1>1, <1>3, <1>4, <2>1, <3>2, <4>1 DEF RunInv
    <3> QED BY <3>1, <3>2
  <2>2. CASE q # p
    <3>1. schema.files \subseteq schema'.files /\ schema'.column = schema.column  BY <1>2
    <3> QED BY <1>4, <1>8, <2>2, <3>1 DEF ApplySchema, RunInv
  <2> QED BY <2>1, <2>2
<1> QED BY <1>5, <1>7, <1>9, <1>10

\* How a run ends.
LEMMA EndedRun ==
    ASSUME StartInv, NEW p \in Initializers
    PROVE  /\ Failed(p) => \E r \in RunState : r.pc = "failed" /\ run' = [run EXCEPT ![p] = r]
           /\ Completed(p) => \E r \in RunState :
                 r.pc = "completed" /\ r.lost = run[p].lost /\ run' = [run EXCEPT ![p] = r]
<1> DEFINE f == NewRun("failed")
           c == [NewRun("completed") EXCEPT !.lost = run[p].lost]
<1>1. 0 \in 0..Attempts /\ 1 \in 1..5  BY AttemptsAssumption
<1>2. run[p].lost \in BOOLEAN  BY DEF StartInv, StartTypeOK, RunState
<1>3. f \in RunState /\ f.pc = "failed"  BY <1>1 DEF NewRun, RunState, RunPC, Revisions
<1>4. c \in RunState /\ c.pc = "completed" /\ c.lost = run[p].lost
  BY <1>1, <1>2 DEF NewRun, RunState, RunPC, Revisions
<1>5. (Failed(p) => run' = [run EXCEPT ![p] = f]) /\ (Completed(p) => run' = [run EXCEPT ![p] = c])
  BY DEF Failed, Completed
<1> HIDE DEF f, c
<1> QED BY <1>3, <1>4, <1>5

\* The steps of a run between the schema and the migration.
LEMMA ProvisionKeeps ==
    ASSUME StartInv, NEW p \in Initializers,
           \/ CreateGroup(p) \/ HeadBucket(p) \/ CreateBucket(p) \/ BucketUnavailable(p) \/ Upload(p)
           \/ ReadRevision(p) \/ RunFails(p)
    PROVE  StartInv'
<1> USE AttemptsAssumption, FileCounts DEF StartInv
<1>0. run[p] \in RunState /\ run[p].attempt \in Nat  BY DEF StartTypeOK, RunState
<1>1. StartTypeOK'
  <2>1. \E r \in RunState : run' = [run EXCEPT ![p] = r]
    <3>1. CASE CreateGroup(p) \/ (HeadBucket(p) /\ ~BucketReady(p))
      <4>1. \A pc \in RunPC : [run[p] EXCEPT !.pc = pc] \in RunState  BY <1>0 DEF RunState
      <4>2. \E pc \in RunPC : run' = [run EXCEPT ![p] = [run[p] EXCEPT !.pc = pc]]
        BY <3>1 DEF CreateGroup, HeadBucket, RunPC
      <4> QED BY <4>1, <4>2
    <3>2. CASE BucketReady(p)
      <4>1. 0 \in 0..Attempts  OBVIOUS
      <4>2. [run[p] EXCEPT !.pc = "upload", !.attempt = 0] \in RunState
        BY <1>0, <4>1 DEF RunState, RunPC
      <4> QED BY <3>2, <4>2 DEF BucketReady
    <3>3. CASE BucketUnavailable(p) /\ ~Failed(p)
      <4>1. run[p].attempt + 1 \in 0..Attempts  BY <1>0, <3>3 DEF BucketUnavailable, RunInv
      <4>2. [run[p] EXCEPT !.pc = "head", !.attempt = run[p].attempt + 1] \in RunState
        BY <1>0, <4>1 DEF RunState, RunPC
      <4> QED BY <3>3, <4>2 DEF BucketUnavailable
    <3>4. CASE Upload(p)
      <4>1. run[p].next + 1 \in 1..5  BY <3>4 DEF Upload, RunInv
      <4>2. \A pc \in RunPC : [run[p] EXCEPT !.pc = pc, !.next = run[p].next + 1] \in RunState
        BY <1>0, <4>1 DEF RunState
      <4>3. \E pc \in RunPC : run' = [run EXCEPT ![p] = [run[p] EXCEPT !.pc = pc, !.next = run[p].next + 1]]
        BY <3>4 DEF Upload, RunPC
      <4> QED BY <4>2, <4>3
    <3>5. CASE ReadRevision(p) /\ ~Completed(p)
      <4>1. [run[p] EXCEPT !.pc = "upgrade", !.seen = schema.version] \in RunState
        BY <1>0 DEF RunState, RunPC, StartTypeOK
      <4> QED BY <3>5, <4>1 DEF ReadRevision
    <3>6. CASE Failed(p) \/ Completed(p)  BY <3>6, EndedRun
    <3> QED BY <3>1, <3>2, <3>3, <3>4, <3>5, <3>6 DEF CreateBucket, RunFails
  <2>2. run' \in [Initializers -> RunState]  BY <2>1 DEF StartTypeOK
  <2>3. group' \in {"absent", "exists", "flushed"} /\ schema' = schema /\ api' = api /\ rolledBack' = rolledBack
    BY DEF CreateGroup, HeadBucket, CreateBucket, BucketReady, BucketUnavailable, Upload, ReadRevision, RunFails,
           Failed, Completed, StartTypeOK
  <2>4. store' \in [up : BOOLEAN, bucket : BOOLEAN, objects : SUBSET (1..2)]
    <3>1. CASE store' = store  BY <3>1 DEF StartTypeOK
    <3>2. CASE CreateBucket(p)  BY <3>2 DEF CreateBucket, StartTypeOK
    <3>3. CASE Upload(p)  BY <3>3 DEF Upload, RunInv, StartTypeOK
    <3> QED BY <3>1, <3>2, <3>3 DEF CreateGroup, HeadBucket, BucketUnavailable, ReadRevision, RunFails
  <2> QED BY <2>2, <2>3, <2>4 DEF StartTypeOK
<1>2. SchemaMatchesVersion' /\ ServedSchemaCurrent'
  BY DEF CreateGroup, HeadBucket, CreateBucket, BucketUnavailable, Upload, ReadRevision, RunFails,
         SchemaMatchesVersion, ServedSchemaCurrent
<1>3. ASSUME NEW q \in Initializers, q # p PROVE RunInv(q)'
  <2>1. run'[q] = run[q]
    BY <1>3 DEF CreateGroup, HeadBucket, CreateBucket, BucketReady, BucketUnavailable, Upload, ReadRevision, RunFails,
           Failed, Completed, StartTypeOK
  <2>2. /\ schema' = schema /\ rolledBack' = rolledBack /\ (group # "absent" => group' # "absent")
        /\ store'.up = store.up /\ (store.bucket => store'.bucket) /\ store.objects \subseteq store'.objects
    BY DEF CreateGroup, HeadBucket, CreateBucket, BucketReady, BucketUnavailable, Upload, ReadRevision, RunFails,
           Failed, Completed, StartTypeOK
  <2> QED BY <2>1, <2>2 DEF RunInv
<1>4. RunInv(p)'
  <2>1. CASE CreateGroup(p)  BY <2>1 DEF CreateGroup, RunInv, StartTypeOK
  <2>2. CASE HeadBucket(p) /\ ~BucketReady(p)
    <3>1. run' = [run EXCEPT ![p].pc = "create"]  BY <2>2 DEF HeadBucket
    <3>2. run'[p].pc = "create" /\ run'[p].next = run[p].next /\ run'[p].attempt = run[p].attempt
      BY <3>1 DEF StartTypeOK, RunState
    <3>3. run[p].pc = "head" /\ UNCHANGED <<schema, group, rolledBack>>  BY <2>2 DEF HeadBucket
    <3>4. run[p].next = 1 /\ schema.files = 1..4 /\ group # "absent" /\ run[p].attempt < Attempts
      BY <3>3 DEF RunInv
    <3> QED BY <3>2, <3>3, <3>4 DEF RunInv
  <2>3. CASE (HeadBucket(p) \/ CreateBucket(p)) /\ BucketReady(p)
    <3>1. run'[p].pc = "upload" /\ run'[p].next = run[p].next
      BY <2>3 DEF BucketReady, StartTypeOK, RunState
    <3>2. /\ run[p].pc \in {"head", "create"} /\ UNCHANGED <<schema, group, rolledBack>>
          /\ store'.up /\ store'.bucket
      <4>1. store \in [up : BOOLEAN, bucket : BOOLEAN, objects : SUBSET (1..2)]  BY DEF StartTypeOK
      <4>2. CASE CreateBucket(p)  BY <4>1, <4>2 DEF CreateBucket
      <4>3. CASE HeadBucket(p)
        <5>1. ~(run' = [run EXCEPT ![p].pc = "create"])
          <6>1. run' = [run EXCEPT ![p].pc = "create"] => run'[p].pc = "create"  BY DEF StartTypeOK, RunState
          <6> QED BY <3>1, <6>1
        <5> QED BY <4>3, <5>1 DEF HeadBucket
      <4> QED BY <2>3, <4>2, <4>3
    <3>3. run[p].next = 1 /\ schema.files = 1..4 /\ group # "absent"  BY <3>2 DEF RunInv
    <3> QED BY <3>1, <3>2, <3>3 DEF RunInv
  <2>4. CASE BucketUnavailable(p) /\ ~Failed(p)
    <3>1. run' = [run EXCEPT ![p].pc = "head", ![p].attempt = run[p].attempt + 1]
      BY <2>4 DEF BucketUnavailable
    <3>2. /\ run'[p].pc = "head" /\ run'[p].next = run[p].next
          /\ run'[p].attempt = run[p].attempt + 1
      BY <3>1 DEF StartTypeOK, RunState
    <3>3. /\ run[p].pc \in {"head", "create"} /\ UNCHANGED <<schema, group, rolledBack>>
          /\ run[p].attempt + 1 < Attempts
      BY <2>4 DEF BucketUnavailable
    <3>4. run[p].next = 1 /\ schema.files = 1..4 /\ group # "absent"  BY <3>3 DEF RunInv
    <3> QED BY <3>2, <3>3, <3>4 DEF RunInv
  <2>5. CASE Upload(p)  BY <2>5 DEF Upload, RunInv, StartTypeOK
  <2>6. CASE ReadRevision(p) /\ ~Completed(p)
    <3>1. run' = [run EXCEPT ![p].pc = "upgrade", ![p].seen = schema.version]
      BY <2>6 DEF ReadRevision
    <3>2. run'[p].pc = "upgrade" /\ run'[p].lost = run[p].lost  BY <3>1 DEF StartTypeOK, RunState
    <3>3. run[p].pc = "read" /\ UNCHANGED <<schema, group, store, rolledBack>>  BY <2>6 DEF ReadRevision
    <3> QED BY <3>2, <3>3 DEF RunInv
  <2>7. CASE ReadRevision(p) /\ Completed(p)
    <3>1. run'[p].pc = "completed" /\ run'[p].lost = run[p].lost  BY <2>7, EndedRun DEF StartTypeOK
    <3>2. run[p].pc = "read" /\ UNCHANGED <<schema, group, store, rolledBack>>  BY <2>7 DEF ReadRevision
    <3>3. schema.column
      <4>1. CASE schema.version = "c0d895eb5c59"  BY <4>1 DEF SchemaMatchesVersion
      <4>2. CASE schema.version # "c0d895eb5c59"
        <5>1. run' = [run EXCEPT ![p].pc = "upgrade", ![p].seen = schema.version]
          BY <2>7, <4>2 DEF ReadRevision
        <5>2. run'[p].pc = "upgrade"  BY <5>1 DEF StartTypeOK, RunState
        <5> QED BY <3>1, <5>2
      <4> QED BY <4>1, <4>2
    <3> QED BY <3>1, <3>2, <3>3 DEF RunInv
  <2>8. CASE Failed(p)
    <3>1. run'[p].pc = "failed"  BY <2>8, EndedRun DEF StartTypeOK
    <3> QED BY <3>1 DEF RunInv
  <2> QED BY <2>1, <2>2, <2>3, <2>4, <2>5, <2>6, <2>7, <2>8 DEF HeadBucket, CreateBucket, RunFails
<1> QED BY <1>1, <1>2, <1>3, <1>4

LEMMA UpgradeKeeps ==
    ASSUME StartInv, NEW p \in Initializers, Upgrade(p) PROVE StartInv'
<1> USE AttemptsAssumption DEF StartInv
<1>0. \E r \in RunState :
         /\ run' = [run EXCEPT ![p] = r]
         /\ \/ r.pc = "failed"
            \/ r.pc = "completed" /\ r.lost = run[p].lost /\ schema'.column
  <2>1. CASE Failed(p)  BY <2>1, EndedRun
  <2>2. CASE Completed(p) /\ schema'.column  BY <2>2, EndedRun
  <2> QED BY <2>1, <2>2 DEF Upgrade, StartTypeOK
<1>1. StartTypeOK'
  <2>2. run' \in [Initializers -> RunState]  BY <1>0 DEF StartTypeOK
  <2>3. schema' \in [files : SUBSET (1..4), version : Revisions, column : BOOLEAN]
    <3>1. CASE schema' = schema  BY <3>1 DEF StartTypeOK
    <3>2. CASE schema' = [schema EXCEPT !.column = TRUE, !.version = "c0d895eb5c59"]
      BY <3>2 DEF StartTypeOK, Revisions
    <3> QED BY <3>1, <3>2 DEF Upgrade
  <2> QED BY <2>2, <2>3 DEF Upgrade, StartTypeOK
<1>2. schema.files = 1..4  BY DEF Upgrade, RunInv
<1>3. /\ schema'.files = schema.files
      /\ (schema.column \/ rolledBack) => (schema'.column \/ rolledBack')
  BY DEF Upgrade, StartTypeOK
<1>4. SchemaMatchesVersion' /\ ServedSchemaCurrent'
  BY <1>2, <1>3 DEF Upgrade, SchemaMatchesVersion, ServedSchemaCurrent, StartTypeOK
<1>5. ASSUME NEW q \in Initializers PROVE RunInv(q)'
  <2>1. CASE q = p
    <3>1. PICK r \in RunState :
             /\ run' = [run EXCEPT ![p] = r]
             /\ \/ r.pc = "failed"
                \/ r.pc = "completed" /\ r.lost = run[p].lost /\ schema'.column
      BY <1>0
    <3>2. run'[p] = r  BY <3>1 DEF StartTypeOK
    <3>3. run[p].pc = "upgrade" /\ store' = store /\ group' = group  BY DEF Upgrade
    <3> QED BY <1>2, <1>3, <2>1, <3>1, <3>2, <3>3 DEF RunInv
  <2>2. CASE q # p
    <3>1. run'[q] = run[q]  BY <1>0, <2>2 DEF StartTypeOK
    <3> QED BY <1>3, <3>1 DEF Upgrade, RunInv
  <2> QED BY <2>1, <2>2
<1> QED BY <1>1, <1>4, <1>5

-----------------------------------------------------------------------------
\* What happens to the object store, to the schema and to the API meanwhile.

LEMMA StoreKeeps ==
    ASSUME StartInv, StoreStarts \/ StoreStops PROVE StartInv'
<1> USE DEF StartInv
<1>1. StartTypeOK'
  <2>1. \A q \in Initializers : \A lost \in BOOLEAN : [run[q] EXCEPT !.lost = lost] \in RunState
    BY DEF StartTypeOK, RunState
  <2>2. run' \in [Initializers -> RunState]
    <3> DEFINE Lost(q) == run[q].lost \/ run[q].pc \notin {"idle", "failed"}
    <3>1. \A q \in Initializers : Lost(q) \in BOOLEAN  BY Zenon
    <3>2. CASE StoreStarts  BY <3>2 DEF StoreStarts, StartTypeOK
    <3>3. CASE StoreStops
      <4>1. run' = [q \in Initializers |-> [run[q] EXCEPT !.lost = Lost(q)]]  BY <3>3 DEF StoreStops
      <4> HIDE DEF Lost
      <4> QED BY <2>1, <3>1, <4>1
    <3> QED BY <3>2, <3>3
  <2>3. store' \in [up : BOOLEAN, bucket : BOOLEAN, objects : SUBSET (1..2)]
    <3>1. \A up \in BOOLEAN : [up |-> up, bucket |-> FALSE, objects |-> {}]
                             \in [up : BOOLEAN, bucket : BOOLEAN, objects : SUBSET (1..2)]
      OBVIOUS
    <3> QED BY <3>1 DEF StoreStarts, StoreStops
  <2> QED BY <2>2, <2>3 DEF StoreStarts, StoreStops, StartTypeOK
<1>2. SchemaMatchesVersion' /\ ServedSchemaCurrent'
  BY DEF StoreStarts, StoreStops, SchemaMatchesVersion, ServedSchemaCurrent
<1>3. ASSUME NEW q \in Initializers PROVE RunInv(q)'
  <2>1. CASE StoreStarts
    <3>1. ~store.up /\ run' = run  BY <2>1 DEF StoreStarts
    <3> QED BY <2>1, <3>1 DEF StoreStarts, RunInv
  <2>2. CASE StoreStops
    <3> DEFINE lost == run[q].lost \/ run[q].pc \notin {"idle", "failed"}
    <3>1. run'[q] = [run[q] EXCEPT !.lost = lost]  BY <2>2 DEF StoreStops
    <3>2. run[q].pc \notin {"idle", "failed"} => lost  OBVIOUS
    <3> HIDE DEF lost
    <3>3. /\ run'[q].pc = run[q].pc /\ run'[q].next = run[q].next /\ run'[q].attempt = run[q].attempt
          /\ run'[q].lost = lost
      BY <3>1 DEF StartTypeOK, RunState
    <3> QED BY <3>3,  <2>2, <3>2 DEF StoreStops, RunInv
  <2> QED BY <2>1, <2>2
<1> QED BY <1>1, <1>2, <1>3

LEMMA DowngradeKeeps ==
    ASSUME StartInv, Downgrade PROVE StartInv'
<1> USE DEF StartInv
<1>1. StartTypeOK'  BY DEF Downgrade, StartTypeOK, Revisions
<1>2. schema'.files = schema.files /\ rolledBack'  BY DEF Downgrade, StartTypeOK
<1>3. SchemaMatchesVersion' /\ ServedSchemaCurrent'
  BY <1>2 DEF Downgrade, SchemaMatchesVersion, ServedSchemaCurrent, StartTypeOK
<1>4. ASSUME NEW q \in Initializers PROVE RunInv(q)'
  BY <1>2 DEF Downgrade, RunInv
<1> QED BY <1>1, <1>3, <1>4

LEMMA FlushKeeps ==
    ASSUME StartInv, FlushDb \/ WorkerStarts PROVE StartInv'
<1>1. /\ UNCHANGED <<schema, store, run, api, rolledBack>>
      /\ group' \in {"exists", "flushed"}
  BY DEF FlushDb, WorkerStarts
<1>2. StartTypeOK'  BY <1>1 DEF StartInv, StartTypeOK
<1>3. SchemaMatchesVersion' /\ ServedSchemaCurrent'
  BY <1>1 DEF StartInv, SchemaMatchesVersion, ServedSchemaCurrent
<1>4. ASSUME NEW q \in Initializers PROVE RunInv(q)'  BY <1>1 DEF StartInv, RunInv
<1> QED BY <1>2, <1>3, <1>4 DEF StartInv

LEMMA ApiKeeps ==
    ASSUME StartInv, CreateApi \/ ApiStops \/ ApiRestarts \/ Probe PROVE StartInv'
<1> USE DEF StartInv
<1>1. /\ schema' = schema /\ group' = group /\ store' = store /\ run' = run /\ rolledBack' = rolledBack
  BY DEF CreateApi, ApiStops, ApiRestarts, Probe, StartProbe, AskDatabase, AskObjects
<1>2. StartTypeOK'
  <2> DEFINE ApiState == [pc : {"created", "serving", "stopped"},
                          probe : {"none", "database", "corpus", "redis", "objects"},
                          found : BOOLEAN, ready : BOOLEAN]
  <2>1. api \in ApiState  BY DEF StartTypeOK
  <2>2. CASE CreateApi \/ ApiStops \/ ApiRestarts
    <3>1. \A pc \in {"serving", "stopped"} :
             [pc |-> pc, probe |-> "none", found |-> FALSE, ready |-> FALSE] \in ApiState
      OBVIOUS
    <3>2. api' \in ApiState  BY <2>2, <3>1 DEF CreateApi, ApiStops, ApiRestarts, ApiAt
    <3> QED BY <1>1, <3>2 DEF StartTypeOK
  <2>3. CASE StartProbe \/ NotReady
    <3>1. api' \in ApiState  BY <2>1, <2>3 DEF StartProbe, NotReady, Answered
    <3> QED BY <1>1, <3>1 DEF StartTypeOK
  <2>4. CASE AskObjects
    <3>1. api.found \in BOOLEAN  BY <2>1
    <3>2. [api EXCEPT !.probe = "none", !.found = FALSE, !.ready = api.found] \in ApiState  BY <2>1, <3>1
    <3>3. api' \in ApiState
      <4>1. CASE NotReady  BY <2>1, <4>1 DEF NotReady, Answered
      <4> QED BY <2>4, <3>2, <4>1 DEF AskObjects, Answered
    <3> QED BY <1>1, <3>3 DEF StartTypeOK
  <2>5. CASE AskDatabase /\ ~NotReady
    <3> DEFINE found == IF api.probe = "corpus" THEN 2 \in schema.files ELSE api.found
    <3>1. found \in BOOLEAN
      <4>1. api.found \in BOOLEAN  BY <2>1
      <4>2. CASE api.probe = "corpus"
        <5>1. found = (2 \in schema.files)  BY <4>2, Zenon
        <5>2. (2 \in schema.files) \in BOOLEAN  BY SMT
        <5> QED BY <5>1, <5>2, Zenon
      <4>3. CASE api.probe # "corpus"  BY <4>1, <4>3, Zenon
      <4> QED BY <4>2, <4>3
    <3>2. api' \in ApiState
      <4>1. CASE api.probe = "database"
        <5>1. api' = [api EXCEPT !.probe = "corpus", !.found = found]  BY <2>5, <4>1 DEF AskDatabase
        <5> HIDE DEF found
        <5> QED BY <2>1, <3>1, <5>1
      <4>2. CASE api.probe = "corpus"
        <5>1. api' = [api EXCEPT !.probe = "redis", !.found = found]  BY <2>5, <4>2 DEF AskDatabase
        <5> HIDE DEF found
        <5> QED BY <2>1, <3>1, <5>1
      <4>3. CASE api.probe = "redis"
        <5>1. api' = [api EXCEPT !.probe = "objects", !.found = found]  BY <2>5, <4>3 DEF AskDatabase
        <5> HIDE DEF found
        <5> QED BY <2>1, <3>1, <5>1
      <4> QED BY <2>5, <4>1, <4>2, <4>3 DEF AskDatabase
    <3> QED BY <1>1, <3>2 DEF StartTypeOK
  <2> QED BY <2>2, <2>3, <2>4, <2>5 DEF Probe
<1>3. SchemaMatchesVersion'  BY <1>1 DEF SchemaMatchesVersion
<1>4. ServedSchemaCurrent'
  <2>1. CASE CreateApi
    <3>1. PICK p \in Initializers : run[p].pc = "completed"  BY <2>1 DEF CreateApi
    <3>2. group # "absent" /\ (schema.column \/ rolledBack) /\ schema.files = 1..4  BY <3>1 DEF RunInv
    <3> QED BY <1>1, <3>2 DEF ServedSchemaCurrent, StartTypeOK
  <2>2. CASE ApiStops \/ ApiRestarts \/ Probe
    <3>1. CASE ApiStops \/ ApiRestarts
      BY <1>1, <3>1 DEF ApiStops, ApiRestarts, ServedSchemaCurrent
    <3>2. CASE Probe
      <4>1. api'.pc = api.pc
        BY <3>2 DEF Probe, StartProbe, AskDatabase, AskObjects, NotReady, Answered, StartTypeOK
      <4> QED BY <1>1, <4>1 DEF ServedSchemaCurrent
    <3> QED BY <2>2, <3>1, <3>2
  <2> QED BY <2>1, <2>2
<1>5. ASSUME NEW q \in Initializers PROVE RunInv(q)'  BY <1>1 DEF RunInv
<1> QED BY <1>2, <1>3, <1>4, <1>5

-----------------------------------------------------------------------------
\* The theorems.

LEMMA StartInvStep == StartInv /\ [Next]_vars => StartInv'
<1> SUFFICES ASSUME StartInv, [Next]_vars PROVE StartInv'
  OBVIOUS
<1>1. CASE UNCHANGED vars
  BY <1>1 DEF vars, StartInv, StartTypeOK, SchemaMatchesVersion, ServedSchemaCurrent, RunInv
<1>2. ASSUME NEW p \in Initializers, Start(p) \/ RunStep(p) PROVE StartInv'
  BY <1>2, StartKeeps, ApplySchemaKeeps, ProvisionKeeps, UpgradeKeeps DEF RunStep
<1>3. CASE StoreStarts \/ StoreStops  BY <1>3, StoreKeeps
<1>4. CASE Downgrade \/ FlushDb \/ WorkerStarts  BY <1>4, DowngradeKeeps, FlushKeeps
<1>5. CASE CreateApi \/ ApiStops \/ ApiRestarts \/ Probe  BY <1>5, ApiKeeps
<1> QED BY <1>1, <1>2, <1>3, <1>4, <1>5 DEF Next

(* The strengthened invariant holds for any number of initializers that overlap, stop and    *)
(* are started again, while the object store restarts and an operator migrates down          *)
(* (initialize.py:139).                                                                      *)
THEOREM StartInvHolds == Spec => []StartInv
BY StartInvInit, StartInvStep, PTL DEF Spec

(* Every variable of the startup keeps its type; in particular the attempts at the bucket    *)
(* never exceed their limit (initialize.py:119).                                             *)
THEOREM StartTypeCorrect == Spec => []StartTypeOK
<1>1. StartInv => StartTypeOK  BY DEF StartInv
<1> QED BY <1>1, StartInvHolds, PTL

(* The revision table never lies about the schema (initialize.py:59).                        *)
THEOREM SchemaAlwaysMatchesVersion == Spec => []SchemaMatchesVersion
<1>1. StartInv => SchemaMatchesVersion  BY DEF StartInv
<1> QED BY <1>1, StartInvHolds, PTL

(* The API serves only against a schema that an initializer completed or an operator moved   *)
(* down, and its consumer group is missing only after a FLUSHDB (initialize.py:79,           *)
(* pyproject.toml:209).                                                                      *)
THEOREM ServedSchemaAlwaysCurrent == Spec => []ServedSchemaCurrent
<1>1. StartInv => ServedSchemaCurrent  BY DEF StartInv
<1> QED BY <1>1, StartInvHolds, PTL

(* A run that completed leaves both artifacts in the bucket (initialize.py:92).              *)
THEOREM CompletedRunAlwaysProvisioned == Spec => []CompletedRunProvisioned
<1>1. StartInv => CompletedRunProvisioned
  <2> SUFFICES ASSUME StartInv, NEW p \in Initializers, run[p].pc = "completed", ~run[p].lost
               PROVE  store.up /\ store.bucket /\ store.objects = 1..2
    BY DEF CompletedRunProvisioned
  <2>1. store.up /\ store.bucket /\ 1..2 \subseteq store.objects  BY DEF StartInv, RunInv
  <2>2. store.objects \in SUBSET (1..2)  BY DEF StartInv, StartTypeOK
  <2> QED BY <2>1, <2>2
<1> QED BY <1>1, StartInvHolds, PTL

(* No start of the stack rewinds the revision (004_migration_baseline.sql:13).               *)
THEOREM RevisionNeverRewound == Spec => VersionNeverRewound
<1>1. StartInv /\ [Next]_vars => [Rank(schema'.version) >= Rank(schema.version) \/ Downgrade]_vars
  <2> SUFFICES ASSUME StartInv, [Next]_vars, ~Downgrade
               PROVE  Rank(schema'.version) >= Rank(schema.version)
    OBVIOUS
  <2>1. schema.version \in Revisions /\ Rank(schema.version) \in {0, 1, 2}
    BY DEF StartInv, StartTypeOK, Revisions, Rank
  <2>2. CASE schema'.version = schema.version  BY <2>1, <2>2
  <2>3. CASE schema'.version # schema.version
    <3>1. \/ \E p \in Initializers : ApplySchema(p) \/ Upgrade(p)
          \/ schema' = schema
      BY DEF vars, Next, Start, RunStep, CreateGroup, HeadBucket, CreateBucket, BucketUnavailable, Upload,
             ReadRevision, RunFails, StoreStarts, StoreStops, FlushDb, WorkerStarts, CreateApi, ApiStops, ApiRestarts, Probe,
             StartProbe, AskDatabase, AskObjects
    <3>2. PICK p \in Initializers : ApplySchema(p) \/ Upgrade(p)  BY <2>3, <3>1
    <3>3. schema'.version = Stamped(schema.version) \/ schema'.version = "c0d895eb5c59"
      BY <2>3, <3>2 DEF ApplySchema, Upgrade, StartInv, StartTypeOK
    <3>4. CASE schema'.version = "c0d895eb5c59"
      <4>1. Rank("c0d895eb5c59") = 2  BY DEF Rank
      <4> QED BY <2>1, <3>4, <4>1
    <3>5. CASE schema'.version = Stamped(schema.version)
      <4>1. schema.version = "none" /\ schema'.version = "0001baseline"  BY <2>3, <3>5 DEF Stamped
      <4> QED BY <4>1 DEF Rank
    <3> QED BY <3>3, <3>4, <3>5
  <2> QED BY <2>2, <2>3
<1> QED BY <1>1, StartInvHolds, PTL DEF Spec, VersionNeverRewound
=============================================================================
