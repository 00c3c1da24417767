----------------------------- MODULE ExceptionWorker -----------------------------
(***************************************************************************)
(* worker/runtime.py's run_loop and WorkerApplication.process.  pc names   *)
(* the await a worker is suspended at.  A worker holds the delivery of one *)
(* message m, with the count the queue reported for it; ordinal is a ghost *)
(* that numbers the delivery among the deliveries of m.                    *)
(***************************************************************************)
EXTENDS ExceptionRepository, JobQueue

CONSTANTS Workers, MaxFaults

ASSUME FaultsAssumption == MaxFaults \in Nat

VARIABLES
    worker,     \* the workers
    attempts,   \* ghost: the deliveries of each exception that reached the model call
    faults      \* failures injected so far, at most MaxFaults
workerVars == <<worker, attempts, faults>>

WorkerPC == {"down", "claim", "read", "count", "get", "exhausting", "start", "model",
             "completing", "failing", "requeue", "ack"}

\* Where a worker holds no delivery.
Unburdened == {"down", "claim", "read"}

\* From the PROCESSING transition to the transition that records the model's answer.
ModelSection == {"model", "completing", "failing", "requeue"}

WorkerState == [pc : WorkerPC, m : Nat, ordinal : Nat, count : Nat]

WorkerTypeOK ==
    /\ worker \in [Workers -> WorkerState]
    /\ \A w \in Workers : worker[w].pc \notin Unburdened => worker[w].m \in Messages
    /\ attempts \in [ExceptionIds -> SUBSET Nat]
    /\ faults \in 0..MaxFaults

NoDelivery(pc) == [pc |-> pc, m |-> 0, ordinal |-> 0, count |-> 0]

WorkerInit ==
    /\ worker = [w \in Workers |-> NoDelivery("down")]
    /\ attempts = [e \in ExceptionIds |-> {}]
    /\ faults = 0

JobOf(w) == stream[worker[w].m].exception_id

SummaryOf(w) == stream[worker[w].m].reading

Await(w, pc) == worker' = [worker EXCEPT ![w].pc = pc]

\* The delivery is let go of without an acknowledgement: the message stays pending.
LetGo(w) == worker' = [worker EXCEPT ![w] = NoDelivery("claim")]

\* Mutants of Exhausted: one delivery too many, one too few.
ExhaustedLate(count) == count > MaximumAttempts
ExhaustedEarly(count) == count + 1 >= MaximumAttempts

Exhausted(count) == count >= MaximumAttempts

\* The container starts the process, which creates the consumer group if it is missing.
WorkerStart(w) ==
    /\ worker[w].pc = "down"
    /\ Await(w, "claim")
    /\ group' = TRUE
    /\ UNCHANGED <<records, stream, attempts, faults>>

\* Mutant of ClaimStale: the loop only ever reads new messages.
ClaimNothing(w) ==
    /\ worker[w].pc = "claim" /\ group /\ Await(w, "read")
    /\ UNCHANGED <<records, stream, group, attempts, faults>>

\* claim_stale, XAUTOCLAIM: the oldest stale delivery, or none.
ClaimStale(w) ==
    /\ worker[w].pc = "claim"
    /\ \/ \E m \in Messages :
             /\ XAutoClaim(m)
             /\ worker' = [worker EXCEPT ![w] = [pc |-> "count", m |-> m,
                                                 ordinal |-> stream[m].times + 1, count |-> 0]]
       \/ group /\ WithStatus("idle") = {} /\ Await(w, "read") /\ UNCHANGED stream
    /\ UNCHANGED <<records, group, attempts, faults>>

\* claim_stale, XPENDING: a second command, which may see a later count or no entry.
CountDeliveries(w) ==
    /\ worker[w].pc = "count"
    /\ group
    /\ worker' = [worker EXCEPT ![w].pc = "get", ![w].count = TimesDelivered(worker[w].m)]
    /\ UNCHANGED <<records, stream, group, attempts, faults>>

\* read: no message within the bounded wait; the loop starts over.
NothingToRead(w) == group /\ WithStatus("new") = {} /\ LetGo(w) /\ UNCHANGED stream

\* read: the oldest new message, or none.
Read(w) ==
    /\ worker[w].pc = "read"
    /\ \/ \E m \in Messages :
             /\ XReadGroup(m)
             /\ worker' = [worker EXCEPT ![w] = [pc |-> "get", m |-> m, ordinal |-> 1, count |-> 1]]
       \/ NothingToRead(w)
    /\ UNCHANGED <<records, group, attempts, faults>>

\* A queue command answers NOGROUP: run_loop sleeps and starts over.
QueueOperationFails(w) ==
    /\ worker[w].pc \in {"read", "count"}
    /\ ~group
    /\ LetGo(w)
    /\ UNCHANGED <<records, stream, group, attempts, faults>>

\* process: the read of the durable record decides what this delivery is for.
Consult(w) ==
    /\ worker[w].pc = "get"
    /\ LET state == StateOf(JobOf(w)) IN
       \/ state \in {"ABSENT"} \cup Terminal /\ Await(w, "ack")
       \/ state = "PROCESSING" /\ Exhausted(worker[w].count) /\ Await(w, "exhausting")
       \/ state = "PROCESSING" /\ ~Exhausted(worker[w].count) /\ LetGo(w)
       \/ state \in {"RECEIVED", "QUEUED"} /\ Await(w, "start")
    /\ UNCHANGED <<records, stream, group, attempts, faults>>

\* Mutant of Persist: a StateConflict counts as done and the message is acknowledged.
PersistOrAck(w, expected, target, summary, failure, next) ==
    \/ Transition(JobOf(w), expected, target, summary, failure) /\ Await(w, next)
    \/ StateConflict(JobOf(w), expected) /\ Await(w, "ack")

\* A transition of the record that must find it in one of the expected states; otherwise
\* the StateConflict escapes to run_loop, which leaves the message pending.
Persist(w, expected, target, summary, failure, next) ==
    \/ Transition(JobOf(w), expected, target, summary, failure) /\ Await(w, next)
    \/ StateConflict(JobOf(w), expected) /\ LetGo(w)

\* Mutant of FailInterrupted: the failure is written over a result that came meanwhile.
FailInterruptedLate(w) ==
    /\ worker[w].pc = "exhausting"
    /\ Persist(w, {"PROCESSING", "COMPLETED"}, "FAILED", NoReading, "processing_attempts_exhausted", "ack")
    /\ UNCHANGED <<stream, group, attempts, faults>>

\* Interrupted work that has used up its deliveries.
FailInterrupted(w) ==
    /\ worker[w].pc = "exhausting"
    /\ Persist(w, {"PROCESSING"}, "FAILED", NoReading, "processing_attempts_exhausted", "ack")
    /\ UNCHANGED <<stream, group, attempts, faults>>

\* Mutant of Startable: a delivery takes over work another worker is processing.
StartableTwice == {"QUEUED", "PROCESSING"}

Startable == {"QUEUED"}

\* PROCESSING is durable before the model is called.
Start(w) ==
    /\ worker[w].pc = "start"
    /\ Persist(w, Startable, "PROCESSING", NoReading, "none", "model")
    /\ attempts' = IF StateOf(JobOf(w)) \in Startable
                   THEN [attempts EXCEPT ![JobOf(w)] = @ \cup {worker[w].ordinal}] ELSE attempts
    /\ UNCHANGED <<stream, group, faults>>

\* Mutant of ModelAnswers: a failed call is retried whatever the delivery count.
ModelAnswersUnbounded(w) ==
    /\ worker[w].pc = "model"
    /\ Await(w, "completing") \/ Await(w, "requeue")
    /\ UNCHANGED <<records, stream, group, attempts, faults>>

\* provider.summarize returns a summary, or raises.
ModelAnswers(w) ==
    /\ worker[w].pc = "model"
    /\ \/ Await(w, "completing")
       \/ Exhausted(worker[w].count) /\ Await(w, "failing")
       \/ ~Exhausted(worker[w].count) /\ Await(w, "requeue")
    /\ UNCHANGED <<records, stream, group, attempts, faults>>

\* Mutant of Complete: a late result replaces the failure recorded meanwhile.
CompleteLate(w) ==
    /\ worker[w].pc = "completing"
    /\ Persist(w, {"PROCESSING", "FAILED"}, "COMPLETED", SummaryOf(w), "none", "ack")
    /\ UNCHANGED <<stream, group, attempts, faults>>

\* Terminal persistence, before the loop acknowledges.
Complete(w) ==
    /\ worker[w].pc = "completing"
    /\ Persist(w, {"PROCESSING"}, "COMPLETED", SummaryOf(w), "none", "ack")
    /\ UNCHANGED <<stream, group, attempts, faults>>

FailExhausted(w) ==
    /\ worker[w].pc = "failing"
    /\ Persist(w, {"PROCESSING"}, "FAILED", NoReading, "model_provider_exhausted", "ack")
    /\ UNCHANGED <<stream, group, attempts, faults>>

\* RETRY: back to QUEUED, and the message stays pending until it is stale.
Requeue(w) ==
    /\ worker[w].pc = "requeue"
    /\ \/ Transition(JobOf(w), {"PROCESSING"}, "QUEUED", NoReading, "none")
       \/ StateConflict(JobOf(w), {"PROCESSING"})
    /\ LetGo(w)
    /\ UNCHANGED <<stream, group, attempts, faults>>

Acknowledge(w) ==
    /\ worker[w].pc = "ack"
    /\ XAck(worker[w].m)
    /\ LetGo(w)
    /\ UNCHANGED <<records, group, attempts, faults>>

\* An await of run_loop or process raises (the model's excepted: process handles that one),
\* or the queue gauges cannot be refreshed: logged, and the delivery left pending.
DeliveryError(w) ==
    /\ faults < MaxFaults
    /\ worker[w].pc \notin {"down", "claim", "model"}
    /\ faults' = faults + 1
    /\ LetGo(w)
    /\ UNCHANGED <<records, stream, group, attempts>>

\* The process is killed or cancelled at whatever await it is suspended at.
WorkerCrash(w) ==
    /\ faults < MaxFaults
    /\ worker[w].pc # "down"
    /\ faults' = faults + 1
    /\ worker' = [worker EXCEPT ![w] = NoDelivery("down")]
    /\ UNCHANGED <<records, stream, group, attempts>>

\* What a running worker's loop does next.
Work(w) ==
    \/ ClaimStale(w) \/ CountDeliveries(w) \/ Read(w) \/ QueueOperationFails(w)
    \/ Consult(w) \/ FailInterrupted(w) \/ Start(w) \/ ModelAnswers(w)
    \/ Complete(w) \/ FailExhausted(w) \/ Requeue(w) \/ Acknowledge(w)
=============================================================================
