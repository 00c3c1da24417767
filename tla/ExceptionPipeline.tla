---------------------------- MODULE ExceptionPipeline ----------------------------
(***************************************************************************)
(* The exception pipeline: API handlers, workers, the exception table and  *)
(* the job stream, any step of one between any two of the others.          *)
(***************************************************************************)
EXTENDS ReadingIngress, ExceptionWorker

vars == <<records, stream, group, req, interrupted, worker, attempts, faults>>

TypeOK == RepositoryTypeOK /\ QueueTypeOK /\ IngressTypeOK /\ WorkerTypeOK

Init == RepositoryInit /\ QueueInit /\ IngressInit /\ WorkerInit

ApiStep(q) ==
    /\ Submit(q) \/ Handle(q) \/ RequestAborted(q)
    /\ UNCHANGED workerVars

WorkerStep(w) ==
    /\ WorkerStart(w) \/ Work(w) \/ DeliveryError(w) \/ WorkerCrash(w)
    /\ UNCHANGED ingressVars

\* A delivered message passes the stale threshold.
GoesStale(m) == GrowIdle(m) /\ UNCHANGED <<records, ingressVars, workerVars>>

Next ==
    \/ \E q \in Requests : ApiStep(q)
    \/ \E w \in Workers : WorkerStep(w)
    \/ \E m \in Messages : GoesStale(m)

Spec == Init /\ [][Next]_vars

-----------------------------------------------------------------------------
\* Fairness.  The event loop resumes a handler and a worker whose await has returned, the
\* container runtime restarts a worker (restart: unless-stopped), and time passes.  No
\* fairness on arrivals, on aborts or on faults.

StaleFor(e) == \E m \in Messages : stream[m].exception_id = e /\ GoesStale(m)

Fairness ==
    /\ \A q \in Requests : WF_vars(Handle(q) /\ UNCHANGED workerVars)
    /\ \A w \in Workers : /\ WF_vars(Work(w) /\ UNCHANGED ingressVars)
                          /\ WF_vars(WorkerStart(w) /\ UNCHANGED ingressVars)
    /\ \A e \in ExceptionIds : WF_vars(StaleFor(e))

FairSpec == Spec /\ Fairness

-----------------------------------------------------------------------------
\* Safety

MessagesOf(e) == {m \in Messages : stream[m].exception_id = e}

Publishers(e) == {q \in Requests : req[q].e = e /\ req[q].pc \in PublishWindow}

Callers(e) == {w \in Workers : worker[w].pc \in ModelSection /\ JobOf(w) = e}

\* A message in the stream has a durable record past RECEIVED: a worker never observes work
\* before the record says QUEUED (use_cases.py:91), whichever of several handlers published.
PublishedIsDurable ==
    \A m \in Messages : StateOf(stream[m].exception_id) \notin {"ABSENT", "RECEIVED"}

\* Concurrent and repeated submissions of one reading add at most one job to the stream,
\* even when a publication is reported failed after its entry was added.
OneJobPerException == \A e \in ExceptionIds : Cardinality(MessagesOf(e)) <= 1

\* However often a message is delivered and to however many workers at once, at most one of
\* them is between starting the model call and recording its answer.
OneModelCallAtATime == \A e \in ExceptionIds : Cardinality(Callers(e)) <= 1

\* The model is called at most MaximumAttempts times for one exception, whatever crashes,
\* lost acknowledgements and overlapping redeliveries do to the delivery count.
ModelCallsBounded == \A e \in ExceptionIds : Cardinality(attempts[e]) <= MaximumAttempts

\* No message leaves the pending list while its record is unfinished: the acknowledgement
\* comes after the terminal state is durable.
AcknowledgedIsTerminal ==
    \A m \in Messages :
        stream[m].status = "acked" => StateOf(stream[m].exception_id) \in Terminal

\* Unfinished work always has something that will finish it: a handler still about to publish
\* or compensate, or a message a worker can receive.  The exception is a publisher that was
\* stopped inside its publish window.
NoStrandedWork ==
    \A e \in ExceptionIds \ interrupted :
        StateOf(e) \in {"QUEUED", "PROCESSING"} =>
            Publishers(e) # {} \/ \E m \in MessagesOf(e) : Deliverable(m)

\* "Exhausted" is only ever recorded of a message the queue has delivered MaximumAttempts
\* times, although the count a worker compares was read in an earlier, separate command.
ExhaustionIsEarned ==
    \A e \in ExceptionIds :
        records[e].failure \in {"model_provider_exhausted", "processing_attempts_exhausted"} =>
            \E m \in MessagesOf(e) : stream[m].times >= MaximumAttempts

\* A 503 tells the client the truth: the record is, and stays, FAILED for the reason given.
RefusalIsVisible ==
    \A q \in Requests : req[q].reply = "503" =>
        records[req[q].e].state = "FAILED" /\ records[req[q].e].failure = "job_queue_unavailable"

\* A record has one outcome at most, the one its state names: a summary exactly when it is
\* COMPLETED, a failure reason exactly when it is FAILED, whichever worker's late result loses
\* the race.
OneOutcome ==
    \A e \in ExceptionIds :
        /\ records[e].summary # NoReading <=> StateOf(e) = "COMPLETED"
        /\ records[e].failure # "none" <=> StateOf(e) = "FAILED"

\* A terminal record is never written again, by a late worker, a duplicate submission or a
\* compensation that comes after the job it gave up on was processed.
TerminalIsFinal ==
    [][\A e \in ExceptionIds : StateOf(e) \in Terminal => records'[e] = records[e]]_vars

-----------------------------------------------------------------------------
\* The inductive invariant behind the safety properties, in named parts.

\* A handler in its publish window has moved the record past RECEIVED, alone, and while it is
\* still about to publish there is no job; two messages are jobs of different exceptions.
PublicationInv ==
    /\ PublishedIsDurable
    /\ \A q \in Requests : req[q].pc \in PublishWindow => StateOf(req[q].e) \notin {"ABSENT", "RECEIVED"}
    /\ \A p, q \in Requests :
          req[p].pc \in PublishWindow /\ req[q].pc \in PublishWindow /\ req[p].e = req[q].e => p = q
    /\ \A q \in Requests, m \in Messages : req[q].pc = "publish" => stream[m].exception_id # req[q].e
    /\ \A m, n \in Messages : stream[m].exception_id = stream[n].exception_id => m = n

\* A worker is about to acknowledge only what it found, or made, terminal.
AcknowledgementInv ==
    /\ AcknowledgedIsTerminal
    /\ \A w \in Workers : worker[w].pc = "ack" => StateOf(JobOf(w)) \in Terminal
    /\ \A m \in Messages : stream[m].status # "gone"

\* Work being processed has a message; so has queued work whose publisher is past its window,
\* unless the publisher was stopped in it.
WorkInv ==
    /\ \A e \in ExceptionIds : StateOf(e) = "PROCESSING" => MessagesOf(e) # {}
    /\ \A e \in ExceptionIds \ interrupted :
          StateOf(e) = "QUEUED" => Publishers(e) # {} \/ MessagesOf(e) # {}

\* One worker at a time is in the model section, and while it is the record is not QUEUED, so
\* that no other may enter.
CallerInv ==
    /\ \A v, w \in Workers :
          worker[v].pc \in ModelSection /\ worker[w].pc \in ModelSection /\ JobOf(v) = JobOf(w) => v = w
    /\ \A w \in Workers :
          worker[w].pc \in ModelSection => StateOf(JobOf(w)) \in {"PROCESSING"} \cup Terminal

\* The count a worker decides with is never ahead of the queue's, and one that records an
\* exhausted delivery has compared it.
DeliveryInv ==
    /\ ExhaustionIsEarned
    /\ \A m \in WithStatus("new") : stream[m].times = 0
    /\ \A w \in Workers : worker[w].pc \notin Unburdened =>
          stream[worker[w].m].times >= 1 /\ worker[w].count <= stream[worker[w].m].times
    /\ \A w \in Workers : worker[w].pc \in {"exhausting", "failing"} => Exhausted(worker[w].count)

\* The outcome of a record, and the answer that reported it, need no other part.
OutcomeInv == OneOutcome /\ RefusalIsVisible

SafetyInv == /\ PublicationInv /\ AcknowledgementInv /\ WorkInv
             /\ CallerInv /\ DeliveryInv /\ OutcomeInv

\* Where a worker holds a delivery it has not started to process.
BeforeStart == {"count", "get", "start"}

\* The ordinals of deliveries a failed call may be retried from.
Retryable == 1..(MaximumAttempts - 1)

\* No two workers hold one and the same delivery of a message, its ordinal is no more than
\* the queue's count nor, once that was read, than the worker's (unless the record is
\* finished), and no delivery reached the model before the worker that holds it starts.
OrdinalInv ==
    /\ \A v, w \in Workers :
          worker[v].pc \notin Unburdened /\ worker[w].pc \notin Unburdened
            /\ worker[v].m = worker[w].m /\ worker[v].ordinal = worker[w].ordinal => v = w
    /\ \A w \in Workers : worker[w].pc \notin Unburdened =>
          /\ worker[w].ordinal >= 1 /\ worker[w].ordinal <= stream[worker[w].m].times
          /\ worker[w].pc # "count" =>
                worker[w].ordinal <= worker[w].count \/ StateOf(JobOf(w)) \in Terminal
    /\ \A w \in Workers : worker[w].pc \in BeforeStart => worker[w].ordinal \notin attempts[JobOf(w)]
    /\ \A e \in ExceptionIds : \A k \in attempts[e] :
          k >= 1 /\ \E m \in MessagesOf(e) : k <= stream[m].times

\* Only a delivery below the limit takes a record back to QUEUED, so that while it is there,
\* or its one caller is not counted, every attempt was such a delivery.
AttemptInv ==
    /\ \A e \in ExceptionIds :
          StateOf(e) \in {"ABSENT", "RECEIVED", "QUEUED"} => attempts[e] \subseteq Retryable
    /\ \A e \in ExceptionIds : \E k \in attempts[e] \cup {0} : attempts[e] \subseteq Retryable \cup {k}
    /\ \A w \in Workers : worker[w].pc \in ModelSection =>
          attempts[JobOf(w)] \subseteq Retryable \cup {worker[w].ordinal}
    /\ \A w \in Workers : worker[w].pc = "requeue" => ~Exhausted(worker[w].count)

-----------------------------------------------------------------------------
\* Liveness

\* A job that reached the stream brings its record to a terminal state.
PublishedWorkFinishes ==
    \A e \in ExceptionIds :
        (MessagesOf(e) # {}) ~> (StateOf(e) \in Terminal)

\* Every message ends up acknowledged: finished work does not stay in the pending list.
PendingListDrains ==
    \A e \in ExceptionIds :
        (MessagesOf(e) # {}) ~> (\A m \in MessagesOf(e) : ~Deliverable(m))

\* QUEUED work finishes unless its publisher was stopped in its publish window.
AcceptedWorkFinishes ==
    \A e \in ExceptionIds :
        (StateOf(e) = "QUEUED") ~> (StateOf(e) \in Terminal \/ e \in interrupted)

-----------------------------------------------------------------------------
\* Refinement: a client that sees only the state of the record sees ExceptionLifecycle.

Lifecycle == INSTANCE ExceptionLifecycle WITH
    state <- [e \in ExceptionIds |-> StateOf(e)],
    calls <- [e \in ExceptionIds |-> Cardinality(attempts[e])]

\* Every step of every handler and worker is a lifecycle step of one exception or invisible:
\* no state is skipped or revisited, and a retry always leaves room for another attempt.
ImplementsLifecycle == Lifecycle!LifecycleSpec

-----------------------------------------------------------------------------
\* What the repository says of the ingress, and the code does not do.

\* "A duplicate must resume work stranded before queue publication."
DuplicateResumesStrandedWork ==
    [][\A q \in Requests :
          req[q].pc = "get" /\ req'[q].reply = "202" /\ req'[q].returned = "QUEUED" =>
              \/ Publishers(req[q].e) # {}
              \/ \E m \in MessagesOf(req[q].e) : Deliverable(m)]_vars

\* "A terminal failure must return 409 rather than an empty 202 promise."
FailureIsNeverAccepted ==
    \A q \in Requests : req[q].reply = "202" => req[q].returned # "FAILED"
=============================================================================
