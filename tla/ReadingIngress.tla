----------------------------- MODULE ReadingIngress -----------------------------
(***************************************************************************)
(* ReadingApplication.accept and the HTTP status accept_reading maps its   *)
(* outcome to.  Each member of Requests is a handler that serves one       *)
(* request after another; pc names the await it is suspended at, so that   *)
(* every other handler and worker may run between two of its statements.   *)
(***************************************************************************)
EXTENDS ExceptionRepository, JobQueue

CONSTANT Requests

VARIABLES
    req,          \* the handlers
    interrupted   \* ghost: identities whose publisher stopped between QUEUED and its outcome
ingressVars == <<req, interrupted>>

RequestPC == {"idle", "get", "create", "reget", "queue", "conflict", "publish", "compensate"}

\* The two awaits at which the durable record says QUEUED and no job is certain to exist.
PublishWindow == {"publish", "compensate"}

HttpStatus == {"none", "202", "409", "422", "500", "503"}

Request == [pc : RequestPC, e : ExceptionIds, reading : Readings \cup {NoReading},
            reply : HttpStatus, returned : ExceptionState \cup {"ABSENT"}]

IngressTypeOK ==
    /\ req \in [Requests -> Request]
    /\ \A q \in Requests : req[q].pc # "idle" => req[q].reading \in Readings
    /\ interrupted \subseteq ExceptionIds

IngressInit ==
    /\ req \in {[q \in Requests |-> [pc |-> "idle", e |-> e, reading |-> NoReading,
                                     reply |-> "none", returned |-> "ABSENT"]] : e \in ExceptionIds}
    /\ interrupted = {}

Goto(q, pc) == req' = [req EXCEPT ![q].pc = pc]

\* The handler answers: the status code and, in a 202 body, the state of the record.
Reply(q, code, state) ==
    req' = [req EXCEPT ![q].pc = "idle", ![q].reading = NoReading,
                       ![q].reply = code, ![q].returned = state]

Received(q, e, reading) ==
    req' = [req EXCEPT ![q] = [pc |-> "get", e |-> e, reading |-> reading,
                               reply |-> "none", returned |-> "ABSENT"]]

\* A reading arrives.  One inside its range is refused before anything is read.
Submit(q) ==
    /\ req[q].pc = "idle"
    /\ \E e \in ExceptionIds, reading \in Readings :
          IF RequiresException(reading) THEN Received(q, e, reading)
                                        ELSE Reply(q, "422", "ABSENT")
    /\ UNCHANGED <<records, stream, group, interrupted>>

\* The first repository.get and the three ways it is answered.
Lookup(q) ==
    /\ req[q].pc = "get"
    /\ LET state == StateOf(req[q].e) IN
       \/ state = "FAILED" /\ Reply(q, "409", "ABSENT")
       \/ state \in ExceptionState \ {"RECEIVED", "FAILED"} /\ Reply(q, "202", state)
       \/ state = "ABSENT" /\ Goto(q, "create")
       \/ state = "RECEIVED" /\ Goto(q, "queue")
    /\ UNCHANGED <<records, stream, group, interrupted>>

\* repository.create: the INSERT.
Create(q) ==
    /\ req[q].pc = "create"
    /\ \/ Insert(req[q].e, req[q].reading) /\ Goto(q, "queue")
       \/ InsertConflicts(req[q].e) /\ Goto(q, "reget")
    /\ UNCHANGED <<stream, group, interrupted>>

\* repository.create: the read after a conflicting INSERT.  A record in any state but
\* RECEIVED is returned as accepted, FAILED included.
Reread(q) ==
    /\ req[q].pc = "reget"
    /\ LET state == StateOf(req[q].e) IN
       \/ state = "ABSENT" /\ Reply(q, "500", "ABSENT")
       \/ state \in ExceptionState \ {"RECEIVED"} /\ Reply(q, "202", state)
       \/ state = "RECEIVED" /\ Goto(q, "queue")
    /\ UNCHANGED <<records, stream, group, interrupted>>

\* Mutants of Enqueue: the job is published while the record says RECEIVED; a handler that
\* lost the race publishes too.
EnqueueLater(q) ==
    /\ req[q].pc = "queue" /\ Goto(q, "publish")
    /\ UNCHANGED <<records, stream, group, interrupted>>
EnqueueRegardless(q) ==
    /\ req[q].pc = "queue" /\ Goto(q, "publish")
    /\ \/ Transition(req[q].e, {"RECEIVED"}, "QUEUED", NoReading, "none")
       \/ StateConflict(req[q].e, {"RECEIVED"})
    /\ UNCHANGED <<stream, group, interrupted>>

\* transition(RECEIVED -> QUEUED): the winner of several handlers goes on to publish.
Enqueue(q) ==
    /\ req[q].pc = "queue"
    /\ \/ Transition(req[q].e, {"RECEIVED"}, "QUEUED", NoReading, "none") /\ Goto(q, "publish")
       \/ StateConflict(req[q].e, {"RECEIVED"}) /\ Goto(q, "conflict")
    /\ UNCHANGED <<stream, group, interrupted>>

\* The loser reads the record again and reports what it finds.
ReadWinner(q) ==
    /\ req[q].pc = "conflict"
    /\ LET state == StateOf(req[q].e) IN
       \/ state = "ABSENT" /\ Reply(q, "500", "ABSENT")
       \/ state = "FAILED" /\ Reply(q, "409", "ABSENT")
       \/ state \in ExceptionState \ {"FAILED"} /\ Reply(q, "202", state)
    /\ UNCHANGED <<records, stream, group, interrupted>>

\* queue.publish returns.  The job carries this request's reading, and the 202 the
\* record as it was when this handler moved it.
Publish(q) ==
    /\ req[q].pc = "publish"
    /\ XAdd(req[q].e, req[q].reading)
    /\ Reply(q, "202", "QUEUED")
    /\ UNCHANGED <<records, group, interrupted>>

\* Mutant of PublishFails: the failure is reported and not compensated.
PublishFailsQuietly(q) ==
    /\ req[q].pc = "publish" /\ Reply(q, "503", "ABSENT")
    /\ UNCHANGED <<records, stream, group, interrupted>>

\* queue.publish raises: Redis refused the entry, or added it and the answer was lost.
PublishFails(q) ==
    /\ req[q].pc = "publish"
    /\ \/ XAdd(req[q].e, req[q].reading)
       \/ UNCHANGED stream
    /\ Goto(q, "compensate")
    /\ UNCHANGED <<records, group, interrupted>>

\* Mutant of Compensate: the conflict is swallowed and the client told 503 all the same.
CompensateRegardless(q) ==
    /\ req[q].pc = "compensate" /\ Reply(q, "503", "ABSENT")
    /\ \/ Transition(req[q].e, {"QUEUED"}, "FAILED", NoReading, "job_queue_unavailable")
       \/ StateConflict(req[q].e, {"QUEUED"})
    /\ UNCHANGED <<stream, group, interrupted>>

\* The compensation makes the failure visible, unless a worker has already taken a job
\* that did reach the stream: then the conflict escapes as a 500.
Compensate(q) ==
    /\ req[q].pc = "compensate"
    /\ \/ /\ Transition(req[q].e, {"QUEUED"}, "FAILED", NoReading, "job_queue_unavailable")
          /\ Reply(q, "503", "ABSENT")
       \/ StateConflict(req[q].e, {"QUEUED"}) /\ Reply(q, "500", "ABSENT")
    /\ UNCHANGED <<stream, group, interrupted>>

\* The await the handler is at raises, or the API process dies there, before its effect.
\* (An effect whose answer is lost is the step above followed by this one.)
RequestAborted(q) ==
    /\ req[q].pc # "idle"
    /\ Reply(q, "500", "ABSENT")
    /\ interrupted' = IF req[q].pc \in PublishWindow
                      THEN interrupted \cup {req[q].e} ELSE interrupted
    /\ UNCHANGED <<records, stream, group>>

\* What the event loop does for a handler once its request has arrived.
Handle(q) ==
    \/ Lookup(q) \/ Create(q) \/ Reread(q) \/ Enqueue(q) \/ ReadWinner(q)
    \/ Publish(q) \/ PublishFails(q) \/ Compensate(q)
=============================================================================
