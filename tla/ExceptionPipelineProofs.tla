------------------------- MODULE ExceptionPipelineProofs -------------------------
(***************************************************************************)
(* Machine-checked theorems about ExceptionPipeline, and about the reset   *)
(* of PipelineReset in its midst, for every set of identities, readings,   *)
(* handlers and workers, every delivery limit and every fault budget.      *)
(***************************************************************************)
EXTENDS PipelineReset, FiniteSetTheorems, SequenceTheorems, TLAPS

-----------------------------------------------------------------------------
\* Type correctness: first what each operation of the table and of the queue preserves.

\* An INSERT keeps the table well formed.
LEMMA InsertType ==
    ASSUME RepositoryTypeOK, NEW e \in ExceptionIds, NEW r \in Readings, Insert(e, r)
    PROVE  RepositoryTypeOK'
BY DEF RepositoryTypeOK, ExceptionRecord, Insert, Absent, ExceptionState, FailureReason

\* So does a transition to a lifecycle state.
LEMMA TransitionType ==
    ASSUME RepositoryTypeOK, NEW e \in ExceptionIds, NEW expected,
           NEW target \in ExceptionState, NEW summary \in Readings \cup {NoReading},
           NEW failure \in FailureReason,
           Transition(e, expected, target, summary, failure)
    PROVE  RepositoryTypeOK'
BY DEF RepositoryTypeOK, ExceptionRecord, Transition

\* Messages are numbered by their place in the stream.
LEMMA MessagesAreNumbers ==
    ASSUME QueueTypeOK
    PROVE  /\ Messages = 1..Len(stream) /\ Messages \subseteq Nat
           /\ \A m \in Messages : stream[m] \in Entry
BY LenProperties, ElementOfSeq DEF QueueTypeOK, Messages

\* Publishing keeps the stream well formed and adds one new message at its end.
LEMMA XAddType ==
    ASSUME QueueTypeOK, NEW e \in ExceptionIds, NEW r \in Readings, XAdd(e, r)
    PROVE  /\ stream' \in Seq(Entry)
           /\ Messages' = Messages \cup {Len(stream) + 1}
           /\ Len(stream) + 1 \notin Messages
           /\ \A n \in Messages : stream'[n] = stream[n]
           /\ stream'[Len(stream) + 1] = [exception_id |-> e, reading |-> r, times |-> 0, status |-> "new"]
<1> DEFINE new == [exception_id |-> e, reading |-> r, times |-> 0, status |-> "new"]
<1>1. new \in Entry /\ stream \in Seq(Entry)  BY DEF QueueTypeOK, Entry, EntryStatus
<1>2. stream' = Append(stream, new)  BY DEF XAdd
<1>3. /\ Append(stream, new) \in Seq(Entry)
      /\ Len(Append(stream, new)) = Len(stream) + 1
      /\ \A i \in 1..Len(stream) : Append(stream, new)[i] = stream[i]
      /\ Append(stream, new)[Len(stream) + 1] = new
  BY <1>1, AppendProperties
<1>4. Messages = 1..Len(stream) /\ Messages' = 1..(Len(stream) + 1) /\ Len(stream) \in Nat
  BY <1>1, <1>2, <1>3, LenProperties DEF Messages
<1> QED BY <1>2, <1>3, <1>4

\* Rewriting one entry keeps the stream well formed, its messages and every other entry.
LEMMA RewriteType ==
    ASSUME QueueTypeOK, NEW m \in Messages, NEW entry \in Entry, Rewrite(m, entry)
    PROVE  /\ stream' \in Seq(Entry)
           /\ Messages' = Messages
           /\ stream' = [n \in Messages |-> IF n = m THEN entry ELSE stream[n]]
<1>1. stream \in Seq(Entry) /\ Messages = 1..Len(stream)
  BY LenProperties DEF QueueTypeOK, Messages
<1>2. stream' = [stream EXCEPT ![m] = entry]  BY DEF Rewrite
<1>3. stream' \in Seq(Entry) /\ Len(stream') = Len(stream)
  BY <1>1, <1>2, ExceptSeq
<1>4. Messages' = Messages  BY <1>1, <1>3, LenProperties DEF Messages
<1>5. stream \in [Messages -> Entry]  BY <1>1, LenProperties
<1> QED BY <1>2, <1>3, <1>4, <1>5

\* A handler that moves on, or answers, is still a handler with a reading while it works.
LEMMA HandlerType ==
    ASSUME IngressTypeOK, NEW q \in Requests, interrupted' \subseteq ExceptionIds,
           \/ req[q].pc # "idle" /\ \E pc \in RequestPC : Goto(q, pc)
           \/ \E code \in HttpStatus, s \in ExceptionState \cup {"ABSENT"} : Reply(q, code, s)
           \/ \E e \in ExceptionIds, r \in Readings : Received(q, e, r)
    PROVE  IngressTypeOK'
<1> USE DEF IngressTypeOK, Request, RequestPC, HttpStatus, ExceptionState
<1>1. CASE req[q].pc # "idle" /\ \E pc \in RequestPC : Goto(q, pc)
  BY <1>1 DEF Goto
<1>2. CASE \E code \in HttpStatus, s \in ExceptionState \cup {"ABSENT"} : Reply(q, code, s)
  BY <1>2 DEF Reply
<1>3. CASE \E e \in ExceptionIds, r \in Readings : Received(q, e, r)
  BY <1>3 DEF Received
<1> QED BY <1>1, <1>2, <1>3

\* The initial state is well formed.
LEMMA TypeInit == Init => TypeOK
<1> SUFFICES ASSUME Init PROVE TypeOK  OBVIOUS
<1>1. RepositoryTypeOK
  BY DEF Init, RepositoryInit, RepositoryTypeOK, ExceptionRecord, Absent, FailureReason
<1>2. QueueTypeOK
  BY EmptySeq DEF Init, QueueInit, QueueTypeOK
<1>3. IngressTypeOK
  BY DEF Init, IngressInit, IngressTypeOK, Request, RequestPC, HttpStatus, ExceptionState
<1>4. WorkerTypeOK
  BY FaultsAssumption DEF Init, WorkerInit, WorkerTypeOK, WorkerState, WorkerPC, Unburdened, NoDelivery
<1> QED BY <1>1, <1>2, <1>3, <1>4 DEF TypeOK

\* What an API handler does keeps table, stream and handlers well formed.
LEMMA ApiType ==
    ASSUME TypeOK, NEW q \in Requests, ApiStep(q)
    PROVE  TypeOK'
<1> USE DEF TypeOK, ApiStep, RequestPC, HttpStatus, ExceptionState
<1>0. req[q] \in Request /\ req[q].e \in ExceptionIds
  BY DEF IngressTypeOK, Request
<1>1. IngressTypeOK'
  <2>1. CASE Submit(q)          BY <2>1, HandlerType DEF Submit, IngressTypeOK
  <2>2. CASE Lookup(q)          BY <2>2, HandlerType DEF Lookup, IngressTypeOK
  <2>3. CASE Create(q)          BY <2>3, HandlerType DEF Create, IngressTypeOK
  <2>4. CASE Reread(q)          BY <2>4, HandlerType DEF Reread, IngressTypeOK
  <2>5. CASE Enqueue(q)         BY <2>5, HandlerType DEF Enqueue, IngressTypeOK
  <2>6. CASE ReadWinner(q)      BY <2>6, HandlerType DEF ReadWinner, IngressTypeOK
  <2>7. CASE Publish(q)         BY <2>7, HandlerType DEF Publish, IngressTypeOK
  <2>8. CASE PublishFails(q)    BY <2>8, HandlerType DEF PublishFails, IngressTypeOK
  <2>9. CASE Compensate(q)      BY <2>9, HandlerType DEF Compensate, IngressTypeOK
  <2>10. CASE RequestAborted(q) BY <1>0, <2>10, HandlerType DEF RequestAborted, IngressTypeOK
  <2> QED BY <2>1, <2>2, <2>3, <2>4, <2>5, <2>6, <2>7, <2>8, <2>9, <2>10 DEF Handle
<1>2. RepositoryTypeOK'
  <2>1. CASE Create(q)
    BY <1>0, <2>1, InsertType DEF Create, InsertConflicts, RepositoryTypeOK, IngressTypeOK
  <2>2. CASE Enqueue(q)
    BY <1>0, <2>2, TransitionType DEF Enqueue, StateConflict, RepositoryTypeOK, FailureReason
  <2>3. CASE Compensate(q)
    BY <1>0, <2>3, TransitionType DEF Compensate, StateConflict, RepositoryTypeOK, FailureReason
  <2>4. CASE UNCHANGED records  BY <2>4 DEF RepositoryTypeOK
  <2> QED BY <2>1, <2>2, <2>3, <2>4
          DEF Handle, Submit, Lookup, Reread, ReadWinner, Publish, PublishFails, RequestAborted
<1>3. QueueTypeOK' /\ Messages \subseteq Messages'
  <2>1. CASE Publish(q)
    BY <1>0, <2>1, XAddType DEF Publish, QueueTypeOK, IngressTypeOK
  <2>2. CASE PublishFails(q)
    BY <1>0, <2>2, XAddType DEF PublishFails, QueueTypeOK, IngressTypeOK, Messages
  <2>3. CASE UNCHANGED <<stream, group>>  BY <2>3 DEF QueueTypeOK, Messages
  <2> QED BY <2>1, <2>2, <2>3
          DEF Handle, Submit, Lookup, Create, Reread, Enqueue, ReadWinner, Compensate, RequestAborted
<1>4. WorkerTypeOK'  BY <1>3 DEF WorkerTypeOK, workerVars
<1> QED BY <1>1, <1>2, <1>3, <1>4

\* One worker's state changes to a well-formed state, with a message if it is past a read.
Moves(w) ==
    \E new \in WorkerState :
        /\ worker' = [worker EXCEPT ![w] = new]
        /\ new.pc \notin Unburdened => new.m \in Messages

\* Going on with a delivery, or between two deliveries, is such a move.
LEMMA AwaitMoves ==
    ASSUME WorkerTypeOK, NEW w \in Workers, NEW pc \in WorkerPC, Await(w, pc),
           worker[w].pc \in Unburdened => pc \in Unburdened
    PROVE  Moves(w)
<1> DEFINE new == [worker[w] EXCEPT !.pc = pc]
<1>1. new \in WorkerState  BY DEF WorkerTypeOK, WorkerState
<1>2. new.pc = pc /\ new.m = worker[w].m  BY DEF WorkerTypeOK, WorkerState
<1>3. worker' = [worker EXCEPT ![w] = new]  BY DEF Await
<1>4. new.pc \notin Unburdened => new.m \in Messages  BY <1>2 DEF WorkerTypeOK
<1> HIDE DEF new
<1> QED BY <1>1, <1>3, <1>4 DEF Moves

\* So is letting go of a delivery, or dying with one.
LEMMA EmptyMoves ==
    ASSUME NEW w \in Workers, NEW pc \in Unburdened, worker' = [worker EXCEPT ![w] = NoDelivery(pc)]
    PROVE  Moves(w)
<1> DEFINE new == NoDelivery(pc)
<1>1. new \in WorkerState /\ new.pc \in Unburdened  BY DEF NoDelivery, WorkerState, WorkerPC, Unburdened
<1> HIDE DEF new
<1> QED BY <1>1 DEF Moves, new

\* So is taking a delivery from the queue.
LEMMA TakeMoves ==
    ASSUME QueueTypeOK, NEW w \in Workers, NEW pc \in WorkerPC, NEW m \in Messages,
           NEW o \in Nat, NEW c \in Nat,
           worker' = [worker EXCEPT ![w] = [pc |-> pc, m |-> m, ordinal |-> o, count |-> c]]
    PROVE  Moves(w)
<1> DEFINE new == [pc |-> pc, m |-> m, ordinal |-> o, count |-> c]
<1>1. new \in WorkerState /\ new.m \in Messages  BY MessagesAreNumbers DEF WorkerState
<1> HIDE DEF new
<1> QED BY <1>1 DEF Moves, new

\* So is learning the delivery count.
LEMMA CountMoves ==
    ASSUME WorkerTypeOK, QueueTypeOK, NEW w \in Workers, CountDeliveries(w)
    PROVE  Moves(w)
<1> DEFINE c == TimesDelivered(worker[w].m)
           new == [worker[w] EXCEPT !.pc = "get", !.count = c]
<1>1. worker[w] \in WorkerState /\ worker[w].m \in Messages
  BY DEF WorkerTypeOK, CountDeliveries, Unburdened
<1>2. c \in Nat  BY <1>1, MessagesAreNumbers DEF TimesDelivered, Entry
<1>3. worker' = [worker EXCEPT ![w] = new]  BY DEF CountDeliveries
<1> HIDE DEF c
<1>4. new \in WorkerState /\ new.m \in Messages  BY <1>1, <1>2 DEF WorkerState, WorkerPC
<1> HIDE DEF new
<1> QED BY <1>3, <1>4 DEF Moves

\* A move keeps the workers well formed.
LEMMA MovesType ==
    ASSUME WorkerTypeOK, NEW w \in Workers, Moves(w), Messages \subseteq Messages',
           attempts' \in [ExceptionIds -> SUBSET Nat], faults' \in 0..MaxFaults
    PROVE  WorkerTypeOK'
BY DEF WorkerTypeOK, Moves

\* The operations of the queue a worker uses keep the stream and its messages.
LEMMA QueueCommandType ==
    ASSUME QueueTypeOK, NEW m \in Messages, UNCHANGED group,
           \/ XReadGroup(m) \/ XAutoClaim(m) \/ XAck(m) \/ GrowIdle(m)
    PROVE  QueueTypeOK' /\ Messages' = Messages
<1>1. stream[m] \in Entry  BY MessagesAreNumbers
<1>2. \A s \in EntryStatus : [stream[m] EXCEPT !.status = s] \in Entry  BY <1>1 DEF Entry
<1>3. \A s \in EntryStatus, t \in Nat : [stream[m] EXCEPT !.status = s, !.times = t] \in Entry
  BY <1>1 DEF Entry
<1>4. stream[m].times + 1 \in Nat  BY <1>1 DEF Entry
<1>5. PICK entry \in Entry : Rewrite(m, entry) \/ UNCHANGED stream
  BY <1>1, <1>2, <1>3, <1>4 DEF XReadGroup, XAutoClaim, XAck, GrowIdle, EntryStatus
<1> QED BY <1>5, RewriteType DEF QueueTypeOK, Messages

\* What a worker does keeps table, stream and workers well formed.
LEMMA WorkerType ==
    ASSUME TypeOK, NEW w \in Workers, WorkerStep(w)
    PROVE  TypeOK'
<1> USE DEF TypeOK, WorkerStep
<1>0. worker[w].pc \notin Unburdened =>
        worker[w].m \in Messages /\ JobOf(w) \in ExceptionIds /\ SummaryOf(w) \in Readings
  BY MessagesAreNumbers DEF WorkerTypeOK, JobOf, SummaryOf, Entry
<1>1. IngressTypeOK'  BY DEF IngressTypeOK, ingressVars
<1>2. RepositoryTypeOK'
  <2> USE DEF Persist, StateConflict, Unburdened, ExceptionState, FailureReason
  <2>1. CASE FailInterrupted(w)  BY <1>0, <2>1, TransitionType DEF FailInterrupted, RepositoryTypeOK
  <2>2. CASE Start(w)            BY <1>0, <2>2, TransitionType DEF Start, RepositoryTypeOK
  <2>3. CASE Complete(w)         BY <1>0, <2>3, TransitionType DEF Complete, RepositoryTypeOK
  <2>4. CASE FailExhausted(w)    BY <1>0, <2>4, TransitionType DEF FailExhausted, RepositoryTypeOK
  <2>5. CASE Requeue(w)          BY <1>0, <2>5, TransitionType DEF Requeue, RepositoryTypeOK
  <2>6. CASE UNCHANGED records   BY <2>6 DEF RepositoryTypeOK
  <2> QED BY <2>1, <2>2, <2>3, <2>4, <2>5, <2>6
          DEF Work, WorkerStart, ClaimStale, CountDeliveries, Read, QueueOperationFails, Consult,
              ModelAnswers, Acknowledge, DeliveryError, WorkerCrash
<1>3. QueueTypeOK' /\ Messages' = Messages
  <2>1. CASE ClaimStale(w)   BY <2>1, QueueCommandType DEF ClaimStale, QueueTypeOK, Messages
  <2>2. CASE Read(w)         BY <2>2, QueueCommandType DEF Read, NothingToRead, QueueTypeOK, Messages
  <2>3. CASE Acknowledge(w)  BY <1>0, <2>3, QueueCommandType DEF Acknowledge, Unburdened
  <2>4. CASE UNCHANGED stream /\ group' \in BOOLEAN  BY <2>4 DEF QueueTypeOK, Messages
  <2> QED BY <2>1, <2>2, <2>3, <2>4
          DEF Work, WorkerStart, CountDeliveries, QueueOperationFails, Consult, FailInterrupted, Start,
              ModelAnswers, Complete, FailExhausted, Requeue, DeliveryError, WorkerCrash, QueueTypeOK
<1>4. Moves(w)
  <2> USE DEF WorkerPC, Unburdened
  <2>1. CASE WorkerStart(w)  BY <2>1, AwaitMoves DEF WorkerStart
  <2>2. CASE ClaimStale(w)
    <3>1. CASE Await(w, "read")  BY <2>2, <3>1, AwaitMoves DEF ClaimStale
    <3>2. ASSUME NEW m \in Messages,
                 worker' = [worker EXCEPT ![w] = [pc |-> "count", m |-> m,
                                                  ordinal |-> stream[m].times + 1, count |-> 0]]
          PROVE  Moves(w)
      <4>1. stream[m].times + 1 \in Nat  BY MessagesAreNumbers DEF Entry
      <4> QED BY <3>2, <4>1, TakeMoves
    <3> QED BY <2>2, <3>1, <3>2 DEF ClaimStale
  <2>3. CASE CountDeliveries(w)  BY <2>3, CountMoves
  <2>4. CASE Read(w)
    <3>1. CASE NothingToRead(w)  BY <3>1, EmptyMoves DEF NothingToRead, LetGo
    <3>2. ASSUME NEW m \in Messages,
                 worker' = [worker EXCEPT ![w] = [pc |-> "get", m |-> m, ordinal |-> 1, count |-> 1]]
          PROVE  Moves(w)
      BY <3>2, TakeMoves
    <3> QED BY <2>4, <3>1, <3>2 DEF Read
  <2>5. CASE LetGo(w)  BY <2>5, EmptyMoves DEF LetGo
  <2>6. CASE worker[w].pc \notin Unburdened /\ \E pc \in WorkerPC : Await(w, pc)  BY <2>6, AwaitMoves
  <2>7. CASE WorkerCrash(w)  BY <2>7, EmptyMoves DEF WorkerCrash
  <2> QED BY <2>1, <2>2, <2>3, <2>4, <2>5, <2>6, <2>7
          DEF Work, QueueOperationFails, Consult, Persist, FailInterrupted, Start, ModelAnswers,
              Complete, FailExhausted, Requeue, Acknowledge, DeliveryError
<1>5. attempts' \in [ExceptionIds -> SUBSET Nat]
  <2>1. CASE Start(w)
    <3>1. worker[w].ordinal \in Nat  BY DEF WorkerTypeOK, WorkerState
    <3> QED BY <1>0, <2>1, <3>1 DEF Start, WorkerTypeOK
  <2>2. CASE UNCHANGED attempts  BY <2>2 DEF WorkerTypeOK
  <2> QED BY <2>1, <2>2
          DEF Work, WorkerStart, ClaimStale, CountDeliveries, Read, QueueOperationFails, Consult,
              FailInterrupted, ModelAnswers, Complete, FailExhausted, Requeue, Acknowledge,
              DeliveryError, WorkerCrash
<1>6. faults' \in 0..MaxFaults
  <2>1. faults \in 0..MaxFaults /\ MaxFaults \in Nat  BY FaultsAssumption DEF WorkerTypeOK
  <2>2. faults' = faults \/ (faults < MaxFaults /\ faults' = faults + 1)
    BY DEF Work, WorkerStart, ClaimStale, CountDeliveries, Read, QueueOperationFails, Consult,
           FailInterrupted, Start, ModelAnswers, Complete, FailExhausted, Requeue, Acknowledge,
           DeliveryError, WorkerCrash
  <2> QED BY <2>1, <2>2
<1>7. WorkerTypeOK'  BY <1>3, <1>4, <1>5, <1>6, MovesType
<1> QED BY <1>1, <1>2, <1>3, <1>7

\* Every step keeps the state well formed.
LEMMA TypeStep == TypeOK /\ [Next]_vars => TypeOK'
<1> SUFFICES ASSUME TypeOK, [Next]_vars PROVE TypeOK'  OBVIOUS
<1>1. ASSUME NEW q \in Requests, ApiStep(q) PROVE TypeOK'     BY <1>1, ApiType
<1>2. ASSUME NEW w \in Workers, WorkerStep(w) PROVE TypeOK'   BY <1>2, WorkerType
<1>3. ASSUME NEW m \in Messages, GoesStale(m) PROVE TypeOK'
  <2>1. QueueTypeOK' /\ Messages' = Messages
    BY <1>3, QueueCommandType DEF TypeOK, GoesStale, GrowIdle
  <2> QED BY <1>3, <2>1 DEF TypeOK, GoesStale, RepositoryTypeOK, IngressTypeOK, WorkerTypeOK,
             ingressVars, workerVars
<1>4. CASE UNCHANGED vars
  BY <1>4 DEF vars, TypeOK, RepositoryTypeOK, QueueTypeOK, IngressTypeOK, WorkerTypeOK, Messages
<1> QED BY <1>1, <1>2, <1>3, <1>4 DEF Next

\* The state stays well formed: in particular, a worker never acts on a delivery it does not
\* have, and a handler never stores or publishes a reading it does not have.
THEOREM TypeCorrect == Spec => []TypeOK
<1> QED BY TypeInit, TypeStep, PTL DEF Spec

-----------------------------------------------------------------------------
\* What a step may change.  These facts are all the later proofs use of the record updates.

\* A transition moves one record, from an expected state to its target.
LEMMA TransitionMoves ==
    ASSUME RepositoryTypeOK, NEW e \in ExceptionIds, NEW expected, NEW target, NEW summary, NEW failure,
           Transition(e, expected, target, summary, failure)
    PROVE  /\ StateOf(e) \in expected /\ StateOf(e)' = target
           /\ \A f \in ExceptionIds : f # e => records'[f] = records[f]
BY DEF RepositoryTypeOK, Transition, StateOf

\* A handler's request names an exception, and a worker's delivery a message.
LEMMA ActorsHaveJobs ==
    ASSUME TypeOK
    PROVE  /\ \A q \in Requests : req[q].e \in ExceptionIds
           /\ \A m \in Messages : stream[m].exception_id \in ExceptionIds
           /\ \A w \in Workers : worker[w].pc \notin Unburdened =>
                 worker[w].m \in Messages /\ JobOf(w) \in ExceptionIds
BY MessagesAreNumbers DEF TypeOK, IngressTypeOK, Request, WorkerTypeOK, JobOf, Entry

\* What an API handler may do: move a record forward, publish a job, or neither.
LEMMA ApiMoves ==
    ASSUME TypeOK, NEW q \in Requests, ApiStep(q)
    PROVE  /\ UNCHANGED <<worker, attempts>>
           /\ \A e \in ExceptionIds :
                 \/ records'[e] = records[e]
                 \/ e = req[q].e /\ req[q].pc = "create" /\ StateOf(e) = "ABSENT" /\ StateOf(e)' = "RECEIVED"
                 \/ e = req[q].e /\ req[q].pc = "queue" /\ StateOf(e) = "RECEIVED" /\ StateOf(e)' = "QUEUED"
                       /\ req' = [req EXCEPT ![q].pc = "publish"]
                 \/ e = req[q].e /\ req[q].pc = "compensate" /\ StateOf(e) = "QUEUED" /\ StateOf(e)' = "FAILED"
<1> USE DEF ApiStep, workerVars
<1>0. req[q].e \in ExceptionIds /\ RepositoryTypeOK  BY ActorsHaveJobs DEF TypeOK
<1>1. CASE Create(q)
  BY <1>0, <1>1 DEF Create, Insert, InsertConflicts, RepositoryTypeOK, StateOf, Absent
<1>2. CASE Enqueue(q)     BY <1>0, <1>2, TransitionMoves DEF Enqueue, StateConflict, Goto
<1>3. CASE Compensate(q)  BY <1>0, <1>3, TransitionMoves DEF Compensate, StateConflict
<1>4. CASE UNCHANGED records  BY <1>4
<1> QED BY <1>1, <1>2, <1>3, <1>4
        DEF Handle, Submit, Lookup, Reread, ReadWinner, Publish, PublishFails, RequestAborted

\* What a worker may do to a record: only to the one its delivery names.
LEMMA WorkerMoves ==
    ASSUME TypeOK, NEW w \in Workers, WorkerStep(w)
    PROVE  /\ UNCHANGED <<req, interrupted>>
           /\ \A e \in ExceptionIds :
                 \/ records'[e] = records[e]
                 \/ e = JobOf(w) /\ Start(w) /\ StateOf(e) = "QUEUED" /\ StateOf(e)' = "PROCESSING"
                 \/ e = JobOf(w) /\ Requeue(w) /\ StateOf(e) = "PROCESSING" /\ StateOf(e)' = "QUEUED"
                 \/ e = JobOf(w) /\ StateOf(e) = "PROCESSING" /\ StateOf(e)' \in Terminal
<1> USE DEF WorkerStep, ingressVars, Unburdened
<1>0. RepositoryTypeOK /\ (worker[w].pc \notin Unburdened => JobOf(w) \in ExceptionIds)
  BY ActorsHaveJobs DEF TypeOK
<1>1. CASE FailInterrupted(w)
  BY <1>0, <1>1, TransitionMoves DEF FailInterrupted, Persist, StateConflict, Terminal
<1>2. CASE Start(w)
  BY <1>0, <1>2, TransitionMoves DEF Start, Startable, Persist, StateConflict
<1>3. CASE Complete(w)
  BY <1>0, <1>3, TransitionMoves DEF Complete, Persist, StateConflict, Terminal
<1>4. CASE FailExhausted(w)
  BY <1>0, <1>4, TransitionMoves DEF FailExhausted, Persist, StateConflict, Terminal
<1>5. CASE Requeue(w)  BY <1>0, <1>5, TransitionMoves DEF Requeue, StateConflict
<1>6. CASE UNCHANGED records  BY <1>6
<1> QED BY <1>1, <1>2, <1>3, <1>4, <1>5, <1>6
        DEF Work, WorkerStart, ClaimStale, CountDeliveries, Read, QueueOperationFails, Consult,
            ModelAnswers, Acknowledge, DeliveryError, WorkerCrash

\* No step writes a terminal record, or takes one back behind QUEUED.
LEMMA RecordsMoveForward ==
    ASSUME TypeOK, [Next]_vars
    PROVE  \A e \in ExceptionIds :
              /\ StateOf(e) \in Terminal => records'[e] = records[e]
              /\ StateOf(e) \notin {"ABSENT", "RECEIVED"} => StateOf(e)' \notin {"ABSENT", "RECEIVED"}
<1> USE DEF Terminal, StateOf
<1>1. ASSUME NEW q \in Requests, ApiStep(q)
      PROVE  \A e \in ExceptionIds :
              /\ StateOf(e) \in Terminal => records'[e] = records[e]
              /\ StateOf(e) \notin {"ABSENT", "RECEIVED"} => StateOf(e)' \notin {"ABSENT", "RECEIVED"}
  BY <1>1, ApiMoves
<1>2. ASSUME NEW w \in Workers, WorkerStep(w)
      PROVE  \A e \in ExceptionIds :
              /\ StateOf(e) \in Terminal => records'[e] = records[e]
              /\ StateOf(e) \notin {"ABSENT", "RECEIVED"} => StateOf(e)' \notin {"ABSENT", "RECEIVED"}
  BY <1>2, WorkerMoves
<1>3. CASE UNCHANGED records  BY <1>3
<1> QED BY <1>1, <1>2, <1>3 DEF Next, GoesStale, vars

\* A terminal record is never written again: the compare-and-set of every transition excludes it.
THEOREM TerminalIsFinalHolds == Spec => TerminalIsFinal
<1>1. TypeOK /\ [Next]_vars =>
        [\A e \in ExceptionIds : StateOf(e) \in Terminal => records'[e] = records[e]]_vars
  BY RecordsMoveForward
<1> QED BY <1>1, TypeCorrect, PTL DEF Spec, TerminalIsFinal

-----------------------------------------------------------------------------
\* What a step does to the handlers, the workers and the stream, in the terms of the invariants.

\* A handler that goes on changes its place; one that answers, or takes a request, leaves its
\* publish window.
LEMMA HandlerPlaces ==
    ASSUME req \in [Requests -> Request], NEW q \in Requests
    PROVE  /\ \A pc : Goto(q, pc) =>
                 /\ \A p \in Requests : p # q => req'[p] = req[p]
                 /\ req'[q].pc = pc /\ req'[q].e = req[q].e
           /\ \A code, state : Reply(q, code, state) =>
                 (\A p \in Requests : p # q => req'[p] = req[p]) /\ req'[q].pc = "idle"
           /\ \A e, reading : Received(q, e, reading) =>
                 (\A p \in Requests : p # q => req'[p] = req[p]) /\ req'[q].pc = "get"
<1>0. req[q] \in Request  OBVIOUS
<1>1. ASSUME NEW pc, Goto(q, pc)
      PROVE  /\ \A p \in Requests : p # q => req'[p] = req[p]
             /\ req'[q].pc = pc /\ req'[q].e = req[q].e
  BY <1>0, <1>1 DEF Goto, Request
<1>2. ASSUME NEW code, NEW state, Reply(q, code, state)
      PROVE  (\A p \in Requests : p # q => req'[p] = req[p]) /\ req'[q].pc = "idle"
  BY <1>0, <1>2 DEF Reply, Request
<1>3. ASSUME NEW e, NEW reading, Received(q, e, reading)
      PROVE  (\A p \in Requests : p # q => req'[p] = req[p]) /\ req'[q].pc = "get"
  BY <1>3 DEF Received
<1> QED BY <1>1, <1>2, <1>3

\* A handler's step leaves the others alone; it enters the publish window only by moving the
\* record from RECEIVED to QUEUED, and leaves it with a job published, the record no longer
\* QUEUED, or its identity among the interrupted.
LEMMA HandlerMoves ==
    ASSUME TypeOK, NEW q \in Requests, ApiStep(q)
    PROVE  /\ \A p \in Requests : p # q => req'[p] = req[p]
           /\ req'[q].pc \in PublishWindow =>
                 /\ req'[q].e = req[q].e
                 /\ \/ /\ req[q].pc = "queue" /\ req'[q].pc = "publish"
                       /\ StateOf(req[q].e) = "RECEIVED" /\ records'[req[q].e].state = "QUEUED"
                    \/ req[q].pc = "publish" /\ req'[q].pc = "compensate"
           /\ interrupted \subseteq interrupted'
           /\ req[q].pc \in PublishWindow /\ req'[q].pc \notin PublishWindow =>
                 \/ req[q].e \in interrupted'
                 \/ records'[req[q].e].state # "QUEUED"
                 \/ req[q].pc = "publish" /\ XAdd(req[q].e, req[q].reading)
<1> USE HandlerPlaces DEF ApiStep, PublishWindow
<1>0. req[q].e \in ExceptionIds /\ RepositoryTypeOK /\ req \in [Requests -> Request]
  BY ActorsHaveJobs DEF TypeOK, IngressTypeOK
<1>1. CASE Submit(q)          BY <1>0, <1>1 DEF Submit
<1>2. CASE Lookup(q)          BY <1>0, <1>2 DEF Lookup
<1>3. CASE Create(q)          BY <1>0, <1>3 DEF Create
<1>4. CASE Reread(q)          BY <1>0, <1>4 DEF Reread
<1>5. CASE Enqueue(q)         BY <1>0, <1>5, TransitionMoves DEF Enqueue, StateOf
<1>6. CASE ReadWinner(q)      BY <1>0, <1>6 DEF ReadWinner
<1>7. CASE Publish(q)         BY <1>0, <1>7 DEF Publish
<1>8. CASE PublishFails(q)    BY <1>0, <1>8 DEF PublishFails
<1>9. CASE Compensate(q)
  <2>1. CASE Transition(req[q].e, {"QUEUED"}, "FAILED", NoReading, "job_queue_unavailable")
    <3>1. records'[req[q].e].state = "FAILED"  BY <1>0, <2>1, TransitionMoves DEF StateOf
    <3> QED BY <1>0, <1>9, <3>1 DEF Compensate
  <2>2. CASE StateConflict(req[q].e, {"QUEUED"})
    <3>1. records'[req[q].e].state # "QUEUED"  BY <2>2 DEF StateConflict, StateOf
    <3> QED BY <1>0, <1>9, <3>1 DEF Compensate
  <2> QED BY <1>9, <2>1, <2>2 DEF Compensate
<1>10. CASE RequestAborted(q) BY <1>0, <1>10 DEF RequestAborted
<1> QED BY <1>1, <1>2, <1>3, <1>4, <1>5, <1>6, <1>7, <1>8, <1>9, <1>10 DEF Handle

\* A handler changes the stream only by publishing the job of its request.
LEMMA HandlerPublishes ==
    ASSUME TypeOK, NEW q \in Requests, ApiStep(q)
    PROVE  \/ UNCHANGED stream
           \/ /\ req[q].pc = "publish" /\ req'[q].pc # "publish"
              /\ XAdd(req[q].e, req[q].reading) /\ req[q].reading \in Readings
<1> USE HandlerPlaces DEF ApiStep
<1>0. req \in [Requests -> Request]
      /\ (req[q].pc # "idle" => req[q].reading \in Readings)
  BY DEF TypeOK, IngressTypeOK
<1>1. CASE Publish(q)         BY <1>0, <1>1 DEF Publish
<1>2. CASE PublishFails(q)    BY <1>0, <1>2 DEF PublishFails
<1>3. CASE UNCHANGED stream   BY <1>3
<1> QED BY <1>1, <1>2, <1>3
        DEF Handle, Submit, Lookup, Create, Reread, Enqueue, ReadWinner, Compensate, RequestAborted

\* The same in terms of messages: none changes, and one more appears if the handler publishes.
LEMMA HandlerMessages ==
    ASSUME TypeOK, NEW q \in Requests, ApiStep(q)
    PROVE  /\ Messages \subseteq Messages' /\ \A m \in Messages : stream'[m] = stream[m]
           /\ \A m \in Messages' \ Messages :
                 /\ req[q].pc = "publish" /\ req'[q].pc # "publish"
                 /\ stream'[m].exception_id = req[q].e /\ stream'[m].status = "new"
           /\ \A m, n \in Messages' \ Messages : m = n
           /\ req[q].pc = "publish" /\ XAdd(req[q].e, req[q].reading) =>
                 \E m \in Messages' : stream'[m].exception_id = req[q].e
<1> DEFINE new == Len(stream) + 1
<1>0. /\ req[q].e \in ExceptionIds /\ QueueTypeOK
      /\ req[q].pc = "publish" => req[q].reading \in Readings
  BY ActorsHaveJobs DEF TypeOK, IngressTypeOK
<1>1. ASSUME req[q].pc = "publish", XAdd(req[q].e, req[q].reading)
      PROVE  /\ Messages' = Messages \cup {new} /\ new \notin Messages
             /\ \A m \in Messages : stream'[m] = stream[m]
             /\ stream'[new].exception_id = req[q].e /\ stream'[new].status = "new"
  <2>1. req[q].reading \in Readings  BY <1>0, <1>1
  <2>2. stream'[new] = [exception_id |-> req[q].e, reading |-> req[q].reading,
                        times |-> 0, status |-> "new"]
    BY <1>0, <1>1, <2>1, XAddType
  <2> QED BY <1>0, <1>1, <2>1, <2>2, XAddType
<1>2. CASE UNCHANGED stream /\ ~(req[q].pc = "publish" /\ XAdd(req[q].e, req[q].reading))
  BY <1>2 DEF Messages
<1> HIDE DEF new
<1>3. CASE req[q].pc = "publish" /\ req'[q].pc # "publish" /\ XAdd(req[q].e, req[q].reading)
  BY <1>1, <1>3
<1>4. CASE UNCHANGED stream /\ req[q].pc = "publish" /\ XAdd(req[q].e, req[q].reading)
  BY <1>1, <1>4 DEF Messages
<1> QED BY <1>2, <1>3, <1>4, HandlerPublishes

\* A command of the queue changes one entry at most: it delivers it, ages it or acknowledges it.
LEMMA QueueCommandMoves ==
    ASSUME QueueTypeOK, NEW m \in Messages,
           \/ XReadGroup(m) \/ XAutoClaim(m) \/ XAck(m) \/ GrowIdle(m)
    PROVE  /\ \A n \in Messages : n # m => stream'[n] = stream[n]
           /\ stream'[m].exception_id = stream[m].exception_id
           /\ \/ stream'[m].status = stream[m].status
              \/ stream'[m].status \in {"pending", "idle"}
              \/ XAck(m) /\ stream'[m].status = "acked"
<1>0. stream[m] \in Entry /\ m \in DOMAIN stream /\ Messages = DOMAIN stream
  BY MessagesAreNumbers DEF Messages
<1>1. CASE UNCHANGED stream  BY <1>1
<1>2. CASE XReadGroup(m)  BY <1>0, <1>2 DEF XReadGroup, Rewrite, Entry
<1>3. CASE XAutoClaim(m)  BY <1>0, <1>3 DEF XAutoClaim, Rewrite, Entry
<1>4. CASE XAck(m)        BY <1>0, <1>4 DEF XAck, Rewrite, Entry
<1>5. CASE GrowIdle(m)    BY <1>0, <1>5 DEF GrowIdle, Rewrite, Entry
<1> QED BY <1>1, <1>2, <1>3, <1>4, <1>5

\* A worker neither adds a message nor renames one, and acknowledges its own delivery only.
LEMMA WorkerMessages ==
    ASSUME TypeOK, NEW w \in Workers, WorkerStep(w)
    PROVE  /\ Messages' = Messages
           /\ \A m \in Messages :
                 /\ stream'[m].exception_id = stream[m].exception_id
                 /\ \/ stream'[m].status = stream[m].status
                    \/ stream'[m].status \in {"pending", "idle"}
                    \/ worker[w].pc = "ack" /\ m = worker[w].m /\ stream'[m].status = "acked"
<1> USE DEF WorkerStep
<1>0. QueueTypeOK /\ (worker[w].pc \notin Unburdened => worker[w].m \in Messages)
  BY ActorsHaveJobs DEF TypeOK
<1>1. CASE UNCHANGED stream  BY <1>1 DEF Messages
<1>2. ASSUME NEW m \in Messages, UNCHANGED group, XReadGroup(m) \/ XAutoClaim(m)
      PROVE  /\ Messages' = Messages
             /\ \A n \in Messages :
                   /\ stream'[n].exception_id = stream[n].exception_id
                   /\ stream'[n].status = stream[n].status \/ stream'[n].status \in {"pending", "idle"}
  <2>1. stream'[m].status = "pending"
    <3>1. stream[m] \in Entry /\ m \in DOMAIN stream  BY <1>0, MessagesAreNumbers DEF Messages
    <3> QED BY <1>2, <3>1 DEF XReadGroup, XAutoClaim, Rewrite, Entry
  <2> QED BY <1>0, <1>2, <2>1, QueueCommandType, QueueCommandMoves
<1>3. CASE Acknowledge(w)
  BY <1>0, <1>3, QueueCommandType, QueueCommandMoves DEF Acknowledge, Unburdened
<1>4. CASE ClaimStale(w) /\ stream' # stream  BY <1>2, <1>4 DEF ClaimStale
<1>5. CASE Read(w) /\ stream' # stream        BY <1>2, <1>5 DEF Read, NothingToRead
<1> QED BY <1>1, <1>3, <1>4, <1>5
        DEF Work, WorkerStart, CountDeliveries, QueueOperationFails, Consult, FailInterrupted, Start,
            ModelAnswers, Complete, FailExhausted, Requeue, DeliveryError, WorkerCrash

\* A worker that goes on keeps its delivery; one that lets go, or takes another, is at the
\* start of a round.
LEMMA WorkerPlaces ==
    ASSUME worker \in [Workers -> WorkerState], NEW w \in Workers
    PROVE  /\ \A pc : Await(w, pc) =>
                 /\ \A v \in Workers : v # w => worker'[v] = worker[v]
                 /\ worker'[w].pc = pc /\ worker'[w].m = worker[w].m
           /\ LetGo(w) \/ WorkerCrash(w) =>
                 /\ \A v \in Workers : v # w => worker'[v] = worker[v]
                 /\ worker'[w].pc \in {"claim", "down"}
           /\ ClaimStale(w) \/ CountDeliveries(w) \/ Read(w) =>
                 /\ \A v \in Workers : v # w => worker'[v] = worker[v]
                 /\ worker'[w].pc \in {"claim", "read", "count", "get"}
<1>0. worker[w] \in WorkerState  OBVIOUS
<1>1. ASSUME NEW pc, Await(w, pc)
      PROVE  /\ \A v \in Workers : v # w => worker'[v] = worker[v]
             /\ worker'[w].pc = pc /\ worker'[w].m = worker[w].m
  BY <1>0, <1>1 DEF Await, WorkerState
<1>2. ASSUME LetGo(w) \/ WorkerCrash(w)
      PROVE  /\ \A v \in Workers : v # w => worker'[v] = worker[v]
             /\ worker'[w].pc \in {"claim", "down"}
  BY <1>2 DEF LetGo, WorkerCrash, NoDelivery
<1>3. ASSUME ClaimStale(w) \/ CountDeliveries(w) \/ Read(w)
      PROVE  /\ \A v \in Workers : v # w => worker'[v] = worker[v]
             /\ worker'[w].pc \in {"claim", "read", "count", "get"}
  <2>1. CASE ClaimStale(w)
    <3>1. CASE Await(w, "read")  BY <1>1, <3>1
    <3>2. CASE \E m \in Messages :
                  worker' = [worker EXCEPT ![w] = [pc |-> "count", m |-> m,
                                                   ordinal |-> stream[m].times + 1, count |-> 0]]
      BY <3>2
    <3> QED BY <2>1, <3>1, <3>2 DEF ClaimStale
  <2>2. CASE CountDeliveries(w)  BY <1>0, <2>2 DEF CountDeliveries, WorkerState
  <2>3. CASE Read(w)
    <3>1. CASE LetGo(w)  BY <3>1 DEF LetGo, NoDelivery
    <3>2. CASE \E m \in Messages :
                  worker' = [worker EXCEPT ![w] = [pc |-> "get", m |-> m, ordinal |-> 1, count |-> 1]]
      BY <3>2
    <3> QED BY <2>3, <3>1, <3>2 DEF Read, NothingToRead
  <2> QED BY <1>3, <2>1, <2>2, <2>3
<1> QED BY <1>1, <1>2, <1>3

\* A worker comes to the acknowledgement by finding its record terminal (or gone) or by making
\* it so, and into the model section by moving a QUEUED record to PROCESSING.
LEMMA WorkerAdvances ==
    ASSUME TypeOK, NEW w \in Workers, WorkerStep(w)
    PROVE  /\ \A v \in Workers : v # w => worker'[v] = worker[v]
           /\ worker'[w].pc = "ack" =>
                 /\ worker[w].pc \notin Unburdened /\ worker'[w].m = worker[w].m
                 /\ records'[JobOf(w)].state \in Terminal \/ StateOf(JobOf(w)) = "ABSENT"
           /\ worker'[w].pc \in ModelSection =>
                 /\ worker[w].pc \notin Unburdened /\ worker'[w].m = worker[w].m
                 /\ \/ worker[w].pc \in ModelSection /\ UNCHANGED records
                    \/ StateOf(JobOf(w)) = "QUEUED" /\ records'[JobOf(w)].state = "PROCESSING"
<1> USE WorkerPlaces DEF WorkerStep, ModelSection, Unburdened
<1>0. /\ worker \in [Workers -> WorkerState] /\ RepositoryTypeOK
      /\ worker[w].pc \notin Unburdened => JobOf(w) \in ExceptionIds
  BY ActorsHaveJobs DEF TypeOK, WorkerTypeOK
<1>1. CASE WorkerStart(w)         BY <1>0, <1>1 DEF WorkerStart
<1>2. CASE ClaimStale(w) \/ CountDeliveries(w) \/ Read(w)  BY <1>0, <1>2
<1>3. CASE LetGo(w) \/ WorkerCrash(w)  BY <1>0, <1>3
<1>4. CASE Consult(w)             BY <1>0, <1>4 DEF Consult, StateOf
<1>5. ASSUME NEW target \in Terminal, NEW expected, NEW summary, NEW failure,
             Transition(JobOf(w), expected, target, summary, failure), Await(w, "ack"),
             worker[w].pc \notin Unburdened
      PROVE  worker'[w].pc = "ack" /\ worker'[w].m = worker[w].m /\ records'[JobOf(w)].state \in Terminal
             /\ \A v \in Workers : v # w => worker'[v] = worker[v]
  BY <1>0, <1>5, TransitionMoves DEF StateOf
<1>6. CASE FailInterrupted(w)     BY <1>0, <1>3, <1>5, <1>6 DEF FailInterrupted, Persist, Terminal
<1>7. CASE Start(w)
  <2>1. CASE Transition(JobOf(w), Startable, "PROCESSING", NoReading, "none") /\ Await(w, "model")
    BY <1>0, <1>7, <2>1, TransitionMoves DEF Start, StateOf, Startable
  <2> QED BY <1>3, <1>7, <2>1 DEF Start, Persist
<1>8. CASE ModelAnswers(w)        BY <1>0, <1>8 DEF ModelAnswers
<1>9. CASE Complete(w)            BY <1>0, <1>3, <1>5, <1>9 DEF Complete, Persist, Terminal
<1>10. CASE FailExhausted(w)      BY <1>0, <1>3, <1>5, <1>10 DEF FailExhausted, Persist, Terminal
<1> QED BY <1>1, <1>2, <1>3, <1>4, <1>6, <1>7, <1>8, <1>9, <1>10
        DEF Work, QueueOperationFails, Requeue, Acknowledge, DeliveryError

-----------------------------------------------------------------------------
\* The invariant SafetyInv, part by part.

\* It holds initially: no record, no message, nobody at work.
LEMMA SafetyInit == Init => SafetyInv
<1> SUFFICES ASSUME Init PROVE SafetyInv  OBVIOUS
<1>1. Messages = {}  BY DEF Init, QueueInit, Messages
<1>2. \A e \in ExceptionIds : StateOf(e) = "ABSENT"
  BY DEF Init, RepositoryInit, StateOf, Absent
<1>3. \A q \in Requests : req[q].pc = "idle"  BY DEF Init, IngressInit
<1>4. \A w \in Workers : worker[w].pc = "down"  BY DEF Init, WorkerInit, NoDelivery
<1>5. PublicationInv  BY <1>1, <1>3 DEF PublicationInv, PublishedIsDurable, PublishWindow
<1>6. AcknowledgementInv  BY <1>1, <1>4 DEF AcknowledgementInv, AcknowledgedIsTerminal
<1>7. WorkInv  BY <1>2 DEF WorkInv
<1>8. CallerInv  BY <1>4 DEF CallerInv, ModelSection
<1>9. \A e \in ExceptionIds : records[e].failure = "none" /\ records[e].summary = NoReading
  BY DEF Init, RepositoryInit, Absent
<1>10. \A q \in Requests : req[q].reply = "none"  BY DEF Init, IngressInit
<1>11. DeliveryInv  BY <1>1, <1>4, <1>9 DEF DeliveryInv, ExhaustionIsEarned, Unburdened, WithStatus
<1>12. OutcomeInv  BY <1>2, <1>9, <1>10 DEF OutcomeInv, OneOutcome, RefusalIsVisible
<1> QED BY <1>5, <1>6, <1>7, <1>8, <1>11, <1>12 DEF SafetyInv

\* A step of a worker, or of time, leaves handlers, messages and their exceptions alone.
LEMMA QuietSteps ==
    ASSUME TypeOK, [Next]_vars
    PROVE  \/ \E q \in Requests : ApiStep(q)
           \/ /\ UNCHANGED <<req, interrupted>> /\ Messages' = Messages
              /\ \A m \in Messages : stream'[m].exception_id = stream[m].exception_id
<1>1. ASSUME NEW w \in Workers, WorkerStep(w)
      PROVE  /\ UNCHANGED <<req, interrupted>> /\ Messages' = Messages
             /\ \A m \in Messages : stream'[m].exception_id = stream[m].exception_id
  BY <1>1, WorkerMessages DEF WorkerStep, ingressVars
<1>2. ASSUME NEW m \in Messages, GoesStale(m)
      PROVE  /\ UNCHANGED <<req, interrupted>> /\ Messages' = Messages
             /\ \A n \in Messages : stream'[n].exception_id = stream[n].exception_id
  <2>1. QueueTypeOK /\ GrowIdle(m) /\ UNCHANGED group  BY <1>2 DEF TypeOK, GoesStale, GrowIdle
  <2> QED BY <1>2, <2>1, QueueCommandType, QueueCommandMoves DEF GoesStale, ingressVars
<1>3. CASE UNCHANGED vars  BY <1>3 DEF vars, Messages
<1> QED BY <1>1, <1>2, <1>3 DEF Next

\* A publisher has the record to itself: it got there by the one transition out of RECEIVED.
LEMMA PublicationStep ==
    ASSUME TypeOK, PublicationInv, [Next]_vars
    PROVE  PublicationInv'
<1> USE DEF PublicationInv, PublishedIsDurable, StateOf
<1>1. \A e \in ExceptionIds :
        records[e].state \notin {"ABSENT", "RECEIVED"} => records'[e].state \notin {"ABSENT", "RECEIVED"}
  BY RecordsMoveForward
<1>2. /\ \A q \in Requests : req[q].e \in ExceptionIds
      /\ \A m \in Messages : stream[m].exception_id \in ExceptionIds
  BY ActorsHaveJobs
<1>3. ASSUME NEW q \in Requests, ApiStep(q)
      PROVE  PublicationInv'
  <2> DEFINE fresh == Messages' \ Messages
  <2>1. /\ \A p \in Requests : p # q => req'[p] = req[p]
        /\ req'[q].pc \in PublishWindow =>
              /\ req'[q].e = req[q].e
              /\ \/ /\ req[q].pc = "queue" /\ req'[q].pc = "publish"
                    /\ records[req[q].e].state = "RECEIVED" /\ records'[req[q].e].state = "QUEUED"
                 \/ req[q].pc = "publish" /\ req'[q].pc = "compensate"
    BY <1>3, HandlerMoves
  <2>2. /\ \A m \in Messages : stream'[m] = stream[m]
        /\ \A m \in fresh : /\ req[q].pc = "publish" /\ req'[q].pc # "publish"
                            /\ stream'[m].exception_id = req[q].e
        /\ \A m, n \in fresh : m = n
    BY <1>3, HandlerMessages
  <2>3. \A m \in Messages' : m \in Messages \/ m \in fresh  OBVIOUS
  <2> USE DEF PublishWindow
  <2> HIDE DEF fresh
  <2>4. \A m \in Messages' : records'[stream'[m].exception_id].state \notin {"ABSENT", "RECEIVED"}
    BY <1>1, <1>2, <2>2, <2>3
  <2>5. \A p \in Requests :
          req'[p].pc \in PublishWindow => records'[req'[p].e].state \notin {"ABSENT", "RECEIVED"}
    BY <1>1, <1>2, <2>1
  <2>6. \A p, r \in Requests :
          req'[p].pc \in PublishWindow /\ req'[r].pc \in PublishWindow /\ req'[p].e = req'[r].e => p = r
    BY <2>1
  <2>7. \A p \in Requests, m \in Messages' : req'[p].pc = "publish" => stream'[m].exception_id # req'[p].e
    BY <2>1, <2>2, <2>3
  <2>8. \A m, n \in Messages' : stream'[m].exception_id = stream'[n].exception_id => m = n
    BY <2>2, <2>3
  <2> QED BY <2>4, <2>5, <2>6, <2>7, <2>8
<1>4. CASE /\ UNCHANGED req /\ Messages' = Messages
           /\ \A m \in Messages : stream'[m].exception_id = stream[m].exception_id
  BY <1>1, <1>2, <1>4
<1> QED BY <1>3, <1>4, QuietSteps

\* What a worker found terminal stays so until it has acknowledged, and afterwards.
LEMMA AcknowledgementStep ==
    ASSUME TypeOK, PublicationInv, AcknowledgementInv, [Next]_vars
    PROVE  AcknowledgementInv'
<1> USE DEF AcknowledgementInv, AcknowledgedIsTerminal, StateOf, JobOf
<1>1. \A e \in ExceptionIds : records[e].state \in Terminal => records'[e].state \in Terminal
  BY RecordsMoveForward
<1>2. /\ \A m \in Messages : stream[m].exception_id \in ExceptionIds
      /\ \A w \in Workers : worker[w].pc \notin Unburdened => worker[w].m \in Messages
  BY ActorsHaveJobs
<1>3. ASSUME NEW q \in Requests, ApiStep(q)
      PROVE  AcknowledgementInv'
  <2>1. /\ Messages \subseteq Messages' /\ \A m \in Messages : stream'[m] = stream[m]
        /\ \A m \in Messages' \ Messages : stream'[m].status = "new"
    BY <1>3, HandlerMessages
  <2>2. UNCHANGED worker  BY <1>3, ApiMoves
  <2> QED BY <1>1, <1>2, <2>1, <2>2 DEF Unburdened
<1>4. ASSUME NEW w \in Workers, WorkerStep(w)
      PROVE  AcknowledgementInv'
  <2>1. /\ Messages' = Messages
        /\ \A m \in Messages :
              /\ stream'[m].exception_id = stream[m].exception_id
              /\ \/ stream'[m].status = stream[m].status
                 \/ stream'[m].status \in {"pending", "idle"}
                 \/ worker[w].pc = "ack" /\ m = worker[w].m /\ stream'[m].status = "acked"
    BY <1>4, WorkerMessages
  <2>2. \A v \in Workers : v # w => worker'[v] = worker[v]  BY <1>4, WorkerAdvances
  <2>3. worker'[w].pc = "ack" =>
          /\ worker'[w].m \in Messages /\ worker'[w].m = worker[w].m
          /\ records'[stream[worker[w].m].exception_id].state \in Terminal
    BY <1>2, <1>4, WorkerAdvances DEF PublicationInv, PublishedIsDurable
  <2>4. \A m \in Messages : stream'[m].status = "acked" => records'[stream[m].exception_id].state \in Terminal
    BY <1>1, <1>2, <2>1
  <2>5. \A v \in Workers : worker'[v].pc = "ack" => records'[stream'[worker'[v].m].exception_id].state \in Terminal
    BY <1>1, <1>2, <2>1, <2>2, <2>3 DEF Unburdened
  <2> QED BY <2>1, <2>4, <2>5
<1>5. ASSUME NEW m \in Messages, GoesStale(m)
      PROVE  AcknowledgementInv'
  <2>1. QueueTypeOK /\ GrowIdle(m) /\ UNCHANGED group  BY <1>5 DEF TypeOK, GoesStale, GrowIdle
  <2>2. Messages' = Messages /\ \A n \in Messages : stream'[n].exception_id = stream[n].exception_id
    BY <2>1, QueueCommandType, QueueCommandMoves
  <2>3. \A n \in Messages : stream'[n].status = stream[n].status \/ stream'[n].status = "idle"
    <3>1. stream[m] \in Entry /\ Messages = DOMAIN stream  BY <2>1, MessagesAreNumbers DEF Messages
    <3> QED BY <2>1, <3>1 DEF GrowIdle, Rewrite, Entry
  <2>4. UNCHANGED <<records, worker>>  BY <1>5 DEF GoesStale, workerVars
  <2> QED BY <1>2, <2>2, <2>3, <2>4 DEF Unburdened
<1>6. CASE UNCHANGED vars  BY <1>6 DEF vars, Messages
<1> QED BY <1>3, <1>4, <1>5, <1>6 DEF Next

\* No step takes a job away, and work in progress or in the queue always has one.
LEMMA WorkStep ==
    ASSUME TypeOK, WorkInv, [Next]_vars
    PROVE  WorkInv'
<1> USE DEF WorkInv, StateOf, JobOf, MessagesOf, Publishers
<1>1. \A w \in Workers : worker[w].pc \notin Unburdened => worker[w].m \in Messages
  BY ActorsHaveJobs
<1>2. ASSUME NEW q \in Requests, ApiStep(q)
      PROVE  WorkInv'
  <2>1. \A e \in ExceptionIds :
           \/ records'[e] = records[e]
           \/ records'[e].state \notin {"PROCESSING", "QUEUED"}
           \/ e = req[q].e /\ records'[e].state = "QUEUED" /\ req'[q].pc = "publish" /\ req'[q].e = e
    <3>1. req[q] \in Request /\ req \in [Requests -> Request]  BY DEF TypeOK, IngressTypeOK
    <3> QED BY <1>2, <3>1, ApiMoves DEF Request
  <2>2. /\ Messages \subseteq Messages' /\ \A m \in Messages : stream'[m] = stream[m]
        /\ req[q].pc = "publish" /\ XAdd(req[q].e, req[q].reading) =>
              \E m \in Messages' : stream'[m].exception_id = req[q].e
    BY <1>2, HandlerMessages
  <2>3. /\ \A p \in Requests : p # q => req'[p] = req[p]
        /\ interrupted \subseteq interrupted'
        /\ req'[q].pc \in PublishWindow => req'[q].e = req[q].e
        /\ req[q].pc \in PublishWindow /\ req'[q].pc \notin PublishWindow =>
              \/ req[q].e \in interrupted'
              \/ records'[req[q].e].state # "QUEUED"
              \/ req[q].pc = "publish" /\ XAdd(req[q].e, req[q].reading)
    BY <1>2, HandlerMoves
  <2>4. \A e \in ExceptionIds : MessagesOf(e) # {} => MessagesOf(e)' # {}  BY <2>2
  <2>5. \A e \in ExceptionIds : records'[e].state = "PROCESSING" => MessagesOf(e)' # {}
    BY <2>1, <2>4
  <2>6. ASSUME NEW e \in ExceptionIds \ interrupted', records'[e].state = "QUEUED"
        PROVE  Publishers(e)' # {} \/ MessagesOf(e)' # {}
    <3>1. CASE records[e].state # "QUEUED"  BY <2>1, <2>6, <3>1 DEF PublishWindow
    <3>2. CASE records[e].state = "QUEUED" /\ MessagesOf(e) # {}  BY <2>4, <3>2
    <3>3. CASE records[e].state = "QUEUED" /\ Publishers(e) # {}
      <4>1. PICK p \in Requests : req[p].e = e /\ req[p].pc \in PublishWindow  BY <3>3
      <4>2. CASE p # q  BY <2>3, <4>1, <4>2
      <4>3. CASE p = q /\ req'[q].pc \in PublishWindow  BY <2>3, <4>1, <4>3
      <4>4. CASE p = q /\ req'[q].pc \notin PublishWindow  BY <2>2, <2>3, <2>6, <4>1, <4>4
      <4> QED BY <4>2, <4>3, <4>4
    <3> QED BY <2>3, <2>6, <3>1, <3>2, <3>3
  <2> QED BY <2>5, <2>6
<1>3. ASSUME NEW w \in Workers, WorkerStep(w)
      PROVE  WorkInv'
  <2>1. \A e \in ExceptionIds :
           \/ records'[e] = records[e]
           \/ records'[e].state \notin {"PROCESSING", "QUEUED"}
           \/ records'[e].state = "QUEUED" /\ records[e].state = "PROCESSING"
           \/ e = JobOf(w) /\ worker[w].pc = "start"
    BY <1>3, WorkerMoves DEF Terminal, Start
  <2>2. worker[w].pc = "start" => worker[w].m \in MessagesOf(JobOf(w))  BY <1>1 DEF Unburdened
  <2>3. /\ Messages' = Messages /\ UNCHANGED <<req, interrupted>>
        /\ \A m \in Messages : stream'[m].exception_id = stream[m].exception_id
    BY <1>3, WorkerMessages, WorkerMoves
  <2>4. \A e \in ExceptionIds : MessagesOf(e)' = MessagesOf(e) /\ Publishers(e)' = Publishers(e)
    BY <2>3
  <2> HIDE DEF MessagesOf, Publishers, JobOf
  <2> QED BY <2>1, <2>2, <2>3, <2>4
<1>4. CASE /\ UNCHANGED <<records, req, interrupted>> /\ Messages' = Messages
           /\ \A m \in Messages : stream'[m].exception_id = stream[m].exception_id
  BY <1>4
<1>5. ASSUME NEW m \in Messages, GoesStale(m)
      PROVE  /\ UNCHANGED <<records, req, interrupted>> /\ Messages' = Messages
             /\ \A n \in Messages : stream'[n].exception_id = stream[n].exception_id
  <2>1. QueueTypeOK /\ GrowIdle(m) /\ UNCHANGED group  BY <1>5 DEF TypeOK, GoesStale, GrowIdle
  <2> QED BY <1>5, <2>1, QueueCommandType, QueueCommandMoves DEF GoesStale, ingressVars
<1>6. CASE UNCHANGED vars  BY <1>4, <1>6 DEF vars, Messages
<1> QED BY <1>2, <1>3, <1>4, <1>5, <1>6 DEF Next

\* A worker enters the model section from QUEUED, and while it is there nobody else brings the
\* record back to QUEUED.
LEMMA CallerStep ==
    ASSUME TypeOK, CallerInv, [Next]_vars
    PROVE  CallerInv'
<1> USE DEF CallerInv, StateOf, JobOf
<1>1. /\ \A m \in Messages : stream[m].exception_id \in ExceptionIds
      /\ \A v \in Workers : worker[v].pc \in ModelSection =>
            worker[v].m \in Messages /\ stream[worker[v].m].exception_id \in ExceptionIds
      /\ \A v \in Workers : worker[v].pc \notin Unburdened =>
            worker[v].m \in Messages /\ stream[worker[v].m].exception_id \in ExceptionIds
  BY ActorsHaveJobs DEF ModelSection, Unburdened
<1>2. CASE UNCHANGED worker
  <2>1. \A m \in Messages : m \in Messages' /\ stream'[m].exception_id = stream[m].exception_id
    BY QuietSteps, HandlerMessages
  <2>2. \A e \in ExceptionIds : records[e].state \in {"PROCESSING"} \cup Terminal =>
                                   records'[e].state \in {"PROCESSING"} \cup Terminal
    <3>1. ASSUME NEW q \in Requests, ApiStep(q)
          PROVE  \A e \in ExceptionIds : records[e].state \in {"PROCESSING"} \cup Terminal =>
                                            records'[e] = records[e]
      BY <3>1, ApiMoves DEF Terminal
    <3>2. ASSUME NEW w \in Workers, WorkerStep(w)
          PROVE  \A e \in ExceptionIds : records[e].state \in {"PROCESSING"} \cup Terminal =>
                                            records'[e].state \in {"PROCESSING"} \cup Terminal
      <4>1. worker \in [Workers -> WorkerState]  BY DEF TypeOK, WorkerTypeOK
      <4>2. ~Requeue(w)  BY <1>2, <4>1, WorkerPlaces DEF Requeue
      <4> QED BY <3>2, <4>2, WorkerMoves
    <3>3. CASE UNCHANGED records  BY <3>3
    <3> QED BY <3>1, <3>2, <3>3 DEF Next, GoesStale, vars
  <2> QED BY <1>1, <1>2, <2>1, <2>2
<1>3. ASSUME NEW w \in Workers, WorkerStep(w)
      PROVE  CallerInv'
  <2>1. \A m \in Messages : stream'[m].exception_id = stream[m].exception_id
    BY <1>3, WorkerMessages
  <2>2. /\ \A v \in Workers : v # w => worker'[v] = worker[v]
        /\ worker'[w].pc \in ModelSection =>
              /\ worker[w].pc \notin Unburdened /\ worker'[w].m = worker[w].m
              /\ \/ worker[w].pc \in ModelSection /\ UNCHANGED records
                 \/ records[JobOf(w)].state = "QUEUED" /\ records'[JobOf(w)].state = "PROCESSING"
    BY <1>3, WorkerAdvances
  <2>3. \A v, u \in Workers :
          worker'[v].pc \in ModelSection /\ worker'[u].pc \in ModelSection
            /\ stream'[worker'[v].m].exception_id = stream'[worker'[u].m].exception_id => v = u
    BY <1>1, <2>1, <2>2 DEF Terminal
  <2>4. \A v \in Workers :
          worker'[v].pc \in ModelSection =>
            records'[stream'[worker'[v].m].exception_id].state \in {"PROCESSING"} \cup Terminal
    <3>1. CASE UNCHANGED records  BY <1>1, <2>1, <2>2, <3>1
    <3>2. ASSUME NEW v \in Workers, v # w, worker[v].pc \in ModelSection
          PROVE  records'[stream[worker[v].m].exception_id].state \in {"PROCESSING"} \cup Terminal
      <4>1. Requeue(w) => JobOf(v) # JobOf(w)  BY <3>2 DEF Requeue, ModelSection
      <4> QED BY <1>1, <1>3, <3>2, <4>1, WorkerMoves
    <3> QED BY <1>1, <2>1, <2>2, <3>1, <3>2
  <2> QED BY <2>3, <2>4
<1> QED BY <1>2, <1>3, QuietSteps, ApiMoves DEF Next, GoesStale, workerVars, vars

\* A step that writes a record writes the outcome its target state calls for.
LEMMA OutcomeMoves ==
    ASSUME TypeOK, NEW e \in ExceptionIds, NEW f \in ExceptionIds, NEW expected, NEW target,
           NEW summary \in Readings \cup {NoReading}, NEW failure,
           Transition(e, expected, target, summary, failure), OneOutcome,
           "COMPLETED" \notin expected,
           target = "COMPLETED" <=> summary # NoReading,
           target = "FAILED" <=> failure # "none"
    PROVE  /\ records'[f].summary # NoReading <=> records'[f].state = "COMPLETED"
           /\ records'[f].failure # "none" <=> records'[f].state = "FAILED"
<1>1. f \in DOMAIN records /\ records[f] \in ExceptionRecord  BY DEF TypeOK, RepositoryTypeOK
<1>2. CASE f # e  BY <1>1, <1>2 DEF Transition, OneOutcome, StateOf
<1>3. CASE f = e  BY <1>1, <1>3 DEF Transition, OneOutcome, StateOf, ExceptionRecord
<1> QED BY <1>2, <1>3

\* Every transition names a summary for COMPLETED, a reason for FAILED, and neither otherwise.
LEMMA OneOutcomeStep ==
    ASSUME TypeOK, OneOutcome, [Next]_vars
    PROVE  OneOutcome'
<1> DEFINE Sound(f) == /\ records'[f].summary # NoReading <=> records'[f].state = "COMPLETED"
                       /\ records'[f].failure # "none" <=> records'[f].state = "FAILED"
<1> SUFFICES ASSUME NEW f \in ExceptionIds PROVE Sound(f)  BY DEF OneOutcome, StateOf
<1>0. NoReading \notin Readings  BY ReadingsAssumption
<1>1. CASE UNCHANGED records  BY <1>1 DEF OneOutcome, StateOf
<1>2. ASSUME NEW q \in Requests, ApiStep(q)
      PROVE  Sound(f)
  <2>0. req[q].e \in ExceptionIds /\ records \in [ExceptionIds -> ExceptionRecord]
    BY ActorsHaveJobs DEF TypeOK, RepositoryTypeOK
  <2>1. CASE Create(q)
    BY <1>1, <2>0, <2>1 DEF Create, Insert, InsertConflicts, Absent, OneOutcome, StateOf
  <2>2. CASE Enqueue(q)
    BY <1>1, <2>0, <2>2, OutcomeMoves DEF Enqueue, StateConflict
  <2>3. CASE Compensate(q)
    BY <1>1, <2>0, <2>3, OutcomeMoves DEF Compensate, StateConflict
  <2> QED BY <1>1, <1>2, <2>1, <2>2, <2>3
          DEF ApiStep, Handle, Submit, Lookup, Reread, ReadWinner, Publish, PublishFails, RequestAborted
<1>3. ASSUME NEW w \in Workers, WorkerStep(w)
      PROVE  Sound(f)
  <2>0. worker[w].pc \notin Unburdened => JobOf(w) \in ExceptionIds /\ SummaryOf(w) \in Readings
    BY MessagesAreNumbers DEF TypeOK, WorkerTypeOK, JobOf, SummaryOf, Entry
  <2> USE DEF Persist, StateConflict, Unburdened
  <2>1. CASE FailInterrupted(w)  BY <1>1, <2>0, <2>1, OutcomeMoves DEF FailInterrupted
  <2>2. CASE Start(w)            BY <1>1, <2>0, <2>2, OutcomeMoves DEF Start, Startable
  <2>3. CASE Complete(w)         BY <1>0, <1>1, <2>0, <2>3, OutcomeMoves DEF Complete
  <2>4. CASE FailExhausted(w)    BY <1>1, <2>0, <2>4, OutcomeMoves DEF FailExhausted
  <2>5. CASE Requeue(w)          BY <1>1, <2>0, <2>5, OutcomeMoves DEF Requeue
  <2> QED BY <1>1, <1>3, <2>1, <2>2, <2>3, <2>4, <2>5
          DEF WorkerStep, Work, WorkerStart, ClaimStale, CountDeliveries, Read, QueueOperationFails,
              Consult, ModelAnswers, Acknowledge, DeliveryError, WorkerCrash
<1> QED BY <1>1, <1>2, <1>3 DEF Next, GoesStale, vars

\* A 503 is answered with the compensation that it reports, and no later step undoes it.
LEMMA RefusalStep ==
    ASSUME TypeOK, RefusalIsVisible, [Next]_vars
    PROVE  RefusalIsVisible'
<1> DEFINE Failed(r) == r.state = "FAILED" /\ r.failure = "job_queue_unavailable"
<1>0. \A q \in Requests : req[q].e \in ExceptionIds  BY ActorsHaveJobs
<1>1. \A e \in ExceptionIds : Failed(records[e]) => Failed(records'[e])
  BY RecordsMoveForward DEF Terminal, StateOf
<1>2. ASSUME NEW q \in Requests, ApiStep(q)
      PROVE  RefusalIsVisible'
  <2>0. req \in [Requests -> Request] /\ req[q] \in Request  BY DEF TypeOK, IngressTypeOK
  <2>1. \A p \in Requests : p # q => req'[p] = req[p]  BY <1>2, HandlerMoves
  <2>2. req'[q].reply = "503" => Failed(records'[req'[q].e])
    <3> USE DEF Goto, Reply, Request
    <3>1. CASE Compensate(q)
      <4>1. CASE Transition(req[q].e, {"QUEUED"}, "FAILED", NoReading, "job_queue_unavailable")
        <5>1. Failed(records'[req[q].e])
          BY <1>0, <4>1 DEF Transition, TypeOK, RepositoryTypeOK
        <5> QED BY <2>0, <3>1, <4>1, <5>1 DEF Compensate
      <4>2. CASE StateConflict(req[q].e, {"QUEUED"})
        BY <2>0, <3>1, <4>2 DEF Compensate, StateConflict, Transition
      <4> QED BY <3>1, <4>1, <4>2 DEF Compensate
    <3>2. CASE Submit(q)  BY <2>0, <3>2 DEF Submit, Received
    <3>3. ASSUME NEW pc, Goto(q, pc) PROVE Failed(records'[req'[q].e]) \/ req'[q].reply # "503"
      <4>1. req'[q].reply = req[q].reply /\ req'[q].e = req[q].e  BY <2>0, <3>3
      <4> QED BY <1>0, <1>1, <4>1 DEF RefusalIsVisible
    <3>4. ASSUME NEW code, NEW s, code # "503", Reply(q, code, s) PROVE req'[q].reply # "503"
      BY <2>0, <3>4
    <3> HIDE DEF Goto, Reply, Failed
    <3>5. CASE Lookup(q)      BY <3>3, <3>4, <3>5 DEF Lookup
    <3>6. CASE Create(q)      BY <3>3, <3>6 DEF Create
    <3>7. CASE Reread(q)      BY <3>3, <3>4, <3>7 DEF Reread
    <3>8. CASE Enqueue(q)     BY <3>3, <3>8 DEF Enqueue
    <3>9. CASE ReadWinner(q)  BY <3>3, <3>4, <3>9 DEF ReadWinner
    <3>10. CASE Publish(q) \/ PublishFails(q) \/ RequestAborted(q)
      BY <3>3, <3>4, <3>10 DEF Publish, PublishFails, RequestAborted
    <3> QED BY <1>2, <3>1, <3>2, <3>5, <3>6, <3>7, <3>8, <3>9, <3>10 DEF ApiStep, Handle
  <2> QED BY <1>0, <1>1, <2>1, <2>2 DEF RefusalIsVisible
<1>3. CASE UNCHANGED req  BY <1>0, <1>1, <1>3 DEF RefusalIsVisible
<1> QED BY <1>2, <1>3, WorkerMoves DEF Next, GoesStale, ingressVars, vars

\* No command lowers a delivery count, and only a delivery ends an entry's being new.
LEMMA QueueCommandTimes ==
    ASSUME QueueTypeOK, \A n \in WithStatus("new") : stream[n].times = 0, NEW m \in Messages,
           \/ XReadGroup(m) \/ XAutoClaim(m) \/ XAck(m) \/ GrowIdle(m)
    PROVE  /\ \A n \in Messages : stream'[n].times >= stream[n].times
           /\ \A n \in Messages : stream'[n].status = "new" => stream'[n].times = 0
           /\ XReadGroup(m) => stream'[m].times = 1
           /\ XAutoClaim(m) => stream'[m].times = stream[m].times + 1
<1> USE DEF WithStatus
<1>0. stream[m] \in Entry /\ m \in DOMAIN stream /\ Messages = DOMAIN stream
      /\ \A n \in Messages : stream[n].times \in Nat
  BY MessagesAreNumbers DEF Messages, Entry
<1>1. \A n \in Messages : n # m => stream'[n] = stream[n]  BY QueueCommandMoves
<1>2. CASE UNCHANGED stream /\ ~XReadGroup(m) /\ ~XAutoClaim(m)  BY <1>0, <1>2
<1>3. CASE XReadGroup(m) /\ ~XAutoClaim(m)
  <2>1. stream'[m].times = 1 /\ stream'[m].status = "pending" /\ stream[m].times = 0
    BY <1>0, <1>3 DEF XReadGroup, Rewrite, Entry
  <2> QED BY <1>0, <1>1, <1>3, <2>1
<1>4. CASE XAutoClaim(m) /\ ~XReadGroup(m)
  <2>1. stream'[m].times = stream[m].times + 1 /\ stream'[m].status = "pending"
    BY <1>0, <1>4 DEF XAutoClaim, Rewrite, Entry
  <2> QED BY <1>0, <1>1, <1>4, <2>1
<1>5. CASE XAck(m) /\ stream' # stream /\ ~XReadGroup(m) /\ ~XAutoClaim(m)
  <2>1. stream'[m].times = stream[m].times /\ stream'[m].status = "acked"
    BY <1>0, <1>5 DEF XAck, Rewrite, Entry
  <2> QED BY <1>0, <1>1, <1>5, <2>1
<1>6. CASE GrowIdle(m) /\ ~XReadGroup(m) /\ ~XAutoClaim(m)
  <2>1. stream'[m].times = stream[m].times /\ stream'[m].status = "idle"
    BY <1>0, <1>6 DEF GrowIdle, Rewrite, Entry
  <2> QED BY <1>0, <1>1, <1>6, <2>1
<1>7. ~(XReadGroup(m) /\ XAutoClaim(m))  BY DEF XReadGroup, XAutoClaim
<1> QED BY <1>2, <1>3, <1>4, <1>5, <1>6, <1>7

\* A step never lowers a delivery count, nor makes an entry new again.
LEMMA CountsGrow ==
    ASSUME TypeOK, \A m \in WithStatus("new") : stream[m].times = 0, [Next]_vars
    PROVE  /\ \A m \in Messages : stream'[m].times >= stream[m].times /\ stream[m].times \in Nat
           /\ \A m \in Messages' : stream'[m].status = "new" => stream'[m].times = 0
<1>0. QueueTypeOK /\ \A m \in Messages : stream[m].times \in Nat
  BY MessagesAreNumbers DEF TypeOK, Entry
<1> DEFINE Grown == /\ \A m \in Messages : stream'[m].times >= stream[m].times
                    /\ \A m \in Messages' : stream'[m].status = "new" => stream'[m].times = 0
<1>1. CASE UNCHANGED stream  BY <1>0, <1>1 DEF Messages, WithStatus
<1>2. ASSUME NEW q \in Requests, ApiStep(q), stream' # stream
      PROVE  Grown
  <2>1. req[q].e \in ExceptionIds /\ XAdd(req[q].e, req[q].reading) /\ req[q].reading \in Readings
    BY <1>2, ActorsHaveJobs, HandlerPublishes
  <2> DEFINE new == Len(stream) + 1
  <2>2. /\ Messages' = Messages \cup {new}
        /\ \A m \in Messages : stream'[m] = stream[m]
        /\ stream'[new].times = 0
    <3>1. stream'[new] = [exception_id |-> req[q].e, reading |-> req[q].reading,
                          times |-> 0, status |-> "new"]
      BY <1>0, <2>1, XAddType
    <3> QED BY <1>0, <2>1, <3>1, XAddType
  <2> HIDE DEF new
  <2> QED BY <1>0, <2>2 DEF WithStatus
<1>3. ASSUME NEW m \in Messages, UNCHANGED group, XReadGroup(m) \/ XAutoClaim(m) \/ XAck(m) \/ GrowIdle(m)
      PROVE  Grown
  BY <1>0, <1>3, QueueCommandType, QueueCommandTimes
<1>4. ASSUME NEW w \in Workers, WorkerStep(w), stream' # stream
      PROVE  Grown
  <2>1. worker[w].pc = "ack" => worker[w].m \in Messages  BY ActorsHaveJobs DEF Unburdened
  <2> QED BY <1>3, <1>4, <2>1
          DEF WorkerStep, Work, WorkerStart, ClaimStale, CountDeliveries, Read, NothingToRead,
              QueueOperationFails, Consult, FailInterrupted, Start, ModelAnswers, Complete,
              FailExhausted, Requeue, Acknowledge, DeliveryError, WorkerCrash
<1> QED BY <1>0, <1>1, <1>2, <1>3, <1>4 DEF Next, GoesStale, GrowIdle, vars

\* Delivery counts stay numbers.
LEMMA TimesStayNumbers ==
    ASSUME TypeOK, [Next]_vars
    PROVE  \A m \in Messages' : stream'[m].times \in Nat
<1>1. stream' \in Seq(Entry)  BY TypeStep DEF TypeOK, QueueTypeOK
<1>2. \A m \in DOMAIN stream' : stream'[m] \in Entry  BY <1>1, LenProperties, ElementOfSeq
<1> QED BY <1>2 DEF Messages, Entry

\* What a worker knows of its delivery after a step is true of the delivery.
LEMMA DeliveryKnown ==
    ASSUME TypeOK, DeliveryInv, NEW w \in Workers, WorkerStep(w), worker'[w].pc \notin Unburdened
    PROVE  /\ worker'[w].m \in Messages
           /\ stream'[worker'[w].m].times >= 1 /\ worker'[w].count <= stream'[worker'[w].m].times
           /\ worker'[w].pc \in {"exhausting", "failing"} => Exhausted(worker'[w].count)
<1> USE DEF WorkerStep
<1>0. /\ worker \in [Workers -> WorkerState] /\ worker[w] \in WorkerState /\ QueueTypeOK
      /\ worker[w].pc \notin Unburdened => worker[w].m \in Messages
      /\ \A m \in Messages : stream[m].times \in Nat
  BY MessagesAreNumbers DEF TypeOK, WorkerTypeOK, Entry
<1>1. \A m \in Messages : stream'[m].times >= stream[m].times /\ stream'[m].times \in Nat
  <2>1. [Next]_vars  BY DEF Next
  <2>2. \A m \in Messages' : stream'[m].times \in Nat  BY <2>1, TimesStayNumbers
  <2>3. \A m \in Messages : m \in Messages' /\ stream'[m].times >= stream[m].times
    BY <2>1, CountsGrow, WorkerMessages DEF DeliveryInv
  <2> QED BY <2>2, <2>3
<1>2. CASE ClaimStale(w)
  <2>1. PICK m \in Messages :
          /\ XAutoClaim(m)
          /\ worker' = [worker EXCEPT ![w] = [pc |-> "count", m |-> m,
                                              ordinal |-> stream[m].times + 1, count |-> 0]]
    BY <1>0, <1>2, WorkerPlaces DEF ClaimStale, Unburdened
  <2>2. stream'[m].times = stream[m].times + 1
    BY <1>0, <2>1, QueueCommandTimes DEF DeliveryInv
  <2> QED BY <1>0, <2>1, <2>2
<1>3. CASE Read(w)
  <2>1. PICK m \in Messages :
          /\ XReadGroup(m)
          /\ worker' = [worker EXCEPT ![w] = [pc |-> "get", m |-> m, ordinal |-> 1, count |-> 1]]
    BY <1>0, <1>3, WorkerPlaces DEF Read, NothingToRead, LetGo, NoDelivery, Unburdened
  <2>2. stream'[m].times = 1  BY <1>0, <2>1, QueueCommandTimes DEF DeliveryInv
  <2> QED BY <1>0, <2>1, <2>2
<1>4. CASE CountDeliveries(w)
  <2>1. worker'[w].pc = "get" /\ worker'[w].m = worker[w].m /\ worker'[w].count = TimesDelivered(worker[w].m)
        /\ worker[w].pc \notin Unburdened
    BY <1>0, <1>4 DEF CountDeliveries, WorkerState, Unburdened
  <2>2. stream[worker[w].m].times >= 1  BY <2>1 DEF DeliveryInv
  <2>3. TimesDelivered(worker[w].m) <= stream[worker[w].m].times /\ TimesDelivered(worker[w].m) \in Nat
    BY <1>0, <2>1, <2>2 DEF TimesDelivered
  <2> QED BY <1>0, <1>1, <2>1, <2>2, <2>3
<1>5. ASSUME NEW pc, Await(w, pc), worker[w].pc \notin Unburdened,
             pc \in {"exhausting", "failing"} => Exhausted(worker[w].count)
      PROVE  /\ worker'[w].m \in Messages
             /\ stream'[worker'[w].m].times >= 1 /\ worker'[w].count <= stream'[worker'[w].m].times
             /\ worker'[w].pc \in {"exhausting", "failing"} => Exhausted(worker'[w].count)
  <2>1. worker'[w].pc = pc /\ worker'[w].m = worker[w].m /\ worker'[w].count = worker[w].count
    BY <1>0, <1>5 DEF Await, WorkerState
  <2>2. worker[w].count \in Nat  BY <1>0 DEF WorkerState
  <2> QED BY <1>0, <1>1, <1>5, <2>1, <2>2 DEF DeliveryInv
<1>6. ~LetGo(w) /\ ~WorkerCrash(w) /\ ~WorkerStart(w)
  BY <1>0, WorkerPlaces DEF Unburdened, WorkerStart
<1>7. CASE Consult(w)       BY <1>5, <1>6, <1>7 DEF Consult, Unburdened
<1>8. CASE ModelAnswers(w)  BY <1>5, <1>8 DEF ModelAnswers, Unburdened
<1>9. CASE FailInterrupted(w) \/ Start(w) \/ Complete(w) \/ FailExhausted(w)
  BY <1>5, <1>6, <1>9 DEF FailInterrupted, Start, Complete, FailExhausted, Persist, Unburdened
<1> QED BY <1>2, <1>3, <1>4, <1>6, <1>7, <1>8, <1>9
        DEF Work, QueueOperationFails, Requeue, Acknowledge, DeliveryError

\* Only a worker that found its delivery exhausted records an exhaustion.
LEMMA ExhaustionMoves ==
    ASSUME TypeOK, NEW e \in ExceptionIds, [Next]_vars,
           records'[e].failure \in {"model_provider_exhausted", "processing_attempts_exhausted"}
    PROVE  \/ records'[e].failure = records[e].failure
           \/ \E w \in Workers : worker[w].pc \in {"exhausting", "failing"} /\ e = JobOf(w)
<1> DEFINE Kept == records'[e].failure = records[e].failure
           Earned(w) == worker[w].pc \in {"exhausting", "failing"} /\ e = JobOf(w)
<1>0. records \in [ExceptionIds -> ExceptionRecord] /\ \A q \in Requests : req[q].e \in ExceptionIds
  BY ActorsHaveJobs DEF TypeOK, RepositoryTypeOK
<1>1. CASE UNCHANGED records  BY <1>1
<1>2. ASSUME NEW f, NEW expected, NEW target, NEW summary, NEW failure,
             failure \notin {"model_provider_exhausted", "processing_attempts_exhausted"},
             Transition(f, expected, target, summary, failure)
      PROVE  Kept
  BY <1>0, <1>2 DEF Transition
<1>3. ASSUME NEW q \in Requests, ApiStep(q)
      PROVE  Kept
  <2>1. CASE Create(q)      BY <1>0, <2>1 DEF Create, Insert, InsertConflicts, Absent
  <2>2. CASE Enqueue(q)     BY <1>1, <1>2, <2>2 DEF Enqueue, StateConflict
  <2>3. CASE Compensate(q)  BY <1>1, <1>2, <2>3 DEF Compensate, StateConflict
  <2> QED BY <1>1, <1>3, <2>1, <2>2, <2>3
          DEF ApiStep, Handle, Submit, Lookup, Reread, ReadWinner, Publish, PublishFails, RequestAborted
<1>4. ASSUME NEW w \in Workers, WorkerStep(w)
      PROVE  Kept \/ Earned(w)
  <2> USE DEF Persist, StateConflict
  <2>1. CASE FailInterrupted(w) \/ FailExhausted(w)
    BY <1>0, <1>1, <2>1 DEF FailInterrupted, FailExhausted, Transition
  <2>2. CASE Start(w)     BY <1>1, <1>2, <2>2 DEF Start
  <2>3. CASE Complete(w)  BY <1>1, <1>2, <2>3 DEF Complete
  <2>4. CASE Requeue(w)   BY <1>1, <1>2, <2>4 DEF Requeue
  <2> QED BY <1>1, <1>4, <2>1, <2>2, <2>3, <2>4
          DEF WorkerStep, Work, WorkerStart, ClaimStale, CountDeliveries, Read, QueueOperationFails,
              Consult, ModelAnswers, Acknowledge, DeliveryError, WorkerCrash
<1> QED BY <1>1, <1>3, <1>4 DEF Next, GoesStale, vars

\* The count a worker decides with was true when it was read, and counts only grow.
LEMMA DeliveryStep ==
    ASSUME TypeOK, DeliveryInv, [Next]_vars
    PROVE  DeliveryInv'
<1>1. /\ \A m \in Messages : stream'[m].times >= stream[m].times /\ stream[m].times \in Nat
      /\ \A m \in Messages' : stream'[m].status = "new" => stream'[m].times = 0
  BY CountsGrow DEF DeliveryInv
<1>2. \A m \in Messages : m \in Messages' /\ stream'[m].exception_id = stream[m].exception_id
  BY QuietSteps, HandlerMessages
<1>3. \A m \in Messages' : stream'[m].times \in Nat  BY TimesStayNumbers
<1>4. ASSUME NEW e \in ExceptionIds, NEW m \in Messages, stream[m].exception_id = e,
             stream[m].times >= MaximumAttempts
      PROVE  \E n \in Messages' : stream'[n].exception_id = e /\ stream'[n].times >= MaximumAttempts
  BY <1>1, <1>2, <1>3, <1>4, AttemptsAssumption
<1>5. ASSUME NEW e \in ExceptionIds,
             records'[e].failure \in {"model_provider_exhausted", "processing_attempts_exhausted"}
      PROVE  \E m \in Messages' : stream'[m].exception_id = e /\ stream'[m].times >= MaximumAttempts
  <2>1. CASE records'[e].failure = records[e].failure
    BY <1>4, <1>5, <2>1 DEF DeliveryInv, ExhaustionIsEarned, MessagesOf
  <2>2. ASSUME NEW w \in Workers, worker[w].pc \in {"exhausting", "failing"}, e = JobOf(w)
        PROVE  \E m \in Messages : stream[m].exception_id = e /\ stream[m].times >= MaximumAttempts
    <3>1. worker[w].m \in Messages /\ worker[w].count \in Nat
      BY <2>2 DEF TypeOK, WorkerTypeOK, WorkerState, Unburdened
    <3>2. worker[w].count >= MaximumAttempts /\ worker[w].count <= stream[worker[w].m].times
      BY <2>2 DEF DeliveryInv, Exhausted, Unburdened
    <3> QED BY <1>1, <2>2, <3>1, <3>2, AttemptsAssumption DEF JobOf
  <2> QED BY <1>4, <1>5, <2>1, <2>2, ExhaustionMoves
<1>6. ASSUME NEW v \in Workers, worker'[v].pc \notin Unburdened
      PROVE  /\ stream'[worker'[v].m].times >= 1 /\ worker'[v].count <= stream'[worker'[v].m].times
             /\ worker'[v].pc \in {"exhausting", "failing"} => Exhausted(worker'[v].count)
  <2>1. CASE WorkerStep(v)  BY <1>6, <2>1, DeliveryKnown
  <2>2. CASE worker'[v] = worker[v]
    <3>1. worker[v].m \in Messages /\ worker[v].count \in Nat
      BY <1>6, <2>2 DEF TypeOK, WorkerTypeOK, WorkerState
    <3> QED BY <1>1, <1>2, <1>3, <1>6, <2>2, <3>1 DEF DeliveryInv
  <2>3. ~WorkerStep(v) => worker'[v] = worker[v]
    BY ApiMoves, WorkerAdvances DEF Next, GoesStale, workerVars, vars
  <2> QED BY <2>1, <2>2, <2>3
<1> QED BY <1>1, <1>5, <1>6 DEF DeliveryInv, ExhaustionIsEarned, MessagesOf, WithStatus, Unburdened

-----------------------------------------------------------------------------
\* The theorems.

\* Every part of the invariant is preserved by every step.
LEMMA SafetyStep == TypeOK /\ SafetyInv /\ [Next]_vars => SafetyInv'
<1> SUFFICES ASSUME TypeOK, SafetyInv, [Next]_vars PROVE SafetyInv'  OBVIOUS
<1> USE DEF SafetyInv
<1>1. PublicationInv'      BY PublicationStep
<1>2. AcknowledgementInv'  BY AcknowledgementStep
<1>3. WorkInv'             BY WorkStep
<1>4. CallerInv'           BY CallerStep
<1>5. DeliveryInv'         BY DeliveryStep
<1>6. OutcomeInv'          BY OneOutcomeStep, RefusalStep DEF OutcomeInv
<1> QED BY <1>1, <1>2, <1>3, <1>4, <1>5, <1>6

\* The inductive invariant holds for any number of handlers, workers, exceptions and faults.
THEOREM SafetyHolds == Spec => [](TypeOK /\ SafetyInv)
<1> QED BY TypeInit, TypeStep, SafetyInit, SafetyStep, PTL DEF Spec

\* A message in the stream has a durable record that says QUEUED or later.
THEOREM PublishedIsDurableHolds == Spec => []PublishedIsDurable
<1>1. TypeOK /\ SafetyInv => PublishedIsDurable  BY DEF SafetyInv, PublicationInv
<1> QED BY <1>1, SafetyHolds, PTL

\* No message leaves the pending list before its record is terminal.
THEOREM AcknowledgedIsTerminalHolds == Spec => []AcknowledgedIsTerminal
<1>1. TypeOK /\ SafetyInv => AcknowledgedIsTerminal  BY DEF SafetyInv, AcknowledgementInv
<1> QED BY <1>1, SafetyHolds, PTL

\* Unfinished work of an uninterrupted publisher has a publisher or a deliverable message.
THEOREM NoStrandedWorkHolds == Spec => []NoStrandedWork
<1>1. TypeOK /\ SafetyInv => NoStrandedWork
  <2> SUFFICES ASSUME TypeOK, SafetyInv, NEW e \in ExceptionIds \ interrupted,
                      StateOf(e) \in {"QUEUED", "PROCESSING"}
               PROVE  Publishers(e) # {} \/ \E m \in MessagesOf(e) : Deliverable(m)
    BY DEF NoStrandedWork
  <2>1. Publishers(e) # {} \/ MessagesOf(e) # {}  BY DEF SafetyInv, WorkInv
  <2>2. \A m \in MessagesOf(e) : stream[m].status \notin {"acked", "gone"}
    BY DEF SafetyInv, AcknowledgementInv, AcknowledgedIsTerminal, MessagesOf, Terminal
  <2>3. \A m \in MessagesOf(e) : stream[m].status \in EntryStatus
    BY MessagesAreNumbers DEF TypeOK, MessagesOf, Entry
  <2> QED BY <2>1, <2>2, <2>3 DEF Deliverable, EntryStatus
<1> QED BY <1>1, SafetyHolds, PTL

\* A set without two different members has at most one.
LEMMA AtMostOne ==
    ASSUME NEW S, \A x, y \in S : x = y
    PROVE  Cardinality(S) <= 1
<1>1. CASE S = {}  BY <1>1, FS_EmptySet
<1>2. ASSUME NEW x \in S PROVE Cardinality(S) <= 1
  <2>1. S = {x}  OBVIOUS
  <2>2. Cardinality({x}) = 1  BY FS_Singleton
  <2> QED BY <2>1, <2>2
<1> QED BY <1>1, <1>2

\* However many handlers submit one reading, the stream holds at most one job for it.
THEOREM OneJobPerExceptionHolds == Spec => []OneJobPerException
<1>1. TypeOK /\ SafetyInv => OneJobPerException
  <2> SUFFICES ASSUME SafetyInv, NEW e \in ExceptionIds PROVE Cardinality(MessagesOf(e)) <= 1
    BY DEF OneJobPerException
  <2>1. \A m, n \in MessagesOf(e) : m = n  BY DEF SafetyInv, PublicationInv, MessagesOf
  <2> QED BY <2>1, AtMostOne
<1> QED BY <1>1, SafetyHolds, PTL

\* However many workers receive one message, at most one has a model call in progress.
THEOREM OneModelCallAtATimeHolds == Spec => []OneModelCallAtATime
<1>1. TypeOK /\ SafetyInv => OneModelCallAtATime
  <2> SUFFICES ASSUME SafetyInv, NEW e \in ExceptionIds PROVE Cardinality(Callers(e)) <= 1
    BY DEF OneModelCallAtATime
  <2>1. \A v, w \in Callers(e) : v = w  BY DEF SafetyInv, CallerInv, Callers
  <2> QED BY <2>1, AtMostOne
<1> QED BY <1>1, SafetyHolds, PTL

\* An exhaustion is recorded only of a message delivered MaximumAttempts times.
THEOREM ExhaustionIsEarnedHolds == Spec => []ExhaustionIsEarned
<1>1. TypeOK /\ SafetyInv => ExhaustionIsEarned  BY DEF SafetyInv, DeliveryInv
<1> QED BY <1>1, SafetyHolds, PTL

\* A 503 is, and stays, true of the record it is about.
THEOREM RefusalIsVisibleHolds == Spec => []RefusalIsVisible
<1>1. TypeOK /\ SafetyInv => RefusalIsVisible  BY DEF SafetyInv, OutcomeInv
<1> QED BY <1>1, SafetyHolds, PTL

\* A record has a summary exactly if it is COMPLETED and a reason exactly if it is FAILED.
THEOREM OneOutcomeHolds == Spec => []OneOutcome
<1>1. TypeOK /\ SafetyInv => OneOutcome  BY DEF SafetyInv, OutcomeInv
<1> QED BY <1>1, SafetyHolds, PTL

-----------------------------------------------------------------------------
\* The reset.  Every step of a handler or of a worker keeps a steady job for whatever is
\* unfinished and not forfeit, in whatever order the three commands come in between.

\* Without a reset the safety invariant says more.
LEMMA SafeIsSteady ==
    ASSUME TypeOK, SafetyInv
    PROVE  SteadyInv
<1> SUFFICES ASSUME NEW e \in ExceptionIds \ Forfeit, StateOf(e) \in Unfinished, Publishers(e) = {}
             PROVE  \E m \in MessagesOf(e) : Steady(m)
  BY DEF SteadyInv
<1> USE DEF Unfinished, Terminal
<1>1. PICK m \in MessagesOf(e) : TRUE  BY DEF SafetyInv, WorkInv, Forfeit
<1>2. m \in Messages /\ stream[m].exception_id = e  BY DEF MessagesOf
<1>3. stream[m].status \in EntryStatus  BY <1>2, MessagesAreNumbers DEF TypeOK, Entry
<1>4. Deliverable(m)
  BY <1>2, <1>3 DEF SafetyInv, AcknowledgementInv, AcknowledgedIsTerminal, EntryStatus, Deliverable
<1>5. \A w \in Workers : worker[w].pc = "ack" => worker[w].m # m
  BY <1>2 DEF SafetyInv, AcknowledgementInv, JobOf
<1> QED BY <1>4, <1>5 DEF Steady

\* A publisher leaves its window when it is stopped, when it has published, or when its
\* compensation failed the record or came too late.
LEMMA PublisherLeaves ==
    ASSUME TypeOK, NEW q \in Requests, ApiStep(q),
           req[q].pc \in PublishWindow, req'[q].pc \notin PublishWindow
    PROVE  \/ req[q].e \in interrupted'
           \/ records'[req[q].e].state = "FAILED"
           \/ XAdd(req[q].e, req[q].reading) /\ req[q].reading \in Readings
           \/ CompensatesTooLate(q)
<1> USE DEF PublishWindow
<1>0. /\ req[q] \in Request /\ req[q].e \in ExceptionIds /\ RepositoryTypeOK
      /\ req \in [Requests -> Request] /\ req[q].reading \in Readings
  BY ActorsHaveJobs DEF TypeOK, IngressTypeOK
<1>1. CASE Publish(q)  BY <1>0, <1>1 DEF Publish
<1>2. CASE PublishFails(q)
  <2>1. req'[q].pc = "compensate"  BY <1>0, <1>2, HandlerPlaces DEF PublishFails
  <2> QED BY <2>1
<1>3. CASE Compensate(q)
  <2>1. CASE Transition(req[q].e, {"QUEUED"}, "FAILED", NoReading, "job_queue_unavailable")
    BY <1>0, <2>1, TransitionMoves DEF StateOf
  <2>2. CASE Reply(q, "500", "ABSENT")
    <3>1. req'[q].reply = "500"  BY <1>0, <2>2 DEF Reply, Request
    <3> QED BY <1>3, <3>1 DEF Compensate, CompensatesTooLate
  <2> QED BY <1>3, <2>1, <2>2 DEF Compensate
<1>4. CASE RequestAborted(q)  BY <1>4 DEF RequestAborted
<1> QED BY <1>1, <1>2, <1>3, <1>4
        DEF ApiStep, Handle, Submit, Lookup, Create, Reread, Enqueue, ReadWinner

\* A step of the pipeline makes nothing less forfeit.
LEMMA ForfeitGrows ==
    ASSUME TypeOK, Next, DuringReset
    PROVE  Forfeit \subseteq Forfeit'
<1>1. interrupted \subseteq interrupted'
  BY HandlerMoves DEF Next, WorkerStep, GoesStale, ingressVars
<1>2. untaken \subseteq untaken' /\ caught' = caught  BY DEF DuringReset
<1> QED BY <1>1, <1>2 DEF Forfeit

\* A handler: a record becomes unfinished in the hands of its publisher, who leaves it with a
\* new job that no worker holds, or forfeit.
LEMMA SteadyForHandler ==
    ASSUME TypeOK, SteadyInv, phase # "ready", DuringReset, NEW q \in Requests, ApiStep(q)
    PROVE  SteadyInv'
<1> SUFFICES ASSUME NEW e \in ExceptionIds, e \notin Forfeit', StateOf(e)' \in Unfinished
             PROVE  Publishers(e)' # {} \/ \E m \in MessagesOf(e)' : Steady(m)'
  BY DEF SteadyInv
<1> USE DEF Unfinished, PublishWindow
<1>1. e \notin Forfeit  BY ForfeitGrows DEF Next
<1>2. \A p \in Requests : p # q => req'[p] = req[p]  BY HandlerMoves
<1>3. UNCHANGED worker  BY ApiMoves
<1>4. CASE StateOf(e) \notin Unfinished
  <2>1. req[q].e = e /\ req' = [req EXCEPT ![q].pc = "publish"]
    BY <1>4, ApiMoves DEF StateOf
  <2>2. req'[q].pc = "publish" /\ req'[q].e = e
    BY <2>1 DEF TypeOK, IngressTypeOK, Request
  <2> QED BY <2>2 DEF Publishers
<1>5. ASSUME NEW m \in MessagesOf(e), Steady(m)
      PROVE  m \in MessagesOf(e)' /\ Steady(m)'
  BY <1>3, <1>5, HandlerMessages DEF MessagesOf, Steady, Deliverable
<1>6. ASSUME NEW p \in Publishers(e), Publishers(e)' = {}
      PROVE  \E m \in MessagesOf(e)' : Steady(m)'
  <2>1. p = q  BY <1>2, <1>6 DEF Publishers
  <2>2. req[q].pc \in PublishWindow /\ req[q].e = e  BY <2>1 DEF Publishers
  <2>3. req'[q].pc \notin PublishWindow  BY <1>6, <2>2, HandlerMoves DEF Publishers
  <2>4. ~CompensatesTooLate(q)  BY <2>2 DEF DuringReset, Forfeit
  <2>5. XAdd(e, req[q].reading) /\ req[q].reading \in Readings
    <3>1. e \notin interrupted'  BY DEF Forfeit
    <3>2. records'[e].state # "FAILED"  BY DEF StateOf
    <3> QED BY <2>2, <2>3, <2>4, <3>1, <3>2, PublisherLeaves
  <2> DEFINE m == Len(stream) + 1
  <2>6. m \in Messages' /\ m \notin Messages /\ stream'[m].exception_id = e /\ stream'[m].status = "new"
    <3>1. QueueTypeOK  BY DEF TypeOK
    <3>2. PICK r \in Readings : XAdd(e, r)  BY <2>5
    <3>3. /\ Messages' = Messages \cup {m} /\ m \notin Messages
          /\ stream'[m] = [exception_id |-> e, reading |-> r, times |-> 0, status |-> "new"]
      BY <3>1, <3>2, XAddType
    <3> QED BY <3>3
  <2>7. \A w \in Workers : worker[w].pc = "ack" => worker[w].m \in Messages
    BY ActorsHaveJobs DEF Unburdened
  <2> HIDE DEF m
  <2> QED BY <1>3, <2>6, <2>7 DEF MessagesOf, Steady, Deliverable
<1>7. CASE StateOf(e) \in Unfinished
  BY <1>1, <1>5, <1>6, <1>7 DEF SteadyInv
<1> QED BY <1>4, <1>7

\* A worker: it acknowledges no steady job, and comes to acknowledge a job only when the record
\* is, at that moment, not unfinished.
LEMMA SteadyForWorker ==
    ASSUME TypeOK, SteadyInv, DuringReset, NEW w \in Workers, WorkerStep(w)
    PROVE  SteadyInv'
<1> SUFFICES ASSUME NEW e \in ExceptionIds, e \notin Forfeit', StateOf(e)' \in Unfinished
             PROVE  Publishers(e)' # {} \/ \E m \in MessagesOf(e)' : Steady(m)'
  BY DEF SteadyInv
<1> USE DEF Unfinished, Terminal
<1>1. e \notin Forfeit  BY ForfeitGrows DEF Next
<1>2. Publishers(e)' = Publishers(e)  BY WorkerMoves DEF Publishers
<1>3. StateOf(e) \in Unfinished  BY WorkerMoves DEF StateOf
<1>4. ASSUME NEW m \in MessagesOf(e), Steady(m)
      PROVE  m \in MessagesOf(e)' /\ Steady(m)'
  <2>1. m \in Messages /\ stream[m].exception_id = e  BY DEF MessagesOf
  <2>2. m \in Messages' /\ stream'[m].exception_id = e /\ Deliverable(m)'
    BY <1>4, <2>1, WorkerMessages DEF Steady, Deliverable
  <2>3. ASSUME worker'[w].pc = "ack", worker'[w].m = m
        PROVE  FALSE
    <3>1. worker[w].m = m  BY <2>3, WorkerAdvances
    <3>2. JobOf(w) = e  BY <2>1, <3>1 DEF JobOf
    <3> QED BY <1>3, <2>3, <3>2, WorkerAdvances DEF StateOf
  <2>4. \A v \in Workers : v # w => worker'[v] = worker[v]  BY WorkerAdvances
  <2> QED BY <1>4, <2>2, <2>3, <2>4 DEF MessagesOf, Steady
<1> QED BY <1>1, <1>2, <1>3, <1>4 DEF SteadyInv

\* The passing of time.
LEMMA SteadyForTime ==
    ASSUME TypeOK, SteadyInv, DuringReset, NEW n \in Messages, GoesStale(n)
    PROVE  SteadyInv'
<1>1. Messages' = Messages  BY QueueCommandType DEF TypeOK, GoesStale, GrowIdle
<1>2. UNCHANGED <<req, worker, records>>  BY DEF GoesStale, ingressVars, workerVars
<1>3. \A m \in Messages : stream'[m].exception_id = stream[m].exception_id
  BY QueueCommandMoves DEF TypeOK, GoesStale
<1>4. \A m \in Messages : Deliverable(m) => Deliverable(m)'
  BY QueueCommandMoves, <1>1 DEF TypeOK, GoesStale, GrowIdle, Deliverable, WithStatus, XAck, Rewrite
<1>5. Forfeit \subseteq Forfeit'  BY ForfeitGrows DEF Next
<1>6. \A e \in ExceptionIds : StateOf(e)' = StateOf(e) /\ Publishers(e)' = Publishers(e)
  BY <1>2 DEF StateOf, Publishers
<1>7. \A e \in ExceptionIds : \A m \in MessagesOf(e) : Steady(m) => m \in MessagesOf(e)' /\ Steady(m)'
  BY <1>1, <1>2, <1>3, <1>4 DEF MessagesOf, Steady
<1> QED BY <1>5, <1>6, <1>7 DEF SteadyInv

\* TRUNCATE leaves nothing unfinished.
LEMMA TruncateKeeps ==
    ASSUME ResetInv, TruncateExceptions
    PROVE  ResetInv'
<1> USE DEF TruncateExceptions
<1>1. records' \in [ExceptionIds -> ExceptionRecord]
  BY DEF ExceptionRecord, Absent, FailureReason
<1>2. attempts' \in [ExceptionIds -> SUBSET Nat]  OBVIOUS
<1>3. TypeOK'
  BY <1>1, <1>2 DEF ResetInv, TypeOK, RepositoryTypeOK, QueueTypeOK, IngressTypeOK, WorkerTypeOK,
                    ingressVars, Messages
<1>4. \A e \in ExceptionIds : StateOf(e)' = "ABSENT"  BY DEF StateOf, Absent
<1> QED BY <1>3, <1>4 DEF ResetInv, SteadyInv, Unfinished

\* FLUSHDB catches what is unfinished.
LEMMA FlushKeeps ==
    ASSUME ResetInv, FlushDb
    PROVE  ResetInv'
<1> USE DEF FlushDb
<1>1. Messages = 1..Len(stream) /\ stream \in Seq(Entry) /\ \A m \in Messages : stream[m] \in Entry
  BY MessagesAreNumbers DEF ResetInv, TypeOK, QueueTypeOK
<1>2. \A m \in Messages : [stream[m] EXCEPT !.status = "gone"] \in Entry  BY <1>1 DEF Entry, EntryStatus
<1>3. stream' \in [1..Len(stream) -> Entry]  BY <1>1, <1>2
<1>4. stream' \in Seq(Entry) /\ Messages' = Messages
  <2>1. Len(stream) \in Nat  BY <1>1, LenProperties
  <2> QED BY <1>1, <1>3, <2>1 DEF Messages
<1>5. TypeOK'
  BY <1>4 DEF ResetInv, TypeOK, RepositoryTypeOK, QueueTypeOK, IngressTypeOK, WorkerTypeOK,
              ingressVars, workerVars
<1>6. \A e \in ExceptionIds : StateOf(e)' \in Unfinished => e \in caught'  BY DEF StateOf
<1> QED BY <1>5, <1>6 DEF ResetInv, SteadyInv, Forfeit

\* A restarted worker acknowledges nothing.
LEMMA RestartKeeps ==
    ASSUME ResetInv, RestartWorkers
    PROVE  ResetInv'
<1> USE DEF RestartWorkers
<1>1. \A w \in Workers : worker'[w] = NoDelivery("down")  OBVIOUS
<1>2. worker' \in [Workers -> WorkerState]  BY DEF NoDelivery, WorkerState, WorkerPC
<1>3. \A w \in Workers : worker'[w].pc = "down"  BY <1>1 DEF NoDelivery
<1>4. TypeOK'
  BY <1>2, <1>3 DEF ResetInv, TypeOK, RepositoryTypeOK, QueueTypeOK, IngressTypeOK, WorkerTypeOK,
                    ingressVars, Unburdened
<1>5. \A m : Steady(m) => Steady(m)'  BY <1>3 DEF Steady, Deliverable
<1>6. SteadyInv'
  BY <1>5 DEF ResetInv, SteadyInv, Forfeit, StateOf, Publishers, MessagesOf, Messages, ingressVars
<1> QED BY <1>4, <1>6 DEF ResetInv

\* The pipeline's own steps, before the TRUNCATE and after it.
LEMMA PipelineKeeps ==
    ASSUME ResetInv, Next, DuringReset
    PROVE  ResetInv'
<1>1. TypeOK /\ SteadyInv  BY DEF ResetInv
<1>2. TypeOK'  BY <1>1, TypeStep
<1>3. CASE phase = "ready"
  <2>1. SafetyInv'  BY <1>1, <1>3, SafetyStep DEF ResetInv
  <2>2. SteadyInv'  BY <1>2, <2>1, SafeIsSteady, PTL
  <2> QED BY <1>2, <2>1, <2>2 DEF ResetInv
<1>4. CASE phase # "ready"
  <2>1. SteadyInv'
    BY <1>1, <1>4, SteadyForHandler, SteadyForWorker, SteadyForTime DEF Next
  <2> QED BY <1>2, <1>4, <2>1 DEF ResetInv, DuringReset
<1> QED BY <1>3, <1>4

\* The invariant of the pipeline under a reset.
THEOREM ResetInvHolds == ResetSpec => []ResetInv
<1>1. ResetInit => ResetInv
  <2>1. ResetInit => TypeOK /\ SafetyInv  BY TypeInit, SafetyInit DEF ResetInit
  <2> QED BY <2>1, SafeIsSteady DEF ResetInv
<1>2. ResetInv /\ [ResetNext]_<<vars, resetVars>> => ResetInv'
  <2> SUFFICES ASSUME ResetInv, [ResetNext]_<<vars, resetVars>> PROVE ResetInv'  OBVIOUS
  <2>1. CASE Next /\ DuringReset  BY <2>1, PipelineKeeps
  <2>2. CASE TruncateExceptions   BY <2>2, TruncateKeeps
  <2>3. CASE FlushDb              BY <2>3, FlushKeeps
  <2>4. CASE RestartWorkers       BY <2>4, RestartKeeps
  <2>5. CASE UNCHANGED <<vars, resetVars>>
    <3>1. TypeOK'  BY <2>5, TypeStep DEF ResetInv, vars
    <3>2. SafetyInv => SafetyInv'  BY <2>5, SafetyStep DEF ResetInv, vars
    <3>3. SteadyInv'
      BY <2>5 DEF ResetInv, SteadyInv, Forfeit, StateOf, Publishers, MessagesOf, Messages, Steady,
                  Deliverable, vars, resetVars
    <3> QED BY <2>5, <3>1, <3>2, <3>3 DEF ResetInv, resetVars
  <2> QED BY <2>1, <2>2, <2>3, <2>4, <2>5 DEF ResetNext
<1> QED BY <1>1, <1>2, PTL DEF ResetSpec

\* However the three commands of reset-baseline fall among the steps of handlers and workers,
\* only work unfinished at the FLUSHDB, or whose client was told 500, is lost.
THEOREM ResetLosesOnlyWhatItOverlapsHolds == ResetSpec => []ResetLosesOnlyWhatItOverlaps
<1>1. ResetInv => ResetLosesOnlyWhatItOverlaps
  BY DEF ResetInv, SteadyInv, Steady, ResetLosesOnlyWhatItOverlaps
<1> QED BY <1>1, ResetInvHolds, PTL

\* A result that a worker computed for a truncated record never leaves its successor with a
\* summary and a failure reason, or with one that contradicts its state.
THEOREM ResetKeepsOneOutcome == ResetSpec => []OneOutcome
<1>1. ResetInit => OneOutcome
  <2>1. ResetInit => SafetyInv  BY SafetyInit DEF ResetInit
  <2> QED BY <2>1 DEF SafetyInv, OutcomeInv
<1>2. ResetInv /\ OneOutcome /\ [ResetNext]_<<vars, resetVars>> => OneOutcome'
  <2> SUFFICES ASSUME ResetInv, OneOutcome, [ResetNext]_<<vars, resetVars>> PROVE OneOutcome'  OBVIOUS
  <2>1. CASE [Next]_vars  BY <2>1, OneOutcomeStep DEF ResetInv
  <2>2. CASE TruncateExceptions
    BY <2>2 DEF TruncateExceptions, OneOutcome, StateOf, Absent
  <2>3. CASE UNCHANGED records  BY <2>3 DEF OneOutcome, StateOf
  <2> QED BY <2>1, <2>2, <2>3 DEF ResetNext, FlushDb, RestartWorkers, vars
<1> QED BY <1>1, <1>2, ResetInvHolds, PTL DEF ResetSpec

\* A terminal record is removed by the TRUNCATE, and by nothing rewritten: not by the worker
\* that holds an older job of its identity, and not by a handler that outlived the reset.
THEOREM ResetNeverRewrites ==
    ResetSpec => [][\A e \in ExceptionIds :
        StateOf(e) \in Terminal => records'[e] \in {records[e], Absent}]_<<vars, resetVars>>
<1>1. ResetInv /\ [ResetNext]_<<vars, resetVars>> =>
        [\A e \in ExceptionIds :
            StateOf(e) \in Terminal => records'[e] \in {records[e], Absent}]_<<vars, resetVars>>
  BY RecordsMoveForward
     DEF ResetInv, ResetNext, TruncateExceptions, FlushDb, RestartWorkers
<1> QED BY <1>1, ResetInvHolds, PTL DEF ResetSpec
=============================================================================
