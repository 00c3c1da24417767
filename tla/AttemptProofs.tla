------------------------------ MODULE AttemptProofs ------------------------------
(***************************************************************************)
(* How often the model is called for one exception: never more often than  *)
(* the delivery limit, and the pipeline implements the lifecycle that      *)
(* counts its calls.  The argument is about the ordinals of deliveries.    *)
(***************************************************************************)
EXTENDS ExceptionPipelineProofs

-----------------------------------------------------------------------------
\* What a worker's step does to its delivery and to the attempts, in five ways.

SameDelivery(w) == worker'[w].m = worker[w].m /\ worker'[w].ordinal = worker[w].ordinal

HasNone(w) == worker'[w].pc \in Unburdened /\ UNCHANGED attempts

Takes(w) ==
    /\ worker'[w].pc \in {"count", "get"}
    /\ \E m \in Messages :
          /\ worker'[w].m = m /\ worker'[w].ordinal = stream[m].times + 1
          /\ stream'[m].times = stream[m].times + 1
    /\ worker'[w].pc = "get" => worker'[w].count = worker'[w].ordinal
    /\ UNCHANGED attempts

Learns(w) ==
    /\ worker[w].pc = "count" /\ worker'[w].pc = "get"
    /\ SameDelivery(w) /\ worker'[w].count = TimesDelivered(worker[w].m)
    /\ UNCHANGED <<attempts, records, stream>>

Calls(w) ==
    /\ worker[w].pc = "start" /\ worker'[w].pc = "model"
    /\ SameDelivery(w) /\ worker'[w].count = worker[w].count
    /\ StateOf(JobOf(w)) = "QUEUED" /\ records'[JobOf(w)].state = "PROCESSING"
    /\ attempts' = [attempts EXCEPT ![JobOf(w)] = @ \cup {worker[w].ordinal}]

GoesOn(w) ==
    /\ worker[w].pc \notin Unburdened \cup {"count"} /\ worker'[w].pc # "count"
    /\ SameDelivery(w) /\ worker'[w].count = worker[w].count
    /\ worker'[w].pc \in BeforeStart => worker[w].pc \in BeforeStart
    /\ worker'[w].pc \in ModelSection => worker[w].pc \in ModelSection
    /\ worker'[w].pc = "requeue" => ~Exhausted(worker[w].count)
    /\ UNCHANGED attempts

\* A worker that moves to another await of process keeps what it knows of its delivery.
LEMMA AwaitKeeps ==
    ASSUME worker \in [Workers -> WorkerState], NEW w \in Workers, NEW pc, Await(w, pc)
    PROVE  worker'[w].pc = pc /\ SameDelivery(w) /\ worker'[w].count = worker[w].count
BY DEF Await, WorkerState, SameDelivery

\* A step that lets go of the delivery leaves the worker with none.
LEMMA LetGoHasNone ==
    ASSUME worker \in [Workers -> WorkerState], NEW w \in Workers, LetGo(w), UNCHANGED attempts
    PROVE  HasNone(w)
BY DEF LetGo, NoDelivery, HasNone, Unburdened

\* Every step of a worker is one of the five.
LEMMA WorkerDeliveries ==
    ASSUME TypeOK, DeliveryInv, NEW w \in Workers, WorkerStep(w)
    PROVE  HasNone(w) \/ Takes(w) \/ Learns(w) \/ Calls(w) \/ GoesOn(w)
<1> USE DEF WorkerStep
<1>0. /\ worker \in [Workers -> WorkerState] /\ worker[w] \in WorkerState /\ QueueTypeOK
      /\ RepositoryTypeOK /\ attempts \in [ExceptionIds -> SUBSET Nat]
      /\ worker[w].pc \notin Unburdened => JobOf(w) \in ExceptionIds
      /\ \A m \in Messages : stream[m].times \in Nat
  BY ActorsHaveJobs, MessagesAreNumbers DEF TypeOK, WorkerTypeOK, Entry
<1>1. CASE WorkerStart(w)
  BY <1>0, <1>1, AwaitKeeps DEF WorkerStart, HasNone, Unburdened
<1>2. CASE WorkerCrash(w)
  BY <1>0, <1>2 DEF WorkerCrash, NoDelivery, HasNone, Unburdened
<1>3. CASE LetGo(w) /\ UNCHANGED attempts  BY <1>0, <1>3, LetGoHasNone
<1>4. CASE ClaimStale(w)
  <2>1. CASE Await(w, "read")  BY <1>0, <1>4, <2>1, AwaitKeeps DEF ClaimStale, HasNone, Unburdened
  <2>2. ASSUME NEW m \in Messages, XAutoClaim(m),
               worker' = [worker EXCEPT ![w] = [pc |-> "count", m |-> m,
                                                ordinal |-> stream[m].times + 1, count |-> 0]]
        PROVE  Takes(w)
    <3>1. stream'[m].times = stream[m].times + 1
      BY <1>0, <2>2, QueueCommandTimes DEF DeliveryInv
    <3>2. UNCHANGED attempts  BY <1>4 DEF ClaimStale
    <3>3. /\ worker'[w].pc = "count" /\ worker'[w].m = m
          /\ worker'[w].ordinal = stream[m].times + 1
      BY <1>0, <2>2
    <3> QED BY <3>1, <3>2, <3>3 DEF Takes
  <2> QED BY <1>4, <2>1, <2>2 DEF ClaimStale
<1>5. CASE Read(w)
  <2>1. ASSUME NEW m \in Messages, XReadGroup(m),
               worker' = [worker EXCEPT ![w] = [pc |-> "get", m |-> m, ordinal |-> 1, count |-> 1]]
        PROVE  Takes(w)
    <3>1. stream'[m].times = 1  BY <1>0, <2>1, QueueCommandTimes DEF DeliveryInv
    <3>2. stream[m].times = 0  BY <2>1 DEF XReadGroup, DeliveryInv
    <3>3. UNCHANGED attempts  BY <1>5 DEF Read
    <3>4. /\ worker'[w].pc = "get" /\ worker'[w].m = m
          /\ worker'[w].ordinal = 1 /\ worker'[w].count = 1
      BY <1>0, <2>1
    <3> QED BY <3>1, <3>2, <3>3, <3>4 DEF Takes
  <2> QED BY <1>3, <1>5, <2>1 DEF Read, NothingToRead
<1>6. CASE CountDeliveries(w)
  BY <1>0, <1>6 DEF CountDeliveries, WorkerState, Learns, SameDelivery
<1>7. ASSUME NEW pc, Await(w, pc), UNCHANGED attempts,
             worker[w].pc \notin Unburdened \cup {"count"}, pc # "count",
             pc \in BeforeStart => worker[w].pc \in BeforeStart,
             pc \in ModelSection => worker[w].pc \in ModelSection,
             pc = "requeue" => ~Exhausted(worker[w].count)
      PROVE  GoesOn(w)
  BY <1>0, <1>7, AwaitKeeps DEF GoesOn
<1>8. CASE Start(w)
  <2>1. CASE Transition(JobOf(w), Startable, "PROCESSING", NoReading, "none") /\ Await(w, "model")
    <3>1. /\ JobOf(w) \in ExceptionIds
          /\ StateOf(JobOf(w)) = "QUEUED" /\ records'[JobOf(w)].state = "PROCESSING"
      BY <1>0, <1>8, <2>1, TransitionMoves DEF Start, Startable, StateOf, Unburdened
    <3> QED BY <1>0, <1>8, <2>1, <3>1, AwaitKeeps DEF Start, Startable, Calls
  <2>2. CASE StateConflict(JobOf(w), Startable) /\ LetGo(w)
    BY <1>3, <1>8, <2>2 DEF Start, StateConflict
  <2> QED BY <1>8, <2>1, <2>2 DEF Start, Persist
<1> USE DEF Unburdened, BeforeStart, ModelSection
<1>9. CASE Consult(w)       BY <1>3, <1>7, <1>9 DEF Consult
<1>10. CASE ModelAnswers(w) BY <1>7, <1>10 DEF ModelAnswers
<1>11. CASE FailInterrupted(w) \/ Complete(w) \/ FailExhausted(w)
  BY <1>3, <1>7, <1>11 DEF FailInterrupted, Complete, FailExhausted, Persist
<1>12. CASE QueueOperationFails(w) \/ Requeue(w) \/ Acknowledge(w) \/ DeliveryError(w)
  BY <1>3, <1>12 DEF QueueOperationFails, Requeue, Acknowledge, DeliveryError
<1> QED BY <1>1, <1>2, <1>4, <1>5, <1>6, <1>8, <1>9, <1>10, <1>11, <1>12 DEF Work

-----------------------------------------------------------------------------
\* The two invariants, step by step.

\* They hold initially: nobody has a delivery, and nothing was attempted.
LEMMA AttemptsInit == Init => OrdinalInv /\ AttemptInv
<1> SUFFICES ASSUME Init PROVE OrdinalInv /\ AttemptInv  OBVIOUS
<1>1. \A w \in Workers : worker[w].pc = "down"  BY DEF Init, WorkerInit, NoDelivery
<1>2. \A e \in ExceptionIds : attempts[e] = {}  BY DEF Init, WorkerInit
<1>3. OrdinalInv  BY <1>1, <1>2 DEF OrdinalInv, Unburdened, BeforeStart
<1>4. AttemptInv  BY <1>1, <1>2 DEF AttemptInv, ModelSection
<1> QED BY <1>3, <1>4

\* What every step leaves as it is, or only lets grow.
LEMMA DeliveriesStay ==
    ASSUME TypeOK, DeliveryInv, [Next]_vars
    PROVE  /\ \A m \in Messages :
                 /\ m \in Messages' /\ stream'[m].exception_id = stream[m].exception_id
                 /\ stream[m].times \in Nat /\ stream'[m].times \in Nat
                 /\ stream'[m].times >= stream[m].times
           /\ \A e \in ExceptionIds : StateOf(e) \in Terminal => StateOf(e)' \in Terminal
           /\ UNCHANGED <<worker, attempts>> \/ \E w \in Workers : WorkerStep(w)
<1>1. \A m \in Messages : m \in Messages' /\ stream'[m].exception_id = stream[m].exception_id
  BY QuietSteps, HandlerMessages
<1>2. \A m \in Messages : stream'[m].times >= stream[m].times /\ stream[m].times \in Nat
  BY CountsGrow DEF DeliveryInv
<1>3. \A m \in Messages' : stream'[m].times \in Nat  BY TimesStayNumbers
<1>4. \A e \in ExceptionIds : StateOf(e) \in Terminal => StateOf(e)' \in Terminal
  BY RecordsMoveForward DEF StateOf
<1>5. UNCHANGED <<worker, attempts>> \/ \E w \in Workers : WorkerStep(w)
  BY ApiMoves DEF Next, GoesStale, workerVars, vars
<1> QED BY <1>1, <1>2, <1>3, <1>4, <1>5

\* What the numbers of a worker are.
LEMMA OrdinalsAreNumbers ==
    ASSUME TypeOK
    PROVE  /\ \A w \in Workers : worker[w].ordinal \in Nat /\ worker[w].count \in Nat
           /\ \A e \in ExceptionIds : attempts[e] \subseteq Nat
BY DEF TypeOK, WorkerTypeOK, WorkerState

\* The delivery a worker takes is a new one: the queue counts it, and nobody else holds it.
LEMMA OrdinalStep ==
    ASSUME TypeOK, SafetyInv, OrdinalInv, [Next]_vars
    PROVE  OrdinalInv'
<1> USE DEF StateOf, JobOf, MessagesOf
<1>0. DeliveryInv /\ PublicationInv /\ AcknowledgementInv  BY DEF SafetyInv
<1>1. /\ \A m \in Messages :
            /\ m \in Messages' /\ stream'[m].exception_id = stream[m].exception_id
            /\ stream[m].times \in Nat /\ stream'[m].times \in Nat
            /\ stream'[m].times >= stream[m].times
      /\ \A e \in ExceptionIds : records[e].state \in Terminal => records'[e].state \in Terminal
  BY <1>0, DeliveriesStay
<1>2. /\ \A m \in Messages : stream[m].exception_id \in ExceptionIds
      /\ \A w \in Workers : worker[w].pc \notin Unburdened =>
            worker[w].m \in Messages /\ stream[worker[w].m].exception_id \in ExceptionIds
  BY ActorsHaveJobs
<1>3. /\ \A w \in Workers : worker[w].ordinal \in Nat /\ worker[w].count \in Nat
      /\ \A e \in ExceptionIds : attempts[e] \subseteq Nat
  BY OrdinalsAreNumbers
<1>4. \A pc \in BeforeStart : pc \notin Unburdened  BY DEF BeforeStart, Unburdened
<1>5. ASSUME NEW e \in ExceptionIds, NEW k \in attempts[e]
      PROVE  k >= 1 /\ \E m \in MessagesOf(e)' : k <= stream'[m].times
  <2>1. k \in Nat /\ k >= 1  BY <1>3 DEF OrdinalInv
  <2>2. PICK m \in Messages : stream[m].exception_id = e /\ k <= stream[m].times
    BY DEF OrdinalInv
  <2> QED BY <1>1, <2>1, <2>2
<1>6. CASE UNCHANGED <<worker, attempts>>
  <2>1. \A v \in Workers : worker[v].pc \notin Unburdened =>
          /\ worker[v].ordinal >= 1 /\ worker[v].ordinal <= stream'[worker[v].m].times
          /\ worker[v].pc # "count" =>
                \/ worker[v].ordinal <= worker[v].count
                \/ records'[stream'[worker[v].m].exception_id].state \in Terminal
    BY <1>1, <1>2, <1>3 DEF OrdinalInv
  <2>2. \A v \in Workers : worker[v].pc \in BeforeStart =>
          worker[v].ordinal \notin attempts[stream'[worker[v].m].exception_id]
    BY <1>1, <1>2, <1>4 DEF OrdinalInv
  <2> QED BY <1>5, <1>6, <2>1, <2>2 DEF OrdinalInv
<1>7. ASSUME NEW w \in Workers, WorkerStep(w)
      PROVE  OrdinalInv'
  <2>1. \A v \in Workers : v # w => worker'[v] = worker[v]  BY <1>7, WorkerAdvances
  <2>2. ASSUME NEW v \in Workers, v # w, worker[v].pc \notin Unburdened
        PROVE  /\ worker[v].ordinal <= stream'[worker[v].m].times
               /\ worker[v].pc # "count" =>
                     \/ worker[v].ordinal <= worker[v].count
                     \/ records'[stream'[worker[v].m].exception_id].state \in Terminal
    BY <1>1, <1>2, <1>3, <2>2 DEF OrdinalInv
  <2>3. CASE HasNone(w)
    BY <1>1, <1>2, <1>4, <1>5, <2>1, <2>2, <2>3 DEF OrdinalInv, HasNone
  <2>4. CASE Takes(w)
    <3>1. PICK m \in Messages :
            /\ worker'[w].m = m /\ worker'[w].ordinal = stream[m].times + 1
            /\ stream'[m].times = stream[m].times + 1
      BY <2>4 DEF Takes
    <3>2. ASSUME NEW v \in Workers, v # w, worker[v].pc \notin Unburdened, worker[v].m = m
          PROVE  worker[v].ordinal # worker'[w].ordinal
      BY <1>1, <1>3, <3>1, <3>2 DEF OrdinalInv
    <3>3. worker'[w].ordinal \notin attempts[stream[m].exception_id]
      <4> SUFFICES ASSUME stream[m].times + 1 \in attempts[stream[m].exception_id] PROVE FALSE
        BY <3>1
      <4>1. PICK n \in Messages : /\ stream[n].exception_id = stream[m].exception_id
                                  /\ stream[m].times + 1 <= stream[n].times
        BY <1>2 DEF OrdinalInv
      <4>2. n = m  BY <1>0, <4>1 DEF PublicationInv
      <4> QED BY <1>1, <4>1, <4>2
    <3>4. UNCHANGED attempts /\ worker'[w].ordinal >= 1
          /\ worker'[w].ordinal <= stream'[worker'[w].m].times
      BY <1>1, <2>4, <3>1 DEF Takes
    <3>5. worker'[w].pc # "count" => worker'[w].ordinal <= worker'[w].count
      BY <1>1, <2>4, <3>1 DEF Takes
    <3>6. \A u, v \in Workers :
            worker'[u].pc \notin Unburdened /\ worker'[v].pc \notin Unburdened
              /\ worker'[u].m = worker'[v].m /\ worker'[u].ordinal = worker'[v].ordinal => u = v
      BY <2>1, <3>1, <3>2 DEF OrdinalInv
    <3>7. \A v \in Workers : worker'[v].pc \notin Unburdened =>
            /\ worker'[v].ordinal >= 1 /\ worker'[v].ordinal <= stream'[worker'[v].m].times
            /\ worker'[v].pc # "count" =>
                  \/ worker'[v].ordinal <= worker'[v].count
                  \/ records'[stream'[worker'[v].m].exception_id].state \in Terminal
      BY <2>1, <2>2, <3>4, <3>5 DEF OrdinalInv
    <3>8. \A v \in Workers : worker'[v].pc \in BeforeStart =>
            worker'[v].ordinal \notin attempts'[stream'[worker'[v].m].exception_id]
      BY <1>1, <1>2, <1>4, <2>1, <3>1, <3>3, <3>4 DEF OrdinalInv
    <3> QED BY <1>5, <3>4, <3>6, <3>7, <3>8 DEF OrdinalInv
  <2>5. CASE Learns(w) \/ GoesOn(w)
    <3>1. /\ worker[w].pc \notin Unburdened /\ worker'[w].pc # "count"
          /\ worker'[w].m = worker[w].m /\ worker'[w].ordinal = worker[w].ordinal
          /\ worker'[w].pc \in BeforeStart => worker[w].pc \in BeforeStart
          /\ UNCHANGED attempts
      BY <2>5 DEF Learns, GoesOn, SameDelivery, Unburdened, BeforeStart
    <3>2. \/ worker'[w].ordinal <= worker'[w].count
          \/ records'[stream'[worker'[w].m].exception_id].state \in Terminal
      <4>1. CASE GoesOn(w)
        BY <1>1, <1>2, <3>1, <4>1 DEF GoesOn, OrdinalInv
      <4>2. CASE Learns(w) /\ stream[worker[w].m].status \in {"pending", "idle"}
        BY <3>1, <4>2 DEF Learns, TimesDelivered, OrdinalInv
      <4>3. CASE Learns(w) /\ stream[worker[w].m].status \notin {"pending", "idle"}
        <5>1. worker[w].m \in Messages /\ stream[worker[w].m] \in Entry
          BY <1>2, <3>1, MessagesAreNumbers DEF TypeOK
        <5>2. stream[worker[w].m].status = "acked"
          BY <1>0, <3>1, <4>3, <5>1 DEF Entry, EntryStatus, AcknowledgementInv, DeliveryInv, WithStatus
        <5> QED BY <1>0, <1>1, <1>2, <3>1, <5>1, <5>2 DEF AcknowledgementInv, AcknowledgedIsTerminal
      <4> QED BY <2>5, <4>1, <4>2, <4>3
    <3>3. \A u, v \in Workers :
            worker'[u].pc \notin Unburdened /\ worker'[v].pc \notin Unburdened
              /\ worker'[u].m = worker'[v].m /\ worker'[u].ordinal = worker'[v].ordinal => u = v
      BY <2>1, <3>1 DEF OrdinalInv
    <3>4. worker'[w].ordinal >= 1 /\ worker'[w].ordinal <= stream'[worker'[w].m].times
      BY <1>1, <1>2, <1>3, <3>1 DEF OrdinalInv
    <3>5. \A v \in Workers : worker'[v].pc \notin Unburdened =>
            /\ worker'[v].ordinal >= 1 /\ worker'[v].ordinal <= stream'[worker'[v].m].times
            /\ worker'[v].pc # "count" =>
                  \/ worker'[v].ordinal <= worker'[v].count
                  \/ records'[stream'[worker'[v].m].exception_id].state \in Terminal
      BY <2>1, <2>2, <3>2, <3>4 DEF OrdinalInv
    <3>6. \A v \in Workers : worker'[v].pc \in BeforeStart =>
            worker'[v].ordinal \notin attempts'[stream'[worker'[v].m].exception_id]
      BY <1>1, <1>2, <1>4, <2>1, <3>1 DEF OrdinalInv
    <3> QED BY <1>5, <3>1, <3>3, <3>5, <3>6 DEF OrdinalInv
  <2>6. CASE Calls(w)
    <3> DEFINE e == JobOf(w)
               k == worker[w].ordinal
    <3>1. /\ worker[w].pc \notin Unburdened /\ worker'[w].pc = "model"
          /\ worker'[w].m = worker[w].m /\ worker'[w].ordinal = k /\ worker'[w].count = worker[w].count
          /\ e \in ExceptionIds /\ worker[w].m \in Messages
      BY <1>2, <2>6 DEF Calls, SameDelivery, Unburdened
    <3>2. /\ \A f \in ExceptionIds : f # e => attempts'[f] = attempts[f]
          /\ attempts'[e] = attempts[e] \cup {k}
      BY <2>6, <3>1 DEF Calls, TypeOK, WorkerTypeOK
    <3>3. \A u, v \in Workers :
            worker'[u].pc \notin Unburdened /\ worker'[v].pc \notin Unburdened
              /\ worker'[u].m = worker'[v].m /\ worker'[u].ordinal = worker'[v].ordinal => u = v
      BY <2>1, <3>1 DEF OrdinalInv
    <3>4. worker'[w].ordinal >= 1 /\ worker'[w].ordinal <= stream'[worker'[w].m].times
      BY <1>1, <1>3, <3>1 DEF OrdinalInv
    <3>5. \/ worker'[w].ordinal <= worker'[w].count
          \/ records'[stream'[worker'[w].m].exception_id].state \in Terminal
      BY <1>1, <1>2, <2>6, <3>1 DEF Calls, OrdinalInv
    <3>6. \A v \in Workers : worker'[v].pc \notin Unburdened =>
            /\ worker'[v].ordinal >= 1 /\ worker'[v].ordinal <= stream'[worker'[v].m].times
            /\ worker'[v].pc # "count" =>
                  \/ worker'[v].ordinal <= worker'[v].count
                  \/ records'[stream'[worker'[v].m].exception_id].state \in Terminal
      BY <2>1, <2>2, <3>4, <3>5 DEF OrdinalInv
    <3>7. ASSUME NEW v \in Workers, worker'[v].pc \in BeforeStart
          PROVE  worker'[v].ordinal \notin attempts'[stream'[worker'[v].m].exception_id]
      <4>1. v # w /\ worker'[v] = worker[v]  BY <2>1, <3>1, <3>7 DEF BeforeStart
      <4>2. worker[v].pc \notin Unburdened /\ worker[v].m \in Messages
        BY <1>2, <1>4, <3>7, <4>1
      <4>3. worker[v].ordinal \notin attempts[stream[worker[v].m].exception_id]
        BY <3>7, <4>1 DEF OrdinalInv
      <4>4. stream[worker[v].m].exception_id = e => worker[v].ordinal # k
        BY <1>0, <3>1, <4>1, <4>2 DEF PublicationInv, OrdinalInv
      <4> QED BY <1>1, <1>2, <3>2, <4>1, <4>2, <4>3, <4>4
    <3>8. ASSUME NEW f \in ExceptionIds, NEW n \in attempts'[f]
          PROVE  n >= 1 /\ \E m \in MessagesOf(f)' : n <= stream'[m].times
      <4>1. CASE n \in attempts[f]  BY <1>5, <4>1
      <4>2. CASE f = e /\ n = k  BY <1>1, <3>1, <3>4, <4>2
      <4> QED BY <3>2, <3>8, <4>1, <4>2
    <3> QED BY <3>3, <3>6, <3>7, <3>8 DEF OrdinalInv
  <2> QED BY <1>0, <1>7, <2>3, <2>4, <2>5, <2>6, WorkerDeliveries
<1> QED BY <1>0, <1>6, <1>7, DeliveriesStay

\* A retry is of a delivery below the limit, so a record is QUEUED only after such attempts.
LEMMA AttemptStep ==
    ASSUME TypeOK, SafetyInv, OrdinalInv, AttemptInv, [Next]_vars
    PROVE  AttemptInv'
<1> USE DEF StateOf, JobOf
<1>0. DeliveryInv /\ CallerInv  BY DEF SafetyInv
<1>1. \A m \in Messages : stream'[m].exception_id = stream[m].exception_id
  BY <1>0, DeliveriesStay
<1>2. \A w \in Workers : worker[w].pc \notin Unburdened =>
          worker[w].m \in Messages /\ stream[worker[w].m].exception_id \in ExceptionIds
  BY ActorsHaveJobs
<1>3. \A pc \in ModelSection : pc \notin Unburdened  BY DEF ModelSection, Unburdened
<1>4. ASSUME UNCHANGED attempts
      PROVE  \A e \in ExceptionIds :
                \E k \in attempts'[e] \cup {0} : attempts'[e] \subseteq Retryable \cup {k}
  BY <1>4 DEF AttemptInv
<1>5. ASSUME NEW q \in Requests, ApiStep(q)
      PROVE  AttemptInv'
  <2>1. UNCHANGED <<worker, attempts>>  BY <1>5, ApiMoves
  <2>2. \A e \in ExceptionIds :
          records'[e].state \in {"ABSENT", "RECEIVED", "QUEUED"} => attempts[e] \subseteq Retryable
    BY <1>5, ApiMoves DEF AttemptInv
  <2> QED BY <1>1, <1>2, <1>3, <1>4, <2>1, <2>2 DEF AttemptInv
<1>6. ASSUME NEW w \in Workers, WorkerStep(w)
      PROVE  AttemptInv'
  <2>1. \A v \in Workers : v # w => worker'[v] = worker[v]  BY <1>6, WorkerAdvances
  <2>2. ASSUME ~Calls(w)
        PROVE  /\ UNCHANGED attempts
               /\ worker'[w].pc \in ModelSection =>
                     /\ worker[w].pc \in ModelSection
                     /\ worker'[w].m = worker[w].m /\ worker'[w].ordinal = worker[w].ordinal
               /\ worker'[w].pc = "requeue" => ~Exhausted(worker'[w].count)
    BY <1>0, <1>6, <2>2, WorkerDeliveries
       DEF HasNone, Takes, Learns, GoesOn, SameDelivery, ModelSection, Unburdened
  <2>3. ASSUME worker[w].pc = "requeue", StateOf(JobOf(w)) = "PROCESSING"
        PROVE  attempts[JobOf(w)] \subseteq Retryable
    <3>1. attempts[JobOf(w)] \subseteq Retryable \cup {worker[w].ordinal}
          /\ ~Exhausted(worker[w].count)
      BY <2>3 DEF AttemptInv, ModelSection
    <3>2. worker[w].ordinal >= 1 /\ worker[w].ordinal <= worker[w].count
      BY <2>3 DEF OrdinalInv, Unburdened, Terminal
    <3>3. worker[w].ordinal \in Retryable
      BY <3>1, <3>2, OrdinalsAreNumbers, AttemptsAssumption DEF Retryable, Exhausted
    <3> QED BY <3>1, <3>3
  <2>4. CASE ~Calls(w)
    <3>1. ASSUME NEW e \in ExceptionIds, records'[e].state \in {"ABSENT", "RECEIVED", "QUEUED"}
          PROVE  attempts[e] \subseteq Retryable
      <4>1. CASE records'[e] = records[e]  BY <3>1, <4>1 DEF AttemptInv
      <4>2. CASE e = JobOf(w) /\ worker[w].pc = "requeue" /\ records[e].state = "PROCESSING"
        BY <2>3, <4>2
      <4> QED BY <1>6, <3>1, <4>1, <4>2, WorkerMoves DEF Requeue, Terminal
    <3>2. \A v \in Workers : worker'[v].pc \in ModelSection =>
            attempts[stream'[worker'[v].m].exception_id] \subseteq Retryable \cup {worker'[v].ordinal}
      BY <1>1, <1>2, <1>3, <2>1, <2>2, <2>4 DEF AttemptInv
    <3> QED BY <1>4, <2>1, <2>2, <2>4, <3>1, <3>2 DEF AttemptInv
  <2>5. CASE Calls(w)
    <3> DEFINE e == JobOf(w)
               k == worker[w].ordinal
    <3>1. /\ worker'[w].pc = "model" /\ worker'[w].m = worker[w].m /\ worker'[w].ordinal = k
          /\ e \in ExceptionIds /\ worker[w].m \in Messages
          /\ records[e].state = "QUEUED" /\ records'[e].state = "PROCESSING"
      BY <1>2, <2>5 DEF Calls, SameDelivery, Unburdened
    <3>2. /\ \A f \in ExceptionIds : f # e => attempts'[f] = attempts[f]
          /\ attempts'[e] = attempts[e] \cup {k}
          /\ attempts[e] \subseteq Retryable
      BY <2>5, <3>1 DEF Calls, TypeOK, WorkerTypeOK, AttemptInv
    <3>3. \A f \in ExceptionIds : f # e =>
            (records'[f].state \in {"ABSENT", "RECEIVED", "QUEUED"} => attempts[f] \subseteq Retryable)
      BY <1>6, WorkerMoves DEF AttemptInv
    <3>4. ASSUME NEW v \in Workers, worker'[v].pc \in ModelSection
          PROVE  attempts'[stream'[worker'[v].m].exception_id] \subseteq Retryable \cup {worker'[v].ordinal}
      <4>1. CASE v = w  BY <1>1, <3>1, <3>2, <4>1
      <4>2. CASE v # w
        <5>1. worker'[v] = worker[v] /\ worker[v].m \in Messages
              /\ stream[worker[v].m].exception_id \in ExceptionIds
          BY <1>2, <1>3, <2>1, <3>4, <4>2
        <5>2. stream[worker[v].m].exception_id # e
          BY <1>0, <3>1, <3>4, <5>1 DEF CallerInv, Terminal
        <5> QED BY <1>1, <3>2, <3>4, <5>1, <5>2 DEF AttemptInv
      <4> QED BY <4>1, <4>2
    <3>5. \A v \in Workers : worker'[v].pc = "requeue" => ~Exhausted(worker'[v].count)
      BY <2>1, <3>1 DEF AttemptInv
    <3>7. \A f \in ExceptionIds :
            \E n \in attempts'[f] \cup {0} : attempts'[f] \subseteq Retryable \cup {n}
      BY <3>2 DEF AttemptInv
    <3>8. \A f \in ExceptionIds :
            records'[f].state \in {"ABSENT", "RECEIVED", "QUEUED"} => attempts'[f] \subseteq Retryable
      BY <3>1, <3>2, <3>3
    <3> QED BY <3>4, <3>5, <3>7, <3>8 DEF AttemptInv
  <2> QED BY <2>4, <2>5
<1>7. CASE UNCHANGED <<worker, attempts, records>>
  BY <1>1, <1>2, <1>3, <1>4, <1>7 DEF AttemptInv
<1> QED BY <1>5, <1>6, <1>7 DEF Next, GoesStale, workerVars, vars

-----------------------------------------------------------------------------
\* The theorems.

\* A set of retryable ordinals is smaller than the limit.
LEMMA RetryableIsSmall ==
    ASSUME NEW S, S \subseteq Retryable
    PROVE  IsFiniteSet(S) /\ Cardinality(S) \in Nat /\ Cardinality(S) < MaximumAttempts
<1>1. MaximumAttempts - 1 \in Int /\ 1 \in Int /\ MaximumAttempts \in Nat \ {0}
  BY AttemptsAssumption
<1>2. IsFiniteSet(Retryable) /\ Cardinality(Retryable) = MaximumAttempts - 1
  BY <1>1, FS_Interval DEF Retryable
<1>3. IsFiniteSet(S) /\ Cardinality(S) <= Cardinality(Retryable)  BY <1>2, FS_Subset
<1>4. Cardinality(S) \in Nat  BY <1>3, FS_CardinalityType
<1> QED BY <1>1, <1>2, <1>3, <1>4

\* One member more makes a set larger by one, if it is new.
LEMMA OneMore ==
    ASSUME NEW S, NEW x, IsFiniteSet(S), Cardinality(S) \in Nat
    PROVE  /\ Cardinality(S \cup {x}) <= Cardinality(S) + 1
           /\ x \notin S => Cardinality(S \cup {x}) = Cardinality(S) + 1
<1>1. CASE x \in S
  <2>1. S \cup {x} = S  BY <1>1
  <2>2. Cardinality(S \cup {x}) = Cardinality(S)  BY <2>1, Zenon
  <2> QED BY <1>1, <2>2
<1>2. CASE x \notin S
  <2>1. Cardinality(S \cup {x}) = Cardinality(S) + 1  BY <1>2, FS_AddElement
  <2> QED BY <1>2, <2>1
<1> QED BY <1>1, <1>2

\* The invariant about ordinals and attempts holds with the one it rests on.
THEOREM AttemptsHold == Spec => [](TypeOK /\ SafetyInv /\ OrdinalInv /\ AttemptInv)
<1>1. TypeOK /\ SafetyInv /\ OrdinalInv /\ AttemptInv /\ [Next]_vars => OrdinalInv' /\ AttemptInv'
  BY OrdinalStep, AttemptStep
<1> QED BY <1>1, AttemptsInit, SafetyHolds, PTL DEF Spec

\* The model is called at most MaximumAttempts times for one exception, with any number of
\* workers, crashes, lost acknowledgements and overlapping redeliveries.
THEOREM ModelCallsBoundedHolds == Spec => []ModelCallsBounded
<1>1. AttemptInv => ModelCallsBounded
  <2> SUFFICES ASSUME AttemptInv, NEW e \in ExceptionIds
               PROVE  Cardinality(attempts[e]) <= MaximumAttempts
    BY DEF ModelCallsBounded
  <2>1. PICK k : attempts[e] \subseteq Retryable \cup {k}  BY DEF AttemptInv
  <2> DEFINE below == attempts[e] \ {k}
  <2>2. below \subseteq Retryable  BY <2>1
  <2>3. IsFiniteSet(below) /\ Cardinality(below) \in Nat /\ Cardinality(below) < MaximumAttempts
    BY <2>2, RetryableIsSmall
  <2>4. attempts[e] = below \/ attempts[e] = below \cup {k}  OBVIOUS
  <2> HIDE DEF below
  <2>5. Cardinality(below \cup {k}) <= Cardinality(below) + 1  BY <2>3, OneMore
  <2>6. Cardinality(below \cup {k}) \in Nat  BY <2>3, FS_AddElement, FS_CardinalityType
  <2> QED BY <2>3, <2>4, <2>5, <2>6, AttemptsAssumption
<1> QED BY <1>1, AttemptsHold, PTL

\* A step of the pipeline changes the record of one exception at most, as the lifecycle allows,
\* and counts an attempt exactly when it takes the record from QUEUED to PROCESSING.
LEMMA StepMoves ==
    ASSUME TypeOK, SafetyInv, OrdinalInv, AttemptInv, [Next]_vars
    PROVE  \/ /\ \A e \in ExceptionIds : records'[e].state = records[e].state
              /\ UNCHANGED attempts
           \/ \E e \in ExceptionIds :
                 /\ \A f \in ExceptionIds : f # e => records'[f].state = records[f].state
                 /\ \/ /\ UNCHANGED attempts
                       /\ \/ records[e].state = "ABSENT" /\ records'[e].state = "RECEIVED"
                          \/ records[e].state = "RECEIVED" /\ records'[e].state = "QUEUED"
                          \/ records[e].state = "QUEUED" /\ records'[e].state = "FAILED"
                          \/ records[e].state = "PROCESSING" /\ records'[e].state \in Terminal
                          \/ records[e].state = "PROCESSING" /\ records'[e].state = "QUEUED"
                                /\ attempts[e] \subseteq Retryable
                    \/ /\ records[e].state = "QUEUED" /\ records'[e].state = "PROCESSING"
                       /\ attempts[e] \subseteq Retryable
                       /\ \E k : k \notin attempts[e]
                                 /\ attempts' = [attempts EXCEPT ![e] = @ \cup {k}]
<1> USE DEF StateOf
<1>1. ASSUME NEW q \in Requests, ApiStep(q)
      PROVE  /\ UNCHANGED attempts
             /\ \A e \in ExceptionIds :
                   \/ records'[e] = records[e]
                   \/ /\ e = req[q].e
                      /\ \/ records[e].state = "ABSENT" /\ records'[e].state = "RECEIVED"
                         \/ records[e].state = "RECEIVED" /\ records'[e].state = "QUEUED"
                         \/ records[e].state = "QUEUED" /\ records'[e].state = "FAILED"
  BY <1>1, ApiMoves
<1>2. CASE \E q \in Requests : ApiStep(q)
  BY <1>1, <1>2, ActorsHaveJobs
<1>3. ASSUME NEW w \in Workers, Calls(w), WorkerStep(w)
      PROVE  \E e \in ExceptionIds :
                /\ \A f \in ExceptionIds : f # e => records'[f].state = records[f].state
                /\ records[e].state = "QUEUED" /\ records'[e].state = "PROCESSING"
                /\ attempts[e] \subseteq Retryable
                /\ \E k : k \notin attempts[e]
                          /\ attempts' = [attempts EXCEPT ![e] = @ \cup {k}]
  <2>1. JobOf(w) \in ExceptionIds  BY <1>3, ActorsHaveJobs DEF Calls, Unburdened
  <2>2. \A f \in ExceptionIds : f # JobOf(w) => records'[f].state = records[f].state
    BY <1>3, WorkerMoves
  <2>3. records[JobOf(w)].state = "QUEUED" /\ records'[JobOf(w)].state = "PROCESSING"
    BY <1>3 DEF Calls
  <2>4. attempts[JobOf(w)] \subseteq Retryable  BY <2>1, <2>3 DEF AttemptInv
  <2>5. worker[w].ordinal \notin attempts[JobOf(w)]  BY <1>3 DEF Calls, OrdinalInv, BeforeStart
  <2>6. attempts' = [attempts EXCEPT ![JobOf(w)] = @ \cup {worker[w].ordinal}]
    BY <1>3 DEF Calls
  <2> QED BY <2>1, <2>2, <2>3, <2>4, <2>5, <2>6
<1>4. ASSUME NEW w \in Workers, ~Calls(w), WorkerStep(w)
      PROVE  /\ UNCHANGED attempts
             /\ \A e \in ExceptionIds :
                   \/ records'[e] = records[e]
                   \/ /\ e = JobOf(w)
                      /\ \/ records[e].state = "PROCESSING" /\ records'[e].state \in Terminal
                         \/ records[e].state = "PROCESSING" /\ records'[e].state = "QUEUED"
                               /\ attempts[e] \subseteq Retryable
  <2>1. UNCHANGED attempts
    BY <1>4, WorkerDeliveries DEF SafetyInv, HasNone, Takes, Learns, GoesOn
  <2>2. ASSUME NEW e \in ExceptionIds, Start(w), StateOf(e) = "QUEUED", StateOf(e)' = "PROCESSING",
               e = JobOf(w)
        PROVE  FALSE
    <3>1. worker'[w].pc = "model"
      <4>1. worker \in [Workers -> WorkerState]  BY DEF TypeOK, WorkerTypeOK
      <4> QED BY <2>2, <4>1, AwaitKeeps DEF Start, Persist, StateConflict, Startable
    <3>2. worker[w].pc = "start"  BY <2>2 DEF Start
    <3> QED BY <1>4, <3>1, <3>2, WorkerDeliveries
            DEF SafetyInv, HasNone, Takes, Learns, GoesOn, ModelSection, Unburdened
  <2>3. ASSUME NEW e \in ExceptionIds, e = JobOf(w), records[e].state = "PROCESSING",
               records'[e].state = "QUEUED"
        PROVE  attempts[e] \subseteq Retryable
    <3>1. AttemptInv'  BY AttemptStep
    <3> QED BY <2>1, <2>3, <3>1 DEF AttemptInv
  <2> QED BY <1>4, <2>1, <2>2, <2>3, WorkerMoves
<1>5. CASE \E w \in Workers : WorkerStep(w)
  <2>1. PICK w \in Workers : WorkerStep(w)  BY <1>5
  <2>2. CASE Calls(w)  BY <1>3, <2>1, <2>2
  <2>3. CASE ~Calls(w)
    <3>1. CASE JobOf(w) \in ExceptionIds  BY <1>4, <2>1, <2>3, <3>1
    <3>2. CASE JobOf(w) \notin ExceptionIds  BY <1>4, <2>1, <2>3, <3>2
    <3> QED BY <3>1, <3>2
  <2> QED BY <2>2, <2>3
<1>6. CASE UNCHANGED <<records, attempts>>  BY <1>6
<1> QED BY <1>2, <1>5, <1>6 DEF Next, GoesStale, workerVars, vars

\* The pipeline implements the lifecycle a client sees: whatever handlers and workers do, each
\* step moves one exception along it or is invisible, and an attempt is made, or a retry
\* promised, only while the count of model calls leaves room.
THEOREM PipelineImplementsLifecycle == Spec => ImplementsLifecycle
<1> DEFINE shown == [e \in ExceptionIds |-> records[e].state]
           count == [e \in ExceptionIds |-> Cardinality(attempts[e])]
<1>1. Init => Lifecycle!LifecycleInit
  <2> SUFFICES ASSUME Init PROVE Lifecycle!LifecycleInit  OBVIOUS
  <2>1. \A e \in ExceptionIds : records[e].state = "ABSENT"  BY DEF Init, RepositoryInit, Absent
  <2>2. \A e \in ExceptionIds : Cardinality(attempts[e]) = 0
    BY FS_EmptySet DEF Init, WorkerInit
  <2> QED BY <2>1, <2>2 DEF Lifecycle!LifecycleInit, StateOf
<1>2. ASSUME TypeOK, SafetyInv, OrdinalInv, AttemptInv, [Next]_vars
      PROVE  [Lifecycle!LifecycleNext]_(Lifecycle!lifecycleVars)
  <2> USE DEF StateOf
  <2>1. UNCHANGED attempts => UNCHANGED count  OBVIOUS
  <2>2. CASE (\A e \in ExceptionIds : records'[e].state = records[e].state) /\ UNCHANGED attempts
    BY <2>2 DEF Lifecycle!lifecycleVars
  <2>3. ASSUME NEW e \in ExceptionIds,
               \A f \in ExceptionIds : f # e => records'[f].state = records[f].state
        PROVE  shown' = [shown EXCEPT ![e] = records'[e].state]
    BY <2>3
  <2>4. ASSUME NEW e \in ExceptionIds, attempts[e] \subseteq Retryable
        PROVE  count[e] < MaximumAttempts
    BY <2>4, RetryableIsSmall
  <2>5. ASSUME NEW e \in ExceptionIds, attempts[e] \subseteq Retryable, NEW k, k \notin attempts[e],
               attempts' = [attempts EXCEPT ![e] = @ \cup {k}]
        PROVE  count' = [count EXCEPT ![e] = @ + 1]
    <3>1. Cardinality(attempts[e] \cup {k}) = Cardinality(attempts[e]) + 1
      BY <2>5, RetryableIsSmall, OneMore
    <3>2. attempts \in [ExceptionIds -> SUBSET Nat]  BY <1>2 DEF TypeOK, WorkerTypeOK
    <3>3. attempts'[e] = attempts[e] \cup {k} /\ \A f \in ExceptionIds : f # e => attempts'[f] = attempts[f]
      BY <2>5, <3>2
    <3>4. Cardinality(attempts'[e]) = Cardinality(attempts[e]) + 1  BY <3>1, <3>3
    <3>5. \A f \in ExceptionIds : f # e => Cardinality(attempts'[f]) = Cardinality(attempts[f])
      BY <3>3
    <3> QED BY <3>4, <3>5
  <2>6. ASSUME NEW e \in ExceptionIds,
               \A f \in ExceptionIds : f # e => records'[f].state = records[f].state,
               \/ /\ UNCHANGED attempts
                  /\ \/ records[e].state = "ABSENT" /\ records'[e].state = "RECEIVED"
                     \/ records[e].state = "RECEIVED" /\ records'[e].state = "QUEUED"
                     \/ records[e].state = "QUEUED" /\ records'[e].state = "FAILED"
                     \/ records[e].state = "PROCESSING" /\ records'[e].state \in Terminal
                     \/ records[e].state = "PROCESSING" /\ records'[e].state = "QUEUED"
                           /\ attempts[e] \subseteq Retryable
               \/ /\ records[e].state = "QUEUED" /\ records'[e].state = "PROCESSING"
                  /\ attempts[e] \subseteq Retryable
                  /\ \E k : k \notin attempts[e] /\ attempts' = [attempts EXCEPT ![e] = @ \cup {k}]
        PROVE  Lifecycle!LifecycleNext
    <3>1. \A from, to : records[e].state = from /\ records'[e].state = to => Lifecycle!Move(e, from, to)
      BY <2>3, <2>6 DEF Lifecycle!Move
    <3>2. attempts[e] \subseteq Retryable => count[e] < MaximumAttempts  BY <2>4
    <3>3. CASE records[e].state = "QUEUED" /\ records'[e].state = "PROCESSING"
      <4>1. attempts[e] \subseteq Retryable /\ count' = [count EXCEPT ![e] = @ + 1]
        BY <2>5, <2>6, <3>3 DEF Terminal
      <4>2. Lifecycle!Attempt(e)  BY <3>1, <3>2, <3>3, <4>1 DEF Lifecycle!Attempt
      <4> QED BY <4>2 DEF Lifecycle!LifecycleNext
    <3>4. CASE records[e].state = "PROCESSING" /\ records'[e].state = "QUEUED"
      <4>1. attempts[e] \subseteq Retryable /\ UNCHANGED count  BY <2>1, <2>6, <3>4 DEF Terminal
      <4>2. Lifecycle!Retry(e)  BY <3>1, <3>2, <3>4, <4>1 DEF Lifecycle!Retry
      <4> QED BY <4>2 DEF Lifecycle!LifecycleNext
    <3>5. CASE ~(records[e].state = "QUEUED" /\ records'[e].state = "PROCESSING")
               /\ ~(records[e].state = "PROCESSING" /\ records'[e].state = "QUEUED")
      <4>1. UNCHANGED count  BY <2>1, <2>6, <3>5
      <4>2. \/ Lifecycle!Move(e, "ABSENT", "RECEIVED") \/ Lifecycle!Move(e, "RECEIVED", "QUEUED")
            \/ Lifecycle!Move(e, "QUEUED", "FAILED") \/ Lifecycle!Move(e, "PROCESSING", "COMPLETED")
            \/ Lifecycle!Move(e, "PROCESSING", "FAILED")
        BY <2>6, <3>1, <3>5 DEF Terminal
      <4>3. Lifecycle!Accept(e) \/ Lifecycle!Queue(e) \/ Lifecycle!Refuse(e) \/ Lifecycle!Finish(e)
        BY <4>1, <4>2
           DEF Lifecycle!Accept, Lifecycle!Queue, Lifecycle!Refuse, Lifecycle!Finish
      <4> QED BY <4>3 DEF Lifecycle!LifecycleNext
    <3> QED BY <3>3, <3>4, <3>5
  <2> QED BY <2>2, <2>6, <1>2, StepMoves
<1> QED BY <1>1, <1>2, AttemptsHold, PTL DEF Spec, ImplementsLifecycle, Lifecycle!LifecycleSpec

=============================================================================
