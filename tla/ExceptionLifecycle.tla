--------------------------- MODULE ExceptionLifecycle ---------------------------
(***************************************************************************)
(* What the pipeline promises a client that polls /api/v1/exceptions: the  *)
(* lifecycle of one exception as its state alone shows it, with no queue,  *)
(* no handlers and no workers.  calls counts the calls of the model.       *)
(***************************************************************************)
EXTENDS ExceptionContracts

VARIABLES state, calls
lifecycleVars == <<state, calls>>

LifecycleInit ==
    /\ state = [e \in ExceptionIds |-> "ABSENT"]
    /\ calls = [e \in ExceptionIds |-> 0]

Move(e, from, to) == state[e] = from /\ state' = [state EXCEPT ![e] = to]

\* Work is accepted once, and either queued or visibly refused.
Accept(e) == Move(e, "ABSENT", "RECEIVED") /\ UNCHANGED calls
Queue(e)  == Move(e, "RECEIVED", "QUEUED") /\ UNCHANGED calls
Refuse(e) == Move(e, "QUEUED", "FAILED") /\ UNCHANGED calls

\* An attempt starts only while the limit leaves room for it.
Attempt(e) ==
    /\ calls[e] < MaximumAttempts
    /\ Move(e, "QUEUED", "PROCESSING")
    /\ calls' = [calls EXCEPT ![e] = @ + 1]

\* A failed attempt is retried only if another one may follow.
Retry(e) ==
    /\ calls[e] < MaximumAttempts
    /\ Move(e, "PROCESSING", "QUEUED")
    /\ UNCHANGED calls

Finish(e) ==
    /\ Move(e, "PROCESSING", "COMPLETED") \/ Move(e, "PROCESSING", "FAILED")
    /\ UNCHANGED calls

LifecycleNext ==
    \E e \in ExceptionIds :
        Accept(e) \/ Queue(e) \/ Refuse(e) \/ Attempt(e) \/ Retry(e) \/ Finish(e)

LifecycleSpec == LifecycleInit /\ [][LifecycleNext]_lifecycleVars
=============================================================================
