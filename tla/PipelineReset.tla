------------------------------ MODULE PipelineReset ------------------------------
(***************************************************************************)
(* The exception pipeline while an operator runs "poe reset-baseline"      *)
(* (pyproject.toml): TRUNCATE exceptions, then FLUSHDB, then restart the   *)
(* worker.  The three commands are not one step, and the API keeps         *)
(* serving between them.                                                   *)
(***************************************************************************)
EXTENDS ExceptionPipeline

CONSTANT MaxDeliveries   \* bound: a job that meets a RECEIVED row is redelivered for ever

VARIABLES
    phase,     \* how far the reset has come
    caught,    \* ghost: unfinished work whose job the FLUSHDB removed
    untaken    \* ghost: work whose publication failed since the TRUNCATE and was not taken back
resetVars == <<phase, caught, untaken>>

ResetInit == Init /\ phase = "ready" /\ caught = {} /\ untaken = {}

Unfinished == {"QUEUED", "PROCESSING"}

\* A publisher stopped before this leaves nothing behind: the ghosts start anew with the table.
TruncateExceptions ==
    /\ phase = "ready" /\ phase' = "truncated"
    /\ records' = [e \in ExceptionIds |-> Absent]
    /\ attempts' = [e \in ExceptionIds |-> {}] /\ interrupted' = {}
    /\ UNCHANGED <<stream, group, req, worker, faults, caught, untaken>>

\* The stream and its group are gone.  A worker that holds a delivery still holds it.
FlushDb ==
    /\ phase = "truncated" /\ phase' = "flushed"
    /\ stream' = [m \in Messages |-> [stream[m] EXCEPT !.status = "gone"]]
    /\ group' = FALSE
    /\ caught' = {e \in ExceptionIds : StateOf(e) \in Unfinished}
    /\ UNCHANGED <<records, ingressVars, workerVars, untaken>>

RestartWorkers ==
    /\ phase = "flushed" /\ phase' = "done"
    /\ worker' = [w \in Workers |-> NoDelivery("down")]
    /\ UNCHANGED <<records, stream, group, ingressVars, attempts, faults, caught, untaken>>

DeliveriesBounded == \A m \in Messages : stream[m].times <= MaxDeliveries

\* A compensation that comes too late, because a worker has taken the record for the job of
\* its truncated predecessor: the client is told 500.
CompensatesTooLate(q) == req[q].pc = "compensate" /\ req'[q].reply = "500"

DuringReset ==
    /\ untaken' = IF phase = "ready" THEN untaken
                  ELSE untaken \cup {req[q].e : q \in {p \in Requests : CompensatesTooLate(p)}}
    /\ UNCHANGED <<phase, caught>>

ResetNext ==
    \/ Next /\ DeliveriesBounded' /\ DuringReset
    \/ TruncateExceptions \/ FlushDb \/ RestartWorkers

ResetSpec == ResetInit /\ [][ResetNext]_<<vars, resetVars>>

-----------------------------------------------------------------------------
\* What a reset may lose, or a publisher that was stopped in its window since the TRUNCATE.
Forfeit == interrupted \cup caught \cup untaken

\* A reset under load loses only work that is unfinished at its FLUSHDB or whose client was told
\* 500: whatever is accepted later keeps its job although the group is missing until a worker
\* starts, and a worker that still holds the job of a truncated record takes no newer job with it.
ResetLosesOnlyWhatItOverlaps ==
    \A e \in ExceptionIds \ Forfeit :
        StateOf(e) \in Unfinished =>
            Publishers(e) # {} \/ \E m \in MessagesOf(e) : Deliverable(m)

\* No worker is about to acknowledge m.
Steady(m) == Deliverable(m) /\ \A w \in Workers : worker[w].pc = "ack" => worker[w].m # m

\* Several jobs of one identity may be in the stream, and one of them about to be acknowledged on
\* what its worker found before the record was created anew.  There is another one.
SteadyInv ==
    \A e \in ExceptionIds \ Forfeit :
        StateOf(e) \in Unfinished => Publishers(e) # {} \/ \E m \in MessagesOf(e) : Steady(m)

\* Inductive.  Until the TRUNCATE the pipeline is what it is without a reset.
ResetInv == TypeOK /\ (phase = "ready" => SafetyInv) /\ SteadyInv
=============================================================================
