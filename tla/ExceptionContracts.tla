--------------------------- MODULE ExceptionContracts ---------------------------
(***************************************************************************)
(* The vocabulary the exception pipeline shares: identities, readings, the *)
(* lifecycle states of src/domain/contracts.py and the delivery limit.     *)
(***************************************************************************)
EXTENDS Naturals, FiniteSets

CONSTANTS
    ExceptionIds,      \* identities exception_id_for derives, one per reading_id
    Readings,          \* the payloads one reading_id is submitted with
    InRange,           \* the readings inside their accepted handling range
    NoReading,         \* "no payload": the reading or summary of a row that has none
    MaximumAttempts    \* the worker's delivery limit (1..3 in worker/config.py)

ASSUME ReadingsAssumption == InRange \subseteq Readings /\ NoReading \notin Readings
ASSUME AttemptsAssumption == MaximumAttempts \in Nat \ {0}

ExceptionState == {"RECEIVED", "QUEUED", "PROCESSING", "COMPLETED", "FAILED"}

Terminal == {"COMPLETED", "FAILED"}

\* The failure reasons the ingress and the worker write beside FAILED.
FailureReason == {"none", "job_queue_unavailable", "model_provider_exhausted",
                  "processing_attempts_exhausted"}

RequiresException(reading) == reading \notin InRange
=============================================================================
