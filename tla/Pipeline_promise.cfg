SPECIFICATION Spec
CONSTANTS
    ExceptionIds = {e1}
    Readings = {hot}
    InRange = {}
    NoReading = none
    MaximumAttempts = 1
    Requests = {q1, q2}
    Workers = {}
    MaxFaults = 0
INVARIANT
    FailureIsNeverAccepted
