SPECIFICATION Spec
CONSTANTS
    ExceptionIds = {e1}
    Readings = {hot}
    InRange = {}
    NoReading = none
    MaximumAttempts = 2
    Requests = {q1}
    Workers = {w1}
    MaxFaults = 0
PROPERTY
    DuplicateResumesStrandedWork
