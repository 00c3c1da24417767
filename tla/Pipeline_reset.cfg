SPECIFICATION ResetSpec
CONSTANTS
    ExceptionIds = {e1}
    Readings = {hot}
    InRange = {}
    NoReading = none
    MaximumAttempts = 2
    Requests = {q1, q2}
    Workers = {w1, w2}
    MaxFaults = 0
    MaxDeliveries = 2
VIEW ResetView
SYMMETRY ActorSymmetry
INVARIANT
    ResetLosesOnlyWhatItOverlaps
