SPECIFICATION FairSpec
CONSTANTS
    ExceptionIds = {e1}
    Readings = {hot}
    InRange = {}
    NoReading = none
    MaximumAttempts = 2
    Requests = {q1}
    Workers = {w1, w2}
    MaxFaults = 1
PROPERTIES
    PublishedWorkFinishes
    PendingListDrains
    AcceptedWorkFinishes
