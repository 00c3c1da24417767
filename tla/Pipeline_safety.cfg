SPECIFICATION Spec
CONSTANTS
    ExceptionIds = {e1}
    Readings = {hot, cool}
    InRange = {cool}
    NoReading = none
    MaximumAttempts = 2
    Requests = {q1, q2}
    Workers = {w1, w2}
    MaxFaults = 1
SYMMETRY ActorSymmetry
INVARIANTS
    PublishedIsDurable
    OneJobPerException
    OneModelCallAtATime
    ModelCallsBounded
    AcknowledgedIsTerminal
    NoStrandedWork
    ExhaustionIsEarned
    RefusalIsVisible
    OneOutcome
PROPERTIES
    TerminalIsFinal
    ImplementsLifecycle
