\* Every reading, with contexts that redaction shortens or lengthens, and U+0000 in its text.
CONSTANTS
    Temperatures <- Float
    Bounds <- Float
    ContextLimit = 2
    Growth <- MCGrowth
    Nuls <- MCNuls
SPECIFICATION Spec
INVARIANTS AcceptedRoundTrips LosslessIsServed
