\* Readings whose temperature no JSON number stands for.
CONSTANTS
    Temperatures <- MCNonFinite
    Bounds <- MCFinite
    ContextLimit = 2
    Growth <- MCShrinks
    Nuls <- MCNoNul
SPECIFICATION Spec
INVARIANTS RecordIsServed
