\* Two initializers that may overlap, with two attempts at the object store.
SPECIFICATION FairSpec
CONSTANTS
    Initializers = {i1, i2}
    Attempts = 2
INVARIANTS
    SchemaMatchesVersion
    ServedSchemaCurrent
    CompletedRunProvisioned
PROPERTIES
    VersionNeverRewound
    RunsEnd
    LossIsNoticed
