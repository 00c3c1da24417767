SPECIFICATION FairWriteSpec
CONSTANTS
    Keys = {k1, k2}
    Documents = {d1}
    NoDocument = none
    Handlers = {h1, h2}
    ClaimAttempts = 3
INVARIANTS
    OneOwnerPerKey
    ReplyIsRecorded
    AnswerIsOwnWrite
    NoOrphanedClaim
PROPERTIES
    ImplementsWriteOnce
    RequestsAreAnswered
