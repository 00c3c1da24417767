\* One search, and either a loader of two releases and the initializer or a store that stays as it is.
CONSTANTS
    a = a
    b = b
    t1 = t1
    t2 = t2
    t3 = t3
    t4 = t4
    k1 = k1
    k2 = k2
    first = first
    moved = moved
    Absent = Absent
    MaxChunks = 2
    Tenants <- MCTenants
    Texts <- MCTexts
    Custodies <- MCCustodies
    DocumentIds <- MCDocumentIds
    Releases <- MCReleases
    CorpusLines <- MCCorpusLines
    CustodyFile <- MCCustodyFile
    Submissions <- MCSubmissions
    Loaders = {l1}
    Clients = {}
    Distance <- MCDistance
    Relevance <- MCRelevance
    WordCount <- MCWordCount
    Terms <- MCTerms
    Custodian <- MCCustodian
    Requests <- MCRequests
    Searches = {s1}
    CandidatePool = 2
    CitationLimit = 2
    TokenBudget = 4
SPECIFICATION MCSpec
CONSTRAINT FullStoreIsStill
INVARIANTS
    ResultsReadable
    EvidenceAccounts
    FusionOrder
    ContextFits
    QuietEvidence
    MissAttributed
