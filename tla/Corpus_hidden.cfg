\* A loader and a create handler, one fixed corpus.
CONSTANTS
    a = a
    b = b
    t1 = t1
    t2 = t2
    t3 = t3
    k1 = k1
    k2 = k2
    k3 = k3
    first = first
    moved = moved
    unvouched = unvouched
    Absent = Absent
    MaxChunks = 2
    Tenants <- MCTenants
    Texts <- MCTexts
    Custodies <- MCCustodies
    DocumentIds <- MCDocumentIds
    Releases <- MCFixedRelease
    CorpusLines <- MCCorpusLines
    CustodyFile <- MCCustodyFile
    Submissions <- MCLongSubmission
    Loaders = {l1}
    Clients = {h1}
SPECIFICATION Spec
INVARIANT HiddenDocumentHasNoChunks
