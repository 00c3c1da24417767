\* Two loaders and a create handler against an initializer that republishes any of three releases.
CONSTANTS
    a = a
    b = b
    t1 = t1
    t2 = t2
    t3 = t3
    k1 = k1
    k2 = k2
    k3 = k3
    first = first
    moved = moved
    unvouched = unvouched
    Absent = Absent
    MaxChunks = 2
    Tenants <- MCTenants
    Texts <- MCTexts
    Custodies <- MCCustodies
    DocumentIds <- MCDocumentIds
    Releases <- MCReleases
    CorpusLines <- MCCorpusLines
    CustodyFile <- MCCustodyFile
    Submissions <- MCSubmissions
    Loaders = {l1, l2}
    Clients = {h1}
SPECIFICATION Spec
SYMMETRY LoaderSymmetry
INVARIANTS StoreWhole CustodyChecked
PROPERTIES WritesAreExclusive CreateNeverReplaces ImplementsCatalogue
