----------------------------- MODULE MCKnowledgeBase -----------------------------
(* One search at a time, over two kinds of store.  Either the store is empty and a loader    *)
(* installs two releases: the second one moves a document to another tenancy, gives others   *)
(* another tier and other words, and adds one.  Or the store is full and stays as it is: its *)
(* texts are arranged so that the arms agree, disagree, tie and overflow.                    *)
EXTENDS KnowledgeBase

CONSTANTS a, b, t1, t2, t3, t4, k1, k2, first, moved

MCTenants == {a, b}
MCTexts == {t1, t2, t3, t4}
MCCustodies == {k1, k2}
MCDocumentIds == 1..4
MCReleases == {first, moved}

Label(tenant, tier) == [tenant |-> tenant, tier |-> tier]
Doc(tenant, tier, custody, body) ==
    [access |-> Label(tenant, tier), provenance |-> custody, body |-> body]
Line(id, doc) == [id |-> id, document |-> doc]

MCCorpusLines == [r \in MCReleases |->
    IF r = first
    THEN <<Line(1, Doc(a, "standard", k1, <<t1, t2>>)), Line(2, Doc(a, "restricted", k1, <<t3>>))>>
    ELSE <<Line(1, Doc(b, "standard", k1, <<t2, t3>>)), Line(2, Doc(a, "standard", k1, <<t1>>)),
           Line(3, Doc(a, "standard", k2, <<t2>>))>>]
MCCustodyFile == [r \in MCReleases |-> (1 :> k1) @@ (2 :> k1) @@ (3 :> k2)]
MCSubmissions == {Line(3, Doc(a, "standard", k2, <<t2>>))}

MCDistance == (t1 :> 1) @@ (t2 :> 2) @@ (t3 :> 2) @@ (t4 :> 3)
MCRelevance == (t1 :> 0) @@ (t2 :> 1) @@ (t3 :> 3) @@ (t4 :> 2)
MCWordCount == (t1 :> 3) @@ (t2 :> 1) @@ (t3 :> 2) @@ (t4 :> 2)
MCCustodian == (k1 :> "desk") @@ (k2 :> "desk")
MCTerms == (t1 :> {"shock", "seal"}) @@ (t2 :> {"seal"}) @@ (t3 :> {"shock"}) @@ (t4 :> {})

Asked(kind, tenant, clearance, explain, topK, weight) ==
    [kind |-> kind, who |-> [tenant |-> tenant, clearance |-> clearance], explain |-> explain,
     topK |-> topK, weight |-> weight]

MCRequests ==
    {Asked("search", a, clearance, TRUE, topK, 5) : clearance \in AccessTier, topK \in {1, 2, 4}} \cup
    {Asked("experiment", a, "restricted", FALSE, topK, weight) : topK \in {1, 3}, weight \in {0, 3, 10}} \cup
    {Asked("search", b, "standard", FALSE, 3, 5)}

Bodies == {<<t1>>, <<t2, t3>>, <<t4, t1>>, <<t3>>}
FullStores == {(1 :> Doc(a, "standard", k1, x)) @@ (2 :> Doc(a, tier, k1, y)) @@ (3 :> Doc(a, "standard", k1, z))
                   @@ (4 :> Doc(b, "standard", k1, <<t1, t4>>)) :
                  x \in Bodies, y \in Bodies, z \in Bodies, tier \in AccessTier}

\* The full stores have a document that no release has.
Full == Stored(4)

FullInit ==
    /\ \E store \in FullStores :
          /\ documents = Overlay(store, [id \in DocumentIds |-> Absent])
          /\ chunks = Overlay(CorpusChunks(store), [c \in ChunkIds |-> Absent])
    /\ objects = [artifact \in Artifacts |-> Absent]
    /\ publisher = [pc |-> "idle", release |-> first]
    /\ loader = [l \in Loaders |-> [pc |-> "idle", release |-> Absent]]
    /\ client = [h \in Clients |-> [pc |-> "idle", request |-> CHOOSE s \in Submissions : TRUE, reply |-> "none"]]
    /\ search = [s \in Searches |-> Idle(CHOOSE q \in Requests : TRUE, NoAnswer("none"))]
    /\ overtaken = {}

MCSpec == (KnowledgeInit \/ FullInit) /\ [][KnowledgeNext]_knowledgeVars

\* Nothing is published or loaded beside a full store.
FullStoreIsStill == Full => publisher.pc = "idle" /\ \A l \in Loaders : loader[l].pc = "idle"
=============================================================================
