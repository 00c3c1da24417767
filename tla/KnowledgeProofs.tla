----------------------------- MODULE KnowledgeProofs -----------------------------
(***************************************************************************)
(* Machine-checked theorems about KnowledgeBase: the access rule in its     *)
(* three forms, and what a search shows while the store changes under it:   *)
(* readable rows only, evidence that accounts for every candidate, fusion   *)
(* and attribution that follow it, a context that keeps to its budget.      *)
(***************************************************************************)
EXTENDS KnowledgeBase, CorpusIngestionProofs, RankingProofs

-----------------------------------------------------------------------------
\* The access rule.

(* The composed constraint the retriever turns into SQL admits exactly the labels the domain *)
(* rule admits, for every caller (domain/access.py, tenant_authorization.py, with            *)
(* domain/repositories.py:39).                                                               *)
THEOREM ConstraintIsReadability ==
    ASSUME NEW authz \in AuthorizationContext, NEW label \in AccessLabel
    PROVE  ConstraintClause(Constrain(authz), label) <=> Readable(authz, label)
<1>1. Constrain(authz) = [tenants |-> Only({authz.tenant}),
                          tiers |-> Only(Kept(ClearedTiers(authz), Unrestricted))]
  BY DEF Constrain, Composed, TenantBoundary
<1>2. Kept(ClearedTiers(authz), Unrestricted) = ClearedTiers(authz)  BY DEF Kept, Unrestricted
<1>3. ConstraintClause(Constrain(authz), label) <=>
        label.tenant = authz.tenant /\ label.tier \in ClearedTiers(authz)
  BY <1>1, <1>2 DEF ConstraintClause, InDimension, Only
<1>4. label.tier \in AccessTier /\ authz.clearance \in AccessTier
  BY DEF AccessLabel, AuthorizationContext
<1>5. label.tier \in ClearedTiers(authz) <=> (label.tier = "standard" \/ authz.clearance = "restricted")
  BY <1>4 DEF ClearedTiers, AccessTier
<1> QED BY <1>3, <1>5 DEF Readable

\* The half of it that needs no typing: what the constraint admits may be read.
LEMMA AdmittedIsReadable ==
    ASSUME NEW authz, NEW label, ConstraintClause(Constrain(authz), label)
    PROVE  Readable(authz, label)
<1>1. Constrain(authz) = [tenants |-> Only({authz.tenant}),
                          tiers |-> Only(Kept(ClearedTiers(authz), Unrestricted))]
  BY DEF Constrain, Composed, TenantBoundary
<1>2. label.tenant = authz.tenant /\ label.tier \in ClearedTiers(authz)
  BY <1>1 DEF ConstraintClause, InDimension, Only, Kept, Unrestricted
<1>3. label.tier = "standard" \/ authz.clearance = "restricted"
  BY <1>2 DEF ClearedTiers
<1> QED BY <1>2, <1>3 DEF Readable

\* The composed constraint of a caller always limits something, so a search is never unscoped.
LEMMA ConstraintRestricts == \A authz : Restricts(Constrain(authz))
BY DEF Restricts, Constrain, Composed, TenantBoundary, Only

-----------------------------------------------------------------------------
\* What a ranking is made of.

\* A candidate as the arms build it, whose row its reader may read.
ReadableCandidate(who, k) ==
    /\ k = [id |-> k.id, rank |-> k.rank, row |-> k.row]
    /\ Readable(who, k.row.access)

\* What an arm fetches is a candidate that its reader may read.
LEMMA DenseReadable == \A who : \A k \in DenseArm(who) : ReadableCandidate(who, k)
<1> SUFFICES ASSUME NEW who, NEW k \in DenseArm(who) PROVE ReadableCandidate(who, k)
  OBVIOUS
<1>1. PICK c \in Fetchable(Constrain(who)) : \E n : k = [id |-> c, rank |-> n, row |-> chunks[c]]
  BY DEF DenseArm, Best
<1>2. Readable(who, chunks[c].access)  BY AdmittedIsReadable DEF Fetchable
<1> QED BY <1>1, <1>2 DEF ReadableCandidate

\* ... and so for the other arm.
LEMMA SparseReadable == \A who : \A k \in SparseArm(who) : ReadableCandidate(who, k)
<1> SUFFICES ASSUME NEW who, NEW k \in SparseArm(who) PROVE ReadableCandidate(who, k)
  OBVIOUS
<1>1. PICK c \in Fetchable(Constrain(who)) : \E n : k = [id |-> c, rank |-> n, row |-> chunks[c]]
  BY DEF SparseArm, Best
<1>2. Readable(who, chunks[c].access)  BY AdmittedIsReadable DEF Fetchable
<1> QED BY <1>1, <1>2 DEF ReadableCandidate

\* Fusion shows no row that neither arm read.
LEMMA FusedReadable ==
    ASSUME NEW who, NEW dense, NEW sparse, NEW weight, NEW topK,
           \A k \in dense \cup sparse : ReadableCandidate(who, k)
    PROVE  \A k \in Fuse(dense, sparse, weight, topK) : ReadableCandidate(who, k)
<1> SUFFICES ASSUME NEW f \in Fuse(dense, sparse, weight, topK) PROVE ReadableCandidate(who, f)
  OBVIOUS
<1>1. PICK k \in dense \cup sparse : \E n : f = [k EXCEPT !.rank = n]
  BY DEF Fuse, Best, Seen
<1>2. PICK n : f = [k EXCEPT !.rank = n]  BY <1>1
<1>3. k = [id |-> k.id, rank |-> k.rank, row |-> k.row] /\ Readable(who, k.row.access)
  BY DEF ReadableCandidate
<1>4. f = [id |-> k.id, rank |-> n, row |-> k.row]  BY <1>2, <1>3
<1> QED BY <1>3, <1>4 DEF ReadableCandidate
-----------------------------------------------------------------------------
\* The store holds finitely many rows.

StoredDocuments == {id \in DocumentIds : Stored(id)}
StoredChunks == {c \in ChunkIds : chunks[c] # Absent}

StoreOK == StoreTypeOK /\ StoreWhole /\ IsFiniteSet(StoredDocuments)

\* A release is a finite sequence of documents.
LEMMA ReleaseFinite == \A r \in Releases : IsFiniteSet(Identifiers(r))
<1> SUFFICES ASSUME NEW r \in Releases PROVE IsFiniteSet(Identifiers(r))
  OBVIOUS
<1> DEFINE lines == CorpusLines[r]
           id == [n \in DOMAIN lines |-> lines[n].id]
<1>1. IsFiniteSet(DOMAIN lines)
  <2>1. lines \in Seq([id : DocumentIds, document : Document])  BY CorpusAssumption
  <2>2. DOMAIN lines = 1..Len(lines) /\ Len(lines) \in Nat  BY <2>1
  <2> QED BY <2>2, FS_Interval
<1>2. IsFiniteSet({id[n] : n \in DOMAIN lines})
  <2> HIDE DEF id, lines
  <2> QED BY <1>1, FiniteImage
<1>3. Identifiers(r) = {id[n] : n \in DOMAIN lines}  BY DEF Identifiers
<1> QED BY <1>2, <1>3

\* A step of a writer stores no more than a release or one document.
LEMMA FiniteStep ==
    ASSUME IngestInv, IsFiniteSet(StoredDocuments), [Next]_vars
    PROVE  IsFiniteSet(StoredDocuments')
<1>1. CASE UNCHANGED documents
  BY <1>1 DEF StoredDocuments, Stored
<1>2. CASE \E l \in Loaders : loader[l].pc = "commit" /\ CorpusCommitted(l)
  <2>1. PICK l \in Loaders : loader[l].pc = "commit" /\ CorpusCommitted(l)  BY <1>2
  <2> DEFINE r == loader[l].release
  <2>2. r \in Releases  BY <2>1 DEF IngestInv, IngestTypeOK, LoaderState
  <2>3. \A id \in DocumentIds : id \notin Identifiers(r) => documents'[id] = documents[id]
    BY <2>1, <2>2, LoadCommits DEF IngestInv, IngestTypeOK, CorpusCommitted
  <2> HIDE DEF r
  <2>4. StoredDocuments' \subseteq StoredDocuments \cup Identifiers(r)
    BY <2>3 DEF StoredDocuments, Stored
  <2>5. IsFiniteSet(StoredDocuments \cup Identifiers(r))  BY <2>2, ReleaseFinite, FS_Union
  <2> QED BY <2>4, <2>5, FS_Subset
<1>3. CASE \E h \in Clients : client[h].pc = "commit" /\ DocumentCommitted(h)
  <2>1. PICK h \in Clients : client[h].pc = "commit" /\ DocumentCommitted(h)  BY <1>3
  <2> DEFINE s == client[h].request
  <2>2. documents' = [documents EXCEPT ![s.id] = s.document]  BY <2>1 DEF DocumentCommitted, SaveDocument
  <2>3. StoredDocuments' \subseteq StoredDocuments \cup {s.id}
    BY <2>2 DEF StoredDocuments, Stored, IngestInv, IngestTypeOK, StoreTypeOK
  <2>4. IsFiniteSet(StoredDocuments \cup {s.id})  BY FS_AddElement
  <2> QED BY <2>3, <2>4, FS_Subset
<1> QED BY <1>1, <1>2, <1>3, WhatCommits DEF vars, storeVars

\* A document has finitely many chunks, so that finitely many documents have.
LEMMA ChunksFinite == StoreOK => IsFiniteSet(StoredChunks)
<1> SUFFICES ASSUME StoreOK PROVE IsFiniteSet(StoredChunks)
  OBVIOUS
<1>1. StoredChunks \subseteq StoredDocuments \X (0..(MaxChunks - 1))
  <2> SUFFICES ASSUME NEW c \in StoredChunks PROVE c \in StoredDocuments \X (0..(MaxChunks - 1))
    OBVIOUS
  <2>1. c \in DocumentIds \X (0..(MaxChunks - 1)) /\ chunks[c] # Absent  BY DEF StoredChunks, ChunkIds
  <2>2. Stored(c[1])  BY <2>1 DEF StoreOK, StoreWhole, ChunkIds
  <2> QED BY <2>1, <2>2 DEF StoredDocuments
<1>2. IsFiniteSet(0..(MaxChunks - 1))  BY KnowledgeAssumption, FS_Interval
<1>3. IsFiniteSet(StoredDocuments \X (0..(MaxChunks - 1)))  BY <1>2, FS_Product DEF StoreOK
<1> QED BY <1>1, <1>3, FS_Subset

-----------------------------------------------------------------------------
\* The arms.

(* The tie-break of every ranking orders the chunk identifiers strictly and totally.         *)
LEMMA IdOrder ==
    /\ \A c \in ChunkIds : ~IdBefore(c, c)
    /\ \A c, d \in ChunkIds : c # d => IdBefore(c, d) \/ IdBefore(d, c)
    /\ \A c, d, e \in ChunkIds : IdBefore(c, d) /\ IdBefore(d, e) => IdBefore(c, e)
<1>1. ASSUME NEW c \in ChunkIds PROVE c[1] \in Int /\ c[2] \in Int /\ c = <<c[1], c[2]>>
  <2>1. c[1] \in DocumentIds /\ c[2] \in 0..(MaxChunks - 1) /\ c = <<c[1], c[2]>>  BY DEF ChunkIds
  <2>2. DocumentIds \subseteq Nat /\ MaxChunks \in Nat  BY KnowledgeAssumption
  <2>3. c[1] \in Int  BY <2>1, <2>2
  <2>4. c[2] \in Int  BY <2>1, <2>2
  <2> QED BY <2>1, <2>3, <2>4
<1>2. \A c \in ChunkIds : ~IdBefore(c, c)  BY <1>1 DEF IdBefore
<1>3. ASSUME NEW c \in ChunkIds, NEW d \in ChunkIds, c # d PROVE IdBefore(c, d) \/ IdBefore(d, c)
  <2>1. c[1] # d[1] \/ c[2] # d[2]  BY <1>1, <1>3
  <2> QED BY <1>1, <2>1 DEF IdBefore
<1>4. ASSUME NEW c \in ChunkIds, NEW d \in ChunkIds, NEW e \in ChunkIds, IdBefore(c, d), IdBefore(d, e)
      PROVE  IdBefore(c, e)
  BY <1>1, <1>4 DEF IdBefore
<1> QED BY <1>2, <1>3, <1>4

\* An order by a number, the identifier breaking the ties.
ByNumber(number, S) ==
    {p \in S \X S : number[p[1]] < number[p[2]] \/ (number[p[1]] = number[p[2]] /\ IdBefore(p[1], p[2]))}

\* It is strict and total, for any numbers.
LEMMA ByNumberOrders ==
    ASSUME NEW S, S \subseteq ChunkIds, NEW number, \A c \in S : number[c] \in Int
    PROVE  Orders(ByNumber(number, S), S)
<1> DEFINE R == ByNumber(number, S)
<1>1. \A c, d \in S : <<c, d>> \in R <=> number[c] < number[d] \/ (number[c] = number[d] /\ IdBefore(c, d))
  BY DEF ByNumber
<1> HIDE DEF R
<1>2. \A c \in S : <<c, c>> \notin R  BY <1>1, IdOrder
<1>3. \A c, d \in S : c # d => <<c, d>> \in R \/ <<d, c>> \in R
  <2> SUFFICES ASSUME NEW c \in S, NEW d \in S, c # d PROVE <<c, d>> \in R \/ <<d, c>> \in R
    OBVIOUS
  <2>1. IdBefore(c, d) \/ IdBefore(d, c)  BY IdOrder
  <2> QED BY <1>1, <2>1
<1>4. ASSUME NEW c \in S, NEW d \in S, NEW e \in S, <<c, d>> \in R, <<d, e>> \in R PROVE <<c, e>> \in R
  <2>1. /\ number[c] < number[d] \/ (number[c] = number[d] /\ IdBefore(c, d))
        /\ number[d] < number[e] \/ (number[d] = number[e] /\ IdBefore(d, e))
    BY <1>1, <1>4
  <2>2. IdBefore(c, d) /\ IdBefore(d, e) => IdBefore(c, e)  BY IdOrder
  <2> QED BY <1>1, <2>1, <2>2
<1> QED BY <1>2, <1>3, <1>4 DEF Orders, R

\* What an arm fetches: the first CandidatePool rows of S under R.
ArmOver(R, S) ==
    {[id |-> c, rank |-> 1 + Cardinality(Ahead(c, R, S)), row |-> chunks[c]] : c \in First(CandidatePool, R, S)}

Matching(who) == {c \in Fetchable(Constrain(who)) : Relevance[chunks[c].text] > 0}
Distances(S) == [c \in S |-> Distance[chunks[c].text]]
Irrelevances(S) == [c \in S |-> 0 - Relevance[chunks[c].text]]

\* A stored chunk has a label and a text with a distance and a relevance.
LEMMA StoredRows ==
    ASSUME StoreOK, NEW c \in StoredChunks
    PROVE  /\ chunks[c] \in ChunkRow /\ chunks[c].text \in Texts
           /\ Distance[chunks[c].text] \in Nat /\ Relevance[chunks[c].text] \in Nat
<1>1. chunks[c] \in ChunkRow /\ chunks[c].text \in Texts
  BY DEF StoreOK, StoreTypeOK, StoredChunks, ChunkRow
<1>2. Distance \in [Texts -> Nat] /\ Relevance \in [Texts -> Nat]  BY RetrievalAssumption
<1> QED BY <1>1, <1>2

\* Nothing is fetched that is not stored.
LEMMA FetchableStored == \A who : Fetchable(Constrain(who)) \subseteq StoredChunks
BY DEF Fetchable, StoredChunks

\* The dense arm takes the nearest of what its caller may fetch.
LEMMA DenseArmIs ==
    ASSUME StoreOK, NEW who
    PROVE  LET S == Fetchable(Constrain(who))
               R == ByNumber(Distances(S), S)
           IN Orders(R, S) /\ DenseArm(who) = ArmOver(R, S)
<1> DEFINE S == Fetchable(Constrain(who))
           R == ByNumber(Distances(S), S)
<1>1. S \subseteq StoredChunks /\ S \subseteq ChunkIds  BY FetchableStored DEF StoredChunks
<1>2. \A c \in S : Distances(S)[c] = Distance[chunks[c].text] /\ Distances(S)[c] \in Int
  BY <1>1, StoredRows DEF Distances
<1>3. \A c, d \in S : Nearer(c, d) <=> <<c, d>> \in R
  BY <1>2 DEF Nearer, ByNumber
<1>4. DenseArm(who) = {[id |-> c, rank |-> 1 + Cardinality({d \in S : Nearer(d, c)}), row |-> chunks[c]] :
                          c \in {e \in S : 1 + Cardinality({d \in S : Nearer(d, e)}) <= CandidatePool}}
  BY DEF DenseArm, Best, Place
<1>5. Orders(R, S)
  <2> HIDE DEF S
  <2> QED BY <1>1, <1>2, ByNumberOrders
<1> HIDE DEF S, R
<1>6. \A c \in S : {d \in S : Nearer(d, c)} = Ahead(c, R, S)  BY <1>3 DEF Ahead
<1>7. {e \in S : 1 + Cardinality({d \in S : Nearer(d, e)}) <= CandidatePool} = First(CandidatePool, R, S)
  BY <1>6 DEF First
<1>8. First(CandidatePool, R, S) \subseteq S  BY DEF First
<1>9. DenseArm(who) = ArmOver(R, S)  BY <1>4, <1>6, <1>7, <1>8 DEF ArmOver
<1> QED BY <1>5, <1>9 DEF S, R

\* The sparse arm takes the most relevant of what matches the query.
LEMMA SparseArmIs ==
    ASSUME StoreOK, NEW who
    PROVE  LET S == Matching(who)
               R == ByNumber(Irrelevances(S), S)
           IN Orders(R, S) /\ SparseArm(who) = ArmOver(R, S)
<1> DEFINE S == Matching(who)
           R == ByNumber(Irrelevances(S), S)
<1>1. S \subseteq StoredChunks /\ S \subseteq ChunkIds  BY FetchableStored DEF StoredChunks, Matching
<1>2. \A c \in S : /\ Irrelevances(S)[c] = 0 - Relevance[chunks[c].text]
                   /\ Relevance[chunks[c].text] \in Nat /\ Irrelevances(S)[c] \in Int
  BY <1>1, StoredRows DEF Irrelevances
<1>3. \A c, d \in S : MoreRelevant(c, d) <=> <<c, d>> \in R
  <2> SUFFICES ASSUME NEW c \in S, NEW d \in S PROVE MoreRelevant(c, d) <=> <<c, d>> \in R
    OBVIOUS
  <2>1. <<c, d>> \in R <=> \/ Irrelevances(S)[c] < Irrelevances(S)[d]
                           \/ Irrelevances(S)[c] = Irrelevances(S)[d] /\ IdBefore(c, d)
    BY DEF ByNumber
  <2> DEFINE x == Relevance[chunks[c].text]
             y == Relevance[chunks[d].text]
  <2>2. MoreRelevant(c, d) <=> x > y \/ (x = y /\ IdBefore(c, d))  BY DEF MoreRelevant
  <2>3. x \in Nat /\ y \in Nat /\ Irrelevances(S)[c] = 0 - x /\ Irrelevances(S)[d] = 0 - y  BY <1>2
  <2> HIDE DEF x, y, R
  <2> QED BY <2>1, <2>2, <2>3
<1>4. SparseArm(who) = {[id |-> c, rank |-> 1 + Cardinality({d \in S : MoreRelevant(d, c)}), row |-> chunks[c]] :
                          c \in {e \in S : 1 + Cardinality({d \in S : MoreRelevant(d, e)}) <= CandidatePool}}
  BY DEF SparseArm, Best, Place, Matching
<1>5. Orders(R, S)
  <2> HIDE DEF S
  <2> QED BY <1>1, <1>2, ByNumberOrders
<1> HIDE DEF S, R
<1>6. \A c \in S : {d \in S : MoreRelevant(d, c)} = Ahead(c, R, S)  BY <1>3 DEF Ahead
<1>7. {e \in S : 1 + Cardinality({d \in S : MoreRelevant(d, e)}) <= CandidatePool} = First(CandidatePool, R, S)
  BY <1>6 DEF First
<1>8. First(CandidatePool, R, S) \subseteq S  BY DEF First
<1>9. SparseArm(who) = ArmOver(R, S)  BY <1>4, <1>6, <1>7, <1>8 DEF ArmOver
<1> QED BY <1>5, <1>9 DEF S, R

\* Finitely many candidates, one per chunk.
ArmOK(arm) ==
    /\ IsFiniteSet(arm)
    /\ \A k \in arm : k \in Candidate
    /\ \A k, l \in arm : k.id = l.id => k = l

\* A candidate of such an arm has an identifier, a rank and a row.
LEMMA CandidateShape ==
    ASSUME NEW arm, ArmOK(arm), NEW k \in arm
    PROVE  /\ k.id \in ChunkIds /\ k.rank \in Nat \ {0} /\ k.row \in ChunkRow
           /\ k = [id |-> k.id, rank |-> k.rank, row |-> k.row]
<1>1. k \in Candidate  BY DEF ArmOK
<1> QED BY <1>1 DEF Candidate

(* An arm over part of the store, and how many rows of it there are.                         *)
LEMMA ArmFetches ==
    ASSUME StoreOK, NEW S, S \subseteq StoredChunks, NEW R, Orders(R, S)
    PROVE  /\ ArmOK(ArmOver(R, S))
           /\ \A k \in ArmOver(R, S) : k.id \in S /\ k.row = chunks[k.id]
           /\ S \subseteq Ids(ArmOver(R, S)) \/ Cardinality(ArmOver(R, S)) = CandidatePool
<1> DEFINE F == First(CandidatePool, R, S)
           k == [c \in F |-> [id |-> c, rank |-> 1 + Cardinality(Ahead(c, R, S)), row |-> chunks[c]]]
<1>1. IsFiniteSet(S)  BY ChunksFinite, FS_Subset
<1>2. CandidatePool \in Nat  BY RetrievalAssumption
<1>3. /\ F \subseteq S /\ IsFiniteSet(F)
      /\ Cardinality(F) = IF Cardinality(S) <= CandidatePool THEN Cardinality(S) ELSE CandidatePool
      /\ Cardinality(S) <= CandidatePool => F = S
  <2>1. F \subseteq S  BY DEF First
  <2> QED BY <1>1, <1>2, <2>1, FirstCounted
<1>4. ArmOver(R, S) = {k[c] : c \in F}  BY DEF ArmOver
<1>5. ASSUME NEW c \in F
      PROVE  k[c] \in Candidate /\ k[c].id = c /\ k[c].row = chunks[c]
  <2>1. c \in S /\ c \in ChunkIds /\ chunks[c] \in ChunkRow  BY <1>3, StoredRows DEF StoredChunks
  <2>2. Cardinality(Ahead(c, R, S)) \in Nat
    <3>1. Ahead(c, R, S) \subseteq S  BY DEF Ahead
    <3> QED BY <1>1, <3>1, FS_Subset, FS_CardinalityType
  <2> DEFINE n == 1 + Cardinality(Ahead(c, R, S))
  <2>3. n \in Nat \ {0}  BY <2>2
  <2>4. k[c] = [id |-> c, rank |-> n, row |-> chunks[c]]  OBVIOUS
  <2> HIDE DEF n, k
  <2> QED BY <2>1, <2>3, <2>4 DEF Candidate
<1> HIDE DEF k, F
<1>6. IsFiniteSet(ArmOver(R, S))  BY <1>3, <1>4, FiniteImage
<1>7. Cardinality(ArmOver(R, S)) = Cardinality(F)
  <2>1. \A c, d \in F : k[c] = k[d] => c = d  BY <1>5
  <2> QED BY <1>3, <1>4, <2>1, CountedImage
<1>8. ArmOK(ArmOver(R, S))  BY <1>4, <1>5, <1>6 DEF ArmOK
<1>9. \A l \in ArmOver(R, S) : l.id \in S /\ l.row = chunks[l.id]  BY <1>3, <1>4, <1>5
<1>10. F = S => S \subseteq Ids(ArmOver(R, S))  BY <1>4, <1>5 DEF Ids
<1> QED BY <1>3, <1>7, <1>8, <1>9, <1>10

\* Both arms are of that shape, take their rows from what the caller may fetch as it is stored,
\* and the dense one leaves such a row out only when it is full.
LEMMA ArmsFetch ==
    ASSUME StoreOK, NEW who
    PROVE  /\ ArmOK(DenseArm(who)) /\ ArmOK(SparseArm(who))
           /\ \A k \in DenseArm(who) \cup SparseArm(who) :
                 k.id \in Fetchable(Constrain(who)) /\ k.row = chunks[k.id]
           /\ Fetchable(Constrain(who)) \subseteq Ids(DenseArm(who)) \/ Cardinality(DenseArm(who)) = CandidatePool
<1>1. /\ Fetchable(Constrain(who)) \subseteq StoredChunks
      /\ Matching(who) \subseteq StoredChunks /\ Matching(who) \subseteq Fetchable(Constrain(who))
  BY FetchableStored DEF Matching
<1>2. /\ ArmOK(DenseArm(who))
      /\ \A k \in DenseArm(who) : k.id \in Fetchable(Constrain(who)) /\ k.row = chunks[k.id]
      /\ Fetchable(Constrain(who)) \subseteq Ids(DenseArm(who)) \/ Cardinality(DenseArm(who)) = CandidatePool
  BY <1>1, DenseArmIs, ArmFetches
<1>3. /\ ArmOK(SparseArm(who))
      /\ \A k \in SparseArm(who) : k.id \in Matching(who) /\ k.row = chunks[k.id]
  BY <1>1, SparseArmIs, ArmFetches
<1> QED BY <1>1, <1>2, <1>3

-----------------------------------------------------------------------------
\* Fusion.

(* The share an arm gives a candidate is a fraction.                                         *)
LEMMA ShareShape ==
    ASSUME NEW arm, ArmOK(arm), NEW c, NEW weight \in Nat
    PROVE  /\ Share(arm, c, weight)[1] \in Nat /\ Share(arm, c, weight)[2] \in Nat \ {0}
           /\ \A k \in arm : k.id = c => Share(arm, c, weight) = <<weight, RankConstant + k.rank>>
           /\ c \notin Ids(arm) => Share(arm, c, weight) = <<0, 1>>
<1>1. CASE c \notin Ids(arm)
  <2>1. Share(arm, c, weight) = <<0, 1>>  BY <1>1 DEF Share
  <2>2. \A k \in arm : k.id # c  BY <1>1 DEF Ids
  <2> QED BY <2>1, <2>2
<1>2. CASE c \in Ids(arm)
  <2>1. PICK k \in arm : k.id = c  BY <1>2 DEF Ids
  <2>2. (CHOOSE l \in arm : l.id = c) = k  BY <2>1 DEF ArmOK
  <2>3. Share(arm, c, weight) = <<weight, RankConstant + k.rank>>  BY <1>2, <2>2 DEF Share
  <2>4. \A l \in arm : l.id = c => l = k  BY <2>1 DEF ArmOK
  <2>5. k.rank \in Nat \ {0}  BY DEF ArmOK, Candidate
  <2>6. RankConstant + k.rank \in Nat \ {0}  BY <2>5 DEF RankConstant
  <2> QED BY <1>2, <2>3, <2>4, <2>6
<1> QED BY <1>1, <1>2

(* ... and so is the score.                                                                  *)
LEMMA ScoreShape ==
    ASSUME NEW dense, NEW sparse, ArmOK(dense), ArmOK(sparse), NEW weight \in 0..WeightUnit, NEW c
    PROVE  Score(dense, sparse, weight, c)[1] \in Nat /\ Score(dense, sparse, weight, c)[2] \in Nat \ {0}
<1> DEFINE d == Share(dense, c, weight)
           s == Share(sparse, c, WeightUnit - weight)
<1>1. weight \in Nat /\ WeightUnit - weight \in Nat  BY DEF WeightUnit
<1>2. d[1] \in Nat /\ d[2] \in Nat \ {0}  BY <1>1, ShareShape
<1>3. s[1] \in Nat /\ s[2] \in Nat \ {0}  BY <1>1, ShareShape
<1>4. Score(dense, sparse, weight, c) = <<d[1] * s[2] + s[1] * d[2], d[2] * s[2]>>  BY DEF Score
<1> HIDE DEF d, s
<1>5. d[1] * s[2] + s[1] * d[2] \in Nat /\ d[2] * s[2] \in Nat \ {0}
  <2>1. \A a, b \in Nat : \A x, y \in Nat \ {0} : a * y + b * x \in Nat /\ x * y \in Nat \ {0}  OBVIOUS
  <2> QED BY <1>2, <1>3, <2>1
<1> QED BY <1>4, <1>5

\* The order in which fusion returns what it has seen.
Fused(dense, sparse, weight) ==
    LET seen == Seen(dense, sparse) IN
    {p \in seen \X seen : Outscores(p[1].id, p[2].id, dense, sparse, weight)}

(* What fusion has seen is one candidate per chunk, of the arm that returned it first.       *)
LEMMA SeenShape ==
    ASSUME NEW dense, NEW sparse, ArmOK(dense), ArmOK(sparse)
    PROVE  /\ ArmOK(Seen(dense, sparse))
           /\ Ids(Seen(dense, sparse)) = Ids(dense \cup sparse)
           /\ \A k \in Seen(dense, sparse) : IF k.id \in Ids(dense) THEN k \in dense ELSE k \in sparse
<1> DEFINE late == {k \in sparse : k.id \notin Ids(dense)}
<1>1. IsFiniteSet(late)  BY FS_Subset DEF ArmOK
<1>2. IsFiniteSet(Seen(dense, sparse))  BY <1>1, FS_Union DEF Seen, ArmOK
<1>3. \A k \in Seen(dense, sparse) : k \in Candidate  BY DEF Seen, ArmOK
<1>4. \A k \in dense : k.id \in Ids(dense)  BY DEF Ids
<1>5. \A k, l \in Seen(dense, sparse) : k.id = l.id => k = l  BY <1>4 DEF Seen, ArmOK
<1>6. Ids(Seen(dense, sparse)) = Ids(dense \cup sparse)
  BY DEF Seen, Ids
<1>7. \A k \in Seen(dense, sparse) : IF k.id \in Ids(dense) THEN k \in dense ELSE k \in sparse
  BY <1>4 DEF Seen
<1> QED BY <1>2, <1>3, <1>5, <1>6, <1>7 DEF ArmOK

\* The scores, the identifier breaking the ties, order it strictly and totally.
LEMMA FusedOrders ==
    ASSUME NEW dense, NEW sparse, ArmOK(dense), ArmOK(sparse), NEW weight \in 0..WeightUnit
    PROVE  Orders(Fused(dense, sparse, weight), Seen(dense, sparse))
<1> DEFINE seen == Seen(dense, sparse)
           R == Fused(dense, sparse, weight)
           num(k) == Score(dense, sparse, weight, k.id)[1]
           den(k) == Score(dense, sparse, weight, k.id)[2]
<1>1. \A k \in seen : num(k) \in Nat /\ den(k) \in Nat \ {0}  BY ScoreShape
<1>2. \A k, l \in seen :
         <<k, l>> \in R <=> \/ num(k) * den(l) > num(l) * den(k)
                            \/ num(k) * den(l) = num(l) * den(k) /\ IdBefore(k.id, l.id)
  BY DEF Fused, Outscores
<1>3. \A k, l \in seen : k.id \in ChunkIds /\ (k.id = l.id => k = l)
  <2>1. ArmOK(seen)  BY SeenShape
  <2> HIDE DEF seen
  <2> QED BY <2>1, CandidateShape DEF ArmOK
<1> HIDE DEF seen, R, num, den
<1>4. \A k, l \in seen : num(k) * den(l) \in Int  BY <1>1
<1>5. \A k \in seen : <<k, k>> \notin R
  BY <1>2, <1>3, <1>4, IdOrder
<1>6. ASSUME NEW k \in seen, NEW l \in seen, k # l PROVE <<k, l>> \in R \/ <<l, k>> \in R
  <2>1. IdBefore(k.id, l.id) \/ IdBefore(l.id, k.id)  BY <1>3, <1>6, IdOrder
  <2>2. num(k) * den(l) \in Int /\ num(l) * den(k) \in Int  BY <1>4
  <2> QED BY <1>2, <2>1, <2>2
<1>7. ASSUME NEW k \in seen, NEW l \in seen, NEW m \in seen, <<k, l>> \in R, <<l, m>> \in R
      PROVE  <<k, m>> \in R
  <2>1. /\ \/ num(k) * den(l) > num(l) * den(k)
           \/ num(k) * den(l) = num(l) * den(k) /\ IdBefore(k.id, l.id)
        /\ \/ num(l) * den(m) > num(m) * den(l)
           \/ num(l) * den(m) = num(m) * den(l) /\ IdBefore(l.id, m.id)
    BY <1>2, <1>7
  <2>2. /\ num(k) * den(l) \in Int /\ num(l) * den(k) \in Int
        /\ num(l) * den(m) \in Int /\ num(m) * den(l) \in Int
        /\ num(k) * den(m) \in Int /\ num(m) * den(k) \in Int
    BY <1>4
  <2>3. num(k) * den(l) >= num(l) * den(k) /\ num(l) * den(m) >= num(m) * den(l)
    BY <2>1, <2>2
  <2>4. /\ num(k) * den(m) >= num(m) * den(k)
        /\ num(k) * den(l) > num(l) * den(k) \/ num(l) * den(m) > num(m) * den(l)
              => num(k) * den(m) > num(m) * den(k)
    BY <1>1, <2>3, FractionChain
  <2>5. IdBefore(k.id, l.id) /\ IdBefore(l.id, m.id) => IdBefore(k.id, m.id)  BY <1>3, IdOrder
  <2> QED BY <1>2, <2>1, <2>2, <2>4, <2>5
<1> QED BY <1>5, <1>6, <1>7 DEF Orders, seen, R

(* Fusion returns the first topK candidates of that order, each with its place in it.        *)
LEMMA FuseIs ==
    ASSUME NEW dense, NEW sparse, ArmOK(dense), ArmOK(sparse), NEW weight, NEW topK
    PROVE  LET seen == Seen(dense, sparse)
               R == Fused(dense, sparse, weight)
           IN Fuse(dense, sparse, weight, topK) =
                 {[id |-> k.id, rank |-> 1 + Cardinality(Ahead(k, R, seen)), row |-> k.row] : k \in First(topK, R, seen)}
<1> DEFINE seen == Seen(dense, sparse)
           R == Fused(dense, sparse, weight)
           Place1(k) == 1 + Cardinality({l \in seen : Outscores(l.id, k.id, dense, sparse, weight)})
<1>1. Fuse(dense, sparse, weight, topK) =
         {[k EXCEPT !.rank = Place1(k)] : k \in {l \in seen : Place1(l) <= topK}}
  BY DEF Fuse, Best, Place
<1>2. \A k \in seen : Place1(k) = 1 + Cardinality(Ahead(k, R, seen))
  <2>1. \A k \in seen : {l \in seen : Outscores(l.id, k.id, dense, sparse, weight)} = Ahead(k, R, seen)
    BY DEF Ahead, Fused
  <2> QED BY <2>1
<1>3. \A k \in seen : k = [id |-> k.id, rank |-> k.rank, row |-> k.row]
  <2>1. ArmOK(seen)  BY SeenShape
  <2> HIDE DEF seen
  <2> QED BY <2>1, CandidateShape
<1> DEFINE placed(k) == [k EXCEPT !.rank = Place1(k)]
           shown(k) == [id |-> k.id, rank |-> 1 + Cardinality(Ahead(k, R, seen)), row |-> k.row]
<1> HIDE DEF seen, R, Place1
<1>4. {l \in seen : Place1(l) <= topK} = First(topK, R, seen)  BY <1>2 DEF First
<1>5. ASSUME NEW k \in seen PROVE placed(k) = shown(k)
  BY <1>2, <1>3
<1>6. First(topK, R, seen) \subseteq seen  BY DEF First
<1>7. Fuse(dense, sparse, weight, topK) = {placed(k) : k \in First(topK, R, seen)}
  BY <1>1, <1>4
<1> HIDE DEF placed, shown
<1>8. Fuse(dense, sparse, weight, topK) = {shown(k) : k \in First(topK, R, seen)}
  BY <1>5, <1>6, <1>7
<1> QED BY <1>8 DEF seen, R, shown

(* As many candidates as there is room for, one per chunk, their ranks 1, 2, 3 ... without a  *)
(* gap, each with the row the arm had, and ahead of each of them every candidate that         *)
(* outscores it.                                                                             *)
Ranking(results, dense, sparse, weight, topK) ==
    LET seen == Seen(dense, sparse) IN
    /\ ArmOK(results)
    /\ \A k \in results : \E l \in seen : l.id = k.id /\ l.row = k.row
    /\ Cardinality(results) <= topK
    /\ Cardinality(results) < topK => Ids(seen) \subseteq Ids(results)
    /\ {k.rank : k \in results} = 1..Cardinality(results)
    /\ \A k, l \in results : k.rank = l.rank => k = l
    /\ \A k \in results, l \in seen :
          Outscores(l.id, k.id, dense, sparse, weight) => \E m \in results : m.id = l.id /\ m.rank < k.rank

(* That is what fusion returns.                                                              *)
LEMMA FuseReturns ==
    ASSUME NEW dense, NEW sparse, ArmOK(dense), ArmOK(sparse),
           NEW weight, weight \in 0..WeightUnit, NEW topK, topK \in Nat
    PROVE  Ranking(Fuse(dense, sparse, weight, topK), dense, sparse, weight, topK)
<1> DEFINE results == Fuse(dense, sparse, weight, topK)
           seen == Seen(dense, sparse)
           R == Fused(dense, sparse, weight)
           F == First(topK, R, seen)
           place(k) == 1 + Cardinality(Ahead(k, R, seen))
           shown == [k \in F |-> [id |-> k.id, rank |-> place(k), row |-> k.row]]
<1>1. ArmOK(seen) /\ IsFiniteSet(seen)  BY SeenShape DEF ArmOK
<1>2. Orders(R, seen)  BY FusedOrders
<1>3. results = {shown[k] : k \in F}  BY FuseIs
<1>4. \A k, l \in seen : <<k, l>> \in R <=> Outscores(k.id, l.id, dense, sparse, weight)  BY DEF Fused
<1> HIDE DEF results, seen, R
<1>5. F \subseteq seen  BY DEF First
<1>6. /\ IsFiniteSet(F)
      /\ Cardinality(F) = IF Cardinality(seen) <= topK THEN Cardinality(seen) ELSE topK
      /\ {place(k) : k \in F} = 1..Cardinality(F)
      /\ Cardinality(seen) <= topK => F = seen
  BY <1>1, <1>2, FirstCounted
<1>7. \A k, l \in seen : /\ place(k) \in Nat \ {0}
                         /\ <<k, l>> \in R => place(k) < place(l)
                         /\ place(k) = place(l) => k = l
  <2> SUFFICES ASSUME NEW k \in seen, NEW l \in seen
               PROVE  /\ place(k) \in Nat \ {0}
                      /\ <<k, l>> \in R => place(k) < place(l)
                      /\ place(k) = place(l) => k = l
    OBVIOUS
  <2> DEFINE a == Cardinality(Ahead(k, R, seen))
             b == Cardinality(Ahead(l, R, seen))
  <2>1. a \in 0..(Cardinality(seen) - 1) /\ b \in 0..(Cardinality(seen) - 1)
    BY <1>1, <1>2, PlaceFollowsOrder
  <2>2. a \in Nat /\ b \in Nat  BY <2>1
  <2>3. (<<k, l>> \in R <=> a < b) /\ (a = b => k = l)  BY <1>1, <1>2, PlaceFollowsOrder
  <2>4. place(k) = 1 + a /\ place(l) = 1 + b  OBVIOUS
  <2> HIDE DEF a, b, place
  <2> QED BY <2>2, <2>3, <2>4
<1>8. Cardinality(F) \in Nat /\ Cardinality(seen) \in Nat  BY <1>1, <1>6, FS_CardinalityType
<1>9. ASSUME NEW k \in F
      PROVE  shown[k].id = k.id /\ shown[k].rank = place(k) /\ shown[k].row = k.row /\ shown[k] \in Candidate
  <2>1. k.id \in ChunkIds /\ k.row \in ChunkRow  BY <1>1, <1>5, CandidateShape
  <2>2. place(k) \in Nat \ {0}  BY <1>5, <1>7
  <2>3. shown[k] = [id |-> k.id, rank |-> place(k), row |-> k.row]  OBVIOUS
  <2> HIDE DEF shown, place
  <2> QED BY <2>1, <2>2, <2>3 DEF Candidate
<1>14. \A k \in F : place(k) <= topK  BY DEF First
<1>15. \A k \in seen : place(k) <= topK => k \in F  BY DEF First
<1> HIDE DEF shown, place, F
<1>10. \A k, l \in F : shown[k].id = shown[l].id => k = l  BY <1>1, <1>5, <1>9 DEF ArmOK
<1>11. IsFiniteSet(results) /\ Cardinality(results) = Cardinality(F)
  BY <1>3, <1>6, <1>10, FiniteImage, CountedImage
<1>12. ArmOK(results)
  <2>1. \A k \in results : k \in Candidate  BY <1>3, <1>9
  <2>2. \A k, l \in results : k.id = l.id => k = l  BY <1>3, <1>10
  <2> QED BY <1>11, <2>1, <2>2 DEF ArmOK
<1>13. \A k \in results : \E l \in seen : l.id = k.id /\ l.row = k.row
  BY <1>3, <1>5, <1>9
<1>16. {k.rank : k \in results} = 1..Cardinality(results)
  <2>1. {k.rank : k \in results} = {place(k) : k \in F}  BY <1>3, <1>9
  <2> QED BY <1>6, <1>11, <2>1
<1>17. ASSUME NEW k \in results, NEW l \in results, k.rank = l.rank PROVE k = l
  <2>1. PICK i \in F : k = shown[i]  BY <1>3
  <2>2. PICK j \in F : l = shown[j]  BY <1>3
  <2>3. place(i) = place(j)  BY <1>9, <1>17, <2>1, <2>2
  <2>4. i = j  BY <1>5, <1>7, <2>3
  <2> QED BY <2>1, <2>2, <2>4
<1>18. ASSUME NEW k \in results, NEW l \in seen, Outscores(l.id, k.id, dense, sparse, weight)
       PROVE  \E m \in results : m.id = l.id /\ m.rank < k.rank
  <2>1. PICK j \in F : k = shown[j]  BY <1>3
  <2>2. j \in seen /\ j.id = k.id /\ k.rank = place(j)  BY <1>5, <1>9, <2>1
  <2>3. <<l, j>> \in R  BY <1>4, <1>18, <2>2
  <2>4. place(l) < place(j) /\ place(l) \in Nat /\ place(j) \in Nat  BY <1>7, <2>2, <2>3
  <2>5. l \in F  BY <1>14, <1>15, <2>1, <2>4
  <2>6. shown[l] \in results /\ shown[l].id = l.id /\ shown[l].rank < k.rank  BY <1>3, <1>9, <2>2, <2>4, <2>5
  <2> QED BY <2>6
<1>19. Cardinality(results) <= topK  BY <1>6, <1>8, <1>11
<1>20. ASSUME Cardinality(results) < topK PROVE Ids(seen) \subseteq Ids(results)
  <2>1. F = seen  BY <1>6, <1>8, <1>11, <1>20
  <2> QED BY <1>3, <1>9, <2>1 DEF Ids
<1> HIDE DEF results
<1>21. Ranking(results, dense, sparse, weight, topK)
  BY <1>12, <1>13, <1>16, <1>17, <1>18, <1>19, <1>20 DEF Ranking, seen
<1> QED BY <1>21 DEF results

(* What an arm gives a chunk that it ranks no worse is no less, and more if it ranks it      *)
(* better and has any weight.                                                                *)
LEMMA ShareFollowsRank ==
    ASSUME NEW arm, ArmOK(arm), NEW weight \in Nat, NEW c, NEW d,
           weight > 0 => \A k \in arm : k.id = c => \E l \in arm : l.id = d /\ l.rank <= k.rank
    PROVE  LET x == Share(arm, d, weight)
               y == Share(arm, c, weight)
           IN /\ x[1] * y[2] >= y[1] * x[2]
              /\ weight > 0 /\ (\E l \in arm : l.id = d /\ \A k \in arm : k.id = c => l.rank < k.rank)
                    => x[1] * y[2] > y[1] * x[2]
<1> DEFINE x == Share(arm, d, weight)
           y == Share(arm, c, weight)
           better == \E l \in arm : l.id = d /\ \A k \in arm : k.id = c => l.rank < k.rank
<1>1. x[1] \in Nat /\ x[2] \in Nat \ {0} /\ y[1] \in Nat /\ y[2] \in Nat \ {0}
  BY ShareShape
<1>2. /\ \A k \in arm : k.id = c => y = <<weight, RankConstant + k.rank>>
      /\ c \notin Ids(arm) => y = <<0, 1>>
  BY ShareShape
<1>3. /\ \A l \in arm : l.id = d => x = <<weight, RankConstant + l.rank>>
      /\ d \notin Ids(arm) => x = <<0, 1>>
  BY ShareShape
<1>4. \A k \in arm : k.rank \in Nat /\ RankConstant + k.rank \in Nat \ {0}
  <2> SUFFICES ASSUME NEW k \in arm PROVE k.rank \in Nat /\ RankConstant + k.rank \in Nat \ {0}
    OBVIOUS
  <2>1. k.rank \in Nat \ {0}  BY CandidateShape
  <2> QED BY <2>1 DEF RankConstant
<1> HIDE DEF x, y
<1>5. CASE weight = 0
  <2>1. x[1] = 0  BY <1>3, <1>5 DEF Ids
  <2>2. y[1] = 0  BY <1>2, <1>5 DEF Ids
  <2> QED BY <1>1, <1>5, <2>1, <2>2 DEF x, y
<1>6. CASE weight > 0 /\ c \notin Ids(arm)
  <2>1. y = <<0, 1>>  BY <1>2, <1>6
  <2>2. y[1] * x[2] = 0 /\ x[1] * y[2] = x[1]  BY <1>1, <2>1
  <2>3. better => x[1] = weight  BY <1>3
  <2> QED BY <1>1, <1>6, <2>2, <2>3 DEF x, y
<1>7. CASE weight > 0 /\ c \in Ids(arm)
  <2>1. PICK k \in arm : k.id = c  BY <1>7 DEF Ids
  <2>2. PICK l \in arm : l.id = d /\ l.rank <= k.rank  BY <1>7, <2>1
  <2>3. y = <<weight, RankConstant + k.rank>> /\ x = <<weight, RankConstant + l.rank>>
    BY <1>2, <1>3, <2>1, <2>2
  <2>4. better => l.rank < k.rank  BY <2>1, <2>2 DEF ArmOK
  <2> DEFINE p == RankConstant + k.rank
             q == RankConstant + l.rank
  <2>5. p \in Nat \ {0} /\ q \in Nat \ {0} /\ p >= q /\ (better => p > q)
    BY <1>4, <2>2, <2>4 DEF RankConstant
  <2>6. x[1] * y[2] = weight * p /\ y[1] * x[2] = weight * q  BY <2>3
  <2> HIDE DEF p, q, better
  <2>7. weight * p >= weight * q /\ (better => weight * p > weight * q)
    <3>1. p * weight >= q * weight /\ (better => p * weight > q * weight)
      BY <1>7, <2>5, TimesPositive
    <3>2. weight * p = p * weight /\ weight * q = q * weight  BY <2>5
    <3> QED BY <3>1, <3>2
  <2> QED BY <2>6, <2>7 DEF x, y, better
<1> QED BY <1>5, <1>6, <1>7

\* A candidate that dominates another outscores it.
LEMMA DominatesOutscores ==
    ASSUME NEW answer, ArmOK(answer.dense), ArmOK(answer.sparse), NEW weight \in 0..WeightUnit,
           NEW c, NEW d, Dominates(d, c, answer, weight)
    PROVE  Outscores(d, c, answer.dense, answer.sparse, weight)
<1> DEFINE dx == Share(answer.dense, d, weight)
           dy == Share(answer.dense, c, weight)
           sx == Share(answer.sparse, d, WeightUnit - weight)
           sy == Share(answer.sparse, c, WeightUnit - weight)
           ahead(arm) == \E l \in arm : l.id = d /\ \A k \in arm : k.id = c => l.rank < k.rank
<1>1. weight \in Nat /\ WeightUnit - weight \in Nat /\ (WeightUnit - weight > 0 <=> weight < WeightUnit)
  BY DEF WeightUnit
<1>2. /\ weight > 0 => \A k \in answer.dense : k.id = c => \E l \in answer.dense : l.id = d /\ l.rank <= k.rank
      /\ WeightUnit - weight > 0 =>
            \A k \in answer.sparse : k.id = c => \E l \in answer.sparse : l.id = d /\ l.rank <= k.rank
      /\ (weight > 0 /\ ahead(answer.dense)) \/ (WeightUnit - weight > 0 /\ ahead(answer.sparse))
  BY <1>1 DEF Dominates
<1>3. dx[1] * dy[2] >= dy[1] * dx[2] /\ (weight > 0 /\ ahead(answer.dense) => dx[1] * dy[2] > dy[1] * dx[2])
  BY <1>1, <1>2, ShareFollowsRank
<1>4. sx[1] * sy[2] >= sy[1] * sx[2] /\ (WeightUnit - weight > 0 /\ ahead(answer.sparse) => sx[1] * sy[2] > sy[1] * sx[2])
  BY <1>1, <1>2, ShareFollowsRank
<1>5. /\ dx[1] \in Nat /\ dy[1] \in Nat /\ sx[1] \in Nat /\ sy[1] \in Nat
      /\ dx[2] \in Nat \ {0} /\ dy[2] \in Nat \ {0} /\ sx[2] \in Nat \ {0} /\ sy[2] \in Nat \ {0}
  BY <1>1, ShareShape
<1>6. /\ Score(answer.dense, answer.sparse, weight, d) = <<dx[1] * sx[2] + sx[1] * dx[2], dx[2] * sx[2]>>
      /\ Score(answer.dense, answer.sparse, weight, c) = <<dy[1] * sy[2] + sy[1] * dy[2], dy[2] * sy[2]>>
  BY DEF Score
<1>7. dx[1] * dy[2] > dy[1] * dx[2] \/ sx[1] * sy[2] > sy[1] * sx[2]  BY <1>2, <1>3, <1>4
<1> HIDE DEF dx, dy, sx, sy
<1>8. (dx[1] * sx[2] + sx[1] * dx[2]) * (dy[2] * sy[2]) > (dy[1] * sy[2] + sy[1] * dy[2]) * (dx[2] * sx[2])
  BY <1>3, <1>4, <1>5, <1>7, FractionSum
<1> QED BY <1>6, <1>8 DEF Outscores

-----------------------------------------------------------------------------
\* What a search has in hand.

\* The record of a search, field by field.
SearchShape ==
    /\ DOMAIN search = Searches
    /\ search = [s \in Searches |->
                    [pc |-> search[s].pc, request |-> search[s].request, pool |-> search[s].pool,
                     dense |-> search[s].dense, answer |-> search[s].answer]]

(* What a step of a search makes of its record.                                              *)
Moves(old, x) ==
    \/ /\ old.pc = "idle"
       /\ \E q \in Requests : x = [pc |-> IF q.explain THEN "authorize" ELSE "dense", request |-> q,
                                   pool |-> {}, dense |-> {}, answer |-> NoAnswer("none")]
    \/ /\ old.pc = "authorize"
       /\ x = [pc |-> "dense", request |-> old.request, pool |-> Fetchable(Constrain(old.request.who)),
               dense |-> old.dense, answer |-> old.answer]
    \/ /\ old.pc = "dense"
       /\ x = [pc |-> "sparse", request |-> old.request, pool |-> old.pool,
               dense |-> DenseArm(old.request.who), answer |-> old.answer]
    \/ /\ old.pc = "sparse"
       /\ x = Idle(old.request, Respond(old.request, old.pool, old.dense, SparseArm(old.request.who)))
    \/ /\ old.pc # "idle"
       /\ \E code \in {"503", "500"} : x = Idle(old.request, NoAnswer(code))

\* A step of one search is such a move of its record, and leaves the others alone.
LEMMA SearchMoves ==
    ASSUME SearchShape, NEW s \in Searches, Search(s)
    PROVE  /\ SearchShape'
           /\ \A t \in Searches : t # s => search'[t] = search[t]
           /\ Moves(search[s], search'[s])
<1> DEFINE old == search[s]
<1>1. /\ DOMAIN search = Searches
      /\ old = [pc |-> old.pc, request |-> old.request, pool |-> old.pool, dense |-> old.dense, answer |-> old.answer]
  BY DEF SearchShape
<1>2. \E pc, q, pool, dense, answer :
         LET x == [pc |-> pc, request |-> q, pool |-> pool, dense |-> dense, answer |-> answer]
         IN search' = [search EXCEPT ![s] = x] /\ Moves(old, x)
  <2>1. CASE Ask(s)
    <3>1. PICK q \in Requests :
             search' = [search EXCEPT ![s] =
                 [Idle(q, NoAnswer("none")) EXCEPT !.pc = IF q.explain THEN "authorize" ELSE "dense"]]
      BY <2>1 DEF Ask
    <3> DEFINE pc == IF q.explain THEN "authorize" ELSE "dense"
               x == [pc |-> pc, request |-> q, pool |-> {}, dense |-> {}, answer |-> NoAnswer("none")]
    <3>2. [Idle(q, NoAnswer("none")) EXCEPT !.pc = pc] = x  BY DEF Idle
    <3>3. old.pc = "idle"  BY <2>1 DEF Ask
    <3>4. Moves(old, x)  BY <3>3 DEF Moves
    <3>5. search' = [search EXCEPT ![s] = x]  BY <3>1, <3>2
    <3> QED BY <3>4, <3>5
  <2>2. CASE QueryPool(s)
    <3> DEFINE pool == Fetchable(Constrain(old.request.who))
               x == [pc |-> "dense", request |-> old.request, pool |-> pool, dense |-> old.dense, answer |-> old.answer]
    <3>1. old.pc = "authorize" /\ search' = [search EXCEPT ![s] = [old EXCEPT !.pc = "dense", !.pool = pool]]
      BY <2>2 DEF QueryPool
    <3>2. [old EXCEPT !.pc = "dense", !.pool = pool] = x
      <4> DEFINE a == old.pc
                 b == old.request
                 c == old.pool
                 d == old.dense
                 e == old.answer
      <4>1. old = [pc |-> a, request |-> b, pool |-> c, dense |-> d, answer |-> e]  BY <1>1
      <4> HIDE DEF old, pool, a, b, c, d, e
      <4> DEFINE z == [old EXCEPT !.pc = "dense"]
      <4>2. z = [pc |-> "dense", request |-> b, pool |-> c, dense |-> d, answer |-> e]  BY <4>1
      <4> HIDE DEF z
      <4>3. [z EXCEPT !.pool = pool] =
               [pc |-> "dense", request |-> b, pool |-> pool, dense |-> d, answer |-> e]
        BY <4>2
      <4> QED BY <4>3 DEF b, c, d, e, z
    <3>3. Moves(old, x)  BY <3>1 DEF Moves
    <3> QED BY <3>1, <3>2, <3>3
  <2>3. CASE QueryDense(s)
    <3> DEFINE dense == DenseArm(old.request.who)
               x == [pc |-> "sparse", request |-> old.request, pool |-> old.pool, dense |-> dense, answer |-> old.answer]
    <3>1. old.pc = "dense" /\ search' = [search EXCEPT ![s] = [old EXCEPT !.pc = "sparse", !.dense = dense]]
      BY <2>3 DEF QueryDense
    <3>2. [old EXCEPT !.pc = "sparse", !.dense = dense] = x
      <4> DEFINE a == old.pc
                 b == old.request
                 c == old.pool
                 d == old.dense
                 e == old.answer
      <4>1. old = [pc |-> a, request |-> b, pool |-> c, dense |-> d, answer |-> e]  BY <1>1
      <4> HIDE DEF old, dense, a, b, c, d, e
      <4> DEFINE z == [old EXCEPT !.pc = "sparse"]
      <4>2. z = [pc |-> "sparse", request |-> b, pool |-> c, dense |-> d, answer |-> e]  BY <4>1
      <4> HIDE DEF z
      <4>3. [z EXCEPT !.dense = dense] =
               [pc |-> "sparse", request |-> b, pool |-> c, dense |-> dense, answer |-> e]
        BY <4>2
      <4> QED BY <4>3 DEF b, c, d, e, z
    <3>3. Moves(old, x)  BY <3>1 DEF Moves
    <3> QED BY <3>1, <3>2, <3>3
  <2>4. CASE QuerySparse(s)
    <3> DEFINE x == Idle(old.request, Respond(old.request, old.pool, old.dense, SparseArm(old.request.who)))
    <3>1. old.pc = "sparse" /\ search' = [search EXCEPT ![s] = x]  BY <2>4 DEF QuerySparse
    <3>2. Moves(old, x)  BY <3>1 DEF Moves
    <3> HIDE DEF old
    <3> QED BY <3>1, <3>2 DEF Idle
  <2>5. CASE QueryFails(s)
    <3>1. PICK code \in {"503", "500"} : search' = [search EXCEPT ![s] = Idle(old.request, NoAnswer(code))]
      BY <2>5 DEF QueryFails
    <3>2. old.pc # "idle"  BY <2>5 DEF QueryFails
    <3>3. Moves(old, Idle(old.request, NoAnswer(code)))  BY <3>2 DEF Moves
    <3> QED BY <3>1, <3>3 DEF Idle
  <2> QED BY <2>1, <2>2, <2>3, <2>4, <2>5 DEF Search, StatementEnds
<1>3. PICK pc, q, pool, dense, answer :
         LET x == [pc |-> pc, request |-> q, pool |-> pool, dense |-> dense, answer |-> answer]
         IN search' = [search EXCEPT ![s] = x] /\ Moves(old, x)
  BY <1>2
<1> DEFINE x == [pc |-> pc, request |-> q, pool |-> pool, dense |-> dense, answer |-> answer]
<1>4. DOMAIN search' = Searches /\ search'[s] = x /\ \A t \in Searches : t # s => search'[t] = search[t]
  BY <1>1, <1>3
<1>5. \A t \in Searches :
         search[t] = [pc |-> search[t].pc, request |-> search[t].request, pool |-> search[t].pool,
                      dense |-> search[t].dense, answer |-> search[t].answer]
  BY DEF SearchShape
<1>6. ASSUME NEW t \in Searches
      PROVE  search'[t] = [pc |-> search'[t].pc, request |-> search'[t].request, pool |-> search'[t].pool,
                           dense |-> search'[t].dense, answer |-> search'[t].answer]
  <2>1. CASE t = s
    <3>1. x.pc = pc /\ x.request = q /\ x.pool = pool /\ x.dense = dense /\ x.answer = answer  OBVIOUS
    <3>2. search'[t] = x  BY <1>4, <2>1
    <3> QED BY <3>1, <3>2
  <2>2. CASE t # s
    <3>1. search'[t] = search[t]  BY <1>4, <2>2
    <3> QED BY <1>5, <3>1
  <2> QED BY <2>1, <2>2
<1>7. search' = [t \in Searches |-> search'[t]]  BY <1>1, <1>3, <1>4
<1>8. SearchShape'  BY <1>4, <1>6, <1>7 DEF SearchShape
<1>9. Moves(old, search'[s])  BY <1>3, <1>4
<1> QED BY <1>4, <1>8, <1>9

\* Whatever a search holds or has shown, its caller may read.
SearchReads(x) ==
    /\ \A k \in x.dense : ReadableCandidate(x.request.who, k)
    /\ \A arm \in {x.answer.dense, x.answer.sparse, x.answer.results} :
          \A k \in arm : ReadableCandidate(x.request.who, k)
    /\ x.pc = "idle" /\ x.answer.status = "200" => x.answer.enforced

\* An answer other than a 200 shows nothing.
LEMMA NothingShown ==
    ASSUME NEW q, NEW code, code # "200" PROVE SearchReads(Idle(q, NoAnswer(code)))
BY DEF SearchReads, Idle, NoAnswer

\* A move reads through the caller's constraint or carries what was read.
LEMMA ReadsKept ==
    ASSUME NEW old, SearchReads(old), NEW x, Moves(old, x) PROVE SearchReads(x)
<1>1. ASSUME NEW q, x = [pc |-> IF q.explain THEN "authorize" ELSE "dense", request |-> q,
                         pool |-> {}, dense |-> {}, answer |-> NoAnswer("none")]
      PROVE  SearchReads(x)
  BY <1>1 DEF SearchReads, NoAnswer
<1>2. CASE x = [pc |-> "dense", request |-> old.request, pool |-> Fetchable(Constrain(old.request.who)),
                dense |-> old.dense, answer |-> old.answer]
  BY <1>2 DEF SearchReads
<1>3. CASE x = [pc |-> "sparse", request |-> old.request, pool |-> old.pool,
                dense |-> DenseArm(old.request.who), answer |-> old.answer]
  <2>1. \A k \in DenseArm(old.request.who) : ReadableCandidate(old.request.who, k)  BY DenseReadable
  <2>2. /\ x.pc = "sparse" /\ x.request = old.request /\ x.dense = DenseArm(old.request.who)
        /\ x.answer = old.answer
    BY <1>3
  <2> QED BY <2>1, <2>2 DEF SearchReads
<1>4. CASE x = Idle(old.request, Respond(old.request, old.pool, old.dense, SparseArm(old.request.who)))
  <2> DEFINE q == old.request
             sparse == SparseArm(q.who)
             answer == Respond(q, old.pool, old.dense, sparse)
  <2>1. \A k \in old.dense \cup sparse : ReadableCandidate(q.who, k)
    BY SparseReadable DEF SearchReads
  <2>2. \A k \in Fuse(old.dense, sparse, q.weight, q.topK) : ReadableCandidate(q.who, k)
    BY <2>1, FusedReadable
  <2>3. /\ answer.dense = old.dense /\ answer.sparse = sparse
        /\ answer.results = Fuse(old.dense, sparse, q.weight, q.topK)
        /\ answer.enforced = Restricts(Constrain(q.who))
    BY DEF Respond
  <2>4. x.pc = "idle" /\ x.request = q /\ x.dense = {} /\ x.answer = answer
    <3>1. x = Idle(q, answer)  BY <1>4
    <3> HIDE DEF q, answer
    <3> QED BY <3>1 DEF Idle
  <2> HIDE DEF q, sparse, answer
  <2> QED BY <2>1, <2>2, <2>3, <2>4, ConstraintRestricts DEF SearchReads
<1>5. CASE \E code \in {"503", "500"} : x = Idle(old.request, NoAnswer(code))
  BY <1>5, NothingShown
<1> QED BY <1>1, <1>2, <1>3, <1>4, <1>5 DEF Moves

(* A search shows either nothing, or the response to its own request from two rankings, each *)
(* with a row per chunk.                                                                     *)
EvidenceOf(x) ==
    /\ x.request \in Requests
    /\ ArmOK(x.dense)
    /\ IF x.pc = "idle" /\ x.answer.status = "200"
       THEN \E pool, dense, sparse :
               ArmOK(dense) /\ ArmOK(sparse) /\ x.answer = Respond(x.request, pool, dense, sparse)
       ELSE x.answer = NoAnswer(x.answer.status)

\* A move keeps the evidence that of the request.
LEMMA EvidenceKept ==
    ASSUME StoreOK, NEW old, EvidenceOf(old), NEW x, Moves(old, x) PROVE EvidenceOf(x)
<1>1. ArmOK({})  BY FS_EmptySet DEF ArmOK
<1>2. \A code : NoAnswer(code).status = code  BY DEF NoAnswer
<1>3. ASSUME NEW q \in Requests, NEW code, code # "200" PROVE EvidenceOf(Idle(q, NoAnswer(code)))
  <2> DEFINE y == Idle(q, NoAnswer(code))
  <2>1. y.pc = "idle" /\ y.request = q /\ y.dense = {} /\ y.answer = NoAnswer(code)  BY DEF Idle
  <2>2. EvidenceOf(y)
    <3> HIDE DEF y
    <3> QED BY <1>1, <1>2, <1>3, <2>1 DEF EvidenceOf
  <2> QED BY <2>2
<1>4. ASSUME NEW q \in Requests,
             x = [pc |-> IF q.explain THEN "authorize" ELSE "dense", request |-> q,
                  pool |-> {}, dense |-> {}, answer |-> NoAnswer("none")]
      PROVE  EvidenceOf(x)
  <2>1. x.pc # "idle" /\ x.request = q /\ x.dense = {} /\ x.answer = NoAnswer("none")  BY <1>4
  <2> QED BY <1>1, <1>2, <2>1 DEF EvidenceOf
<1>5. CASE /\ old.pc = "authorize"
           /\ x = [pc |-> "dense", request |-> old.request, pool |-> Fetchable(Constrain(old.request.who)),
                   dense |-> old.dense, answer |-> old.answer]
  <2>1. x.pc # "idle" /\ x.request = old.request /\ x.dense = old.dense /\ x.answer = old.answer  BY <1>5
  <2> QED BY <1>5, <2>1 DEF EvidenceOf
<1>6. CASE /\ old.pc = "dense"
           /\ x = [pc |-> "sparse", request |-> old.request, pool |-> old.pool,
                   dense |-> DenseArm(old.request.who), answer |-> old.answer]
  <2>1. x.pc # "idle" /\ x.request = old.request /\ x.dense = DenseArm(old.request.who) /\ x.answer = old.answer
    BY <1>6
  <2>2. ArmOK(x.dense)  BY <2>1, ArmsFetch
  <2> QED BY <1>6, <2>1, <2>2 DEF EvidenceOf
<1>7. CASE /\ old.pc = "sparse"
           /\ x = Idle(old.request, Respond(old.request, old.pool, old.dense, SparseArm(old.request.who)))
  <2> DEFINE answer == Respond(old.request, old.pool, old.dense, SparseArm(old.request.who))
  <2>1. x.pc = "idle" /\ x.request = old.request /\ x.dense = {} /\ x.answer = answer
    <3>1. x = Idle(old.request, answer)  BY <1>7
    <3> HIDE DEF answer
    <3> QED BY <3>1 DEF Idle
  <2>2. answer.status = "200"  BY DEF Respond
  <2>3. ArmOK(SparseArm(old.request.who)) /\ ArmOK(old.dense)  BY ArmsFetch DEF EvidenceOf
  <2> QED BY <1>1, <2>1, <2>2, <2>3 DEF EvidenceOf
<1>8. CASE \E code \in {"503", "500"} : x = Idle(old.request, NoAnswer(code))
  BY <1>3, <1>8 DEF EvidenceOf
<1> QED BY <1>4, <1>5, <1>6, <1>7, <1>8 DEF Moves

-----------------------------------------------------------------------------
\* A search that no writer overtook.

(* What a search holds is what the same statements would return now.                         *)
QuietOf(x) ==
    \A who : who = x.request.who =>
        /\ x.pc \in {"dense", "sparse"} /\ x.request.explain => x.pool = Fetchable(Constrain(who))
        /\ x.pc = "sparse" => x.dense = DenseArm(who)
        /\ x.pc = "idle" /\ x.answer.status = "200" =>
              \E pool : /\ x.request.explain => pool = Fetchable(Constrain(who))
                        /\ x.answer = Respond(x.request, pool, DenseArm(who), SparseArm(who))

\* A move adds what the statements of this store return.
LEMMA QuietKept ==
    ASSUME NEW old, NEW x, Moves(old, x), old.pc # "idle" => QuietOf(old)
    PROVE  QuietOf(x)
<1>1. ASSUME NEW q,
             x = [pc |-> IF q.explain THEN "authorize" ELSE "dense", request |-> q,
                  pool |-> {}, dense |-> {}, answer |-> NoAnswer("none")]
      PROVE  QuietOf(x)
  <2>1. x.pc = (IF x.request.explain THEN "authorize" ELSE "dense")  BY <1>1
  <2> QED BY <2>1 DEF QuietOf
<1>2. CASE /\ old.pc = "authorize"
           /\ x = [pc |-> "dense", request |-> old.request, pool |-> Fetchable(Constrain(old.request.who)),
                   dense |-> old.dense, answer |-> old.answer]
  <2>1. x.pc = "dense" /\ x.pool = Fetchable(Constrain(x.request.who))  BY <1>2
  <2> QED BY <2>1 DEF QuietOf
<1>3. CASE /\ old.pc = "dense"
           /\ x = [pc |-> "sparse", request |-> old.request, pool |-> old.pool,
                   dense |-> DenseArm(old.request.who), answer |-> old.answer]
  <2>1. x.pc = "sparse" /\ x.dense = DenseArm(x.request.who) /\ x.request = old.request /\ x.pool = old.pool
    BY <1>3
  <2> QED BY <1>3, <2>1 DEF QuietOf
<1>4. CASE /\ old.pc = "sparse"
           /\ x = Idle(old.request, Respond(old.request, old.pool, old.dense, SparseArm(old.request.who)))
  <2> DEFINE answer == Respond(old.request, old.pool, old.dense, SparseArm(old.request.who))
  <2>1. x.pc = "idle" /\ x.request = old.request /\ x.answer = answer
    <3>1. x = Idle(old.request, answer)  BY <1>4
    <3> HIDE DEF answer
    <3> QED BY <3>1 DEF Idle
  <2>2. /\ old.dense = DenseArm(old.request.who)
        /\ old.request.explain => old.pool = Fetchable(Constrain(old.request.who))
    BY <1>4 DEF QuietOf
  <2> QED BY <2>1, <2>2 DEF QuietOf
<1>5. CASE \E code \in {"503", "500"} : x = Idle(old.request, NoAnswer(code))
  <2>1. x.pc = "idle" /\ x.answer.status # "200"  BY <1>5 DEF Idle, NoAnswer
  <2> QED BY <2>1 DEF QuietOf
<1> QED BY <1>1, <1>2, <1>3, <1>4, <1>5 DEF Moves

(* The state of the store and of every search.                                               *)
KnowledgeInv ==
    /\ IngestInv
    /\ IsFiniteSet(StoredDocuments)
    /\ SearchShape
    /\ \A s \in Searches :
          SearchReads(search[s]) /\ EvidenceOf(search[s]) /\ (s \notin overtaken => QuietOf(search[s]))

\* Before the first search nothing is held or shown.
LEMMA KnowledgeInvInit == KnowledgeInit => KnowledgeInv
<1> SUFFICES ASSUME KnowledgeInit PROVE KnowledgeInv
  OBVIOUS
<1>1. IngestInv  BY IngestInvInit DEF KnowledgeInit
<1>2. IsFiniteSet(StoredDocuments)
  <2>1. StoredDocuments = {}  BY DEF KnowledgeInit, Init, StoreInit, StoredDocuments, Stored
  <2> QED BY <2>1, FS_EmptySet
<1>3. PICK q \in Requests : search = [s \in Searches |-> Idle(q, NoAnswer("none"))]
  BY DEF KnowledgeInit, SearchInit
<1>4. SearchShape  BY <1>3 DEF SearchShape, Idle
<1>5. ASSUME NEW s \in Searches PROVE SearchReads(search[s]) /\ EvidenceOf(search[s]) /\ QuietOf(search[s])
  <2> DEFINE x == search[s]
  <2>1. x = Idle(q, NoAnswer("none"))  BY <1>3
  <2>2. /\ x.pc = "idle" /\ x.request = q /\ x.dense = {}
        /\ x.answer = NoAnswer("none") /\ x.answer.status = "none"
    BY <2>1 DEF Idle, NoAnswer
  <2>3. ArmOK({})  BY FS_EmptySet DEF ArmOK
  <2>4. SearchReads(x)  BY <2>1, NothingShown
  <2> QED BY <2>2, <2>3, <2>4 DEF EvidenceOf, QuietOf
<1> QED BY <1>1, <1>2, <1>4, <1>5 DEF KnowledgeInv

\* The statements depend on the store and on nothing else.
LEMMA StoreReadAlike ==
    ASSUME storeVars' = storeVars, NEW who
    PROVE  /\ Fetchable(Constrain(who))' = Fetchable(Constrain(who))
           /\ DenseArm(who)' = DenseArm(who)
           /\ SparseArm(who)' = SparseArm(who)
<1>1. chunks' = chunks  BY DEF storeVars
<1>2. Fetchable(Constrain(who))' = Fetchable(Constrain(who))  BY <1>1 DEF Fetchable, Constrain
<1>3. DenseArm(who)' = DenseArm(who)
  BY <1>1, <1>2 DEF DenseArm, Best, Place, Nearer
<1>4. SparseArm(who)' = SparseArm(who)
  BY <1>1, <1>2 DEF SparseArm, Best, Place, MoreRelevant
<1> QED BY <1>2, <1>3, <1>4

\* The invariant is inductive: a search keeps it by its moves, a writer overtakes the searches
\* in progress, whose evidence is then claimed for no single store.
LEMMA KnowledgeInvKept == KnowledgeInv /\ [KnowledgeNext]_knowledgeVars => KnowledgeInv'
<1> SUFFICES ASSUME KnowledgeInv, [KnowledgeNext]_knowledgeVars PROVE KnowledgeInv'
  OBVIOUS
<1>1. [Next]_vars  BY DEF KnowledgeNext, Write, Read, knowledgeVars
<1>2. IngestInv'  BY <1>1, IngestInvStep DEF KnowledgeInv
<1>3. IsFiniteSet(StoredDocuments')  BY <1>1, FiniteStep DEF KnowledgeInv
<1>4. CASE UNCHANGED search /\ storeVars' = storeVars /\ overtaken' = overtaken
  <2>1. SearchShape'  BY <1>4 DEF KnowledgeInv, SearchShape
  <2>2. \A s \in Searches : SearchReads(search[s])' /\ EvidenceOf(search[s])'
    BY <1>4 DEF KnowledgeInv, SearchReads, ReadableCandidate, EvidenceOf
  <2>3. \A s \in Searches : s \notin overtaken' => QuietOf(search[s])'
    BY <1>4, StoreReadAlike DEF KnowledgeInv, QuietOf
  <2> QED BY <1>2, <1>3, <2>1, <2>2, <2>3 DEF KnowledgeInv
<1>5. CASE UNCHANGED search /\ overtaken' = Searches
  <2>1. SearchShape'  BY <1>5 DEF KnowledgeInv, SearchShape
  <2>2. \A s \in Searches : SearchReads(search[s])' /\ EvidenceOf(search[s])'
    BY <1>5 DEF KnowledgeInv, SearchReads, ReadableCandidate, EvidenceOf
  <2> QED BY <1>2, <1>3, <1>5, <2>1, <2>2 DEF KnowledgeInv
<1>6. ASSUME NEW s \in Searches, Read(s) PROVE KnowledgeInv'
  <2>1. /\ SearchShape'
        /\ \A t \in Searches : t # s => search'[t] = search[t]
        /\ Moves(search[s], search'[s])
    BY <1>6, SearchMoves DEF Read, KnowledgeInv
  <2>2. storeVars' = storeVars  BY <1>6 DEF Read, vars
  <2>3. \A t \in Searches : t # s => (t \in overtaken' <=> t \in overtaken)
    BY <1>6 DEF Read
  <2>4. s \notin overtaken' /\ search[s].pc # "idle" => s \notin overtaken
    BY <1>6 DEF Read
  <2>5. EvidenceOf(search[s])'
    <3>1. StoreOK  BY DEF KnowledgeInv, StoreOK, IngestInv, IngestTypeOK
    <3>2. EvidenceOf(search[s])  BY DEF KnowledgeInv
    <3> QED BY <2>1, <3>1, <3>2, EvidenceKept
  <2>6. SearchReads(search[s])'  BY <2>1, ReadsKept DEF KnowledgeInv
  <2>7. s \notin overtaken' => QuietOf(search[s])'
    <3>1. SUFFICES ASSUME s \notin overtaken' PROVE QuietOf(search[s])'
      OBVIOUS
    <3>2. search[s].pc # "idle" => QuietOf(search[s])  BY <2>4, <3>1 DEF KnowledgeInv
    <3>3. QuietOf(search'[s])  BY <2>1, <3>2, QuietKept
    <3> QED BY <2>2, <3>3, StoreReadAlike DEF QuietOf
  <2>8. ASSUME NEW t \in Searches, t # s
        PROVE  SearchReads(search[t])' /\ EvidenceOf(search[t])' /\ (t \notin overtaken' => QuietOf(search[t])')
    <3>1. search'[t] = search[t]  BY <2>1, <2>8
    <3>2. SearchReads(search[t])' /\ EvidenceOf(search[t])'
      BY <3>1 DEF KnowledgeInv, SearchReads, ReadableCandidate, EvidenceOf
    <3>3. QuietOf(search[t]) => QuietOf(search[t])'  BY <2>2, <3>1, StoreReadAlike DEF QuietOf
    <3> QED BY <2>3, <2>8, <3>2, <3>3 DEF KnowledgeInv
  <2> QED BY <1>2, <1>3, <2>1, <2>5, <2>6, <2>7, <2>8 DEF KnowledgeInv
<1> QED BY <1>4, <1>5, <1>6 DEF KnowledgeNext, Write, Read, knowledgeVars, vars

-----------------------------------------------------------------------------
\* The theorems.

\* So it holds of every reachable state.
LEMMA KnowledgeInvariant == KnowledgeSpec => []KnowledgeInv
BY KnowledgeInvInit, KnowledgeInvKept, PTL DEF KnowledgeSpec

(* No row outside its caller's tenancy or above its clearance reaches an answer, for every   *)
(* store content, distance, relevance, weight, limit and any number of searches and writers  *)
(* (postgres_hybrid.py:91, fusion.py:33).                                                    *)
THEOREM ResultsAlwaysReadable == KnowledgeSpec => []ResultsReadable
<1>1. KnowledgeInv => ResultsReadable
  BY DEF KnowledgeInv, SearchReads, ReadableCandidate, ResultsReadable, Who, Answered
<1> QED BY <1>1, KnowledgeInvariant, PTL

(* A search writes nothing: the store under searches is the store of CorpusIngestion, so     *)
(* what is proved of that holds of this, StoreWhole among it (postgres_hybrid.py:158).       *)
THEOREM SearchesOnlyRead == KnowledgeSpec => Spec
<1>1. KnowledgeInit => Init  BY DEF KnowledgeInit
<1>2. [KnowledgeNext]_knowledgeVars => [Next]_vars
  BY DEF KnowledgeNext, Write, Read, knowledgeVars
<1> QED BY <1>1, <1>2, PTL DEF KnowledgeSpec, Spec

(* A document that a search finds is stored whole.                                           *)
THEOREM SearchedStoreWhole == KnowledgeSpec => []StoreWhole
BY SearchesOnlyRead, StoreAlwaysWhole, PTL

-----------------------------------------------------------------------------
\* What the answers show.

\* A request names a caller, a weight and a positive limit.
LEMMA RequestShape ==
    ASSUME NEW q \in Requests
    PROVE  /\ q.who \in AuthorizationContext /\ q.weight \in 0..WeightUnit
           /\ q.topK \in Nat /\ q.topK > 0
<1>1. q \in Request  BY RetrievalAssumption
<1>2. q.who \in AuthorizationContext /\ q.weight \in 0..WeightUnit /\ q.topK \in Nat \ {0}
  BY <1>1 DEF Request
<1> QED BY <1>2

\* An arm has as many chunks as candidates.
LEMMA CountedIds ==
    ASSUME NEW arm, ArmOK(arm) PROVE Cardinality(Ids(arm)) = Cardinality(arm)
<1> DEFINE id == [k \in arm |-> k.id]
<1>1. IsFiniteSet(arm) /\ \A k, l \in arm : id[k] = id[l] => k = l  BY DEF ArmOK
<1>2. Ids(arm) = {id[k] : k \in arm}  BY DEF Ids
<1> HIDE DEF id
<1> QED BY <1>1, <1>2, CountedImage

\* Every candidate accounted for, as EvidenceAccounts says it of an answered search.
Accounts(answer, topK) ==
    LET reached == Ids(answer.dense \cup answer.sparse)
        count == Cardinality(answer.results)
    IN /\ Ids(answer.results) \cup answer.dropped = reached
       /\ Ids(answer.results) \cap answer.dropped = {}
       /\ count = Cardinality(Ids(answer.results))
       /\ count <= topK
       /\ count < topK => answer.dropped = {}
       /\ {k.rank : k \in answer.results} = 1..count
       /\ \A k \in answer.results :
             \E l \in IF k.id \in Ids(answer.dense) THEN answer.dense ELSE answer.sparse :
                 l.id = k.id /\ l.row = k.row

(* The response from two rankings accounts for every candidate of them.                      *)
LEMMA ResponseAccounts ==
    ASSUME NEW q \in Requests, NEW pool, NEW dense, NEW sparse, ArmOK(dense), ArmOK(sparse)
    PROVE  /\ Accounts(Respond(q, pool, dense, sparse), q.topK)
           /\ ArmOK(Respond(q, pool, dense, sparse).results)
<1> DEFINE answer == Respond(q, pool, dense, sparse)
           results == Fuse(dense, sparse, q.weight, q.topK)
           seen == Seen(dense, sparse)
<1>1. /\ answer.dense = dense /\ answer.sparse = sparse /\ answer.results = results
      /\ answer.dropped = Ids(dense \cup sparse) \ Ids(results)
  BY DEF Respond
<1>2. /\ ArmOK(results)
      /\ \A k \in results : \E l \in seen : l.id = k.id /\ l.row = k.row
      /\ Cardinality(results) <= q.topK
      /\ Cardinality(results) < q.topK => Ids(seen) \subseteq Ids(results)
      /\ {k.rank : k \in results} = 1..Cardinality(results)
  <2>1. q.weight \in 0..WeightUnit /\ q.topK \in Nat  BY RequestShape
  <2>2. Ranking(results, dense, sparse, q.weight, q.topK)  BY <2>1, FuseReturns
  <2> HIDE DEF results
  <2> QED BY <2>2 DEF Ranking
<1>3. /\ Ids(seen) = Ids(dense \cup sparse)
      /\ \A k \in seen : IF k.id \in Ids(dense) THEN k \in dense ELSE k \in sparse
  BY SeenShape
<1>4. Cardinality(Ids(results)) = Cardinality(results)  BY <1>2, CountedIds
<1> HIDE DEF answer, results, seen
<1>5. Ids(results) \subseteq Ids(seen)  BY <1>2 DEF Ids
<1>6. \A k \in results : \E l \in IF k.id \in Ids(dense) THEN dense ELSE sparse : l.id = k.id /\ l.row = k.row
  BY <1>2, <1>3
<1>7. Accounts(answer, q.topK)  BY <1>1, <1>2, <1>3, <1>4, <1>5, <1>6 DEF Accounts
<1> QED BY <1>1, <1>2, <1>7 DEF answer

(* The evidence of an answer accounts for every candidate of every request, whatever the     *)
(* stores in which its statements ran: fusion admitted or dropped each, dropped none for     *)
(* which there was room, and shows the row that the first arm had read; a search that fails  *)
(* shows nothing (postgres_hybrid.py:116, fusion.py:49).                                     *)
THEOREM EvidenceAlwaysAccounts == KnowledgeSpec => []EvidenceAccounts
<1>1. KnowledgeInv => EvidenceAccounts
  <2> SUFFICES ASSUME KnowledgeInv PROVE EvidenceAccounts
    OBVIOUS
  <2>1. ASSUME NEW s \in Searches, Answered(s)
        PROVE  \E pool, dense, sparse :
                  /\ search[s].request \in Requests /\ ArmOK(dense) /\ ArmOK(sparse)
                  /\ search[s].answer = Respond(search[s].request, pool, dense, sparse)
    BY <2>1 DEF KnowledgeInv, EvidenceOf, Answered
  <2>2. ASSUME NEW s \in Searches, ~Answered(s) PROVE search[s].answer = NoAnswer(search[s].answer.status)
    BY <2>2 DEF KnowledgeInv, EvidenceOf, Answered
  <2>3. ASSUME NEW s \in Searches, Answered(s) PROVE Accounts(search[s].answer, search[s].request.topK)
    BY <2>1, <2>3, ResponseAccounts
  <2> QED BY <2>2, <2>3 DEF EvidenceAccounts, Accounts
<1> QED BY <1>1, KnowledgeInvariant, PTL

(* The response from two rankings never puts a candidate before one that dominates it.       *)
LEMMA ResponseOrder ==
    ASSUME NEW q \in Requests, NEW pool, NEW dense, NEW sparse, ArmOK(dense), ArmOK(sparse)
    PROVE  LET answer == Respond(q, pool, dense, sparse) IN
           \A k \in answer.results, d \in Ids(answer.dense \cup answer.sparse) :
              Dominates(d, k.id, answer, q.weight) => \E l \in answer.results : l.id = d /\ Better(l, k)
<1> DEFINE answer == Respond(q, pool, dense, sparse)
           results == Fuse(dense, sparse, q.weight, q.topK)
           seen == Seen(dense, sparse)
<1>1. answer.dense = dense /\ answer.sparse = sparse /\ answer.results = results
  BY DEF Respond
<1>2. q.weight \in 0..WeightUnit /\ q.topK \in Nat  BY RequestShape
<1>3. \A k \in results, l \in seen :
         Outscores(l.id, k.id, dense, sparse, q.weight) => \E m \in results : m.id = l.id /\ m.rank < k.rank
  <2>1. Ranking(results, dense, sparse, q.weight, q.topK)  BY <1>2, FuseReturns
  <2> HIDE DEF results
  <2> QED BY <2>1 DEF Ranking
<1>4. Ids(seen) = Ids(dense \cup sparse)  BY SeenShape
<1> HIDE DEF answer, results, seen
<1>5. ASSUME NEW k \in results, NEW d \in Ids(dense \cup sparse), Dominates(d, k.id, answer, q.weight)
      PROVE  \E l \in results : l.id = d /\ Better(l, k)
  <2>1. Outscores(d, k.id, dense, sparse, q.weight)
    BY <1>1, <1>2, <1>5, DominatesOutscores
  <2>2. PICK l \in seen : l.id = d  BY <1>4, <1>5 DEF Ids
  <2> QED BY <1>3, <2>1, <2>2 DEF Better
<1> QED BY <1>1, <1>5 DEF answer

(* Fusion never prefers a candidate to one that is no worse in every arm with weight and     *)
(* better in one, for every pair of rankings and every weight (domain/fusion.py:44).         *)
THEOREM FusionAlwaysOrders == KnowledgeSpec => []FusionOrder
<1>1. KnowledgeInv => FusionOrder
  <2> SUFFICES ASSUME KnowledgeInv PROVE FusionOrder
    OBVIOUS
  <2>1. ASSUME NEW s \in Searches, Answered(s)
        PROVE  \E pool, dense, sparse :
                  /\ search[s].request \in Requests /\ ArmOK(dense) /\ ArmOK(sparse)
                  /\ search[s].answer = Respond(search[s].request, pool, dense, sparse)
    BY <2>1 DEF KnowledgeInv, EvidenceOf, Answered
  <2> QED BY <2>1, ResponseOrder DEF FusionOrder
<1> QED BY <1>1, KnowledgeInvariant, PTL

(* What a reader may fetch is what it may read.                                              *)
LEMMA FetchableIsReadable ==
    ASSUME StoreOK, NEW who \in AuthorizationContext
    PROVE  Fetchable(Constrain(who)) = {c \in ChunkIds : chunks[c] # Absent /\ Readable(who, chunks[c].access)}
<1>1. ASSUME NEW c \in ChunkIds, chunks[c] # Absent
      PROVE  ConstraintClause(Constrain(who), chunks[c].access) <=> Readable(who, chunks[c].access)
  <2>1. chunks[c].access \in AccessLabel
    <3>1. chunks[c] \in ChunkRow  BY <1>1 DEF StoreOK, StoreTypeOK
    <3> QED BY <3>1 DEF ChunkRow
  <2> QED BY <2>1, ConstraintIsReadability
<1> QED BY <1>1 DEF Fetchable

(* The evidence of an answer that nothing overtook.                                          *)
LEMMA QuietAnswer ==
    ASSUME KnowledgeInv, NEW s \in Searches, Answered(s), s \notin overtaken
    PROVE  LET answer == search[s].answer
               who == Who(s)
               readable == {c \in ChunkIds : chunks[c] # Absent /\ Readable(who, chunks[c].access)}
           IN /\ search[s].request.explain => answer.pool = readable
              /\ answer.dense = DenseArm(who) /\ answer.sparse = SparseArm(who)
              /\ Fetchable(Constrain(who)) = readable
              /\ Accounts(answer, search[s].request.topK) /\ ArmOK(answer.results)
              /\ search[s].request \in Requests
<1> DEFINE q == search[s].request
           answer == search[s].answer
<1>1. StoreOK /\ q \in Requests
  BY DEF KnowledgeInv, StoreOK, IngestInv, IngestTypeOK, EvidenceOf
<1>2. PICK pool : /\ q.explain => pool = Fetchable(Constrain(q.who))
                  /\ answer = Respond(q, pool, DenseArm(q.who), SparseArm(q.who))
  BY DEF KnowledgeInv, QuietOf, Answered
<1>3. answer.pool = pool /\ answer.dense = DenseArm(q.who) /\ answer.sparse = SparseArm(q.who)
  BY <1>2 DEF Respond
<1>4. ArmOK(DenseArm(q.who)) /\ ArmOK(SparseArm(q.who))  BY <1>1, ArmsFetch
<1>5. Accounts(answer, q.topK) /\ ArmOK(answer.results)  BY <1>1, <1>2, <1>4, ResponseAccounts
<1>6. Fetchable(Constrain(q.who)) = {c \in ChunkIds : chunks[c] # Absent /\ Readable(q.who, chunks[c].access)}
  <2>1. q.who \in AuthorizationContext  BY <1>1, RequestShape
  <2> QED BY <1>1, <2>1, FetchableIsReadable
<1> HIDE DEF answer
<1> QED BY <1>1, <1>2, <1>3, <1>5, <1>6 DEF Who, answer

(* An explained search that no writer overtook shows one store: its pool is what its caller  *)
(* may read, its arms come from the pool as it is, and the dense arm lacks a readable chunk  *)
(* only when it is full (postgres_hybrid.py:158, :178, :212).                                *)
THEOREM QuietAlwaysOneStore == KnowledgeSpec => []QuietEvidence
<1>1. KnowledgeInv => QuietEvidence
  <2> SUFFICES ASSUME KnowledgeInv, NEW s \in Searches, Answered(s), s \notin overtaken
               PROVE  LET answer == search[s].answer
                          readable == {c \in ChunkIds : chunks[c] # Absent /\ Readable(Who(s), chunks[c].access)}
                      IN /\ search[s].request.explain => answer.pool = readable
                         /\ \A arm \in {answer.dense, answer.sparse} :
                               \A k \in arm : k.id \in readable /\ k.row = chunks[k.id]
                         /\ readable \subseteq Ids(answer.dense) \/ Cardinality(answer.dense) = CandidatePool
    BY DEF QuietEvidence
  <2> DEFINE answer == search[s].answer
             readable == {c \in ChunkIds : chunks[c] # Absent /\ Readable(Who(s), chunks[c].access)}
  <2>1. /\ search[s].request.explain => answer.pool = readable
        /\ answer.dense = DenseArm(Who(s)) /\ answer.sparse = SparseArm(Who(s))
        /\ Fetchable(Constrain(Who(s))) = readable
    BY QuietAnswer
  <2>2. StoreOK  BY DEF KnowledgeInv, StoreOK, IngestInv, IngestTypeOK
  <2>3. /\ \A k \in DenseArm(Who(s)) \cup SparseArm(Who(s)) :
              k.id \in Fetchable(Constrain(Who(s))) /\ k.row = chunks[k.id]
        /\ \/ Fetchable(Constrain(Who(s))) \subseteq Ids(DenseArm(Who(s)))
           \/ Cardinality(DenseArm(Who(s))) = CandidatePool
    <3>1. \A who : /\ \A k \in DenseArm(who) \cup SparseArm(who) :
                         k.id \in Fetchable(Constrain(who)) /\ k.row = chunks[k.id]
                   /\ \/ Fetchable(Constrain(who)) \subseteq Ids(DenseArm(who))
                      \/ Cardinality(DenseArm(who)) = CandidatePool
      BY <2>2, ArmsFetch
    <3> QED BY <3>1
  <2> HIDE DEF answer, readable
  <2>4. \A arm \in {answer.dense, answer.sparse} : \A k \in arm : k.id \in readable /\ k.row = chunks[k.id]
    BY <2>1, <2>3
  <2>5. readable \subseteq Ids(answer.dense) \/ Cardinality(answer.dense) = CandidatePool
    BY <2>1, <2>3
  <2> QED BY <2>1, <2>4, <2>5 DEF answer, readable
<1> QED BY <1>1, KnowledgeInvariant, PTL

(* The questions of the diagnostic are asked in an order that contradicts none of them.      *)
LEMMA BlameIsOpen ==
    ASSUME NEW seen, NEW contradicted, NEW doc
    PROVE  LET blamed == Attribute(seen, IsSplit(doc), contradicted) IN
           /\ blamed \notin RuledOut(seen, HasWholeChunk(doc), contradicted)
           /\ ~seen.retrieved => (blamed \in {"authorization", "no defect"} <=> ~seen.readable)
           /\ blamed = "fusion" => ~seen.retrieved /\ seen.inDense
<1> DEFINE blamed == Attribute(seen, IsSplit(doc), contradicted)
<1>1. /\ seen.retrieved => blamed = "no miss"
      /\ ~seen.retrieved /\ ~seen.readable => blamed = IF contradicted THEN "authorization" ELSE "no defect"
      /\ ~seen.retrieved /\ seen.readable /\ ~seen.inDense /\ ~seen.inSparse =>
            blamed = IF IsSplit(doc) THEN "chunking" ELSE "not isolated"
      /\ ~seen.retrieved /\ seen.readable /\ seen.inSparse /\ ~seen.inDense => blamed = "embedding"
      /\ ~seen.retrieved /\ seen.readable /\ seen.inDense /\ ~seen.inSparse => blamed = "sparse matching"
      /\ ~seen.retrieved /\ seen.readable /\ seen.inDense /\ seen.inSparse => blamed = "fusion"
  BY DEF Attribute
<1>2. \A stage : stage \in RuledOut(seen, HasWholeChunk(doc), contradicted) =>
         \/ stage = "authorization" /\ (seen.readable \/ ~contradicted)
         \/ stage = "chunking" /\ HasWholeChunk(doc)
         \/ stage = "embedding" /\ seen.inDense
         \/ stage = "sparse matching" /\ seen.inSparse
         \/ stage = "fusion" /\ seen.retrieved
  BY DEF RuledOut
<1>3. ~(IsSplit(doc) /\ HasWholeChunk(doc))  BY DEF IsSplit, HasWholeChunk
<1> HIDE DEF blamed
<1> QED BY <1>1, <1>2, <1>3 DEF blamed

\* What MissAttributed says of one search and one target.
Blamed(s, r, target) ==
    LET answer == search[s].answer
        id == target[1]
        seen == Observe(target, answer.pool, Ids(answer.dense), Ids(answer.sparse), Ids(answer.results), answer.dropped)
        contradicted == ContradictsLabel(id, Corpus(r), CustodyFile[r])
        blamed == Attribute(seen, IsSplit(Corpus(r)[id]), contradicted)
    IN /\ blamed \notin RuledOut(seen, HasWholeChunk(Corpus(r)[id]), contradicted)
       /\ ~seen.retrieved =>
            (blamed \in {"authorization", "no defect"} <=> ~Readable(Who(s), chunks[target].access))
       /\ blamed = "fusion" => Cardinality(answer.results) = search[s].request.topK

(* On evidence of one store a miss is put down to a stage the evidence leaves open, to the   *)
(* access rule exactly when the caller may not read the chunk, and to fusion only when       *)
(* top_k others came out (attribution.py:271, :314).                                         *)
THEOREM MissAlwaysAttributed == KnowledgeSpec => []MissAttributed
<1>1. ASSUME KnowledgeInv, NEW s \in Searches, Answered(s), s \notin overtaken, search[s].request.explain,
             NEW r \in Releases, NEW target \in ChunkIds, chunks[target] # Absent
      PROVE  Blamed(s, r, target)
  <2> DEFINE answer == search[s].answer
             id == target[1]
             doc == Corpus(r)[id]
             seen == Observe(target, answer.pool, Ids(answer.dense), Ids(answer.sparse), Ids(answer.results), answer.dropped)
             contradicted == ContradictsLabel(id, Corpus(r), CustodyFile[r])
             blamed == Attribute(seen, IsSplit(doc), contradicted)
             readable == {c \in ChunkIds : chunks[c] # Absent /\ Readable(Who(s), chunks[c].access)}
             topK == search[s].request.topK
  <2>1. /\ answer.pool = readable /\ Accounts(answer, topK) /\ ArmOK(answer.results)
        /\ search[s].request \in Requests
    BY <1>1, QuietAnswer
  <2>2. /\ blamed \notin RuledOut(seen, HasWholeChunk(doc), contradicted)
        /\ target \notin Ids(answer.results) => (blamed \in {"authorization", "no defect"} <=> target \notin answer.pool)
        /\ blamed = "fusion" => target \notin Ids(answer.results) /\ target \in Ids(answer.dense)
    <3>1. /\ blamed \notin RuledOut(seen, HasWholeChunk(doc), contradicted)
          /\ ~seen.retrieved => (blamed \in {"authorization", "no defect"} <=> ~seen.readable)
          /\ blamed = "fusion" => ~seen.retrieved /\ seen.inDense
      <4> HIDE DEF seen, contradicted, doc
      <4> QED BY BlameIsOpen
    <3>2. /\ seen.retrieved <=> target \in Ids(answer.results)
          /\ seen.readable <=> target \in answer.pool
          /\ seen.inDense <=> target \in Ids(answer.dense)
      BY DEF Observe
    <3> HIDE DEF seen, contradicted, doc, blamed, answer
    <3> QED BY <3>1, <3>2
  <2>3. seen.retrieved <=> target \in Ids(answer.results)  BY DEF Observe
  <2>4. target \in readable <=> Readable(Who(s), chunks[target].access)  BY <1>1
  <2>5. target \notin Ids(answer.results) /\ target \in Ids(answer.dense) => Cardinality(answer.results) = topK
    <3> HIDE DEF answer, topK
    <3>1. SUFFICES ASSUME target \notin Ids(answer.results), target \in Ids(answer.dense)
                   PROVE  Cardinality(answer.results) = topK
      OBVIOUS
    <3>2. target \in Ids(answer.dense \cup answer.sparse)  BY <3>1 DEF Ids
    <3>3. answer.dropped # {}  BY <2>1, <3>1, <3>2 DEF Accounts
    <3>4. topK \in Nat  BY <2>1, RequestShape DEF topK
    <3>5. ~(Cardinality(answer.results) < topK) /\ Cardinality(answer.results) <= topK
      BY <2>1, <3>3 DEF Accounts
    <3>6. Cardinality(answer.results) \in Nat  BY <2>1, FS_CardinalityType DEF ArmOK
    <3> QED BY <3>4, <3>5, <3>6
  <2> HIDE DEF answer, seen, blamed, readable, contradicted, topK
  <2> QED BY <2>1, <2>2, <2>3, <2>4, <2>5 DEF Blamed, answer, seen, blamed, doc, contradicted, topK
<1>2. KnowledgeInv => MissAttributed
  <2> SUFFICES ASSUME KnowledgeInv PROVE MissAttributed
    OBVIOUS
  <2>1. \A s \in Searches : Answered(s) /\ s \notin overtaken /\ search[s].request.explain =>
           \A r \in Releases, target \in ChunkIds : chunks[target] # Absent => Blamed(s, r, target)
    BY <1>1
  <2> QED BY <2>1, ZenonT(60) DEF MissAttributed, Blamed
<1> QED BY <1>2, KnowledgeInvariant, PTL

-----------------------------------------------------------------------------
\* The prompt context.

RankedOnce(arm) == \A k, l \in arm : k.rank = l.rank => k = l

Lengths(arm) == [k \in arm |-> WordCount[k.row.text]]
Ranks(arm) == [k \in arm |-> k.rank]

\* The words and the rank of a candidate are numbers, the words at least one.
LEMMA CandidateNumbers ==
    ASSUME NEW arm, ArmOK(arm), NEW k \in arm
    PROVE  /\ Lengths(arm)[k] = WordCount[k.row.text] /\ Lengths(arm)[k] \in Nat /\ Lengths(arm)[k] > 0
           /\ Ranks(arm)[k] = k.rank /\ Ranks(arm)[k] \in Nat
<1>1. k.rank \in Nat \ {0} /\ k.row \in ChunkRow  BY CandidateShape
<1>2. k.row.text \in Texts  BY <1>1 DEF ChunkRow
<1>3. WordCount \in [Texts -> Nat \ {0}]  BY RetrievalAssumption
<1>4. WordCount[k.row.text] \in Nat \ {0}  BY <1>2, <1>3
<1> QED BY <1>1, <1>4 DEF Lengths, Ranks

(* The words of some candidates, as a sum over them.                                         *)
LEMMA WordsAdded ==
    ASSUME NEW arm, IsFiniteSet(arm), NEW T, T \subseteq arm
    PROVE  Words(T) = Added(Lengths(arm), T)
<1>1. Words(T) = Added(Lengths(T), T)  BY DEF Words, Added, FoldFunction, Lengths
<1>2. IsFiniteSet(T)  BY FS_Subset
<1>3. \A k \in T : Lengths(T)[k] = Lengths(arm)[k]  BY DEF Lengths
<1>4. Added(Lengths(T), T) = Added(Lengths(arm), T)  BY <1>2, <1>3, AddedAgrees
<1> QED BY <1>1, <1>4

(* What goes downstream: the best chunk of each document, the best documents first, as many  *)
(* as may be cited.                                                                          *)
LEMMA SelectKeeps ==
    ASSUME NEW arm, ArmOK(arm), RankedOnce(arm)
    PROVE  LET selected == Select(arm) IN
           /\ selected \subseteq arm
           /\ Cardinality(selected) <= CitationLimit
           /\ \A k, l \in selected : k.id[1] = l.id[1] => k = l
           /\ \A k \in selected, l \in arm :
                 Better(l, k) => \E e \in selected : e.id[1] = l.id[1] /\ ~Better(l, e) /\ Better(e, k)
           /\ Cardinality(selected) < CitationLimit => \A l \in arm : \E e \in selected : e.id[1] = l.id[1]
<1> DEFINE best == {k \in arm : ~\E l \in arm : l.id[1] = k.id[1] /\ Better(l, k)}
           R == {p \in best \X best : Better(p[1], p[2])}
           selected == Select(arm)
<1>1. IsFiniteSet(best)  BY FS_Subset DEF ArmOK
<1>2. \A k \in arm : k.rank \in Nat
  <2> SUFFICES ASSUME NEW k \in arm PROVE k.rank \in Nat
    OBVIOUS
  <2>1. k.rank \in Nat \ {0}  BY CandidateShape
  <2> QED BY <2>1
<1>3. \A k, l \in best : <<k, l>> \in R <=> k.rank < l.rank  BY DEF Better
<1>4. \A k \in best : k \in arm /\ k.rank \in Nat  BY <1>2
<1>5. Orders(R, best)
  <2>1. \A k, l \in best : k.rank = l.rank => k = l  BY <1>4 DEF RankedOnce
  <2> HIDE DEF R, best
  <2> QED BY <1>3, <1>4, <2>1 DEF Orders
<1>6. \A k \in best : {l \in best : Better(l, k)} = Ahead(k, R, best)  BY DEF Ahead
<1>7. selected = First(CitationLimit, R, best)
  <2>1. selected = {k \in best : Cardinality({l \in best : Better(l, k)}) < CitationLimit}  BY DEF Select
  <2>2. \A k \in best : Cardinality(Ahead(k, R, best)) \in Nat
    <3>1. \A k \in best : IsFiniteSet(Ahead(k, R, best))
      <4> HIDE DEF R, best
      <4>1. \A k \in best : Ahead(k, R, best) \subseteq best  BY DEF Ahead
      <4> QED BY <1>1, <4>1, FS_Subset
    <3> QED BY <3>1, FS_CardinalityType
  <2>3. CitationLimit \in Nat  BY RetrievalAssumption
  <2> HIDE DEF R, best, selected
  <2>4. \A k \in best : Cardinality({l \in best : Better(l, k)}) < CitationLimit <=>
                         1 + Cardinality(Ahead(k, R, best)) <= CitationLimit
    BY <1>6, <2>2, <2>3
  <2> QED BY <2>1, <2>4 DEF First
<1>8. selected \subseteq best  BY <1>7 DEF First
<1>9. /\ Cardinality(selected) = IF Cardinality(best) <= CitationLimit THEN Cardinality(best) ELSE CitationLimit
      /\ Cardinality(best) <= CitationLimit => selected = best
  <2>1. CitationLimit \in Nat  BY RetrievalAssumption
  <2> HIDE DEF R, best, selected
  <2> QED BY <1>1, <1>5, <1>7, <2>1, FirstCounted
<1>10. ASSUME NEW l \in arm PROVE \E e \in best : e.id[1] = l.id[1] /\ e.rank <= l.rank
  <2> DEFINE same == {k \in arm : k.id[1] = l.id[1]}
  <2>1. \A k \in same : Ranks(arm)[k] = k.rank /\ Ranks(arm)[k] \in Nat
    BY CandidateNumbers
  <2>2. l \in same  OBVIOUS
  <2>3. PICK e \in same : \A k \in same : Ranks(arm)[e] <= Ranks(arm)[k]
    <3> HIDE DEF same
    <3> QED BY <2>1, <2>2, LeastNumbered
  <2>4. e \in arm /\ e.id[1] = l.id[1] /\ e.rank <= l.rank  BY <2>1, <2>2, <2>3
  <2>5. \A k \in arm : k.id[1] = e.id[1] => ~Better(k, e)
    <3> SUFFICES ASSUME NEW k \in arm, k.id[1] = e.id[1] PROVE ~Better(k, e)
      OBVIOUS
    <3>1. k \in same  BY <2>4
    <3>2. e.rank <= k.rank /\ e.rank \in Nat /\ k.rank \in Nat  BY <1>2, <2>1, <2>3, <3>1
    <3> QED BY <3>2 DEF Better
  <2> QED BY <2>4, <2>5
<1>11. ASSUME NEW k \in selected, NEW l \in selected, k.id[1] = l.id[1] PROVE k = l
  <2>1. k \in arm /\ l \in arm /\ ~Better(k, l) /\ ~Better(l, k)  BY <1>8, <1>11
  <2>2. k.rank = l.rank  BY <1>2, <2>1 DEF Better
  <2> QED BY <2>1, <2>2 DEF RankedOnce
<1>12. ASSUME NEW k \in selected, NEW l \in arm, Better(l, k)
       PROVE  \E e \in selected : e.id[1] = l.id[1] /\ ~Better(l, e) /\ Better(e, k)
  <2>1. PICK e \in best : e.id[1] = l.id[1] /\ e.rank <= l.rank  BY <1>10
  <2>2. k \in best /\ k \in arm /\ k.rank \in Nat /\ l.rank \in Nat /\ e.rank \in Nat  BY <1>2, <1>4, <1>8
  <2>3. e.rank < k.rank /\ ~(l.rank < e.rank)  BY <1>12, <2>1, <2>2 DEF Better
  <2>4. Cardinality(Ahead(e, R, best)) < Cardinality(Ahead(k, R, best))
    <3>1. <<e, k>> \in R  BY <1>3, <2>2, <2>3
    <3> HIDE DEF R, best
    <3> QED BY <1>1, <1>5, <2>2, <3>1, PlaceFollowsOrder
  <2>5. /\ Cardinality(Ahead(e, R, best)) \in 0..(Cardinality(best) - 1)
        /\ Cardinality(Ahead(k, R, best)) \in 0..(Cardinality(best) - 1)
    <3> HIDE DEF R, best
    <3> QED BY <1>1, <1>5, <2>2, PlaceFollowsOrder
  <2>6. e \in selected
    <3>1. 1 + Cardinality(Ahead(k, R, best)) <= CitationLimit  BY <1>7 DEF First
    <3>2. CitationLimit \in Nat /\ Cardinality(best) \in Nat  BY <1>1, FS_CardinalityType, RetrievalAssumption
    <3> HIDE DEF R, best, selected
    <3>3. 1 + Cardinality(Ahead(e, R, best)) <= CitationLimit  BY <2>4, <2>5, <3>1, <3>2
    <3> QED BY <1>7, <3>3 DEF First
  <2> QED BY <2>1, <2>3, <2>6 DEF Better
<1>13. ASSUME Cardinality(selected) < CitationLimit PROVE \A l \in arm : \E e \in selected : e.id[1] = l.id[1]
  <2>1. Cardinality(best) \in Nat /\ CitationLimit \in Nat  BY <1>1, FS_CardinalityType, RetrievalAssumption
  <2>2. selected = best
    <3> HIDE DEF best, selected
    <3> QED BY <1>9, <1>13, <2>1
  <2> QED BY <1>10, <2>2
<1>14. Cardinality(selected) <= CitationLimit
  <2>1. Cardinality(best) \in Nat /\ CitationLimit \in Nat  BY <1>1, FS_CardinalityType, RetrievalAssumption
  <2> HIDE DEF best, selected
  <2> QED BY <1>9, <2>1
<1>15. selected \subseteq arm  BY <1>8
<1> HIDE DEF selected
<1> QED BY <1>11, <1>12, <1>13, <1>14, <1>15 DEF selected

(* The blocks of the context: in rank order until the budget is spent, whole unless it is.   *)
LEMMA AssembleSpends ==
    ASSUME NEW arm, ArmOK(arm), RankedOnce(arm)
    PROVE  LET context == Assemble(arm)
               included == {k \in arm : Words({l \in arm : Better(l, k)}) < TokenBudget}
           IN /\ Ids(context.blocks) = {k.id : k \in included}
              /\ context.used \in Nat /\ context.used <= TokenBudget
              /\ \A k \in included, l \in arm : Better(l, k) => l \in included
              /\ context.used < TokenBudget =>
                    /\ included = arm
                    /\ \A k \in arm : [id |-> k.id, words |-> WordCount[k.row.text]] \in context.blocks
<1> DEFINE f == Lengths(arm)
           number == Ranks(arm)
           before(k) == {l \in arm : Better(l, k)}
           Remaining(k) == TokenBudget - Words(before(k))
           Trimmed(k) == IF WordCount[k.row.text] <= Remaining(k) THEN WordCount[k.row.text] ELSE Remaining(k)
           included == {k \in arm : Words(before(k)) < TokenBudget}
           served == {k \in arm : Remaining(k) > 0}
           t == [k \in served |-> Trimmed(k)]
           block(k) == [id |-> k.id, words |-> Trimmed(k)]
           context == Assemble(arm)
<1>1. TokenBudget \in Nat /\ TokenBudget > 0  BY RetrievalAssumption
<1>2. IsFiniteSet(arm)  BY DEF ArmOK
<1>3. \A k \in arm : /\ f[k] = WordCount[k.row.text] /\ f[k] \in Nat /\ f[k] > 0
                     /\ number[k] = k.rank /\ number[k] \in Nat
  BY CandidateNumbers
<1>4. context.blocks = {block(k) : k \in served} /\ context.used = FoldFunction(+, 0, t)
  BY DEF Assemble
<1>5. context.used = Added(t, served)  BY <1>4 DEF FoldFunction, Added
<1>6. ASSUME NEW k \in arm
      PROVE  /\ before(k) = Preceding(k, number, arm)
             /\ Words(before(k)) = Added(f, Preceding(k, number, arm))
             /\ Words(before(k)) \in Nat
             /\ Remaining(k) = LeftOver(k, f, number, arm, TokenBudget)
  <2>1. before(k) = Preceding(k, number, arm)
    <3> HIDE DEF number
    <3> QED BY <1>3 DEF Preceding, Better
  <2>2. before(k) \subseteq arm  OBVIOUS
  <2>3. Words(before(k)) = Added(f, before(k))
    <3> HIDE DEF before
    <3> QED BY <1>2, <2>2, WordsAdded
  <2>4. Added(f, before(k)) \in Nat
    <3> HIDE DEF before, f
    <3>1. IsFiniteSet(before(k))  BY <1>2, <2>2, FS_Subset
    <3>2. \A l \in before(k) : f[l] \in Nat  BY <1>3, <2>2
    <3> QED BY <3>1, <3>2, AddedType
  <2> HIDE DEF before, f, number
  <2>5. Words(before(k)) = Added(f, Preceding(k, number, arm))  BY <2>1, <2>3
  <2> QED BY <2>1, <2>3, <2>4, <2>5 DEF LeftOver
<1>7. served = included
  <2> HIDE DEF before
  <2> QED BY <1>1, <1>6
<1>8. served = {k \in arm : LeftOver(k, f, number, arm, TokenBudget) > 0}
  <2> HIDE DEF f, number, before, Remaining
  <2> QED BY <1>6 DEF served
<1>9. \A k \in served : t[k] = IF f[k] <= LeftOver(k, f, number, arm, TokenBudget)
                               THEN f[k] ELSE LeftOver(k, f, number, arm, TokenBudget)
  <2> HIDE DEF f, number, before, Remaining
  <2> QED BY <1>3, <1>6
<1>10. \A k, l \in arm : number[k] = number[l] => k = l  BY <1>3 DEF RankedOnce
<1>11. /\ Added(f, arm) <= TokenBudget => served = arm /\ Added(t, arm) = Added(f, arm) /\ \A k \in arm : t[k] = f[k]
       /\ Added(f, arm) > TokenBudget => Added(t, served) = TokenBudget
  <2> HIDE DEF f, number, served, t
  <2> QED BY <1>1, <1>2, <1>3, <1>8, <1>9, <1>10, SpentInOrder
<1>12. Added(f, arm) \in Nat
  <2> HIDE DEF f
  <2> QED BY <1>2, <1>3, AddedType
<1>13. context.used \in Nat /\ context.used <= TokenBudget
  <2> HIDE DEF f, served, t, context
  <2> QED BY <1>1, <1>5, <1>11, <1>12
<1>14. ASSUME context.used < TokenBudget
       PROVE  /\ served = arm
              /\ \A k \in arm : [id |-> k.id, words |-> WordCount[k.row.text]] \in context.blocks
  <2>1. Added(f, arm) <= TokenBudget
    <3> HIDE DEF f, served, t, context
    <3> QED BY <1>1, <1>5, <1>11, <1>12, <1>14
  <2>2. served = arm /\ \A k \in arm : t[k] = f[k]
    <3> HIDE DEF f, served, t
    <3> QED BY <1>11, <2>1
  <2>3. ASSUME NEW k \in arm PROVE [id |-> k.id, words |-> WordCount[k.row.text]] \in context.blocks
    <3>1. k \in served /\ t[k] = f[k] /\ f[k] = WordCount[k.row.text]  BY <1>3, <2>2
    <3>2. Trimmed(k) = t[k]  BY <3>1
    <3> HIDE DEF f, served, t, context, Trimmed
    <3> QED BY <1>4, <3>1, <3>2
  <2> QED BY <2>2, <2>3
<1>15. Ids(context.blocks) = {k.id : k \in served}
  <2>1. \A k \in served : block(k).id = k.id
    <3> HIDE DEF served, Trimmed
    <3> QED OBVIOUS
  <2> HIDE DEF served, context, block
  <2>2. Ids(context.blocks) = {b.id : b \in {block(k) : k \in served}}  BY <1>4 DEF Ids
  <2> QED BY <2>1, <2>2
<1>16. ASSUME NEW k \in included, NEW l \in arm, Better(l, k) PROVE l \in included
  <2>1. before(l) \subseteq before(k)
    <3>1. \A m \in arm : m.rank \in Nat  BY <1>3
    <3> QED BY <1>16, <3>1 DEF Better
  <2>2. before(k) \subseteq arm /\ before(l) \subseteq arm  OBVIOUS
  <2>3. Words(before(k)) = Added(f, before(k)) /\ Words(before(l)) = Added(f, before(l))
    <3> HIDE DEF before
    <3> QED BY <1>2, <2>2, WordsAdded
  <2>4. Added(f, before(l)) <= Added(f, before(k))
    <3> HIDE DEF before, f
    <3>1. IsFiniteSet(before(k))  BY <1>2, <2>2, FS_Subset
    <3>2. \A m \in before(k) : f[m] \in Nat  BY <1>3, <2>2
    <3> QED BY <2>1, <3>1, <3>2, AddedMonotone
  <2>5. Words(before(k)) < TokenBudget /\ k \in arm  OBVIOUS
  <2>6. Words(before(k)) \in Nat /\ Words(before(l)) \in Nat  BY <1>6, <2>5
  <2> HIDE DEF before, f
  <2>7. Words(before(l)) < TokenBudget  BY <1>1, <2>3, <2>4, <2>5, <2>6
  <2> QED BY <2>7
<1> HIDE DEF served, included, context
<1> QED BY <1>7, <1>13, <1>14, <1>15, <1>16 DEF included, context, before

(* The context of a response keeps to its limits and wastes no room.                         *)
Fits(results, context) ==
    LET cited == {k \in results : k.id \in Ids(context.blocks)}
        Cited(document) == {k \in cited : k.id[1] = document}
    IN /\ context.used <= TokenBudget
       /\ Cardinality(cited) <= CitationLimit
       /\ \A k \in cited : Cited(k.id[1]) = {k}
       /\ \A k \in cited, l \in results :
             Better(l, k) => \E e \in Cited(l.id[1]) : ~Better(l, e)
       /\ \/ context.used = TokenBudget
          \/ Cardinality(cited) = CitationLimit
          \/ \A l \in results : Cited(l.id[1]) # {}
       /\ context.used < TokenBudget =>
             \A k \in cited : [id |-> k.id, words |-> WordCount[k.row.text]] \in context.blocks

\* What is assembled from the selection of a ranking without ties keeps to the limits.
LEMMA SelectionFits ==
    ASSUME NEW arm, ArmOK(arm), RankedOnce(arm) PROVE Fits(arm, Assemble(Select(arm)))
<1> DEFINE selected == Select(arm)
           context == Assemble(selected)
           included == {k \in selected : Words({l \in selected : Better(l, k)}) < TokenBudget}
           cited == {k \in arm : k.id \in Ids(context.blocks)}
           Cited(document) == {k \in cited : k.id[1] = document}
<1>1. /\ selected \subseteq arm
      /\ Cardinality(selected) <= CitationLimit
      /\ \A k, l \in selected : k.id[1] = l.id[1] => k = l
      /\ \A k \in selected, l \in arm :
            Better(l, k) => \E e \in selected : e.id[1] = l.id[1] /\ ~Better(l, e) /\ Better(e, k)
      /\ Cardinality(selected) < CitationLimit => \A l \in arm : \E e \in selected : e.id[1] = l.id[1]
  BY SelectKeeps
<1>2. ArmOK(selected) /\ RankedOnce(selected)
  <2> HIDE DEF selected
  <2> QED BY <1>1, FS_Subset DEF ArmOK, RankedOnce
<1>3. /\ Ids(context.blocks) = {k.id : k \in included}
      /\ context.used \in Nat /\ context.used <= TokenBudget
      /\ \A k \in included, l \in selected : Better(l, k) => l \in included
      /\ context.used < TokenBudget =>
            /\ included = selected
            /\ \A k \in selected : [id |-> k.id, words |-> WordCount[k.row.text]] \in context.blocks
  <2> HIDE DEF selected
  <2> QED BY <1>2, AssembleSpends
<1>4. included \subseteq selected  OBVIOUS
<1> HIDE DEF selected, context, included
<1>5. cited = included
  <2>1. \A k, l \in arm : k.id = l.id => k = l  BY DEF ArmOK
  <2> QED BY <1>1, <1>3, <1>4, <2>1
<1>6. /\ IsFiniteSet(selected) /\ Cardinality(selected) \in Nat /\ Cardinality(cited) \in Nat
      /\ Cardinality(cited) <= Cardinality(selected)
      /\ CitationLimit \in Nat
  <2>1. IsFiniteSet(selected)  BY <1>2 DEF ArmOK
  <2>2. IsFiniteSet(included) /\ Cardinality(included) <= Cardinality(selected)  BY <1>4, <2>1, FS_Subset
  <2>3. Cardinality(selected) \in Nat /\ Cardinality(included) \in Nat  BY <2>1, <2>2, FS_CardinalityType
  <2>4. CitationLimit \in Nat  BY RetrievalAssumption
  <2> QED BY <1>5, <2>1, <2>2, <2>3, <2>4
<1> HIDE DEF cited
<1>7. Cardinality(cited) <= CitationLimit  BY <1>1, <1>6
<1>8. \A k \in cited : Cited(k.id[1]) = {k}  BY <1>1, <1>4, <1>5
<1>9. ASSUME NEW k \in cited, NEW l \in arm, Better(l, k) PROVE \E e \in Cited(l.id[1]) : ~Better(l, e)
  <2>1. PICK e \in selected : e.id[1] = l.id[1] /\ ~Better(l, e) /\ Better(e, k)  BY <1>1, <1>4, <1>5, <1>9
  <2>2. e \in included  BY <1>3, <1>5, <2>1
  <2> QED BY <1>5, <2>1, <2>2
<1>10. context.used < TokenBudget /\ Cardinality(cited) # CitationLimit => \A l \in arm : Cited(l.id[1]) # {}
  <2> SUFFICES ASSUME context.used < TokenBudget, Cardinality(cited) # CitationLimit, NEW l \in arm
               PROVE  Cited(l.id[1]) # {}
    OBVIOUS
  <2>1. cited = selected  BY <1>3, <1>5
  <2>2. Cardinality(selected) < CitationLimit  BY <1>1, <1>6, <2>1
  <2> QED BY <1>1, <2>1, <2>2
<1>11. TokenBudget \in Nat /\ (context.used = TokenBudget \/ context.used < TokenBudget)
  <2>1. TokenBudget \in Nat  BY RetrievalAssumption
  <2> QED BY <1>3, <2>1
<1>12. context.used < TokenBudget =>
          \A k \in cited : [id |-> k.id, words |-> WordCount[k.row.text]] \in context.blocks
  BY <1>3, <1>4, <1>5
<1> QED BY <1>3, <1>7, <1>8, <1>9, <1>10, <1>11, <1>12 DEF Fits, cited, context, selected

(* The prompt context of every answer keeps to the word budget and to one block per          *)
(* document, leaves no better ranked document out for a worse one, and leaves room unused    *)
(* only when everything selected fitted (api/retrieval_workflow.py:133, :152;                *)
(* domain/services.py:98).                                                                   *)
THEOREM ContextAlwaysFits == KnowledgeSpec => []ContextFits
<1>1. ASSUME KnowledgeInv, NEW s \in Searches, Answered(s), search[s].request.kind = "search"
      PROVE  Fits(search[s].answer.results, search[s].answer.context)
  <2> DEFINE q == search[s].request
             answer == search[s].answer
  <2>1. PICK pool, dense, sparse :
           q \in Requests /\ ArmOK(dense) /\ ArmOK(sparse) /\ answer = Respond(q, pool, dense, sparse)
    BY <1>1 DEF KnowledgeInv, EvidenceOf, Answered
  <2> DEFINE results == Fuse(dense, sparse, q.weight, q.topK)
  <2>2. answer.results = results /\ answer.context = Assemble(Select(results))
    BY <1>1, <2>1 DEF Respond
  <2>3. ArmOK(results) /\ RankedOnce(results)
    <3>1. q.weight \in 0..WeightUnit /\ q.topK \in Nat  BY <2>1, RequestShape
    <3>2. Ranking(results, dense, sparse, q.weight, q.topK)  BY <2>1, <3>1, FuseReturns
    <3> HIDE DEF results
    <3> QED BY <3>2 DEF Ranking, RankedOnce
  <2> HIDE DEF results
  <2> QED BY <2>2, <2>3, SelectionFits
<1>2. KnowledgeInv => ContextFits
  <2> SUFFICES ASSUME KnowledgeInv PROVE ContextFits
    OBVIOUS
  <2>1. \A s \in Searches : Answered(s) /\ search[s].request.kind = "search" =>
           Fits(search[s].answer.results, search[s].answer.context)
    BY <1>1
  <2> QED BY <2>1 DEF ContextFits, Fits
<1> QED BY <1>2, KnowledgeInvariant, PTL
=============================================================================
