------------------------- MODULE CorpusIngestionProofs -------------------------
(***************************************************************************)
(* Machine-checked theorems about CorpusIngestion, for every set of         *)
(* documents, releases, submissions, loaders and handlers.                  *)
(***************************************************************************)
EXTENDS CorpusIngestion, TLAPS

-----------------------------------------------------------------------------
\* What the helpers over documents and releases return.

\* A row that is a document or a chunk is not the absent one.
LEMMA RowsPresent ==
    /\ \A doc \in Document : doc # Absent
    /\ \A row \in ChunkRow : row # Absent
BY AbsentAssumption

\* A body is a sequence of at most MaxChunks texts.
LEMMA BodyShape ==
    ASSUME NEW doc \in Document
    PROVE  /\ Len(doc.body) \in 0..MaxChunks
           /\ DOMAIN doc.body = 1..Len(doc.body)
           /\ \A n \in 1..Len(doc.body) : doc.body[n] \in Texts
<1>1. PICK n \in 0..MaxChunks : doc.body \in [1..n -> Texts]  BY DEF Document
<1>2. doc.body \in Seq(Texts) /\ Len(doc.body) = n  BY <1>1, KnowledgeAssumption
<1> QED BY <1>1, <1>2

\* The row of one slice.
SliceRow(doc, n) == [text |-> doc.body[n], access |-> doc.access, provenance |-> doc.provenance]

\* The chunks of a document: one row per slice, under the document's identifier.
LEMMA ChunkOfSlice ==
    ASSUME NEW id \in DocumentIds, NEW doc \in Document, NEW n \in DOMAIN doc.body
    PROVE  /\ <<id, n - 1>> \in DOMAIN ChunkDocument(id, doc)
           /\ <<id, n - 1>> \in ChunkIds
           /\ ChunkDocument(id, doc)[<<id, n - 1>>] = SliceRow(doc, n)
<1>1. Len(doc.body) \in 0..MaxChunks /\ DOMAIN doc.body = 1..Len(doc.body)  BY BodyShape
<1>2. n - 1 \in 0..(Len(doc.body) - 1) /\ n - 1 \in 0..(MaxChunks - 1) /\ (n - 1) + 1 = n
  BY <1>1, KnowledgeAssumption
<1>3. <<id, n - 1>> \in {<<id, i>> : i \in 0..(Len(doc.body) - 1)}  BY <1>2
<1>4. <<id, n - 1>>[2] = n - 1  OBVIOUS
<1> QED BY <1>2, <1>3, <1>4 DEF ChunkDocument, SliceRow, ChunkIds

LEMMA DocumentChunks ==
    ASSUME NEW id \in DocumentIds, NEW doc \in Document
    PROVE  /\ DOMAIN ChunkDocument(id, doc) \subseteq ChunkIds
           /\ \A c \in DOMAIN ChunkDocument(id, doc) : c[1] = id /\ ChunkDocument(id, doc)[c] \in ChunkRow
<1>1. /\ Len(doc.body) \in 0..MaxChunks
      /\ DOMAIN doc.body = 1..Len(doc.body)
      /\ \A n \in 1..Len(doc.body) : doc.body[n] \in Texts
  BY BodyShape
<1>2. doc.access \in AccessLabel /\ doc.provenance \in Custodies  BY DEF Document
<1> DEFINE D == {<<id, i>> : i \in 0..(Len(doc.body) - 1)}
<1>3. DOMAIN ChunkDocument(id, doc) = D  BY DEF ChunkDocument
<1>4. D \subseteq ChunkIds  BY <1>1, KnowledgeAssumption DEF ChunkIds
<1>5. ASSUME NEW c \in D PROVE c[1] = id /\ ChunkDocument(id, doc)[c] \in ChunkRow
  <2>1. PICK i \in 0..(Len(doc.body) - 1) : c = <<id, i>>  OBVIOUS
  <2>2. c[1] = id /\ c[2] = i  BY <2>1
  <2>3. i + 1 \in 1..Len(doc.body)  BY <1>1
  <2>4. ChunkDocument(id, doc)[c] =
           [text |-> doc.body[c[2] + 1], access |-> doc.access, provenance |-> doc.provenance]
    BY DEF ChunkDocument
  <2>5. doc.body[c[2] + 1] \in Texts  BY <1>1, <2>2, <2>3
  <2> QED BY <1>2, <2>2, <2>4, <2>5 DEF ChunkRow
<1> QED BY <1>3, <1>4, <1>5

\* A release as the loader uses it.
LEMMA ReleaseCorpus ==
    ASSUME NEW r \in Releases
    PROVE  /\ Identifiers(r) \subseteq DocumentIds
           /\ DOMAIN Corpus(r) = Identifiers(r)
           /\ \A id \in Identifiers(r) :
                 /\ Corpus(r)[id] \in Document
                 /\ [id |-> id, document |-> Corpus(r)[id]] \in Range(CorpusLines[r])
<1>1. CorpusLines[r] \in Seq([id : DocumentIds, document : Document])  BY CorpusAssumption
<1>2. ASSUME NEW n \in DOMAIN CorpusLines[r]
      PROVE  CorpusLines[r][n] \in [id : DocumentIds, document : Document]
  <2>1. \A S : \A s \in Seq(S) : \A k \in DOMAIN s : s[k] \in S  OBVIOUS
  <2> QED BY <1>1, <2>1
<1>3. ASSUME NEW id \in Identifiers(r)
      PROVE  /\ id \in DocumentIds
             /\ Corpus(r)[id] \in Document
             /\ [id |-> id, document |-> Corpus(r)[id]] \in Range(CorpusLines[r])
  <2>1. PICK n \in DOMAIN CorpusLines[r] : CorpusLines[r][n].id = id  BY DEF Identifiers
  <2>2. \E line \in Range(CorpusLines[r]) : line.id = id  BY <2>1 DEF Range
  <2> DEFINE line == CHOOSE l \in Range(CorpusLines[r]) : l.id = id
  <2>3. line \in Range(CorpusLines[r]) /\ line.id = id  BY <2>2
  <2>4. line \in [id : DocumentIds, document : Document]  BY <1>2, <2>3 DEF Range
  <2>5. Corpus(r)[id] = line.document  BY DEF Corpus
  <2>6. line = [id |-> id, document |-> Corpus(r)[id]]  BY <2>3, <2>4, <2>5
  <2> QED BY <2>3, <2>4, <2>5, <2>6
<1>4. DOMAIN Corpus(r) = Identifiers(r)  BY DEF Corpus
<1> QED BY <1>3, <1>4

\* The chunks of a release are those of its documents.
LEMMA ReleaseChunks ==
    ASSUME NEW r \in Releases
    PROVE  /\ DOMAIN CorpusChunks(Corpus(r)) \subseteq ChunkIds
           /\ \A c \in DOMAIN CorpusChunks(Corpus(r)) :
                 c[1] \in Identifiers(r) /\ CorpusChunks(Corpus(r))[c] \in ChunkRow
           /\ \A id \in Identifiers(r) : \A c \in DOMAIN ChunkDocument(id, Corpus(r)[id]) :
                 /\ c \in DOMAIN CorpusChunks(Corpus(r))
                 /\ CorpusChunks(Corpus(r))[c] = ChunkDocument(id, Corpus(r)[id])[c]
<1> DEFINE corpus == Corpus(r)
<1>1. DOMAIN corpus = Identifiers(r) /\ Identifiers(r) \subseteq DocumentIds
  BY ReleaseCorpus
<1>2. \A id \in Identifiers(r) : corpus[id] \in Document  BY ReleaseCorpus
<1>3. DOMAIN CorpusChunks(corpus) = UNION {DOMAIN ChunkDocument(id, corpus[id]) : id \in Identifiers(r)}
  BY <1>1 DEF CorpusChunks
<1>4. ASSUME NEW c \in DOMAIN CorpusChunks(corpus)
      PROVE  c \in ChunkIds /\ c[1] \in Identifiers(r) /\ CorpusChunks(corpus)[c] \in ChunkRow
  <2>1. PICK id \in Identifiers(r) : c \in DOMAIN ChunkDocument(id, corpus[id])  BY <1>3
  <2>2. c \in ChunkIds /\ c[1] = id /\ ChunkDocument(id, corpus[id])[c] \in ChunkRow
    BY <1>1, <1>2, <2>1, DocumentChunks
  <2>3. CorpusChunks(corpus)[c] = ChunkDocument(c[1], corpus[c[1]])[c]
    BY <1>1, <1>3 DEF CorpusChunks
  <2> QED BY <2>2, <2>3
<1>5. ASSUME NEW id \in Identifiers(r), NEW c \in DOMAIN ChunkDocument(id, corpus[id])
      PROVE  c \in DOMAIN CorpusChunks(corpus) /\ CorpusChunks(corpus)[c] = ChunkDocument(id, corpus[id])[c]
  <2>1. c \in DOMAIN CorpusChunks(corpus)  BY <1>3
  <2>2. c[1] = id  BY <1>1, <1>2, DocumentChunks
  <2>3. CorpusChunks(corpus)[c] = ChunkDocument(c[1], corpus[c[1]])[c]
    BY <1>1, <2>1 DEF CorpusChunks
  <2> QED BY <2>1, <2>2, <2>3
<1> QED BY <1>4, <1>5

-----------------------------------------------------------------------------
\* What a committed transaction leaves in the tables.

\* A committed load.
LEMMA LoadCommits ==
    ASSUME StoreTypeOK, NEW r \in Releases, UpsertDocuments(Corpus(r)), UpsertChunks(Corpus(r))
    PROVE  /\ StoreTypeOK'
           /\ \A id \in DocumentIds :
                 documents'[id] = IF id \in Identifiers(r) THEN Corpus(r)[id] ELSE documents[id]
           /\ \A c \in ChunkIds :
                 chunks'[c] = IF c \in DOMAIN CorpusChunks(Corpus(r)) THEN CorpusChunks(Corpus(r))[c] ELSE chunks[c]
<1> DEFINE corpus == Corpus(r)
           rows == CorpusChunks(corpus)
<1>1. DOMAIN corpus = Identifiers(r) /\ Identifiers(r) \subseteq DocumentIds
      /\ \A id \in Identifiers(r) : corpus[id] \in Document
  BY ReleaseCorpus
<1>2. DOMAIN rows \subseteq ChunkIds /\ \A c \in DOMAIN rows : rows[c] \in ChunkRow
  BY ReleaseChunks
<1>3. DOMAIN documents = DocumentIds /\ DOMAIN chunks = ChunkIds  BY DEF StoreTypeOK
<1>4. documents' = [id \in DocumentIds |-> IF id \in Identifiers(r) THEN corpus[id] ELSE documents[id]]
  BY <1>1, <1>3 DEF UpsertDocuments, Overlay
<1>5. chunks' = [c \in ChunkIds |-> IF c \in DOMAIN rows THEN rows[c] ELSE chunks[c]]
  BY <1>3 DEF UpsertChunks, Overlay
<1> HIDE DEF corpus, rows
<1>6. StoreTypeOK'  BY <1>1, <1>2, <1>4, <1>5 DEF StoreTypeOK
<1> QED BY <1>4, <1>5, <1>6 DEF corpus, rows

\* A committed create.
LEMMA CreateCommits ==
    ASSUME StoreTypeOK, NEW id \in DocumentIds, NEW doc \in Document, SaveDocument(id, doc)
    PROVE  /\ StoreTypeOK'
           /\ \A other \in DocumentIds : documents'[other] = IF other = id THEN doc ELSE documents[other]
           /\ \A c \in ChunkIds :
                 chunks'[c] = IF c \in DOMAIN ChunkDocument(id, doc) THEN ChunkDocument(id, doc)[c] ELSE chunks[c]
<1> DEFINE rows == ChunkDocument(id, doc)
<1>1. DOMAIN rows \subseteq ChunkIds /\ \A c \in DOMAIN rows : rows[c] \in ChunkRow
  BY DocumentChunks
<1>2. chunks' = [c \in ChunkIds |-> IF c \in DOMAIN rows THEN rows[c] ELSE chunks[c]]
  BY DEF StoreTypeOK, SaveDocument, Overlay
<1> HIDE DEF rows
<1>3. StoreTypeOK'  BY <1>1, <1>2 DEF StoreTypeOK, SaveDocument
<1>4. \A other \in DocumentIds : documents'[other] = IF other = id THEN doc ELSE documents[other]
  BY DEF StoreTypeOK, SaveDocument
<1> QED BY <1>2, <1>3, <1>4 DEF rows
-----------------------------------------------------------------------------
\* Every step commits nothing, or one load, or one create.

LEMMA WhatCommits ==
    ASSUME Next
    PROVE  \/ UNCHANGED storeVars
           \/ \E l \in Loaders : loader[l].pc = "commit" /\ CorpusCommitted(l)
           \/ \E h \in Clients : client[h].pc = "commit" /\ DocumentCommitted(h)
BY DEF Next, Publish, StartPublishing, PutObject, PublishingStops, ObjectStoreRestarts,
       Load, StartLoad, ReadDocuments, ReadProvenance, WriteDocuments, CommitCorpus, LoadFails,
       CreateDocument, SubmitDocument, InsertDocument, CommitDocument, CreateFails

\* What holds of the tables, whatever the writers are doing.
StoreInv == StoreTypeOK /\ StoreWhole /\ CustodyChecked

LEMMA LoadKeepsStore ==
    ASSUME IngestInv, NEW l \in Loaders, loader[l].pc = "commit", CorpusCommitted(l)
    PROVE  StoreInv'
<1> DEFINE r == loader[l].release
           corpus == Corpus(r)
           rows == CorpusChunks(corpus)
<1>1. r \in Releases  BY DEF IngestInv, IngestTypeOK, LoaderState
<1>2. PICK side \in Releases : CustodyAgrees(r, side)  BY DEF IngestInv, LoadsChecked
<1>3. StoreTypeOK /\ UpsertDocuments(corpus) /\ UpsertChunks(corpus)
  BY DEF IngestInv, IngestTypeOK, CorpusCommitted
<1>4. /\ Identifiers(r) \subseteq DocumentIds
      /\ \A id \in Identifiers(r) : corpus[id] \in Document
      /\ \A id \in Identifiers(r) : [id |-> id, document |-> corpus[id]] \in Range(CorpusLines[r])
  BY <1>1, ReleaseCorpus
<1>5. /\ \A c \in DOMAIN rows : c[1] \in Identifiers(r) /\ rows[c] \in ChunkRow
      /\ \A id \in Identifiers(r) : \A c \in DOMAIN ChunkDocument(id, corpus[id]) :
            c \in DOMAIN rows /\ rows[c] = ChunkDocument(id, corpus[id])[c]
  BY <1>1, ReleaseChunks
<1>6. /\ StoreTypeOK'
      /\ \A id \in DocumentIds : documents'[id] = IF id \in Identifiers(r) THEN corpus[id] ELSE documents[id]
      /\ \A c \in ChunkIds : chunks'[c] = IF c \in DOMAIN rows THEN rows[c] ELSE chunks[c]
  BY <1>1, <1>3, LoadCommits
<1>7. ASSUME NEW id \in Identifiers(r)
      PROVE  /\ DOMAIN ChunkDocument(id, corpus[id]) \subseteq ChunkIds
             /\ \A n \in DOMAIN corpus[id].body :
                   /\ <<id, n - 1>> \in DOMAIN ChunkDocument(id, corpus[id])
                   /\ <<id, n - 1>> \in ChunkIds
                   /\ ChunkDocument(id, corpus[id])[<<id, n - 1>>] = SliceRow(corpus[id], n)
  <2>1. id \in DocumentIds /\ corpus[id] \in Document  BY <1>4
  <2>2. DOMAIN ChunkDocument(id, corpus[id]) \subseteq ChunkIds  BY <2>1, DocumentChunks
  <2> HIDE DEF corpus
  <2> QED BY <2>1, <2>2, ChunkOfSlice
<1> HIDE DEF r, corpus, rows
<1>8. StoreWhole'
  <2>1. ASSUME NEW id \in DocumentIds, documents'[id] # Absent, NEW n \in DOMAIN documents'[id].body
        PROVE  chunks'[<<id, n - 1>>] = [text |-> documents'[id].body[n],
                                         access |-> documents'[id].access,
                                         provenance |-> documents'[id].provenance]
    <3>1. CASE id \in Identifiers(r)
      <4>1. documents'[id] = corpus[id]  BY <1>6, <3>1
      <4>2. /\ <<id, n - 1>> \in DOMAIN ChunkDocument(id, corpus[id])
            /\ <<id, n - 1>> \in ChunkIds
            /\ ChunkDocument(id, corpus[id])[<<id, n - 1>>] = SliceRow(corpus[id], n)
        BY <1>7, <2>1, <3>1, <4>1
      <4>3. <<id, n - 1>> \in DOMAIN rows  BY <1>5, <3>1, <4>2
      <4> QED BY <1>5, <1>6, <3>1, <4>1, <4>2, <4>3 DEF SliceRow
    <3>2. CASE id \notin Identifiers(r)
      <4>1. documents'[id] = documents[id]  BY <1>6, <3>2
      <4>2. chunks[<<id, n - 1>>] = [text |-> documents[id].body[n],
                                     access |-> documents[id].access,
                                     provenance |-> documents[id].provenance]
        BY <2>1, <4>1 DEF IngestInv, StoreWhole, Stored
      <4>3. documents[id] \in Document  BY <1>3, <2>1, <4>1 DEF StoreTypeOK
      <4>4. <<id, n - 1>> \in ChunkIds  BY <2>1, <4>1, <4>3, ChunkOfSlice
      <4>5. <<id, n - 1>>[1] = id  OBVIOUS
      <4>6. <<id, n - 1>> \notin DOMAIN rows  BY <1>5, <3>2, <4>5
      <4> QED BY <1>6, <4>1, <4>2, <4>4, <4>6
    <3> QED BY <3>1, <3>2
  <2>2. ASSUME NEW c \in ChunkIds, chunks'[c] # Absent PROVE documents'[c[1]] # Absent
    <3>1. CASE c \in DOMAIN rows
      BY <1>4, <1>5, <1>6, <3>1, RowsPresent
    <3>2. CASE c \notin DOMAIN rows
      <4>1. chunks[c] # Absent  BY <1>6, <2>2, <3>2
      <4>2. documents[c[1]] # Absent  BY <4>1 DEF IngestInv, StoreWhole, Stored
      <4>3. c[1] \in DocumentIds  BY DEF ChunkIds
      <4> QED BY <1>4, <1>6, <4>2, <4>3, RowsPresent
    <3> QED BY <3>1, <3>2
  <2> QED BY <2>1, <2>2 DEF StoreWhole, Stored
<1>9. CustodyChecked'
  <2> SUFFICES ASSUME NEW id \in DocumentIds, documents'[id] # Absent
               PROVE  \/ \E s \in Submissions : s.id = id /\ s.document = documents'[id]
                      \/ /\ \E q \in Releases : [id |-> id, document |-> documents'[id]] \in Range(CorpusLines[q])
                         /\ \E f \in Releases : /\ id \in DOMAIN CustodyFile[f]
                                                /\ CustodyFile[f][id] = documents'[id].provenance
    BY DEF CustodyChecked, Stored
  <2>1. CASE id \in Identifiers(r)
    <3>1. documents'[id] = corpus[id]  BY <1>6, <2>1
    <3>2. id \in DOMAIN CustodyFile[side] /\ CustodyFile[side][id] = corpus[id].provenance
      BY <1>2, <2>1 DEF CustodyAgrees, corpus
    <3> QED BY <1>1, <1>2, <1>4, <2>1, <3>1, <3>2
  <2>2. CASE id \notin Identifiers(r)
    <3>1. documents'[id] = documents[id]  BY <1>6, <2>2
    <3> QED BY <3>1 DEF IngestInv, CustodyChecked, Stored
  <2> QED BY <2>1, <2>2
<1> QED BY <1>6, <1>8, <1>9 DEF StoreInv

LEMMA CreateKeepsStore ==
    ASSUME IngestInv, NEW h \in Clients, client[h].pc = "commit", DocumentCommitted(h)
    PROVE  StoreInv'
<1> DEFINE s == client[h].request
           id == s.id
           doc == s.document
           rows == ChunkDocument(id, doc)
<1>1. s \in Submissions  BY DEF IngestInv, IngestTypeOK, ClientState
<1>2. id \in DocumentIds /\ doc \in Document  BY <1>1, SubmissionAssumption
<1>3. StoreTypeOK /\ SaveDocument(id, doc)
  BY DEF IngestInv, IngestTypeOK, DocumentCommitted
<1>4. /\ DOMAIN rows \subseteq ChunkIds
      /\ \A n \in DOMAIN doc.body :
            /\ <<id, n - 1>> \in DOMAIN rows
            /\ <<id, n - 1>> \in ChunkIds
            /\ rows[<<id, n - 1>>] = SliceRow(doc, n)
      /\ \A c \in DOMAIN rows : c[1] = id /\ rows[c] \in ChunkRow
  <2> HIDE DEF id, doc
  <2>1. DOMAIN rows \subseteq ChunkIds /\ \A c \in DOMAIN rows : c[1] = id /\ rows[c] \in ChunkRow
    BY <1>2, DocumentChunks
  <2> QED BY <1>2, <2>1, ChunkOfSlice
<1>5. /\ StoreTypeOK'
      /\ \A other \in DocumentIds : documents'[other] = IF other = id THEN doc ELSE documents[other]
      /\ \A c \in ChunkIds : chunks'[c] = IF c \in DOMAIN rows THEN rows[c] ELSE chunks[c]
  BY <1>2, <1>3, CreateCommits
<1> HIDE DEF s, id, doc, rows
<1>6. StoreWhole'
  <2>1. ASSUME NEW other \in DocumentIds, documents'[other] # Absent, NEW n \in DOMAIN documents'[other].body
        PROVE  chunks'[<<other, n - 1>>] = [text |-> documents'[other].body[n],
                                            access |-> documents'[other].access,
                                            provenance |-> documents'[other].provenance]
    <3>1. CASE other = id
      <4>1. documents'[other] = doc  BY <1>5, <3>1
      <4>2. <<id, n - 1>> \in DOMAIN rows /\ <<id, n - 1>> \in ChunkIds  BY <1>4, <2>1, <4>1
      <4> QED BY <1>4, <1>5, <2>1, <3>1, <4>1, <4>2 DEF SliceRow
    <3>2. CASE other # id
      <4>1. documents'[other] = documents[other]  BY <1>5, <3>2
      <4>2. chunks[<<other, n - 1>>] = [text |-> documents[other].body[n],
                                        access |-> documents[other].access,
                                        provenance |-> documents[other].provenance]
        BY <2>1, <4>1 DEF IngestInv, StoreWhole, Stored
      <4>3. documents[other] \in Document  BY <1>3, <2>1, <4>1 DEF StoreTypeOK
      <4>4. <<other, n - 1>> \in ChunkIds  BY <2>1, <4>1, <4>3, ChunkOfSlice
      <4>5. <<other, n - 1>>[1] = other  OBVIOUS
      <4>6. <<other, n - 1>> \notin DOMAIN rows  BY <1>4, <3>2, <4>5
      <4> QED BY <1>5, <4>1, <4>2, <4>4, <4>6
    <3> QED BY <3>1, <3>2
  <2>2. ASSUME NEW c \in ChunkIds, chunks'[c] # Absent PROVE documents'[c[1]] # Absent
    <3>1. c[1] \in DocumentIds  BY DEF ChunkIds
    <3>2. CASE c[1] = id  BY <1>2, <1>5, <3>1, <3>2, RowsPresent
    <3>3. CASE c[1] # id
      <4>1. chunks[c] # Absent  BY <1>4, <1>5, <2>2, <3>3
      <4>2. documents[c[1]] # Absent  BY <4>1 DEF IngestInv, StoreWhole, Stored
      <4> QED BY <1>5, <3>1, <3>3, <4>2
    <3> QED BY <3>2, <3>3
  <2> QED BY <2>1, <2>2 DEF StoreWhole, Stored
<1>7. CustodyChecked'
  <2> SUFFICES ASSUME NEW other \in DocumentIds, documents'[other] # Absent
               PROVE  \/ \E q \in Submissions : q.id = other /\ q.document = documents'[other]
                      \/ /\ \E q \in Releases : [id |-> other, document |-> documents'[other]] \in Range(CorpusLines[q])
                         /\ \E f \in Releases : /\ other \in DOMAIN CustodyFile[f]
                                                /\ CustodyFile[f][other] = documents'[other].provenance
    BY DEF CustodyChecked, Stored
  <2>1. CASE other = id  BY <1>1, <1>5, <2>1 DEF id, doc
  <2>2. CASE other # id
    <3>1. documents'[other] = documents[other]  BY <1>5, <2>2
    <3> QED BY <3>1 DEF IngestInv, CustodyChecked, Stored
  <2> QED BY <2>1, <2>2
<1> QED BY <1>5, <1>6, <1>7 DEF StoreInv

LEMMA StoreStep ==
    ASSUME IngestInv, [Next]_vars PROVE StoreInv'
<1>1. CASE UNCHANGED storeVars
  BY <1>1 DEF storeVars, IngestInv, IngestTypeOK, StoreInv, StoreTypeOK, StoreWhole, Stored, CustodyChecked
<1>2. CASE UNCHANGED vars
  BY <1>1, <1>2 DEF vars
<1> QED BY <1>1, <1>2, WhatCommits, LoadKeepsStore, CreateKeepsStore
-----------------------------------------------------------------------------
\* What the writers are doing.

\* A load in a state the loader may leave it in.
LoadOK(s) ==
    /\ s \in LoaderState
    /\ s.release # Absent <=> s.pc \in {"provenance", "upsert", "commit", "reported"}
    /\ s.pc \in {"provenance", "upsert", "commit"} => Wellformed(s.release)
    /\ s.pc \in {"upsert", "commit"} => \E side \in Releases : CustodyAgrees(s.release, side)

LEMMA LoaderMoves ==
    ASSUME IngestInv, NEW l \in Loaders, Load(l)
    PROVE  \E s : /\ LoadOK(s)
                  /\ loader' = [loader EXCEPT ![l] = s]
                  /\ s.pc = "commit" => Identifiers(s.release) \cap Held = {}
<1> DEFINE old == loader[l]
           Move(s) == /\ LoadOK(s)
                      /\ loader' = [loader EXCEPT ![l] = s]
                      /\ s.pc = "commit" => Identifiers(s.release) \cap Held = {}
<1>1. /\ loader \in [Loaders -> LoaderState]
      /\ old \in LoaderState /\ LoadOK(old)
      /\ objects \in [Artifacts -> Releases \cup {Absent}]
  BY DEF IngestInv, IngestTypeOK, LoadsChecked, LoadOK
<1>2. CASE LoadFailed(l)
  <2> DEFINE s == [pc |-> "failed", release |-> Absent]
  <2>1. s \in LoaderState  BY DEF LoaderState, LoaderPC
  <2>2. LoadOK(s) /\ s.pc = "failed"  BY <2>1 DEF LoadOK
  <2>3. loader' = [loader EXCEPT ![l] = s]  BY <1>2 DEF LoadFailed
  <2> HIDE DEF s
  <2> QED BY <2>2, <2>3
<1>3. CASE StartLoad(l)
  <2> DEFINE s == [pc |-> "documents", release |-> Absent]
  <2>1. s \in LoaderState  BY DEF LoaderState, LoaderPC
  <2>2. LoadOK(s) /\ s.pc = "documents"  BY <2>1 DEF LoadOK
  <2>3. loader' = [loader EXCEPT ![l] = s]  BY <1>3 DEF StartLoad
  <2> HIDE DEF s
  <2> QED BY <2>2, <2>3
<1>4. CASE ReadDocuments(l) /\ ~LoadFailed(l)
  <2> DEFINE r == objects["documents"]
             s == [pc |-> "provenance", release |-> r]
  <2>1. r # Absent /\ Wellformed(r) /\ loader' = [loader EXCEPT ![l] = s]  BY <1>4 DEF ReadDocuments
  <2>2. r \in Releases  BY <1>1, <2>1 DEF Artifacts
  <2> HIDE DEF r
  <2>3. s \in LoaderState  BY <2>2 DEF LoaderState, LoaderPC
  <2>4. LoadOK(s) /\ s.pc = "provenance"  BY <2>1, <2>3 DEF LoadOK
  <2> HIDE DEF s
  <2> QED BY <2>1, <2>4
<1>5. CASE ReadProvenance(l) /\ ~LoadFailed(l)
  <2> DEFINE s == [old EXCEPT !.pc = "upsert"]
  <2>1. /\ old.pc = "provenance"
        /\ objects["provenance"] # Absent /\ CustodyAgrees(old.release, objects["provenance"])
        /\ loader' = [loader EXCEPT ![l] = s]
    BY <1>5 DEF ReadProvenance, LoaderAt
  <2>2. s \in LoaderState /\ s.pc = "upsert" /\ s.release = old.release  BY <1>1 DEF LoaderState, LoaderPC
  <2>3. objects["provenance"] \in Releases  BY <1>1, <2>1 DEF Artifacts
  <2> HIDE DEF s
  <2>4. LoadOK(s)  BY <1>1, <2>1, <2>2, <2>3 DEF LoadOK
  <2> QED BY <2>1, <2>2, <2>4
<1>6. CASE WriteDocuments(l)
  <2> DEFINE s == [old EXCEPT !.pc = "commit"]
  <2>1. old.pc = "upsert" /\ Identifiers(old.release) \cap Held = {} /\ loader' = [loader EXCEPT ![l] = s]
    BY <1>6 DEF WriteDocuments, LoaderAt
  <2>2. s \in LoaderState /\ s.pc = "commit" /\ s.release = old.release  BY <1>1 DEF LoaderState, LoaderPC
  <2> HIDE DEF s
  <2>3. LoadOK(s)  BY <1>1, <2>1, <2>2 DEF LoadOK
  <2> QED BY <2>1, <2>2, <2>3
<1>7. CASE CommitCorpus(l)
  <2> DEFINE s == [old EXCEPT !.pc = "reported"]
  <2>1. old.pc = "commit" /\ loader' = [loader EXCEPT ![l] = s]  BY <1>7 DEF CommitCorpus, LoaderAt
  <2>2. s \in LoaderState /\ s.pc = "reported" /\ s.release = old.release  BY <1>1 DEF LoaderState, LoaderPC
  <2> HIDE DEF s
  <2>3. LoadOK(s)  BY <1>1, <2>1, <2>2 DEF LoadOK
  <2> QED BY <2>1, <2>2, <2>3
<1> QED BY <1>2, <1>3, <1>4, <1>5, <1>6, <1>7 DEF Load, LoadFails, ReadDocuments, ReadProvenance

LEMMA ClientMoves ==
    ASSUME IngestInv, NEW h \in Clients, CreateDocument(h)
    PROVE  \E s \in ClientState :
              /\ client' = [client EXCEPT ![h] = s]
              /\ s.pc = "commit" =>
                    client[h].pc = "insert" /\ ~Stored(s.request.id) /\ s.request.id \notin Held
<1> DEFINE old == client[h]
<1>1. client \in [Clients -> ClientState] /\ old \in ClientState  BY DEF IngestInv, IngestTypeOK
<1>2. ASSUME NEW code \in {"none", "201", "409", "500"}, Answer(h, code)
      PROVE  \E s \in ClientState : client' = [client EXCEPT ![h] = s] /\ s.pc = "idle"
  <2> DEFINE s == [old EXCEPT !.pc = "idle", !.reply = code]
  <2>1. client' = [client EXCEPT ![h] = s]  BY <1>2 DEF Answer
  <2>2. s \in ClientState /\ s.pc = "idle"  BY <1>1 DEF ClientState, ClientPC
  <2> QED BY <2>1, <2>2
<1>3. CASE SubmitDocument(h)
  <2>1. PICK q \in Submissions :
           client' = [client EXCEPT ![h] =
               IF Blank(q.document) THEN [pc |-> "idle", request |-> q, reply |-> "500"]
                                    ELSE [pc |-> "insert", request |-> q, reply |-> "none"]]
    BY <1>3 DEF SubmitDocument
  <2>2. /\ [pc |-> "idle", request |-> q, reply |-> "500"] \in ClientState
        /\ [pc |-> "insert", request |-> q, reply |-> "none"] \in ClientState
    BY DEF ClientState, ClientPC
  <2>3. CASE Blank(q.document)  BY <2>1, <2>2, <2>3
  <2>4. CASE ~Blank(q.document)  BY <2>1, <2>2, <2>4
  <2> QED BY <2>3, <2>4
<1>4. CASE InsertDocument(h) /\ ClientAt(h, "commit")
  <2> DEFINE s == [old EXCEPT !.pc = "commit"]
  <2>1. old.pc = "insert" /\ old.request.id \notin Held /\ client' = [client EXCEPT ![h] = s]  BY <1>4 DEF InsertDocument, ClientAt
  <2>2. s \in ClientState /\ s.request = old.request  BY <1>1 DEF ClientState, ClientPC
  <2>3. ~Stored(old.request.id)
    <3>1. client'[h].pc = "commit"  BY <1>1, <2>1
    <3>2. ~Answer(h, "409")
      <4>1. Answer(h, "409") => client'[h].pc = "idle"  BY <1>1 DEF Answer, ClientState
      <4> QED BY <3>1, <4>1
    <3> QED BY <1>4, <3>2 DEF InsertDocument, InsertConflicts
  <2> QED BY <2>1, <2>2, <2>3
<1>5. CASE InsertDocument(h) /\ ~ClientAt(h, "commit")
  <2>1. Answer(h, "409")  BY <1>5 DEF InsertDocument
  <2> QED BY <1>2, <2>1
<1>6. CASE CommitDocument(h)  BY <1>2, <1>6 DEF CommitDocument
<1>7. CASE CreateFails(h)  BY <1>2, <1>7 DEF CreateFails
<1> QED BY <1>3, <1>4, <1>5, <1>6, <1>7 DEF CreateDocument
-----------------------------------------------------------------------------
\* The invariant.

LEMMA IngestInvInit == Init => IngestInv
<1> SUFFICES ASSUME Init PROVE IngestInv
  OBVIOUS
<1>1. StoreTypeOK /\ (\A id \in DocumentIds : ~Stored(id)) /\ (\A c \in ChunkIds : chunks[c] = Absent)
  BY DEF Init, StoreInit, StoreTypeOK, Stored
<1>2. PICK r \in Releases : publisher = [pc |-> "idle", release |-> r]  BY DEF Init
<1>3. PICK q \in Submissions : client = [h \in Clients |-> [pc |-> "idle", request |-> q, reply |-> "none"]]
  BY DEF Init
<1>4. [pc |-> "idle", request |-> q, reply |-> "none"] \in ClientState  BY DEF ClientState, ClientPC
<1>5. [pc |-> "idle", release |-> Absent] \in LoaderState  BY DEF LoaderState, LoaderPC
<1>6. \A l \in Loaders : loader[l].pc = "idle" /\ loader[l].release = Absent  BY DEF Init
<1>7. \A h \in Clients : client[h].pc = "idle"  BY <1>3
<1>8. IngestTypeOK
  <2>1. publisher \in [pc : {"idle"} \cup Artifacts, release : Releases]  BY <1>2
  <2>2. loader \in [Loaders -> LoaderState]  BY <1>5 DEF Init
  <2>3. client \in [Clients -> ClientState]  BY <1>3, <1>4
  <2>4. objects \in [Artifacts -> Releases \cup {Absent}]  BY DEF Init
  <2> QED BY <1>1, <1>6, <2>1, <2>2, <2>3, <2>4 DEF IngestTypeOK
<1>9. StoreWhole /\ CustodyChecked
  BY <1>1 DEF Init, StoreWhole, CustodyChecked
<1>10. KeysHeld
  <2>1. \A l \in Loaders : HeldByLoader(l) = {}  BY <1>6 DEF HeldByLoader
  <2> QED BY <1>7, <2>1 DEF KeysHeld
<1>11. LoadsChecked  BY <1>6 DEF LoadsChecked
<1> QED BY <1>8, <1>9, <1>10, <1>11 DEF IngestInv

\* The parts of the state that a step leaves alone.
LEMMA WhoMoves ==
    ASSUME Next
    PROVE  \/ /\ \E l \in Loaders : Load(l)
              /\ UNCHANGED <<objects, publisher, client>>
           \/ /\ \E h \in Clients : CreateDocument(h)
              /\ UNCHANGED <<objects, publisher, loader>>
           \/ Publish /\ UNCHANGED <<storeVars, loader, client>>
BY DEF Next, Publish, StartPublishing, PutObject, PublishingStops, ObjectStoreRestarts,
       Load, StartLoad, ReadDocuments, ReadProvenance, WriteDocuments, CommitCorpus, LoadFails,
       CreateDocument, SubmitDocument, InsertDocument, CommitDocument, CreateFails

LEMMA TypeStep ==
    ASSUME IngestInv, Next PROVE IngestTypeOK' /\ LoadsChecked'
<1>1. StoreTypeOK'  BY StoreStep DEF StoreInv
<1>2. CASE (\E l \in Loaders : Load(l)) /\ UNCHANGED <<objects, publisher, client>>
  <2>1. PICK l \in Loaders : Load(l)  BY <1>2
  <2>2. PICK s : LoadOK(s) /\ loader' = [loader EXCEPT ![l] = s]  BY <2>1, LoaderMoves
  <2>3. loader \in [Loaders -> LoaderState] /\ s \in LoaderState
    BY <2>2 DEF IngestInv, IngestTypeOK, LoadOK
  <2>4. loader' \in [Loaders -> LoaderState]  BY <2>2, <2>3
  <2>5. ASSUME NEW m \in Loaders PROVE LoadOK(loader'[m])
    <3>1. CASE m = l  BY <2>2, <2>3, <3>1
    <3>2. CASE m # l
      <4>1. loader'[m] = loader[m]  BY <2>2, <2>3, <3>2
      <4> QED BY <2>3, <4>1 DEF IngestInv, IngestTypeOK, LoadsChecked, LoadOK
    <3> QED BY <3>1, <3>2
  <2>6. LoadsChecked'  BY <2>5 DEF LoadOK, LoadsChecked
  <2>7. \A m \in Loaders :
           loader'[m].release # Absent <=> loader'[m].pc \in {"provenance", "upsert", "commit", "reported"}
    BY <2>5 DEF LoadOK
  <2> QED BY <1>1, <1>2, <2>4, <2>6, <2>7 DEF IngestInv, IngestTypeOK
<1>3. CASE (\E h \in Clients : CreateDocument(h)) /\ UNCHANGED <<objects, publisher, loader>>
  <2>1. PICK h \in Clients : CreateDocument(h)  BY <1>3
  <2>2. PICK s \in ClientState : client' = [client EXCEPT ![h] = s]  BY <2>1, ClientMoves
  <2>3. client' \in [Clients -> ClientState]  BY <2>2 DEF IngestInv, IngestTypeOK
  <2> QED BY <1>1, <1>3, <2>3 DEF IngestInv, IngestTypeOK, LoadsChecked
<1>4. CASE Publish /\ UNCHANGED <<storeVars, loader, client>>
  <2>1. publisher' \in [pc : {"idle"} \cup Artifacts, release : Releases]
        /\ objects' \in [Artifacts -> Releases \cup {Absent}]
    <3> DEFINE P == [pc : {"idle"} \cup Artifacts, release : Releases]
    <3>1. publisher \in P /\ objects \in [Artifacts -> Releases \cup {Absent}]  BY DEF IngestInv, IngestTypeOK
    <3>2. CASE StartPublishing
      <4>1. \A r \in Releases : [pc |-> "documents", release |-> r] \in P  BY DEF Artifacts
      <4> QED BY <3>1, <3>2, <4>1 DEF StartPublishing
    <3>3. CASE PutObject
      <4>1. \A pc \in {"idle", "provenance"} : [publisher EXCEPT !.pc = pc] \in P  BY <3>1 DEF Artifacts
      <4>2. publisher.release \in Releases  BY <3>1
      <4> QED BY <3>1, <3>3, <4>1, <4>2 DEF PutObject
    <3>4. CASE PublishingStops  BY <3>1, <3>4 DEF PublishingStops
    <3>5. CASE ObjectStoreRestarts  BY <3>1, <3>5 DEF ObjectStoreRestarts
    <3> QED BY <1>4, <3>2, <3>3, <3>4, <3>5 DEF Publish
  <2> QED BY <1>1, <1>4, <2>1 DEF IngestInv, IngestTypeOK, LoadsChecked
<1> QED BY <1>2, <1>3, <1>4, WhoMoves
LEMMA KeysStep ==
    ASSUME IngestInv, Next PROVE KeysHeld'
<1> USE DEF IngestInv
<1>1. CASE (\E l \in Loaders : Load(l)) /\ UNCHANGED <<objects, publisher, client>>
  <2>1. PICK l \in Loaders : Load(l)  BY <1>1
  <2>2. PICK s : /\ LoadOK(s) /\ loader' = [loader EXCEPT ![l] = s]
                 /\ s.pc = "commit" => Identifiers(s.release) \cap Held = {}
    BY <2>1, LoaderMoves
  <2>3. loader'[l] = s /\ \A m \in Loaders : m # l => loader'[m] = loader[m]  BY <2>2 DEF IngestTypeOK
  <2>4. HeldByLoader(l)' \cap Held = {}  BY <2>2, <2>3 DEF HeldByLoader
  <2>5. \A m \in Loaders : m # l => HeldByLoader(m)' = HeldByLoader(m)  BY <2>3 DEF HeldByLoader
  <2>6. (\A m \in Loaders : HeldByLoader(m) \subseteq Held) /\ (\A h \in Clients : HeldByClient(h) \subseteq Held)
    BY DEF Held
  <2>7. \A h \in Clients : HeldByClient(h)' = HeldByClient(h)  BY <1>1 DEF HeldByClient
  <2>8. ASSUME NEW h \in Clients, client[h].pc = "commit" PROVE ~Stored(client[h].request.id)'
    <3> DEFINE id == client[h].request.id
    <3>1. id \in DocumentIds  BY SubmissionAssumption DEF IngestTypeOK, ClientState
    <3>2. UNCHANGED storeVars \/ (loader[l].pc = "commit" /\ CorpusCommitted(l))
      BY <2>1 DEF Load, StartLoad, ReadDocuments, ReadProvenance, WriteDocuments, CommitCorpus, LoadFails
    <3>3. CASE UNCHANGED storeVars  BY <1>1, <2>8, <3>3 DEF storeVars, KeysHeld, Stored
    <3>4. CASE loader[l].pc = "commit" /\ CorpusCommitted(l)
      <4>1. id \notin Identifiers(loader[l].release)  BY <2>8, <3>4 DEF KeysHeld, HeldByLoader
      <4>2. loader[l].release \in Releases  BY <3>4 DEF IngestTypeOK, LoaderState
      <4>3. documents'[id] = documents[id]
        BY <3>1, <3>4, <4>1, <4>2, LoadCommits DEF IngestTypeOK, CorpusCommitted
      <4> QED BY <1>1, <2>8, <4>3 DEF KeysHeld, Stored
    <3> QED BY <3>2, <3>3, <3>4
  <2>9. ASSUME NEW h \in Clients, client'[h].pc = "commit"
        PROVE  /\ ~Stored(client[h].request.id)'
               /\ \A g \in Clients \ {h} : client'[h].request.id \notin HeldByClient(g)'
               /\ \A m \in Loaders : client'[h].request.id \notin HeldByLoader(m)'
    <3>1. client[h].pc = "commit" /\ client' = client  BY <1>1, <2>9
    <3>2. \A g \in Clients \ {h} : client'[h].request.id \notin HeldByClient(g)'
      BY <2>7, <3>1 DEF KeysHeld
    <3>3. client[h].request.id \in Held  BY <2>6, <3>1 DEF HeldByClient
    <3>4. \A m \in Loaders : client'[h].request.id \notin HeldByLoader(m)'
      BY <2>4, <2>5, <3>1, <3>3 DEF KeysHeld
    <3> QED BY <2>8, <3>1, <3>2, <3>4
  <2>10. ASSUME NEW m \in Loaders, NEW n \in Loaders, m # n
         PROVE  HeldByLoader(m)' \cap HeldByLoader(n)' = {}
    <3>1. CASE m = l  BY <2>4, <2>5, <2>6, <2>10, <3>1
    <3>2. CASE n = l  BY <2>4, <2>5, <2>6, <2>10, <3>2
    <3>3. CASE m # l /\ n # l  BY <2>5, <2>10, <3>3 DEF KeysHeld
    <3> QED BY <3>1, <3>2, <3>3
  <2> QED BY <2>9, <2>10 DEF KeysHeld
<1>2. CASE (\E h \in Clients : CreateDocument(h)) /\ UNCHANGED <<objects, publisher, loader>>
  <2>1. PICK h \in Clients : CreateDocument(h)  BY <1>2
  <2>2. PICK s \in ClientState :
           /\ client' = [client EXCEPT ![h] = s]
           /\ s.pc = "commit" =>
                 client[h].pc = "insert" /\ ~Stored(s.request.id) /\ s.request.id \notin Held
    BY <2>1, ClientMoves
  <2>3. client'[h] = s /\ \A g \in Clients : g # h => client'[g] = client[g]  BY <2>2 DEF IngestTypeOK
  <2>4. \A l \in Loaders : HeldByLoader(l)' = HeldByLoader(l)  BY <1>2 DEF HeldByLoader
  <2>5. \A g \in Clients : g # h => HeldByClient(g)' = HeldByClient(g)  BY <2>3 DEF HeldByClient
  <2>6. HeldByClient(h)' \cap Held = {}  BY <2>2, <2>3 DEF HeldByClient
  <2>7. (\A l \in Loaders : HeldByLoader(l) \subseteq Held) /\ (\A g \in Clients : HeldByClient(g) \subseteq Held)
    BY DEF Held
  <2>8. UNCHANGED storeVars \/ (client[h].pc = "commit" /\ DocumentCommitted(h))
    BY <2>1 DEF CreateDocument, SubmitDocument, InsertDocument, CommitDocument, CreateFails
  <2>9. ASSUME NEW g \in Clients, client'[g].pc = "commit"
        PROVE  /\ ~Stored(client[g].request.id)'
               /\ \A k \in Clients \ {g} : client'[g].request.id \notin HeldByClient(k)'
               /\ \A l \in Loaders : client'[g].request.id \notin HeldByLoader(l)'
    <3>1. CASE g = h
      <4>1. s.pc = "commit" /\ client[h].pc = "insert" /\ ~Stored(s.request.id) /\ s.request.id \notin Held
        BY <2>2, <2>3, <2>9, <3>1
      <4>2. UNCHANGED storeVars  BY <2>8, <4>1
      <4>3. \A k \in Clients \ {g} : client'[g].request.id \notin HeldByClient(k)'
        BY <2>3, <2>5, <2>7, <3>1, <4>1
      <4>4. \A l \in Loaders : client'[g].request.id \notin HeldByLoader(l)'
        BY <2>3, <2>4, <2>7, <3>1, <4>1
      <4> QED BY <2>3, <3>1, <4>1, <4>2, <4>3, <4>4 DEF Stored, storeVars
    <3>2. CASE g # h
      <4> DEFINE id == client[g].request.id
      <4>1. client[g].pc = "commit" /\ client'[g] = client[g]  BY <2>3, <2>9, <3>2
      <4>2. /\ documents[id] = Absent
            /\ \A k \in Clients \ {g} : id \notin HeldByClient(k)
            /\ \A l \in Loaders : id \notin HeldByLoader(l)
        BY <4>1 DEF KeysHeld, Stored
      <4>3. id \in Held  BY <2>7, <4>1 DEF HeldByClient
      <4>4. documents'[id] = documents[id]
        <5>1. CASE UNCHANGED storeVars  BY <5>1 DEF storeVars
        <5>2. CASE client[h].pc = "commit" /\ DocumentCommitted(h)
          <6>1. id # client[h].request.id  BY <3>2, <4>2, <5>2 DEF HeldByClient
          <6>2. id \in DocumentIds /\ client[h].request.id \in DocumentIds /\ client[h].request.document \in Document
            BY SubmissionAssumption DEF IngestTypeOK, ClientState
          <6> QED BY <5>2, <6>1, <6>2, CreateCommits DEF IngestTypeOK, DocumentCommitted
        <5> QED BY <2>8, <5>1, <5>2
      <4>5. \A k \in Clients \ {g} : id \notin HeldByClient(k)'
        BY <2>5, <2>6, <4>2, <4>3
      <4> QED BY <2>4, <4>1, <4>2, <4>4, <4>5 DEF Stored
    <3> QED BY <3>1, <3>2
  <2> QED BY <2>4, <2>9 DEF KeysHeld
<1>3. CASE Publish /\ UNCHANGED <<storeVars, loader, client>>
  BY <1>3 DEF storeVars, KeysHeld, HeldByLoader, HeldByClient, Stored
<1> QED BY <1>1, <1>2, <1>3, WhoMoves

LEMMA IngestInvStep == IngestInv /\ [Next]_vars => IngestInv'
<1> SUFFICES ASSUME IngestInv, [Next]_vars PROVE IngestInv'
  OBVIOUS
<1>1. StoreInv'  BY StoreStep
<1>2. CASE Next  BY <1>1, <1>2, TypeStep, KeysStep DEF IngestInv, StoreInv
<1>3. CASE UNCHANGED vars
  BY <1>1, <1>3 DEF vars, storeVars, ingestVars, IngestInv, StoreInv, IngestTypeOK, KeysHeld, HeldByLoader,
                    HeldByClient, Stored, LoadsChecked
<1> QED BY <1>2, <1>3

\* A step that changes the tables is one writer's commit, and that writer's transaction is over.
LEMMA WhoseCommit ==
    ASSUME IngestInv, Next
    PROVE  \/ UNCHANGED storeVars
           \/ \E l \in Loaders :
                 loader[l].pc = "commit" /\ loader'[l].pc # "commit" /\ CorpusCommitted(l)
           \/ \E h \in Clients :
                 client[h].pc = "commit" /\ client'[h].pc # "commit" /\ DocumentCommitted(h)
<1>1. ASSUME NEW l \in Loaders, Load(l)
      PROVE  UNCHANGED storeVars \/ (loader[l].pc = "commit" /\ loader'[l].pc # "commit" /\ CorpusCommitted(l))
  <2>1. CASE CommitCorpus(l) \/ LoadFails(l)
    <3>1. loader'[l].pc \in {"reported", "failed"}
      BY <2>1 DEF CommitCorpus, LoadFails, LoaderAt, LoadFailed, IngestInv, IngestTypeOK, LoaderState
    <3> QED BY <2>1, <3>1 DEF CommitCorpus, LoadFails
  <2> QED BY <1>1, <2>1 DEF Load, StartLoad, ReadDocuments, ReadProvenance, WriteDocuments
<1>2. ASSUME NEW h \in Clients, CreateDocument(h)
      PROVE  UNCHANGED storeVars \/ (client[h].pc = "commit" /\ client'[h].pc # "commit" /\ DocumentCommitted(h))
  <2>1. CASE CommitDocument(h) \/ CreateFails(h)
    <3>1. client'[h].pc = "idle"
      BY <2>1 DEF CommitDocument, CreateFails, Answer, IngestInv, IngestTypeOK, ClientState
    <3> QED BY <2>1, <3>1 DEF CommitDocument, CreateFails
  <2> QED BY <1>2, <2>1 DEF CreateDocument, SubmitDocument, InsertDocument
<1>3. Publish => UNCHANGED storeVars
  BY DEF Publish, StartPublishing, PutObject, PublishingStops, ObjectStoreRestarts
<1> QED BY <1>1, <1>2, <1>3 DEF Next

\* A commit changes the rows of the documents it names and no other ones.
LEMMA LoadTouches ==
    ASSUME IngestInv, NEW l \in Loaders, loader[l].pc = "commit", CorpusCommitted(l),
           NEW ids \in SUBSET DocumentIds, ids \cap Identifiers(loader[l].release) = {}
    PROVE  Untouched(ids)
<1> DEFINE r == loader[l].release
<1>1. r \in Releases  BY DEF IngestInv, IngestTypeOK, LoaderState
<1>2. /\ \A id \in DocumentIds :
            documents'[id] = IF id \in Identifiers(r) THEN Corpus(r)[id] ELSE documents[id]
      /\ \A c \in ChunkIds :
            chunks'[c] = IF c \in DOMAIN CorpusChunks(Corpus(r)) THEN CorpusChunks(Corpus(r))[c] ELSE chunks[c]
  BY <1>1, LoadCommits DEF IngestInv, IngestTypeOK, CorpusCommitted
<1>3. \A c \in DOMAIN CorpusChunks(Corpus(r)) : c[1] \in Identifiers(r)  BY <1>1, ReleaseChunks
<1>4. ids \cap Identifiers(r) = {}  OBVIOUS
<1> HIDE DEF r
<1> QED BY <1>2, <1>3, <1>4 DEF Untouched

LEMMA CreateTouches ==
    ASSUME IngestInv, NEW h \in Clients, DocumentCommitted(h),
           NEW ids \in SUBSET DocumentIds, client[h].request.id \notin ids
    PROVE  Untouched(ids)
<1> DEFINE id == client[h].request.id
           doc == client[h].request.document
<1>1. id \in DocumentIds /\ doc \in Document
  BY SubmissionAssumption DEF IngestInv, IngestTypeOK, ClientState
<1>2. /\ \A other \in DocumentIds : documents'[other] = IF other = id THEN doc ELSE documents[other]
      /\ \A c \in ChunkIds :
            chunks'[c] = IF c \in DOMAIN ChunkDocument(id, doc) THEN ChunkDocument(id, doc)[c] ELSE chunks[c]
  BY <1>1, CreateCommits DEF IngestInv, IngestTypeOK, DocumentCommitted
<1>3. \A c \in DOMAIN ChunkDocument(id, doc) : c[1] = id  BY <1>1, DocumentChunks
<1>4. id \notin ids  OBVIOUS
<1> HIDE DEF id, doc
<1> QED BY <1>2, <1>3, <1>4 DEF Untouched

(* The strengthened invariant holds for every set of releases, loaders and create handlers:  *)
(* no key belongs to two transactions and no load goes on with an unchecked release          *)
(* (corpus_loader.py:103, :159).                                                             *)
THEOREM IngestInvHolds == Spec => []IngestInv
BY IngestInvInit, IngestInvStep, PTL DEF Spec

(* Every variable of the ingestion keeps its type.                                           *)
THEOREM IngestTypeCorrect == Spec => []IngestTypeOK
<1>1. IngestInv => IngestTypeOK  BY DEF IngestInv
<1> QED BY <1>1, IngestInvHolds, PTL

(* A stored document is always whole: each slice of its body is stored with its own label    *)
(* and custody, and no chunk is without a document (document_repository.py:95,               *)
(* corpus_loader.py:159).                                                                    *)
THEOREM StoreAlwaysWhole == Spec => []StoreWhole
<1>1. IngestInv => StoreWhole  BY DEF IngestInv
<1> QED BY <1>1, IngestInvHolds, PTL

(* A document is stored only as submitted or as released and vouched for                     *)
(* (corpus_loader.py:103).                                                                   *)
THEOREM CustodyAlwaysChecked == Spec => []CustodyChecked
<1>1. IngestInv => CustodyChecked  BY DEF IngestInv
<1> QED BY <1>1, IngestInvHolds, PTL

(* While a transaction writes, nobody else changes a document or a chunk it has written:     *)
(* another load or create of it has waited, or holds other keys (corpus_loader.py:74,        *)
(* document_repository.py:95).                                                               *)
THEOREM WritesAlwaysExclusive == Spec => WritesAreExclusive
<1> DEFINE Exclusive ==
      /\ \A l \in Loaders :
            loader[l].pc = "commit" /\ loader'[l].pc = "commit" => Untouched(Identifiers(loader[l].release))
      /\ \A h \in Clients :
            client[h].pc = "commit" /\ client'[h].pc = "commit" => Untouched({client[h].request.id})
<1>1. IngestInv /\ [Next]_vars => [Exclusive]_vars
  <2> SUFFICES ASSUME IngestInv, Next PROVE Exclusive
    OBVIOUS
  <2>1. CASE UNCHANGED storeVars  BY <2>1 DEF storeVars, Untouched
  <2>2. CASE \E m \in Loaders : loader[m].pc = "commit" /\ loader'[m].pc # "commit" /\ CorpusCommitted(m)
    <3>1. PICK m \in Loaders : loader[m].pc = "commit" /\ loader'[m].pc # "commit" /\ CorpusCommitted(m)
      BY <2>2
    <3>2. ASSUME NEW ids \in SUBSET DocumentIds, ids \cap Identifiers(loader[m].release) = {}
          PROVE  Untouched(ids)
      BY <3>1, <3>2, LoadTouches
    <3>3. ASSUME NEW l \in Loaders, loader[l].pc = "commit", loader'[l].pc = "commit"
          PROVE  Untouched(Identifiers(loader[l].release))
      <4>1. l # m  BY <3>1, <3>3
      <4>2. Identifiers(loader[l].release) \cap Identifiers(loader[m].release) = {}
        BY <3>1, <3>3, <4>1 DEF IngestInv, KeysHeld, HeldByLoader
      <4>3. loader[l].release \in Releases  BY <3>3 DEF IngestInv, IngestTypeOK, LoaderState
      <4> QED BY <3>2, <4>2, <4>3, ReleaseCorpus
    <3>4. ASSUME NEW h \in Clients, client[h].pc = "commit"
          PROVE  Untouched({client[h].request.id})
      <4>1. client[h].request.id \notin Identifiers(loader[m].release)
        BY <3>1, <3>4 DEF IngestInv, KeysHeld, HeldByLoader
      <4>2. client[h].request.id \in DocumentIds
        BY SubmissionAssumption DEF IngestInv, IngestTypeOK, ClientState
      <4> QED BY <3>2, <4>1, <4>2
    <3> QED BY <3>3, <3>4
  <2>3. CASE \E g \in Clients : client[g].pc = "commit" /\ client'[g].pc # "commit" /\ DocumentCommitted(g)
    <3>1. PICK g \in Clients : client[g].pc = "commit" /\ client'[g].pc # "commit" /\ DocumentCommitted(g)
      BY <2>3
    <3>2. ASSUME NEW ids \in SUBSET DocumentIds, client[g].request.id \notin ids
          PROVE  Untouched(ids)
      BY <3>1, <3>2, CreateTouches
    <3>3. ASSUME NEW l \in Loaders, loader[l].pc = "commit"
          PROVE  Untouched(Identifiers(loader[l].release))
      <4>1. client[g].request.id \notin Identifiers(loader[l].release)
        BY <3>1, <3>3 DEF IngestInv, KeysHeld, HeldByLoader
      <4>2. loader[l].release \in Releases  BY <3>3 DEF IngestInv, IngestTypeOK, LoaderState
      <4> QED BY <3>2, <4>1, <4>2, ReleaseCorpus
    <3>4. ASSUME NEW h \in Clients, client[h].pc = "commit", client'[h].pc = "commit"
          PROVE  Untouched({client[h].request.id})
      <4>1. h # g  BY <3>1, <3>4
      <4>2. client[g].request.id # client[h].request.id
        BY <3>1, <3>4, <4>1 DEF IngestInv, KeysHeld, HeldByClient
      <4>3. client[h].request.id \in DocumentIds
        BY SubmissionAssumption DEF IngestInv, IngestTypeOK, ClientState
      <4> QED BY <3>2, <4>2, <4>3
    <3> QED BY <3>3, <3>4
  <2> QED BY <2>1, <2>2, <2>3, WhoseCommit
<1> QED BY <1>1, IngestInvHolds, PTL DEF Spec, WritesAreExclusive

(* A create that is answered 201 replaced nothing, whatever loads and creates of its         *)
(* identifier ran beside it (document_repository.py:95).                                     *)
THEOREM CreateNeverReplacesHolds == Spec => CreateNeverReplaces
<1>1. IngestInv /\ [Next]_vars =>
        [\A h \in Clients :
           client[h].pc = "commit" /\ client'[h].reply = "201" => ~Stored(client[h].request.id)]_vars
  BY DEF IngestInv, KeysHeld
<1> QED BY <1>1, IngestInvHolds, PTL DEF Spec, CreateNeverReplaces

-----------------------------------------------------------------------------
\* The refinement.

(* With its chunks and writers hidden, the document store is the catalogue: a document       *)
(* appears once, or a whole accepted release replaces what it names (corpus_loader.py:159).  *)
THEOREM IngestionImplementsCatalogue == Spec => ImplementsCatalogue
<1>1. Init => CatalogueOf!Init  BY DEF Init, StoreInit, CatalogueOf!Init
<1>2. IngestInv /\ [Next]_vars => [CatalogueOf!Next]_documents
  <2> SUFFICES ASSUME IngestInv, Next, documents' # documents PROVE CatalogueOf!Next
    BY DEF vars, storeVars
  <2>1. CASE \E l \in Loaders : loader[l].pc = "commit" /\ CorpusCommitted(l)
    <3>1. PICK l \in Loaders : loader[l].pc = "commit" /\ CorpusCommitted(l)  BY <2>1
    <3> DEFINE r == loader[l].release
    <3>2. r \in Releases /\ Accepted(r)
      BY <3>1 DEF IngestInv, IngestTypeOK, LoaderState, LoadsChecked, Accepted
    <3>3. DOMAIN Corpus(r) = Identifiers(r)  BY <3>2, ReleaseCorpus
    <3>4. /\ StoreTypeOK'
          /\ \A id \in DocumentIds :
                documents'[id] = IF id \in Identifiers(r) THEN Corpus(r)[id] ELSE documents[id]
      BY <3>1, <3>2, LoadCommits DEF IngestInv, IngestTypeOK, CorpusCommitted
    <3> HIDE DEF r
    <3>5. documents' = [id \in DocumentIds |-> IF id \in DOMAIN Corpus(r) THEN Corpus(r)[id] ELSE documents[id]]
      BY <3>3, <3>4 DEF StoreTypeOK
    <3>6. CatalogueOf!Install(r)  BY <3>2, <3>5 DEF CatalogueOf!Install
    <3> QED BY <3>2, <3>6 DEF CatalogueOf!Next
  <2>2. CASE \E h \in Clients : client[h].pc = "commit" /\ DocumentCommitted(h)
    <3>1. PICK h \in Clients : client[h].pc = "commit" /\ DocumentCommitted(h)  BY <2>2
    <3> DEFINE s == client[h].request
    <3>2. s \in Submissions /\ documents[s.id] = Absent
      BY <3>1 DEF IngestInv, IngestTypeOK, ClientState, KeysHeld, Stored
    <3>3. documents' = [documents EXCEPT ![s.id] = s.document]
      BY <3>1 DEF DocumentCommitted, SaveDocument
    <3>4. CatalogueOf!Create(s)  BY <3>2, <3>3 DEF CatalogueOf!Create
    <3> QED BY <3>2, <3>4 DEF CatalogueOf!Next
  <2> QED BY <2>1, <2>2, WhatCommits DEF storeVars
<1> QED BY <1>1, <1>2, IngestInvHolds, PTL DEF Spec, ImplementsCatalogue, CatalogueOf!Spec
=============================================================================
