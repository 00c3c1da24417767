----------------------------- MODULE CorpusIngestion -----------------------------
(***************************************************************************)
(* How documents get into PostgreSQL: the initializer publishes a release   *)
(* of the corpus as two objects, the loader reads both, checks one against  *)
(* the other and upserts the corpus in one transaction, and POST            *)
(* /api/v1/documents inserts single documents.  A transaction holds its     *)
(* document keys from its first statement and shows nothing before COMMIT.  *)
(***************************************************************************)
EXTENDS DocumentStore, FiniteSets, SequencesExt

CONSTANTS
    Releases,        \* checkouts of the repository, each with its corpus artifacts
    CorpusLines,     \* documents.jsonl of a release: a sequence of [id, document]
    CustodyFile,     \* provenance.jsonl of a release: document_id -> custody
    Submissions,     \* bodies of POST /api/v1/documents: [id, document]
    Loaders,         \* processes that run api.ingest, one load after another
    Clients          \* handlers that serve POST /api/v1/documents

ASSUME CorpusAssumption ==
    \A r \in Releases :
        /\ CorpusLines[r] \in Seq([id : DocumentIds, document : Document])
        /\ DOMAIN CustodyFile[r] \subseteq DocumentIds

ASSUME ReleaseAssumption == Absent \notin Releases

ASSUME SubmissionAssumption == Submissions \subseteq [id : DocumentIds, document : Document]

VARIABLES
    objects,      \* object store: the release each of the two artifacts was written from
    publisher,    \* the initializer: the artifact it writes next, and its release
    loader,       \* the loaders
    client        \* the create handlers
ingestVars == <<objects, publisher, loader, client>>
vars == <<storeVars, ingestVars>>

Artifacts == {"documents", "provenance"}

LoaderPC == {"idle", "documents", "provenance", "upsert", "commit", "reported", "failed"}

ClientPC == {"idle", "insert", "commit"}

LoaderState == [pc : LoaderPC, release : Releases \cup {Absent}]

ClientState == [pc : ClientPC, request : Submissions, reply : {"none", "201", "409", "500"}]

IngestTypeOK ==
    /\ StoreTypeOK
    /\ objects \in [Artifacts -> Releases \cup {Absent}]
    /\ publisher \in [pc : {"idle"} \cup Artifacts, release : Releases]
    /\ loader \in [Loaders -> LoaderState]
    /\ \A l \in Loaders :
          loader[l].release # Absent <=> loader[l].pc \in {"provenance", "upsert", "commit", "reported"}
    /\ client \in [Clients -> ClientState]

Init ==
    /\ StoreInit
    /\ objects = [a \in Artifacts |-> Absent]
    /\ publisher \in {[pc |-> "idle", release |-> r] : r \in Releases}
    /\ loader = [l \in Loaders |-> [pc |-> "idle", release |-> Absent]]
    /\ client \in {[h \in Clients |-> [pc |-> "idle", request |-> s, reply |-> "none"]] : s \in Submissions}

-----------------------------------------------------------------------------
\* A release as the loader uses it, and the checks it makes.
Identifiers(r) == {CorpusLines[r][n].id : n \in DOMAIN CorpusLines[r]}

Corpus(r) == [id \in Identifiers(r) |-> (CHOOSE line \in Range(CorpusLines[r]) : line.id = id).document]

Wellformed(r) ==
    /\ CorpusLines[r] # <<>>
    /\ Cardinality(Identifiers(r)) = Len(CorpusLines[r])

\* Mutant of CustodyAgrees: an identifier without a custody entry is let through.
CustodyAgreesWhereListed(r, side) ==
    \A id \in Identifiers(r) \cap DOMAIN CustodyFile[side] :
        CustodyFile[side][id] = Corpus(r)[id].provenance

CustodyAgrees(r, side) ==
    \A id \in Identifiers(r) :
        /\ id \in DOMAIN CustodyFile[side]
        /\ CustodyFile[side][id] = Corpus(r)[id].provenance

\* chunk_document raises for a body of blanks, and the load stops there.
Chunkable(r) == \A id \in Identifiers(r) : ~Blank(Corpus(r)[id])

-----------------------------------------------------------------------------
\* The initializer writes the two artifacts of its checkout, one call after the other.
StartPublishing ==
    /\ publisher.pc = "idle"
    /\ \E r \in Releases : publisher' = [pc |-> "documents", release |-> r]
    /\ UNCHANGED <<storeVars, objects, loader, client>>

PutObject ==
    /\ publisher.pc \in Artifacts
    /\ objects' = [objects EXCEPT ![publisher.pc] = publisher.release]
    /\ publisher' = [publisher EXCEPT !.pc = IF publisher.pc = "documents" THEN "provenance" ELSE "idle"]
    /\ UNCHANGED <<storeVars, loader, client>>

\* The object store refuses a write, or the initializer is killed.
PublishingStops ==
    /\ publisher.pc \in Artifacts
    /\ publisher' = [publisher EXCEPT !.pc = "idle"]
    /\ UNCHANGED <<storeVars, objects, loader, client>>

\* LocalStack keeps no object across a restart.
ObjectStoreRestarts ==
    /\ objects # [a \in Artifacts |-> Absent]
    /\ objects' = [a \in Artifacts |-> Absent]
    /\ UNCHANGED <<storeVars, publisher, loader, client>>

-----------------------------------------------------------------------------
\* Mutant of HeldByLoader: without the transaction block each upsert commits by itself and lets
\* its keys go.
HeldByLoaderAutocommit(l) == {}

\* Document keys a transaction has written and not committed; another writer of one waits.
HeldByLoader(l) == IF loader[l].pc = "commit" THEN Identifiers(loader[l].release) ELSE {}
HeldByClient(h) == IF client[h].pc = "commit" THEN {client[h].request.id} ELSE {}
Held == UNION ({HeldByLoader(l) : l \in Loaders} \cup {HeldByClient(h) : h \in Clients})

LoaderAt(l, pc) == loader' = [loader EXCEPT ![l].pc = pc]

LoadFailed(l) == loader' = [loader EXCEPT ![l] = [pc |-> "failed", release |-> Absent]]

StartLoad(l) ==
    /\ loader[l].pc \in {"idle", "reported", "failed"}
    /\ loader' = [loader EXCEPT ![l] = [pc |-> "documents", release |-> Absent]]
    /\ UNCHANGED <<storeVars, objects, publisher, client>>

\* The first object is read and validated on its own.
ReadDocuments(l) ==
    /\ loader[l].pc = "documents"
    /\ LET usable == objects["documents"] # Absent /\ Wellformed(objects["documents"])
       IN \/ /\ usable
             /\ loader' = [loader EXCEPT ![l] = [pc |-> "provenance", release |-> objects["documents"]]]
          \/ ~usable /\ LoadFailed(l)
    /\ UNCHANGED <<storeVars, objects, publisher, client>>

\* The second object is read later, by then perhaps of another release, and must agree.
ReadProvenance(l) ==
    /\ loader[l].pc = "provenance"
    /\ LET accepted == /\ objects["provenance"] # Absent
                       /\ CustodyAgrees(loader[l].release, objects["provenance"])
                       /\ Chunkable(loader[l].release)
       IN \/ accepted /\ LoaderAt(l, "upsert")
          \/ ~accepted /\ LoadFailed(l)
    /\ UNCHANGED <<storeVars, objects, publisher, client>>

\* _write_documents: the upserts take the document keys.
WriteDocuments(l) ==
    /\ loader[l].pc = "upsert"
    /\ Identifiers(loader[l].release) \cap Held = {}
    /\ LoaderAt(l, "commit")
    /\ UNCHANGED <<storeVars, objects, publisher, client>>

CorpusCommitted(l) ==
    /\ UpsertDocuments(Corpus(loader[l].release))
    /\ UpsertChunks(Corpus(loader[l].release))

\* _write_chunks and COMMIT, after which the report is printed.
CommitCorpus(l) ==
    /\ loader[l].pc = "commit"
    /\ CorpusCommitted(l)
    /\ LoaderAt(l, "reported")
    /\ UNCHANGED <<objects, publisher, client>>

\* A statement or an object read fails, or the process dies: the transaction is rolled back,
\* unless its COMMIT had reached the server.
LoadFails(l) ==
    /\ loader[l].pc \in {"documents", "provenance", "upsert", "commit"}
    /\ LoadFailed(l)
    /\ \/ UNCHANGED storeVars
       \/ loader[l].pc = "commit" /\ CorpusCommitted(l)
    /\ UNCHANGED <<objects, publisher, client>>

-----------------------------------------------------------------------------
ClientAt(h, pc) == client' = [client EXCEPT ![h].pc = pc]

Answer(h, code) == client' = [client EXCEPT ![h].pc = "idle", ![h].reply = code]

\* DocumentService.create chunks first; a body of blanks is an error no handler translates.
SubmitDocument(h) ==
    /\ client[h].pc = "idle"
    /\ \E s \in Submissions :
          client' = [client EXCEPT ![h] =
              IF Blank(s.document) THEN [pc |-> "idle", request |-> s, reply |-> "500"]
                                   ELSE [pc |-> "insert", request |-> s, reply |-> "none"]]
    /\ UNCHANGED <<storeVars, objects, publisher, loader>>

\* Mutant of InsertDocument: nothing makes it wait for a writer that has not committed.
InsertDocumentUnlocked(h) ==
    /\ client[h].pc = "insert"
    /\ LET s == client[h].request IN
       \/ ~InsertConflicts(s.id, s.document) /\ ClientAt(h, "commit")
       \/ InsertConflicts(s.id, s.document) /\ Answer(h, "409")
    /\ UNCHANGED <<storeVars, objects, publisher, loader>>

\* The INSERT of the document waits for an uncommitted writer of its key.
InsertDocument(h) ==
    /\ client[h].pc = "insert"
    /\ client[h].request.id \notin Held
    /\ LET s == client[h].request IN
       \/ ~InsertConflicts(s.id, s.document) /\ ClientAt(h, "commit")
       \/ InsertConflicts(s.id, s.document) /\ Answer(h, "409")
    /\ UNCHANGED <<storeVars, objects, publisher, loader>>

DocumentCommitted(h) == SaveDocument(client[h].request.id, client[h].request.document)

CommitDocument(h) ==
    /\ client[h].pc = "commit"
    /\ DocumentCommitted(h)
    /\ Answer(h, "201")
    /\ UNCHANGED <<objects, publisher, loader>>

\* RepositoryError for whatever fails, a COMMIT whose answer is lost included, or the API
\* process dies and nobody is answered.
CreateFails(h) ==
    /\ client[h].pc \in {"insert", "commit"}
    /\ \/ Answer(h, "409") \/ Answer(h, "none")
    /\ \/ UNCHANGED storeVars
       \/ client[h].pc = "commit" /\ DocumentCommitted(h)
    /\ UNCHANGED <<objects, publisher, loader>>

-----------------------------------------------------------------------------
Publish == StartPublishing \/ PutObject \/ PublishingStops \/ ObjectStoreRestarts

Load(l) == StartLoad(l) \/ ReadDocuments(l) \/ ReadProvenance(l) \/ WriteDocuments(l) \/ CommitCorpus(l) \/ LoadFails(l)

CreateDocument(h) == SubmitDocument(h) \/ InsertDocument(h) \/ CommitDocument(h) \/ CreateFails(h)

Next == Publish \/ (\E l \in Loaders : Load(l)) \/ (\E h \in Clients : CreateDocument(h))

Spec == Init /\ [][Next]_vars

-----------------------------------------------------------------------------
(* Safety: a document is stored only as a client submitted it or as a release carries it     *)
(* with a custody record that some published custody file has for it, although the loader    *)
(* reads the two artifacts apart and the initializer may replace either in between           *)
(* (corpus_loader.py:103).                                                                   *)
CustodyChecked ==
    \A id \in DocumentIds : Stored(id) =>
        \/ \E s \in Submissions : s.id = id /\ s.document = documents[id]
        \/ /\ \E r \in Releases : [id |-> id, document |-> documents[id]] \in Range(CorpusLines[r])
           /\ \E side \in Releases : /\ id \in DOMAIN CustodyFile[side]
                                     /\ CustodyFile[side][id] = documents[id].provenance

(* Action property: from a writer's first statement until its transaction ends, nobody else   *)
(* changes a document it is writing or a chunk of one.  Of two loads, or of a load and a      *)
(* create, whoever is second therefore waits for the first and writes over what that          *)
(* committed, and never over rows that changed behind its statement (corpus_loader.py:74,     *)
(* document_repository.py:95).  Which release is the newer one the code does not ask.         *)
Untouched(ids) ==
    /\ \A id \in ids : documents'[id] = documents[id]
    /\ \A c \in ChunkIds : c[1] \in ids => chunks'[c] = chunks[c]

WritesAreExclusive ==
    [][/\ \A l \in Loaders :
             loader[l].pc = "commit" /\ loader'[l].pc = "commit" => Untouched(Identifiers(loader[l].release))
       /\ \A h \in Clients :
             client[h].pc = "commit" /\ client'[h].pc = "commit" => Untouched({client[h].request.id})]_vars

(* Action property: a create that is answered 201 found no document under its identifier     *)
(* when it committed, whichever creates and loads of that identifier ran beside it.          *)
CreateNeverReplaces ==
    [][\A h \in Clients :
         client[h].pc = "commit" /\ client'[h].reply = "201" => ~Stored(client[h].request.id)]_vars

(* The strengthening that carries the proofs.  A key that a transaction has written belongs  *)
(* to no other transaction, and the document a create will commit is still absent ...        *)
KeysHeld ==
    /\ \A h \in Clients : client[h].pc = "commit" =>
          /\ ~Stored(client[h].request.id)
          /\ \A g \in Clients \ {h} : client[h].request.id \notin HeldByClient(g)
          /\ \A l \in Loaders : client[h].request.id \notin HeldByLoader(l)
    /\ \A l, m \in Loaders : l # m => HeldByLoader(l) \cap HeldByLoader(m) = {}

(* ... and a load that goes on has passed the checks it made so far.                         *)
LoadsChecked ==
    \A l \in Loaders :
        /\ loader[l].pc \in {"provenance", "upsert", "commit"} => Wellformed(loader[l].release)
        /\ loader[l].pc \in {"upsert", "commit"} =>
              \E side \in Releases : CustodyAgrees(loader[l].release, side)

IngestInv ==
    IngestTypeOK /\ StoreWhole /\ CustodyChecked /\ KeysHeld /\ LoadsChecked

-----------------------------------------------------------------------------
\* Some published custody file vouches for the whole release.
Accepted(r) == Wellformed(r) /\ \E side \in Releases : CustodyAgrees(r, side)

(* Refinement: with the chunks and every writer hidden, a document appears once, when it is  *)
(* created, or a whole release replaces what it names (Catalogue).                           *)
CatalogueOf == INSTANCE Catalogue WITH catalogue <- documents
ImplementsCatalogue == CatalogueOf!Spec
=============================================================================
