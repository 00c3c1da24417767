----------------------------- MODULE DocumentStore -----------------------------
(***************************************************************************)
(* The documents and chunks tables: what a transaction that is committed    *)
(* leaves in them, and what the scoped reads of the document repository     *)
(* return.  A chunk row carries its own copy of the label and provenance.   *)
(***************************************************************************)
EXTENDS KnowledgeContracts

CONSTANT Absent   \* no row, no object

ASSUME AbsentAssumption == Absent \notin Document /\ Absent \notin ChunkRow

VARIABLES
    documents,   \* documents: document_id -> row
    chunks       \* chunks: chunk_id -> row
storeVars == <<documents, chunks>>

StoreTypeOK ==
    /\ documents \in [DocumentIds -> Document \cup {Absent}]
    /\ chunks \in [ChunkIds -> ChunkRow \cup {Absent}]

StoreInit ==
    /\ documents = [id \in DocumentIds |-> Absent]
    /\ chunks = [c \in ChunkIds |-> Absent]

Stored(id) == documents[id] # Absent

\* A table in which some rows were inserted or replaced.
Overlay(rows, table) == [key \in DOMAIN table |-> IF key \in DOMAIN rows THEN rows[key] ELSE table[key]]

\* save_document: both INSERTs of one transaction.  A present key refuses all of it.
InsertConflicts(id, doc) ==
    Stored(id) \/ \E c \in DOMAIN ChunkDocument(id, doc) : chunks[c] # Absent

SaveDocument(id, doc) ==
    /\ documents' = [documents EXCEPT ![id] = doc]
    /\ chunks' = Overlay(ChunkDocument(id, doc), chunks)

\* The corpus loader: both upserts of one transaction.  No row is ever deleted.
UpsertDocuments(corpus) == documents' = Overlay(corpus, documents)

CorpusChunks(corpus) ==
    [c \in UNION {DOMAIN ChunkDocument(id, corpus[id]) : id \in DOMAIN corpus} |->
        ChunkDocument(c[1], corpus[c[1]])[c]]

UpsertChunks(corpus) == chunks' = Overlay(CorpusChunks(corpus), chunks)

-----------------------------------------------------------------------------
\* The scoped reads.  A chunk is selected by its own label, not by its document's.
GetDocument(id, scope) ==
    IF Stored(id) /\ ScopeClause(scope, documents[id].access) THEN documents[id] ELSE Absent

ListDocuments(scope) == {id \in DocumentIds : GetDocument(id, scope) # Absent}

GetChunks(id, scope) ==
    {c \in ChunkIds : c[1] = id /\ chunks[c] # Absent /\ ScopeClause(scope, chunks[c].access)}

\* Rows a retrieval query may fetch under a constraint.
Fetchable(constraint) ==
    {c \in ChunkIds : chunks[c] # Absent /\ ConstraintClause(constraint, chunks[c].access)}

-----------------------------------------------------------------------------
(* Safety: a stored document is whole.  Every slice of the body it has now is stored under   *)
(* its chunk identifier with its text, label and provenance, and no chunk is without a       *)
(* document, whatever writers were interrupted (document_repository.py: one transaction      *)
(* around both writes; corpus_loader.py: the same).                                          *)
StoreWhole ==
    /\ \A id \in DocumentIds : Stored(id) =>
          \A n \in DOMAIN documents[id].body :
              chunks[<<id, n - 1>>] = [text |-> documents[id].body[n],
                                       access |-> documents[id].access,
                                       provenance |-> documents[id].provenance]
    /\ \A c \in ChunkIds : chunks[c] # Absent => Stored(c[1])

(* The repository's promise (domain/repositories.py:124): a document the scope may not read  *)
(* is indistinguishable from one that does not exist, so its chunk listing is empty too.     *)
HiddenDocumentHasNoChunks ==
    \A id \in DocumentIds, scope \in AuthorizationContext :
        GetDocument(id, scope) = Absent => GetChunks(id, scope) = {}
=============================================================================
