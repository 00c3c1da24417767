---------------------------- MODULE IdempotentWrite ----------------------------
(***************************************************************************)
(* POST /api/v2/documents: IdempotencyHandler.run around the transaction   *)
(* that stores a document.  Each member of Handlers serves one request     *)
(* after another; pc names the await it is suspended at.                   *)
(***************************************************************************)
EXTENDS IdempotencyStore

CONSTANTS Handlers, ClaimAttempts

ASSUME ClaimAttemptsAssumption == ClaimAttempts \in Nat \ {0}

VARIABLES
    handler,     \* the handlers
    documents,   \* the documents stored, each with its chunks
    undecided,   \* transactions whose handler has given up before their outcome
    storedUnder, \* ghost: the documents stored by an operation run under a key
    abandoned    \* ghost: keys whose owner stopped without completing or releasing
writeVars == <<claims, handler, documents, undecided, storedUnder, abandoned>>

DocumentsOperation == "documents_v2_create"

HandlerPC == {"idle", "insert", "lookup", "operation", "complete", "release"}

\* From winning the claim to giving it up or completing it.
Owning == {"operation", "complete", "release"}

HandlerState == [pc : HandlerPC, key : Keys, document : Documents, attempt : 0..ClaimAttempts,
                 reply : {"none", "201", "400", "409", "500"}, answered : Documents \cup {NoDocument}]

Transactions == [key : Keys, document : Documents]

WriteTypeOK ==
    /\ StoreTypeOK
    /\ handler \in [Handlers -> HandlerState]
    /\ documents \subseteq Documents
    /\ undecided \subseteq Transactions
    /\ storedUnder \in [Keys -> SUBSET Documents]
    /\ abandoned \subseteq Keys

WriteInit ==
    /\ StoreInit
    /\ \E k \in Keys, d \in Documents :
          handler = [h \in Handlers |-> [pc |-> "idle", key |-> k, document |-> d, attempt |-> 0,
                                         reply |-> "none", answered |-> NoDocument]]
    /\ documents = {}
    /\ undecided = {}
    /\ storedUnder = [k \in Keys |-> {}]
    /\ abandoned = {}

Proceed(h, pc) == handler' = [handler EXCEPT ![h].pc = pc]

\* The handler answers; a 201 describes the document the response was recorded for.
Answer(h, code, document) ==
    handler' = [handler EXCEPT ![h].pc = "idle", ![h].attempt = 0,
                               ![h].reply = code, ![h].answered = document]

OwnClaim(h) == claims[handler[h].key]

OwnTransaction(h) == [key |-> handler[h].key, document |-> handler[h].document]

Unsettled(d) == \E t \in undecided : t.document = d

\* A request arrives; one without a usable key is refused before anything is claimed.
Arrive(h) ==
    /\ handler[h].pc = "idle"
    /\ \/ Answer(h, "400", NoDocument)
       \/ \E k \in Keys, d \in Documents :
             handler' = [handler EXCEPT ![h] = [pc |-> "insert", key |-> k, document |-> d, attempt |-> 1,
                                                reply |-> "none", answered |-> NoDocument]]
    /\ UNCHANGED <<claims, documents, undecided, storedUnder, abandoned>>

\* claim: the atomic insertion, which alone grants ownership.
TryClaim(h) ==
    /\ handler[h].pc = "insert"
    /\ \/ InsertClaim(handler[h].key, DocumentsOperation) /\ Proceed(h, "operation")
       \/ ClaimConflicts(handler[h].key) /\ Proceed(h, "lookup")
    /\ UNCHANGED <<documents, undecided, storedUnder, abandoned>>

\* Mutants of Vanished: the released key is taken for granted; no limit.
VanishedGrants(h) == Proceed(h, "operation")
VanishedForever(h) == Proceed(h, "insert")

\* claim: the row that was in the way has been released meanwhile; try again, or give up.
Vanished(h) ==
    \/ /\ handler[h].attempt < ClaimAttempts
       /\ handler' = [handler EXCEPT ![h].pc = "insert", ![h].attempt = @ + 1]
    \/ handler[h].attempt = ClaimAttempts /\ Answer(h, "409", NoDocument)

\* claim: the row that was in the way decides the answer.
Lookup(h) ==
    /\ handler[h].pc = "lookup"
    /\ \/ OwnClaim(h).state = "absent" /\ Vanished(h)
       \/ /\ OwnClaim(h).state # "absent" /\ OwnClaim(h).operation # DocumentsOperation
          /\ Answer(h, "409", NoDocument)
       \/ InFlight(handler[h].key, DocumentsOperation) /\ Answer(h, "409", NoDocument)
       \/ /\ OwnClaim(h).state = "completed" /\ OwnClaim(h).operation = DocumentsOperation
          /\ Answer(h, "201", OwnClaim(h).response)
    /\ UNCHANGED <<claims, documents, undecided, storedUnder, abandoned>>

\* operation(): the transaction commits.  It waits for an undecided one on the same document.
StoreDocument(h) ==
    /\ handler[h].pc = "operation"
    /\ handler[h].document \notin documents /\ ~Unsettled(handler[h].document)
    /\ documents' = documents \cup {handler[h].document}
    /\ storedUnder' = [storedUnder EXCEPT ![handler[h].key] = @ \cup {handler[h].document}]
    /\ Proceed(h, "complete")
    /\ UNCHANGED <<claims, undecided, abandoned>>

\* Mutant of StoreRejected: a document that is already there counts as stored.
StoreAccepted(h) ==
    /\ handler[h].pc = "operation" /\ handler[h].document \in documents
    /\ Proceed(h, "complete")
    /\ UNCHANGED <<claims, documents, undecided, storedUnder, abandoned>>

\* operation(): the document is already there, the primary key refuses it.
StoreRejected(h) ==
    /\ handler[h].pc = "operation"
    /\ handler[h].document \in documents
    /\ Proceed(h, "release")
    /\ UNCHANGED <<claims, documents, undecided, storedUnder, abandoned>>

\* Mutant of StoreFails: a transaction whose outcome is unknown counts as committed.
StoreHopefully(h) ==
    /\ handler[h].pc = "operation"
    /\ undecided' = undecided \cup {OwnTransaction(h)}
    /\ Proceed(h, "complete")
    /\ UNCHANGED <<claims, documents, storedUnder, abandoned>>

\* operation() raises because the connection is lost, before or after COMMIT was sent.
StoreFails(h) ==
    /\ handler[h].pc = "operation"
    /\ undecided' \in {undecided, undecided \cup {OwnTransaction(h)}}
    /\ Proceed(h, "release")
    /\ UNCHANGED <<claims, documents, storedUnder, abandoned>>

\* complete, and the answer 201.  A conflict here would escape as a 500.
Complete(h) ==
    /\ handler[h].pc = "complete"
    /\ IF InFlight(handler[h].key, DocumentsOperation)
       THEN /\ CompleteClaim(handler[h].key, DocumentsOperation, handler[h].document)
            /\ Answer(h, "201", handler[h].document)
       ELSE UNCHANGED claims /\ Answer(h, "500", NoDocument)
    /\ UNCHANGED <<documents, undecided, storedUnder, abandoned>>

\* Mutant of Release: the exception is raised and the claim kept.
KeepClaim(h) ==
    /\ handler[h].pc = "release" /\ Answer(h, "500", NoDocument)
    /\ UNCHANGED <<claims, documents, undecided, storedUnder, abandoned>>

\* release, and the operation's exception is raised again.
Release(h) ==
    /\ handler[h].pc = "release"
    /\ ReleaseClaim(handler[h].key, DocumentsOperation)
    /\ Answer(h, "500", NoDocument)
    /\ UNCHANGED <<documents, undecided, storedUnder, abandoned>>

\* A statement of the handler itself raises, the request is cancelled or the process dies.
\* A transaction it was waiting for may still be decided either way.
Aborted(h) ==
    /\ handler[h].pc # "idle"
    /\ Answer(h, "500", NoDocument)
    /\ abandoned' = IF handler[h].pc \in Owning THEN abandoned \cup {handler[h].key} ELSE abandoned
    /\ \/ UNCHANGED undecided
       \/ handler[h].pc = "operation" /\ undecided' = undecided \cup {OwnTransaction(h)}
    /\ UNCHANGED <<claims, documents, storedUnder>>

\* PostgreSQL decides a transaction nobody waits for any more.
Settle(t) ==
    /\ t \in undecided
    /\ undecided' = undecided \ {t}
    /\ \/ UNCHANGED <<documents, storedUnder>>
       \/ /\ t.document \notin documents
          /\ documents' = documents \cup {t.document}
          /\ storedUnder' = [storedUnder EXCEPT ![t.key] = @ \cup {t.document}]
    /\ UNCHANGED <<claims, handler, abandoned>>

\* POST /api/v1/documents stores a document without a key.
CreateDocumentV1(d) ==
    /\ d \notin documents /\ ~Unsettled(d)
    /\ documents' = documents \cup {d}
    /\ UNCHANGED <<claims, handler, undecided, storedUnder, abandoned>>

Serve(h) ==
    \/ TryClaim(h) \/ Lookup(h) \/ StoreDocument(h) \/ StoreRejected(h) \/ StoreFails(h)
    \/ Complete(h) \/ Release(h)

WriteNext ==
    \/ \E h \in Handlers : Arrive(h) \/ Serve(h) \/ Aborted(h)
    \/ \E t \in Transactions : Settle(t)
    \/ \E d \in Documents : CreateDocumentV1(d)

WriteSpec == WriteInit /\ [][WriteNext]_writeVars

\* An await of a handler returns, and PostgreSQL decides its transactions.
FairWriteSpec ==
    /\ WriteSpec
    /\ \A h \in Handlers : WF_writeVars(Serve(h))
    /\ \A t \in Transactions : WF_writeVars(Settle(t))

-----------------------------------------------------------------------------
Owners(k) == {h \in Handlers : handler[h].key = k /\ handler[h].pc \in Owning}

\* However many duplicates arrive, and however often the key is released between a conflict
\* and the lookup that follows, one handler at a time performs the operation of a key.
OneOwnerPerKey == \A k \in Keys : Cardinality(Owners(k)) <= 1

\* Every 201, first or replayed, describes a document that is stored, and is the answer the key
\* has on record from then on.
ReplyIsRecorded ==
    \A h \in Handlers : handler[h].reply = "201" =>
        /\ OwnClaim(h).state = "completed" /\ OwnClaim(h).response = handler[h].answered
        /\ handler[h].answered \in documents

\* The answer a key replays is about a write made under that key, not about a document
\* somebody else stored.
AnswerIsOwnWrite ==
    \A k \in Keys : claims[k].response # NoDocument => claims[k].response \in storedUnder[k]

\* A claim in flight has an owner at work, unless its owner was stopped: a failed operation
\* never leaves the key unusable.
NoOrphanedClaim ==
    \A k \in Keys \ abandoned : InFlight(k, DocumentsOperation) => Owners(k) # {}

\* The inductive invariant: an owner's row is in flight and the owner is alone with it; what an
\* owner is about to record, and what is on record, was stored under the key.
OwnershipInv ==
    /\ \A h \in Handlers : handler[h].pc \in Owning => InFlight(handler[h].key, DocumentsOperation)
    /\ \A g, h \in Handlers :
          handler[g].pc \in Owning /\ handler[h].pc \in Owning /\ handler[g].key = handler[h].key => g = h
    /\ NoOrphanedClaim

RecordInv ==
    /\ \A h \in Handlers : handler[h].pc = "complete" =>
          handler[h].document \in documents \cap storedUnder[handler[h].key]
    /\ \A k \in Keys : claims[k].response # NoDocument =>
          claims[k].state = "completed" /\ claims[k].response \in documents \cap storedUnder[k]
    /\ \A k \in Keys : claims[k].state = "completed" /\ claims[k].operation = DocumentsOperation =>
          claims[k].response # NoDocument
    /\ ReplyIsRecorded

WriteInv == OwnershipInv /\ RecordInv

\* Each key is answered once, about a durable document, for good.
Once == INSTANCE WriteOnce WITH
    stored <- documents, answers <- [k \in Keys |-> claims[k].response]
ImplementsWriteOnce == Once!WriteOnceSpec

\* Every request is answered, however other requests claim and release its key meanwhile.
RequestsAreAnswered == \A h \in Handlers : (handler[h].pc # "idle") ~> (handler[h].pc = "idle")
=============================================================================
