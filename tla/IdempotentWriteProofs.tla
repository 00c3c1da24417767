-------------------------- MODULE IdempotentWriteProofs --------------------------
(***************************************************************************)
(* Machine-checked theorems about IdempotentWrite, for every set of keys,  *)
(* documents and handlers and every number of claim attempts.              *)
(***************************************************************************)
EXTENDS IdempotentWrite, FiniteSetTheorems, TLAPS

-----------------------------------------------------------------------------
\* Type correctness.

\* Going on, and answering, keep a handler well formed.
LEMMA HandlerKept ==
    ASSUME WriteTypeOK, NEW h \in Handlers,
           \/ \E pc \in HandlerPC : Proceed(h, pc)
           \/ \E code \in {"none", "201", "400", "409", "500"}, d \in Documents \cup {NoDocument} :
                 Answer(h, code, d)
    PROVE  handler' \in [Handlers -> HandlerState]
<1> USE ClaimAttemptsAssumption DEF WriteTypeOK, HandlerState, HandlerPC
<1>1. CASE \E pc \in HandlerPC : Proceed(h, pc)  BY <1>1 DEF Proceed
<1>2. CASE \E code \in {"none", "201", "400", "409", "500"}, d \in Documents \cup {NoDocument} :
                 Answer(h, code, d)
  <2>1. 0 \in 0..ClaimAttempts  OBVIOUS
  <2>2. PICK code \in {"none", "201", "400", "409", "500"}, d \in Documents \cup {NoDocument} :
           Answer(h, code, d)
    BY <1>2
  <2>3. handler[h] \in HandlerState  OBVIOUS
  <2>4. [handler[h] EXCEPT !.pc = "idle", !.attempt = 0, !.reply = code, !.answered = d] \in HandlerState
    BY <2>1, <2>2, <2>3
  <2> QED BY <2>2, <2>4 DEF Answer
<1> QED BY <1>1, <1>2

\* The initial state is well formed.
LEMMA WriteTypeInit == WriteInit => WriteTypeOK
BY ClaimAttemptsAssumption
   DEF WriteInit, WriteTypeOK, StoreInit, StoreTypeOK, ClaimRow, NoClaim, OperationIds, HandlerState, HandlerPC

\* Every step keeps the state well formed.
LEMMA WriteTypeStep == WriteTypeOK /\ [WriteNext]_writeVars => WriteTypeOK'
<1> SUFFICES ASSUME WriteTypeOK, [WriteNext]_writeVars PROVE WriteTypeOK'  OBVIOUS
<1> USE DEF HandlerPC
<1>1. ASSUME NEW h \in Handlers PROVE handler[h] \in HandlerState /\ OwnTransaction(h) \in Transactions
             /\ handler[h].key \in Keys /\ handler[h].document \in Documents
             /\ OwnClaim(h) \in ClaimRow
  BY DEF WriteTypeOK, HandlerState, OwnTransaction, Transactions, OwnClaim, StoreTypeOK
<1>2. ASSUME NEW h \in Handlers, Arrive(h) PROVE WriteTypeOK'
  <2>1. handler' \in [Handlers -> HandlerState]
    <3>1. CASE Answer(h, "400", NoDocument)  BY <3>1, HandlerKept
    <3>2. CASE \E k \in Keys, d \in Documents :
                 handler' = [handler EXCEPT ![h] = [pc |-> "insert", key |-> k, document |-> d,
                                attempt |-> 1, reply |-> "none", answered |-> NoDocument]]
      BY <3>2, ClaimAttemptsAssumption DEF WriteTypeOK, HandlerState
    <3> QED BY <1>2, <3>1, <3>2 DEF Arrive
  <2> QED BY <1>2, <2>1 DEF Arrive, WriteTypeOK, StoreTypeOK
<1>3. ASSUME NEW h \in Handlers, TryClaim(h) PROVE WriteTypeOK'
  <2>1. handler' \in [Handlers -> HandlerState]  BY <1>3, HandlerKept DEF TryClaim
  <2>2. StoreTypeOK'
    BY <1>1, <1>3 DEF TryClaim, InsertClaim, ClaimConflicts, DocumentsOperation, WriteTypeOK,
                      StoreTypeOK, ClaimRow, OperationIds
  <2> QED BY <1>3, <2>1, <2>2 DEF TryClaim, WriteTypeOK
<1>4. ASSUME NEW h \in Handlers, Lookup(h) PROVE WriteTypeOK'
  <2>1. handler' \in [Handlers -> HandlerState]
    <3>1. CASE Answer(h, "409", NoDocument)  BY <3>1, HandlerKept
    <3>2. CASE Answer(h, "201", OwnClaim(h).response)
      <4>1. OwnClaim(h).response \in Documents \cup {NoDocument}  BY <1>1 DEF ClaimRow
      <4> QED BY <3>2, <4>1, HandlerKept
    <3>3. CASE /\ handler[h].attempt < ClaimAttempts
               /\ handler' = [handler EXCEPT ![h].pc = "insert", ![h].attempt = @ + 1]
      BY <1>1, <3>3, ClaimAttemptsAssumption DEF WriteTypeOK, HandlerState
    <3> QED BY <1>4, <3>1, <3>2, <3>3 DEF Lookup, Vanished
  <2> QED BY <1>4, <2>1 DEF Lookup, WriteTypeOK, StoreTypeOK
<1>5. ASSUME NEW h \in Handlers, StoreDocument(h) \/ StoreRejected(h) \/ StoreFails(h) PROVE WriteTypeOK'
  <2>1. handler' \in [Handlers -> HandlerState]
    BY <1>5, HandlerKept DEF StoreDocument, StoreRejected, StoreFails
  <2> QED BY <1>1, <1>5, <2>1 DEF StoreDocument, StoreRejected, StoreFails, WriteTypeOK, StoreTypeOK
<1>6. ASSUME NEW h \in Handlers, Complete(h) PROVE WriteTypeOK'
  <2>1. handler' \in [Handlers -> HandlerState]  BY <1>1, <1>6, HandlerKept DEF Complete
  <2>2. StoreTypeOK'
    BY <1>1, <1>6 DEF Complete, CompleteClaim, WriteTypeOK, StoreTypeOK, ClaimRow
  <2> QED BY <1>6, <2>1, <2>2 DEF Complete, WriteTypeOK
<1>7. ASSUME NEW h \in Handlers, Release(h) PROVE WriteTypeOK'
  <2>1. handler' \in [Handlers -> HandlerState]  BY <1>7, HandlerKept DEF Release
  <2>2. StoreTypeOK'
    BY <1>1, <1>7 DEF Release, ReleaseClaim, NoClaim, WriteTypeOK, StoreTypeOK, ClaimRow
  <2> QED BY <1>7, <2>1, <2>2 DEF Release, WriteTypeOK
<1>8. ASSUME NEW h \in Handlers, Aborted(h) PROVE WriteTypeOK'
  <2>1. handler' \in [Handlers -> HandlerState]  BY <1>8, HandlerKept DEF Aborted
  <2> QED BY <1>1, <1>8, <2>1 DEF Aborted, WriteTypeOK, StoreTypeOK
<1>9. ASSUME NEW t \in Transactions, Settle(t) PROVE WriteTypeOK'
  BY <1>9 DEF Settle, Transactions, WriteTypeOK, StoreTypeOK
<1>10. ASSUME NEW d \in Documents, CreateDocumentV1(d) PROVE WriteTypeOK'
  BY <1>10 DEF CreateDocumentV1, WriteTypeOK, StoreTypeOK
<1>11. CASE UNCHANGED writeVars  BY <1>11 DEF writeVars, WriteTypeOK, StoreTypeOK
<1> QED BY <1>2, <1>3, <1>4, <1>5, <1>6, <1>7, <1>8, <1>9, <1>10, <1>11 DEF WriteNext, Serve

\* The state stays well formed; the claim loop is bounded.
THEOREM WriteTypeCorrect == WriteSpec => []WriteTypeOK
<1> QED BY WriteTypeInit, WriteTypeStep, PTL DEF WriteSpec

-----------------------------------------------------------------------------
\* What a step does, in the terms of the invariant.

\* A handler's step leaves the other handlers alone.
LEMMA HandlerMoves ==
    ASSUME WriteTypeOK, NEW h \in Handlers
    PROVE  /\ \A pc : Proceed(h, pc) =>
                 /\ \A g \in Handlers : g # h => handler'[g] = handler[g]
                 /\ handler'[h] = [handler[h] EXCEPT !.pc = pc]
                 /\ handler'[h].pc = pc /\ handler'[h].key = handler[h].key
                 /\ handler'[h].document = handler[h].document
                 /\ handler'[h].reply = handler[h].reply /\ handler'[h].answered = handler[h].answered
           /\ \A code, d : Answer(h, code, d) =>
                 /\ \A g \in Handlers : g # h => handler'[g] = handler[g]
                 /\ handler'[h].pc = "idle" /\ handler'[h].key = handler[h].key
                 /\ handler'[h].reply = code /\ handler'[h].answered = d
<1>0. handler \in [Handlers -> HandlerState] /\ handler[h] \in HandlerState  BY DEF WriteTypeOK
<1>1. ASSUME NEW pc, Proceed(h, pc)
      PROVE  /\ \A g \in Handlers : g # h => handler'[g] = handler[g]
             /\ handler'[h] = [handler[h] EXCEPT !.pc = pc]
             /\ handler'[h].pc = pc /\ handler'[h].key = handler[h].key
             /\ handler'[h].document = handler[h].document
             /\ handler'[h].reply = handler[h].reply /\ handler'[h].answered = handler[h].answered
  BY <1>0, <1>1 DEF Proceed, HandlerState
<1>2. ASSUME NEW code, NEW d, Answer(h, code, d)
      PROVE  /\ \A g \in Handlers : g # h => handler'[g] = handler[g]
             /\ handler'[h].pc = "idle" /\ handler'[h].key = handler[h].key
             /\ handler'[h].reply = code /\ handler'[h].answered = d
  BY <1>0, <1>2 DEF Answer, HandlerState
<1> QED BY <1>1, <1>2

\* A claim row changes in three ways only: inserted where there was none, completed or released
\* while in flight, each by the handler whose key it is.
LEMMA ClaimMoves ==
    ASSUME WriteTypeOK, [WriteNext]_writeVars
    PROVE  \/ UNCHANGED claims
           \/ \E h \in Handlers :
                 /\ \A k \in Keys : k # handler[h].key => claims'[k] = claims[k]
                 /\ \/ /\ TryClaim(h) /\ OwnClaim(h).state = "absent"
                       /\ claims'[handler[h].key] = [state |-> "in_flight", operation |-> DocumentsOperation,
                                                     response |-> NoDocument]
                    \/ /\ Complete(h) /\ InFlight(handler[h].key, DocumentsOperation)
                       /\ claims'[handler[h].key] = [OwnClaim(h) EXCEPT !.state = "completed",
                                                                        !.response = handler[h].document]
                    \/ /\ Release(h) /\ InFlight(handler[h].key, DocumentsOperation)
                       /\ claims'[handler[h].key] = NoClaim
<1> DEFINE Moved(h) ==
       /\ \A k \in Keys : k # handler[h].key => claims'[k] = claims[k]
       /\ \/ /\ TryClaim(h) /\ OwnClaim(h).state = "absent"
             /\ claims'[handler[h].key] = [state |-> "in_flight", operation |-> DocumentsOperation,
                                           response |-> NoDocument]
          \/ /\ Complete(h) /\ InFlight(handler[h].key, DocumentsOperation)
             /\ claims'[handler[h].key] = [OwnClaim(h) EXCEPT !.state = "completed",
                                                              !.response = handler[h].document]
          \/ /\ Release(h) /\ InFlight(handler[h].key, DocumentsOperation)
             /\ claims'[handler[h].key] = NoClaim
<1>1. claims \in [Keys -> ClaimRow] /\ \A h \in Handlers : handler[h].key \in Keys
  BY DEF WriteTypeOK, StoreTypeOK, HandlerState
<1>2. ASSUME NEW h \in Handlers, TryClaim(h), claims' # claims PROVE Moved(h)
  BY <1>1, <1>2 DEF TryClaim, InsertClaim, ClaimConflicts, OwnClaim
<1>3. ASSUME NEW h \in Handlers, Complete(h), claims' # claims PROVE Moved(h)
  BY <1>1, <1>3 DEF Complete, CompleteClaim, OwnClaim
<1>4. ASSUME NEW h \in Handlers, Release(h), claims' # claims PROVE Moved(h)
  BY <1>1, <1>4 DEF Release, ReleaseClaim
<1> HIDE DEF Moved
<1>5. UNCHANGED claims \/ \E h \in Handlers : Moved(h)
  BY <1>2, <1>3, <1>4 DEF WriteNext, Serve, Arrive, Lookup, StoreDocument, StoreRejected, StoreFails,
        Aborted, Settle, CreateDocumentV1, writeVars
<1> QED BY <1>5 DEF Moved

\* Nobody owns anything at first, and nothing is on record.
LEMMA WriteInvInit == WriteInit => WriteInv
<1> SUFFICES ASSUME WriteInit PROVE WriteInv  OBVIOUS
<1>1. /\ \A h \in Handlers : handler[h].pc = "idle" /\ handler[h].reply = "none"
      /\ \A k \in Keys : /\ claims[k].response = NoDocument
                         /\ claims[k].operation # DocumentsOperation
  BY DEF WriteInit, StoreInit, NoClaim, DocumentsOperation
<1>2. OwnershipInv  BY <1>1 DEF OwnershipInv, Owning, NoOrphanedClaim, InFlight
<1>3. RecordInv  BY <1>1 DEF RecordInv, ReplyIsRecorded
<1> QED BY <1>2, <1>3 DEF WriteInv

\* Ownership is won by the one insertion that finds no row, and given up with the row.
LEMMA OwnershipStep ==
    ASSUME WriteTypeOK, OwnershipInv, [WriteNext]_writeVars
    PROVE  OwnershipInv'
<1> USE HandlerMoves DEF OwnershipInv, NoOrphanedClaim, Owners, Owning, InFlight
<1>0. /\ claims \in [Keys -> ClaimRow] /\ \A h \in Handlers : handler[h].key \in Keys
      /\ handler \in [Handlers -> HandlerState]
  BY DEF WriteTypeOK, StoreTypeOK, HandlerState
<1>1. ASSUME NEW h \in Handlers, Arrive(h) PROVE OwnershipInv'
  <2>1. /\ \A g \in Handlers : g # h => handler'[g] = handler[g]
        /\ handler[h].pc = "idle" /\ handler'[h].pc \in {"idle", "insert"}
    BY <1>0, <1>1 DEF Arrive
  <2>2. UNCHANGED <<claims, abandoned>>  BY <1>1 DEF Arrive
  <2> QED BY <1>0, <2>1, <2>2
<1>2. ASSUME NEW h \in Handlers, TryClaim(h) PROVE OwnershipInv'
  <2>1. CASE ClaimConflicts(handler[h].key) /\ Proceed(h, "lookup")
    <3>1. /\ \A g \in Handlers : g # h => handler'[g] = handler[g]
          /\ handler[h].pc = "insert" /\ handler'[h].pc = "lookup"
      BY <1>2, <2>1 DEF TryClaim
    <3>2. UNCHANGED <<claims, abandoned>>  BY <1>2, <2>1 DEF TryClaim, ClaimConflicts
    <3> QED BY <1>0, <3>1, <3>2
  <2>2. CASE InsertClaim(handler[h].key, DocumentsOperation) /\ Proceed(h, "operation")
    <3>1. /\ claims[handler[h].key].state = "absent"
          /\ claims'[handler[h].key].state = "in_flight"
          /\ claims'[handler[h].key].operation = DocumentsOperation
          /\ \A k \in Keys : k # handler[h].key => claims'[k] = claims[k]
      BY <1>0, <2>2 DEF InsertClaim
    <3>2. /\ \A g \in Handlers : g # h => handler'[g] = handler[g]
          /\ handler'[h].pc = "operation" /\ handler'[h].key = handler[h].key
      BY <2>2
    <3>3. UNCHANGED abandoned /\ handler[h].pc = "insert"  BY <1>2 DEF TryClaim
    <3> QED BY <1>0, <3>1, <3>2, <3>3
  <2> QED BY <1>2, <2>1, <2>2 DEF TryClaim
<1>3. ASSUME NEW h \in Handlers, Lookup(h) PROVE OwnershipInv'
  <2>1. /\ \A g \in Handlers : g # h => handler'[g] = handler[g]
        /\ handler[h].pc = "lookup" /\ handler'[h].pc \in {"idle", "insert"}
    <3>1. CASE handler' = [handler EXCEPT ![h].pc = "insert", ![h].attempt = @ + 1]
      BY <1>0, <1>3, <3>1 DEF Lookup, HandlerState
    <3>2. CASE \E code, d : Answer(h, code, d)  BY <1>3, <3>2 DEF Lookup
    <3> QED BY <1>3, <3>1, <3>2 DEF Lookup, Vanished
  <2>2. UNCHANGED <<claims, abandoned>>  BY <1>3 DEF Lookup
  <2> QED BY <1>0, <2>1, <2>2
<1>4. ASSUME NEW h \in Handlers, StoreDocument(h) \/ StoreRejected(h) \/ StoreFails(h)
      PROVE  OwnershipInv'
  <2>1. /\ \A g \in Handlers : g # h => handler'[g] = handler[g]
        /\ handler[h].pc = "operation" /\ handler'[h].pc \in {"complete", "release"}
        /\ handler'[h].key = handler[h].key
    BY <1>4 DEF StoreDocument, StoreRejected, StoreFails
  <2>2. UNCHANGED <<claims, abandoned>>  BY <1>4 DEF StoreDocument, StoreRejected, StoreFails
  <2> QED BY <1>0, <2>1, <2>2
<1>5. ASSUME NEW h \in Handlers, Complete(h) PROVE OwnershipInv'
  <2>1. /\ \A g \in Handlers : g # h => handler'[g] = handler[g]
        /\ handler[h].pc = "complete" /\ handler'[h].pc = "idle" /\ UNCHANGED abandoned
    BY <1>5 DEF Complete
  <2>2. /\ \A k \in Keys : k # handler[h].key => claims'[k] = claims[k]
        /\ claims'[handler[h].key].state = "completed"
    BY <1>0, <1>5, <2>1 DEF Complete, CompleteClaim, ClaimRow
  <2> QED BY <1>0, <2>1, <2>2
<1>6. ASSUME NEW h \in Handlers, Release(h) PROVE OwnershipInv'
  <2>1. /\ \A g \in Handlers : g # h => handler'[g] = handler[g]
        /\ handler[h].pc = "release" /\ handler'[h].pc = "idle" /\ UNCHANGED abandoned
    BY <1>6 DEF Release
  <2>2. /\ \A k \in Keys : k # handler[h].key => claims'[k] = claims[k]
        /\ claims'[handler[h].key].state = "absent"
    BY <1>0, <1>6, <2>1 DEF Release, ReleaseClaim, NoClaim
  <2> QED BY <1>0, <2>1, <2>2
<1>7. ASSUME NEW h \in Handlers, Aborted(h) PROVE OwnershipInv'
  <2>1. /\ \A g \in Handlers : g # h => handler'[g] = handler[g]
        /\ handler'[h].pc = "idle" /\ UNCHANGED claims
        /\ abandoned \subseteq abandoned'
        /\ handler[h].pc \in Owning => handler[h].key \in abandoned'
    BY <1>7 DEF Aborted
  <2> QED BY <1>0, <2>1
<1>8. CASE UNCHANGED <<claims, handler, abandoned>>  BY <1>8
<1> QED BY <1>1, <1>2, <1>3, <1>4, <1>5, <1>6, <1>7, <1>8
        DEF WriteNext, Serve, Settle, CreateDocumentV1, writeVars

\* Nothing stored is ever removed, and the ghost remembers under which key it was stored.
LEMMA DocumentsGrow ==
    ASSUME WriteTypeOK, [WriteNext]_writeVars
    PROVE  /\ documents \subseteq documents'
           /\ \A k \in Keys : storedUnder[k] \subseteq storedUnder'[k]
<1>1. ASSUME NEW h \in Handlers, StoreDocument(h)
      PROVE  documents \subseteq documents' /\ \A k \in Keys : storedUnder[k] \subseteq storedUnder'[k]
  BY <1>1 DEF StoreDocument, WriteTypeOK
<1>2. ASSUME NEW t \in Transactions, Settle(t)
      PROVE  documents \subseteq documents' /\ \A k \in Keys : storedUnder[k] \subseteq storedUnder'[k]
  BY <1>2 DEF Settle, WriteTypeOK
<1>3. ASSUME NEW d \in Documents, CreateDocumentV1(d)
      PROVE  documents \subseteq documents' /\ \A k \in Keys : storedUnder[k] \subseteq storedUnder'[k]
  BY <1>3 DEF CreateDocumentV1
<1>4. CASE UNCHANGED <<documents, storedUnder>>  BY <1>4
<1> QED BY <1>1, <1>2, <1>3, <1>4
        DEF WriteNext, Arrive, Serve, TryClaim, Lookup, StoreRejected, StoreFails, Complete, Release,
            Aborted, writeVars

\* What is on record, and what an owner is about to record, is stored and was stored under the key.
LEMMA RecordStep ==
    ASSUME WriteTypeOK, OwnershipInv, RecordInv, [WriteNext]_writeVars
    PROVE  RecordInv'
<1>0. /\ claims \in [Keys -> ClaimRow] /\ handler \in [Handlers -> HandlerState]
      /\ \A h \in Handlers : handler[h].key \in Keys /\ handler[h].document \in Documents
  BY DEF WriteTypeOK, StoreTypeOK, HandlerState
<1>1. /\ \A h \in Handlers : handler'[h].pc = "complete" =>
            handler'[h].document \in documents' \cap storedUnder'[handler'[h].key]
  <2> SUFFICES ASSUME NEW g \in Handlers, handler'[g].pc = "complete"
               PROVE  handler'[g].document \in documents' \cap storedUnder'[handler'[g].key]
    OBVIOUS
  <2>1. CASE handler'[g] = handler[g]  BY <1>0, <2>1, DocumentsGrow DEF RecordInv
  <2>2. CASE handler'[g] # handler[g]
    <3>1. StoreDocument(g)
      <4>1. ASSUME NEW h \in Handlers, Arrive(h) PROVE handler'[g] = handler[g] \/ handler'[g].pc # "complete"
        BY <1>0, <4>1 DEF Arrive, Answer, HandlerState
      <4>2. ASSUME NEW h \in Handlers, Lookup(h) PROVE handler'[g] = handler[g] \/ handler'[g].pc # "complete"
        <5>1. CASE handler' = [handler EXCEPT ![h].pc = "insert", ![h].attempt = @ + 1]
          BY <1>0, <5>1 DEF HandlerState
        <5>2. CASE \E code, d : Answer(h, code, d)  BY <1>0, <5>2, HandlerMoves
        <5> QED BY <4>2, <5>1, <5>2 DEF Lookup, Vanished
      <4>3. ASSUME NEW h \in Handlers, TryClaim(h) \/ StoreRejected(h) \/ StoreFails(h)
            PROVE  handler'[g] = handler[g] \/ handler'[g].pc # "complete"
        <5>1. \E pc \in {"operation", "lookup", "release"} : Proceed(h, pc)
          BY <4>3 DEF TryClaim, StoreRejected, StoreFails
        <5> QED BY <5>1, HandlerMoves
      <4>4. ASSUME NEW h \in Handlers, Complete(h) \/ Release(h) \/ Aborted(h)
            PROVE  handler'[g] = handler[g] \/ handler'[g].pc # "complete"
        BY <4>4, HandlerMoves DEF Complete, Release, Aborted
      <4>5. ASSUME NEW h \in Handlers, StoreDocument(h), h # g PROVE handler'[g] = handler[g]
        BY <4>5, HandlerMoves DEF StoreDocument
      <4> QED BY <2>2, <4>1, <4>2, <4>3, <4>4, <4>5 DEF WriteNext, Serve, Settle, CreateDocumentV1, writeVars
    <3>2. handler'[g].document = handler[g].document /\ handler'[g].key = handler[g].key
      BY <3>1, HandlerMoves DEF StoreDocument
    <3> QED BY <1>0, <3>1, <3>2 DEF StoreDocument, WriteTypeOK
  <2> QED BY <2>1, <2>2
<1> DEFINE Recorded ==
       /\ \A k \in Keys : claims'[k].response # NoDocument =>
             claims'[k].state = "completed" /\ claims'[k].response \in documents' \cap storedUnder'[k]
       /\ \A k \in Keys : claims'[k].state = "completed" /\ claims'[k].operation = DocumentsOperation =>
             claims'[k].response # NoDocument
<1>2. Recorded
  <2>1. CASE UNCHANGED claims  BY <2>1, DocumentsGrow DEF RecordInv
  <2>2. ASSUME NEW h \in Handlers,
               \A k \in Keys : k # handler[h].key => claims'[k] = claims[k],
               \/ claims'[handler[h].key] = [state |-> "in_flight", operation |-> DocumentsOperation,
                                             response |-> NoDocument]
               \/ claims'[handler[h].key] = NoClaim
        PROVE  Recorded
    BY <2>2, DocumentsGrow DEF RecordInv, NoClaim
  <2>3. ASSUME NEW h \in Handlers, Complete(h), InFlight(handler[h].key, DocumentsOperation),
               \A k \in Keys : k # handler[h].key => claims'[k] = claims[k],
               claims'[handler[h].key] = [OwnClaim(h) EXCEPT !.state = "completed",
                                                             !.response = handler[h].document]
        PROVE  Recorded
    <3>1. /\ claims'[handler[h].key].state = "completed"
          /\ claims'[handler[h].key].response = handler[h].document
      BY <1>0, <2>3 DEF OwnClaim, ClaimRow
    <3>2. /\ handler[h].document \in documents' \cap storedUnder'[handler[h].key]
          /\ handler[h].document # NoDocument
      BY <1>0, <2>3, DocumentsGrow, DocumentsAssumption DEF RecordInv, Complete
    <3> QED BY <2>3, <3>1, <3>2, DocumentsGrow DEF RecordInv
  <2> QED BY <2>1, <2>2, <2>3, ClaimMoves
<1>3. ReplyIsRecorded'
  <2> SUFFICES ASSUME NEW g \in Handlers, handler'[g].reply = "201"
               PROVE  /\ claims'[handler'[g].key].state = "completed"
                      /\ claims'[handler'[g].key].response = handler'[g].answered
                      /\ handler'[g].answered \in documents'
    BY DEF ReplyIsRecorded, OwnClaim
  <2> DEFINE Kept == /\ handler[g].reply = "201" /\ handler'[g].key = handler[g].key
                     /\ handler'[g].answered = handler[g].answered
             Replayed == /\ OwnClaim(g).state = "completed" /\ OwnClaim(g).operation = DocumentsOperation
                         /\ Answer(g, "201", OwnClaim(g).response) /\ UNCHANGED <<claims, documents>>
  <2>1. CASE Kept
    <3>1. /\ claims[handler[g].key].state = "completed"
          /\ claims[handler[g].key].response = handler[g].answered
          /\ handler[g].answered \in documents
      BY <2>1 DEF RecordInv, ReplyIsRecorded, OwnClaim
    <3>2. claims'[handler[g].key] = claims[handler[g].key]
      BY <1>0, <3>1, ClaimMoves DEF OwnClaim, InFlight
    <3> QED BY <2>1, <3>1, <3>2, DocumentsGrow
  <2>2. CASE Complete(g) /\ InFlight(handler[g].key, DocumentsOperation)
    <3>1. /\ claims'[handler[g].key].state = "completed"
          /\ claims'[handler[g].key].response = handler[g].document
      BY <1>0, <2>2 DEF Complete, CompleteClaim, ClaimRow
    <3>2. handler'[g].key = handler[g].key /\ handler'[g].answered = handler[g].document
      BY <2>2, HandlerMoves DEF Complete
    <3>3. handler[g].document \in documents'  BY <2>2, DocumentsGrow DEF Complete, RecordInv
    <3> QED BY <3>1, <3>2, <3>3
  <2>3. CASE Replayed
    <3>1. OwnClaim(g).response \in documents
      BY <1>0, <2>3 DEF RecordInv, OwnClaim
    <3>2. handler'[g].key = handler[g].key /\ handler'[g].answered = OwnClaim(g).response
      BY <2>3, HandlerMoves
    <3> QED BY <2>3, <3>1, <3>2 DEF OwnClaim
  <2>4. Kept \/ (Complete(g) /\ InFlight(handler[g].key, DocumentsOperation)) \/ Replayed
    <3>1. CASE handler'[g] = handler[g]  BY <3>1
    <3>2. ASSUME Arrive(g) PROVE FALSE
      BY <1>0, <3>2 DEF Arrive, Answer, HandlerState
    <3>3. ASSUME Lookup(g) PROVE Kept \/ Replayed
      <4>1. CASE handler' = [handler EXCEPT ![g].pc = "insert", ![g].attempt = @ + 1]
        BY <1>0, <4>1 DEF HandlerState
      <4>2. CASE Answer(g, "409", NoDocument)  BY <4>2, HandlerMoves
      <4>3. CASE Replayed  BY <4>3
      <4> QED BY <3>3, <4>1, <4>2, <4>3 DEF Lookup, Vanished
    <3>4. ASSUME TryClaim(g) \/ StoreDocument(g) \/ StoreRejected(g) \/ StoreFails(g) PROVE Kept
      BY <3>4, HandlerMoves DEF TryClaim, StoreDocument, StoreRejected, StoreFails
    <3>5. ASSUME Complete(g) PROVE InFlight(handler[g].key, DocumentsOperation)
      BY <3>5, HandlerMoves DEF Complete
    <3>6. ASSUME Release(g) \/ Aborted(g) PROVE FALSE
      BY <3>6, HandlerMoves DEF Release, Aborted
    <3>7. ASSUME NEW h \in Handlers, h # g, Arrive(h) \/ Serve(h) \/ Aborted(h)
          PROVE  handler'[g] = handler[g]
      BY <1>0, <3>7 DEF Arrive, Serve, TryClaim, Lookup, Vanished, StoreDocument, StoreRejected, StoreFails,
            Complete, Release, Aborted, Answer, Proceed
    <3> QED BY <3>1, <3>2, <3>3, <3>4, <3>5, <3>6, <3>7
            DEF WriteNext, Serve, Settle, CreateDocumentV1, writeVars
  <2> QED BY <2>1, <2>2, <2>3, <2>4
<1> QED BY <1>1, <1>2, <1>3 DEF RecordInv

\* The inductive invariant holds of every reachable state.
THEOREM WriteInvHolds == WriteSpec => [](WriteTypeOK /\ WriteInv)
<1>1. WriteInit => WriteTypeOK /\ WriteInv  BY WriteTypeInit, WriteInvInit
<1>2. WriteTypeOK /\ WriteInv /\ [WriteNext]_writeVars => (WriteTypeOK /\ WriteInv)'
  BY WriteTypeStep, OwnershipStep, RecordStep DEF WriteInv
<1> QED BY <1>1, <1>2, PTL DEF WriteSpec

-----------------------------------------------------------------------------
\* The properties, for every set of keys, documents and handlers.

\* A set without two different members has one member at most.
LEMMA AtMostOne ==
    ASSUME NEW S, \A x, y \in S : x = y
    PROVE  Cardinality(S) <= 1
<1>1. CASE S = {}  BY <1>1, FS_EmptySet
<1>2. CASE S # {}
  <2>1. PICK x \in S : TRUE  BY <1>2
  <2>2. S = {x}  BY <2>1
  <2> QED BY <2>2, FS_Singleton
<1> QED BY <1>1, <1>2

\* However many duplicates arrive, one handler at a time performs the operation of a key.
THEOREM OneOwnerPerKeyHolds == WriteSpec => []OneOwnerPerKey
<1>1. WriteTypeOK /\ WriteInv => OneOwnerPerKey
  <2> SUFFICES ASSUME WriteInv, NEW k \in Keys PROVE Cardinality(Owners(k)) <= 1
    BY DEF OneOwnerPerKey
  <2>1. \A x, y \in Owners(k) : x = y  BY DEF WriteInv, OwnershipInv, Owners
  <2> QED BY <2>1, AtMostOne
<1> QED BY <1>1, WriteInvHolds, PTL

\* Every 201, first or replayed, is about a stored document and is the answer on record.
THEOREM ReplyIsRecordedHolds == WriteSpec => []ReplyIsRecorded
<1>1. WriteTypeOK /\ WriteInv => ReplyIsRecorded  BY DEF WriteInv, RecordInv
<1> QED BY <1>1, WriteInvHolds, PTL

\* The answer on record is about a document stored under the same key.
THEOREM AnswerIsOwnWriteHolds == WriteSpec => []AnswerIsOwnWrite
<1>1. WriteTypeOK /\ WriteInv => AnswerIsOwnWrite  BY DEF WriteInv, RecordInv, AnswerIsOwnWrite
<1> QED BY <1>1, WriteInvHolds, PTL

\* A claim in flight has an owner at work, unless its owner was stopped.
THEOREM NoOrphanedClaimHolds == WriteSpec => []NoOrphanedClaim
<1>1. WriteTypeOK /\ WriteInv => NoOrphanedClaim  BY DEF WriteInv, OwnershipInv
<1> QED BY <1>1, WriteInvHolds, PTL

\* Each step of the write is a step of the promise to its clients, or none.
LEMMA WriteOnceStep ==
    ASSUME WriteTypeOK, WriteInv, [WriteNext]_writeVars
    PROVE  [Once!StoreOne \/ Once!AnswerOne]_<<documents, [k \in Keys |-> claims[k].response]>>
<1> DEFINE answers == [k \in Keys |-> claims[k].response]
<1>0. /\ claims \in [Keys -> ClaimRow] /\ documents \subseteq Documents /\ undecided \subseteq Transactions
      /\ \A h \in Handlers : handler[h].key \in Keys /\ handler[h].document \in Documents
  BY DEF WriteTypeOK, StoreTypeOK, HandlerState
<1>1. CASE UNCHANGED claims
  <2>1. answers' = answers  BY <1>1
  <2>2. documents' = documents \/ \E d \in Documents \ documents : documents' = documents \cup {d}
    BY <1>0 DEF WriteNext, Serve, Arrive, TryClaim, Lookup, StoreDocument, StoreRejected, StoreFails,
                Complete, Release, Aborted, Settle, CreateDocumentV1, Transactions, writeVars
  <2> QED BY <2>1, <2>2 DEF Once!StoreOne
<1>2. ASSUME NEW h \in Handlers,
             \A k \in Keys : k # handler[h].key => claims'[k] = claims[k],
             \/ /\ TryClaim(h) /\ OwnClaim(h).state = "absent"
                /\ claims'[handler[h].key] = [state |-> "in_flight", operation |-> DocumentsOperation,
                                              response |-> NoDocument]
             \/ /\ Release(h) /\ InFlight(handler[h].key, DocumentsOperation)
                /\ claims'[handler[h].key] = NoClaim
      PROVE  UNCHANGED <<documents, answers>>
  <2>1. claims[handler[h].key].response = NoDocument /\ claims'[handler[h].key].response = NoDocument
    BY <1>0, <1>2 DEF WriteInv, RecordInv, OwnClaim, InFlight, NoClaim
  <2>2. \A k \in Keys : claims'[k].response = claims[k].response  BY <1>2, <2>1
  <2>3. UNCHANGED documents  BY <1>2 DEF TryClaim, Release
  <2> QED BY <2>2, <2>3
<1>3. ASSUME NEW h \in Handlers, Complete(h), InFlight(handler[h].key, DocumentsOperation),
             \A k \in Keys : k # handler[h].key => claims'[k] = claims[k],
             claims'[handler[h].key] = [OwnClaim(h) EXCEPT !.state = "completed",
                                                           !.response = handler[h].document]
      PROVE  Once!AnswerOne
  <2>1. claims'[handler[h].key].response = handler[h].document  BY <1>0, <1>3 DEF OwnClaim, ClaimRow
  <2>2. claims[handler[h].key].response = NoDocument
    BY <1>0, <1>3 DEF WriteInv, RecordInv, InFlight
  <2>3. handler[h].document \in documents /\ UNCHANGED documents
    BY <1>3 DEF WriteInv, RecordInv, Complete
  <2>4. answers' = [answers EXCEPT ![handler[h].key] = handler[h].document]
    BY <1>0, <1>3, <2>1
  <2> QED BY <1>0, <2>2, <2>3, <2>4 DEF Once!AnswerOne
<1> QED BY <1>1, <1>2, <1>3, ClaimMoves

\* The idempotent write implements its promise: a key is answered once, about a stored document,
\* for good.
THEOREM ImplementsWriteOnceHolds == WriteSpec => ImplementsWriteOnce
<1>1. WriteInit => Once!WriteOnceInit
  BY DEF WriteInit, StoreInit, NoClaim, Once!WriteOnceInit
<1>2. WriteTypeOK /\ WriteInv /\ [WriteNext]_writeVars =>
        [Once!StoreOne \/ Once!AnswerOne]_<<documents, [k \in Keys |-> claims[k].response]>>
  BY WriteOnceStep
<1> QED BY <1>1, <1>2, WriteInvHolds, PTL DEF WriteSpec, ImplementsWriteOnce, Once!WriteOnceSpec
=============================================================================
