---------------------------- MODULE IdempotencyStore ----------------------------
(***************************************************************************)
(* The table idempotency_claims and the statements PostgresIdempotency-    *)
(* Store sends.  Each operator is one atomic SQL statement; claim is made  *)
(* of two of them and a bounded loop, which belong to the calling handler. *)
(***************************************************************************)
EXTENDS Naturals, FiniteSets

CONSTANTS Keys, Documents, NoDocument

ASSUME DocumentsAssumption == NoDocument \notin Documents

VARIABLE claims

OperationIds == {"documents_v2_create", "readings_v2_accept"}

\* "absent" stands for no row; a row is completed once completed_at is set.  The response
\* of a document write is named by the document it describes.
ClaimRow == [state     : {"absent", "in_flight", "completed"},
             operation : OperationIds \cup {"none"},
             response  : Documents \cup {NoDocument}]

NoClaim == [state |-> "absent", operation |-> "none", response |-> NoDocument]

StoreTypeOK == claims \in [Keys -> ClaimRow]

\* Keys may have been used before, with the other operation a deployment supports.
StoreInit ==
    claims \in [Keys -> {NoClaim} \cup
        [state : {"in_flight", "completed"}, operation : {"readings_v2_accept"}, response : {NoDocument}]]

InFlight(k, operation) == claims[k].state = "in_flight" /\ claims[k].operation = operation

\* Mutant of InsertClaim: ON CONFLICT DO UPDATE.
UpsertClaim(k, operation) ==
    claims' = [claims EXCEPT ![k] =
        [state |-> "in_flight", operation |-> operation, response |-> NoDocument]]

\* INSERT ... ON CONFLICT DO NOTHING RETURNING, when it inserts the row.
InsertClaim(k, operation) ==
    /\ claims[k].state = "absent"
    /\ claims' = [claims EXCEPT ![k] =
            [state |-> "in_flight", operation |-> operation, response |-> NoDocument]]

\* The same statement when the key has a row.
ClaimConflicts(k) == claims[k].state # "absent" /\ UNCHANGED claims

\* UPDATE ... WHERE completed_at IS NULL, when it finds this operation's row.
CompleteClaim(k, operation, document) ==
    /\ InFlight(k, operation)
    /\ claims' = [claims EXCEPT ![k].state = "completed", ![k].response = document]

\* DELETE ... WHERE completed_at IS NULL: of this operation's row, or of nothing.
ReleaseClaim(k, operation) ==
    claims' = IF InFlight(k, operation) THEN [claims EXCEPT ![k] = NoClaim] ELSE claims
=============================================================================
