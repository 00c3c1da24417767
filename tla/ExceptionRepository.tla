-------------------------- MODULE ExceptionRepository --------------------------
(***************************************************************************)
(* The durable exception table and the operations PostgresExceptionRepo-   *)
(* sitory performs on it.  Each operator is one SQL statement, the unit    *)
(* PostgreSQL makes atomic; what a caller does between two of them belongs *)
(* to the caller's module.                                                 *)
(***************************************************************************)
EXTENDS ExceptionContracts

VARIABLE records

\* "ABSENT" stands for no row.  A summary is named by the reading it describes.
ExceptionRecord == [state   : ExceptionState \cup {"ABSENT"},
                    reading : Readings \cup {NoReading},
                    summary : Readings \cup {NoReading},
                    failure : FailureReason]

Absent == [state |-> "ABSENT", reading |-> NoReading, summary |-> NoReading, failure |-> "none"]

RepositoryTypeOK == records \in [ExceptionIds -> ExceptionRecord]

RepositoryInit == records = [e \in ExceptionIds |-> Absent]

StateOf(e) == records[e].state

\* INSERT ... ON CONFLICT DO NOTHING RETURNING *, when it returns the new row.
Insert(e, reading) ==
    /\ StateOf(e) = "ABSENT"
    /\ records' = [records EXCEPT ![e] = [Absent EXCEPT !.state = "RECEIVED", !.reading = reading]]

\* The same statement when the row is already there: nothing is written.
InsertConflicts(e) == StateOf(e) # "ABSENT" /\ UNCHANGED records

\* UPDATE ... WHERE exception_id = e AND state = ANY(expected), when it finds the row.
\* The summary survives a transition that brings none, the failure reason does not.
Transition(e, expected, target, summary, failure) ==
    /\ StateOf(e) \in expected
    /\ records' = [records EXCEPT ![e] =
            [state   |-> target,
             reading |-> @.reading,
             summary |-> IF summary = NoReading THEN @.summary ELSE summary,
             failure |-> failure]]

\* The same statement when it updates no row: the caller gets a StateConflict.
StateConflict(e, expected) == StateOf(e) \notin expected /\ UNCHANGED records
=============================================================================
