-------------------------------- MODULE JobQueue --------------------------------
(***************************************************************************)
(* The Redis stream, its consumer group and the commands RedisJobQueue     *)
(* sends.  stream keeps every entry ever added, in stream order, with the  *)
(* part of the group's pending list that concerns it.  The consumer that   *)
(* owns a pending entry is left out: no command the adapter sends depends  *)
(* on it.                                                                  *)
(***************************************************************************)
EXTENDS ExceptionContracts, Sequences

VARIABLES stream, group
queueVars == <<stream, group>>

\* new: not yet delivered    pending: delivered, younger than the stale threshold
\* idle: delivered, stale    acked: acknowledged    gone: flushed with the stream
EntryStatus == {"new", "pending", "idle", "acked", "gone"}

Entry == [exception_id : ExceptionIds, reading : Readings, times : Nat, status : EntryStatus]

QueueTypeOK == stream \in Seq(Entry) /\ group \in BOOLEAN

QueueInit == stream = << >> /\ group = FALSE

Messages == DOMAIN stream

WithStatus(status) == {m \in Messages : stream[m].status = status}

\* An entry that is neither acknowledged nor flushed can still be delivered.
Deliverable(m) == stream[m].status \in {"new", "pending", "idle"}

\* XADD: one new entry at the end of the stream.
XAdd(e, reading) ==
    stream' = Append(stream, [exception_id |-> e, reading |-> reading, times |-> 0, status |-> "new"])

\* One entry of the stream or of the pending list changes.
Rewrite(m, entry) == stream' = [stream EXCEPT ![m] = entry]

\* XREADGROUP ... ">" COUNT 1: deliver m if it is the oldest entry never delivered.
XReadGroup(m) ==
    /\ group
    /\ m \in WithStatus("new")
    /\ \A n \in WithStatus("new") : m <= n
    /\ Rewrite(m, [stream[m] EXCEPT !.status = "pending", !.times = 1])

\* XAUTOCLAIM 0-0 COUNT 1: take over m if it is the oldest stale entry, count the delivery.
XAutoClaim(m) ==
    /\ group
    /\ m \in WithStatus("idle")
    /\ \A n \in WithStatus("idle") : m <= n
    /\ Rewrite(m, [stream[m] EXCEPT !.status = "pending", !.times = @ + 1])

\* XPENDING for one entry: its delivery count, or 1 when it is no longer pending.
TimesDelivered(m) == IF stream[m].status \in {"pending", "idle"} THEN stream[m].times ELSE 1

\* XACK: a pending entry leaves the pending list; any other is left alone.
XAck(m) ==
    IF stream[m].status \in {"pending", "idle"}
    THEN Rewrite(m, [stream[m] EXCEPT !.status = "acked"])
    ELSE UNCHANGED stream

\* minimum_idle_ms passes without a delivery of m, whoever holds it.
GrowIdle(m) ==
    /\ m \in WithStatus("pending")
    /\ Rewrite(m, [stream[m] EXCEPT !.status = "idle"])
    /\ UNCHANGED group
=============================================================================
