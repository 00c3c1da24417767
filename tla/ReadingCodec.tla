------------------------------ MODULE ReadingCodec ------------------------------
(***************************************************************************)
(* The values a reading goes through: the request body, redaction, the      *)
(* range test, the jsonb column and the queue payload, and the decoding of  *)
(* both.  ReadingIngress and ExceptionWorker take the payload as opaque;    *)
(* here the awaits between the steps are left out and the values are kept.  *)
(***************************************************************************)
EXTENDS Integers

CONSTANTS
    Temperatures,   \* what temperature_c may be
    Bounds,         \* what allowed_min_c and allowed_max_c may be
    ContextLimit,   \* max_length of context
    Growth,         \* by how much redaction may change the length of a context
    Nuls            \* where the text of a reading may hold U+0000

\* Binary floating point, coarsely: the infinities, and the value no comparison holds for.
NegInf == -100
PosInf == 100
NaN == 200
Float == -2..2 \cup {NegInf, PosInf, NaN}

ASSUME CodecAssumption ==
    /\ Temperatures \subseteq Float /\ Bounds \subseteq Float
    /\ ContextLimit \in Nat \ {0} /\ Growth \subseteq Int
    /\ Nuls \subseteq {"none", "marked", "kept"}

Leq(x, y) == x # NaN /\ y # NaN /\ x <= y
Finite(x) == x \in -2..2

\* A context is its length; markers says by how much redacting it changes that.  A U+0000 is
\* "marked" when it only stands in what redaction replaces, and "kept" in the rest of the
\* context or in an identifier.
Reading == [temperature : Temperatures, low : Bounds, high : Bounds,
            context : 0..ContextLimit, markers : Growth, nul : Nuls]

\* The length a context has after redaction, at least that of the placeholder it gained.
Redacted(reading) ==
    IF reading.context = 0 THEN reading
    ELSE [reading EXCEPT !.context = IF @ + reading.markers > 0 THEN @ + reading.markers ELSE 1, !.markers = 0,
                         !.nul = IF @ = "marked" THEN "none" ELSE @]

\* SensorReading: the field bounds and validate_range.
Valid(reading) == reading.context <= ContextLimit /\ ~Leq(reading.high, reading.low)

\* Mutant of RequiresException: the bounds themselves are out of range.
RequiresExceptionStrictly(reading) ==
    ~(Leq(reading.low, reading.temperature) /\ reading.low # reading.temperature
      /\ Leq(reading.temperature, reading.high) /\ reading.temperature # reading.high)

RequiresException(reading) ==
    ~(Leq(reading.low, reading.temperature) /\ Leq(reading.temperature, reading.high))

Null == 300

\* model_dump_json: what JSON has no number for becomes null.
Dump(reading) ==
    LET Json(x) == IF Finite(x) THEN x ELSE Null
    IN [reading EXCEPT !.temperature = Json(@), !.low = Json(@), !.high = Json(@)]

\* model_validate of a stored reading, model_validate_json of a job.
Decodes(payload) ==
    /\ Null \notin {payload.temperature, payload.low, payload.high}
    /\ Valid(payload)

VARIABLES
    reading,   \* what the client submits, once or again
    accepted,  \* the reading the ingress holds after redaction
    row,       \* exceptions.reading: {} or the stored payload
    state,     \* exceptions.state
    job,       \* the queue: {} or the payload
    reply,     \* the last answer to POST /api/v1/readings
    served,    \* the last answer to GET /api/v1/exceptions/{id}
    worker     \* what became of the job
vars == <<reading, accepted, row, state, job, reply, served, worker>>

CodecInit ==
    /\ reading \in Reading
    /\ reading.nul = "marked" => reading.context # 0
    /\ accepted = reading
    /\ row = {} /\ state = "ABSENT" /\ job = {}
    /\ reply = "none" /\ served = "none" /\ worker = "idle"

\* A body that the contract refuses, or a reading inside its range.
Refuse ==
    /\ ~Valid(reading) \/ ~RequiresException(Redacted(reading))
    /\ reply' = "422"
    /\ UNCHANGED <<reading, accepted, row, state, job, served, worker>>

\* The jsonb input: PostgreSQL has no text for the escape \u0000 and refuses the statement.
Stores(payload) == payload.nul # "kept"

\* Mutant of Persist: a submission inserts its row, whether or not there is one.
PersistEveryTime ==
    /\ Valid(reading) /\ RequiresException(Redacted(reading))
    /\ accepted' = Redacted(reading)
    /\ LET payload == Dump(Redacted(reading))
           inserted == row = {} /\ Stores(payload)
       IN /\ row' = IF inserted THEN {payload} ELSE row
          /\ state' = IF inserted THEN "RECEIVED" ELSE state
          /\ reply' = IF inserted /\ Decodes(payload) THEN "202" ELSE "500"
    /\ UNCHANGED <<reading, job, served, worker>>

\* accept up to the INSERT, or the first read of a retry; both decode the row.  A refused
\* statement raises, as a row that does not decode does.
Persist ==
    /\ Valid(reading) /\ RequiresException(Redacted(reading))
    /\ accepted' = Redacted(reading)
    /\ LET payload == Dump(Redacted(reading))
           inserted == row = {} /\ Stores(payload)
       IN /\ row' = IF inserted THEN {payload} ELSE row
          /\ state' = IF inserted THEN "RECEIVED" ELSE state
    /\ reply' = IF row' # {} /\ \A payload \in row' : Decodes(payload) THEN "202" ELSE "500"
    /\ UNCHANGED <<reading, job, served, worker>>

\* The transition to QUEUED, whose RETURNING decodes the row too, and the publication.
Publish ==
    /\ reply = "202" /\ state = "RECEIVED"
    /\ state' = "QUEUED"
    /\ job' = {Dump(accepted)}
    /\ UNCHANGED <<reading, accepted, row, reply, served, worker>>

\* GET: not found, the record, or an error while decoding it.
Get ==
    /\ served' = IF row = {} THEN "404" ELSE IF \A payload \in row : Decodes(payload) THEN "200" ELSE "500"
    /\ UNCHANGED <<reading, accepted, row, state, job, reply, worker>>

Consume ==
    /\ \E payload \in job : worker' = IF Decodes(payload) THEN "processed" ELSE "undecodable"
    /\ UNCHANGED <<reading, accepted, row, state, job, reply, served>>

Next == Refuse \/ Persist \/ Publish \/ Get \/ Consume

Spec == CodecInit /\ [][Next]_vars

-----------------------------------------------------------------------------
(* Safety: whatever was submitted, a payload that the worker or the client can decode is the  *)
(* reading that was accepted, and it is out of its range still: the range test before the    *)
(* row is written and the decoding after it agree, the non-finite numbers and a reading on   *)
(* its bounds included (domain/exceptions.py:21, postgres.py:120, redis_streams.py:46).      *)
AcceptedRoundTrips ==
    \A payload \in row \cup job : Decodes(payload) =>
        /\ payload = Redacted(reading)
        /\ payload.temperature < payload.low \/ payload.temperature > payload.high

\* Nothing of the reading is lost, or refused, on its way to the column.
Lossless ==
    /\ Finite(reading.temperature) /\ Finite(reading.low) /\ Finite(reading.high)
    /\ Redacted(reading).context <= ContextLimit
    /\ Redacted(reading).nul # "kept"

(* What the repository promises of an accepted reading ("Insert one identity or return the   *)
(* record won by a concurrent caller", postgres.py:48; "Return the durable state of one      *)
(* exception workflow", routes.py:246): a row that was inserted can be read again.           *)
RecordIsServed == reply # "500" /\ served # "500" /\ worker # "undecodable"

(* Safety: three things and no others stand between a valid reading that is out of its range  *)
(* and its record: a number that JSON has none for, a context that redaction made too long,  *)
(* and a U+0000 that redaction left, which the column refuses.  Every other such reading is  *)
(* stored as redacted, answered, served and handed to the worker, on its first submission    *)
(* and on every retry (postgres.py:59, :120).                                                *)
LosslessIsServed ==
    Lossless => /\ RecordIsServed
                /\ reply = "202" => row = {Redacted(reading)}
=============================================================================
