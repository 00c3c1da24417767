--------------------------- MODULE ReadingCodecProofs ---------------------------
(***************************************************************************)
(* Machine-checked theorems about ReadingCodec: what a stored or queued     *)
(* payload can be, and which readings are always served again.              *)
(***************************************************************************)
EXTENDS ReadingCodec, TLAPS

-----------------------------------------------------------------------------
\* The values.

(* Redaction changes nothing of a reading but its text.                                      *)
LEMMA RedactedFields ==
    ASSUME NEW r \in Reading
    PROVE  /\ Redacted(r).temperature = r.temperature
           /\ Redacted(r).low = r.low /\ Redacted(r).high = r.high
           /\ Redacted(r).context \in Nat
           /\ Redacted(r) = [temperature |-> r.temperature, low |-> r.low, high |-> r.high,
                             context |-> Redacted(r).context, markers |-> Redacted(r).markers,
                             nul |-> Redacted(r).nul]
<1>1. r = [temperature |-> r.temperature, low |-> r.low, high |-> r.high,
           context |-> r.context, markers |-> r.markers, nul |-> r.nul]
  BY DEF Reading
<1>2. r.context \in Nat /\ r.markers \in Int
  <2>1. r.context \in 0..ContextLimit /\ r.markers \in Growth  BY DEF Reading
  <2>2. ContextLimit \in Nat /\ Growth \subseteq Int  BY CodecAssumption
  <2>3. r.context \in Nat  BY <2>1, <2>2
  <2>4. r.markers \in Int  BY <2>1, <2>2
  <2> QED BY <2>3, <2>4
<1> DEFINE n == IF r.context + r.markers > 0 THEN r.context + r.markers ELSE 1
           u == IF r.nul = "marked" THEN "none" ELSE r.nul
<1>3. n \in Nat  BY <1>2
<1>4. CASE r.context = 0
  <2>1. Redacted(r) = r  BY <1>4 DEF Redacted
  <2> QED BY <1>1, <1>2, <2>1
<1>5. CASE r.context # 0
  <2>1. Redacted(r) = [temperature |-> r.temperature, low |-> r.low, high |-> r.high,
                       context |-> n, markers |-> 0, nul |-> u]
    BY <1>1, <1>5 DEF Redacted
  <2> QED BY <1>3, <2>1
<1> QED BY <1>4, <1>5

(* Encoding loses exactly the numbers JSON has no form for.                                  *)
LEMMA DumpFields ==
    ASSUME NEW r \in Reading
    PROVE  LET d == Dump(Redacted(r))
               Json(x) == IF Finite(x) THEN x ELSE Null
           IN /\ d.temperature = Json(r.temperature) /\ d.low = Json(r.low) /\ d.high = Json(r.high)
              /\ d.context = Redacted(r).context
              /\ Finite(r.temperature) /\ Finite(r.low) /\ Finite(r.high) => d = Redacted(r)
<1> DEFINE s == Redacted(r)
           Json(x) == IF Finite(x) THEN x ELSE Null
<1>1. /\ s = [temperature |-> r.temperature, low |-> r.low, high |-> r.high,
              context |-> s.context, markers |-> s.markers, nul |-> s.nul]
  BY RedactedFields
<1> DEFINE c == s.context
           k == s.markers
           u == s.nul
<1> HIDE DEF s, c, k, u
<1>2. Dump(s) = [temperature |-> Json(r.temperature), low |-> Json(r.low), high |-> Json(r.high),
                 context |-> c, markers |-> k, nul |-> u]
  <2> DEFINE a == Json(r.temperature)
             b == Json(r.low)
             d == Json(r.high)
             y == [s EXCEPT !.temperature = a]
             z == [y EXCEPT !.low = b]
  <2>1. s.temperature = r.temperature /\ s.low = r.low /\ s.high = r.high  BY <1>1
  <2>2. Dump(s) = [s EXCEPT !.temperature = a, !.low = b, !.high = d]  BY <2>1 DEF Dump
  <2> HIDE DEF a, b, d
  <2>3. y = [temperature |-> a, low |-> r.low, high |-> r.high, context |-> c, markers |-> k, nul |-> u]
    BY <1>1 DEF c, k, u
  <2>4. z = [temperature |-> a, low |-> b, high |-> r.high, context |-> c, markers |-> k, nul |-> u]
    <3> HIDE DEF y
    <3> QED BY <2>3
  <2>5. [z EXCEPT !.high = d] = [temperature |-> a, low |-> b, high |-> d, context |-> c, markers |-> k, nul |-> u]
    <3> HIDE DEF z
    <3> QED BY <2>4
  <2> QED BY <2>2, <2>5 DEF a, b, d
<1>3. Finite(r.temperature) /\ Finite(r.low) /\ Finite(r.high) => Dump(s) = s
  BY <1>1, <1>2 DEF c, k, u
<1> QED BY <1>2, <1>3 DEF s, c

\* A null is no number, and a finite number is neither null nor NaN.
LEMMA NullIsNoNumber == ~Finite(Null) /\ \A x : Finite(x) => x # Null /\ x \in Int /\ x # NaN
BY DEF Finite, Null, NaN

(* Whatever decodes was finite, so it is the redacted reading itself.                        *)
LEMMA DecodesLossless ==
    ASSUME NEW r \in Reading, Decodes(Dump(Redacted(r)))
    PROVE  /\ Finite(r.temperature) /\ Finite(r.low) /\ Finite(r.high)
           /\ Dump(Redacted(r)) = Redacted(r)
BY DumpFields DEF Decodes

(* A reading that was valid, is finite and is short enough after redaction decodes.          *)
LEMMA LosslessDecodes ==
    ASSUME NEW r \in Reading, Valid(r), Finite(r.temperature), Finite(r.low), Finite(r.high),
           Redacted(r).context <= ContextLimit
    PROVE  Decodes(Dump(Redacted(r)))
<1>1. Dump(Redacted(r)) = Redacted(r)  BY DumpFields
<1>2. /\ Redacted(r).temperature = r.temperature
      /\ Redacted(r).low = r.low /\ Redacted(r).high = r.high
  BY RedactedFields
<1>3. Null \notin {r.temperature, r.low, r.high}  BY NullIsNoNumber
<1>4. Valid(Redacted(r))  BY <1>2 DEF Valid
<1> QED BY <1>1, <1>2, <1>3, <1>4 DEF Decodes

-----------------------------------------------------------------------------
\* The inductive invariant.

Stored == Dump(Redacted(reading))

(* The row and the job hold the one encoding of the one submitted reading, which passed both *)
(* tests before it was stored; and an error is always that the column refuses this encoding  *)
(* or that it does not decode.                                                               *)
CodecInv ==
    /\ reading \in Reading
    /\ row \subseteq {Stored} /\ job \subseteq {Stored}
    /\ row # {} => Valid(reading) /\ RequiresException(Redacted(reading)) /\ accepted = Redacted(reading)
    /\ state = "RECEIVED" \/ job # {} => row # {}
    /\ reply = "202" => row # {}
    /\ ~RecordIsServed => Valid(reading) /\ ~(Decodes(Stored) /\ Stores(Stored))

\* Nothing is stored at first.
LEMMA CodecInvInit == CodecInit => CodecInv
BY DEF CodecInit, CodecInv, RecordIsServed

\* Each step stores or reads the one encoding.
LEMMA CodecInvStep == CodecInv /\ [Next]_vars => CodecInv'
<1> SUFFICES ASSUME CodecInv, [Next]_vars PROVE CodecInv'
  OBVIOUS
<1>1. CASE UNCHANGED vars  BY <1>1 DEF vars, CodecInv, Stored, RecordIsServed
<1>2. CASE Refuse  BY <1>2 DEF Refuse, CodecInv, Stored, RecordIsServed
<1>3. CASE Persist
  <2>1. /\ reading' = reading /\ job' = job /\ served' = served /\ worker' = worker
        /\ Valid(reading) /\ RequiresException(Redacted(reading)) /\ accepted' = Redacted(reading)
    BY <1>3 DEF Persist
  <2>2. /\ row' = IF row = {} /\ Stores(Stored) THEN {Stored} ELSE row
        /\ state' = IF row = {} /\ Stores(Stored) THEN "RECEIVED" ELSE state
        /\ reply' = IF row' # {} /\ \A payload \in row' : Decodes(payload) THEN "202" ELSE "500"
    BY <1>3 DEF Persist, Stored
  <2>3. row' \subseteq {Stored} /\ (row # {} => row' # {})  BY <2>2 DEF CodecInv
  <2>4. state' = "RECEIVED" \/ job' # {} => row' # {}  BY <2>1, <2>2 DEF CodecInv
  <2>5. reply' = "202" => row' # {}  BY <2>2
  <2>6. reply' = "500" => ~(Decodes(Stored) /\ Stores(Stored))
    BY <2>2, <2>3 DEF CodecInv
  <2>7. (~RecordIsServed)' => ~(Decodes(Stored) /\ Stores(Stored))
    BY <2>1, <2>6 DEF RecordIsServed, CodecInv
  <2>8. Stored' = Stored  BY <2>1 DEF Stored
  <2> QED BY <2>1, <2>3, <2>4, <2>5, <2>7, <2>8 DEF CodecInv
<1>4. CASE Publish
  <2>1. /\ UNCHANGED <<reading, accepted, row, reply, served, worker>>
        /\ state = "RECEIVED" /\ state' = "QUEUED" /\ job' = {Dump(accepted)}
    BY <1>4 DEF Publish
  <2>2. row # {} /\ job' = {Stored}  BY <2>1 DEF CodecInv, Stored
  <2>3. Stored' = Stored /\ RecordIsServed' = RecordIsServed  BY <2>1 DEF Stored, RecordIsServed
  <2> QED BY <2>1, <2>2, <2>3 DEF CodecInv
<1>5. CASE Get
  <2>1. UNCHANGED <<reading, accepted, row, state, job, reply, worker>>  BY <1>5 DEF Get
  <2>2. served' = "500" => Valid(reading) /\ ~Decodes(Stored)
    BY <1>5 DEF Get, CodecInv
  <2>3. (~RecordIsServed)' => Valid(reading) /\ ~(Decodes(Stored) /\ Stores(Stored))
    BY <2>1, <2>2 DEF RecordIsServed, CodecInv
  <2>4. Stored' = Stored  BY <2>1 DEF Stored
  <2> QED BY <2>1, <2>3, <2>4 DEF CodecInv
<1>6. CASE Consume
  <2>1. UNCHANGED <<reading, accepted, row, state, job, reply, served>>  BY <1>6 DEF Consume
  <2>2. worker' = "undecodable" => Valid(reading) /\ ~Decodes(Stored)
    BY <1>6 DEF Consume, CodecInv
  <2>3. (~RecordIsServed)' => Valid(reading) /\ ~(Decodes(Stored) /\ Stores(Stored))
    BY <2>1, <2>2 DEF RecordIsServed, CodecInv
  <2>4. Stored' = Stored  BY <2>1 DEF Stored
  <2> QED BY <2>1, <2>3, <2>4 DEF CodecInv
<1> QED BY <1>1, <1>2, <1>3, <1>4, <1>5, <1>6 DEF Next

\* So it holds of every reachable state.
LEMMA CodecInvariant == Spec => []CodecInv
BY CodecInvInit, CodecInvStep, PTL DEF Spec

-----------------------------------------------------------------------------
(* Whatever the bounds, the temperature and the length of the context, a payload that the    *)
(* worker or the client can decode is the accepted reading and is still out of its range     *)
(* (domain/exceptions.py:21, postgres.py:120, redis_streams.py:46).                          *)
THEOREM AcceptedAlwaysRoundTrips == Spec => []AcceptedRoundTrips
<1>1. CodecInv => AcceptedRoundTrips
  <2> SUFFICES ASSUME CodecInv, NEW payload \in row \cup job, Decodes(payload)
               PROVE  /\ payload = Redacted(reading)
                      /\ payload.temperature < payload.low \/ payload.temperature > payload.high
    BY DEF AcceptedRoundTrips
  <2>1. /\ reading \in Reading /\ payload = Dump(Redacted(reading))
        /\ RequiresException(Redacted(reading))
    BY DEF CodecInv, Stored
  <2>2. /\ Finite(reading.temperature) /\ Finite(reading.low) /\ Finite(reading.high)
        /\ payload = Redacted(reading)
    BY <2>1, DecodesLossless
  <2>3. /\ payload.temperature = reading.temperature
        /\ payload.low = reading.low /\ payload.high = reading.high
    BY <2>1, <2>2, RedactedFields
  <2>4. \/ ~(payload.low <= payload.temperature) \/ ~(payload.temperature <= payload.high)
    BY <2>1, <2>2, <2>3, NullIsNoNumber DEF RequiresException, Leq
  <2>5. payload.temperature \in Int /\ payload.low \in Int /\ payload.high \in Int
    BY <2>2, <2>3, NullIsNoNumber
  <2> QED BY <2>2, <2>4, <2>5
<1> QED BY <1>1, CodecInvariant, PTL

(* Every reading of finite numbers whose text redaction leaves short enough and without a     *)
(* U+0000 is served and handed to the worker, and an answer of 202 means that it is in its   *)
(* row just as it was redacted (postgres.py:59, :120).                                       *)
THEOREM LosslessAlwaysServed == Spec => []LosslessIsServed
<1>1. CodecInv => LosslessIsServed
  <2> SUFFICES ASSUME CodecInv, Lossless
               PROVE  RecordIsServed /\ (reply = "202" => row = {Redacted(reading)})
    BY DEF LosslessIsServed
  <2>1. /\ reading \in Reading
        /\ Finite(reading.temperature) /\ Finite(reading.low) /\ Finite(reading.high)
        /\ Redacted(reading).context <= ContextLimit /\ Redacted(reading).nul # "kept"
    BY DEF CodecInv, Lossless
  <2>2. Stored = Redacted(reading)  BY <2>1, DumpFields DEF Stored
  <2>3. Stores(Stored)  BY <2>1, <2>2 DEF Stores
  <2>4. Valid(reading) => Decodes(Stored)  BY <2>1, LosslessDecodes DEF Stored
  <2>5. RecordIsServed  BY <2>3, <2>4 DEF CodecInv
  <2>6. reply = "202" => row = {Redacted(reading)}  BY <2>2 DEF CodecInv
  <2> QED BY <2>5, <2>6
<1> QED BY <1>1, CodecInvariant, PTL
=============================================================================
