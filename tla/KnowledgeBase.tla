------------------------------ MODULE KnowledgeBase ------------------------------
(***************************************************************************)
(* Searches while documents are created and loaded: the statements of one   *)
(* search interleave with the commits of CorpusIngestion.                   *)
(***************************************************************************)
EXTENDS CorpusIngestion, HybridRetrieval, StageAttribution

VARIABLE overtaken    \* ghost: searches during or after which the store changed
knowledgeVars == <<vars, search, overtaken>>

KnowledgeInit == Init /\ SearchInit /\ overtaken = {}

Write ==
    /\ Next
    /\ UNCHANGED search
    /\ overtaken' = IF storeVars' = storeVars THEN overtaken ELSE Searches

Read(s) ==
    /\ Search(s)
    /\ UNCHANGED vars
    /\ overtaken' = IF search[s].pc = "idle" THEN overtaken \ {s} ELSE overtaken

KnowledgeNext == Write \/ \E s \in Searches : Read(s)

KnowledgeSpec == KnowledgeInit /\ [][KnowledgeNext]_knowledgeVars

-----------------------------------------------------------------------------
(* Safety: when no writer commits during a search, its evidence is of one store: the pool is *)
(* exactly what the caller may read, the arms come from it with the rows as they are, and a  *)
(* readable chunk is missing from the dense arm only if the arm is full, with CANDIDATE_POOL *)
(* others (postgres_hybrid.py:158, :178, :212: three statements without a transaction).      *)
QuietEvidence ==
    \A s \in Searches : Answered(s) /\ s \notin overtaken =>
        LET answer == search[s].answer
            readable == {c \in ChunkIds : chunks[c] # Absent /\ Readable(Who(s), chunks[c].access)}
        IN /\ search[s].request.explain => answer.pool = readable
           /\ \A arm \in {answer.dense, answer.sparse} :
                 \A k \in arm : k.id \in readable /\ k.row = chunks[k.id]
           /\ readable \subseteq Ids(answer.dense) \/ Cardinality(answer.dense) = CandidatePool

(* Safety: on evidence of one store, the stage a miss is attributed to is never one the same *)
(* evidence clears; a miss is put down to authorization, or to no defect, exactly when the   *)
(* caller may not read the chunk; and it is put down to fusion only if top_k others came out *)
(* (attribution.py:271, :314).                                                               *)
MissAttributed ==
    \A s \in Searches : Answered(s) /\ s \notin overtaken /\ search[s].request.explain =>
        LET answer == search[s].answer IN
        \A r \in Releases : Wellformed(r) => \A target \in ChunkIds :
            LET id == target[1]
                seen == Observe(target, answer.pool, Ids(answer.dense), Ids(answer.sparse),
                                Ids(answer.results), answer.dropped)
                contradicted == ContradictsLabel(id, Corpus(r), CustodyFile[r])
                blamed == Attribute(seen, IsSplit(Corpus(r)[id]), contradicted)
            IN id \in Identifiers(r) /\ id \in DOMAIN CustodyFile[r] /\ chunks[target] # Absent =>
                 /\ blamed \notin RuledOut(seen, HasWholeChunk(Corpus(r)[id]), contradicted)
                 /\ ~seen.retrieved =>
                      (blamed \in {"authorization", "no defect"} <=> ~Readable(Who(s), chunks[target].access))
                 /\ blamed = "fusion" => Cardinality(answer.results) = search[s].request.topK
=============================================================================
