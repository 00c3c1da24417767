---------------------------- MODULE StageAttribution ----------------------------
(***************************************************************************)
(* The supplied diagnostic: what one explained search response shows of a   *)
(* target chunk, what the committed corpus says of its split and custody,   *)
(* the stage a miss is attributed to and the stages the evidence clears.    *)
(***************************************************************************)
EXTENDS KnowledgeContracts, FiniteSets

CONSTANTS
    Terms,       \* content tokens of the query that a text holds, its title's included
    Custodian    \* the custodian a custody record names

MinimumSplitTerms == 2

\* Where one target chunk was seen, out of the four stages of a response.
Observe(target, pool, dense, sparse, results, dropped) ==
    [readable |-> target \in pool,
     inDense |-> target \in dense,
     inSparse |-> target \in sparse,
     reachedFusion |-> target \in results \cup dropped,
     retrieved |-> target \in results]

\* chunk_facts, over the chunks the committed body is split into.
SharedTerms(doc) == UNION {Terms[doc.body[n]] : n \in DOMAIN doc.body}

HasWholeChunk(doc) ==
    /\ Cardinality(SharedTerms(doc)) >= MinimumSplitTerms
    /\ \E n \in DOMAIN doc.body : SharedTerms(doc) \subseteq Terms[doc.body[n]]

IsSplit(doc) ==
    /\ Cardinality(SharedTerms(doc)) >= MinimumSplitTerms
    /\ ~\E n \in DOMAIN doc.body : SharedTerms(doc) \subseteq Terms[doc.body[n]]

\* custody_facts: the tenancies of the other documents of the same custodian.
Corroborating(id, corpus, custody) ==
    {other \in DOMAIN corpus \cap DOMAIN custody : other # id /\ Custodian[custody[other]] = Custodian[custody[id]]}

ContradictsLabel(id, corpus, custody) ==
    LET others == Corroborating(id, corpus, custody) IN
    others # {} /\ corpus[id].access.tenant \notin {corpus[o].access.tenant : o \in others}

\* Mutant of Attribute: the split is asked about before the authorization stage.
AttributeSplitFirst(seen, split, contradicted) ==
    IF seen.retrieved THEN "no miss"
    ELSE IF split THEN "chunking"
    ELSE IF ~seen.readable THEN IF contradicted THEN "authorization" ELSE "no defect"
    ELSE "fusion"

\* The order of the questions is the rule; "no miss" and "not isolated" raise.
Attribute(seen, split, contradicted) ==
    CASE seen.retrieved -> "no miss"
      [] ~seen.retrieved /\ ~seen.readable -> IF contradicted THEN "authorization" ELSE "no defect"
      [] ~seen.retrieved /\ seen.readable /\ ~seen.inDense /\ ~seen.inSparse ->
             IF split THEN "chunking" ELSE "not isolated"
      [] ~seen.retrieved /\ seen.readable /\ seen.inSparse /\ ~seen.inDense -> "embedding"
      [] ~seen.retrieved /\ seen.readable /\ seen.inDense /\ ~seen.inSparse -> "sparse matching"
      [] ~seen.retrieved /\ seen.readable /\ seen.inDense /\ seen.inSparse -> "fusion"

RuledOut(seen, whole, contradicted) ==
    {stage \in {"authorization", "chunking", "embedding", "sparse matching", "fusion"} :
        \/ stage = "authorization" /\ (seen.readable \/ ~contradicted)
        \/ stage = "chunking" /\ whole
        \/ stage = "embedding" /\ seen.inDense
        \/ stage = "sparse matching" /\ seen.inSparse
        \/ stage = "fusion" /\ seen.reachedFusion /\ seen.retrieved}
=============================================================================
