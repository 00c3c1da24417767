----------------------------- MODULE HybridRetrieval -----------------------------
(***************************************************************************)
(* One search: the composed constraint, the readable pool when the caller   *)
(* asks for it, the two arms, fusion, the selection that goes downstream    *)
(* and the prompt context.  Each SQL statement takes a connection of its    *)
(* own from the pool, so what is stored may change between them.            *)
(***************************************************************************)
EXTENDS DocumentStore, FiniteSets, Functions

CONSTANTS
    Searches,        \* concurrent requests
    Requests,        \* what callers may ask: [kind, who, explain, topK, weight]
    Distance,        \* cosine distance of a text from the query, as an order
    Relevance,       \* full-text rank of a text for the query, 0 when it does not match
    WordCount,       \* words of a text
    CandidatePool,   \* rows each arm fetches
    CitationLimit,   \* documents that may be cited
    TokenBudget      \* words of the prompt context

\* The weight of the dense arm in tenths.
WeightUnit == 10

Request == [kind : {"search", "experiment"}, who : AuthorizationContext, explain : BOOLEAN,
            topK : Nat \ {0}, weight : 0..WeightUnit]

ASSUME RetrievalAssumption ==
    /\ Requests \subseteq Request
    /\ \A q \in Requests : q.kind = "experiment" => ~q.explain
    /\ Distance \in [Texts -> Nat] /\ Relevance \in [Texts -> Nat]
    /\ WordCount \in [Texts -> Nat \ {0}]
    /\ CandidatePool \in Nat \ {0} /\ CitationLimit \in Nat \ {0} /\ TokenBudget \in Nat \ {0}

VARIABLE search

RankConstant == 60

\* A candidate: its place in the ranking of a stage, and the row as the statement read it.
Candidate == [id : ChunkIds, rank : Nat \ {0}, row : ChunkRow]

Ids(ranking) == {k.id : k \in ranking}

NoContext == [blocks |-> {}, used |-> 0]

-----------------------------------------------------------------------------
\* Rankings: a candidate's place is one more than the number of those before it.
IdBefore(c, d) == c[1] < d[1] \/ (c[1] = d[1] /\ c[2] < d[2])

Place(c, S, Before(_, _)) == 1 + Cardinality({d \in S : Before(d, c)})

Best(S, limit, Before(_, _)) == {c \in S : Place(c, S, Before) <= limit}

\* ORDER BY distance, chunk_id and ORDER BY score DESC, chunk_id.
Nearer(c, d) ==
    LET dc == Distance[chunks[c].text]
        dd == Distance[chunks[d].text]
    IN dc < dd \/ (dc = dd /\ IdBefore(c, d))

MoreRelevant(c, d) ==
    LET rc == Relevance[chunks[c].text]
        rd == Relevance[chunks[d].text]
    IN rc > rd \/ (rc = rd /\ IdBefore(c, d))

\* Mutant of DenseArm: the nearest rows are fetched first and filtered afterwards.
DenseArmFiltersLate(who) ==
    LET stored == {c \in ChunkIds : chunks[c] # Absent}
        kept == Best(stored, CandidatePool, Nearer) \cap Fetchable(Constrain(who))
    IN {[id |-> c, rank |-> Place(c, kept, Nearer), row |-> chunks[c]] : c \in kept}

DenseArm(who) ==
    LET pool == Fetchable(Constrain(who)) IN
    {[id |-> c, rank |-> Place(c, pool, Nearer), row |-> chunks[c]] : c \in Best(pool, CandidatePool, Nearer)}

\* Mutant of SparseArm: the text search goes over every row.
SparseArmUnscoped(who) ==
    LET matching == {c \in ChunkIds : chunks[c] # Absent /\ Relevance[chunks[c].text] > 0} IN
    {[id |-> c, rank |-> Place(c, matching, MoreRelevant), row |-> chunks[c]] :
        c \in Best(matching, CandidatePool, MoreRelevant)}

SparseArm(who) ==
    LET matching == {c \in Fetchable(Constrain(who)) : Relevance[chunks[c].text] > 0} IN
    {[id |-> c, rank |-> Place(c, matching, MoreRelevant), row |-> chunks[c]] :
        c \in Best(matching, CandidatePool, MoreRelevant)}

-----------------------------------------------------------------------------
\* Weighted reciprocal rank as a fraction <<numerator, denominator>>.
Share(arm, c, weight) ==
    IF c \in Ids(arm) THEN <<weight, RankConstant + (CHOOSE k \in arm : k.id = c).rank>> ELSE <<0, 1>>

\* Mutant of Score: a candidate of both arms keeps the share of the second one.
ScoreOverwritten(dense, sparse, weight, c) ==
    IF c \in Ids(sparse) THEN Share(sparse, c, WeightUnit - weight) ELSE Share(dense, c, weight)

Score(dense, sparse, weight, c) ==
    LET d == Share(dense, c, weight)
        s == Share(sparse, c, WeightUnit - weight)
    IN <<d[1] * s[2] + s[1] * d[2], d[2] * s[2]>>

Outscores(c, d, dense, sparse, weight) ==
    LET x == Score(dense, sparse, weight, c)
        y == Score(dense, sparse, weight, d)
    IN x[1] * y[2] > y[1] * x[2] \/ (x[1] * y[2] = y[1] * x[2] /\ IdBefore(c, d))

\* The dense arm is seen first, so its row is the one a candidate of both arms keeps.
Seen(dense, sparse) == dense \cup {k \in sparse : k.id \notin Ids(dense)}

\* Mutant of Fuse: the row of the later statement wins.
FuseLaterRow(dense, sparse, weight, topK) ==
    LET Before(k, l) == Outscores(k.id, l.id, dense, sparse, weight)
        seen == Seen(sparse, dense)
    IN {[k EXCEPT !.rank = Place(k, seen, Before)] : k \in Best(seen, topK, Before)}

Fuse(dense, sparse, weight, topK) ==
    LET Before(k, l) == Outscores(k.id, l.id, dense, sparse, weight)
        seen == Seen(dense, sparse)
    IN {[k EXCEPT !.rank = Place(k, seen, Before)] : k \in Best(seen, topK, Before)}

-----------------------------------------------------------------------------
Better(k, l) == k.rank < l.rank

\* At most one chunk per document, its best, and at most CitationLimit of them.
Select(results) ==
    LET best == {k \in results : ~\E l \in results : l.id[1] = k.id[1] /\ Better(l, k)}
    IN {k \in best : Cardinality({l \in best : Better(l, k)}) < CitationLimit}

Words(candidates) == FoldFunction(+, 0, [k \in candidates |-> WordCount[k.row.text]])

\* Mutant of Assemble: a block that does not fit goes in untrimmed.
AssembleUntrimmed(selected) ==
    LET included == {k \in selected : Words({l \in selected : Better(l, k)}) < TokenBudget}
    IN [blocks |-> {[id |-> k.id, words |-> WordCount[k.row.text]] : k \in included},
        used |-> Words(included)]

\* Blocks in rank order until the budget is spent, the one that does not fit trimmed to it.
Assemble(selected) ==
    LET Remaining(k) == TokenBudget - Words({l \in selected : Better(l, k)})
        Trimmed(k) == IF WordCount[k.row.text] <= Remaining(k) THEN WordCount[k.row.text] ELSE Remaining(k)
        included == {k \in selected : Remaining(k) > 0}
    IN [blocks |-> {[id |-> k.id, words |-> Trimmed(k)] : k \in included},
        used |-> FoldFunction(+, 0, [k \in included |-> Trimmed(k)])]

-----------------------------------------------------------------------------
NoAnswer(code) ==
    [status |-> code, pool |-> {}, dense |-> {}, sparse |-> {}, results |-> {},
     dropped |-> {}, enforced |-> FALSE, context |-> NoContext]

\* What the caller of a search or of a measurement gets.
Respond(request, pool, dense, sparse) ==
    LET results == Fuse(dense, sparse, request.weight, request.topK) IN
    [status |-> "200", pool |-> pool, dense |-> dense, sparse |-> sparse, results |-> results,
     dropped |-> Ids(dense \cup sparse) \ Ids(results), enforced |-> Restricts(Constrain(request.who)),
     context |-> IF request.kind = "search" THEN Assemble(Select(results)) ELSE NoContext]

Idle(request, answer) ==
    [pc |-> "idle", request |-> request, pool |-> {}, dense |-> {}, answer |-> answer]

SearchInit == search \in {[s \in Searches |-> Idle(q, NoAnswer("none"))] : q \in Requests}

\* Without explain the authorization stage asks PostgreSQL nothing.
Ask(s) ==
    /\ search[s].pc = "idle"
    /\ \E q \in Requests :
          search' = [search EXCEPT ![s] =
              [Idle(q, NoAnswer("none")) EXCEPT !.pc = IF q.explain THEN "authorize" ELSE "dense"]]

QueryPool(s) ==
    /\ search[s].pc = "authorize"
    /\ search' = [search EXCEPT ![s].pc = "dense",
                                ![s].pool = Fetchable(Constrain(search[s].request.who))]

QueryDense(s) ==
    /\ search[s].pc = "dense"
    /\ search' = [search EXCEPT ![s].pc = "sparse", ![s].dense = DenseArm(search[s].request.who)]

QuerySparse(s) ==
    /\ search[s].pc = "sparse"
    /\ LET request == search[s].request IN
       search' = [search EXCEPT ![s] =
           Idle(request, Respond(request, search[s].pool, search[s].dense, SparseArm(request.who)))]

\* PostgreSQL rejects a statement or cannot be reached; only the pool query leaves the second
\* case to the generic handler.
QueryFails(s) ==
    /\ search[s].pc # "idle"
    /\ \E code \in {"503"} \cup (IF search[s].pc = "authorize" THEN {"500"} ELSE {}) :
          search' = [search EXCEPT ![s] = Idle(search[s].request, NoAnswer(code))]

StatementEnds(s) == QueryFails(s) \/ QueryPool(s) \/ QueryDense(s) \/ QuerySparse(s)

Search(s) == Ask(s) \/ StatementEnds(s)

-----------------------------------------------------------------------------
Answered(s) == search[s].pc = "idle" /\ search[s].answer.status = "200"

Who(s) == search[s].request.who

(* Safety: no row that reaches an answer is outside its caller's tenancy or above its        *)
(* clearance as the domain rule defines them (domain/repositories.py:39), in the arms, in    *)
(* the results and through them in the prompt context, although the retriever never calls    *)
(* that rule: it filters by the composed constraint, turned into SQL (postgres_hybrid.py:91).*)
ResultsReadable ==
    \A s \in Searches :
        /\ \A k \in search[s].dense : Readable(Who(s), k.row.access)
        /\ \A arm \in {search[s].answer.dense, search[s].answer.sparse, search[s].answer.results} :
              \A k \in arm : Readable(Who(s), k.row.access)
        /\ Answered(s) => search[s].answer.enforced

(* Safety: the evidence accounts for every candidate: what fusion admitted and dropped is    *)
(* what the arms returned, it dropped only what top_k left no room for, and the row a result *)
(* shows is the one the first arm that returned it had read, even if it changed in between   *)
(* (postgres_hybrid.py:116, fusion.py:49).  A search that a later statement fails shows      *)
(* nothing of what the earlier ones returned.                                                *)
EvidenceAccounts ==
    \A s \in Searches :
        LET answer == search[s].answer
            reached == Ids(answer.dense \cup answer.sparse)
            count == Cardinality(answer.results)
        IN /\ ~Answered(s) => answer = NoAnswer(answer.status)
           /\ Answered(s) =>
                 /\ Ids(answer.results) \cup answer.dropped = reached
                 /\ Ids(answer.results) \cap answer.dropped = {}
                 /\ count = Cardinality(Ids(answer.results))
                 /\ count <= search[s].request.topK
                 /\ count < search[s].request.topK => answer.dropped = {}
                 /\ {k.rank : k \in answer.results} = 1..count
                 /\ \A k \in answer.results :
                       \E l \in IF k.id \in Ids(answer.dense) THEN answer.dense ELSE answer.sparse :
                           l.id = k.id /\ l.row = k.row

\* d is at least as good as c in every arm that has weight, and better in one.
Dominates(d, c, answer, weight) ==
    LET AtLeast(arm) == \A k \in arm : k.id = c => \E l \in arm : l.id = d /\ l.rank <= k.rank
        Ahead(arm) == \E l \in arm : l.id = d /\ \A k \in arm : k.id = c => l.rank < k.rank
    IN /\ weight > 0 => AtLeast(answer.dense)
       /\ weight < WeightUnit => AtLeast(answer.sparse)
       /\ (weight > 0 /\ Ahead(answer.dense)) \/ (weight < WeightUnit /\ Ahead(answer.sparse))

(* Safety: fusion never puts a candidate before one that dominates it, whatever the weight,  *)
(* nor drops the dominating one for it; with all the weight on one arm the order is that     *)
(* arm's (domain/fusion.py:44).                                                              *)
FusionOrder ==
    \A s \in Searches : Answered(s) =>
        LET answer == search[s].answer IN
        \A k \in answer.results, d \in Ids(answer.dense \cup answer.sparse) :
            Dominates(d, k.id, answer, search[s].request.weight) =>
                \E l \in answer.results : l.id = d /\ Better(l, k)

(* Safety: the prompt context keeps to the budget and to one block per document, leaves a    *)
(* better ranked document out for no worse one, and leaves room unused only when everything  *)
(* selected fitted (api/retrieval_workflow.py:133, :152; domain/services.py:98).             *)
ContextFits ==
    \A s \in Searches : Answered(s) /\ search[s].request.kind = "search" =>
        LET results == search[s].answer.results
            context == search[s].answer.context
            cited == {k \in results : k.id \in Ids(context.blocks)}
            Cited(document) == {k \in cited : k.id[1] = document}
        IN /\ context.used <= TokenBudget
           /\ Cardinality(cited) <= CitationLimit
           /\ \A k \in cited : Cited(k.id[1]) = {k}
           /\ \A k \in cited, l \in results :
                 Better(l, k) => \E e \in Cited(l.id[1]) : ~Better(l, e)
           /\ \/ context.used = TokenBudget
              \/ Cardinality(cited) = CitationLimit
              \/ \A l \in results : Cited(l.id[1]) # {}
           /\ context.used < TokenBudget =>
                 \A k \in cited : [id |-> k.id, words |-> WordCount[k.row.text]] \in context.blocks
=============================================================================
