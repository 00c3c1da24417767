--------------------------- MODULE KnowledgeContracts ---------------------------
(***************************************************************************)
(* The document, chunk and access contracts, and the pure rules over them:  *)
(* chunking, the scoped-read rule in its three forms (the domain function,  *)
(* the SQL of the document repository, the constraint the retriever turns   *)
(* into a WHERE clause) and how the access policy is composed.              *)
(***************************************************************************)
EXTENDS Integers, Sequences

CONSTANTS
    Tenants,       \* tenancies
    Texts,         \* chunk texts: each stands for one slice of at most CHUNK_WORDS words
    Custodies,     \* provenance records: source, custodian and revision
    DocumentIds,   \* document identifiers, ordered as their strings are
    MaxChunks      \* bound: chunks of the longest document

ASSUME KnowledgeAssumption == DocumentIds \subseteq Nat /\ MaxChunks \in Nat \ {0}

AccessTier == {"standard", "restricted"}

AccessLabel == [tenant : Tenants, tier : AccessTier]

AuthorizationContext == [tenant : Tenants, clearance : AccessTier]

\* A body is the sequence of its slices; the empty one is a body of blanks.
Document == [access : AccessLabel, provenance : Custodies,
             body : UNION {[1..n -> Texts] : n \in 0..MaxChunks}]

\* A chunk identifier is the document's and the position, which the row cannot contradict.
ChunkIds == DocumentIds \X (0..(MaxChunks - 1))

ChunkRow == [text : Texts, access : AccessLabel, provenance : Custodies]

\* chunk_document refuses a body without words.
Blank(doc) == doc.body = <<>>

\* Mutant of ChunkDocument: every chunk gets the default tier.
ChunkDocumentUnlabelled(id, doc) ==
    [c \in {<<id, i>> : i \in 0..(Len(doc.body) - 1)} |->
        [text |-> doc.body[c[2] + 1], access |-> [doc.access EXCEPT !.tier = "standard"],
         provenance |-> doc.provenance]]

ChunkDocument(id, doc) ==
    [c \in {<<id, i>> : i \in 0..(Len(doc.body) - 1)} |->
        [text |-> doc.body[c[2] + 1], access |-> doc.access, provenance |-> doc.provenance]]

-----------------------------------------------------------------------------
\* The scoped-read rule, as the domain states it and as the repository's SQL says it.
Readable(scope, label) ==
    /\ label.tenant = scope.tenant
    /\ label.tier = "standard" \/ scope.clearance = "restricted"

ScopeClause(scope, label) ==
    /\ label.tenant = scope.tenant
    /\ label.tier = "standard" \/ scope.clearance = "restricted"

\* One dimension of an AccessConstraint: None, or the values it admits.
Unrestricted == [limited |-> FALSE, values |-> {}]
Only(values) == [limited |-> TRUE, values |-> values]

AccessConstraint == [tenants : {Unrestricted} \cup {Only(S) : S \in SUBSET Tenants},
                     tiers : {Unrestricted} \cup {Only(S) : S \in SUBSET AccessTier}]

Restricts(constraint) == constraint.tenants.limited \/ constraint.tiers.limited

TenantBoundary(authz) == [tenants |-> Only({authz.tenant}), tiers |-> Unrestricted]

ClearedTiers(authz) == IF authz.clearance = "restricted" THEN AccessTier ELSE {"standard"}

\* What a dimension leaves of a set of values.
Kept(values, dimension) == {v \in values : ~dimension.limited \/ v \in dimension.values}

\* ComposedAccessConstraints: the selected mechanism keeps its own dimension, the other one
\* is what the caller's context allows of it.
Composed(filterType, selected, authz) ==
    IF filterType = "tenant_boundary"
    THEN [tenants |-> selected.tenants, tiers |-> Only(Kept(ClearedTiers(authz), selected.tiers))]
    ELSE [tenants |-> Only(Kept({authz.tenant}, selected.tenants)), tiers |-> selected.tiers]

\* The policy the application is wired with.
Constrain(authz) == Composed("tenant_boundary", TenantBoundary(authz), authz)

InDimension(value, dimension) == dimension.limited => value \in dimension.values

\* The predicate both arms and the pool query carry.
ConstraintClause(constraint, label) ==
    /\ InDimension(label.tenant, constraint.tenants)
    /\ InDimension(label.tier, constraint.tiers)
=============================================================================
