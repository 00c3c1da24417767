--------------------------- MODULE MCCorpusIngestion ---------------------------
(* Two documents of at most two slices, and releases that move a document to another        *)
(* tenancy with fewer slices, or disagree with their own custody file.                       *)
EXTENDS CorpusIngestion, TLC

CONSTANTS a, b, t1, t2, t3, k1, k2, k3, first, moved, unvouched

MCTenants == {a, b}
MCTexts == {t1, t2, t3}
MCCustodies == {k1, k2, k3}
MCDocumentIds == {1, 2}

Label(tenant, tier) == [tenant |-> tenant, tier |-> tier]
Doc(label, custody, body) == [access |-> label, provenance |-> custody, body |-> body]
Line(id, doc) == [id |-> id, document |-> doc]

Long == Doc(Label(a, "standard"), k1, <<t1, t2>>)
Moved == Doc(Label(b, "restricted"), k2, <<t3>>)
Other == Doc(Label(b, "standard"), k1, <<t2>>)
Unvouched == Doc(Label(a, "restricted"), k3, <<t1>>)
Blanks == Doc(Label(a, "standard"), k1, <<>>)

MCReleases == {first, moved, unvouched}
MCCorpusLines == [r \in MCReleases |->
    CASE r = first -> <<Line(1, Long), Line(2, Other)>>
      [] r = moved -> <<Line(1, Moved)>>
      [] r = unvouched -> <<Line(2, Unvouched)>>]
MCCustodyFile == [r \in MCReleases |->
    CASE r = first -> (1 :> k1) @@ (2 :> k1)
      [] r = moved -> (1 :> k2)
      [] r = unvouched -> (2 :> k1)]

MCSubmissions == {Line(1, Other), Line(2, Blanks)}

MCFixedRelease == {moved}
MCLongSubmission == {Line(1, Long)}

\* Loaders are alike.
LoaderSymmetry == Permutations(Loaders)
=============================================================================
