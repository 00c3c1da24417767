------------------------------- MODULE Catalogue -------------------------------
(***************************************************************************)
(* What the document store promises its writers: a document is created at   *)
(* most once, and a load installs the whole of one accepted corpus.         *)
(***************************************************************************)
CONSTANTS DocumentIds, Absent, Submissions, Releases, Corpus(_), Accepted(_)

VARIABLE catalogue

Init == catalogue = [id \in DocumentIds |-> Absent]

Create(s) ==
    /\ catalogue[s.id] = Absent
    /\ catalogue' = [catalogue EXCEPT ![s.id] = s.document]

Install(r) ==
    /\ Accepted(r)
    /\ catalogue' = [id \in DocumentIds |->
                        IF id \in DOMAIN Corpus(r) THEN Corpus(r)[id] ELSE catalogue[id]]

Next == (\E s \in Submissions : Create(s)) \/ (\E r \in Releases : Install(r))

Spec == Init /\ [][Next]_catalogue
=============================================================================
