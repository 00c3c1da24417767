------------------------------- MODULE WriteOnce -------------------------------
(***************************************************************************)
(* What the idempotent write promises its clients: a document is stored    *)
(* once and for good, and a key is given one answer, about a document      *)
(* that is stored, which never changes.                                    *)
(***************************************************************************)
CONSTANTS Keys, Documents, NoDocument

VARIABLES stored, answers

WriteOnceInit == stored = {} /\ answers = [k \in Keys |-> NoDocument]

StoreOne ==
    /\ \E d \in Documents \ stored : stored' = stored \cup {d}
    /\ UNCHANGED answers

AnswerOne ==
    /\ \E k \in Keys, d \in stored :
          answers[k] = NoDocument /\ answers' = [answers EXCEPT ![k] = d]
    /\ UNCHANGED stored

WriteOnceSpec == WriteOnceInit /\ [][StoreOne \/ AnswerOne]_<<stored, answers>>
=============================================================================
