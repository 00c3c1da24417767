--------------------------- MODULE MCExceptionPipeline ---------------------------
EXTENDS ExceptionPipeline, TLC

\* Handlers are alike, and so are workers and identities.
ActorSymmetry == Permutations(Requests) \cup Permutations(Workers) \cup Permutations(ExceptionIds)
=============================================================================
