----------------------------- MODULE MCPipelineReset -----------------------------
EXTENDS PipelineReset, TLC

ActorSymmetry == Permutations(Requests) \cup Permutations(Workers)

\* What a later step or the property can tell apart: not the answers already given, nor the
\* ghost of attempts.  Two states alike in this have the same successors, up to the rest.
ResetView ==
    <<[e \in ExceptionIds |-> StateOf(e)], stream, group, interrupted, faults, phase, caught, untaken,
      [q \in Requests |-> <<req[q].pc, req[q].e, req[q].reading>>],
      [w \in Workers |-> <<worker[w].pc, worker[w].m, worker[w].count>>]>>
=============================================================================
