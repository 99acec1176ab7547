-------------------------- MODULE MCDecisionStudio --------------------------
EXTENDS DecisionStudio, TLC

CONSTANTS t1, t2, original, nonasserted, allowed, rejected,
  padded, provenance

Interchangeable == Permutations({t1, t2}) \cup Permutations({allowed, rejected})
  \cup Permutations({original, nonasserted})
=============================================================================
