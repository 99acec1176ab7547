---------------------------- MODULE MCStudyHead ----------------------------
EXTENDS StudyHead

CONSTANTS p1, p2, s1, s2, plan, a, b, c, loose, h1, h2

SymmetryOfProcs == Permutations({p1, p2})

\* A plan starts a study, two maps compete for its second revision and a map
\* and a bundle for its third; a loose object is published for no head.
MCStages ==
  (plan :> {1}) @@ (a :> {2}) @@ (b :> {2, 3}) @@ (c :> {3}) @@ (loose :> {})

\* The loose object shares a shard with a map.
MCShardOf ==
  (plan :> h1) @@ (a :> h2) @@ (b :> h1) @@ (c :> h2) @@ (loose :> h2)
=============================================================================
