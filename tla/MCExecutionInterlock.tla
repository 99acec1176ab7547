------------------------ MODULE MCExecutionInterlock ------------------------
EXTENDS ExecutionInterlock, TLC

CONSTANTS t1, t2, t3, p1, p2

MCTargets == {t1, t2, t3}
SymmetryOfProcs == Permutations({p1, p2})

\* t1 and t2 were published in the first boot session, t3 in the second.
MCTargetBoot == (t1 :> 1) @@ (t2 :> 1) @@ (t3 :> 2)
\* Both targets were published in the one boot session of the run.
MCFirstBootTargets == {t1, t2}
MCFirstBoot == (t1 :> 1) @@ (t2 :> 1)
=============================================================================
