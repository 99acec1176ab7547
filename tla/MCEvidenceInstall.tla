------------------------- MODULE MCEvidenceInstall -------------------------
EXTENDS EvidenceInstall, TLC

CONSTANTS a, b

\* No property tells the two shells apart, and none is about liveness.
ShellSymmetry == Permutations(Shells)
=============================================================================
