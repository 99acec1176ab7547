------------------------ MODULE MCProcessSupervision ------------------------
EXTENDS ProcessSupervision, TLC

CONSTANTS stdout, stderr

SymmetryOfStreams == Permutations({stdout, stderr})
=============================================================================
