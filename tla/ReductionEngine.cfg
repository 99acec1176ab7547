\* Four proposals of one trial each: a search and a sweep of two neighbours, or an
\* unresolved one, a step down, a search and a sweep of one neighbour.
SPECIFICATION FairSpec
CONSTANTS
  Stimuli <- MCStimuli
  Original = 0
  Size <- MCSize
  ProposalLimit = 4
  TrialLimit = 4
  MaxTrials = 5
  Reported <- MCReported
INVARIANTS
  TypeOK
  RecordParses
  DraftIsMinimal
PROPERTIES
  RunEnds
\* The run ends.
CHECK_DEADLOCK FALSE
