SPECIFICATION Spec
CONSTANTS
  p1 = p1
  p2 = p2
  s1 = s1
  s2 = s2
  plan = plan
  a = a
  b = b
  c = c
  loose = loose
  h1 = h1
  h2 = h2
  NoProc = NoProc
  NoStudy = NoStudy
  NoObject = NoObject
  Procs = {p1, p2}
  Studies = {s1}
  Objects = {plan, a, b, c, loose}
  Shards = {h1, h2}
  ShardOf <- MCShardOf
  Stages <- MCStages
  LastRevision = 3
  MaxFaults = 1
  MaxPowerLosses = 1
SYMMETRY SymmetryOfProcs
INVARIANTS
  TypeOK
  AckedIsSettled
  ConfirmedIsFinal
  HeadObjectsAreDurable
  StaleLoserWritesNothing
PROPERTIES
  ImplementsLineage
