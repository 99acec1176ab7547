SPECIFICATION FairSpec
CONSTANTS
  t1 = t1
  t2 = t2
  t3 = t3
  p1 = p1
  p2 = p2
  NoTarget = NoTarget
  NoProc = NoProc
  Procs = {p1, p2}
  Targets <- MCFirstBootTargets
  TargetBoot <- MCFirstBoot
  LastBoot = 1
  MaxRevision = 5
  MaxFaults = 2
  Resets = FALSE
  LinkFaults = FALSE

PROPERTIES
  FinalizedIsReleased
CHECK_DEADLOCK FALSE
