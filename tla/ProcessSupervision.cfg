SPECIFICATION Spec
CONSTANTS
  stdout = stdout
  stderr = stderr
  Streams = {stdout}
  Limit = 1
  MaxOutput = 2
  MaxFaults = 1
INVARIANTS
  TypeOK
  CleanMeansGone
  BehaviourIsWhole
  ExitIsOwn
  PriorityKept
CHECK_DEADLOCK FALSE
