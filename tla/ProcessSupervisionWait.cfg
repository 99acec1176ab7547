SPECIFICATION Spec
CONSTANTS
  stdout = stdout
  stderr = stderr
  Streams = {stdout}
  Limit = 1
  MaxOutput = 2
  MaxFaults = 1
INVARIANTS
  ReceivedWaitCompletesEdge
CHECK_DEADLOCK FALSE
