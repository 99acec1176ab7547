SPECIFICATION FairSpec
CONSTANTS
  stdout = stdout
  stderr = stderr
  Streams = {stdout}
  Limit = 1
  MaxOutput = 0
  MaxFaults = 1
PROPERTIES
  CloseReturns
CHECK_DEADLOCK FALSE
