SPECIFICATION FairSpec
CONSTANTS
  stdout = "stdout"
  stderr = "stderr"
  Captures = {stdout}
  MaxFaults = 1
INVARIANTS
  TypeOK
  VerdictIsWhole
  OrphansAreTold
  EndIsAttributed
PROPERTIES
  EndsWithVerdict
CHECK_DEADLOCK FALSE
