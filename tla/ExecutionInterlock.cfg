SPECIFICATION Spec
CONSTANTS
  t1 = t1
  t2 = t2
  t3 = t3
  p1 = p1
  p2 = p2
  NoTarget = NoTarget
  NoProc = NoProc
  Procs = {p1, p2}
  Targets <- MCTargets
  TargetBoot <- MCTargetBoot
  LastBoot = 2
  MaxRevision = 5
  MaxFaults = 2
  Resets = TRUE
  LinkFaults = TRUE
SYMMETRY SymmetryOfProcs
INVARIANTS
  TypeOK
  HeldWhileLive
  AtMostOneStart
  WinnerIsDurable
  ClaimsOnHistory
  ReceiptProvesRun
  AdmittedByReceipt
PROPERTIES
  NoTakeover
  ImplementsAdmission
CHECK_DEADLOCK FALSE
