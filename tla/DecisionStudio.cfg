SPECIFICATION Spec
CONSTANTS
  t1 = t1
  t2 = t2
  original = original
  nonasserted = nonasserted
  allowed = allowed
  rejected = rejected
  Tabs = {t1, t2}
  PreSurfaces = {original, nonasserted}
  provenance = provenance
  Provenance = provenance
  Drafts = {allowed, rejected}
  padded = padded
  Flawed = {padded}
  Presentations = {"DECISION_READY", "IDENTITY_REVEAL", "RESOLVED"}
  MaxFaults = 1
  FreeEdits = FALSE
  Blank = Blank
  NoDraft = NoDraft
  NoDecision = NoDecision
  NoBench = NoBench
  NoRequest = NoRequest
  NoReply = NoReply
  NoRuling = NoRuling
  Idle = Idle
  Asked = Asked
  Stale = Stale
  Refused = Refused
SYMMETRY Interchangeable
INVARIANTS
  TypeOK
  PartitionIsTrue
  OfferedFitsSession
PROPERTIES
  ActsOnWhatItSaw
  RulesBlind
CHECK_DEADLOCK FALSE
