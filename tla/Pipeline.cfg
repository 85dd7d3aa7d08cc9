SPECIFICATION FairSpec
CONSTANTS
  e1 = e1
  e2 = e2
  none = none
  Egresses = {e1}
  NoEgress = none
  MaxTries = 2
  EnqueueCap = 2
  FaultSets = {{"egress", "dispatch", "rollback", "unsure", "provider", "silent", "deaf", "lose", "slow"}, {"egress"}, {"egress", "rollback", "unsure", "provider", "slow"}}
INVARIANTS
  TypeOK
  Provenance
  PhantomsNeverSucceed
  OneTranscription
  StuckExplained
PROPERTIES
  InsightsAdvance
  EndsInSummary
  Accounted
CHECK_DEADLOCK FALSE
