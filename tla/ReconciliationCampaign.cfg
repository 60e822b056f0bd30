\* Every candidate after every other, for three revisions; the campaign ends.
SPECIFICATION Spec
CHECK_DEADLOCK FALSE
CONSTANTS
  NoKey = NoKey
  MaxNodeId = 60
  MaxRevision = 4
  Candidates <- MCCandidates
  LimitOverrides <- MCLimitOverrides
  Sample <- MCSample
  MaxSteps = 3
INVARIANTS
  TypeOK
  PreparedBatchesApply
  MatchedNodesKeepIdentity
  ReconcilersAgree
  RefusedIffInvalid
  ValidatorsAgree
