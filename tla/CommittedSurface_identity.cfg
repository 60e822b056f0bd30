\* A node created by a batch that failed part of the way, and its identity again.
SPECIFICATION Spec
CONSTANTS
  NoKey = NoKey
  MaxNodeId = 5
  MaxRevision = 3
  Candidates <- FewCandidates
  Limits = {20}
  MaxHeld = 1
  PartialHost = TRUE
INVARIANT NodeIdsNamedOnce
