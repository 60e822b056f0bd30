\* Two preparations held, a host that fails part of the way, few identities.
SPECIFICATION Spec
CONSTANTS
  NoKey = NoKey
  MaxNodeId = 4
  MaxRevision = 3
  Candidates <- FewCandidates
  Limits = {20}
  MaxHeld = 2
  PartialHost = TRUE
INVARIANTS
  HostAgrees
  TypeOK
