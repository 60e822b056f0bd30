CONSTANTS
  NodeId = {1, 2, 3}
  Kind = {"View"}
  PropertyId = {"2"}
  Value = {"true"}
  Index = {0, 1, 2}
  MaxRevision = 1
  Snapshots <- MCSnapshots
SPECIFICATION Spec
INVARIANTS
  HostIsForest
  PublishedIsTree
PROPERTIES
  RefusalsLeaveNoTrace
