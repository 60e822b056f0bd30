SPECIFICATION FairSpec
CONSTANTS
  ContainerId <- MCTwo
  HostId <- MCTwo
  RootId <- MCRootId
  MaxMountId = 3
INVARIANTS
  TypeOK
  MountIdsAreUnique
  ShownRootsAreOwned
PROPERTIES
  OnlyOwnWork
  ReservationsEnd
