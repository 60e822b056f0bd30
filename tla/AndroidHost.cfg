SPECIFICATION FairSpec
CONSTANTS
  i1 = i1
  i2 = i2
  Host <- MCHosts
  HostId <- MCOne
  ContainerId <- MCTwo
  SurfaceId <- MCTwo
  RootId <- MCTwo
  MaxMountId = 2
  MaxLong = 2
  MaxGeneration = 3
INVARIANTS
  TypeOK
  ActiveHostOwnsItsParts
  NothingLeaks
PROPERTIES
  ForeignOwnershipPreserved
  OwnershipImplemented
  LateCreateEnds
