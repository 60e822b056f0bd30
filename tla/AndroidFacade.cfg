SPECIFICATION FairSpec
CONSTANTS
  MaxLong = 3
  Native <- MCNative
INVARIANTS
  TypeOK
  DueEventsAreExpected
  NoSurfaceIsLost
PROPERTIES
  NothingAfterClose
  ClosingTerminates
