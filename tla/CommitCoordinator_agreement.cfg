SPECIFICATION FairSpec
CONSTANTS
  empty = empty
  t1 = t1
  t2 = t2
  torn = torn
  Tree <- MCTree
  EmptyTree = empty
  Torn = torn
  MaxRevision = 3
  Speculative = FALSE
  HostMayPanic = FALSE
INVARIANTS
  TypeOK
  ReadyHostAgrees
PROPERTY ReadyAgainAndAgain
