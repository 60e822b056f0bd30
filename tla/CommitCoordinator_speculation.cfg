SPECIFICATION Spec
CONSTANTS
  empty = empty
  t1 = t1
  t2 = t2
  torn = torn
  Tree <- MCTwoTrees
  EmptyTree = empty
  Torn = torn
  MaxRevision = 2
  Speculative = TRUE
  HostMayPanic = FALSE
INVARIANT ReadyHostAgrees
