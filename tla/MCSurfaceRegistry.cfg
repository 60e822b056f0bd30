SPECIFICATION Spec
CONSTANTS
  s1 = s1
  s2 = s2
  c1 = c1
  c2 = c2
  SurfaceId <- MCSurfaceId
  Caller <- MCCaller
  MaxGeneration = 4
INVARIANTS
  TypeOK
  GenerationsDense
  RunningCallbackIsLive
PROPERTIES
  DeadHandleStaysDead
  ImplementsLifecycleContract
