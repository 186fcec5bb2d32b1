CONSTANTS
  Callers = {c1, c2, c3}
  Lanes = {a, b, c}
  GlobalActiveLanes = 2
  LaneQueueDepth = 2
  Stallable = {a}
SPECIFICATION FairSpec
INVARIANTS
  TypeOK
  LanesAreSerialized
  RequestsAreInOnePlace
  NoWakeupIsLost
PROPERTIES
  ImplementsLaneService
  UnrelatedLanesAreServed
