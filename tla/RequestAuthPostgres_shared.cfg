SPECIFICATION Spec
CONSTANTS
  Requests <- MixedRequests
  SkewMs = 1
  NonceTtlMs = 4
  Instances = {a, b}
  Slots = {1}
  ConsumeDelayMax = 1
  CleanupEvery = 2
  MaxTime = 7
  MaxFaults = 1
INVARIANT TypeOK
INVARIANT PairsStayWhole
PROPERTY KeepsPromise
