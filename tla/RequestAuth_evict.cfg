\* The cache limit is reached while nonces are live.
SPECIFICATION Spec
CONSTANTS
  Requests <- BusyRequests
  SkewMs = 1
  NonceTtlMs = 3
  CacheMax = 4
  MaxTime = 6
  MaxInserted = 12
  MaxRestarts = 0
INVARIANT NoReplay
