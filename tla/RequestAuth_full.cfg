\* A cache of four rows and one restart: rows are dropped before they expire, and
\* until then the promise of ReplayProtection is kept.
SPECIFICATION Spec
CONSTANTS
  Requests <- BusyRequests
  SkewMs = 1
  NonceTtlMs = 3
  CacheMax = 4
  MaxTime = 6
  MaxInserted = 12
  MaxRestarts = 1
INVARIANT TypeOK
INVARIANT ReplayNeedsLostNonce
INVARIANT ScopeNeverOutlivesGlobal
INVARIANT StoredNonceWasServed
PROPERTY ConsumedNonceSurvivesTrim
PROPERTY KeepsPromise
