\* The table shared by several processes: batches cut short, partly skipped and
\* partly forbidden, failing queries, under fairness.
SPECIFICATION Spec
CONSTANTS
  Store = "postgres"
  Handlers = {h1, h2}
  Batches <- MixedItems
  NoId = NoId
  BatchMax = 3
  MaxEntries = 2
  TtlMs = 1
  MaxTime = 2
  MaxPushes = 2
  MaxFaults = 1
PROPERTY AnsweredIsBroadcast
INVARIANT SecondCopyIsExcused
