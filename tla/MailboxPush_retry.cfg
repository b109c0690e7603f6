\* Two senders with the same client id; rows expire, are trimmed and lost.
SPECIFICATION Spec
CONSTANTS
  Store = "memory"
  Handlers = {h1, h2}
  Batches <- TwoSenders
  NoId = NoId
  BatchMax = 3
  MaxEntries = 2
  TtlMs = 1
  MaxTime = 2
  MaxPushes = 3
  MaxFaults = 1
INVARIANT TypeOK
INVARIANT SecondCopyIsExcused
INVARIANT AnswerMatchesBatch
PROPERTY BroadcastOnce
