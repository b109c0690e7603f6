\* Schema set-up, deadlines, ratchet, reputation and feedback, one per behaviour.
\* A set-up that is done for good and a store without messages stop.
SPECIFICATION Spec
CONSTANTS
  i1 = i1
  i2 = i2
  i3 = i3
  Instances = {i1, i2, i3}
  PoolMax <- OneSmallPool
  Statements = 2
  MaxFaults = 2
  Messages = {m1, m2}
  Ttl = 1
  MaxTime = 3
  Counters = 3
  MaxChain = 5
  MinScore <- FiveReports
  MinTotal = 5
  MaxRate = 80
  BanStrikes = 3
  StrikeCap = 4
  Amounts = {0, 2}
  MaxVotes = 12
  Posts = {p1, p2}
  Clients = {c1, c2}
CHECK_DEADLOCK FALSE
INVARIANT InStep
INVARIANT OneVoiceEach
PROPERTY SetUpSucceeds
PROPERTY DueIsDeleted
PROPERTY VotesPullOneWay
