\* Requests beside joins, leaves, grants, kills, expiries and ended sessions.
SPECIFICATION Spec
CONSTANTS
  k1 = k1
  k2 = k2
  kc = kc
  alice = alice
  carol = carol
  Providers = {"memory", "postgres"}
  Workers = {w1}
  KeyIds = {k1, k2, kc}
  OwnerOf <- TwoOwners
  Creator = carol
  Sessions = {s1}
  NoSession = NoSession
  MessageTtl = 1
  ControlTtl = 1
  LeastBucketTtl = 1
  MaxTime = 1
  MaxTokens = 2
SYMMETRY KeySymmetry
CHECK_DEADLOCK FALSE
INVARIANT TypeOK
 
INVARIANT UsedInScope
INVARIANT OneBucketPerMember
