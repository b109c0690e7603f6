\* One session, three key ids: purges, re-entry, grants and messages.
SPECIFICATION Spec
CONSTANTS
  k1 = k1  k2 = k2  k3 = k3  pkA = pkA  pkB = pkB  s1 = s1  s2 = s2  node = node
  KeyIds <- ThreeKeyIds
  PublicKeys = {pkA, pkB}
  PublicKeyOf <- OwnersOf3
  Sids <- OneSession
  Nodes = {}
  NodesOf <- NoNodes
  MaxParticipants = 2
  StrictPassphrase = FALSE
  LoggedTypes = {"key.expired", "key.killed"}
  StoresInUse = {"passphrase", "grant"}
  MaxRows = 2
  MaxMessages = 1
  MaxUnderway = 1
  MaxDestroying = 0
SYMMETRY SiblingIds
INVARIANT TypeOK
INVARIANT MembersHaveKeys
INVARIANT LeftStaysOut
PROPERTY PurgeIsComplete
PROPERTY JoinGrantsNoAccess
