\* Two sessions of one owner on one node, with every store in use: every order of
\* ending, destroying, purging and late messages.
SPECIFICATION Spec
CONSTANTS
  k1 = k1  k2 = k2  k3 = k3  pkA = pkA  pkB = pkB  s1 = s1  s2 = s2  node = node
  KeyIds <- OneKeyId
  PublicKeys = {pkA}
  PublicKeyOf <- OwnersOf1
  Sids <- TwoSessions
  Nodes = {node}
  NodesOf <- NodesOf2
  MaxParticipants = 2
  StrictPassphrase = FALSE
  LoggedTypes = {}
  StoresInUse =
    {"passphrase", "grant", "joinRequest", "invite", "writeBlock", "feedback", "task"}
  MaxRows = 1
  MaxMessages = 1
  MaxUnderway = 1
  MaxDestroying = 2
SYMMETRY Sessions2
INVARIANT LoadNeverOvercounts
INVARIANT OnlyOvertakenRemain
PROPERTY StatusOnlyAdvances
