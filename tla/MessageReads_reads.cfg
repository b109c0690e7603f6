\* Pulls and history requests side by side, with edits and deletions;
\* answers and the deletion list are cut.
SPECIFICATION Spec
CONSTANTS
  MessageIds = {1, 2}
  Requests = {r1, r2}
  Limit = 1
  WindowMs = 2
  ReconcileMax = 2
  MaxEvents = 1
  MaxTime = 3
SYMMETRY RequestSymmetry
INVARIANT TypeOK
INVARIANT NothingSkipped
PROPERTY DeletionsReachTheView
