SPECIFICATION Spec
CONSTANTS
  Shared = FALSE
  MaxIncoming = 3
  MaxTop = 5
  MaxSends = 2
  MaxAsks = 3
  MaxEdits = 2
  MaxReads = 1
  MaxTimeouts = 1
  MaxCancels = 1
  MaxAgain = 1
  MaxEvents = 2
INVARIANT Delivered
CHECK_DEADLOCK FALSE
