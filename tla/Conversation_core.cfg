SPECIFICATION Spec
CONSTANTS
  Shared = FALSE
  MaxIncoming = 2
  MaxTop = 4
  MaxSends = 2
  MaxAsks = 2
  MaxEdits = 2
  MaxReads = 1
  MaxTimeouts = 1
  MaxCancels = 1
  MaxAgain = 1
  MaxEvents = 3
INVARIANT TypeOK
INVARIANT Once
INVARIANT NoneSkipped
INVARIANT Prompt
INVARIANT Told
CHECK_DEADLOCK FALSE
