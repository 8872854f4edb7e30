SPECIFICATION FairSpec
CONSTANTS
  MaxRequests = 2
  Slots = 8
  Fractions = {1}
  Fast = {6}
  Slow = {6}
  TooOld = 5
  TooNew = 1
  Delay = 1
  MaxLength = 1
  MaxSize = 2
  MaxRecent = 2
  Pump = 4
  Drain = 1
  Coarse = FALSE
  Calm = TRUE
  Start = 10
  MaxTime = 11
  MaxJumps = 1
  MaxRotations = 1
  MaxRefusals = 1
  MaxNotes = 1
  MaxBoxes = 1
  MaxResends = 1
  MaxReconnects = 1
  MaxCancels = 1
  MaxFaults = 2
INVARIANT TypeOK
INVARIANT OrderAgrees
INVARIANT NoneLost
INVARIANT RepeatsFiltered
INVARIANT Heard
PROPERTY Promise
PROPERTY Answered
CHECK_DEADLOCK FALSE
