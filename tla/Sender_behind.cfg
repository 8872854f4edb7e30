SPECIFICATION Spec
CONSTANTS
  a = a
  ping = ping
  whole = whole
  Requests = {a}
  Ping = ping
  Whole = whole
  AutoReconnect = {TRUE}
  Overlap = TRUE
  Pings = FALSE
  Retries = 2
  MaxConnects = 1
  MaxDisconnects = 1
  MaxDrops = 1
  MaxFails = 0
  MaxResends = 0
  MaxRefusals = 0
  MaxDups = 0
  MaxFloods = 0
  MaxGarbage = 0
  MaxCancels = 0
  MaxTimeouts = 0
  MaxTasks = 2
  MaxGens = 3
INVARIANT Clean
CHECK_DEADLOCK FALSE
