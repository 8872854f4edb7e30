SPECIFICATION Spec
CONSTANTS
  a = a
  b = b
  ping = ping
  whole = whole
  Requests = {a, b}
  Ping = ping
  Whole = whole
  AutoReconnect = {TRUE}
  Overlap = FALSE
  Pings = FALSE
  Retries = 2
  MaxConnects = 1
  MaxDisconnects = 0
  MaxDrops = 0
  MaxFails = 0
  MaxResends = 0
  MaxRefusals = 1
  MaxDups = 0
  MaxFloods = 0
  MaxGarbage = 0
  MaxCancels = 1
  MaxTimeouts = 0
  MaxTasks = 2
  MaxGens = 3
INVARIANT NoneLost
CHECK_DEADLOCK FALSE
