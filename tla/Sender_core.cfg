SPECIFICATION Spec
CONSTANTS
  a = a
  b = b
  ping = ping
  whole = whole
  Requests = {a, b}
  Ping = ping
  Whole = whole
  AutoReconnect = {TRUE, FALSE}
  Overlap = FALSE
  Pings = FALSE
  Retries = 1
  MaxConnects = 2
  MaxDisconnects = 1
  MaxDrops = 1
  MaxFails = 1
  MaxResends = 1
  MaxRefusals = 1
  MaxDups = 1
  MaxFloods = 1
  MaxGarbage = 1
  MaxCancels = 0
  MaxTimeouts = 0
  MaxTasks = 2
  MaxGens = 3
INVARIANT NoneLost
INVARIANT SentOnce
INVARIANT OneReceiver
INVARIANT Serving
INVARIANT Closed
CHECK_DEADLOCK FALSE
