SPECIFICATION FairSpec
CONSTANTS
  a = a
  ping = ping
  whole = whole
  Requests = {a}
  Ping = ping
  Whole = whole
  AutoReconnect = {TRUE}
  Overlap = FALSE
  Pings = TRUE
  Retries = 2
  MaxConnects = 1
  MaxDisconnects = 0
  MaxDrops = 1
  MaxFails = 1
  MaxResends = 1
  MaxRefusals = 0
  MaxDups = 0
  MaxFloods = 0
  MaxGarbage = 1
  MaxCancels = 1
  MaxTimeouts = 1
  MaxTasks = 2
  MaxGens = 3
INVARIANT TypeOK
INVARIANT PingTracked
INVARIANT OneReceiver
PROPERTY Promise
PROPERTY Settled
CHECK_DEADLOCK FALSE
