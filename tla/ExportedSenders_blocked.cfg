SPECIFICATION FairSpec
CONSTANTS
  v = v
  w = w
  d1 = d1
  d2 = d2
  keeper = keeper
  user = user
  free = free
  Workers = {v, w}
  Careful = {w}
  Centers = {d1, d2}
  Keeper = keeper
  User = user
  Free = free
  Patient = TRUE
  Notices = FALSE
  MaxAsks = 3
  MaxFails = 1
  MaxDrops = 1
  MaxSwitches = 1
  MaxDisconnects = 1
  MaxConnects = 1
PROPERTY Served
CHECK_DEADLOCK FALSE
