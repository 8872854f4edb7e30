SPECIFICATION Spec
CONSTANTS
  Account = Account
  Secret = Secret
  Channels = {}
  NoHash = {}
  Kinds = {"msg", "other"}
  Counts = {0, 2}
  Talking = {Account}
  MaxPts = 3
  MaxSeq = 2
  MaxBatch = 2
  T = 2
  G = 1
  MaxErrors = 1
  MaxLoads = 1
INVARIANT TypeOK
INVARIANT Chain
INVARIANT NoneTwice
PROPERTY StashedIsKept
PROPERTY SeqSettled
CHECK_DEADLOCK FALSE
