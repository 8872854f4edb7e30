SPECIFICATION Spec
CONSTANTS
  Account = Account
  Secret = Secret
  Channels = {c1}
  NoHash = {}
  Kinds = {"msg"}
  Counts = {1}
  Talking = {Account}
  MaxPts = 2
  MaxSeq = 0
  MaxBatch = 1
  T = 2
  G = 1
  MaxErrors = 0
  MaxLoads = 1
INVARIANTS NoFatal
CHECK_DEADLOCK FALSE
