SPECIFICATION FairSpec
CONSTANTS
  c1 = c1
  Account = Account
  Secret = Secret
  Channels = {c1}
  NoHash = {c1}
  Kinds = {"msg", "other"}
  Counts = {2}
  Talking = {Account, c1}
  MaxPts = 3
  MaxSeq = 0
  MaxBatch = 1
  T = 1
  G = 1
  MaxErrors = 1
  MaxLoads = 0
INVARIANT NoFatal
INVARIANT Consistent
INVARIANT SilenceNoticed
INVARIANT Chain
INVARIANT NoneTwice
PROPERTY AccountRecovered
PROPERTY ChannelRecovered
