SPECIFICATION FairSpec
CONSTANTS
  Workers = {w1}
  w1 = w1
  w2 = w2
  NoWorker = NoWorker
  ini = ini
  f = f
  base = base
  t = t
  Files = {ini, f}
  Tags = {base, t}
  Base <- MCBase
  Data = {z, a}
  Zero = z
  NoData = NoData
  NBlocks = 2
  MaxLogical = 1
  BlockSize = 2
  Sizes = {2}
  Requests <- CommitUnlinkRequests
  DebugBuild = FALSE
  Restarts = FALSE
  UnlinkFails = TRUE
PROPERTY HashLockReleased
CHECK_DEADLOCK FALSE
