SPECIFICATION Spec
CONSTANTS
  Workers = {w1, w2}
  w1 = w1
  w2 = w2
  NoWorker = NoWorker
  ini = ini
  f = f
  base = base
  t = t
  Files = {ini, f}
  Tags = {base, t}
  Base <- MCBase
  Data = {z, a}
  Zero = z
  NoData = NoData
  NBlocks = 3
  MaxLogical = 1
  BlockSize = 2
  Sizes = {2}
  Requests <- WriteCommitRequests
  DebugBuild = FALSE
  Restarts = FALSE
  UnlinkFails = FALSE
PROPERTY CommittedFrozen
CHECK_DEADLOCK FALSE
