SPECIFICATION Spec
CONSTANTS
  Workers = {w1, w2}
  w1 = w1
  w2 = w2
  NoWorker = NoWorker
  ini = ini
  f = f
  base = base
  t = t
  Files = {ini, f}
  Tags = {base, t}
  Base <- MCBase
  Data = {z, a}
  Zero = z
  NoData = NoData
  NBlocks = 3
  MaxLogical = 2
  BlockSize = 2
  Sizes = {0, 3}
  Requests <- PairRequests
  DebugBuild = FALSE
  Restarts = FALSE
  UnlinkFails = FALSE
INVARIANTS
  LinkedBlocksAllocated
  NoBlockLost
  HashIndexSound
  HashLockInSection
PROPERTY StoreSpec
