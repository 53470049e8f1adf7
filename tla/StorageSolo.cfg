SPECIFICATION FairSpec
CONSTANTS
  Workers = {w1}
  w1 = w1
  w2 = w2
  NoWorker = NoWorker
  ini = ini
  f = f
  base = base
  t = t
  Base <- MCBase
  Zero = z
  NoData = NoData
  BlockSize = 2
  Files = {ini, f}
  Tags = {base, t}
  Data = {z, a}
  NBlocks = 4
  MaxLogical = 2
  Sizes = {0, 3}
  Requests <- SoloRequests
  DebugBuild = TRUE
  Restarts = FALSE
  UnlinkFails = FALSE
INVARIANTS
  TypeOK
  LinkedBlocksAllocated
  NoBlockLost
  MetadataMatchesLinks
  HashIndexSound
  SharedIsFrozen
  Deduplicated
  TagIsCopy
PROPERTIES
  StoreSpec
  RequestsEnd
