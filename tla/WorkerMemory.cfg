SPECIFICATION FairSpec
CONSTANTS
  a = a
  b = b
  x = x
  y = y
  FileTags = {a, b}
  PagesOf <- TwoAndOne
  BlockSize = 2
  NFrames = 2
  Bytes = {x, y}
  Blank = x
  Algorithms = {"LRU", "CLOCK-M"}
  Instructions <- PlainInstructions
  Rivals <- OnB
INVARIANTS
  TypeOK
  FramesAccounted
  CleanIsStored
  VictimIsLowest
  ReadReturnsView
PROPERTIES
  MemoryIsTransparent
  WriteStoresAll
  FlushPersists
  InstructionsEnd
CHECK_DEADLOCK FALSE
