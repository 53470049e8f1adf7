SPECIFICATION FairSpec
CONSTANTS
  a = a
  b = b
  x = x
  y = y
  FileTags = {a, b}
  PagesOf <- TwoAndOne
  BlockSize = 2
  NFrames = 2
  Bytes = {x, y}
  Blank = x
  Algorithms = {"LRU", "CLOCK-M"}
  Instructions <- UnalignedInstructions
  Rivals <- OnB
PROPERTIES
  WriteStoresAll
CHECK_DEADLOCK FALSE
