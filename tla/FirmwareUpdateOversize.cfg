SPECIFICATION Spec
CONSTANTS
  WordBytes = 4
  PageWords = 2
  ActivePages = 2
  DfuPages = 4
  KeyWords = 2
  SeqMod = 3
  Window = 1
  Images <- LargeImages
  Size <- LargeSizes
  Faulty <- NoFaults
  MaxKeys = 2
INVARIANT
  RunsWholeImage
