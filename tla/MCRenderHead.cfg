SPECIFICATION SearchSpec
CONSTANTS
  RingSize = 4
  Words = 8
  Buffer = 5
  HeadWords = {1, 3}
  PlayWord = 2
  Strays = {5}
  RoundsToLock = 2
  MaxRounds = 5
  MaxAttempts = 2
  MaxCands = 3
  MinLockGap = 1
  Warmup = 1
  ScanInterval = 1
  ReseedInterval = 1
  MaxLag = 1
  MaxInverted = 1
PROPERTIES LockIsRight SearchEnds
