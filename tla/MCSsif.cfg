SPECIFICATION MCSpec
CONSTANTS
  One = 20
  Rate = 2
  Trim = 1
  Band = 2
  Target = 16
  Cap = 36
  Chunk = 3
  MaxPush = 6
  MaxAsk = 4
  Quantum = 5
  Period = 4
  Size = 5
  Window = 2
  Backlog = 2
  MaxFrames = 4
INVARIANTS
  RateBounded
  DriftAbsorbed
PROPERTIES
  HeadKeepsOrder
  HeadReached
