SPECIFICATION ServoSpec
CONSTANTS
  One = 20
  Rate = 2
  Trim = 1
  Band = 2
  Target = 16
  Cap = 36
  Chunk = 3
  MaxPush = 6
  MaxAsk = 4
  Quantum = 5
  Period = 4
PROPERTY PhaseRunsDown
