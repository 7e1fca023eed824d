SPECIFICATION MCSpec
CONSTANTS
  TxSize = 4
  MaxBytes = 7
  RxSize = 4
  TimeSize = 2
  Positions = 3
  Base = 4
  Delays = {1, 6, 10, 14}
  Gap = 2
  Width = 8
  MaxElapsed = 18
  BlockUnits = 2
  MaxBlocks = 3
  Garbage = garbage
  Pages = 4
  Cols = 4
  Rows = 3
  Nibble = 2
  Blank <- MCBlank
  Styles <- MCStyles
  Words = {33, 178}
  MaxQueue = 2
INVARIANTS
  LineInOrder StampsMatch CountsLikeHardware CommandsReachCard PictureIsFrame
PROPERTIES
  AllSent DelayServed AccessEndIsRight TransfersEnd QueueServed
