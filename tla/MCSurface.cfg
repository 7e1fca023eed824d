CONSTANTS
  tempo = tempo
  scrollY = scrollY
  Enc <- MCEnc
  Invert <- MCInvert
  HighByte <- MCHighByte
  QSize = 8
  Stale = Stale
  None = None
  MaxTurns = 3
  LateTurns = 2
  ScalePercent = 37
  Content = {dark, lit}
  Garbled = garbled
  Hash = {0, 1}
  Digest <- MCDigest
  RefreshMs = 400
  MaxStale = 2
SPECIFICATION MCSpec
INVARIANTS
  NoOrphanLine
  RestAtDetent
  RotationDecoded
PROPERTIES
  EdgeShowsDirection
  SystemSettles
  TickShowsChanges
  SettledPanelIsRight
CONSTRAINT UntilLoss
CHECK_DEADLOCK FALSE
