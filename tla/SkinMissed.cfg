SPECIFICATION SkinSpec
CONSTANTS
  ScalePercent = 37
  Content = {dark, lit}
  Garbled = garbled
  Hash = {0, 1}
  Digest <- MCDigest
  RefreshMs = 400
  MaxStale = 2
PROPERTY MissedIsShown

