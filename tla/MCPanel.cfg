CONSTANTS
  pad = pad
  pad2 = pad2
  shift = shift
  leftShift = leftShift
  rightShift = rightShift
  Ctrl <- MCCtrl
  Key <- MCKey
  Binding <- MCBinding
  VerByte = pad
  RxSize = 4
  Payload = 2
  MaxLatched = 2
  MinPress = 1
  None = None
SPECIFICATION MCSpec
INVARIANTS
  ViewAgrees
  NothingStuck
PROPERTIES
  PressIsSeen
  ClickReleased
  HandshakeEnds
  Heals
