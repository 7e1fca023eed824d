SPECIFICATION Spec
CONSTANTS
  N = 2
  Descriptors = 3
  Packets = 2
INVARIANTS OwnGuest
