SPECIFICATION MCSpec
CONSTANTS
  MIDI_MAX_MSG = 4
  Statuses <- MCStatuses
  Data = {1, 2}
  MaxSysex = 3
  N = 2
  Descriptors = 3
  Packets = 2
INVARIANTS
  BridgeHears
  NothingJoined
  ConnectionsOwned
PROPERTIES
  GuestHeard
