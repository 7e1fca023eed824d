SPECIFICATION Spec
CONSTANTS
  Size = 8
  Window = 2
  Backlog = 5
  MaxFrames = 4
PROPERTY HeadBoundsCopy
