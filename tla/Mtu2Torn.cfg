SPECIFICATION Spec
CONSTANTS
  Base = 4
  Delays = {1, 6, 10, 14}
  Gap = 2
INVARIANTS NeverEarly
