SPECIFICATION Spec
CONSTANTS
  Align = 2
  Header = 6
  MinSize = 6
  Size = 48
  Request <- MCRequest
INVARIANTS
  BlocksHoldMinimum
