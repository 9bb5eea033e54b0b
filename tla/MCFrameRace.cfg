SPECIFICATION FramesSpec
CONSTANTS
  left = left
  right = right
  Holder <- MCHolder
  ThreadOf <- MCThreadOf
  Depth = 3
  MaxWrites = 3
INVARIANTS FramesIsolated
CHECK_DEADLOCK FALSE
