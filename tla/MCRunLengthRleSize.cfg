SPECIFICATION Spec
CONSTANTS
  Byte = 16
  AddrMod = 26
  MaxColour = 7
  MaxClear = 15
  MaxRun = 3
  Clear = 0
  Gray = 2
  Pics <- MCPics
INVARIANT RleMaximumSize
CHECK_DEADLOCK FALSE
