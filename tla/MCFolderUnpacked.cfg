SPECIFICATION Spec
CONSTANTS
  none = none
  NoPal = none
  MaxFontD = 255
  MaxOrigin = 32767
  Folders <- MCFolders
  Passed <- MCPassed
INVARIANT
  UnpackedPacks
CHECK_DEADLOCK FALSE
