SPECIFICATION Spec
CONSTANTS
  none = none
  NoPal = none
  MaxFontD = 255
  MaxOrigin = 32767
  Folders <- MCFolders
  Passed <- MCPassed
INVARIANTS
  ArchiveFollowsNames
  CrashNeedsHole
  PaletteOfName
CHECK_DEADLOCK FALSE
