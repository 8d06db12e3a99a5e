SPECIFICATION Spec
CONSTANTS
  red = red
  blue = blue
  green = green
  clear = clear
  noPal = noPal
  noBuf = noBuf
  Colors <- MCColors
  Transparent = clear
  NumIdx = 4
  NumPlayerClrs = 2
  PlayerStart = 2
  NoPal = noPal
  Palettes <- MCPalettes
  Garbage <- MCGarbage
  Extents <- MCExtents
  Buffers <- MCBuffers
  Targets <- MCTargets
  Rects <- MCRects
  Files <- MCFiles
PROPERTY PlayerClrsFromPalette

