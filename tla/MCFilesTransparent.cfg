SPECIFICATION FilesSpec
CONSTANTS
  null = null
  pink = pink
  clear = clear
  black = black
  red = red
  green = green
  blue = blue
  glyph = glyph
  sprite = sprite
  Null = null
  MaxItems = 2
  FirstGlyph = 1
  Slots = 3
  NewValues <- MCNewValues
  ToOem <- MCToOem
  ToAnsi <- MCToAnsi
  Colours = 4
  Pink = pink
  Clear = clear
  Black = black
  Given <- PinkLast
  Dirs = 2
  Steps = 1
  ItemsOf <- MCItemsOf
  FilesOf <- MCFilesOf
INVARIANT
  FirstTransparent
