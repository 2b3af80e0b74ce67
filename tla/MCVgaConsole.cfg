SPECIFICATION Spec
CONSTANTS
  screen_height = 2
  screen_width = 2
  Symbol = {x}
  LF = LF
  CR = CR
  Prefix = p
  Colour = {grey, green, red}
  global_grey = grey
  TaskColour = green
  IrqColour = red
  MaxText = 6
INVARIANTS
  CursorComesBack
  ColourIsRestored
  ScreenShowsText
CHECK_DEADLOCK FALSE
