CONSTANTS
  Rows = 3
  Cols = 2
  Chars <- MCChars
  NL = "NL"
  BS = "BS"
  Texts <- MCTexts
  Header <- MCHeader
  DeviceLine <- MCDeviceLine
  NoneLine <- MCNoneLine
  MaxShown = 1
  MaxDevices = 2
  Fgs = {1}
  Bgs = {16}
  MaxScroll = 2
SPECIFICATION Spec
INVARIANTS
  CursorInBounds
  ScreenIsWindow
  
