CONSTANTS
  COLUMNS = 3
  LINE = 8
  SCROLL_LENGTH = 6
  empty = empty
  short = short
  wide = wide
  full = full
  over = over
  Texts <- MCTexts
  Length <- MCLength
  NoText = empty
  Blank = Blank
SPECIFICATION DisplaySpec
INVARIANTS
  DisplayTypeOK
  FlashInView
PROPERTIES
  StickyReturns
  ScrollShowsAll
