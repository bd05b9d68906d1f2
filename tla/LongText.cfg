\* A text of more tones than the ring has slots.  The audio thread blocks.
SPECIFICATION FairTonesSpec
CONSTANTS
  cbtone_size = 7
  Dot = 2
  Chars = {"E", "A", " ", "*"}
  Letters = {"E", "A"}
  Morse <- MCMorse
  Texts <- MCLongTexts
  Periods = {1, 3, 8}
  Unwritten = {0}
CHECK_DEADLOCK FALSE
PROPERTY
  TemporarilyInterrupted
