\* Texts that fit and one that does not; buffers shorter and longer than a
\* tone; memory that was never written holds nothing, something that ends
\* within a buffer or something that outlasts it.  The system stops when the ring runs full.
SPECIFICATION FairTonesSpec
CONSTANTS
  cbtone_size = 7
  Dot = 2
  Chars = {"E", "A", " ", "*"}
  Letters = {"E", "A"}
  Morse <- MCMorse
  Texts <- MCTexts
  Periods = {1, 3, 8}
  Unwritten = {0, 1, 9}
CHECK_DEADLOCK FALSE
INVARIANT
  TonesTypeOK
PROPERTIES
  FifoSpec
  StaysOnTrack
  IdentSounded
