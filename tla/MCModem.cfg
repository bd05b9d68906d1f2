\* A buffer is an eighth of the recommended 1024 frames: eight times as many
\* samples are left out, so that a run of six bits is as hard as one of 48.
SPECIFICATION ModemSpec
CONSTANTS
  WordBits = 4
  Buffer = 128
  Offsets = {0, 1, 2, 3, 4, 5, 6, 7}
  Words <- MCWords
  Reversals <- MCReversals
  Preamble = 4
INVARIANTS
  ModemTypeOK
  WordTime
  BitSpacing
  EachBitOnce
PROPERTIES
  Continuous
