\* Every class of message behind every kind of sync word, with and without
\* errors.
SPECIFICATION LinkSpec
CONSTANTS
  Syscodes <- MCSyscodes
  Messages <- MCMessages
  Noise <- MCNoise
INVARIANTS
  LinkTypeOK
  HeardWhole
  Unheeded
  ErrorsNoticed
  Synchronised
  Understood
PROPERTY
  HeardApart
