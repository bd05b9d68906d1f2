\* Every operation of the controller, in any interleaving with the operator.
SPECIFICATION FairChannelSpec
CONSTANTS
  None = None
  Words = {"msg"}
  RxWords = {"reply"}
  Data = {"d"}
  Texts = {"G1ABC"}
  Bursts <- MCBursts
  MaxLen = 2
  SlotTimeout = 4
  FrameSlots = 5
  MaxQueue = 1
INVARIANTS
  TypeOK
  Framed
  Aligned
  IdentExclusive
  TrafficWordReady
PROPERTIES
  AirSpec
  QueueDrains
  IdentTaken
  IdentEnds
  WindowCloses
