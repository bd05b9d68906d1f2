\* A reply that cannot be decoded and a window that never closes.
SPECIFICATION FairTSCSpec
CONSTANTS
  None = None
  Words = {"AHY", "ACKV", "GTC", "ACKX", "CLEAR"}
  RxWords = {"ACKI", "other", "unknown"}
  Data = {"c1", "c2"}
  Texts = {}
  Bursts <- TSCBursts
  MaxLen = 1
  SlotTimeout = 4
  FrameSlots = 5
  MaxQueue = 6
  RaQueue = 2
PROPERTY CallTimesOut
