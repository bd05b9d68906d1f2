\* CLEARs left over from one call and the grant of the next.
SPECIFICATION TSCSpec
CONSTANTS
  None = None
  Words = {"AHY", "ACKV", "GTC", "ACKX", "CLEAR"}
  RxWords = {"ACKI", "other", "unknown"}
  Data = {"c1", "c2"}
  Texts = {"G1ABC"}
  Bursts <- TSCBursts
  MaxLen = 1
  SlotTimeout = 4
  FrameSlots = 5
  MaxQueue = 6
  RaQueue = 2
PROPERTY ClearsGivenUp
