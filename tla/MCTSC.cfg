\* Two call objects at a time, every order of requests, replies and time-outs.
SPECIFICATION FairTSCSpec
CONSTANTS
  None = None
  Words = {"AHY", "ACKV", "GTC", "ACKX", "CLEAR"}
  RxWords = {"ACKI", "other", "unknown"}
  Data = {"c1", "c2"}
  Texts = {"G1ABC"}
  Bursts <- TSCBursts
  MaxLen = 1
  SlotTimeout = 4
  FrameSlots = 5
  MaxQueue = 6
  RaQueue = 2
INVARIANTS
  TSCTypeOK
  OneOutcome
  NoStrandedTraffic
  WindowKept
PROPERTIES
  ServiceSpec
  CallDecided
  GrantCarried
  BackToControl
  MovesOn
