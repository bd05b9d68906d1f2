\* A text typed while the one before it is handed to the modem.
SPECIFICATION ChannelSpec
CONSTANTS
  None = None
  Words = {"msg"}
  RxWords = {"reply"}
  Data = {"d"}
  Texts = {"G1ABC", "G1XYZ"}
  Bursts <- MCBursts
  MaxLen = 2
  SlotTimeout = 4
  FrameSlots = 5
  MaxQueue = 1
PROPERTY TextKept
