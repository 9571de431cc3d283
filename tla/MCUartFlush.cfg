SPECIFICATION Spec
CONSTANTS
  Delay = 6
  CountMax = 65535
  HalfMax = 7
  Pins <- EightPins
  BaudPeriod = 4
  WordBits = 2
  BootAddrDefault = 11
  Images <- UartImages
  RtcPeriod = 5
  MaxStall = 0
  MaxEdges = 0
INVARIANT FlushedMeansSent
