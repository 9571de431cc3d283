SPECIFICATION Spec
CONSTANTS
  Delay = 6
  CountMax = 65535
  HalfMax = 7
  Pins <- EightPins
  BaudPeriod = 4
  WordBits = 2
  BootAddrDefault = 11
  Images <- AllImages
  RtcPeriod = 5
  MaxStall = 2
  MaxEdges = 3
INVARIANTS
  TypeOK
  TestsPass
  BootsWhenWoken
  ReportIsFinal
  HaltIsFinal
  SleepsLongEnough
  PeriodKept
  TimeNotAhead
  NoSpuriousAlarm
  NoEdgeLost
  OnlyAskedEdges
  ConsoleShowsText
  ReceivedInOrder
PROPERTIES
  ProgramsEnd
  EdgesServed
  TextArrives
