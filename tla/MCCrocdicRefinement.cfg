SPECIFICATION FairSpec
CONSTANTS
  ITER = 2
  Data <- MCData
  Zero = 0
  NoData = NoData
  Unary <- MCUnary
  Atan <- MCAtan
  NumWords = 4
  InitMem <- MCInitMem
  Requests <- MCRequests
  MaxDenied = 2
  MaxJobs = 2
  Prime = 61
  OperationWrites = {2}
  AddressWrites = {8}
  NumberWrites = {3}
PROPERTY ImplementsJob
