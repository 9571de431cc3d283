SPECIFICATION FairSpec
CONSTANTS
  ITER = 2
  Data <- MCData
  Zero = 0
  NoData = NoData
  Unary <- MCUnary
  Atan <- MCAtan
  NumWords = 2
  InitMem <- MCInitMem
  Requests <- MCRequests
  MaxDenied = 1
  MaxJobs = 1
  Prime = 3
  OperationWrites = {2}
  AddressWrites = {}
  NumberWrites = {5, 6, 7}
PROPERTY JobTerminates
