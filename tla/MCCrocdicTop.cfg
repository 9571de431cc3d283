SPECIFICATION Spec
CONSTANTS
  ITER = 2
  Data <- MCData
  Zero = 0
  NoData = NoData
  Unary <- MCUnary
  Atan <- MCAtan
  NumWords = 6
  InitMem <- MCInitMem
  Requests <- MCRequests
  MaxDenied = 2
  MaxJobs = 1
  Prime = 61
  OperationWrites = {2, 3}
  AddressWrites = {4, 12}
  NumberWrites = {5, 6}
INVARIANTS
  TypeOK
  CompletionMeansResults
  OutsideUntouched
  ResponseMatchesRequest
  EnginesInLockstep
  ParametersFrozen
  CounterInBounds
