SPECIFICATION Spec
CONSTANTS
  Subordinates = {"PERIPH", "ERROR", "BANK"}
  Reach <- MCReach
INVARIANTS
  TypeOK
  CountsOutstanding
  AnswersReachTheirManagers
  UnservedRequestsStay
PROPERTIES
  ServesUser
  NoStarvation
