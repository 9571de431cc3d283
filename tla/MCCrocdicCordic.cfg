SPECIFICATION Spec
CONSTANTS
  Inputs <- MCInputs
  Grid = 127
INVARIANTS
  TypeOK
  MatchesSoftware
  AngleConverges
  Accurate
PROPERTY ImplementsUnit
