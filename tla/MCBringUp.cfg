SPECIFICATION Spec
CONSTANTS
  Programs <- BringUpPrograms
  MaxDenied = 1
PROPERTY JobStarts
