SPECIFICATION Spec
CONSTANTS
  Programs <- PresentPrograms
  MaxDenied = 3
INVARIANTS
  NoMismatch
  NothingDropped
  CompletionAwaited
PROPERTY ProgramEnds
