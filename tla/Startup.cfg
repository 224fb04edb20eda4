\* Tracing everything, some functions, or none that can be, with a signal at every point of the startup.
SPECIFICATION FairSpec
CONSTANTS
  Kernel <- MCKernel
  Loaded <- MCLoaded
  WithBtf <- MCWithBtf
  Unattachable <- MCUnattachable
  Budgets <- MCBudgets
  Regexes <- MCAny
INVARIANTS
  TypeOK
  ArgumentRight
  AttachedAll
  NothingLeft
  DependentsFirst
PROPERTY
  EarlyStopKept
\* The process ends, or hangs in the constructor that a signal re-entered.
CHECK_DEADLOCK FALSE
