\* Whether a kernel module's functions are traced when no filter is given.
SPECIFICATION Spec
CONSTANTS
  Kernel <- MCKernel
  Loaded <- MCLoaded
  WithBtf <- MCWithBtf
  Unattachable <- MCUnattachable
  Budgets <- MCBudgetsLarge
  Regexes <- MCAll
INVARIANTS
  TracesAllSkbFuncs
CHECK_DEADLOCK FALSE
