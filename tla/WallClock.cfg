SPECIFICATION ClockSpec
CONSTANTS
  InitReal = 10
  Sec = 4
  Ms = 2
  MaxMono = 5
  MaxEvents = 3
  Shifts <- MCShifts
  MaxSets = 2
\* The clocks stop at their bound.
CHECK_DEADLOCK FALSE
INVARIANT DifferencesKept
INVARIANT RightIfSteady
