SPECIFICATION Spec
CONSTANTS
  NoIp = NoIp
  Absent = Absent
  MaxEnd = 18
  Frames <- WholeFrames
\* A packet ends when its line is printed.
CHECK_DEADLOCK FALSE
INVARIANT ShownAsHelpSays
