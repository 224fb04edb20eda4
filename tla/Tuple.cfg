SPECIFICATION Spec
CONSTANTS
  NoIp = NoIp
  Absent = Absent
  MaxEnd = 18
  Frames <- ReceivedFrames
\* A packet ends when its line is printed.
CHECK_DEADLOCK FALSE
INVARIANT AgreesWithPacket
INVARIANT TupleTrue
INVARIANT IpSeen
