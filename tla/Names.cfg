SPECIFICATION Spec
CONSTANTS
  eth0 = eth0
  lo = lo
  none = none
  Pids = {1, 3}
  ProcNames = {ping, curl}
  Namespaces = {7, 9}
  Current = 7
  Indexes = {1, 2}
  IfNames = {eth0, lo}
  InitIfs <- MCInitIfs
  FilterIf <- MCFilterIf
  None = none
  Number = number
  MaxChanges = 2
INVARIANT ProcNameHeld
INVARIANT OneNamePerPid
INVARIANT IfaceNameHeld
INVARIANT OneNamePerIface
INVARIANT IfaceNamed
