SPECIFICATION Spec
CONSTANTS
  CommandLines <- MCCommandLines
  home = home
  other = other
  noNs = noNs
  self_path = self_path
  path = path
  empty = empty
  bad = bad
  eth0 = eth0
  lo = lo
  Namespaces = {home, other}
  NoNs = noNs
  Home = home
  Self = self_path
  NsFile <- MCNsFile
  InitPaths <- MCInitPaths
  OtherFiles <- MCOtherFiles
  Names = {eth0, lo}
  Indexes = {1, 2, 3}
  InitIfs <- MCInitIfs
  MaxChanges = 2
  U32 = 4
  ULong = 16
  Empty = empty
  Bad = bad
\* The options are read once.
CHECK_DEADLOCK FALSE
INVARIANT HomeAgain
INVARIANT NoFdLeft
INVARIANT IfindexOfTarget
INVARIANT FiltersAsAsked
