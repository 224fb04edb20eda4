\* Two CPUs, four kinds of packet, a ring buffer of two records, three reservations: it fills up,
\* wraps, and records are submitted out of order.
SPECIFICATION Spec
CONSTANTS
  CPUs = {c1, c2}
  Skbs <- MCSkbs
  Cfg <- MCCfgMark
  Stale = Stale
  NoSkb = NoSkb
  Capacity = 2
  MaxEvents = 3
INVARIANTS
  TypeOK
  PrintedTruthfully
  PrintedAgreesWithFilter
  TimesOrderedPerCpu
  BusyIsOwned
PROPERTIES
  ImplementsTraceLog
CHECK_DEADLOCK FALSE
