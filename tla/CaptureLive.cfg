\* Liveness: one packet on two CPUs, a ring buffer of two records and three
\* reservations, so that it fills up, events are lost, and records are
\* submitted out of order.
SPECIFICATION FairSpec
CONSTANTS
  CPUs = {c1, c2}
  Skbs <- MCSkbsOne
  Cfg <- MCCfgIface
  Stale = Stale
  NoSkb = NoSkb
  Capacity = 2
  MaxEvents = 3
PROPERTIES
  Delivered
  StopObserved
CHECK_DEADLOCK FALSE
