\* Every program of up to five functions with both stubs, filters shorter
\* than the stub, as long as it, and longer.
SPECIFICATION Spec
CONSTANTS
  Kind <- MCKind
  StubLen <- MCStubLen
  Lens <- MCLens
  SizeMod <- MCSizeMod
  Objects <- MCObjects
INVARIANTS
  CallsResolved
  BodiesWhole
  FiltersInstalled
\* The load ends.
CHECK_DEADLOCK FALSE
