SPECIFICATION Spec
CONSTANTS
  Lens <- MCLens
\* init returns when both link types are done.
CHECK_DEADLOCK FALSE
INVARIANT NothingLeaks
PROPERTY PreparesFilters
