CONSTANTS
  Any = Any
  Versions = {0, 1, 2}
  Fields <- SmallFields
SPECIFICATION Spec
INVARIANTS
  Installable
  ExactForSingles
CHECK_DEADLOCK FALSE
