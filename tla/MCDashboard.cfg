SPECIFICATION Spec
CONSTANTS
  Workflows <- ThreeWorkflows
  Limit = 2
CHECK_DEADLOCK FALSE
INVARIANTS
  LabelIsHonest NotStale
PROPERTIES
  LoadEnds
