SPECIFICATION Spec
CONSTANTS
  Nodes = {n1, n2, n3, n4}
  Lists = {l1, l2}
  NULL = NULL
INVARIANTS
  WellLinked
  SizeCounts
PROPERTIES
  ImplementsListSpec
