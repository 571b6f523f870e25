SPECIFICATION Spec
CONSTANTS
  Cells = {c1, c2, c3}
  NULL = NULL
  Lists = {l1, l2}
  Topics <- MCTopics
  ByHand = {FALSE, TRUE}
  MaxSize = 4
INVARIANTS
  TypeOK
  Owned
  Chained
  Counted
PROPERTIES
  Simulates
SYMMETRY MCSymmetry
CHECK_DEADLOCK FALSE
