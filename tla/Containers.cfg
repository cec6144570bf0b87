CONSTANTS
  Value      = {v1, v2}
  Capacities = {0, 1, 3}
  Node = {n1, n2, n3}
  Data = {d1, NULL}
  NULL = NULL
SPECIFICATION ContainersSpec
SYMMETRY MCSymmetry
CHECK_DEADLOCK FALSE
INVARIANT
  TypeOK
PROPERTIES
  IsBoundedStack
  IsQueue
