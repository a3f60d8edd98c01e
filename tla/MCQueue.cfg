SPECIFICATION Spec
CONSTANTS
  Threads = {t1, t2}
  Nodes = {n1, n2, n3}
  NULL = NULL
  Times = {0, 1, 2}
  Window = 1
  FixSize = 2
INVARIANTS ListIntact HeapExact FixBound
PROPERTY ImplementsFifo
CHECK_DEADLOCK FALSE
SYMMETRY Symmetry
