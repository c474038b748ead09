SPECIFICATION Spec
CONSTANTS
  NULL = NULL
  b1 = b1
  i1 = i1
  k1 = k1
  k2 = k2
  q1 = q1
  q2 = q2
  v1 = v1
  v2 = v2
  x1 = x1
  x2 = x2
  ArgOf <- KernelWrites
  View <- MappedView
  ContextOf <- Contexts
  InOrder = {}
  OutOfOrder = {q2}
  Buffers = {b1}
  Images = {i1}
  Mappable = {b1, i1}
  Shared = {}
  Kernels = {k1, k2}
  Arrays = {a1}
  Wrappers = {w1}
  MaxCommands = 3
  Careful = TRUE
INVARIANTS ReadsAreSequential
CHECK_DEADLOCK FALSE
