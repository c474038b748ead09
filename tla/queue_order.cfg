SPECIFICATION Spec
CONSTANTS
  NULL = NULL
  b1 = b1
  i1 = i1
  k1 = k1
  k2 = k2
  q1 = q1
  q2 = q2
  v1 = v1
  v2 = v2
  x1 = x1
  x2 = x2
  ArgOf <- KernelWrites
  View <- MappedView
  ContextOf <- Contexts
  InOrder = {q1}
  OutOfOrder = {q2}
  Buffers = {}
  Images = {}
  Mappable = {}
  Shared = {b1}
  Kernels = {k2}
  Arrays = {}
  Wrappers = {w1, w2}
  MaxCommands = 3
  Careful = FALSE
INVARIANTS TypeOK OrderKept KnownIsOver
CHECK_DEADLOCK FALSE
