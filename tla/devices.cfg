SPECIFICATION Spec
CONSTANTS
  NULL = NULL
  p1 = p1
  p2 = p2
  cpu = cpu
  gpu = gpu
  acc = acc
  gpu2 = gpu2
  Garbage = Garbage
  Platforms = {p1, p2}
  Listing <- Listed
  Supports <- Has
  GPUs = {gpu, gpu2}
  QueueProps <- CanQueue
  Contexts = {c1}
  Slots = 2
INVARIANTS TypeOK DefaultPrefersGPU GLNeedsEnabling
PROPERTIES EnablingSticks
