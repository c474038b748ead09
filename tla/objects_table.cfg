SPECIFICATION Spec
CONSTANTS
  NULL = NULL
  Wrappers = {w1, w2, w3}
  Handles = {h1, h2}
  PlatformIds = {p1}
  DeviceIds = {d1}
  Kinds = {"platform", "device", "context", "sampler", "userEvent", "queue"}
  MaxRefs = 2
  CarefulClient = FALSE
SYMMETRY Symmetry
INVARIANTS TypeOK TableExact
