SPECIFICATION Spec
CONSTANTS
  NULL = NULL
  Wrappers = {w1, w2, w3}
  Handles = {h1, h2, h3}
  PlatformIds = {}
  DeviceIds = {}
  Kinds = {"context","mem","queue","event"}
  MaxRefs = 2
  CarefulClient = TRUE
SYMMETRY Symmetry
INVARIANTS RegisteredIsLive RuntimeRefsIntact OneWrapperPerObject
