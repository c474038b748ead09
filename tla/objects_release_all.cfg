SPECIFICATION FairSpec
CONSTANTS
  NULL = NULL
  Wrappers = {w1, w2}
  Handles = {h1, h2}
  PlatformIds = {}
  DeviceIds = {}
  Kinds = {"context", "queue"}
  MaxRefs = 2
  CarefulClient = TRUE

PROPERTIES ReleaseAllVisitsEach
