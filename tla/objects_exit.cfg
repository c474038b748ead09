SPECIFICATION FairSpec
CONSTANTS
  NULL = NULL
  Wrappers = {w1, w2}
  Handles = {h1, h2, h3}
  PlatformIds = {}
  DeviceIds = {}
  Kinds = {"context", "queue", "event"}
  MaxRefs = 2
  CarefulClient = TRUE

PROPERTIES ExitReleasesAll
