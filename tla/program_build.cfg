SPECIFICATION Spec
CONSTANTS
  NumDevices = 2
  MaxBuilds = 2
INVARIANTS TypeOK SuccessIsReal
PROPERTIES BuildsKept
