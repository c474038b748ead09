SPECIFICATION Spec
CONSTANTS
  NULL = NULL
  Wrappers = {w1}
  UserWrappers = {u1}
  MaxEvents = 2
  MaxBatons = 2
  AsyncWaits = TRUE
  Types = {0}
INVARIANTS TypeOK FailureIsReal 
CHECK_DEADLOCK FALSE
