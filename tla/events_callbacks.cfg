SPECIFICATION Spec
CONSTANTS
  NULL = NULL
  Wrappers = {w1}
  UserWrappers = {u1}
  MaxEvents = 2
  MaxBatons = 2
  AsyncWaits = FALSE
  Types = {1}
PROPERTIES CallbacksKept BlockedReturns
