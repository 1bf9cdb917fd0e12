CONSTANTS
  property = property
  page = page
  exchange = exchange
  Keys = {property}
  Pages = {}
  PropertyOf <- NoPages
  Exchanges = {}
  MAX_SAFE_INTEGER = 99
  Changes <- AnyChanges
  MaxBlocks = 3
  Forking = TRUE
  Restarting = FALSE
  Failing = FALSE
  Overtaking = FALSE
SPECIFICATION MCSpec
INVARIANTS
  SyncedAtRest
CHECK_DEADLOCK FALSE
