CONSTANTS
  property = property
  page = page
  exchange = exchange
  Keys = {property, page}
  Pages = {page}
  PropertyOf <- PageOfProperty
  Exchanges = {}
  MAX_SAFE_INTEGER = 99
  Changes <- SomeChange
  MaxBlocks = 3
  Forking = FALSE
  Restarting = TRUE
  Failing = TRUE
  Overtaking = FALSE
SPECIFICATION MCSpec
INVARIANTS
  SyncedAtRest
  ReadersCurrent
CHECK_DEADLOCK FALSE
