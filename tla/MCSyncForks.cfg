CONSTANTS
  property = property
  page = page
  exchange = exchange
  Keys = {property, exchange}
  Pages = {}
  PropertyOf <- NoPages
  Exchanges = {exchange}
  MAX_SAFE_INTEGER = 99
  Changes <- AnyChanges
  MaxBlocks = 3
  Forking = TRUE
  Restarting = FALSE
  Failing = FALSE
  Overtaking = TRUE
SPECIFICATION MCSpec
INVARIANTS
  TypeOK
  AbandonedGone
  BlocksFollow
PROPERTIES
  CaughtUp
CHECK_DEADLOCK FALSE
