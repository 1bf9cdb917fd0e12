CONSTANTS
  k1 = k1
  k2 = k2
  n1 = n1
  n2 = n2
  Keys <- MCKeys
  Content <- MCKeys
  Names <- MCNames
  BatchIds = {1, 2, 3}
  Asks <- MCAsks
  Refusable = {1}
  Late = {1, 2}
SPECIFICATION Spec
INVARIANTS
  TypeOK
  TablesInStep
  UsersRegistered
PROPERTIES
  PromiseKept
  RequestsEnd
CHECK_DEADLOCK FALSE
