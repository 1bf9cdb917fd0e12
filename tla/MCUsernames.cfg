CONSTANTS
  k1 = k1
  k2 = k2
  n1 = n1
  n2 = n2
  Keys <- MCKeys
  Content <- MCKeys
  Names <- MCNames
  BatchIds = {1, 2, 3, 4}
  Asks <- MCRenames
  Refusable = {}
  Late = {}
SPECIFICATION Spec
INVARIANTS
  UsernamesUnique
CHECK_DEADLOCK FALSE
