CONSTANTS
  p1 = p1
  p2 = p2
  t1 = t1
  r1 = r1
  n1 = n1
  n2 = n2
  o1 = o1
  Participants = {p1, p2}
  Tables = {t1}
  Records = {r1}
  Properties = {n1, n2}
  ProposalIds = {o1}
  Types = {"NUMBER"}
  Schemas <- VariedSchemas
  Timestamps = {1, 2}
  ProposalPayloads <- ReporterProposals
  AnswerPayloads <- ReporterAnswers
  Nobody = Nobody
  NoRecord = NoRecord
  PROPERTY_PAGE_MAX_LENGTH = 3
  Amounts = {0}
  MaxCoins = 0
  MaxHistory = 2
  MaxReporters = 2
SPECIFICATION MCSpec
SYMMETRY NameSymmetry
INVARIANTS
  ServedValuesConcur
  PagesOrdered
PROPERTIES
  SchemaHonoured
CHECK_DEADLOCK FALSE
