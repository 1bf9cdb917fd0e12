CONSTANTS
  p1 = p1
  p2 = p2
  t1 = t1
  r1 = r1
  n1 = n1
  o1 = o1
  Participants = {p1, p2}
  Tables = {t1}
  Records = {r1}
  Properties = {n1}
  ProposalIds = {o1}
  Types = {"NUMBER"}
  Schemas <- PlainSchema
  Timestamps = {1}
  ProposalPayloads <- RecordProposals
  AnswerPayloads <- RecordAnswers
  Nobody = Nobody
  NoRecord = NoRecord
  PROPERTY_PAGE_MAX_LENGTH = 3
  Amounts = {0}
  MaxCoins = 0
  MaxHistory = 4
  MaxReporters = 3
SPECIFICATION MCSpec
SYMMETRY ParticipantSymmetry
INVARIANTS
  TypeOK
  Registered
  WellLinked
  ReportersIndexed
  Attributable
PROPERTIES
  ProvenanceKept
  AuthorsKept
  ReportsInForce
  FinalValuesKept
  OwnershipCarriesReporting
CHECK_DEADLOCK FALSE
