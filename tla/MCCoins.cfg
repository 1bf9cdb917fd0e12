CONSTANTS
  p1 = p1
  p2 = p2
  o1 = o1
  Participants = {p1, p2}
  Tables = {}
  Records = {}
  Properties = {}
  ProposalIds = {o1}
  Types = {}
  Schemas <- NoSchemas
  Timestamps = {}
  ProposalPayloads <- CoinProposals
  AnswerPayloads <- CoinAnswers
  Nobody = Nobody
  NoRecord = NoRecord
  PROPERTY_PAGE_MAX_LENGTH = 3
  Amounts <- SignedAmounts
  MaxCoins = 2
  MaxHistory = 0
  MaxReporters = 0
SPECIFICATION MCSpec
SYMMETRY ParticipantSymmetry
PROPERTIES
  NoOverdraft
  ExchangesBooked
  TransfersBalanced
CHECK_DEADLOCK FALSE
