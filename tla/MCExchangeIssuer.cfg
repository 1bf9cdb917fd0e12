CONSTANTS
  t1 = t1
  t2 = t2
  t3 = t3
  Participants <- MCTraders
  Tables = {}
  Records = {}
  Properties = {}
  ProposalIds <- MCIds
  Types = {}
  Schemas = {}
  Timestamps = {}
  ProposalPayloads = {}
  AnswerPayloads = {}
  Nobody = Nobody
  NoRecord = NoRecord
  PROPERTY_PAGE_MAX_LENGTH = 3
  BatchIds <- MCBatches
  Content <- MCContent
  Refusable = {}
  Late <- MCLate
  Seconds <- MCSeconds
  Asks <- MCAsks
  Credit <- MCCredit
  Balance <- MCBalance
  Standing <- MCStanding
  Unknown = Unknown
SPECIFICATION ExchangeSpec
INVARIANTS
  IssuersExchange
CHECK_DEADLOCK FALSE
