CONSTANTS
  p1 = p1
  p2 = p2
  t1 = t1
  t2 = t2
  r1 = r1
  r2 = r2
  r3 = r3
  n1 = n1
  n2 = n2
  n3 = n3
  o1 = o1
  Participants <- MCParticipants
  Tables = {t1, t2}
  Records <- MCRecords
  Properties = {n1, n2, n3}
  ProposalIds = {o1}
  Types = {"NUMBER"}
  Schemas <- MCSchemas
  Timestamps = {1, 2, 3, 4}
  ProposalPayloads = {}
  AnswerPayloads = {}
  Nobody = Nobody
  NoRecord = NoRecord
  PROPERTY_PAGE_MAX_LENGTH = 4
  BatchIds <- MCBatches
  Content <- MCContent
  Refusable <- MCRefusable
  Late <- MCLate
  Asks <- MCAsks
  Catalogue <- MCCatalogue
  GivenTables = {t1}
  GivenRecords <- MCGiven
SPECIFICATION RequestsSpec
INVARIANTS
  RequestsTypeOK
  UpdatesWhole
  DeletedAsAsked
PROPERTIES
  RequiredReported
  RequestsAnswered
CHECK_DEADLOCK FALSE
