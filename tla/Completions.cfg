SPECIFICATION FairSpec
CONSTANTS
  Requests = {r1, r2}
  RequestIds = {i1, i2}
  None = None
  PromptTokens = 2
  MaxTokens = 3
  DbFaults = TRUE
INVARIANTS
  TypeOK
  GaugeFollowsRequests
  HttpMatchesInference
  CountersMatchHistory
  AnswersAreLogged
  TokensMatchUsage
  DeltasSpellText
  DoneMeansComplete
PROPERTIES
  CallsAreAnswered
  StreamsEnd
CHECK_DEADLOCK FALSE
