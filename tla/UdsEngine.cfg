SPECIFICATION FairSpec
CONSTANTS
  p1 = p1
  p2 = p2
  Payloads = {p1, p2}
  Requests <- AllRequests
  QueueSize = 2
  P2 = 2
  P2Star = 1
  SaMax = 1
  ClockMod = 3
  MaxSeeds = 1
  StallSids <- SomeStall
INVARIANTS
  TypeOK
  OneJobAtATime
  JobSeesItsRequest
  JobKeepsItsRights
  LevelFitsSession
  SeedUsedOnce
  AttemptsBounded
PROPERTIES
  KeyNeverLowers
  AnswerNamesItsJob
  GiveUpReports
  JobsFinish
