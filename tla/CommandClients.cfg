SPECIFICATION FairSpec
CONSTANTS
  Targets <- MCTargets
  Tokens <- MCTokens
  MaxCommands = 2
  Window = 1
  MaxSessions = 1
  Life = 1
  MaxTime = 2
  MaxMessages = 3
  MaxRequests = 1
  MaxCrashes = 1
INVARIANTS TypeOK AnswersMatch RateIsLimited LoginsFindRoom
PROPERTY RequestsAreAnswered
