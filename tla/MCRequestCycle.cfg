CONSTANTS
  MaxRetries = 1
  AlertMaxRounds = 2
  RequireLength = TRUE
  PreferDry = TRUE
  Requests <- MCRequests
  Generations <- MCGenerations
SPECIFICATION FairSpec
INVARIANTS
  TypeOK
  AnswerIsKeptRounds
  UsageIsKeptRounds
  RejectedFollowUpKeepsAnswer
  ResultIsOneRound
  CallsBounded
PROPERTY CycleEnds
