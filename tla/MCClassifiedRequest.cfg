CONSTANTS
  MaxRetries = 1
  AlertMaxRounds = 1
  RequireLength = TRUE
  PreferDry = FALSE
  Requests <- MCRequests
  Generations <- MCGenerations
SPECIFICATION HSpec
INVARIANTS
  FirstRejectionReported
  ReplyCarriesResult
PROPERTIES
  KeepsPromise
  NoGoroutineLeak
