CONSTANTS
  MaxRetries = 1
  AlertMaxRounds = 1
  RequireLength = TRUE
  PreferDry = TRUE
  Requests <- MCRequests
  Generations <- MCGenerations
SPECIFICATION Spec
INVARIANT ErrorForwardedAsIs
