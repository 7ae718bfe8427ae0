CONSTANTS
  Connections <- MCConnections
  Listed <- MCListed
  Unlisted <- MCUnlisted
  OpenHosts <- MCOpenHosts
  Listeners <- MCListeners
  Requests <- MCRequests
  MaxRequests = 2
  MaxBytes = 2
SPECIFICATION FairSpec
INVARIANTS
  SentAsAsked
  ServedToTheEnd
  NothingCut

  
