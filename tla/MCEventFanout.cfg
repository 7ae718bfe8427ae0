CONSTANTS
  Requests <- MCRequests
  Passthrough <- MCPassthrough
  Dashboards <- MCDashboards
  Browsers <- MCBrowsers
  MaxAttempts = 2
  InCap = 1
  SubCap = 1
  MaxTicks = 1
SPECIFICATION FairSpec
INVARIANTS
  NoSendOnClosed
  LostOnlyWhenFull
  LatestIsFinal
PROPERTY
  RequestsEnd
