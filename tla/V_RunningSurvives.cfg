CONSTANTS
  Hosts <- OneHost
  Names <- TwoNames
  AutoStart <- LocalOnly
  Optional <- Provider
  Switches <- MCSwitches
  Default <- MCDefault
  MaxStarts = 2
  MaxFaults = 0
SPECIFICATION FairSpec
PROPERTY RunningSurvives
