CONSTANTS
  Hosts <- BothHosts
  Names <- TwoNames
  AutoStart <- LocalOnly
  Optional <- Provider
  Switches <- MCSwitches
  Default <- MCDefault
  MaxStarts = 2
  MaxFaults = 1
SPECIFICATION FairSpec
INVARIANTS
  RunningMeansServing
  StoppedPortsFree
  SwitchesSurvive
PROPERTY StartupAndExitEnd
