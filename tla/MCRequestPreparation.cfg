CONSTANTS
  Requests <- MCRequests
  Inputs <- MCInputs
  Images <- MCImages
  Strip <- MCStrip
  Prompts <- MCPrompts
  Buckets <- MCBuckets
  Priority <- MCPriority
  DefaultBucket = "general"
  Keywords <- MCKeywords
  PresetFields <- MCPresetFields
  ProviderModel = "configured"
  Models <- MCModels
  Restored <- MCRestored
  MaxRetries = 2
  Chunks = 1
  MaxSwitches = 1
SPECIFICATION FairSpec
INVARIANTS
  ClientIsHeard
  OnlyTextReaches
  CacheHoldsAnswers
  PassThroughIsWhole
PROPERTIES
  PreparationEnds
