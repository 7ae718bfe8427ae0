CONSTANTS
  Choices <- MCChoices
  Models <- MCModels
  Catalogs <- MCCatalogs
  Polls <- MCPolls
  Posts <- MCPosts
  Loads <- MCLoads
  MaxChanges = 1
SPECIFICATION FairSpec
PROPERTIES
  PageSettles
  MenuIsLeftAlone
  PickerFills
