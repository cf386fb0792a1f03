SPECIFICATION Spec
CONSTANTS
  Unset = Unset Unknown = Unknown Ttl = 2
  Name <- MCName Paths <- MCPaths Layouts <- MCLayouts MappingLists <- MCMappingLists
  AudioLists <- MCAudioLists Groups <- MCGroups Pictures <- MCPictures
  LookupLists <- MCLookupLists Situations <- MCSituations
INVARIANTS OutputsAreSafe MappedPathsAgree MediaIsJudgedByContent IndexIsReused UsersAreTold
CHECK_DEADLOCK FALSE
