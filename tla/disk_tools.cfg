SPECIFICATION FairSpec
CONSTANTS
  RootSectors = 2
  EntriesPerSector = 2
  LastCluster = 5
  PrintSectors = 3
  MaxChanges = 6
INVARIANTS
  TypeOK
  FreeSpaceRight
  CountsStoredFiles
  ListsEachEntryOnce
  ParsesDirectories
  LabelIsCurrent
  ToolsAgree
PROPERTIES
  ToolsEnd
CHECK_DEADLOCK FALSE
