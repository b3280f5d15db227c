SPECIFICATION Spec
CONSTANTS
  RootSectors = 2
  EntriesPerSector = 2
  LastCluster = 5
  PrintSectors = 3
  MaxChanges = 6
INVARIANT PathsLeadToDirectories
CHECK_DEADLOCK FALSE
