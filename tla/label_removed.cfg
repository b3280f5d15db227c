SPECIFICATION Spec
CONSTANTS
  RootSectors = 2
  EntriesPerSector = 2
  LastCluster = 4
  PrintSectors = 3
  MaxChanges = 6
INVARIANT PrintsDiskLabel
CHECK_DEADLOCK FALSE
