----------------------------- MODULE DiskInfo2 -----------------------------
(***************************************************************************)
(* a3/diskinfo-2.c: the older variant of diskinfo.  It decodes the table   *)
(* by itself, and looks for files in the root only.                        *)
(***************************************************************************)
EXTENDS DiskInfo

VARIABLES
  older,            \* where it is: "off", "done" or "astray"
  diskVolumeLabel,  \* the slot of the entry it prints
  freeSizeOfDisk,   \* in clusters
  numOfFiles

olderVars == <<older, diskVolumeLabel, freeSizeOfDisk, numOfFiles>>

OlderInit ==
  /\ older = "off"
  /\ diskVolumeLabel = NoLabel
  /\ freeSizeOfDisk = 0
  /\ numOfFiles = 0

\* Entry n of the table at p: the bits that are masked off, then the shifts.
goThroughFATEntries(p, n) ==
  LET b == (3 * n) \div 2
  IN  IF n % 2 # 0 THEN ((p[b] - (p[b] % 16)) \div 16) + 16 * p[b + 1]
                   ELSE 256 * (p[b + 1] % 16) + p[b]

\* A byte is read as a signed char.
Signed(byte) == IF byte < 128 THEN byte ELSE byte - 256

\* total_num_sectors: the two bytes of TotalSectors.
OlderSectors == 256 * Signed(TotalSectors \div 256) + Signed(TotalSectors % 256)

\* The loop's bound is computed from that.
OlderFree ==
  Cardinality({i \in 2 .. OlderSectors - (17 + RootSectors) - 1 : goThroughFATEntries(FAT, i) = FreeMark})

\* Only an entry with no attribute but that of labels matches.
fetchDiskVolumeLable(S) ==
  LET matches == {s \in S \ flagged : entry[s].kind \in {"label", "deletedLabel"}}
  IN  IF matches = {} THEN NoLabel ELSE LastOf(matches)

\* Mutant of totalNumOfFiles: subdirectories are counted, too.
CountDirs(S) == Cardinality({s \in S \ flagged : entry[s].kind \notin {"label", "deletedLabel"}})

\* Entries without the attributes of labels and directories that are not hidden:
\* the test for others to skip asks for a cluster that is 0 and 1, and is never met.
totalNumOfFiles(S) == Cardinality({s \in S \ flagged : entry[s].kind \in {"file", "deletedFile"}})

RunOlder ==
  /\ older = "off"
  /\ IF RootHasEnd
     THEN /\ older' = "done"
          /\ diskVolumeLabel' = fetchDiskVolumeLable(Scanned)
          /\ freeSizeOfDisk' = OlderFree
          /\ numOfFiles' = totalNumOfFiles(Scanned)
     ELSE older' = "astray" /\ UNCHANGED <<diskVolumeLabel, freeSizeOfDisk, numOfFiles>>
=============================================================================
