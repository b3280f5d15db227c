------------------------------- MODULE Volume -------------------------------
(***************************************************************************)
(* The FAT12 disk images that a3/diskinfo.c and a3/disklist.c read: a root *)
(* directory of fixed size, then data clusters of one sector each, which   *)
(* hold the contents of files or further directory entries.  The images    *)
(* are those an operating system can leave behind by creating and deleting *)
(* files and directories; it is not part of the repository.                *)
(*                                                                         *)
(* A slot is the place of one 32-byte directory entry, numbered from the   *)
(* start of the root through the data clusters, whatever they hold.  The   *)
(* number of its slot stands for the name in an entry.  A cluster that is  *)
(* freed reads as cleared: of the scans that are followed here only the    *)
(* printing of the root in a3/disklist.c, behind a root that is in use     *)
(* into its last sector, looks at any, and what it prints there is wrong   *)
(* either way.                                                             *)
(***************************************************************************)
EXTENDS Fat12, FiniteSets, Sequences

CONSTANTS
  RootSectors,       \* sectors of the root directory, 14 on a floppy
  EntriesPerSector,  \* directory entries in a sector, 16 in the code
  LastCluster,       \* the data clusters are 2 .. LastCluster
  MaxChanges         \* the bound on the changes made to a formatted disk

ASSUME VolumeAssumption ==
  /\ RootSectors \in Nat \ {0}
  /\ RootSectors < 4096          \* 16 bits count its entries, of which 16 are a sector
  /\ EntriesPerSector \in Nat \ {0}
  /\ LastCluster \in 2 .. 4079   \* what 12 bits leave for data
  /\ MaxChanges \in Nat

Cluster == 2 .. LastCluster
Root == 0
RootSlots == RootSectors * EntriesPerSector
Slot == 1 .. RootSlots + (LastCluster - 1) * EntriesPerSector

\* The sector of a cluster, counted from the start of the root: sector 31 + c of
\* the disk, where the root starts at sector 19 and has 14 sectors.
SlotAt(c, i) == (RootSectors + c - 2) * EntriesPerSector + i + 1

ClusterOf(s) == (s - 1) \div EntriesPerSector - RootSectors + 2

SlotsOf(c) == {SlotAt(c, i) : i \in 0 .. EntriesPerSector - 1}

VARIABLES
  entry,   \* the directory entry in each slot: what it is, and its first cluster
  link,    \* the file allocation table
  owner,   \* the slot of the file or directory each cluster belongs to, or none
  flagged, \* the slots of the root whose entries have one more attribute
  changes  \* the number of changes so far

volume == <<entry, link, owner, flagged, changes>>

FAT == Pack(link, LastCluster)

NoCluster == 0
Unowned == 0
EndEntry == [kind |-> "end", loc |-> NoCluster]

\* A freshly formatted disk; the first two table entries belong to no cluster.
VolumeInit ==
  /\ entry = [s \in Slot |-> EndEntry]
  /\ link = [c \in 0 .. LastCluster |-> IF c = 0 THEN 4080 ELSE IF c = 1 THEN EndMark ELSE FreeMark]
  /\ owner = [c \in Cluster |-> Unowned]
  /\ flagged = {}
  /\ changes = 0

-----------------------------------------------------------------------------
(* What the image means *)

\* A deleted entry has a mark for the first byte of its name and is otherwise as
\* it was, with the attributes of what it has been.
Gone(kind) ==
  CASE kind = "file" -> "deletedFile" [] kind = "dir" -> "deletedDir" [] kind = "label" -> "deletedLabel"

Deleted == {"deletedFile", "deletedDir", "deletedLabel"}

\* The slots of a directory, which is named by the slot of its entry.
Contents(d) ==
  IF d = Root THEN 1 .. RootSlots ELSE UNION {SlotsOf(c) : c \in {x \in Cluster : owner[x] = d}}

Dirs == {Root} \union {s \in Slot : /\ entry[s].kind = "dir"
                                    /\ \E c \in Cluster : owner[c] = s}

Holds(d, kinds) == {s \in Contents(d) : entry[s].kind \in kinds}

Files == UNION {Holds(d, {"file"}) : d \in Dirs}

-----------------------------------------------------------------------------
(* The operating system *)

FreeClusters == {c \in Cluster : owner[c] = Unowned}

\* The first element of a set of numbers, if it has one.
First(S) == {s \in S : \A t \in S : s <= t}

\* A new entry goes to the first slot that is unused or has a deleted entry.
Usable(d) == First(Holds(d, {"end"} \union Deleted))

\* Contents go to the first free cluster.
Available == First(FreeClusters)

Labels == Holds(Root, {"label"})

Label ==
  /\ Labels = {}
  /\ \E s \in Usable(Root) : entry' = [entry EXCEPT ![s] = [kind |-> "label", loc |-> NoCluster]]
  /\ UNCHANGED <<link, owner>>

Unlabel ==
  /\ \E s \in Labels : entry' = [entry EXCEPT ![s].kind = Gone(@)]
  /\ UNCHANGED <<link, owner>>

MakeEmptyFile(s) ==
  /\ entry' = [entry EXCEPT ![s] = [kind |-> "file", loc |-> NoCluster]]
  /\ UNCHANGED <<link, owner>>

\* What is in a file may look like anything.  It is read in place of entries only
\* behind the end of a full root, and followed there only by print_entire_image of
\* a3/disklist.c, for which it looks like the entries of files here.
MakeFile(s, c) ==
  /\ entry' = [t \in Slot |-> IF t = s \/ t \in SlotsOf(c) THEN [kind |-> "file", loc |-> c]
                              ELSE entry[t]]
  /\ link' = [link EXCEPT ![c] = EndMark]
  /\ owner' = [owner EXCEPT ![c] = s]

\* The first cluster of a directory begins with ".", which is the directory
\* itself (and stands for ".." too), and is otherwise cleared.
MakeDir(s, c) ==
  /\ entry' = [t \in Slot |->
                 CASE t = s -> [kind |-> "dir", loc |-> c]
                   [] t = SlotAt(c, 0) -> [kind |-> "dot", loc |-> c]
                   [] t \in SlotsOf(c) \ {SlotAt(c, 0)} -> EndEntry
                   [] OTHER -> entry[t]]
  /\ link' = [link EXCEPT ![c] = EndMark]
  /\ owner' = [owner EXCEPT ![c] = s]

\* A directory without an unused slot gets another, cleared cluster.
Extend(d, c) ==
  /\ d # Root
  /\ Holds(d, {"end"}) = {}
  /\ \E last \in Cluster :
       /\ owner[last] = d
       /\ link[last] = EndMark
       /\ link' = [link EXCEPT ![last] = c, ![c] = EndMark]
  /\ entry' = [t \in Slot |-> IF t \in SlotsOf(c) THEN EndEntry ELSE entry[t]]
  /\ owner' = [owner EXCEPT ![c] = d]

\* A file or an empty directory: its clusters are free again, and read as cleared.
\* The entry still names a cluster, and which one makes no difference.
Delete(s) ==
  /\ entry[s].kind = "dir" => Holds(s, {"file", "dir"}) = {}
  /\ entry' = [t \in Slot |->
                 CASE t = s -> [kind |-> Gone(entry[s].kind),
                                loc |-> IF entry[s].loc = NoCluster THEN NoCluster ELSE 2]
                   [] t \in Contents(s) -> EndEntry
                   [] OTHER -> entry[t]]
  /\ link' = [c \in 0 .. LastCluster |->
                IF c \in Cluster /\ owner[c] = s THEN FreeMark ELSE link[c]]
  /\ owner' = [c \in Cluster |-> IF owner[c] = s THEN Unowned ELSE owner[c]]

ChangeEntries ==
  \/ Label
  \/ Unlabel
  \/ \E d \in Dirs :
       \/ \E s \in Usable(d) : \/ MakeEmptyFile(s)
                               \/ \E c \in Available : MakeFile(s, c) \/ MakeDir(s, c)
       \/ \E c \in Available : Extend(d, c)
       \/ \E s \in Holds(d, {"file", "dir"}) : Delete(s)

\* A file becomes hidden, or a label gets the mark of archived things that some
\* systems give it; what has such an attribute keeps it when it is deleted.
SetAttribute ==
  /\ \E s \in Holds(Root, {"file", "label"}) \ flagged : flagged' = flagged \union {s}
  /\ UNCHANGED <<entry, link, owner>>

KeepAttributes ==
  flagged' = {s \in flagged : entry'[s].kind \in {entry[s].kind} \union Deleted}

ChangeVolume ==
  /\ changes < MaxChanges
  /\ changes' = changes + 1
  /\ \/ ChangeEntries /\ KeepAttributes
     \/ SetAttribute
=============================================================================
