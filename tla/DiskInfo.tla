------------------------------ MODULE DiskInfo ------------------------------
(***************************************************************************)
(* a3/diskinfo.c: the label, the free space and the number of files of a   *)
(* disk image.  The recursion of parse_sub is the stack frames: each frame *)
(* is a cluster of the directory being parsed, the entry looked at, and    *)
(* the count so far.  Reading the image never changes it.                  *)
(***************************************************************************)
EXTENDS Volume

VARIABLES
  info,     \* where diskinfo is: "off", "counting", "done", or "astray"
  label,    \* diskLabel: the slot of the entry it prints
  free,     \* the number of free clusters it prints
  cursor,   \* temp: the slot of the root it looks at
  frames,   \* the calls of parse_sub, innermost last
  count     \* the number of files found through the root so far

infoVars == <<info, label, free, cursor, frames, count>>

NoLabel == 0

InfoInit ==
  /\ info = "off"
  /\ label = NoLabel
  /\ free = 0
  /\ cursor = 1
  /\ frames = <<>>
  /\ count = 0

\* totalDiskSize, in sectors: the root begins at sector 19.
TotalSectors == 19 + RootSectors + LastCluster - 1

\* Mutant of countEmptyFATentries: the loop leaves out the last cluster.
CountOneLess ==
  Cardinality({i \in 2 .. TotalSectors - (17 + RootSectors) - 2 : get_FAT_entry(FAT, i) = FreeMark})

\* The loop's bound is 31 sectors before the end of a floppy, whose root has 14.
countEmptyFATentries ==
  Cardinality({i \in 2 .. TotalSectors - (17 + RootSectors) - 1 : get_FAT_entry(FAT, i) = FreeMark})

\* Not a file or a subdirectory; the root has no "." to skip.
Skipped(e, kinds) == e.loc \in {0, 1} \/ e.kind \in kinds

SkippedInRoot(e) == Skipped(e, {"label"} \union Deleted)
SkippedInSub(e) == Skipped(e, {"label", "dot"} \union Deleted)

IsFile(e) == e.kind = "file"

\* The entries a scan of the root passes: it ends at the first unused entry.
Scanned == {s \in Slot : \A t \in 1 .. s : entry[t].kind # "end"}

LastOf(S) == CHOOSE s \in S : \A t \in S : t <= s

\* Mutant of LabelAmong: the pointer moves on before an entry is looked at.
LabelBehindFirst(S) ==
  LET matches == {s \in S \ {1} : entry[s].kind \in {"label", "deletedLabel"}}
  IN  IF matches = {} THEN NoLabel ELSE LastOf(matches)

\* The test looks at the attributes, which a deleted entry keeps, and not at the
\* first byte; each match overwrites the one before.
LabelAmong(S) ==
  LET matches == {s \in S : entry[s].kind \in {"label", "deletedLabel"}}
  IN  IF matches = {} THEN NoLabel ELSE LastOf(matches)

\* The first byte of an unused entry is zero, which is what ends every scan.
RootHasEnd == Holds(Root, {"end"}) # {}

StartInfo ==
  /\ info = "off"
  /\ RootHasEnd
  /\ info' = "counting"
  /\ label' = LabelAmong(Scanned)
  /\ free' = countEmptyFATentries
  /\ UNCHANGED <<cursor, frames, count>>

\* No entry of the root is unused: the scan for the label, the first of all, goes
\* on into what files contain, and all others after it.  What becomes of that is
\* decided by bytes that are not modelled, so it is not followed.
Astray ==
  /\ info = "off"
  /\ ~RootHasEnd
  /\ info' = "astray"
  /\ UNCHANGED <<label, free, cursor, frames, count>>

-----------------------------------------------------------------------------
(* print_num_of_files *)

AtRoot == frames = <<>> /\ cursor \in Slot

Call(loc) == [next |-> loc, i |-> 0, total |-> 0]

RootSkip ==
  /\ AtRoot
  /\ entry[cursor].kind # "end"
  /\ SkippedInRoot(entry[cursor])
  /\ cursor' = cursor + 1
  /\ UNCHANGED <<info, label, free, frames, count>>

RootFile ==
  /\ AtRoot
  /\ ~SkippedInRoot(entry[cursor])
  /\ IsFile(entry[cursor])
  /\ count' = count + 1
  /\ cursor' = cursor + 1
  /\ UNCHANGED <<info, label, free, frames>>

RootDir ==
  /\ AtRoot
  /\ ~SkippedInRoot(entry[cursor])
  /\ ~IsFile(entry[cursor])
  /\ frames' = <<Call(entry[cursor].loc)>>
  /\ cursor' = cursor + 1
  /\ UNCHANGED <<info, label, free, count>>

RootEnd ==
  /\ AtRoot
  /\ entry[cursor].kind = "end"
  /\ info' = "done"
  /\ UNCHANGED <<label, free, cursor, frames, count>>

-----------------------------------------------------------------------------
(* parse_sub *)

Depth == Len(frames)
Top == frames[Depth]
TopSlot == SlotAt(Top.next, Top.i)

\* The loops over a cluster of the chain and over its entries have work to do.
AtEntry ==
  /\ frames # <<>>
  /\ InChain(Top.next)
  /\ Top.i < EntriesPerSector
  /\ TopSlot \in Slot

SubSkip ==
  /\ AtEntry
  /\ SkippedInSub(entry[TopSlot])
  /\ frames' = [frames EXCEPT ![Depth].i = @ + 1]
  /\ UNCHANGED <<info, label, free, cursor, count>>

SubFile ==
  /\ AtEntry
  /\ ~SkippedInSub(entry[TopSlot])
  /\ IsFile(entry[TopSlot])
  /\ frames' = [frames EXCEPT ![Depth].i = @ + 1, ![Depth].total = @ + 1]
  /\ UNCHANGED <<info, label, free, cursor, count>>

SubDir ==
  /\ AtEntry
  /\ ~SkippedInSub(entry[TopSlot])
  /\ ~IsFile(entry[TopSlot])
  /\ frames' = Append([frames EXCEPT ![Depth].i = @ + 1], Call(entry[TopSlot].loc))
  /\ UNCHANGED <<info, label, free, cursor, count>>

\* Mutant of FollowChain: the same cluster again.
StayInCluster == frames' = [frames EXCEPT ![Depth].i = 0]

FollowChain ==
  frames' = [frames EXCEPT ![Depth].i = 0, ![Depth].next = get_FAT_entry(FAT, @)]

SubNextCluster ==
  /\ frames # <<>>
  /\ InChain(Top.next)
  /\ Top.i = EntriesPerSector
  /\ FollowChain
  /\ UNCHANGED <<info, label, free, cursor, count>>

\* Mutant of GiveBack: a nested call's count is lost.
DropNested ==
  IF Depth = 1 THEN frames' = <<>> /\ count' = count + Top.total
  ELSE frames' = SubSeq(frames, 1, Depth - 1) /\ UNCHANGED count

\* The caller adds the count: the enclosing parse_sub, or print_num_of_files.
GiveBack ==
  IF Depth = 1 THEN frames' = <<>> /\ count' = count + Top.total
  ELSE /\ frames' = [SubSeq(frames, 1, Depth - 1) EXCEPT ![Depth - 1].total = @ + Top.total]
       /\ UNCHANGED count

SubReturn ==
  /\ frames # <<>>
  /\ ~InChain(Top.next)
  /\ GiveBack
  /\ UNCHANGED <<info, label, free, cursor>>

-----------------------------------------------------------------------------

InfoStep ==
  \/ StartInfo
  \/ Astray
  \/ /\ info = "counting"
     /\ \/ RootSkip
        \/ RootFile
        \/ RootDir
        \/ RootEnd
        \/ SubSkip
        \/ SubFile
        \/ SubDir
        \/ SubNextCluster
        \/ SubReturn
=============================================================================
