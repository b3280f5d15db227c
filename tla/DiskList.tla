------------------------------ MODULE DiskList ------------------------------
(***************************************************************************)
(* a3/disklist.c: the listing of a disk image, one section per directory.  *)
(* out is what it prints: the header of a section with the path shown, or  *)
(* the line of an entry.  Each frame of the recursion of parse_sub prints  *)
(* the clusters of its directory first and then walks over them again to   *)
(* enter the subdirectories.                                               *)
(***************************************************************************)
EXTENDS DiskInfo

CONSTANT PrintSectors  \* sectors printed as the root, 19 in the code

\* The disk has these sectors.
ASSUME DiskListAssumption == PrintSectors \in 1 .. RootSectors + LastCluster - 1

VARIABLES
  list,        \* where disklist is: "off", "root", "walking" or "done"
  print_root,  \* the first slot of the sector of the root it prints
  shown,       \* the entries of a sector print_directory is past
  place,       \* temp: the slot of the root it looks at
  calls,       \* the calls of parse_sub, innermost last
  dir_path,    \* the one path buffer, shared by all calls
  out          \* the lines printed

listVars == <<list, print_root, shown, place, calls, dir_path, out>>

ListInit ==
  /\ list = "off"
  /\ print_root = 1
  /\ shown = 0
  /\ place = 1
  /\ calls = <<>>
  /\ dir_path = <<>>
  /\ out = <<>>

Header(s, path) == [what |-> "header", slot |-> s, path |-> path]
Line(s) == [what |-> "line", slot |-> s, path |-> <<>>]

-----------------------------------------------------------------------------
(* print_directory *)

\* The entry the loop over the sector at first is at, unless the loop is over: an
\* unused entry, or the end of the sector.
SectorShown(first) == shown < EntriesPerSector => entry[first + shown].kind = "end"

ShowEntry(first) ==
  /\ ~SectorShown(first)
  /\ shown' = shown + 1
  /\ out' = IF SkippedInSub(entry[first + shown]) THEN out ELSE Append(out, Line(first + shown))

-----------------------------------------------------------------------------
(* print_entire_image *)

StartList ==
  /\ list = "off"
  /\ list' = "root"
  /\ out' = <<Header(Root, <<>>)>>
  /\ UNCHANGED <<print_root, shown, place, calls, dir_path>>

\* Sectors are printed until one begins with an unused entry.
PrintsRoot ==
  /\ print_root <= PrintSectors * EntriesPerSector
  /\ entry[print_root].kind # "end"

PrintRootEntry ==
  /\ list = "root"
  /\ PrintsRoot
  /\ ShowEntry(print_root)
  /\ UNCHANGED <<list, print_root, place, calls, dir_path>>

NextRootSector ==
  /\ list = "root"
  /\ PrintsRoot
  /\ SectorShown(print_root)
  /\ print_root' = print_root + EntriesPerSector
  /\ shown' = 0
  /\ UNCHANGED <<list, place, calls, dir_path, out>>

RootPrinted ==
  /\ list = "root"
  /\ ~PrintsRoot
  /\ list' = "walking"
  /\ UNCHANGED <<print_root, shown, place, calls, dir_path, out>>

WalksRoot == list = "walking" /\ calls = <<>>

\* Mutant of Advance: temp stays where it is.
StayAtEntry == UNCHANGED place

Advance == place' = place + 1

RootHasMore == place <= RootSlots /\ entry[place].kind # "end"

PassRootEntry ==
  /\ WalksRoot
  /\ RootHasMore
  /\ SkippedInRoot(entry[place]) \/ IsFile(entry[place])
  /\ Advance
  /\ UNCHANGED <<list, print_root, shown, calls, dir_path, out>>

Visit(loc) == [flc |-> loc, next |-> loc, i |-> 0, pass |-> "print"]

\* The name overwrites the path buffer from its start.
EnterFromRoot ==
  /\ WalksRoot
  /\ RootHasMore
  /\ ~SkippedInRoot(entry[place])
  /\ ~IsFile(entry[place])
  /\ dir_path' = <<place>>
  /\ out' = Append(out, Header(place, dir_path'))
  /\ calls' = <<Visit(entry[place].loc)>>
  /\ Advance
  /\ UNCHANGED <<list, print_root, shown>>

RootWalked ==
  /\ WalksRoot
  /\ ~RootHasMore
  /\ list' = "done"
  /\ UNCHANGED <<print_root, shown, place, calls, dir_path, out>>

-----------------------------------------------------------------------------
(* parse_sub *)

Now == calls[Len(calls)]
NowSlot == SlotAt(Now.next, Now.i)

InPass(pass) == list = "walking" /\ calls # <<>> /\ Now.pass = pass

Follow(loc) == get_FAT_entry(FAT, loc)

PrintsCluster ==
  /\ InPass("print")
  /\ InChain(Now.next)
  /\ NowSlot \in Slot

PrintEntry ==
  /\ PrintsCluster
  /\ ShowEntry(NowSlot)
  /\ UNCHANGED <<list, print_root, place, calls, dir_path>>

PrintNextCluster ==
  /\ PrintsCluster
  /\ SectorShown(NowSlot)
  /\ calls' = [calls EXCEPT ![Len(calls)].next = Follow(@)]
  /\ shown' = 0
  /\ UNCHANGED <<list, print_root, place, dir_path, out>>

\* Mutant of Rewind: the walk begins where the printing ended.
NoRewind == [Now EXCEPT !.pass = "walk"]

Rewind == [Now EXCEPT !.pass = "walk", !.next = Now.flc]

StartWalk ==
  /\ InPass("print")
  /\ ~InChain(Now.next)
  /\ calls' = [calls EXCEPT ![Len(calls)] = Rewind]
  /\ UNCHANGED <<list, print_root, shown, place, dir_path, out>>

WalksEntry ==
  /\ InPass("walk")
  /\ InChain(Now.next)
  /\ Now.i < EntriesPerSector
  /\ NowSlot \in Slot

PassEntry ==
  /\ WalksEntry
  /\ SkippedInSub(entry[NowSlot]) \/ IsFile(entry[NowSlot])
  /\ calls' = [calls EXCEPT ![Len(calls)].i = @ + 1]
  /\ UNCHANGED <<list, print_root, shown, place, dir_path, out>>

\* The name is appended to the path buffer, and stays there after the return.
EnterSub ==
  /\ WalksEntry
  /\ ~SkippedInSub(entry[NowSlot])
  /\ ~IsFile(entry[NowSlot])
  /\ dir_path' = Append(dir_path, NowSlot)
  /\ out' = Append(out, Header(NowSlot, dir_path'))
  /\ calls' = Append([calls EXCEPT ![Len(calls)].i = @ + 1], Visit(entry[NowSlot].loc))
  /\ UNCHANGED <<list, print_root, shown, place>>

NextCluster ==
  /\ InPass("walk")
  /\ InChain(Now.next)
  /\ Now.i = EntriesPerSector
  /\ calls' = [calls EXCEPT ![Len(calls)].i = 0, ![Len(calls)].next = Follow(@)]
  /\ UNCHANGED <<list, print_root, shown, place, dir_path, out>>

Return ==
  /\ InPass("walk")
  /\ ~InChain(Now.next)
  /\ calls' = SubSeq(calls, 1, Len(calls) - 1)
  /\ UNCHANGED <<list, print_root, shown, place, dir_path, out>>

ListStep ==
  \/ StartList
  \/ PrintRootEntry
  \/ NextRootSector
  \/ RootPrinted
  \/ PassRootEntry
  \/ EnterFromRoot
  \/ RootWalked
  \/ PrintEntry
  \/ PrintNextCluster
  \/ StartWalk
  \/ PassEntry
  \/ EnterSub
  \/ NextCluster
  \/ Return
=============================================================================
