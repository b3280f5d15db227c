----------------------------- MODULE DiskTools -----------------------------
(***************************************************************************)
(* An operating system fills a disk, then a3/diskinfo.c, its older variant *)
(* a3/diskinfo-2.c and a3/disklist.c are run on the image it leaves.  The  *)
(* tools only read it, so that the order in which they run does not        *)
(* matter: it is the one given here.                                       *)
(***************************************************************************)
EXTENDS DiskList, DiskInfo2

vars == <<volume, infoVars, olderVars, listVars>>

Init == VolumeInit /\ InfoInit /\ OlderInit /\ ListInit

Use ==
  /\ info = "off"
  /\ ChangeVolume
  /\ UNCHANGED <<infoVars, olderVars, listVars>>

RunInfo == InfoStep /\ UNCHANGED <<volume, olderVars, listVars>>

RunInfo2 ==
  /\ info \in {"done", "astray"}
  /\ RunOlder
  /\ UNCHANGED <<volume, infoVars, listVars>>

RunList ==
  /\ older \in {"done", "astray"}
  /\ ListStep
  /\ UNCHANGED <<volume, infoVars, olderVars>>

Next == Use \/ RunInfo \/ RunInfo2 \/ RunList

Spec == Init /\ [][Next]_vars

\* A program that was started runs to its end; nothing obliges anybody to use
\* the disk, or to start a program.
Fairness ==
  /\ WF_vars(RunInfo /\ info # "off")
  /\ WF_vars(RunList /\ list # "off")

FairSpec == Spec /\ Fairness

-----------------------------------------------------------------------------
(* Properties *)

\* Types of all variables.
TypeOK ==
  /\ entry \in [Slot -> [kind : {"end", "label", "dot", "file", "dir"} \union Deleted,
                         loc : Cluster \union {NoCluster}]]
  /\ link \in [0 .. LastCluster -> Entry12]
  /\ owner \in [Cluster -> Slot \union {Unowned}]
  /\ flagged \subseteq 1 .. RootSlots
  /\ changes \in 0 .. MaxChanges
  /\ info \in {"off", "counting", "done", "astray"}
  /\ label \in {NoLabel} \union Slot
  /\ free \in Nat /\ cursor \in Nat /\ count \in Nat
  /\ frames \in Seq([next : Entry12, i : 0 .. EntriesPerSector, total : Nat])
  /\ older \in {"off", "done", "astray"}
  /\ diskVolumeLabel \in {NoLabel} \union Slot
  /\ freeSizeOfDisk \in Nat /\ numOfFiles \in Nat
  /\ list \in {"off", "root", "walking", "done"}
  /\ print_root \in Nat /\ shown \in 0 .. EntriesPerSector /\ place \in Nat
  /\ calls \in Seq([flc : Cluster, next : Entry12, i : 0 .. EntriesPerSector,
                    pass : {"print", "walk"}])
  /\ dir_path \in Seq(Slot)
  /\ out \in Seq([what : {"header", "line"}, slot : Slot \union {Root}, path : Seq(Slot)])

\* The free space is that of the clusters that belong to no file or directory.
FreeSpaceRight == info \in {"counting", "done"} => free = Cardinality(FreeClusters)

Stored(S) == {s \in S : entry[s].loc # NoCluster}

\* The files counted are those with contents in the whole tree, each once: none
\* deleted, none twice by way of "." or of a cluster that is used again, and
\* none missed behind the end of a sector.
CountsStoredFiles ==
  info = "done" => count = Cardinality(Stored(Files))

\* What the disk's label is, for a tool that prints l.
IsLabel(l) == IF Labels = {} THEN l = NoLabel ELSE l \in Labels

\* The label printed is that of the disk, as long as the root has no deleted one:
\* it is found wherever it is and whatever has been deleted before it.
LabelIsCurrent ==
  info \in {"counting", "done"} /\ Holds(Root, {"deletedLabel"}) = {} => IsLabel(label)

\* What the two variants of diskinfo print of the same disk.  Their labels differ
\* only if a label, or a deleted one, has a further attribute.  The older variant
\* never has more free space, and has less only if a byte of the number of sectors
\* is 128 or more.  The numbers of files differ by those in subdirectories and the
\* hidden ones in the root, which only diskinfo counts, and the deleted ones and
\* those without contents in the root, which only the older variant does.
ToolsAgree ==
  info = "done" /\ older = "done" =>
    LET inRoot == Holds(Root, {"file"})
        gone == Holds(Root, {"deletedFile"})
    IN  /\ diskVolumeLabel # label =>
             Holds(Root, {"label", "deletedLabel"}) \intersect flagged # {}
        /\ freeSizeOfDisk <= free
        /\ TotalSectors % 256 < 128 => freeSizeOfDisk = free
        /\ numOfFiles + Cardinality(Stored(Files \ inRoot))
                      + Cardinality(Stored(inRoot \intersect flagged))
             = count + Cardinality(inRoot \ (Stored(inRoot) \union flagged))
                     + Cardinality(gone \ flagged)

\* The slot of the header above line i.
HeaderOf(i) ==
  LET above == {j \in 1 .. i : out[j].what = "header"}
  IN  out[CHOOSE j \in above : \A k \in above : k <= j].slot

\* The sectors printed as the root are enough for it, and its last one is not used.
RootIsPrinted ==
  RootSectors <= PrintSectors /\ entry[RootSlots - EntriesPerSector + 1].kind = "end"

Lines == {i \in 1 .. Len(out) : out[i].what = "line"}

\* A complete listing has every directory and every file with contents on exactly
\* one line, and each line is one of a file or directory and stands in the section
\* of the directory that holds it, although the chain of a directory is followed
\* twice and sections are nested.  Whether files without contents have a line is
\* left open here.
ListsEachEntryOnce ==
  RootIsPrinted /\ list = "done" =>
    /\ \A i \in Lines :
         HeaderOf(i) \in Dirs /\ out[i].slot \in Holds(HeaderOf(i), {"file", "dir"})
    /\ \A i, j \in Lines : out[i].slot = out[j].slot => i = j
    /\ \A d \in Dirs : \A s \in Stored(Holds(d, {"file", "dir"})) :
         \E i \in Lines : out[i].slot = s

\* Whatever parse_sub takes for directory entries belongs to a directory, in both
\* tools, and in disklist to the one it was called for: no data of files, no freed
\* clusters.  In diskinfo this is for disks whose root has an unused entry, on
\* which its scan of the root ends.
ParsesDirectories ==
  /\ \A n \in 1 .. Len(frames) :
       InChain(frames[n].next) =>
         frames[n].next \in Cluster /\ owner[frames[n].next] \in Dirs \ {Root}
  /\ \A n \in 1 .. Len(calls) :
       InChain(calls[n].next) =>
         /\ calls[n].next \in Cluster
         /\ owner[calls[n].next] = owner[calls[n].flc]
         /\ owner[calls[n].flc] \in Dirs \ {Root}

\* A tool that is started ends, however the directories are nested and chained.
ToolsEnd ==
  /\ info = "counting" ~> info = "done"
  /\ list \in {"root", "walking"} ~> list = "done"

\* The comment at a3/diskinfo.c:38: what is printed is the label of the disk.
PrintsDiskLabel == info \in {"counting", "done"} => IsLabel(label)

\* One tool at least misses no file of the disk.  Both variants of diskinfo
\* (a3/diskinfo.c:260, a3/diskinfo-2.c:89) print the number of files "including all
\* files in the root directory and files in all subdirectories", and disklist is
\* to "print the all disk files and subdirectories" (a3/disklist.c:406): each of
\* the three claims implies this.  Hidden files are left aside, as
\* a3/diskinfo-2.c:139 does not mean to count them.
FilesAreShown ==
  info = "done" /\ RootIsPrinted /\ list = "done" /\ flagged = {} =>
    \/ count >= Cardinality(Files)
    \/ numOfFiles >= Cardinality(Files)
    \/ Files \subseteq {out[i].slot : i \in Lines}

\* The comment at a3/disklist.c:212 has the sectors of the root printed under
\* "Root": no line stands under a directory that does not hold its entry.
LinesUnderTheirDirectory ==
  \A i \in 1 .. Len(out) :
    out[i].what = "line" => out[i].slot \in Contents(HeaderOf(i))

\* The comments at a3/disklist.c:178 and :206: what is printed above a section is
\* the path of its directory, each name a directory within the one before it.
PathsLeadToDirectories ==
  \A i \in 1 .. Len(out) :
    LET path == out[i].path
    IN  out[i].what = "header" /\ out[i].slot # Root =>
          /\ path[Len(path)] = out[i].slot
          /\ \A j \in 1 .. Len(path) :
               path[j] \in Contents(IF j = 1 THEN Root ELSE path[j - 1])
=============================================================================
