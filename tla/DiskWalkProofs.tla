--------------------------- MODULE DiskWalkProofs ---------------------------
(***************************************************************************)
(* What the walks of the disk tools arrive at, on disks of every size:     *)
(* diskinfo counts every stored file of the tree once.  A directory is     *)
(* entered when its entry is passed, the clusters of its chain are passed  *)
(* one after the other, and everything that was passed is below a          *)
(* directory that was left or is still on the stack.                       *)
(***************************************************************************)
EXTENDS DiskToolsProofs

-----------------------------------------------------------------------------
(* The shape of the images *)

ClustersOf(d) == {c \in Cluster : owner[c] = d}

\* No two clusters are followed by the same one.
ChainsApart == \A c, x \in Cluster : link[c] = link[x] /\ link[c] \in Cluster => c = x

IsDir(s) == entry[s].kind = "dir"

\* The first cluster of a directory follows no other.
FirstsAreFirst == \A s \in Slot : IsDir(s) => \A c \in Cluster : link[c] # entry[s].loc

\* From its first cluster, the chain of a directory reaches all its clusters.
ChainsWhole ==
  \A s \in Slot : IsDir(s) =>
    \A X \in SUBSET Cluster :
      /\ entry[s].loc \in X
      /\ \A c \in X : owner[c] = s /\ link[c] \in Cluster => link[c] \in X
      => ClustersOf(s) \subseteq X

\* From the root, the entries of directories reach all directories.
TreeWhole ==
  \A X \in SUBSET Slot :
    /\ Holds(Root, {"dir"}) \subseteq X
    /\ \A d \in X \cap Dirs : Holds(d, {"dir"}) \subseteq X
    => Dirs \ {Root} \subseteq X

ShapeInv == ChainsApart /\ FirstsAreFirst /\ ChainsWhole /\ TreeWhole /\ RootPacked

\* An entry of a directory is one of the directories.
LEMMA DirIsDir ==
  ASSUME VolumeInv
  PROVE  /\ \A s \in Slot : IsDir(s) => s \in Dirs /\ entry[s].loc \in ClustersOf(s)
         /\ \A d \in Dirs \ {Root} : d \in Slot /\ IsDir(d)
         /\ Root \in Dirs
<1>1. \A s \in Slot : IsDir(s) => entry[s].loc \in ClustersOf(s)
  BY DEF IsDir, VolumeInv, EntriesLead, EntryLeads, ClustersOf
<1> QED BY <1>1 DEF Dirs, IsDir, ClustersOf

LEMMA ContentsOfDir ==
  ASSUME VolumeInv, NEW d \in Slot
  PROVE  /\ Contents(d) = UNION {SlotsOf(c) : c \in ClustersOf(d)}
         /\ Contents(d) \subseteq Slot \ (1 .. RootSlots)
         /\ d # Root
<1>1. d # Root
  BY Marks
<1>2. Contents(d) = UNION {SlotsOf(c) : c \in ClustersOf(d)}
  BY <1>1 DEF Contents, ClustersOf
<1> QED BY <1>1, <1>2, SlotsApart DEF ClustersOf

\* Every slot is in at most one directory.
LEMMA OneParent ==
  ASSUME VolumeInv, NEW d \in Dirs, NEW e \in Dirs, NEW s \in Contents(d), s \in Contents(e)
  PROVE  d = e
<1>1. CASE d # Root
  <2>1. PICK x \in Cluster : s \in SlotsOf(x) /\ owner[x] = d
    BY <1>1, SlotOfDir
  <2> QED BY <2>1, SlotOfDir
<1>2. CASE e # Root
  <2>1. PICK x \in Cluster : s \in SlotsOf(x) /\ owner[x] = e
    BY <1>2, SlotOfDir
  <2> QED BY <2>1, SlotOfDir
<1> QED BY <1>1, <1>2

LEMMA ShapeInitially ==
  ASSUME VolumeInit
  PROVE  ShapeInv
<1>1. \A s \in Slot : entry[s].kind = "end"
  BY DEF VolumeInit, EndEntry
<1>2. ChainsApart
  <2>1. \A c \in Cluster : link[c] = FreeMark
    BY Marks DEF VolumeInit, Cluster, FreeMark, EndMark
  <2>2. FreeMark \notin Cluster
    BY DEF FreeMark, Cluster
  <2> QED BY <2>1, <2>2 DEF ChainsApart
<1>3. FirstsAreFirst /\ ChainsWhole
  BY <1>1 DEF FirstsAreFirst, ChainsWhole, IsDir
<1>4. Dirs = {Root}
  BY <1>1 DEF Dirs
<1>5. TreeWhole
  BY <1>4 DEF TreeWhole
<1>6. RootPacked
  BY <1>1, SlotsApart DEF RootPacked
<1> QED BY <1>2, <1>3, <1>5, <1>6 DEF ShapeInv

\* What becomes an entry of a directory is in one, and nothing is taken away.
TreeGrows ==
  /\ \A x \in Cluster : owner[x] # Unowned => owner'[x] = owner[x]
  /\ \A t \in Slot : IsDir(t) => entry'[t] = entry[t]
  /\ \A t \in Slot : IsDir(t)' /\ ~IsDir(t) => \E d \in Dirs : t \in Contents(d)'

LEMMA TreeGrowsWhole ==
  ASSUME VolumeInv, VolumeInv', TreeWhole, TreeGrows
  PROVE  TreeWhole'
<1>1. ASSUME NEW e \in Dirs PROVE e \in Dirs' /\ Contents(e) \subseteq Contents(e)'
  <2>1. CASE e = Root
    BY <2>1 DEF Contents, Dirs
  <2>2. CASE e # Root
    <3>1. e \in Slot /\ IsDir(e)
      BY <2>2, DirIsDir
    <3>2. IsDir(e)'
      BY <3>1 DEF TreeGrows, IsDir
    <3>3. (\A s \in Slot : IsDir(s) => s \in Dirs)'
      BY DEF VolumeInv, EntriesLead, EntryLeads, Dirs, IsDir
    <3>4. ClustersOf(e) \subseteq ClustersOf(e)'
      <4>1. e # Unowned
        BY <3>1, Marks
      <4> QED BY <4>1 DEF TreeGrows, ClustersOf
    <3> QED BY <2>2, <3>1, <3>2, <3>3, <3>4 DEF Contents, ClustersOf
  <2> QED BY <2>1, <2>2
<1>2. ASSUME NEW e \in Dirs PROVE Holds(e, {"dir"}) \subseteq Holds(e, {"dir"})'
  <2>1. Contents(e) \subseteq Slot
    BY SlotOfDir
  <2> QED BY <1>1, <2>1 DEF Holds, TreeGrows, IsDir
<1> SUFFICES ASSUME NEW X \in SUBSET Slot,
                    Holds(Root, {"dir"})' \subseteq X,
                    \A d \in X \cap Dirs' : Holds(d, {"dir"})' \subseteq X
             PROVE  Dirs' \ {Root} \subseteq X
  BY DEF TreeWhole
<1>3. Root \in Dirs
  BY DirIsDir
<1>4. Dirs \ {Root} \subseteq X
  <2>1. Holds(Root, {"dir"}) \subseteq X
    BY <1>2, <1>3
  <2>2. \A d \in X \cap Dirs : Holds(d, {"dir"}) \subseteq X
    BY <1>1, <1>2
  <2> QED BY <2>1, <2>2 DEF TreeWhole
<1>5. ASSUME NEW s \in Dirs', s # Root, s \notin Dirs PROVE s \in X
  <2>1. s \in Slot /\ IsDir(s)'
    <3>1. (\A d \in Dirs \ {Root} : d \in Slot /\ IsDir(d))'
      BY DEF Dirs, IsDir
    <3> QED BY <1>5, <3>1
  <2>2. ~IsDir(s)
    BY <1>5, <2>1, DirIsDir
  <2>3. PICK d \in Dirs : s \in Contents(d)'
    BY <2>1, <2>2 DEF TreeGrows
  <2>4. s \in Holds(d, {"dir"})'
    BY <2>1, <2>3 DEF Holds, IsDir
  <2> QED BY <1>1, <1>4, <2>3, <2>4
<1> QED BY <1>4, <1>5

\* A change of one entry that neither was nor becomes one of a directory.
LEMMA EntryKeepsShape ==
  ASSUME VolumeInv, VolumeInv', ShapeInv, NEW s \in Slot, ~IsDir(s), ~IsDir(s)',
         \A t \in Slot : t # s => entry'[t] = entry[t],
         UNCHANGED <<link, owner>>, RootPacked'
  PROVE  ShapeInv'
<1> USE DEF ShapeInv
<1>1. \A t \in Slot : (IsDir(t)' <=> IsDir(t)) /\ (IsDir(t) => entry'[t] = entry[t])
  BY DEF IsDir
<1>2. ChainsApart'
  BY DEF ChainsApart
<1>3. FirstsAreFirst'
  BY <1>1 DEF FirstsAreFirst
<1>4. ChainsWhole'
  BY <1>1 DEF ChainsWhole, ClustersOf
<1>5. TreeGrows
  BY <1>1 DEF TreeGrows
<1>6. TreeWhole'
  BY <1>5, TreeGrowsWhole
<1> QED BY <1>2, <1>3, <1>4, <1>6

LEMMA NewClusterKeepsShape ==
  ASSUME VolumeInv, VolumeInv', ShapeInv, NEW d \in Dirs, NEW s, NEW c, NEW k \in {"file", "dir"},
         PutsCluster(d, s, c, k), RootPacked'
  PROVE  ShapeInv'
<1> USE DEF ShapeInv
<1>1. /\ s \in Slot /\ s \notin SlotsOf(c) /\ c \in Cluster /\ owner[c] = Unowned
      /\ s \in Contents(d)
  BY Unused DEF PutsCluster
<1>2. /\ owner'[c] = s /\ \A x \in Cluster : x # c => owner'[x] = owner[x]
      /\ link'[c] = EndMark /\ \A x \in Cluster : x # c => link'[x] = link[x]
  BY Marks DEF VolumeInv, VolumeTypes, PutsCluster
<1>3. ~IsDir(s) /\ \A x \in Cluster : owner[x] # s
  BY <1>1, Marks DEF PutsCluster, VolumeInv, ChainsStay, Deleted, IsDir
<1>4. EndMark \notin Cluster
  BY VolumeAssumption DEF EndMark, Cluster
<1>5. \A x \in Cluster : link[x] # c
  BY <1>1, Marks DEF VolumeInv, ChainsStay, FreeIsClear
\* The entries of directories are those of before, and perhaps s.
<1>6. \A t \in Slot : IsDir(t) => entry'[t] = entry[t] /\ entry[t].loc \in Cluster
  <2> SUFFICES ASSUME NEW t \in Slot, IsDir(t) PROVE entry'[t] = entry[t] /\ entry[t].loc \in Cluster
    OBVIOUS
  <2>1. t # s /\ entry[t].loc \in Cluster
    BY <1>3, DirIsDir DEF ClustersOf
  <2>2. t \notin SlotsOf(c)
    BY <1>1 DEF VolumeInv, FreeIsClear, IsDir, EndEntry
  <2> QED BY <2>1, <2>2 DEF PutsCluster
<1>7. \A t \in Slot : IsDir(t)' /\ ~IsDir(t) => t = s /\ entry'[t].loc = c
  <2> SUFFICES ASSUME NEW t \in Slot, IsDir(t)', ~IsDir(t) PROVE t = s /\ entry'[t].loc = c
    OBVIOUS
  <2>1. t \notin SlotsOf(c)
    BY DEF PutsCluster, IsDir
  <2>2. t = s
    BY <2>1 DEF PutsCluster, IsDir
  <2> QED BY <2>2 DEF PutsCluster
<1>8. ChainsApart'
  BY <1>2, <1>4 DEF ChainsApart
<1>9. FirstsAreFirst'
  <2> SUFFICES ASSUME NEW t \in Slot, IsDir(t)', NEW x \in Cluster PROVE link'[x] # entry'[t].loc
    BY DEF FirstsAreFirst
  <2>1. CASE IsDir(t)
    BY <1>2, <1>4, <1>6, <2>1 DEF FirstsAreFirst
  <2>2. CASE ~IsDir(t)
    BY <1>1, <1>2, <1>4, <1>5, <1>7, <2>2
  <2> QED BY <2>1, <2>2
<1>10. ChainsWhole'
  <2> SUFFICES ASSUME NEW t \in Slot, IsDir(t)', NEW X \in SUBSET Cluster,
                      entry'[t].loc \in X,
                      \A x \in X : owner'[x] = t /\ link'[x] \in Cluster => link'[x] \in X
               PROVE  ClustersOf(t)' \subseteq X
    BY DEF ChainsWhole
  <2>1. CASE IsDir(t)
    <3>1. t # s
      BY <1>3, <2>1
    <3>2. entry[t].loc \in X
      BY <1>6, <2>1
    <3>3. \A x \in X : owner[x] = t /\ link[x] \in Cluster => link[x] \in X
      <4>1. t # Unowned
        BY Marks
      <4> QED BY <1>1, <1>2, <3>1, <4>1
    <3>4. ClustersOf(t) \subseteq X
      BY <2>1, <3>2, <3>3 DEF ChainsWhole
    <3> QED BY <1>2, <3>1, <3>4 DEF ClustersOf
  <2>2. CASE ~IsDir(t)
    BY <1>2, <1>3, <1>7, <2>2 DEF ClustersOf
  <2> QED BY <2>1, <2>2
<1>11. TreeGrows
  <2>1. \A x \in Cluster : owner[x] = d /\ d # Root => owner'[x] = d
    BY <1>1, <1>2, Marks
  <2>2. Contents(d) \subseteq Contents(d)'
    <3>1. CASE d = Root
      BY <3>1 DEF Contents
    <3>2. CASE d # Root
      BY <2>1, <3>2 DEF Contents
    <3> QED BY <3>1, <3>2
  <2> QED BY <1>1, <1>2, <1>6, <1>7, <2>2 DEF TreeGrows
<1> QED BY <1>8, <1>9, <1>10, <1>11, TreeGrowsWhole

LEMMA ExtendKeepsShape ==
  ASSUME VolumeInv, VolumeInv', ShapeInv, NEW d \in Dirs, NEW c \in Available, Extend(d, c),
         RootPacked'
  PROVE  ShapeInv'
<1> USE DEF ShapeInv
<1>1. c \in Cluster /\ owner[c] = Unowned
  BY DEF Available, First, FreeClusters
<1>2. d \in Slot /\ d # Unowned
  BY Marks DEF Extend, Dirs
<1>3. PICK last \in Cluster : /\ owner[last] = d /\ link[last] = EndMark
                             /\ link' = [link EXCEPT ![last] = c, ![c] = EndMark]
  BY DEF Extend
<1>4. last # c
  BY <1>1, <1>2, <1>3
<1>5. /\ link'[c] = EndMark /\ link'[last] = c
      /\ \A x \in Cluster : x # c /\ x # last => link'[x] = link[x]
      /\ owner'[c] = d /\ \A x \in Cluster : x # c => owner'[x] = owner[x]
  BY <1>1, <1>3, <1>4, Marks DEF Extend, VolumeInv, VolumeTypes
<1>6. \A t \in Slot : entry'[t] = entry[t]
  BY <1>1 DEF Extend, VolumeInv, FreeIsClear
<1>7. EndMark \notin Cluster
  BY VolumeAssumption DEF EndMark, Cluster
<1>8. \A x \in Cluster : link[x] # c
  BY <1>1, Marks DEF VolumeInv, ChainsStay, FreeIsClear
<1>9. \A t \in Slot : IsDir(t)' <=> IsDir(t)
  BY <1>6 DEF IsDir
<1>10. ChainsApart'
  BY <1>1, <1>3, <1>5, <1>7, <1>8 DEF ChainsApart
<1>11. FirstsAreFirst'
  <2> SUFFICES ASSUME NEW t \in Slot, IsDir(t), NEW x \in Cluster PROVE link'[x] # entry[t].loc
    BY <1>6, <1>9 DEF FirstsAreFirst
  <2>1. entry[t].loc \in Cluster /\ owner[entry[t].loc] = t /\ entry[t].loc # c
    BY <1>1, DirIsDir, Marks DEF ClustersOf
  <2> QED BY <1>5, <1>7, <2>1 DEF FirstsAreFirst
<1>12. ChainsWhole'
  <2> SUFFICES ASSUME NEW t \in Slot, IsDir(t), NEW X \in SUBSET Cluster,
                      entry[t].loc \in X,
                      \A x \in X : owner'[x] = t /\ link'[x] \in Cluster => link'[x] \in X
               PROVE  ClustersOf(t)' \subseteq X
    BY <1>6, <1>9 DEF ChainsWhole
  <2>1. t # Unowned
    BY Marks
  <2>2. \A x \in X : owner[x] = t /\ link[x] \in Cluster => link[x] \in X
    BY <1>1, <1>3, <1>5, <1>7, <2>1
  <2>3. ClustersOf(t) \subseteq X
    BY <2>2 DEF ChainsWhole
  <2>4. t = d => c \in X
    BY <1>1, <1>3, <1>4, <1>5, <2>3 DEF ClustersOf
  <2> QED BY <1>5, <2>3, <2>4 DEF ClustersOf
<1>13. TreeGrows
  BY <1>1, <1>5, <1>6, <1>9 DEF TreeGrows
<1> QED BY <1>10, <1>11, <1>12, <1>13, TreeGrowsWhole

LEMMA DeletesEntry ==
  ASSUME VolumeInv, NEW d \in Dirs, NEW s \in Holds(d, {"file", "dir"}), Delete(s)
  PROVE  /\ s \in Contents(d) /\ s \in Slot /\ s \notin Contents(s)
         /\ Contents(s) = UNION {SlotsOf(c) : c \in ClustersOf(s)}
         /\ \A t \in Slot : IsDir(t) => t \notin Contents(s)
         /\ entry[s].kind \in {"file", "dir"} /\ entry'[s].kind \in Deleted
         /\ \A t \in Slot : t # s =>
              IF t \in Contents(s) THEN entry'[t] = EndEntry ELSE entry'[t] = entry[t]
<1>1. s \in Contents(d) /\ entry[s].kind \in {"file", "dir"} /\ s \in Slot /\ s # Root /\ s # Unowned
  BY SlotOfDir, Marks DEF Holds
<1>2. Contents(s) = UNION {SlotsOf(c) : c \in ClustersOf(s)}
  BY <1>1, ContentsOfDir
\* A directory does not hold directories when it is deleted, nor does a file.
<1>3. \A t \in Slot : IsDir(t) => t \notin Contents(s)
  <2> SUFFICES ASSUME NEW t \in Slot, IsDir(t), t \in Contents(s) PROVE FALSE
    OBVIOUS
  <2>1. PICK x \in Cluster : owner[x] = s /\ t \in SlotsOf(x)
    BY <1>2 DEF ClustersOf
  <2>2. PICK y \in Cluster : owner[y] = t
    BY DirIsDir DEF ClustersOf
  <2>3. entry[s].kind = "dir"
    BY <2>1, <2>2 DEF VolumeInv, OwnersInDirs, DirCluster
  <2> QED BY <2>3 DEF Delete, Holds, IsDir
<1>4. \A t \in Slot : t # s =>
        IF t \in Contents(s) THEN entry'[t] = EndEntry ELSE entry'[t] = entry[t]
  BY DEF Delete
<1>5. s \notin Contents(s)
  <2>1. CASE IsDir(s)
    BY <1>1, <1>3, <2>1
  <2>2. CASE ~IsDir(s)
    BY <1>1, <1>2, <2>2, SlotOfDir DEF ClustersOf, DirCluster, IsDir
  <2> QED BY <2>1, <2>2
<1>6. entry'[s].kind \in Deleted
  <2> DEFINE e == [kind |-> Gone(entry[s].kind), loc |-> IF entry[s].loc = NoCluster THEN NoCluster ELSE 2]
  <2>1. entry' = [t \in Slot |-> CASE t = s -> e [] t \in Contents(s) -> EndEntry [] OTHER -> entry[t]]
    BY Zenon DEF Delete
  <2>2. e.kind \in Deleted
    BY <1>1 DEF Gone, Deleted
  <2> HIDE DEF e
  <2>3. entry'[s] = CASE s = s -> e [] s \in Contents(s) -> EndEntry [] OTHER -> entry[s]
    BY <1>1, <2>1
  <2> QED BY <1>5, <2>2, <2>3
<1> QED BY <1>1, <1>2, <1>3, <1>4, <1>5, <1>6

LEMMA DeleteKeepsShape ==
  ASSUME VolumeInv, VolumeInv', ShapeInv, NEW d \in Dirs, NEW s \in Holds(d, {"file", "dir"}),
         Delete(s), RootPacked'
  PROVE  ShapeInv'
<1> USE DEF ShapeInv
<1>1. s \in Contents(d) /\ entry[s].kind \in {"file", "dir"} /\ s \in Slot /\ s # Root /\ s # Unowned
  BY DeletesEntry, Marks
<1>2. Contents(s) = UNION {SlotsOf(c) : c \in ClustersOf(s)}
  BY <1>1, ContentsOfDir
<1>3. \A t \in Slot : IsDir(t) => t \notin Contents(s)
  BY DeletesEntry
<1>4. \A t \in Slot : t # s =>
        IF t \in Contents(s) THEN entry'[t] = EndEntry ELSE entry'[t] = entry[t]
  BY DeletesEntry
<1>5. \A c \in Cluster : IF owner[c] = s THEN link'[c] = FreeMark /\ owner'[c] = Unowned
                                         ELSE link'[c] = link[c] /\ owner'[c] = owner[c]
  BY Marks DEF Delete
<1>6. FreeMark \notin Cluster
  BY DEF FreeMark, Cluster
<1>7. ~IsDir(s)'
  BY DeletesEntry DEF IsDir, Deleted
<1>8. \A t \in Slot : (IsDir(t)' <=> IsDir(t) /\ t # s) /\ (IsDir(t)' => entry'[t] = entry[t])
  <2> SUFFICES ASSUME NEW t \in Slot, t # s
               PROVE  (IsDir(t)' <=> IsDir(t)) /\ (IsDir(t)' => entry'[t] = entry[t])
    BY <1>7
  <2>1. CASE t \in Contents(s)
    BY <1>3, <1>4, <2>1 DEF IsDir, EndEntry
  <2>2. CASE t \notin Contents(s)
    BY <1>4, <2>2 DEF IsDir
  <2> QED BY <2>1, <2>2
<1>9. ChainsApart'
  BY <1>5, <1>6 DEF ChainsApart
<1>10. FirstsAreFirst'
  <2> SUFFICES ASSUME NEW t \in Slot, IsDir(t), t # s, NEW x \in Cluster PROVE link'[x] # entry[t].loc
    BY <1>8 DEF FirstsAreFirst
  <2>1. entry[t].loc \in Cluster
    BY DirIsDir DEF ClustersOf
  <2> QED BY <1>5, <1>6, <2>1 DEF FirstsAreFirst
<1>11. ChainsWhole'
  <2> SUFFICES ASSUME NEW t \in Slot, IsDir(t), t # s, NEW X \in SUBSET Cluster,
                      entry[t].loc \in X,
                      \A x \in X : owner'[x] = t /\ link'[x] \in Cluster => link'[x] \in X
               PROVE  ClustersOf(t)' \subseteq X
    BY <1>8 DEF ChainsWhole
  <2>1. t # Unowned
    BY Marks
  <2>2. \A x \in X : owner[x] = t /\ link[x] \in Cluster => link[x] \in X
    BY <1>5
  <2>3. ClustersOf(t) \subseteq X
    BY <2>2 DEF ChainsWhole
  <2> QED BY <1>5, <2>1, <2>3 DEF ClustersOf
<1>12. TreeWhole'
  <2> SUFFICES ASSUME NEW X \in SUBSET Slot,
                      Holds(Root, {"dir"})' \subseteq X,
                      \A e \in X \cap Dirs' : Holds(e, {"dir"})' \subseteq X
               PROVE  Dirs' \ {Root} \subseteq X
    BY DEF TreeWhole
  <2>1. ASSUME NEW e \in Dirs, e # s
        PROVE  e \in Dirs' /\ Contents(e)' = Contents(e)
    <3>1. CASE e = Root
      BY <3>1 DEF Dirs, Contents
    <3>2. CASE e # Root
      <4>1. e \in Slot /\ IsDir(e) /\ e # Unowned
        BY <3>2, DirIsDir, Marks
      <4>2. IsDir(e)'
        BY <1>8, <2>1, <4>1
      <4>3. e \in Dirs'
        BY <4>1, <4>2 DEF VolumeInv, EntriesLead, EntryLeads, Dirs, IsDir
      <4>4. \A x \in Cluster : owner'[x] = e <=> owner[x] = e
        BY <1>5, <2>1, <4>1
      <4>5. {x \in Cluster : owner'[x] = e} = {x \in Cluster : owner[x] = e}
        BY <4>4
      <4> QED BY <3>2, <4>3, <4>5 DEF Contents
    <3> QED BY <3>1, <3>2
  <2>2. ASSUME NEW e \in Dirs, e # s
        PROVE  Holds(e, {"dir"}) \subseteq Holds(e, {"dir"})' \union {s}
    <3>1. Contents(e) \subseteq Slot
      BY SlotOfDir
    <3>2. \A t \in Contents(e) : IsDir(t) /\ t # s => IsDir(t)'
      BY <1>8, <3>1
    <3> QED BY <2>1, <2>2, <3>2 DEF Holds, IsDir
  <2>3. PICK Y \in SUBSET Slot : Y = X \union {s}
    BY <1>1
  <2>4. Holds(Root, {"dir"}) \subseteq Y
    <3>1. Root \in Dirs
      BY DirIsDir
    <3> QED BY <1>1, <2>2, <2>3, <3>1
  <2>5. ASSUME NEW e \in Y \cap Dirs PROVE Holds(e, {"dir"}) \subseteq Y
    <3>1. CASE e = s
      <4>1. Holds(s, {"dir"}) = {}
        <5>1. Contents(s) \subseteq Slot
          BY <3>1, SlotOfDir
        <5> QED BY <1>3, <5>1 DEF Holds, IsDir
      <4> QED BY <3>1, <4>1
    <3>2. CASE e # s
      BY <2>1, <2>2, <2>3, <3>2
    <3> QED BY <3>1, <3>2
  <2>6. Dirs \ {Root} \subseteq Y
    BY <2>4, <2>5 DEF TreeWhole
  <2>7. ASSUME NEW e \in Dirs', e # Root PROVE e \in Dirs /\ e # s
    <3>1. e \in Slot /\ IsDir(e)'
      BY <2>7 DEF Dirs, IsDir
    <3> QED BY <1>8, <3>1, DirIsDir
  <2> QED BY <2>3, <2>6, <2>7
<1> QED BY <1>9, <1>10, <1>11, <1>12

LEMMA ChangeShape ==
  ASSUME VolumeInv, ShapeInv, ChangeVolume
  PROVE  ShapeInv'
<1> DEFINE label_ == [kind |-> "label", loc |-> NoCluster]
           file_ == [kind |-> "file", loc |-> NoCluster]
<1>1. VolumeInv' /\ RootPacked'
  BY ChangeSound, ChangePacked DEF ShapeInv
<1>2. ASSUME NEW d \in Dirs, NEW s \in Contents(d), entry[s].kind \in {"end", "label"} \union Deleted,
             NEW e, entry' = [entry EXCEPT ![s] = e], e.kind # "dir", UNCHANGED <<link, owner>>
      PROVE  ShapeInv'
  <2>1. s \in Slot
    BY SlotOfDir
  <2>2. ~IsDir(s)
    BY <1>2 DEF IsDir, Deleted
  <2>3. entry'[s] = e /\ \A t \in Slot : t # s => entry'[t] = entry[t]
    BY <1>2, <2>1 DEF VolumeInv, VolumeTypes
  <2>4. ~IsDir(s)'
    BY <1>2, <2>3 DEF IsDir
  <2> QED BY <1>1, <1>2, <2>1, <2>2, <2>3, <2>4, EntryKeepsShape
<1>3. CASE Label
  <2>1. PICK s \in Usable(Root) : entry' = [entry EXCEPT ![s] = label_]
    BY <1>3 DEF Label
  <2>2. /\ Root \in Dirs /\ s \in Contents(Root) /\ entry[s].kind \in {"end", "label"} \union Deleted
        /\ label_.kind # "dir" /\ UNCHANGED <<link, owner>>
    BY <1>3 DEF Label, Dirs, Usable, First, Holds
  <2> HIDE DEF label_
  <2> QED BY <1>2, <2>1, <2>2
<1>4. CASE Unlabel
  <2>1. PICK s \in Labels : entry' = [entry EXCEPT ![s].kind = Gone(@)]
    BY <1>4 DEF Unlabel
  <2>2. Root \in Dirs /\ s \in Contents(Root) /\ entry[s].kind = "label" /\ UNCHANGED <<link, owner>>
    BY <1>4 DEF Dirs, Labels, Holds, Unlabel
  <2>3. PICK e : e = [entry[s] EXCEPT !.kind = Gone(@)]
    OBVIOUS
  <2>4. entry' = [entry EXCEPT ![s] = e]
    BY <2>1, <2>3
  <2>5. e.kind # "dir"
    <3>1. s \in Slot
      BY <2>2, SlotOfDir
    <3>2. entry[s] \in [kind : Kind, loc : Cluster \union {NoCluster}]
      BY <3>1 DEF VolumeInv, VolumeTypes
    <3> QED BY <2>2, <2>3, <3>2 DEF Gone
  <2> QED BY <1>2, <2>2, <2>4, <2>5
<1>5. ASSUME NEW d \in Dirs, NEW s \in Usable(d), MakeEmptyFile(s) PROVE ShapeInv'
  <2>1. /\ s \in Contents(d) /\ entry[s].kind \in {"end", "label"} \union Deleted
        /\ file_.kind # "dir" /\ entry' = [entry EXCEPT ![s] = file_] /\ UNCHANGED <<link, owner>>
    BY <1>5 DEF MakeEmptyFile, Usable, First, Holds
  <2> HIDE DEF file_
  <2> QED BY <1>2, <2>1
<1>6. ASSUME NEW d \in Dirs, NEW s \in Usable(d), NEW c \in Available, MakeFile(s, c)
      PROVE  ShapeInv'
  <2>1. PutsCluster(d, s, c, "file")
    BY <1>6, MakeFilePuts
  <2> QED BY <1>1, <2>1, NewClusterKeepsShape
<1>7. ASSUME NEW d \in Dirs, NEW s \in Usable(d), NEW c \in Available, MakeDir(s, c)
      PROVE  ShapeInv'
  <2>1. PutsCluster(d, s, c, "dir")
    BY <1>7, MakeDirPuts
  <2> QED BY <1>1, <2>1, NewClusterKeepsShape
<1>8. ASSUME NEW d \in Dirs, NEW c \in Available, Extend(d, c) PROVE ShapeInv'
  BY <1>1, <1>8, ExtendKeepsShape
<1>9. ASSUME NEW d \in Dirs, NEW s \in Holds(d, {"file", "dir"}), Delete(s) PROVE ShapeInv'
  BY <1>1, <1>9, DeleteKeepsShape
<1>10. CASE SetAttribute
  BY <1>1, <1>10 DEF SetAttribute, ShapeInv, ChainsApart, FirstsAreFirst, ChainsWhole, TreeWhole,
                     RootPacked, IsDir, ClustersOf, Holds, Contents, Dirs
<1> QED BY <1>3, <1>4, <1>5, <1>6, <1>7, <1>8, <1>9, <1>10 DEF ChangeVolume, ChangeEntries

LEMMA ShapeKept ==
  ASSUME UNCHANGED volume
  PROVE  ShapeInv' <=> ShapeInv
BY DEF volume, ShapeInv, ChainsApart, FirstsAreFirst, ChainsWhole, TreeWhole, RootPacked, IsDir,
       ClustersOf, Holds, Contents, Dirs

\* However a disk of any size is used: chains do not join, the clusters of a
\* directory are those of its chain, and the directories are those of the tree.
\* This is about the image alone; what the tools make of it rests on it.
LEMMA TreeIsWhole == Spec => []ShapeInv
<1>1. Init => ShapeInv
  BY ShapeInitially DEF Init
<1>2. ToolInv /\ ShapeInv /\ [Next]_vars => ShapeInv'
  <2> SUFFICES ASSUME ToolInv, ShapeInv, [Next]_vars PROVE ShapeInv'
    OBVIOUS
  <2>1. CASE Use
    BY <2>1, ChangeShape DEF Use, ToolInv
  <2>2. CASE UNCHANGED volume
    BY <2>2, ShapeKept
  <2> QED BY <2>1, <2>2 DEF Next, RunInfo, RunInfo2, RunList, vars
<1> QED BY <1>1, <1>2, ToolsSound, PTL DEF Spec

-----------------------------------------------------------------------------
(* A walk over the clusters of a directory *)

\* The walk over the directory d is at entry i of the cluster next, or at the end
\* of the chain, and the clusters in Q are behind it.
InDir(next, i, d, Q) ==
  /\ d \in Slot /\ IsDir(d)
  /\ i \in 0 .. EntriesPerSector
  /\ Q \subseteq ClustersOf(d) /\ next \notin Q
  /\ InChain(next) => next \in ClustersOf(d)
  /\ entry[d].loc \in Q \union {next}
  /\ \A c \in Q : link[c] \in Cluster => link[c] \in Q \union {next}
  /\ \A c \in Q \union {next} : c \in Cluster => c = entry[d].loc \/ \E x \in Q : link[x] = c

\* The slots the walk has passed.
Passed(next, i, Q) ==
  (UNION {SlotsOf(c) : c \in Q}) \union IF InChain(next) THEN {SlotAt(next, j) : j \in 0 .. i - 1} ELSE {}

LEMMA EntersDir ==
  ASSUME VolumeInv, NEW d \in Slot, IsDir(d)
  PROVE  InDir(entry[d].loc, 0, d, {}) /\ Passed(entry[d].loc, 0, {}) = {}
<1>1. entry[d].loc \in ClustersOf(d) /\ 0 \in 0 .. EntriesPerSector
  BY DirIsDir, VolumeAssumption
<1>2. InDir(entry[d].loc, 0, d, {})
  BY <1>1 DEF InDir
<1>3. 0 .. 0 - 1 = {}
  OBVIOUS
<1> QED BY <1>2, <1>3 DEF Passed

\* The slots of a cluster are different.
LEMMA SlotsDiffer ==
  ASSUME NEW c \in Cluster, NEW i \in 0 .. EntriesPerSector - 1, NEW j \in 0 .. EntriesPerSector - 1,
         SlotAt(c, i) = SlotAt(c, j)
  PROVE  i = j
<1>1. PICK k \in Nat : k = (RootSectors + c - 2) * EntriesPerSector
  <2>1. RootSectors + c - 2 \in Nat /\ EntriesPerSector \in Nat
    BY VolumeAssumption DEF Cluster
  <2> QED BY <2>1, Product
<1>2. i \in Nat /\ j \in Nat
  BY VolumeAssumption
<1> QED BY <1>1, <1>2 DEF SlotAt

LEMMA PassesSlot ==
  ASSUME VolumeInv, NEW next, NEW i, NEW d, NEW Q, InDir(next, i, d, Q), InChain(next),
         i < EntriesPerSector
  PROVE  /\ SlotAt(next, i) \in Contents(d) \ Passed(next, i, Q)
         /\ InDir(next, i + 1, d, Q)
         /\ Passed(next, i + 1, Q) = Passed(next, i, Q) \union {SlotAt(next, i)}
<1>1. PICK E \in Nat : E = EntriesPerSector
  BY VolumeAssumption
<1>2. /\ i \in 0 .. E - 1 /\ i + 1 \in 0 .. E
      /\ 0 .. (i + 1) - 1 = (0 .. i - 1) \union {i} /\ 0 .. i - 1 \subseteq 0 .. E - 1 /\ i \notin 0 .. i - 1
  BY <1>1 DEF InDir
<1>3. next \in Cluster /\ next \in ClustersOf(d) /\ d \in Slot
  BY DEF InDir, ClustersOf
<1>4. SlotAt(next, i) \in SlotsOf(next)
  BY <1>1, <1>2 DEF SlotsOf
<1>5. SlotAt(next, i) \in Contents(d)
  BY <1>3, <1>4, ContentsOfDir
<1>6. SlotAt(next, i) \notin UNION {SlotsOf(c) : c \in Q}
  <2> SUFFICES ASSUME NEW c \in Q, SlotAt(next, i) \in SlotsOf(c) PROVE FALSE
    OBVIOUS
  <2>1. c \in Cluster /\ c # next
    BY DEF InDir, ClustersOf
  <2> QED BY <1>3, <1>4, <2>1, SlotsApart
<1>7. SlotAt(next, i) \notin {SlotAt(next, j) : j \in 0 .. i - 1}
  BY <1>1, <1>2, <1>3, SlotsDiffer
<1>8. InDir(next, i + 1, d, Q)
  BY <1>1, <1>2 DEF InDir
<1>9. PICK A : A = UNION {SlotsOf(c) : c \in Q}
  OBVIOUS
<1>10. /\ Passed(next, i, Q) = A \union {SlotAt(next, j) : j \in 0 .. i - 1}
       /\ Passed(next, i + 1, Q) = A \union {SlotAt(next, j) : j \in 0 .. (i + 1) - 1}
  BY <1>9 DEF Passed
<1>11. {SlotAt(next, j) : j \in 0 .. (i + 1) - 1} = {SlotAt(next, j) : j \in 0 .. i - 1} \union {SlotAt(next, i)}
  BY <1>2
<1>12. SlotAt(next, i) \notin Passed(next, i, Q)
  BY <1>6, <1>7, <1>9, <1>10
<1>13. Passed(next, i + 1, Q) = Passed(next, i, Q) \union {SlotAt(next, i)}
  BY <1>10, <1>11
<1> QED BY <1>5, <1>8, <1>12, <1>13

LEMMA PassesCluster ==
  ASSUME VolumeInv, ShapeInv, NEW next, NEW d, NEW Q, InDir(next, EntriesPerSector, d, Q),
         InChain(next)
  PROVE  /\ InDir(link[next], 0, d, Q \union {next})
         /\ Passed(link[next], 0, Q \union {next}) = Passed(next, EntriesPerSector, Q)
<1>1. next \in Cluster /\ owner[next] = d /\ d \in Slot /\ IsDir(d) /\ d # Unowned
  BY Marks DEF InDir, ClustersOf
<1>2. \A c \in Q : c \in Cluster /\ owner[c] = d
  BY DEF InDir, ClustersOf
<1>3. link[next] \notin Q \union {next}
  <2> SUFFICES ASSUME link[next] \in Q \union {next} PROVE FALSE
    OBVIOUS
  <2>1. link[next] \in Cluster
    BY <1>1, <1>2
  <2>2. link[next] # entry[d].loc
    BY <1>1 DEF ShapeInv, FirstsAreFirst
  <2>3. PICK x \in Q : link[x] = link[next]
    BY <2>1, <2>2 DEF InDir
  <2> QED BY <1>1, <1>2, <2>1, <2>3 DEF ShapeInv, ChainsApart, InDir
<1>4. InChain(link[next]) => link[next] \in ClustersOf(d)
  BY <1>1 DEF VolumeInv, ChainsStay, ClustersOf
<1>5. 0 \in 0 .. EntriesPerSector
  BY VolumeAssumption
<1>6. InDir(link[next], 0, d, Q \union {next})
  BY <1>1, <1>2, <1>3, <1>4, <1>5 DEF InDir, ClustersOf
<1>7. PICK A : A = UNION {SlotsOf(c) : c \in Q}
  OBVIOUS
<1>8. UNION {SlotsOf(c) : c \in Q \union {next}} = A \union SlotsOf(next)
  <2>1. {SlotsOf(c) : c \in Q \union {next}} = {SlotsOf(c) : c \in Q} \union {SlotsOf(next)}
    OBVIOUS
  <2> QED BY <1>7, <2>1
<1>9. Passed(next, EntriesPerSector, Q) = A \union SlotsOf(next)
  BY <1>7 DEF Passed, SlotsOf
<1>10. Passed(link[next], 0, Q \union {next}) = A \union SlotsOf(next)
  <2>1. 0 .. 0 - 1 = {}
    OBVIOUS
  <2> QED BY <1>8, <2>1 DEF Passed
<1> QED BY <1>6, <1>9, <1>10

LEMMA PassesAll ==
  ASSUME VolumeInv, ShapeInv, NEW next, NEW i, NEW d, NEW Q, InDir(next, i, d, Q), ~InChain(next)
  PROVE  Passed(next, i, Q) = Contents(d)
<1>1. entry[d].loc \in Cluster /\ InChain(entry[d].loc) /\ next \notin Cluster
  <2>1. d \in Slot /\ IsDir(d)
    BY DEF InDir
  <2>2. \A c \in Cluster : InChain(c)
    BY Marks
  <2> QED BY <2>1, <2>2, DirIsDir DEF ClustersOf
<1>2. ClustersOf(d) \subseteq Q
  <2>1. Q \in SUBSET Cluster
    BY DEF InDir, ClustersOf
  <2> QED BY <1>1, <2>1 DEF ShapeInv, ChainsWhole, InDir
<1>3. Q = ClustersOf(d)
  BY <1>2 DEF InDir
<1> QED BY <1>3, ContentsOfDir DEF Passed, InDir

-----------------------------------------------------------------------------
(* What is kept of each of m nested calls, and of the root as the call 0 *)

Put(F, m, v) == [F EXCEPT ![m] = v]
Push(F, m, v) == [n \in 0 .. m + 1 |-> IF n = m + 1 THEN v ELSE F[n]]
Pop(F, m) == [n \in 0 .. m - 1 |-> F[n]]

-----------------------------------------------------------------------------
(* A walk over the tree *)

\* A walk that has visited the slots V and is within the directories D, each in
\* the one before it: of D[n] it has passed the slots U[n], and all that it has
\* visited is in a directory it knows.
Explored(m, D, U, V) ==
  /\ m \in Nat /\ V \subseteq Slot
  /\ D \in [0 .. m -> Dirs] /\ D[0] = Root
  /\ \A n \in 1 .. m : D[n] \in V
  /\ \A k, n \in 0 .. m : D[k] = D[n] => k = n
  /\ U \in [0 .. m -> SUBSET Slot] /\ \A n \in 0 .. m : Contents(D[n]) \cap V = U[n]
  /\ \A s \in V : IsDir(s) => Contents(s) \subseteq V \/ \E n \in 0 .. m : s = D[n]
  /\ \A s \in V : \E d \in Dirs : s \in Contents(d) /\ (d = Root \/ d \in V)

LEMMA ExploresFirst ==
  ASSUME VolumeInv
  PROVE  Explored(0, [n \in 0 .. 0 |-> Root], [n \in 0 .. 0 |-> {}], {})
BY DirIsDir DEF Explored

\* The next slot of the innermost directory, unless it is one of a directory.
LEMMA ExploresSlot ==
  ASSUME VolumeInv, NEW m, NEW D, NEW U, NEW V, Explored(m, D, U, V),
         NEW s \in Contents(D[m]) \ U[m]
  PROVE  /\ s \in Slot \ V
         /\ ~IsDir(s) => Explored(m, D, Put(U, m, U[m] \union {s}), V \union {s})
<1> USE DEF Explored
<1>1. m \in 0 .. m /\ D[m] \in Dirs
  OBVIOUS
<1>2. s \in Slot \ V
  BY <1>1, SlotOfDir
<1>3. ASSUME NEW n \in 0 .. m, s \in Contents(D[n]) PROVE n = m
  <2>1. D[n] \in Dirs
    OBVIOUS
  <2>2. D[n] = D[m]
    BY <1>1, <1>3, <2>1, OneParent
  <2> QED BY <1>1, <2>2
<1>4. PICK X : X = Put(U, m, U[m] \union {s})
  OBVIOUS
<1>5. /\ X \in [0 .. m -> SUBSET Slot]
      /\ \A n \in 0 .. m : X[n] = IF n = m THEN U[n] \union {s} ELSE U[n]
  BY <1>1, <1>2, <1>4 DEF Put, Push, Pop
<1>6. \A n \in 0 .. m : Contents(D[n]) \cap (V \union {s}) = X[n]
  BY <1>1, <1>3, <1>5
<1>7. \E d \in Dirs : s \in Contents(d) /\ (d = Root \/ d \in V)
  BY <1>1
<1> QED BY <1>2, <1>4, <1>5, <1>6, <1>7

\* The next slot of the innermost directory is one of a directory, which is entered.
LEMMA ExploresDir ==
  ASSUME VolumeInv, NEW m, NEW D, NEW U, NEW V, Explored(m, D, U, V),
         NEW s \in Contents(D[m]) \ U[m], IsDir(s)
  PROVE  Explored(m + 1, Push(D, m, s), Push(Put(U, m, U[m] \union {s}), m, {}), V \union {s})
<1> USE DEF Explored
<1>1. m \in Nat /\ m \in 0 .. m /\ D[m] \in Dirs
  OBVIOUS
<1>2. s \in Slot \ V /\ s \in Dirs /\ s # Root
  BY <1>1, SlotOfDir, DirIsDir, Marks
<1>3. ASSUME NEW n \in 0 .. m, s \in Contents(D[n]) PROVE n = m
  <2>1. D[n] \in Dirs
    OBVIOUS
  <2>2. D[n] = D[m]
    BY <1>1, <1>3, <2>1, OneParent
  <2> QED BY <1>1, <2>2
<1>4. \A n \in 0 .. m : D[n] # s
  <2>1. \A n \in 0 .. m : n = 0 \/ n \in 1 .. m
    BY <1>1
  <2> QED BY <1>2, <2>1
\* What is in s is new, as what was visited is in other directories.
<1>5. Contents(s) \cap (V \union {s}) = {}
  <2> SUFFICES ASSUME NEW x \in Contents(s), x \in V \union {s} PROVE FALSE
    OBVIOUS
  <2>1. PICK d \in Dirs : x \in Contents(d) /\ (d = Root \/ d \in V)
    <3>1. CASE x = s
      <4>1. D[m] = Root \/ D[m] \in V
        BY <1>1, m = 0 \/ m \in 1 .. m
      <4> QED BY <1>1, <3>1, <4>1
    <3>2. CASE x \in V
      BY <3>2
    <3> QED BY <3>1, <3>2
  <2>2. d = s
    BY <1>2, <2>1, OneParent
  <2> QED BY <1>2, <2>1, <2>2
<1>6. PICK M : M = m + 1
  OBVIOUS
<1>7. /\ M \in Nat /\ 0 .. M = (0 .. m) \union {M} /\ M \notin 0 .. m
      /\ 1 .. M = (1 .. m) \union {M} /\ 0 # M /\ 1 .. m \subseteq 0 .. m /\ 0 \in 0 .. m
  BY <1>1, <1>6
<1>8. PICK E, X : E = Push(D, m, s) /\ X = Push(Put(U, m, U[m] \union {s}), m, {})
  OBVIOUS
<1>9. E \in [0 .. M -> Dirs] /\ E[M] = s /\ \A n \in 0 .. m : E[n] = D[n]
  BY <1>1, <1>2, <1>6, <1>8 DEF Put, Push, Pop
<1>10. /\ X \in [0 .. M -> SUBSET Slot] /\ X[M] = {}
       /\ \A n \in 0 .. m : X[n] = IF n = m THEN U[n] \union {s} ELSE U[n]
  <2>1. /\ Put(U, m, U[m] \union {s}) \in [0 .. m -> SUBSET Slot]
        /\ \A n \in 0 .. m : Put(U, m, U[m] \union {s})[n] = IF n = m THEN U[n] \union {s} ELSE U[n]
    BY <1>1, <1>2 DEF Put, Push, Pop
  <2>2. PICK Y : Y = Put(U, m, U[m] \union {s})
    OBVIOUS
  <2>3. X = [n \in 0 .. M |-> IF n = M THEN {} ELSE Y[n]]
    BY <1>6, <1>8, <2>2 DEF Push
  <2> QED BY <1>7, <2>1, <2>2, <2>3
<1>11. \A n \in 0 .. M : Contents(E[n]) \cap (V \union {s}) = X[n]
  <2>1. ASSUME NEW n \in 0 .. m PROVE Contents(D[n]) \cap (V \union {s}) = X[n]
    <3>1. Contents(D[n]) \cap V = U[n] /\ (s \in Contents(D[n]) <=> n = m)
      BY <1>3
    <3>2. PICK w, u, C : w = X[n] /\ u = U[n] /\ C = Contents(D[n])
      OBVIOUS
    <3>3. w = IF n = m THEN u \union {s} ELSE u
      BY <1>10, <3>2
    <3>4. C \cap V = u /\ (s \in C <=> n = m)
      BY <3>1, <3>2
    <3>5. C \cap (V \union {s}) = w
      BY <3>3, <3>4
    <3> QED BY <3>2, <3>5
  <2> QED BY <1>5, <1>7, <1>9, <1>10, <2>1
<1>12. \A n \in 1 .. M : E[n] \in V \union {s}
  BY <1>7, <1>9
<1>13. \A k, n \in 0 .. M : E[k] = E[n] => k = n
  BY <1>4, <1>7, <1>9
<1>14. \A x \in V \union {s} :
         IsDir(x) => Contents(x) \subseteq V \union {s} \/ \E n \in 0 .. M : x = E[n]
  BY <1>7, <1>9
<1>15. \A x \in V \union {s} : \E d \in Dirs : x \in Contents(d) /\ (d = Root \/ d \in V \union {s})
  BY <1>1, m = 0 \/ m \in 1 .. m
<1>16. Explored(M, E, X, V \union {s})
  BY <1>2, <1>7, <1>9, <1>10, <1>11, <1>12, <1>13, <1>14, <1>15
<1> HIDE DEF Explored
<1> QED BY <1>6, <1>8, <1>16

\* The innermost directory is left when all of it was passed.
LEMMA ExploresBack ==
  ASSUME VolumeInv, NEW m, NEW D, NEW U, NEW V, Explored(m, D, U, V), m # 0, U[m] = Contents(D[m])
  PROVE  Explored(m - 1, Pop(D, m), Pop(U, m), V)
<1> USE DEF Explored
<1>1. PICK M : M = m - 1
  OBVIOUS
<1>2. PICK E, X : E = Pop(D, m) /\ X = Pop(U, m)
  OBVIOUS
<1>3. /\ M \in Nat /\ 0 .. m = (0 .. M) \union {m}
      /\ 1 .. M \subseteq 1 .. m /\ 0 \in 0 .. M /\ 1 .. M \subseteq 0 .. M
  BY <1>1
<1>4. /\ E \in [0 .. M -> Dirs] /\ X \in [0 .. M -> SUBSET Slot]
      /\ \A n \in 0 .. M : E[n] = D[n] /\ X[n] = U[n]
  BY <1>1, <1>2 DEF Put, Push, Pop
<1>5. \A s \in V : IsDir(s) => Contents(s) \subseteq V \/ \E n \in 0 .. M : s = E[n]
  <2>1. Contents(D[m]) \subseteq V
    BY <1>3
  <2>2. \A n \in 0 .. m : n = m \/ n \in 0 .. M
    BY <1>3
  <2> QED BY <1>4, <2>1, <2>2
<1>6. Explored(M, E, X, V)
  BY <1>3, <1>4, <1>5
<1> HIDE DEF Explored
<1> QED BY <1>1, <1>2, <1>6

\* When the root is passed, all directories and all that is in them was visited.
LEMMA ExploresAll ==
  ASSUME VolumeInv, ShapeInv, NEW D, NEW U, NEW V, Explored(0, D, U, V),
         NEW r \in 1 .. RootSlots, entry[r].kind = "end", 1 .. r - 1 \subseteq U[0]
  PROVE  /\ \A s \in 1 .. RootSlots : entry[s].kind # "end" => s \in V
         /\ Dirs \ {Root} \subseteq V
         /\ \A d \in Dirs \ {Root} : Contents(d) \subseteq V
<1> USE DEF Explored
<1>1. PICK R \in Nat : R = RootSlots
  BY VolumeAssumption, Product DEF RootSlots
<1>2. U[0] \subseteq V
  OBVIOUS
<1>3. \A s \in 1 .. RootSlots : entry[s].kind # "end" => s \in V
  <2> SUFFICES ASSUME NEW s \in 1 .. R, entry[s].kind # "end" PROVE s \in V
    BY <1>1
  <2>1. ~(r < s) /\ r # s
    BY <1>1 DEF ShapeInv, RootPacked
  <2>2. s \in 1 .. r - 1
    BY <1>1, <2>1
  <2> QED BY <1>2, <2>2
<1>4. \A d \in V : IsDir(d) => Contents(d) \subseteq V
  <2> SUFFICES ASSUME NEW d \in V, IsDir(d) PROVE Contents(d) \subseteq V
    OBVIOUS
  <2>1. d # Root
    BY Marks
  <2>2. \A n \in 0 .. 0 : D[n] = Root
    OBVIOUS
  <2> QED BY <2>1, <2>2
<1>5. Dirs \ {Root} \subseteq V
  <2>1. Holds(Root, {"dir"}) \subseteq V
    BY <1>3 DEF Holds, Contents
  <2>2. \A d \in V \cap Dirs : Holds(d, {"dir"}) \subseteq V
    <3>1. \A d \in V \cap Dirs : IsDir(d)
      BY DirIsDir, Marks
    <3> QED BY <1>4, <3>1 DEF Holds
  <2> QED BY <2>1, <2>2 DEF ShapeInv, TreeWhole
<1> QED BY <1>3, <1>4, <1>5, DirIsDir

-----------------------------------------------------------------------------
(* Counting along a walk *)

Counted == {s \in Slot : IsFile(entry[s]) /\ entry[s].loc # NoCluster}

LEMMA CountedFinite ==
  ASSUME NEW S
  PROVE  IsFiniteSet(Counted \cap S) /\ Cardinality(Counted \cap S) \in Nat
BY SlotCount DEF Counted

Plus(n, s) == IF s \in Counted THEN n + 1 ELSE n

\* Each call has visited the slots W[n] itself or in calls that returned, and
\* T[n] is the number of files with contents among them.
Tallied(m, V, W, T) ==
  /\ m \in Nat /\ W \in [0 .. m -> SUBSET Slot] /\ T \in [0 .. m -> Nat]
  /\ \A s : s \in V <=> \E n \in 0 .. m : s \in W[n]
  /\ \A k, n \in 0 .. m : k # n => W[k] \cap W[n] = {}
  /\ \A n \in 0 .. m : T[n] = Cardinality(Counted \cap W[n])

LEMMA TalliesFirst ==
  Tallied(0, {}, [n \in 0 .. 0 |-> {}], [n \in 0 .. 0 |-> 0])
<1>1. Cardinality(Counted \cap {}) = 0
  BY FS_EmptySet, Counted \cap {} = {}
<1> QED BY <1>1 DEF Tallied

LEMMA TalliesSlot ==
  ASSUME NEW m, NEW V, NEW W, NEW T, Tallied(m, V, W, T), NEW s \in Slot \ V
  PROVE  Tallied(m, V \union {s}, Put(W, m, W[m] \union {s}), Put(T, m, Plus(T[m], s)))
<1> USE DEF Tallied
<1>1. m \in 0 .. m /\ T[m] \in Nat
  OBVIOUS
<1>2. PICK X, Y : X = Put(W, m, W[m] \union {s}) /\ Y = Put(T, m, Plus(T[m], s))
  OBVIOUS
<1>3. Plus(T[m], s) = (IF s \in Counted THEN T[m] + 1 ELSE T[m]) /\ Plus(T[m], s) \in Nat
  BY <1>1 DEF Plus
<1>4. /\ X \in [0 .. m -> SUBSET Slot] /\ X[m] = W[m] \union {s}
      /\ \A n \in 0 .. m : n # m => X[n] = W[n]
  BY <1>1, <1>2 DEF Put, Push, Pop
<1>5. /\ Y \in [0 .. m -> Nat] /\ Y[m] = IF s \in Counted THEN T[m] + 1 ELSE T[m]
      /\ \A n \in 0 .. m : n # m => Y[n] = T[n]
  BY <1>1, <1>2, <1>3 DEF Put, Push, Pop
<1>6. Y[m] = Cardinality(Counted \cap X[m])
  <2>1. s \notin W[m] /\ T[m] = Cardinality(Counted \cap W[m])
    BY <1>1
  <2>2. CASE s \in Counted
    <3>1. Counted \cap X[m] = (Counted \cap W[m]) \union {s}
      BY <1>4, <2>2
    <3>2. Cardinality((Counted \cap W[m]) \union {s}) = Cardinality(Counted \cap W[m]) + 1
      BY <2>1, CountedFinite, FS_AddElement
    <3> QED BY <1>5, <2>1, <2>2, <3>1, <3>2
  <2>3. CASE s \notin Counted
    <3>1. Counted \cap X[m] = Counted \cap W[m]
      BY <1>4, <2>3
    <3> QED BY <1>5, <2>1, <2>3, <3>1
  <2> QED BY <2>2, <2>3
<1>7. \A n \in 0 .. m : Y[n] = Cardinality(Counted \cap X[n])
  BY <1>4, <1>5, <1>6
<1>8. \A k, n \in 0 .. m : k # n => X[k] \cap X[n] = {}
  BY <1>1, <1>4
<1>9. \A x : x \in V \union {s} <=> \E n \in 0 .. m : x \in X[n]
  BY <1>1, <1>4
<1>10. Tallied(m, V \union {s}, X, Y)
  BY <1>4, <1>5, <1>7, <1>8, <1>9
<1> QED BY <1>2, <1>10

LEMMA TalliesCall ==
  ASSUME NEW m, NEW V, NEW W, NEW T, Tallied(m, V, W, T)
  PROVE  Tallied(m + 1, V, Push(W, m, {}), Push(T, m, 0))
<1> USE DEF Tallied
<1>1. PICK M : M = m + 1
  OBVIOUS
<1>2. M \in Nat /\ 0 .. M = (0 .. m) \union {M} /\ M \notin 0 .. m
  BY <1>1
<1>3. PICK X, Y : X = Push(W, m, {}) /\ Y = Push(T, m, 0)
  OBVIOUS
<1>4. X \in [0 .. M -> SUBSET Slot] /\ X[M] = {} /\ \A n \in 0 .. m : X[n] = W[n]
  BY <1>1, <1>3 DEF Put, Push, Pop
<1>5. Y \in [0 .. M -> Nat] /\ Y[M] = 0 /\ \A n \in 0 .. m : Y[n] = T[n]
  BY <1>1, <1>3 DEF Put, Push, Pop
<1>6. Cardinality(Counted \cap {}) = 0
  BY FS_EmptySet, Counted \cap {} = {}
<1>7. \A n \in 0 .. M : Y[n] = Cardinality(Counted \cap X[n])
  BY <1>2, <1>4, <1>5, <1>6
<1>8. \A x : x \in V <=> \E n \in 0 .. M : x \in X[n]
  BY <1>2, <1>4
<1>9. \A k, n \in 0 .. M : k # n => X[k] \cap X[n] = {}
  BY <1>2, <1>4
<1>10. Tallied(M, V, X, Y)
  BY <1>2, <1>4, <1>5, <1>7, <1>8, <1>9
<1> QED BY <1>1, <1>3, <1>10

LEMMA TalliesBack ==
  ASSUME NEW m, NEW V, NEW W, NEW T, Tallied(m, V, W, T), m # 0
  PROVE  Tallied(m - 1, V, Pop(Put(W, m - 1, W[m - 1] \union W[m]), m),
                           Pop(Put(T, m - 1, T[m - 1] + T[m]), m))
<1> USE DEF Tallied
<1>1. PICK M \in Nat : M = m - 1 /\ 0 .. m = (0 .. M) \union {m} /\ m \notin 0 .. M /\ M \in 0 .. M
  BY m - 1 \in Nat
<1>2. PICK B, C : B = Put(W, M, W[M] \union W[m]) /\ C = Put(T, M, T[M] + T[m])
  OBVIOUS
<1>3. PICK X, Y : X = Pop(B, m) /\ Y = Pop(C, m)
  OBVIOUS
<1>4. /\ X \in [0 .. M -> SUBSET Slot] /\ X[M] = W[M] \union W[m]
      /\ \A n \in 0 .. M : n # M => X[n] = W[n]
  <2>1. W[M] \union W[m] \in SUBSET Slot
    BY <1>1
  <2>2. /\ B \in [0 .. m -> SUBSET Slot] /\ B[M] = W[M] \union W[m]
        /\ \A n \in 0 .. m : n # M => B[n] = W[n]
    BY <1>1, <1>2, <2>1 DEF Put, Push, Pop
  <2> QED BY <1>1, <1>3, <2>2 DEF Put, Push, Pop
<1>5. /\ Y \in [0 .. M -> Nat] /\ Y[M] = T[M] + T[m]
      /\ \A n \in 0 .. M : n # M => Y[n] = T[n]
  <2>1. T[M] + T[m] \in Nat
    <3>1. T[M] \in Nat /\ T[m] \in Nat
      BY <1>1
    <3> QED BY <3>1
  <2>2. /\ C \in [0 .. m -> Nat] /\ C[M] = T[M] + T[m]
        /\ \A n \in 0 .. m : n # M => C[n] = T[n]
    BY <1>1, <1>2, <2>1 DEF Put, Push, Pop
  <2> QED BY <1>1, <1>3, <2>2 DEF Put, Push, Pop
<1>6. Y[M] = Cardinality(Counted \cap X[M])
  <2>1. Counted \cap X[M] = (Counted \cap W[M]) \union (Counted \cap W[m])
    BY <1>4
  <2>2. (Counted \cap W[M]) \cap (Counted \cap W[m]) = {}
    BY <1>1
  <2>3. Cardinality((Counted \cap W[M]) \union (Counted \cap W[m]))
          = Cardinality(Counted \cap W[M]) + Cardinality(Counted \cap W[m])
    <3>1. /\ Cardinality(Counted \cap W[M]) \in Nat /\ Cardinality(Counted \cap W[m]) \in Nat
          /\ IsFiniteSet(Counted \cap W[M]) /\ IsFiniteSet(Counted \cap W[m])
      BY CountedFinite
    <3>2. PICK G, H : G = Counted \cap W[M] /\ H = Counted \cap W[m]
      OBVIOUS
    <3>3. Cardinality(G \union H) = Cardinality(G) + Cardinality(H) - Cardinality(G \cap H)
      BY <3>1, <3>2, FS_Union
    <3>4. Cardinality(G \cap H) = 0
      BY <2>2, <3>2, FS_EmptySet
    <3>5. Cardinality(G \union H) = Cardinality(G) + Cardinality(H)
      BY <3>1, <3>2, <3>3, <3>4
    <3> QED BY <3>2, <3>5
  <2> QED BY <1>1, <1>5, <2>1, <2>3
<1>7. \A n \in 0 .. M : Y[n] = Cardinality(Counted \cap X[n])
  BY <1>1, <1>4, <1>5, <1>6
<1>8. \A x : x \in V <=> \E n \in 0 .. M : x \in X[n]
  BY <1>1, <1>4
<1>9. ASSUME NEW k \in 0 .. M, NEW n \in 0 .. M, k # n PROVE X[k] \cap X[n] = {}
  <2>1. k \in 0 .. m /\ n \in 0 .. m /\ k # m /\ n # m /\ M \in 0 .. m /\ m \in 0 .. m
    BY <1>1
  <2>2. W[k] \cap W[n] = {} /\ W[k] \cap W[m] = {} /\ W[n] \cap W[m] = {}
    BY <1>9, <2>1
  <2>3. CASE k = M
    BY <1>4, <1>9, <2>2, <2>3
  <2>4. CASE n = M
    BY <1>4, <1>9, <2>2, <2>4
  <2>5. CASE k # M /\ n # M
    BY <1>4, <2>2, <2>5
  <2> QED BY <2>3, <2>4, <2>5
<1>10. Tallied(M, V, X, Y)
  BY <1>1, <1>4, <1>5, <1>7, <1>8, <1>9
<1> QED BY <1>1, <1>2, <1>3, <1>10

-----------------------------------------------------------------------------
(* The walk of both tools *)

\* Where the calls f of parse_sub and the slot c of the root are in the walk that
\* has visited the slots V.
Roams(f, c, D, Q, U, V) ==
  /\ Explored(Len(f), D, U, V)
  /\ c \in Nat \ {0} /\ U[0] = 1 .. c - 1
  /\ \A s \in 1 .. c - 1 : entry[s].kind # "end"
  /\ \A n \in 1 .. Len(f) :
       /\ InDir(f[n].next, f[n].i, D[n], Q[n])
       /\ U[n] = Passed(f[n].next, f[n].i, Q[n])

Roam(f, c, V) == \E D, Q, U : Roams(f, c, D, Q, U, V)

LEMMA RoamBegins ==
  ASSUME VolumeInv
  PROVE  Roam(<<>>, 1, {})
<1>1. PICK D, U : D = [n \in 0 .. 0 |-> Root] /\ U = [n \in 0 .. 0 |-> {}]
  OBVIOUS
<1>2. Explored(0, D, U, {})
  BY <1>1, ExploresFirst
<1>3. U[0] = 1 .. 1 - 1 /\ 1 .. 1 - 1 = {} /\ Len(<<>>) = 0 /\ 1 .. 0 = {}
  BY <1>1
<1>4. Roams(<<>>, 1, D, <<>>, U, {})
  BY <1>2, <1>3 DEF Roams
<1> QED BY <1>4 DEF Roam

\* An entry of the root that is not one of a directory.
LEMMA RoamsRootSlot ==
  ASSUME VolumeInv, NEW c, NEW V, Roam(<<>>, c, V), c \in 1 .. RootSlots,
         entry[c].kind # "end", ~IsDir(c)
  PROVE  c \in Slot \ V /\ Roam(<<>>, c + 1, V \union {c})
<1>1. PICK D, Q, U : Roams(<<>>, c, D, Q, U, V)
  BY DEF Roam
<1>2. /\ Len(<<>>) = 0 /\ 1 .. 0 = {}
      /\ c \in Nat /\ c > 0 /\ 1 .. (c + 1) - 1 = (1 .. c - 1) \union {c} /\ c \notin 1 .. c - 1
  BY <1>1 DEF Roams
<1>3. c \in Contents(D[0]) \ U[0] /\ Explored(0, D, U, V)
  BY <1>1, <1>2 DEF Roams, Explored, Contents
<1>4. PICK X : X = Put(U, 0, U[0] \union {c})
  OBVIOUS
<1>5. c \in Slot \ V /\ Explored(0, D, X, V \union {c})
  BY <1>3, <1>4, ExploresSlot
<1>6. X[0] = 1 .. (c + 1) - 1
  <2>1. U \in [0 .. 0 -> SUBSET Slot] /\ U[0] = 1 .. c - 1
    BY <1>1, <1>3 DEF Explored, Roams
  <2> QED BY <1>2, <1>4, <2>1 DEF Put
<1>7. Roams(<<>>, c + 1, D, Q, X, V \union {c})
  BY <1>1, <1>2, <1>5, <1>6 DEF Roams
<1> QED BY <1>5, <1>7 DEF Roam

\* An entry of the root that is one of a directory, for which parse_sub is called.
LEMMA RoamsIntoRootDir ==
  ASSUME VolumeInv, NEW c, NEW V, Roam(<<>>, c, V), c \in 1 .. RootSlots, IsDir(c),
         NEW g, Len(g) = 1, g[1].next = entry[c].loc, g[1].i = 0
  PROVE  c \in Slot \ V /\ Roam(g, c + 1, V \union {c})
<1>1. PICK D, Q, U : Roams(<<>>, c, D, Q, U, V)
  BY DEF Roam
<1>2. /\ Len(<<>>) = 0 /\ 1 .. 0 = {} /\ 1 .. 1 = {1} /\ entry[c].kind # "end"
      /\ c \in Nat /\ c > 0 /\ 1 .. (c + 1) - 1 = (1 .. c - 1) \union {c} /\ c \notin 1 .. c - 1
  BY <1>1 DEF Roams, IsDir
<1>3. c \in Contents(D[0]) \ U[0] /\ Explored(0, D, U, V)
  BY <1>1, <1>2 DEF Roams, Explored, Contents
<1>4. PICK E, X : /\ E = Push(D, 0, c)
                  /\ X = Push(Put(U, 0, U[0] \union {c}), 0, {})
  OBVIOUS
<1>5. c \in Slot \ V /\ Explored(1, E, X, V \union {c})
  <2>1. c \in Slot \ V
    BY <1>3, ExploresSlot
  <2>2. Explored(0 + 1, E, X, V \union {c})
    BY <1>3, <1>4, ExploresDir
  <2> QED BY <2>1, <2>2, 0 + 1 = 1
<1>6. X[0] = 1 .. (c + 1) - 1 /\ X[1] = {} /\ E[1] = c
  <2>1. U \in [0 .. 0 -> SUBSET Slot] /\ D \in [0 .. 0 -> Dirs] /\ U[0] = 1 .. c - 1
    BY <1>1, <1>3 DEF Roams, Explored
  <2>2. 0 + 1 = 1 /\ 0 \in 0 .. 1 /\ 1 \in 0 .. 1
    OBVIOUS
  <2> QED BY <1>2, <1>4, <2>1, <2>2 DEF Put, Push
<1>7. InDir(g[1].next, g[1].i, c, {}) /\ Passed(g[1].next, g[1].i, {}) = {}
  BY <1>5, EntersDir
<1>8. PICK P : P = [n \in 1 .. 1 |-> {}]
  OBVIOUS
<1>9. \A n \in 1 .. 1 : /\ InDir(g[n].next, g[n].i, E[n], P[n])
                       /\ X[n] = Passed(g[n].next, g[n].i, P[n])
  BY <1>2, <1>6, <1>7, <1>8
<1>10. \A s \in 1 .. (c + 1) - 1 : entry[s].kind # "end"
  BY <1>1, <1>2 DEF Roams
<1>11. Roams(g, c + 1, E, P, X, V \union {c})
  BY <1>2, <1>5, <1>6, <1>9, <1>10 DEF Roams
<1> QED BY <1>5, <1>11 DEF Roam

\* Only the innermost call differs.
SameCallers(f, g, m) == \A n \in 1 .. m - 1 : g[n] = f[n]

\* The innermost call of f is at an entry of a directory.
LEMMA AtSlot ==
  ASSUME VolumeInv, NEW f, NEW c, NEW D, NEW Q, NEW U, NEW V,
         Roams(f, c, D, Q, U, V), NEW m \in Nat \ {0}, m = Len(f), NEW s,
         InChain(f[m].next), f[m].i < EntriesPerSector, s = SlotAt(f[m].next, f[m].i)
  PROVE  /\ Explored(m, D, U, V)
         /\ s \in Contents(D[m]) \ U[m] /\ s \in Slot \ V
         /\ InDir(f[m].next, f[m].i + 1, D[m], Q[m])
         /\ Passed(f[m].next, f[m].i + 1, Q[m]) = U[m] \union {s}
<1>1. m \in 1 .. m /\ m \in 0 .. m
  OBVIOUS
<1>2. PICK x, i, d, q : x = f[m].next /\ i = f[m].i /\ d = D[m] /\ q = Q[m]
  OBVIOUS
<1>3. /\ InDir(x, i, d, q) /\ U[m] = Passed(x, i, q)
      /\ Explored(m, D, U, V)
  BY <1>1, <1>2 DEF Roams
<1>4. /\ s \in Contents(d) \ Passed(x, i, q)
      /\ InDir(x, i + 1, d, q) /\ Passed(x, i + 1, q) = Passed(x, i, q) \union {s}
  BY <1>2, <1>3, PassesSlot
<1>5. s \in Slot \ V
  <2>1. s \in Contents(D[m]) \ U[m]
    BY <1>2, <1>3, <1>4
  <2>2. D[m] \in Dirs /\ Contents(D[m]) \cap V = U[m]
    BY <1>1, <1>3 DEF Explored
  <2>3. s \in Slot
    BY <2>1, <2>2, SlotOfDir
  <2> QED BY <2>1, <2>2, <2>3
<1> QED BY <1>2, <1>3, <1>4, <1>5

LEMMA RoamsSlot ==
  ASSUME VolumeInv, NEW f, NEW g, NEW c, NEW V, Roam(f, c, V), NEW m \in Nat \ {0}, m = Len(f),
         NEW s, InChain(f[m].next), f[m].i < EntriesPerSector, s = SlotAt(f[m].next, f[m].i),
         ~IsDir(s), Len(g) = m, SameCallers(f, g, m),
         g[m].next = f[m].next, g[m].i = f[m].i + 1
  PROVE  s \in Slot \ V /\ Roam(g, c, V \union {s})
<1>1. PICK D, Q, U : Roams(f, c, D, Q, U, V)
  BY DEF Roam
<1>2. m \in 1 .. m /\ m \in 0 .. m /\ 0 \in 0 .. m /\ m # 0 /\ 1 .. m \subseteq 0 .. m
  OBVIOUS
<1>3. /\ Explored(m, D, U, V)
      /\ s \in Contents(D[m]) \ U[m] /\ s \in Slot \ V
      /\ InDir(f[m].next, f[m].i + 1, D[m], Q[m])
      /\ Passed(f[m].next, f[m].i + 1, Q[m]) = U[m] \union {s}
  BY <1>1, AtSlot
<1>4. PICK X : X = Put(U, m, U[m] \union {s})
  OBVIOUS
<1>5. Explored(m, D, X, V \union {s})
  BY <1>3, <1>4, ExploresSlot
<1>6. X[m] = U[m] \union {s} /\ \A n \in 0 .. m : n # m => X[n] = U[n]
  BY <1>2, <1>3, <1>4 DEF Explored, Put
<1>7. ASSUME NEW n \in 1 .. m
      PROVE  /\ InDir(g[n].next, g[n].i, D[n], Q[n])
             /\ X[n] = Passed(g[n].next, g[n].i, Q[n])
  <2>1. CASE n = m
    BY <1>3, <1>6, <2>1
  <2>2. CASE n # m
    BY <1>1, <1>2, <1>6, <2>2 DEF Roams, SameCallers
  <2> QED BY <2>1, <2>2
<1>8. Roams(g, c, D, Q, X, V \union {s})
  BY <1>1, <1>2, <1>5, <1>6, <1>7 DEF Roams
<1> QED BY <1>3, <1>8 DEF Roam

\* The innermost call of f is at the slot s of a directory, goes on behind it and
\* calls parse_sub for it.
Enters(f, g, m, s) ==
  /\ InChain(f[m].next) /\ f[m].i < EntriesPerSector
  /\ s = SlotAt(f[m].next, f[m].i) /\ IsDir(s)
  /\ Len(f) = m /\ Len(g) = m + 1 /\ SameCallers(f, g, m)
  /\ g[m].next = f[m].next /\ g[m].i = f[m].i + 1
  /\ g[m + 1].next = entry[s].loc /\ g[m + 1].i = 0

LEMMA RoamsIntoDir ==
  ASSUME VolumeInv, NEW f, NEW g, NEW c, NEW V, Roam(f, c, V), NEW m \in Nat \ {0},
         NEW s, Enters(f, g, m, s)
  PROVE  s \in Slot \ V /\ Roam(g, c, V \union {s})
<1>1. PICK D, Q, U : Roams(f, c, D, Q, U, V)
  BY DEF Roam
<1>2. PICK M \in Nat : /\ M = m + 1 /\ M \notin 0 .. m /\ 1 .. M = (1 .. m) \union {M}
                       /\ 0 .. M = (0 .. m) \union {M} /\ M # m /\ M # 0
  BY m + 1 \in Nat
<1> USE DEF Enters
<1>3. m = Len(f) /\ m \in 1 .. m /\ m \in 0 .. m /\ 0 \in 0 .. m /\ m # 0 /\ 1 .. m \subseteq 0 .. m
  OBVIOUS
<1>4. /\ Explored(m, D, U, V)
      /\ s \in Contents(D[m]) \ U[m] /\ s \in Slot \ V
      /\ InDir(f[m].next, f[m].i + 1, D[m], Q[m])
      /\ Passed(f[m].next, f[m].i + 1, Q[m]) = U[m] \union {s}
  BY <1>1, AtSlot
<1>5. PICK E, X, P : /\ E = Push(D, m, s)
                     /\ X = Push(Put(U, m, U[m] \union {s}), m, {})
                     /\ P = [n \in 1 .. M |-> IF n = M THEN {} ELSE Q[n]]
  OBVIOUS
<1>6. Explored(M, E, X, V \union {s})
  <2>1. Explored(m + 1, E, X, V \union {s})
    BY <1>4, <1>5, ExploresDir
  <2> QED BY <1>2, <2>1
<1>7. /\ E[M] = s /\ \A n \in 0 .. m : E[n] = D[n]
      /\ X[M] = {} /\ X[m] = U[m] \union {s} /\ \A n \in 0 .. m : n # m => X[n] = U[n]
      /\ P[M] = {} /\ \A n \in 1 .. m : P[n] = Q[n]
  <2>1. U \in [0 .. m -> SUBSET Slot] /\ D \in [0 .. m -> Dirs]
    BY <1>4 DEF Explored
  <2>2. PICK U2 : U2 = Put(U, m, U[m] \union {s})
    OBVIOUS
  <2>3. U2[m] = U[m] \union {s} /\ \A n \in 0 .. m : n # m => U2[n] = U[n]
    BY <1>3, <2>1, <2>2 DEF Put
  <2>4. X = Push(U2, m, {})
    BY <1>5, <2>2
  <2> QED BY <1>2, <1>3, <1>5, <2>3, <2>4 DEF Push
<1>8. /\ InDir(entry[s].loc, 0, s, {}) /\ Passed(entry[s].loc, 0, {}) = {}
      /\ g[M].next = entry[s].loc /\ g[M].i = 0
  BY <1>2, <1>4, EntersDir
<1>9. ASSUME NEW n \in 1 .. M
      PROVE  /\ InDir(g[n].next, g[n].i, E[n], P[n])
             /\ X[n] = Passed(g[n].next, g[n].i, P[n])
  <2>1. CASE n = M
    BY <1>7, <1>8, <2>1
  <2>2. CASE n = m
    BY <1>3, <1>4, <1>7, <2>2
  <2>3. CASE n # m /\ n # M
    <3>1. n \in 1 .. m /\ n \in 0 .. m /\ g[n] = f[n]
      BY <1>2, <1>3, <2>3 DEF SameCallers
    <3>2. InDir(f[n].next, f[n].i, D[n], Q[n]) /\ U[n] = Passed(f[n].next, f[n].i, Q[n])
      BY <1>1, <3>1 DEF Roams
    <3> QED BY <1>7, <2>3, <3>1, <3>2
  <2> QED BY <2>1, <2>2, <2>3
<1>10. Roams(g, c, E, P, X, V \union {s})
  BY <1>1, <1>2, <1>3, <1>6, <1>7, <1>9 DEF Roams
<1> QED BY <1>4, <1>10 DEF Roam

LEMMA RoamsCluster ==
  ASSUME VolumeInv, ShapeInv, NEW f, NEW g, NEW c, NEW V, Roam(f, c, V),
         NEW m \in Nat \ {0}, m = Len(f), InChain(f[m].next), f[m].i = EntriesPerSector,
         Len(g) = m, SameCallers(f, g, m),
         g[m].next = link[f[m].next], g[m].i = 0
  PROVE  Roam(g, c, V)
<1>1. PICK D, Q, U : Roams(f, c, D, Q, U, V)
  BY DEF Roam
<1>2. m \in 1 .. m
  OBVIOUS
<1>3. PICK x, q : x = f[m].next /\ q = Q[m]
  OBVIOUS
<1>4. PICK P : P = [n \in 1 .. m |-> IF n = m THEN q \union {x} ELSE Q[n]]
  OBVIOUS
<1>5. /\ InDir(link[x], 0, D[m], q \union {x})
      /\ Passed(link[x], 0, q \union {x}) = U[m]
  <2>1. InDir(x, EntriesPerSector, D[m], q) /\ U[m] = Passed(x, EntriesPerSector, q)
    BY <1>1, <1>2, <1>3 DEF Roams
  <2>2. InChain(x)
    BY <1>3
  <2> QED BY <2>1, <2>2, PassesCluster
<1>6. ASSUME NEW n \in 1 .. m
      PROVE  /\ InDir(g[n].next, g[n].i, D[n], P[n])
             /\ U[n] = Passed(g[n].next, g[n].i, P[n])
  <2>1. CASE n = m
    BY <1>2, <1>3, <1>4, <1>5, <2>1
  <2>2. CASE n # m
    <3>1. P[n] = Q[n] /\ g[n] = f[n]
      BY <1>4, <2>2 DEF SameCallers
    <3> QED BY <1>1, <3>1 DEF Roams
  <2> QED BY <2>1, <2>2
<1>7. Roams(g, c, D, P, U, V)
  BY <1>1, <1>6 DEF Roams
<1> QED BY <1>7 DEF Roam

LEMMA RoamsBack ==
  ASSUME VolumeInv, ShapeInv, NEW f, NEW g, NEW c, NEW V, Roam(f, c, V),
         NEW m \in Nat \ {0}, m = Len(f), ~InChain(f[m].next), Len(g) = m - 1,
         \A n \in 1 .. m - 1 : g[n].next = f[n].next /\ g[n].i = f[n].i
  PROVE  Roam(g, c, V)
<1>1. PICK D, Q, U : Roams(f, c, D, Q, U, V)
  BY DEF Roam
<1>2. PICK M \in Nat : /\ M = m - 1 /\ 0 \in 0 .. M /\ 1 .. M \subseteq 0 .. M
                       /\ 1 .. M \subseteq 1 .. m /\ m \in 1 .. m
  BY m - 1 \in Nat
<1>3. Explored(m, D, U, V) /\ m # 0
  BY <1>1 DEF Roams
<1>4. U[m] = Contents(D[m])
  <2>1. PICK x, i, d, q : x = f[m].next /\ i = f[m].i /\ d = D[m] /\ q = Q[m]
    OBVIOUS
  <2>2. InDir(x, i, d, q) /\ U[m] = Passed(x, i, q)
    BY <1>1, <1>2, <2>1 DEF Roams
  <2> QED BY <2>1, <2>2, PassesAll
<1>5. PICK E, X : E = Pop(D, m) /\ X = Pop(U, m)
  OBVIOUS
<1>6. Explored(M, E, X, V)
  <2>1. Explored(m - 1, E, X, V)
    BY <1>3, <1>4, <1>5, ExploresBack
  <2> QED BY <1>2, <2>1
<1>7. \A n \in 0 .. M : E[n] = D[n] /\ X[n] = U[n]
  BY <1>2, <1>5 DEF Pop
<1>8. \A n \in 1 .. M : /\ InDir(g[n].next, g[n].i, E[n], Q[n])
                       /\ X[n] = Passed(g[n].next, g[n].i, Q[n])
  BY <1>1, <1>2, <1>7 DEF Roams
<1>9. Roams(g, c, E, Q, X, V)
  BY <1>1, <1>2, <1>6, <1>7, <1>8 DEF Roams
<1> QED BY <1>9 DEF Roam

-----------------------------------------------------------------------------
(* The counts of diskinfo *)

\* The count k of the root and those of the calls f, when the slots V were visited.
Counting(f, k, V) ==
  \E W, T : /\ Tallied(Len(f), V, W, T) /\ T[0] = k
            /\ \A n \in 1 .. Len(f) : T[n] = f[n].total

\* What the calls f of parse_sub, the slot c of the root and the count k of files
\* say of the walk.
Walk(f, c, k) == \E V : Roam(f, c, V) /\ Counting(f, k, V)

LEMMA WalkBegins ==
  ASSUME VolumeInv
  PROVE  Walk(<<>>, 1, 0)
<1>1. PICK W, T : W = [n \in 0 .. 0 |-> {}] /\ T = [n \in 0 .. 0 |-> 0]
  OBVIOUS
<1>2. Tallied(0, {}, W, T) /\ T[0] = 0 /\ Len(<<>>) = 0 /\ 1 .. 0 = {}
  BY <1>1, TalliesFirst
<1>3. Counting(<<>>, 0, {})
  BY <1>2 DEF Counting
<1> QED BY <1>3, RoamBegins DEF Walk

\* A slot that is visited.
LEMMA CountsSlot ==
  ASSUME NEW f, NEW g, NEW k, NEW l, NEW V, Counting(f, k, V), NEW m \in Nat, m = Len(f),
         NEW s \in Slot \ V, Len(g) = m, SameCallers(f, g, m),
         l = (IF m = 0 THEN Plus(k, s) ELSE k), m # 0 => g[m].total = Plus(f[m].total, s)
  PROVE  Counting(g, l, V \union {s})
<1>1. PICK W, T : /\ Tallied(m, V, W, T) /\ T[0] = k
                  /\ \A n \in 1 .. m : T[n] = f[n].total
  BY DEF Counting
<1>2. PICK Y, Z : /\ Y = Put(W, m, W[m] \union {s})
                  /\ Z = Put(T, m, Plus(T[m], s))
  OBVIOUS
<1>3. Tallied(m, V \union {s}, Y, Z)
  BY <1>1, <1>2, TalliesSlot
<1>4. Z[m] = Plus(T[m], s) /\ \A n \in 0 .. m : n # m => Z[n] = T[n]
  BY <1>1, <1>2, m \in 0 .. m DEF Tallied, Put
<1>5. Z[0] = l
  <2>1. 0 \in 0 .. m
    OBVIOUS
  <2> QED BY <1>1, <1>4, <2>1
<1>6. ASSUME NEW n \in 1 .. m PROVE Z[n] = g[n].total
  <2>1. CASE n = m
    BY <1>1, <1>4, <2>1
  <2>2. CASE n # m
    <3>1. n \in 0 .. m /\ g[n] = f[n]
      BY <2>2 DEF SameCallers
    <3> QED BY <1>1, <1>4, <2>2, <3>1
  <2> QED BY <2>1, <2>2
<1> QED BY <1>3, <1>5, <1>6 DEF Counting

\* A slot that is visited, for which parse_sub is called.
LEMMA CountsCall ==
  ASSUME NEW f, NEW g, NEW k, NEW V, Counting(f, k, V), NEW m \in Nat, m = Len(f),
         NEW s \in Slot \ V, IsDir(s), Len(g) = m + 1,
         \A n \in 1 .. m : g[n].total = f[n].total, g[m + 1].total = 0
  PROVE  Counting(g, k, V \union {s})
<1>1. PICK W, T : /\ Tallied(m, V, W, T) /\ T[0] = k
                  /\ \A n \in 1 .. m : T[n] = f[n].total
  BY DEF Counting
<1>2. PICK W2, T2 : W2 = Put(W, m, W[m] \union {s}) /\ T2 = Put(T, m, Plus(T[m], s))
  OBVIOUS
<1>3. Tallied(m, V \union {s}, W2, T2)
  BY <1>1, <1>2, TalliesSlot
<1>4. T2 = T
  BY <1>1, <1>2 DEF Tallied, Put, Plus, Counted, IsFile, IsDir
<1>5. PICK Y, Z : Y = Push(W2, m, {}) /\ Z = Push(T, m, 0)
  OBVIOUS
<1>6. Tallied(m + 1, V \union {s}, Y, Z)
  BY <1>3, <1>4, <1>5, TalliesCall
<1>7. Z[m + 1] = 0 /\ \A n \in 0 .. m : Z[n] = T[n]
  BY <1>5 DEF Push
<1>8. Z[0] = k
  <2>1. 0 \in 0 .. m
    OBVIOUS
  <2> QED BY <1>1, <1>7, <2>1
<1>9. ASSUME NEW n \in 1 .. m + 1 PROVE Z[n] = g[n].total
  <2>1. CASE n = m + 1
    BY <1>7, <2>1
  <2>2. CASE n # m + 1
    <3>1. n \in 1 .. m /\ n \in 0 .. m
      BY <2>2
    <3> QED BY <1>1, <1>7, <3>1
  <2> QED BY <2>1, <2>2
<1> QED BY <1>6, <1>8, <1>9 DEF Counting

\* The count of a call that returns is added by its caller.
LEMMA CountsBack ==
  ASSUME NEW f, NEW g, NEW k, NEW l, NEW V, Counting(f, k, V), NEW m \in Nat \ {0}, m = Len(f),
         Len(g) = m - 1, SameCallers(f, g, m - 1),
         l = (IF m = 1 THEN k + f[m].total ELSE k),
         m # 1 => g[m - 1].total = f[m - 1].total + f[m].total
  PROVE  Counting(g, l, V)
<1>1. PICK W, T : /\ Tallied(m, V, W, T) /\ T[0] = k
                  /\ \A n \in 1 .. m : T[n] = f[n].total
  BY DEF Counting
<1>2. PICK M \in Nat : /\ M = m - 1 /\ M \in 0 .. M /\ 0 \in 0 .. M /\ 1 .. M \subseteq 0 .. M
                       /\ 1 .. M \subseteq 1 .. m /\ m \in 1 .. m /\ (M = 0 <=> m = 1)
                       /\ 0 .. m = (0 .. M) \union {m} /\ m \notin 0 .. M
  BY m - 1 \in Nat
<1>3. PICK Y, Z : /\ Y = Pop(Put(W, m - 1, W[m - 1] \union W[m]), m)
                  /\ Z = Pop(Put(T, m - 1, T[m - 1] + T[m]), m)
  OBVIOUS
<1>4. Tallied(M, V, Y, Z)
  <2>1. m # 0
    OBVIOUS
  <2>2. Tallied(m - 1, V, Y, Z)
    BY <1>1, <1>3, <2>1, TalliesBack
  <2> QED BY <1>2, <2>2
<1>5. Z[M] = T[M] + T[m] /\ \A n \in 0 .. M : n # M => Z[n] = T[n]
  <2>1. T \in [0 .. m -> Nat]
    BY <1>1 DEF Tallied
  <2>2. PICK T2 : T2 = Put(T, M, T[M] + T[m])
    OBVIOUS
  <2>3. T2[M] = T[M] + T[m] /\ \A n \in 0 .. M : n # M => T2[n] = T[n]
    BY <1>2, <2>1, <2>2 DEF Put
  <2>4. Z = Pop(T2, m)
    BY <1>2, <1>3, <2>2
  <2> QED BY <1>2, <2>3, <2>4 DEF Pop
<1>6. Z[0] = l
  BY <1>1, <1>2, <1>5
<1>7. ASSUME NEW n \in 1 .. M PROVE Z[n] = g[n].total
  <2>1. CASE n = M
    <3>1. m # 1 /\ g[M].total = f[M].total + f[m].total
      BY <1>2, <2>1
    <3> QED BY <1>1, <1>2, <1>5, <2>1, <3>1
  <2>2. CASE n # M
    <3>1. g[n] = f[n]
      BY <1>2, <2>2 DEF SameCallers
    <3> QED BY <1>1, <1>2, <1>5, <2>2, <3>1
  <2> QED BY <2>1, <2>2
<1> QED BY <1>2, <1>4, <1>6, <1>7 DEF Counting

LEMMA WalksRootSlot ==
  ASSUME VolumeInv, NEW c, NEW k, Walk(<<>>, c, k), c \in 1 .. RootSlots,
         entry[c].kind # "end", ~IsDir(c)
  PROVE  Walk(<<>>, c + 1, Plus(k, c))
<1>1. PICK V : Roam(<<>>, c, V) /\ Counting(<<>>, k, V)
  BY DEF Walk
<1>2. c \in Slot \ V /\ Roam(<<>>, c + 1, V \union {c})
  BY <1>1, RoamsRootSlot
<1>3. PICK f : f = <<>>
  OBVIOUS
<1>4. Len(f) = 0 /\ SameCallers(f, f, 0) /\ 0 \in Nat
  BY <1>3 DEF SameCallers
<1>5. Counting(f, Plus(k, c), V \union {c})
  BY <1>1, <1>2, <1>3, <1>4, CountsSlot
<1> QED BY <1>2, <1>3, <1>5 DEF Walk

LEMMA WalksIntoRootDir ==
  ASSUME VolumeInv, NEW c, NEW k, Walk(<<>>, c, k), c \in 1 .. RootSlots, IsDir(c)
  PROVE  Walk(<<Call(entry[c].loc)>>, c + 1, k)
<1>1. PICK V : Roam(<<>>, c, V) /\ Counting(<<>>, k, V)
  BY DEF Walk
<1>2. PICK f, g : f = <<>> /\ g = <<Call(entry[c].loc)>>
  OBVIOUS
<1>3. /\ Len(f) = 0 /\ 1 .. 0 = {} /\ 0 + 1 = 1 /\ 0 \in Nat
      /\ Len(g) = 1 /\ g[1].next = entry[c].loc /\ g[1].i = 0 /\ g[1].total = 0
  BY <1>2 DEF Call
<1>4. c \in Slot \ V /\ Roam(g, c + 1, V \union {c})
  BY <1>1, <1>3, RoamsIntoRootDir
<1>5. Counting(g, k, V \union {c})
  BY <1>1, <1>2, <1>3, <1>4, CountsCall
<1> QED BY <1>2, <1>4, <1>5 DEF Walk

LEMMA WalksSlot ==
  ASSUME VolumeInv, NEW f, NEW g, NEW c, NEW k, Walk(f, c, k), NEW m \in Nat \ {0}, m = Len(f),
         NEW s, InChain(f[m].next), f[m].i < EntriesPerSector, s = SlotAt(f[m].next, f[m].i),
         ~IsDir(s), Len(g) = m, SameCallers(f, g, m),
         g[m].next = f[m].next, g[m].i = f[m].i + 1,
         g[m].total = Plus(f[m].total, s)
  PROVE  Walk(g, c, k)
<1>1. PICK V : Roam(f, c, V) /\ Counting(f, k, V)
  BY DEF Walk
<1>2. s \in Slot \ V /\ Roam(g, c, V \union {s})
  BY <1>1, RoamsSlot
<1>3. m \in Nat /\ m # 0
  OBVIOUS
<1>4. Counting(g, k, V \union {s})
  BY <1>1, <1>2, <1>3, CountsSlot
<1> QED BY <1>2, <1>4 DEF Walk

LEMMA WalksIntoDir ==
  ASSUME VolumeInv, NEW f, NEW g, NEW c, NEW k, Walk(f, c, k), NEW m \in Nat \ {0}, m = Len(f),
         NEW s, InChain(f[m].next), f[m].i < EntriesPerSector, s = SlotAt(f[m].next, f[m].i),
         IsDir(s), Len(g) = m + 1, SameCallers(f, g, m),
         g[m].next = f[m].next, g[m].i = f[m].i + 1, g[m].total = f[m].total,
         g[m + 1] = Call(entry[s].loc)
  PROVE  Walk(g, c, k)
<1>1. PICK V : Roam(f, c, V) /\ Counting(f, k, V)
  BY DEF Walk
<1>2. g[m + 1].next = entry[s].loc /\ g[m + 1].i = 0 /\ g[m + 1].total = 0
  BY DEF Call
<1>3. s \in Slot \ V /\ Roam(g, c, V \union {s})
  <2>1. Enters(f, g, m, s) /\ Roam(f, c, V)
    BY <1>1, <1>2 DEF Enters
  <2> QED BY <2>1, RoamsIntoDir
<1>4. \A n \in 1 .. m : g[n].total = f[n].total
  <2>1. \A n \in 1 .. m : n = m \/ n \in 1 .. m - 1
    OBVIOUS
  <2> QED BY <2>1 DEF SameCallers
<1>5. Counting(g, k, V \union {s})
  BY <1>1, <1>2, <1>3, <1>4, m \in Nat, CountsCall
<1> QED BY <1>3, <1>5 DEF Walk

LEMMA WalksCluster ==
  ASSUME VolumeInv, ShapeInv, NEW f, NEW g, NEW c, NEW k, Walk(f, c, k),
         NEW m \in Nat \ {0}, m = Len(f), InChain(f[m].next), f[m].i = EntriesPerSector,
         Len(g) = m, SameCallers(f, g, m),
         g[m].next = link[f[m].next], g[m].i = 0, g[m].total = f[m].total
  PROVE  Walk(g, c, k)
<1>1. PICK V : Roam(f, c, V) /\ Counting(f, k, V)
  BY DEF Walk
<1>2. Roam(g, c, V)
  BY <1>1, RoamsCluster
<1>3. \A n \in 1 .. m : g[n].total = f[n].total
  <2>1. \A n \in 1 .. m : n = m \/ n \in 1 .. m - 1
    OBVIOUS
  <2> QED BY <2>1 DEF SameCallers
<1>4. Counting(g, k, V)
  BY <1>1, <1>3 DEF Counting
<1> QED BY <1>2, <1>4 DEF Walk

LEMMA WalksBack ==
  ASSUME VolumeInv, ShapeInv, NEW f, NEW g, NEW c, NEW k, Walk(f, c, k),
         NEW m \in Nat \ {0}, m = Len(f), ~InChain(f[m].next),
         Len(g) = m - 1, SameCallers(f, g, m - 1),
         NEW l, IF m = 1 THEN l = k + f[m].total
                ELSE /\ l = k
                     /\ g[m - 1].next = f[m - 1].next /\ g[m - 1].i = f[m - 1].i
                     /\ g[m - 1].total = f[m - 1].total + f[m].total
  PROVE  Walk(g, c, l)
<1>1. PICK V : Roam(f, c, V) /\ Counting(f, k, V)
  BY DEF Walk
<1>2. \A n \in 1 .. m - 1 : g[n].next = f[n].next /\ g[n].i = f[n].i
  <2>1. \A n \in 1 .. m - 1 : m # 1 /\ (n = m - 1 \/ n \in 1 .. (m - 1) - 1)
    OBVIOUS
  <2> QED BY <2>1 DEF SameCallers
<1>3. Roam(g, c, V)
  BY <1>1, <1>2, RoamsBack
<1>4. /\ l = (IF m = 1 THEN k + f[m].total ELSE k)
      /\ m # 1 => g[m - 1].total = f[m - 1].total + f[m].total
  OBVIOUS
<1>5. Counting(g, l, V)
  BY <1>1, <1>4, CountsBack
<1> QED BY <1>3, <1>5 DEF Walk

\* At the end of the root, the count is that of all stored files.
LEMMA WalksAll ==
  ASSUME VolumeInv, ShapeInv, NEW c, NEW k, Walk(<<>>, c, k), c \in 1 .. RootSlots,
         entry[c].kind = "end"
  PROVE  k = Cardinality(Stored(Files))
<1>1. PICK D, Q, U, V : Roams(<<>>, c, D, Q, U, V) /\ Counting(<<>>, k, V)
  BY DEF Walk, Roam
<1>2. Explored(0, D, U, V) /\ 1 .. c - 1 \subseteq U[0]
  BY <1>1, Len(<<>>) = 0 DEF Roams
<1>3. /\ \A s \in 1 .. RootSlots : entry[s].kind # "end" => s \in V
      /\ \A d \in Dirs \ {Root} : Contents(d) \subseteq V
  BY <1>2, ExploresAll
<1>4. k = Cardinality(Counted \cap V)
  <2>1. PICK W, T : Tallied(0, V, W, T) /\ T[0] = k
    BY <1>1, Len(<<>>) = 0 DEF Counting
  <2>2. \A s : s \in V <=> s \in W[0]
    <3>1. \A n : n \in 0 .. 0 <=> n = 0
      OBVIOUS
    <3> QED BY <2>1, <3>1 DEF Tallied
  <2>3. Counted \cap V = Counted \cap W[0]
    BY <2>2
  <2>4. k = Cardinality(Counted \cap W[0])
    <3>1. 0 \in 0 .. 0
      OBVIOUS
    <3> QED BY <2>1, <3>1 DEF Tallied
  <2> QED BY <2>3, <2>4
<1>5. ASSUME NEW s \in Counted \cap V PROVE s \in Stored(Files)
  <2>1. PICK d \in Dirs : s \in Contents(d)
    BY <1>2, <1>5 DEF Explored
  <2>2. s \in Holds(d, {"file"}) /\ entry[s].loc # NoCluster
    BY <1>5, <2>1 DEF Counted, IsFile, Holds
  <2> QED BY <2>1, <2>2 DEF Stored, Files
<1>6. ASSUME NEW s \in Stored(Files) PROVE s \in Counted \cap V
  <2>1. PICK d \in Dirs : s \in Contents(d) /\ entry[s].kind = "file" /\ entry[s].loc # NoCluster
    BY <1>6 DEF Stored, Files, Holds
  <2>2. s \in Slot
    BY <2>1, SlotOfDir
  <2>3. s \in V
    <3>1. CASE d = Root
      BY <1>3, <2>1, <3>1 DEF Contents
    <3>2. CASE d # Root
      BY <1>3, <2>1, <3>2
    <3> QED BY <3>1, <3>2
  <2> QED BY <2>1, <2>2, <2>3 DEF Counted, IsFile
<1>7. Counted \cap V = Stored(Files)
  BY <1>5, <1>6
<1> QED BY <1>4, <1>7

-----------------------------------------------------------------------------
(* The steps of diskinfo *)

\* What the tests of print_num_of_files and parse_sub tell of an entry.
LEMMA EntryKinds ==
  ASSUME VolumeInv, NEW s \in Slot
  PROVE  /\ SkippedInSub(entry[s]) => ~IsDir(s) /\ s \notin Counted
         /\ SkippedInRoot(entry[s]) => SkippedInSub(entry[s])
         /\ ~SkippedInRoot(entry[s]) /\ IsFile(entry[s]) => s \in Counted /\ ~IsDir(s)
         /\ ~SkippedInSub(entry[s]) /\ ~IsFile(entry[s]) => IsDir(s)
         /\ s \in 1 .. RootSlots /\ SkippedInSub(entry[s]) => SkippedInRoot(entry[s])
<1>1. PICK k, l : k = entry[s].kind /\ l = entry[s].loc
  OBVIOUS
<1>2. k \in Kind /\ l \in Cluster \union {NoCluster}
  BY <1>1 DEF VolumeInv, VolumeTypes
<1>3. 0 \notin Cluster /\ 1 \notin Cluster
  BY DEF Cluster
<1>4. (k = "dir" => l \in Cluster) /\ (k = "end" => l = NoCluster)
  BY <1>1 DEF VolumeInv, EntriesLead, EntryLeads
<1>5. k = "dot" => s \notin 1 .. RootSlots
  <2>1. k = "dot" => l \in Cluster /\ s \in SlotsOf(l)
    BY <1>1 DEF VolumeInv, EntriesLead, EntryLeads, DirCluster
  <2> QED BY <2>1, SlotsApart
<1> QED BY <1>1, <1>2, <1>3, <1>4, <1>5
        DEF SkippedInSub, SkippedInRoot, Skipped, IsDir, Counted, IsFile, Kind, Deleted, NoCluster

\* A step of diskinfo that counts goes on with the walk, or ends it.
Goes ==
  \/ info' = "counting" /\ \E g, d, l : g = frames' /\ d = cursor' /\ l = count' /\ Walk(g, d, l)
  \/ info' = "done" /\ count' = Cardinality(Stored(Files))

LEMMA GoesInRoot ==
  ASSUME VolumeInv, ShapeInv, RootHasEnd, info = "counting", Walk(frames, cursor, count),
         RootSkip \/ RootFile \/ RootDir \/ RootEnd
  PROVE  Goes
<1>1. PICK c, k : c = cursor /\ k = count
  OBVIOUS
<1>2. frames = <<>> /\ Walk(<<>>, c, k)
  BY <1>1 DEF RootSkip, RootFile, RootDir, RootEnd, AtRoot
<1>3. c \in 1 .. RootSlots /\ c \in Slot
  <2>1. PICK R \in Nat : R = RootSlots
    BY VolumeAssumption, Product DEF RootSlots
  <2>2. PICK e \in 1 .. R : entry[e].kind = "end"
    BY <2>1 DEF RootHasEnd, Holds, Contents
  <2>3. c \in Nat \ {0} /\ \A s \in 1 .. c - 1 : entry[s].kind # "end"
    BY <1>2 DEF Walk, Roam, Roams
  <2>4. c \in 1 .. R
    BY <2>2, <2>3
  <2> QED BY <2>1, <2>4, SlotsApart
<1>4. /\ SkippedInRoot(entry[c]) => ~IsDir(c) /\ c \notin Counted
      /\ ~SkippedInRoot(entry[c]) /\ IsFile(entry[c]) => c \in Counted /\ ~IsDir(c)
      /\ ~SkippedInRoot(entry[c]) /\ ~IsFile(entry[c]) => IsDir(c)
  BY <1>3, EntryKinds
<1>5. CASE RootSkip
  <2>1. Walk(<<>>, c + 1, k)
    <3>1. entry[c].kind # "end" /\ ~IsDir(c) /\ c \notin Counted
      BY <1>1, <1>4, <1>5 DEF RootSkip
    <3>2. Walk(<<>>, c + 1, Plus(k, c))
      BY <1>2, <1>3, <3>1, WalksRootSlot
    <3> QED BY <3>1, <3>2 DEF Plus
  <2> QED BY <1>1, <1>2, <1>5, <2>1 DEF RootSkip, Goes
<1>6. CASE RootFile
  <2>1. Walk(<<>>, c + 1, k + 1)
    <3>1. entry[c].kind # "end" /\ ~IsDir(c) /\ c \in Counted
      BY <1>1, <1>4, <1>6 DEF RootFile, IsFile
    <3>2. Walk(<<>>, c + 1, Plus(k, c))
      BY <1>2, <1>3, <3>1, WalksRootSlot
    <3> QED BY <3>1, <3>2 DEF Plus
  <2> QED BY <1>1, <1>2, <1>6, <2>1 DEF RootFile, Goes
<1>7. CASE RootDir
  <2>1. PICK g : g = <<Call(entry[c].loc)>>
    OBVIOUS
  <2>2. IsDir(c)
    BY <1>1, <1>4, <1>7 DEF RootDir
  <2>3. Walk(g, c + 1, k)
    BY <1>2, <1>3, <2>1, <2>2, WalksIntoRootDir
  <2>4. g = frames' /\ cursor' = c + 1 /\ count' = k /\ info' = "counting"
    BY <1>1, <1>7, <2>1 DEF RootDir
  <2> QED BY <2>3, <2>4 DEF Goes
<1>8. CASE RootEnd
  <2>1. k = Cardinality(Stored(Files))
    BY <1>1, <1>2, <1>3, <1>8, WalksAll DEF RootEnd
  <2> QED BY <1>1, <1>8, <2>1 DEF RootEnd, Goes
<1> QED BY <1>5, <1>6, <1>7, <1>8

LEMMA GoesInSub ==
  ASSUME VolumeInv, ShapeInv, frames \in Seq(SoundFrames), info = "counting",
         Walk(frames, cursor, count),
         SubSkip \/ SubFile \/ SubDir \/ SubNextCluster \/ SubReturn
  PROVE  Goes
<1>1. PICK f, c, k : f = frames /\ c = cursor /\ k = count
  OBVIOUS
<1>2. Walk(f, c, k) /\ frames # <<>>
  BY <1>1 DEF SubSkip, SubFile, SubDir, AtEntry, SubNextCluster, SubReturn
<1>3. PICK m \in Nat \ {0} : m = Len(f) /\ m \in 1 .. Len(f)
  BY <1>1, <1>2, Stack
<1>4. PICK t : t = f[m]
  OBVIOUS
<1>5. /\ t \in Frame /\ t.i \in Nat /\ t.total \in Nat /\ Top = t /\ Depth = m
      /\ InChain(t.next) => t.next \in Cluster
      /\ \A n \in 1 .. m : f[n] \in Frame
  <2>1. \A n \in 1 .. m : f[n] \in SoundFrames
    BY <1>1, <1>3, ElementOfSeq
  <2> QED BY <1>1, <1>3, <1>4, <2>1 DEF SoundFrames, Frame, Top, Depth, DirCluster
<1>6. ASSUME NEW x \in Frame
      PROVE  LET g == [f EXCEPT ![m] = x]
             IN  Len(g) = m /\ SameCallers(f, g, m) /\ g[m] = x
  <2>1. PICK g : g = [f EXCEPT ![m] = x]
    OBVIOUS
  <2>2. f \in Seq(SoundFrames)
    BY <1>1
  <2>3. Len(g) = m /\ g[m] = x /\ \A n \in 1 .. m - 1 : g[n] = f[n]
    BY <1>3, <2>1, <2>2, ElementOfSeq
  <2> QED BY <2>1, <2>3 DEF SameCallers
<1>7. ASSUME AtEntry
      PROVE  /\ InChain(t.next) /\ t.i < EntriesPerSector /\ TopSlot = SlotAt(t.next, t.i)
             /\ t.i + 1 \in 0 .. EntriesPerSector
             /\ TopSlot \in Slot
             /\ SkippedInSub(entry[TopSlot]) => ~IsDir(TopSlot) /\ TopSlot \notin Counted
             /\ ~SkippedInSub(entry[TopSlot]) /\ IsFile(entry[TopSlot])
                  => TopSlot \in Counted /\ ~IsDir(TopSlot)
             /\ ~SkippedInSub(entry[TopSlot]) /\ ~IsFile(entry[TopSlot]) => IsDir(TopSlot)
  <2>1. t.i + 1 \in 0 .. EntriesPerSector
    <3>1. t.i \in Nat /\ t.i < EntriesPerSector
      BY <1>5, <1>7 DEF AtEntry
    <3> QED BY <3>1, VolumeAssumption
  <2> QED BY <1>5, <1>7, <2>1, EntryKinds DEF AtEntry, TopSlot
<1>8. PICK s : s = TopSlot
  OBVIOUS
<1>9. CASE SubSkip
  <2>1. AtEntry /\ ~IsDir(s) /\ s \notin Counted
    BY <1>7, <1>8, <1>9 DEF SubSkip
  <2>2. PICK x : x = [t EXCEPT !.i = t.i + 1]
    OBVIOUS
  <2>3. x \in Frame /\ x.next = t.next /\ x.i = t.i + 1 /\ x.total = Plus(t.total, s)
    BY <1>5, <1>7, <2>1, <2>2 DEF Frame, Plus
  <2>4. PICK g : g = [f EXCEPT ![m] = x]
    OBVIOUS
  <2>5. frames' = g /\ cursor' = c /\ count' = k /\ info' = "counting"
    BY <1>1, <1>4, <1>5, <1>9, <2>2, <2>4 DEF SubSkip
  <2>6. Len(g) = m /\ SameCallers(f, g, m) /\ g[m] = x
    BY <1>6, <2>3, <2>4
  <2>7. Walk(g, c, k)
    BY <1>2, <1>3, <1>4, <1>7, <1>8, <2>1, <2>3, <2>6, WalksSlot
  <2> QED BY <2>5, <2>7 DEF Goes
<1>10. CASE SubFile
  <2>1. AtEntry /\ ~IsDir(s) /\ s \in Counted
    BY <1>7, <1>8, <1>10 DEF SubFile
  <2>2. PICK x : x = [t EXCEPT !.i = t.i + 1, !.total = t.total + 1]
    OBVIOUS
  <2>3. x \in Frame /\ x.next = t.next /\ x.i = t.i + 1 /\ x.total = Plus(t.total, s)
    <3>1. t.i + 1 \in 0 .. EntriesPerSector /\ t.total + 1 \in Nat /\ Plus(t.total, s) = t.total + 1
      BY <1>5, <1>7, <2>1 DEF Plus
    <3> QED BY <1>5, <2>2, <3>1 DEF Frame
  <2>4. PICK g : g = [f EXCEPT ![m] = x]
    OBVIOUS
  <2>5. frames' = g
    <3>1. frames' = [f EXCEPT ![m].i = @ + 1, ![m].total = @ + 1]
      BY <1>1, <1>5, <1>10 DEF SubFile
    <3> QED BY <1>3, <1>4, <1>5, <2>2, <2>4, <3>1 DEF Frame
  <2>6. cursor' = c /\ count' = k /\ info' = "counting"
    BY <1>1, <1>10 DEF SubFile
  <2>7. Len(g) = m /\ SameCallers(f, g, m) /\ g[m] = x
    BY <1>6, <2>3, <2>4
  <2>8. Walk(g, c, k)
    BY <1>2, <1>3, <1>4, <1>7, <1>8, <2>1, <2>3, <2>7, WalksSlot
  <2> QED BY <2>5, <2>6, <2>8 DEF Goes
<1>11. CASE SubDir
  <2>1. AtEntry /\ IsDir(s)
    BY <1>7, <1>8, <1>11 DEF SubDir
  <2>2. PICK x : x = [t EXCEPT !.i = t.i + 1]
    OBVIOUS
  <2>3. x \in Frame /\ x.next = t.next /\ x.i = t.i + 1 /\ x.total = t.total
    BY <1>5, <1>7, <2>1, <2>2 DEF Frame
  <2>4. PICK h, e, g : h = [f EXCEPT ![m] = x] /\ e = Call(entry[s].loc) /\ g = Append(h, e)
    OBVIOUS
  <2>5. frames' = g /\ cursor' = c /\ count' = k /\ info' = "counting"
    BY <1>1, <1>4, <1>5, <1>8, <1>11, <2>2, <2>4 DEF SubDir
  <2>6. Len(h) = m /\ SameCallers(f, h, m) /\ h[m] = x
    BY <1>6, <2>3, <2>4
  <2>7. Len(g) = m + 1 /\ g[m + 1] = e /\ \A n \in 1 .. m : g[n] = h[n]
    <3>1. h \in Seq({f[n] : n \in 1 .. m} \union {x})
      <4>1. f \in Seq({f[n] : n \in 1 .. m} \union {x})
        BY <1>1, <1>3, IsASeq
      <4> QED BY <1>3, <2>4, <4>1, ExceptSeq
    <3> QED BY <2>4, <2>6, <3>1, AppendProperties
  <2>8. SameCallers(f, g, m) /\ g[m] = x
    BY <2>6, <2>7 DEF SameCallers
  <2>9. Walk(g, c, k)
    BY <1>2, <1>3, <1>4, <1>7, <1>8, <2>1, <2>3, <2>4, <2>7, <2>8, WalksIntoDir
  <2> QED BY <2>5, <2>9 DEF Goes
<1>12. CASE SubNextCluster
  <2>1. InChain(t.next) /\ t.i = EntriesPerSector /\ t.next \in Cluster
    BY <1>5, <1>12 DEF SubNextCluster
  <2>2. PICK n : n = link[t.next] /\ n = get_FAT_entry(FAT, t.next)
    BY <2>1, Follows
  <2>3. PICK x : x = [t EXCEPT !.i = 0, !.next = n]
    OBVIOUS
  <2>4. n \in Entry12
    <3>1. t.next \in 0 .. LastCluster
      BY <2>1, VolumeAssumption DEF Cluster
    <3>2. link \in [0 .. LastCluster -> Entry12]
      BY DEF VolumeInv, VolumeTypes
    <3> QED BY <2>2, <3>1, <3>2
  <2>5. x \in Frame /\ x.next = link[t.next] /\ x.i = 0 /\ x.total = t.total
    <3>1. 0 \in 0 .. EntriesPerSector
      BY VolumeAssumption
    <3> QED BY <1>5, <2>2, <2>3, <2>4, <3>1 DEF Frame
  <2>6. PICK g : g = [f EXCEPT ![m] = x]
    OBVIOUS
  <2>7. frames' = g
    <3>1. frames' = [f EXCEPT ![m].i = 0, ![m].next = get_FAT_entry(FAT, @)]
      BY <1>1, <1>5, <1>12 DEF SubNextCluster, FollowChain
    <3> HIDE DEF FAT, get_FAT_entry
    <3> QED BY <1>3, <1>4, <1>5, <2>2, <2>3, <2>6, <3>1 DEF Frame
  <2>8. cursor' = c /\ count' = k /\ info' = "counting"
    BY <1>1, <1>12 DEF SubNextCluster
  <2>9. Len(g) = m /\ SameCallers(f, g, m) /\ g[m] = x
    BY <1>6, <2>5, <2>6
  <2>10. Walk(g, c, k)
    BY <1>2, <1>3, <1>4, <2>1, <2>5, <2>9, WalksCluster
  <2> QED BY <2>7, <2>8, <2>10 DEF Goes
<1>13. CASE SubReturn
  <2>1. ~InChain(t.next) /\ GiveBack /\ cursor' = c /\ info' = "counting"
    BY <1>1, <1>5, <1>13 DEF SubReturn
  <2>2. CASE m = 1
    <3>1. PICK g, l : g = <<>> /\ l = k + t.total
      OBVIOUS
    <3>2. frames' = g /\ count' = l
      BY <1>1, <1>5, <2>1, <2>2, <3>1 DEF GiveBack
    <3>3. Len(g) = m - 1 /\ SameCallers(f, g, m - 1)
      BY <2>2, <3>1 DEF SameCallers
    <3>4. Walk(g, c, l)
      BY <1>2, <1>3, <1>4, <2>1, <2>2, <3>1, <3>3, WalksBack
    <3> QED BY <2>1, <3>2, <3>4 DEF Goes
  <2>3. CASE m # 1
    <3>1. PICK M \in Nat \ {0} : M = m - 1 /\ M \in 1 .. M /\ 1 .. M \subseteq 1 .. m
      BY <2>3, m - 1 \in Nat
    <3>2. PICK r : r = SubSeq(f, 1, M)
      OBVIOUS
    <3>3. Len(r) = M /\ (\A n \in 1 .. M : r[n] = f[n]) /\ r \in Seq(Frame)
      <4>1. f \in Seq(Frame)
        BY <1>1, <1>3, <1>5, IsASeq
      <4> QED BY <1>3, <3>1, <3>2, <4>1, SubSeqProperties
    <3>4. PICK y, x : y = r[M] /\ x = [y EXCEPT !.total = y.total + t.total]
      OBVIOUS
    <3>5. y = f[M] /\ y \in Frame
      BY <1>5, <3>1, <3>3, <3>4
    <3>6. /\ x \in Frame /\ x.next = y.next /\ x.i = y.i /\ x.total = y.total + t.total
      <4>1. y.total + t.total \in Nat
        BY <1>5, <3>5 DEF Frame
      <4> QED BY <3>4, <3>5, <4>1 DEF Frame
    <3>7. PICK g : g = [r EXCEPT ![M] = x]
      OBVIOUS
    <3>8. frames' = g /\ count' = k
      BY <1>1, <1>5, <2>1, <2>3, <3>1, <3>2, <3>4, <3>7 DEF GiveBack
    <3>9. Len(g) = M /\ g[M] = x /\ SameCallers(f, g, M)
      <4>1. Len(g) = M /\ g[M] = x /\ \A n \in 1 .. M - 1 : g[n] = r[n]
        BY <3>1, <3>3, <3>7
      <4> QED BY <3>1, <3>3, <4>1 DEF SameCallers
    <3>10. Walk(g, c, k)
      BY <1>2, <1>3, <1>4, <2>1, <2>3, <3>1, <3>5, <3>6, <3>9, WalksBack
    <3> QED BY <2>1, <3>8, <3>10 DEF Goes
  <2> QED BY <2>2, <2>3
<1> QED BY <1>9, <1>10, <1>11, <1>12, <1>13

-----------------------------------------------------------------------------
(* Theorems *)

\* The walk of diskinfo.
CountInv ==
  /\ info = "off" => frames = <<>> /\ cursor = 1 /\ count = 0
  /\ info = "counting" =>
       \E f, c, k : f = frames /\ c = cursor /\ k = count /\ Walk(f, c, k)
  /\ info = "done" => count = Cardinality(Stored(Files))

LEMMA RoamKept ==
  ASSUME UNCHANGED volume, NEW f, NEW c, NEW V, Roam(f, c, V)
  PROVE  Roam(f, c, V)'
<1> USE DEF volume
<1>1. /\ Dirs' = Dirs
      /\ \A s : IsDir(s)' <=> IsDir(s)
      /\ \A s : Contents(s)' = Contents(s)
      /\ \A s : ClustersOf(s)' = ClustersOf(s)
  BY DEF Dirs, IsDir, Contents, ClustersOf
<1>2. PICK D, Q, U : Roams(f, c, D, Q, U, V)
  BY DEF Roam
<1>3. PICK m : m = Len(f)
  OBVIOUS
<1>4. Explored(m, D, U, V) => Explored(m, D, U, V)'
  BY <1>1 DEF Explored
<1>5. ASSUME NEW n \in 1 .. m
      PROVE  /\ InDir(f[n].next, f[n].i, D[n], Q[n])'
             /\ U[n] = Passed(f[n].next, f[n].i, Q[n])'
  BY <1>1, <1>2, <1>3 DEF Roams, InDir, Passed
<1>6. Roams(f, c, D, Q, U, V)'
  BY <1>2, <1>3, <1>4, <1>5 DEF Roams
<1> QED BY <1>6 DEF Roam

LEMMA WalkKept ==
  ASSUME UNCHANGED volume, NEW f, NEW c, NEW k, Walk(f, c, k)
  PROVE  Walk(f, c, k)'
<1>1. Counted' = Counted
  BY DEF volume, Counted, IsFile
<1>2. PICK V : Roam(f, c, V) /\ Counting(f, k, V)
  BY DEF Walk
<1>3. Roam(f, c, V)'
  BY <1>2, RoamKept
<1>4. Counting(f, k, V)'
  <2>1. PICK m, W, T : /\ m = Len(f) /\ Tallied(m, V, W, T) /\ T[0] = k
                       /\ \A n \in 1 .. m : T[n] = f[n].total
    BY <1>2 DEF Counting
  <2>2. Tallied(m, V, W, T)'
    BY <1>1, <2>1 DEF Tallied
  <2> QED BY <2>1, <2>2 DEF Counting
<1> QED BY <1>3, <1>4 DEF Walk

LEMMA CountKept ==
  ASSUME ToolInv, ShapeInv, CountInv, InfoStep, UNCHANGED volume
  PROVE  CountInv'
<1>1. Stored(Files)' = Stored(Files)
  BY DEF volume, Holds, Contents, Stored, Files, Dirs
<1>2. CASE StartInfo
  <2>1. Walk(<<>>, 1, 0)
    BY WalkBegins DEF ToolInv
  <2>2. Walk(<<>>, 1, 0)'
    BY <2>1, WalkKept
  <2>3. info' = "counting" /\ frames' = <<>> /\ cursor' = 1 /\ count' = 0
    BY <1>2 DEF StartInfo, CountInv
  <2> QED BY <2>2, <2>3 DEF CountInv
<1>3. CASE Astray
  BY <1>3 DEF Astray, CountInv
<1>4. CASE info = "counting"
  <2>1. info' # "off"
    BY <1>4 DEF InfoStep, StartInfo, Astray, RootSkip, RootFile, RootDir, RootEnd,
                SubSkip, SubFile, SubDir, SubNextCluster, SubReturn
  <2>2. Goes
    <3>1. Walk(frames, cursor, count)
      BY <1>4 DEF CountInv
    <3>2. VolumeInv /\ frames \in Seq(SoundFrames) /\ RootHasEnd
      BY <1>4 DEF ToolInv, Answers
    <3>3. CASE RootSkip \/ RootFile \/ RootDir \/ RootEnd
      BY <1>4, <3>1, <3>2, <3>3, GoesInRoot
    <3>4. CASE SubSkip \/ SubFile \/ SubDir \/ SubNextCluster \/ SubReturn
      BY <1>4, <3>1, <3>2, <3>4, GoesInSub
    <3> QED BY <1>4, <3>3, <3>4 DEF InfoStep, StartInfo, Astray
  <2>3. CASE info' = "done" /\ count' = Cardinality(Stored(Files))
    <3>1. Cardinality(Stored(Files))' = Cardinality(Stored(Files))
      BY <1>1
    <3> QED BY <2>1, <2>3, <3>1 DEF CountInv
  <2>4. CASE info' = "counting" /\ \E g, d, l : g = frames' /\ d = cursor' /\ l = count' /\ Walk(g, d, l)
    <3>1. PICK g, d, l : g = frames' /\ d = cursor' /\ l = count' /\ Walk(g, d, l)
      BY <2>4
    <3>2. Walk(g, d, l)'
      BY <3>1, WalkKept
    <3> QED BY <2>1, <2>4, <3>1, <3>2 DEF CountInv
  <2> QED BY <2>2, <2>3, <2>4 DEF Goes
<1> QED BY <1>2, <1>3, <1>4 DEF InfoStep

LEMMA CountStays ==
  ASSUME CountInv, UNCHANGED <<volume, infoVars>>
  PROVE  CountInv'
<1>1. Stored(Files)' = Stored(Files)
  BY DEF volume, Holds, Contents, Stored, Files, Dirs
<1>2. UNCHANGED volume /\ info' = info /\ frames' = frames /\ cursor' = cursor /\ count' = count
  BY DEF infoVars
<1>3. CASE info = "counting"
  <2>1. PICK f, c, k : f = frames /\ c = cursor /\ k = count /\ Walk(f, c, k)
    BY <1>3 DEF CountInv
  <2>2. Walk(f, c, k)'
    BY <1>2, <2>1, WalkKept
  <2> QED BY <1>2, <1>3, <2>1, <2>2 DEF CountInv
<1>4. CASE info # "counting"
  BY <1>1, <1>2, <1>4 DEF CountInv
<1> QED BY <1>3, <1>4

THEOREM WalkIsRight == Spec => []CountInv
<1>1. Init => CountInv
  BY DEF Init, InfoInit, CountInv
<1>2. ToolInv /\ ShapeInv /\ CountInv /\ [Next]_vars => CountInv'
  <2> SUFFICES ASSUME ToolInv, ShapeInv, CountInv, [Next]_vars PROVE CountInv'
    OBVIOUS
  <2>1. CASE Use
    BY <2>1 DEF Use, infoVars, CountInv
  <2>2. CASE RunInfo
    BY <2>2, CountKept DEF RunInfo
  <2>3. CASE UNCHANGED <<volume, infoVars>>
    BY <2>3, CountStays
  <2> QED BY <2>1, <2>2, <2>3 DEF Next, RunInfo2, RunList, vars
<1> QED BY <1>1, <1>2, ToolsSound, TreeIsWhole, PTL DEF Spec

\* print_num_of_files (a3/diskinfo.c) arrives at the number of the stored files of
\* the tree, on disks of every size, however they were used, and whatever the
\* depth of the directories and the length of their chains.
THEOREM FilesAreCounted == Spec => []CountsStoredFiles
<1>1. CountInv => CountsStoredFiles
  BY DEF CountInv, CountsStoredFiles
<1> QED BY <1>1, WalkIsRight, PTL

-----------------------------------------------------------------------------
(* The two variants of diskinfo *)

LEMMA SizeOfBoth ==
  ASSUME NEW A \in SUBSET Slot, NEW B \in SUBSET Slot, A \cap B = {}
  PROVE  /\ Cardinality(A) \in Nat /\ Cardinality(B) \in Nat
         /\ Cardinality(A \union B) = Cardinality(A) + Cardinality(B)
<1>1. IsFiniteSet(A) /\ IsFiniteSet(B)
  BY SlotCount
<1>2. Cardinality(A) \in Nat /\ Cardinality(B) \in Nat
  BY SlotCount
<1>3. Cardinality(A \union B) = Cardinality(A) + Cardinality(B) - Cardinality(A \cap B)
  BY <1>1, FS_Union
<1>4. Cardinality(A \cap B) = 0
  BY FS_EmptySet
<1> QED BY <1>2, <1>3, <1>4

\* What the older variant counts is in the root, and in front of its unused entries.
LEMMA CountsRoot ==
  ASSUME VolumeInv, RootPacked, RootHasEnd
  PROVE  /\ totalNumOfFiles(Scanned) = Cardinality(Holds(Root, {"file"}) \ flagged)
                                        + Cardinality(Holds(Root, {"deletedFile"}) \ flagged)
         /\ Cardinality(Holds(Root, {"deletedFile"}) \ flagged) \in Nat
         /\ Holds(Root, {"label", "deletedLabel"}) \intersect flagged = {} =>
              fetchDiskVolumeLable(Scanned) = LabelAmong(Scanned)
<1>1. PICK R \in Nat : R = RootSlots
  BY VolumeAssumption, Product DEF RootSlots
<1>2. PICK e \in 1 .. R : entry[e].kind = "end"
  BY <1>1 DEF RootHasEnd, Holds, Contents
<1>3. ASSUME NEW s PROVE s \in Scanned <=> s \in 1 .. R /\ entry[s].kind # "end"
  <2>1. ASSUME s \in Scanned PROVE s \in 1 .. R /\ entry[s].kind # "end"
    <3>1. s \in Nat /\ s > 0 /\ \A t \in 1 .. s : entry[t].kind # "end"
      BY <2>1 DEF Scanned, Slot
    <3>2. ~(e <= s)
      BY <1>2, <3>1
    <3> QED BY <1>2, <3>1, <3>2
  <2>2. ASSUME s \in 1 .. R, entry[s].kind # "end" PROVE s \in Scanned
    <3>1. s \in Slot
      BY <1>1, <2>2, SlotsApart
    <3>2. \A t \in 1 .. s : t \in 1 .. R /\ (t = s \/ t < s)
      BY <2>2
    <3>3. \A t \in 1 .. s : entry[t].kind # "end"
      BY <1>1, <2>2, <3>2 DEF RootPacked
    <3> QED BY <3>1, <3>3 DEF Scanned
  <2> QED BY <2>1, <2>2
<1>4. PICK A, B : A = Holds(Root, {"file"}) \ flagged /\ B = Holds(Root, {"deletedFile"}) \ flagged
  OBVIOUS
<1>5. A \in SUBSET Slot /\ B \in SUBSET Slot /\ A \cap B = {}
  BY <1>4, SlotsApart DEF Holds, Contents
<1>6. {s \in Scanned \ flagged : entry[s].kind \in {"file", "deletedFile"}} = A \union B
  BY <1>1, <1>3, <1>4 DEF Holds, Contents
<1>7. ASSUME Holds(Root, {"label", "deletedLabel"}) \intersect flagged = {}
      PROVE  {s \in Scanned \ flagged : entry[s].kind \in {"label", "deletedLabel"}}
               = {s \in Scanned : entry[s].kind \in {"label", "deletedLabel"}}
  <2>1. ASSUME NEW s \in Scanned, entry[s].kind \in {"label", "deletedLabel"} PROVE s \notin flagged
    BY <1>1, <1>3, <1>7, <2>1 DEF Holds, Contents
  <2> QED BY <2>1
<1>8. Holds(Root, {"label", "deletedLabel"}) \intersect flagged = {} =>
        fetchDiskVolumeLable(Scanned) = LabelAmong(Scanned)
  BY <1>7 DEF fetchDiskVolumeLable, LabelAmong
<1> QED BY <1>4, <1>5, <1>6, <1>8, SizeOfBoth DEF totalNumOfFiles

\* For the files I of the root: those with contents are outside the root, hidden in
\* it, or neither (c); these and the ones without contents are all that are not hidden.
SplitsFiles(I) ==
  \E a, b, c, d \in Nat :
    /\ a = Cardinality(Stored(Files \ I)) /\ b = Cardinality(Stored(I \intersect flagged))
    /\ d = Cardinality(I \ (Stored(I) \union flagged))
    /\ Cardinality(Stored(Files)) = a + b + c /\ Cardinality(I \ flagged) = c + d

LEMMA FilesSplit ==
  ASSUME VolumeInv, NEW I, I = Holds(Root, {"file"})
  PROVE  SplitsFiles(I)
<1>1. Files \subseteq Slot
  BY SlotOfDir DEF Files, Holds
<1>2. I \subseteq Files
  BY DEF Files, Dirs
<1>3. PICK A, B, C, D, E : /\ A = Stored(Files \ I) /\ B = Stored(I \intersect flagged)
                           /\ C = Stored(I) \ flagged /\ D = I \ (Stored(I) \union flagged)
                           /\ E = A \union B
  OBVIOUS
<1>4. /\ A \in SUBSET Slot /\ B \in SUBSET Slot /\ C \in SUBSET Slot /\ D \in SUBSET Slot
      /\ E \in SUBSET Slot /\ A \cap B = {} /\ E \cap C = {} /\ C \cap D = {}
      /\ Stored(Files) = E \union C /\ I \ flagged = C \union D
  BY <1>1, <1>2, <1>3 DEF Stored
<1>5. /\ Cardinality(A) \in Nat /\ Cardinality(B) \in Nat
      /\ Cardinality(E) = Cardinality(A) + Cardinality(B)
  BY <1>3, <1>4, SizeOfBoth
<1>6. Cardinality(E \union C) = Cardinality(E) + Cardinality(C)
  BY <1>4, SizeOfBoth
<1>7. /\ Cardinality(C) \in Nat /\ Cardinality(D) \in Nat
      /\ Cardinality(C \union D) = Cardinality(C) + Cardinality(D)
  BY <1>4, SizeOfBoth
<1>8. PICK a, b, c, d : /\ a = Cardinality(A) /\ b = Cardinality(B)
                        /\ c = Cardinality(C) /\ d = Cardinality(D)
  OBVIOUS
<1>9. /\ a \in Nat /\ b \in Nat /\ c \in Nat /\ d \in Nat
      /\ Cardinality(Stored(Files)) = a + b + c /\ Cardinality(I \ flagged) = c + d
  BY <1>4, <1>5, <1>6, <1>7, <1>8
<1>10. /\ a = Cardinality(Stored(Files \ I)) /\ b = Cardinality(Stored(I \intersect flagged))
       /\ d = Cardinality(I \ (Stored(I) \union flagged))
  BY <1>3, <1>8
<1> QED BY <1>9, <1>10 DEF SplitsFiles

\* What the older variant has counted.
OlderCounts == older = "done" => numOfFiles = totalNumOfFiles(Scanned)

\* diskinfo.c and diskinfo-2.c print the same label but for further attributes, the
\* same free space but for a number of sectors with a byte of 128 or more, and
\* numbers of files that differ by exactly the files that only one of them counts.
THEOREM VariantsAgree == Spec => []ToolsAgree
<1>1. Init => OlderCounts
  BY DEF Init, OlderInit, OlderCounts
<1>2. ToolInv /\ OlderCounts /\ [Next]_vars => OlderCounts'
  <2> SUFFICES ASSUME ToolInv, OlderCounts, [Next]_vars PROVE OlderCounts'
    OBVIOUS
  <2>1. CASE Use
    BY <2>1 DEF Use, olderVars, OlderCounts, ToolInv, InTurn
  <2>2. ASSUME UNCHANGED volume
        PROVE  totalNumOfFiles(Scanned)' = totalNumOfFiles(Scanned)
    BY <2>2 DEF volume, totalNumOfFiles, Scanned
  <2>3. CASE UNCHANGED <<volume, olderVars>>
    BY <2>2, <2>3 DEF olderVars, OlderCounts
  <2>4. CASE RunInfo2
    BY <2>2, <2>4 DEF RunInfo2, RunOlder, OlderCounts
  <2> QED BY <2>1, <2>3, <2>4 DEF Next, RunInfo, RunList, vars
<1>3. ToolInv /\ ShapeInv /\ CountInv /\ OlderCounts => ToolsAgree
  <2> SUFFICES ASSUME ToolInv, ShapeInv, CountInv, OlderCounts, info = "done", older = "done",
                      NEW I, I = Holds(Root, {"file"}), NEW G, G = Holds(Root, {"deletedFile"})
               PROVE  /\ diskVolumeLabel # label =>
                           Holds(Root, {"label", "deletedLabel"}) \intersect flagged # {}
                      /\ freeSizeOfDisk <= free
                      /\ TotalSectors % 256 < 128 => freeSizeOfDisk = free
                      /\ numOfFiles + Cardinality(Stored(Files \ I))
                                    + Cardinality(Stored(I \intersect flagged))
                           = count + Cardinality(I \ (Stored(I) \union flagged))
                                   + Cardinality(G \ flagged)
    BY DEF ToolsAgree
  <2>1. VolumeInv /\ RootPacked /\ RootHasEnd
    BY DEF ToolInv, Answers, ShapeInv
  <2>2. /\ label = LabelAmong(Scanned) /\ diskVolumeLabel = fetchDiskVolumeLable(Scanned)
        /\ free = Cardinality(FreeClusters) /\ freeSizeOfDisk = Cardinality(OlderCounted)
    BY DEF ToolInv, Answers
  <2>3. diskVolumeLabel # label => Holds(Root, {"label", "deletedLabel"}) \intersect flagged # {}
    BY <2>1, <2>2, CountsRoot
  <2>4. freeSizeOfDisk <= free /\ (TotalSectors % 256 < 128 => freeSizeOfDisk = free)
    BY <2>1, <2>2, OlderCountsFree
  <2>5. PICK a, b, c, d \in Nat :
          /\ a = Cardinality(Stored(Files \ I)) /\ b = Cardinality(Stored(I \intersect flagged))
          /\ d = Cardinality(I \ (Stored(I) \union flagged))
          /\ Cardinality(Stored(Files)) = a + b + c /\ Cardinality(I \ flagged) = c + d
    <3>1. SplitsFiles(I)
      BY <2>1, FilesSplit
    <3> QED BY <3>1 DEF SplitsFiles
  <2>6. PICK g : g = Cardinality(G \ flagged)
    OBVIOUS
  <2>7. numOfFiles = (c + d) + g /\ g \in Nat
    BY <2>1, <2>5, <2>6, CountsRoot DEF OlderCounts
  <2>8. count = a + b + c
    BY <2>5 DEF CountInv
  <2>9. numOfFiles + a + b = count + d + g
    BY <2>5, <2>7, <2>8
  <2> QED BY <2>3, <2>4, <2>5, <2>6, <2>9
<1> QED BY <1>1, <1>2, <1>3, ToolsSound, TreeIsWhole, WalkIsRight, PTL DEF Spec
=============================================================================
