--------------------------- MODULE DiskListProofs ---------------------------
(***************************************************************************)
(* What disklist prints, on disks of every size: each stored file and each *)
(* directory is on one line, in the section of the directory it is in.     *)
(* The lines printed so far are those of the directories that were entered *)
(* and, while one is printed, of the slots of it that are behind.          *)
(***************************************************************************)
EXTENDS DiskWalkProofs

-----------------------------------------------------------------------------
(* The directories are packed *)

\* The entries in use among the slots S are in front of the unused ones.
Packed(S) == \A s, t \in S : s < t /\ entry[s].kind = "end" => entry[t].kind = "end"

DirsPacked == \A c \in Cluster : DirCluster(c) => Packed(SlotsOf(c))

\* Among the slots S, only that of s changes: it was not behind an unused one, or
\* was in use, and is in use.
PutsOneAmong(S, s) ==
  /\ \A t \in S : t # s => entry'[t] = entry[t]
  /\ s \in S => /\ entry'[s].kind # "end"
                /\ entry[s].kind = "end" => \A t \in S : t < s => entry[t].kind # "end"

LEMMA StaysPackedAmong ==
  ASSUME NEW S, Packed(S), NEW s, PutsOneAmong(S, s)
  PROVE  Packed(S)'
<1> SUFFICES ASSUME NEW x \in S, NEW y \in S, x < y, entry'[x].kind = "end"
             PROVE  entry'[y].kind = "end"
  BY DEF Packed
<1>1. x # s /\ entry[x].kind = "end"
  BY DEF PutsOneAmong
<1>2. entry[y].kind = "end"
  BY <1>1 DEF Packed
<1>3. y # s
  BY <1>1, <1>2 DEF PutsOneAmong
<1> QED BY <1>2, <1>3 DEF PutsOneAmong

LEMMA UsableInCluster ==
  ASSUME VolumeInv, NEW d \in Dirs, NEW s \in Usable(d), NEW c \in Cluster, s \in SlotsOf(c)
  PROVE  \A t \in SlotsOf(c) : t < s => entry[t].kind # "end"
<1>1. s \in Contents(d) /\ \A t \in Holds(d, {"end"} \union Deleted) : s <= t
  BY DEF Usable, First, Holds
<1>2. owner[c] = d /\ d # Root /\ SlotsOf(c) \subseteq Slot
  BY <1>1, SlotOfDir, SlotsApart DEF Contents
<1> SUFFICES ASSUME NEW t \in SlotsOf(c), t < s, entry[t].kind = "end" PROVE FALSE
  OBVIOUS
<1>3. t \in Holds(d, {"end"} \union Deleted)
  BY <1>2 DEF Holds, Contents
<1>4. s \in Nat /\ t \in Nat /\ s <= t
  BY <1>1, <1>2, <1>3 DEF Slot
<1> QED BY <1>4

\* The first slot of a cluster is in front of the others.
LEMMA FirstOfCluster ==
  ASSUME NEW c \in Cluster, NEW s \in SlotsOf(c)
  PROVE  s = SlotAt(c, 0) \/ SlotAt(c, 0) < s
<1>1. PICK i \in 0 .. EntriesPerSector - 1 : s = SlotAt(c, i)
  BY DEF SlotsOf
<1>2. PICK k \in Nat : k = (RootSectors + c - 2) * EntriesPerSector
  <2>1. RootSectors + c - 2 \in Nat /\ EntriesPerSector \in Nat
    BY VolumeAssumption DEF Cluster
  <2> QED BY <2>1, Product
<1>3. i \in Nat
  BY VolumeAssumption
<1>4. s = k + i + 1 /\ SlotAt(c, 0) = k + 0 + 1
  BY <1>1, <1>2 DEF SlotAt
<1> QED BY <1>3, <1>4

\* One entry, not one of a directory, is put into the root or a directory.
LEMMA EntryKeepsPacked ==
  ASSUME VolumeInv, DirsPacked, NEW s \in Slot, NEW e, e.kind \notin {"end", "dir"},
         entry' = [entry EXCEPT ![s] = e], UNCHANGED owner,
         \A c \in Cluster : s \in SlotsOf(c) /\ entry[s].kind = "end" =>
           \A t \in SlotsOf(c) : t < s => entry[t].kind # "end"
  PROVE  DirsPacked'
<1>1. entry'[s] = e /\ \A t \in Slot : t # s => entry'[t] = entry[t]
  BY DEF VolumeInv, VolumeTypes
<1> SUFFICES ASSUME NEW c \in Cluster, DirCluster(c)' PROVE Packed(SlotsOf(c))'
  BY DEF DirsPacked
<1>2. DirCluster(c)
  BY <1>1 DEF DirCluster, VolumeInv, VolumeTypes
<1>3. PICK S : S = SlotsOf(c)
  OBVIOUS
<1>4. S \subseteq Slot
  BY <1>3, SlotsApart
<1>5. PutsOneAmong(S, s)
  BY <1>1, <1>3, <1>4 DEF PutsOneAmong
<1>6. Packed(S)'
  BY <1>2, <1>3, <1>5, StaysPackedAmong DEF DirsPacked
<1> QED BY <1>3, <1>6

\* A file or a directory is made.
LEMMA NewClusterKeepsPacked ==
  ASSUME VolumeInv, DirsPacked, NEW d \in Dirs, NEW s \in Usable(d), NEW c, NEW k \in {"file", "dir"},
         PutsCluster(d, s, c, k),
         k = "dir" => \A t \in SlotsOf(c) : t # SlotAt(c, 0) => entry'[t].kind = "end"
  PROVE  DirsPacked'
<1>1. /\ s \in Slot /\ s \notin SlotsOf(c) /\ c \in Cluster /\ owner[c] = Unowned
      /\ \A x \in Cluster : owner[x] \notin SlotsOf(c)
  BY Unused DEF PutsCluster
<1>2. owner'[c] = s /\ \A x \in Cluster : x # c => owner'[x] = owner[x]
  BY DEF VolumeInv, VolumeTypes, PutsCluster
<1>3. \A x \in Cluster : owner[x] # s
  BY <1>1, Marks DEF PutsCluster, VolumeInv, ChainsStay, Deleted
<1>4. entry'[s].kind = k /\ \A t \in Slot : t # s /\ t \notin SlotsOf(c) => entry'[t] = entry[t]
  BY DEF PutsCluster
<1> SUFFICES ASSUME NEW x \in Cluster, DirCluster(x)' PROVE Packed(SlotsOf(x))'
  BY DEF DirsPacked
<1>5. CASE x = c
  <2>1. k = "dir"
    BY <1>2, <1>4, <1>5 DEF DirCluster
  <2>2. \A t \in SlotsOf(c) : t # SlotAt(c, 0) => entry'[t].kind = "end"
    BY <2>1
  <2>3. PICK S, f : S = SlotsOf(c) /\ f = SlotAt(c, 0) /\ f \in S /\ S \subseteq Nat
    BY <1>1, SlotsApart DEF Slot
  <2>4. \A t \in S : t = f \/ f < t
    BY <1>1, <2>3, FirstOfCluster
  <2>5. \A t, u \in S : t < u => u # f
    BY <2>3, <2>4
  <2>6. Packed(S)'
    BY <2>2, <2>3, <2>5 DEF Packed
  <2> QED BY <1>5, <2>3, <2>6
<1>6. CASE x # c
  <2>1. SlotsOf(x) \subseteq Slot /\ SlotsOf(x) \cap SlotsOf(c) = {}
    BY <1>1, <1>6, SlotsApart
  <2>2. DirCluster(x)
    <3>1. owner'[x] = owner[x] /\ owner[x] # Unowned /\ owner[x] \in Slot
      BY <1>2, <1>6 DEF DirCluster, VolumeInv, VolumeTypes
    <3>2. entry'[owner[x]] = entry[owner[x]]
      BY <1>1, <1>3, <1>4, <3>1
    <3> QED BY <3>1, <3>2 DEF DirCluster
  <2>3. PICK S : S = SlotsOf(x)
    OBVIOUS
  <2>4. PutsOneAmong(S, s)
    <3>1. s \in S => \A t \in S : t < s => entry[t].kind # "end"
      BY <2>3, UsableInCluster
    <3> QED BY <1>4, <2>1, <2>3, <3>1 DEF PutsOneAmong
  <2>5. Packed(S)'
    BY <2>2, <2>3, <2>4, StaysPackedAmong DEF DirsPacked
  <2> QED BY <2>3, <2>5
<1> QED BY <1>5, <1>6

LEMMA ExtendKeepsPacked ==
  ASSUME VolumeInv, DirsPacked, NEW d \in Dirs, NEW c \in Available, Extend(d, c)
  PROVE  DirsPacked'
<1>1. c \in Cluster /\ owner[c] = Unowned
  BY DEF Available, First, FreeClusters
<1>2. \A t \in Slot : entry'[t] = entry[t]
  BY <1>1 DEF Extend, VolumeInv, FreeIsClear
<1>3. owner'[c] = d /\ \A x \in Cluster : x # c => owner'[x] = owner[x]
  BY <1>1 DEF Extend, VolumeInv, VolumeTypes
<1> SUFFICES ASSUME NEW x \in Cluster, DirCluster(x)' PROVE Packed(SlotsOf(x))'
  BY DEF DirsPacked
<1>4. PICK S : S = SlotsOf(x) /\ S \subseteq Slot
  BY SlotsApart
<1>5. Packed(S)
  <2>1. CASE x = c
    BY <1>1, <1>4, <2>1 DEF Packed, VolumeInv, FreeIsClear, EndEntry
  <2>2. CASE x # c
    BY <1>2, <1>3, <1>4, <2>2 DEF DirsPacked, DirCluster, VolumeInv, VolumeTypes
  <2> QED BY <2>1, <2>2
<1>6. Packed(S)'
  BY <1>2, <1>4, <1>5 DEF Packed
<1> QED BY <1>4, <1>6

LEMMA DeleteKeepsPacked ==
  ASSUME VolumeInv, DirsPacked, NEW d \in Dirs, NEW s \in Holds(d, {"file", "dir"}), Delete(s)
  PROVE  DirsPacked'
<1>1. /\ s \in Slot /\ s # Unowned /\ entry[s].kind \in {"file", "dir"} /\ entry'[s].kind \in Deleted
      /\ Contents(s) = UNION {SlotsOf(c) : c \in ClustersOf(s)}
      /\ \A t \in Slot : t # s =>
           IF t \in Contents(s) THEN entry'[t] = EndEntry ELSE entry'[t] = entry[t]
  BY DeletesEntry, Marks
<1>2. \A x \in Cluster : IF owner[x] = s THEN owner'[x] = Unowned ELSE owner'[x] = owner[x]
  BY DEF Delete
<1> SUFFICES ASSUME NEW x \in Cluster, DirCluster(x)' PROVE Packed(SlotsOf(x))'
  BY DEF DirsPacked
<1>3. owner[x] # s /\ owner'[x] = owner[x]
  BY <1>2 DEF DirCluster
<1>4. DirCluster(x)
  <2>1. owner[x] \in Slot /\ owner[x] # Unowned /\ entry'[owner[x]].kind = "dir"
    BY <1>3 DEF DirCluster, VolumeInv, VolumeTypes
  <2>2. entry'[owner[x]] = entry[owner[x]]
    BY <1>1, <1>3, <2>1 DEF EndEntry
  <2> QED BY <2>1, <2>2 DEF DirCluster
<1>5. PICK S : S = SlotsOf(x)
  OBVIOUS
<1>6. S \subseteq Slot /\ S \cap Contents(s) = {}
  BY <1>1, <1>3, <1>5, SlotsApart DEF ClustersOf
<1>7. PutsOneAmong(S, s)
  BY <1>1, <1>6 DEF PutsOneAmong, Deleted
<1>8. Packed(S)'
  BY <1>4, <1>5, <1>7, StaysPackedAmong DEF DirsPacked
<1> QED BY <1>5, <1>8

LEMMA ChangeDirsPacked ==
  ASSUME VolumeInv, DirsPacked, ChangeVolume
  PROVE  DirsPacked'
<1> DEFINE label_ == [kind |-> "label", loc |-> NoCluster]
           file_ == [kind |-> "file", loc |-> NoCluster]
<1>1. ASSUME NEW d \in Dirs, NEW s \in Usable(d), NEW e, e.kind \notin {"end", "dir"},
             entry' = [entry EXCEPT ![s] = e], UNCHANGED owner
      PROVE  DirsPacked'
  <2>1. s \in Slot
    BY UsableIsFirst
  <2>2. \A c \in Cluster : s \in SlotsOf(c) => \A t \in SlotsOf(c) : t < s => entry[t].kind # "end"
    BY UsableInCluster
  <2> QED BY <1>1, <2>1, <2>2, EntryKeepsPacked
<1>2. CASE Label
  <2>1. PICK s \in Usable(Root) : entry' = [entry EXCEPT ![s] = label_]
    BY <1>2 DEF Label
  <2>2. Root \in Dirs /\ label_.kind \notin {"end", "dir"} /\ UNCHANGED owner
    BY <1>2 DEF Dirs, Label
  <2> HIDE DEF label_
  <2> QED BY <1>1, <2>1, <2>2
<1>3. CASE Unlabel
  <2>1. PICK s \in Labels : entry' = [entry EXCEPT ![s].kind = Gone(@)]
    BY <1>3 DEF Unlabel
  <2>2. s \in Slot /\ entry[s].kind = "label" /\ UNCHANGED owner
    BY <1>3, SlotsApart DEF Labels, Holds, Contents, Unlabel
  <2>3. PICK e : e = [entry[s] EXCEPT !.kind = Gone(@)]
    OBVIOUS
  <2>4. entry' = [entry EXCEPT ![s] = e]
    BY <2>1, <2>3
  <2>5. e.kind \notin {"end", "dir"}
    BY <2>2, <2>3 DEF Gone, VolumeInv, VolumeTypes
  <2> QED BY <2>2, <2>4, <2>5, EntryKeepsPacked
<1>4. ASSUME NEW d \in Dirs, NEW s \in Usable(d), MakeEmptyFile(s) PROVE DirsPacked'
  <2>1. file_.kind \notin {"end", "dir"} /\ entry' = [entry EXCEPT ![s] = file_] /\ UNCHANGED owner
    BY <1>4 DEF MakeEmptyFile
  <2> HIDE DEF file_
  <2> QED BY <1>1, <2>1
<1>5. ASSUME NEW d \in Dirs, NEW s \in Usable(d), NEW c \in Available, MakeFile(s, c)
      PROVE  DirsPacked'
  <2>1. PutsCluster(d, s, c, "file")
    BY <1>5, MakeFilePuts
  <2> QED BY <2>1, NewClusterKeepsPacked
<1>6. ASSUME NEW d \in Dirs, NEW s \in Usable(d), NEW c \in Available, MakeDir(s, c)
      PROVE  DirsPacked'
  <2>1. PutsCluster(d, s, c, "dir")
    BY <1>6, MakeDirPuts
  <2>2. ASSUME NEW t \in SlotsOf(c), t # SlotAt(c, 0) PROVE entry'[t].kind = "end"
    <3>1. t \in Slot /\ t # s
      BY <2>1, Unused, SlotsApart DEF PutsCluster
    <3>2. entry'[t] = EndEntry
      BY <1>6, <2>2, <3>1 DEF MakeDir
    <3> QED BY <3>2 DEF EndEntry
  <2> QED BY <2>1, <2>2, NewClusterKeepsPacked
<1>7. ASSUME NEW d \in Dirs, NEW c \in Available, Extend(d, c) PROVE DirsPacked'
  BY <1>7, ExtendKeepsPacked
<1>8. ASSUME NEW d \in Dirs, NEW s \in Holds(d, {"file", "dir"}), Delete(s) PROVE DirsPacked'
  BY <1>8, DeleteKeepsPacked
<1>9. CASE SetAttribute
  BY <1>9 DEF SetAttribute, DirsPacked, Packed, DirCluster
<1> QED BY <1>2, <1>3, <1>4, <1>5, <1>6, <1>7, <1>8, <1>9 DEF ChangeVolume, ChangeEntries

\* No directory of any image has an entry behind an unused one of the same cluster,
\* where print_directory, which stops there, would not see it.
LEMMA NoneBehindEnd == Spec => []DirsPacked
<1>1. Init => DirsPacked
  BY DEF Init, VolumeInit, DirsPacked, DirCluster
<1>2. ToolInv /\ DirsPacked /\ [Next]_vars => DirsPacked'
  <2> SUFFICES ASSUME ToolInv, DirsPacked, [Next]_vars PROVE DirsPacked'
    OBVIOUS
  <2>1. CASE Use
    BY <2>1, ChangeDirsPacked DEF Use, ToolInv
  <2>2. CASE UNCHANGED volume
    BY <2>2 DEF volume, DirsPacked, Packed, DirCluster
  <2> QED BY <2>1, <2>2 DEF Next, RunInfo, RunInfo2, RunList, vars
<1> QED BY <1>1, <1>2, ToolsSound, PTL DEF Spec

-----------------------------------------------------------------------------
(* The lines *)

\* What print_directory prints on a line, unless it is behind an unused entry.
IsListed(s) == entry[s].kind \in {"file", "dir"} /\ entry[s].loc # NoCluster

Listed(d) == {s \in Contents(d) : IsListed(s)}

\* In o, the header above line i is that at j.
HeadedBy(o, i, j) ==
  /\ j \in 1 .. i
  /\ o[j].what = "header"
  /\ \A k \in 1 .. i : j < k => o[k].what # "header"

\* What was printed is o: the lines of the entries in P, each once and in the
\* section of its directory, and the last section is that of h.
Lists(o, P, h) ==
  /\ \E S : o \in Seq(S)
  /\ \E j : HeadedBy(o, Len(o), j) /\ o[j].slot = h
  /\ \A i \in 1 .. Len(o) : o[i].what = "line" =>
       /\ o[i].slot \in P
       /\ \E j : HeadedBy(o, i, j) /\ o[j].slot \in Dirs /\ o[i].slot \in Listed(o[j].slot)
  /\ \A s \in P : \E i \in 1 .. Len(o) : o[i].what = "line" /\ o[i].slot = s
  /\ \A i, k \in 1 .. Len(o) :
       o[i].what = "line" /\ o[k].what = "line" /\ o[i].slot = o[k].slot => i = k

LEMMA AppendsAny ==
  ASSUME NEW S, NEW o \in Seq(S), NEW x
  PROVE  /\ Append(o, x) \in Seq(S \union {x})
         /\ Len(o) \in Nat /\ Len(Append(o, x)) = Len(o) + 1
         /\ \A i \in 1 .. Len(o) : Append(o, x)[i] = o[i]
         /\ Append(o, x)[Len(o) + 1] = x
<1>1. o \in Seq(S \union {x}) /\ x \in S \union {x}
  BY SeqMonotonic
<1> QED BY <1>1, AppendProperties, LenProperties

LEMMA ListsFirst ==
  Lists(<<Header(Root, <<>>)>>, {}, Root)
<1>1. PICK o, x : x = Header(Root, <<>>) /\ o = <<x>>
  OBVIOUS
<1>2. o \in Seq({x}) /\ Len(o) = 1 /\ o[1] = x
  BY <1>1
<1>3. x.what = "header" /\ x.slot = Root
  BY <1>1 DEF Header
<1>4. \A i \in 1 .. 1 : i = 1
  OBVIOUS
<1>5. HeadedBy(o, 1, 1)
  BY <1>2, <1>3, <1>4 DEF HeadedBy
<1> QED BY <1>1, <1>2, <1>3, <1>4, <1>5 DEF Lists

LEMMA HeadStays ==
  ASSUME NEW n \in Nat, NEW o, NEW q, \A k \in 1 .. n : q[k] = o[k],
         NEW i \in 1 .. n, NEW j, HeadedBy(o, i, j)
  PROVE  HeadedBy(q, i, j) /\ q[j] = o[j]
<1>1. 1 .. i \subseteq 1 .. n
  OBVIOUS
<1> QED BY <1>1 DEF HeadedBy

LEMMA ListsHeader ==
  ASSUME NEW o, NEW P, NEW h, Lists(o, P, h), NEW d, NEW p
  PROVE  Lists(Append(o, Header(d, p)), P, d)
<1>1. PICK S : o \in Seq(S)
  BY DEF Lists
<1>2. PICK x, q, n : x = Header(d, p) /\ q = Append(o, x) /\ n = Len(o)
  OBVIOUS
<1>3. /\ q \in Seq(S \union {x}) /\ n \in Nat /\ Len(q) = n + 1
      /\ (\A i \in 1 .. n : q[i] = o[i]) /\ q[n + 1] = x
  BY <1>1, <1>2, AppendsAny
<1>4. x.what = "header" /\ x.slot = d
  BY <1>2 DEF Header
<1>5. \A i \in 1 .. n + 1 : i = n + 1 \/ i \in 1 .. n
  BY <1>3
<1>6. HeadedBy(q, n + 1, n + 1)
  BY <1>3, <1>4 DEF HeadedBy
<1>7. ASSUME NEW i \in 1 .. n + 1, q[i].what = "line"
      PROVE  i \in 1 .. n /\ q[i] = o[i] /\ o[i].what = "line"
  BY <1>3, <1>4, <1>5, <1>7
<1>8. ASSUME NEW i \in 1 .. n + 1, q[i].what = "line"
      PROVE  /\ q[i].slot \in P
             /\ \E j : HeadedBy(q, i, j) /\ q[j].slot \in Dirs /\ q[i].slot \in Listed(q[j].slot)
  <2>1. i \in 1 .. n /\ q[i] = o[i] /\ o[i].what = "line"
    BY <1>7, <1>8
  <2>2. o[i].slot \in P
    BY <1>2, <2>1 DEF Lists
  <2>3. PICK j : HeadedBy(o, i, j) /\ o[j].slot \in Dirs /\ o[i].slot \in Listed(o[j].slot)
    BY <1>2, <2>1 DEF Lists
  <2>4. HeadedBy(q, i, j) /\ q[j] = o[j]
    BY <1>3, <2>1, <2>3, HeadStays
  <2> QED BY <2>1, <2>2, <2>3, <2>4
<1>9. \A s \in P : \E i \in 1 .. n + 1 : q[i].what = "line" /\ q[i].slot = s
  <2>1. 1 .. n \subseteq 1 .. n + 1
    BY <1>3
  <2> QED BY <1>2, <1>3, <2>1 DEF Lists
<1>10. \A i, k \in 1 .. n + 1 :
         q[i].what = "line" /\ q[k].what = "line" /\ q[i].slot = q[k].slot => i = k
  BY <1>2, <1>7 DEF Lists
<1>11. Lists(q, P, d)
  BY <1>3, <1>4, <1>6, <1>8, <1>9, <1>10 DEF Lists
<1> QED BY <1>2, <1>11

LEMMA ListsLine ==
  ASSUME NEW o, NEW P, NEW h \in Dirs, Lists(o, P, h), NEW s \in Listed(h) \ P
  PROVE  Lists(Append(o, Line(s)), P \union {s}, h)
<1>1. PICK S : o \in Seq(S)
  BY DEF Lists
<1>2. PICK x, q, n : x = Line(s) /\ q = Append(o, x) /\ n = Len(o)
  OBVIOUS
<1>3. /\ q \in Seq(S \union {x}) /\ n \in Nat /\ Len(q) = n + 1
      /\ (\A i \in 1 .. n : q[i] = o[i]) /\ q[n + 1] = x
  BY <1>1, <1>2, AppendsAny
<1>4. x.what = "line" /\ x.slot = s
  BY <1>2 DEF Line
<1>5. \A i \in 1 .. n + 1 : i = n + 1 \/ i \in 1 .. n
  BY <1>3
<1>6. PICK j : HeadedBy(q, n + 1, j) /\ q[j].slot = h
  <2>1. PICK j : HeadedBy(o, n, j) /\ o[j].slot = h
    BY <1>2 DEF Lists
  <2>2. j \in 1 .. n
    BY <2>1 DEF HeadedBy
  <2>3. HeadedBy(q, n + 1, j)
    BY <1>3, <1>4, <1>5, <2>1, <2>2 DEF HeadedBy
  <2> QED BY <1>3, <2>1, <2>2, <2>3
<1>7. ASSUME NEW i \in 1 .. n + 1, q[i].what = "line"
      PROVE  /\ q[i].slot \in P \union {s}
             /\ \E k : HeadedBy(q, i, k) /\ q[k].slot \in Dirs /\ q[i].slot \in Listed(q[k].slot)
  <2>1. CASE i = n + 1
    BY <1>3, <1>4, <1>6, <2>1
  <2>2. CASE i \in 1 .. n
    <3>1. q[i] = o[i] /\ o[i].what = "line"
      BY <1>3, <1>7, <2>2
    <3>2. o[i].slot \in P
      BY <1>2, <2>2, <3>1 DEF Lists
    <3>3. PICK k : HeadedBy(o, i, k) /\ o[k].slot \in Dirs /\ o[i].slot \in Listed(o[k].slot)
      BY <1>2, <2>2, <3>1 DEF Lists
    <3>4. HeadedBy(q, i, k) /\ q[k] = o[k]
      BY <1>3, <2>2, <3>3, HeadStays
    <3> QED BY <3>1, <3>2, <3>3, <3>4
  <2> QED BY <1>5, <2>1, <2>2
<1>8. \A t \in P \union {s} : \E i \in 1 .. n + 1 : q[i].what = "line" /\ q[i].slot = t
  <2>1. 1 .. n \subseteq 1 .. n + 1 /\ n + 1 \in 1 .. n + 1
    BY <1>3
  <2>2. \A t \in P : \E i \in 1 .. n : o[i].what = "line" /\ o[i].slot = t
    BY <1>2 DEF Lists
  <2> QED BY <1>3, <1>4, <2>1, <2>2
<1>9. ASSUME NEW i \in 1 .. n + 1, NEW k \in 1 .. n + 1,
             q[i].what = "line", q[k].what = "line", q[i].slot = q[k].slot
      PROVE  i = k
  <2>1. \A l \in 1 .. n : q[l] = o[l] /\ (o[l].what = "line" => o[l].slot # s)
    BY <1>2, <1>3 DEF Lists
  <2>2. CASE i \in 1 .. n /\ k \in 1 .. n
    BY <1>2, <1>9, <2>1, <2>2 DEF Lists
  <2>3. CASE i = n + 1 \/ k = n + 1
    BY <1>3, <1>4, <1>5, <1>9, <2>1, <2>3
  <2> QED BY <1>5, <2>2, <2>3
<1>10. Lists(q, P \union {s}, h)
  BY <1>3, <1>6, <1>7, <1>8, <1>9 DEF Lists
<1> QED BY <1>2, <1>10
-----------------------------------------------------------------------------
(* What is printed along the walk *)

\* The test of print_directory, once it is not at an unused entry.
LEMMA ShowsListed ==
  ASSUME VolumeInv, NEW s \in Slot, entry[s].kind # "end"
  PROVE  ~SkippedInSub(entry[s]) <=> IsListed(s)
<1>1. PICK k, l : k = entry[s].kind /\ l = entry[s].loc
  OBVIOUS
<1>2. k \in Kind /\ l \in Cluster \union {NoCluster}
  BY <1>1 DEF VolumeInv, VolumeTypes
<1>3. 0 \notin Cluster /\ 1 \notin Cluster
  BY DEF Cluster
<1> QED BY <1>1, <1>2, <1>3 DEF SkippedInSub, Skipped, IsListed, Kind, Deleted, NoCluster

\* The directories with a section, when the slots V were visited.
Sections(V) == {Root} \union (V \cap Dirs)

AllOf(S) == UNION {Listed(d) : d \in S}

LEMMA SectionsGrow ==
  ASSUME VolumeInv, NEW V, NEW s \in Slot \ V
  PROVE  /\ ~IsDir(s) => Sections(V \union {s}) = Sections(V)
         /\ IsDir(s) => Sections(V \union {s}) \ {s} = Sections(V)
<1>1. s # Root
  BY Marks
<1>2. s \in Dirs <=> IsDir(s)
  BY <1>1, DirIsDir
<1> QED BY <1>1, <1>2 DEF Sections

\* Of the directories visited, all but h have complete sections in P, and that of h
\* is printed up to entry i of the cluster next.
Prints(next, i, V, P, h) ==
  /\ h \in V
  /\ ~InChain(next) => i = 0
  /\ \E R : /\ InDir(next, i, h, R)
            /\ P = AllOf(Sections(V) \ {h}) \union (Listed(h) \cap Passed(next, i, R))

LEMMA PrintsFirst ==
  ASSUME VolumeInv, NEW V, NEW h \in Slot \ V, IsDir(h)
  PROVE  Prints(entry[h].loc, 0, V \union {h}, AllOf(Sections(V)), h)
<1>1. InDir(entry[h].loc, 0, h, {}) /\ Passed(entry[h].loc, 0, {}) = {}
  BY EntersDir
<1>2. Sections(V \union {h}) \ {h} = Sections(V)
  BY SectionsGrow
<1>3. AllOf(Sections(V)) = AllOf(Sections(V \union {h}) \ {h})
                             \union (Listed(h) \cap Passed(entry[h].loc, 0, {}))
  BY <1>1, <1>2
<1> QED BY <1>1, <1>3 DEF Prints

LEMMA PrintsSlot ==
  ASSUME VolumeInv, NEW next, NEW i, NEW V, NEW P, NEW h, Prints(next, i, V, P, h),
         InChain(next), i < EntriesPerSector, NEW s, s = SlotAt(next, i)
  PROVE  /\ h \in Dirs /\ s \in Slot
         /\ IsListed(s) => s \in Listed(h) \ P /\ Prints(next, i + 1, V, P \union {s}, h)
         /\ ~IsListed(s) => Prints(next, i + 1, V, P, h)
<1>1. PICK R : /\ InDir(next, i, h, R)
               /\ P = AllOf(Sections(V) \ {h}) \union (Listed(h) \cap Passed(next, i, R))
  BY DEF Prints
<1>2. h \in Dirs
  BY <1>1, DirIsDir DEF InDir
<1>3. PICK A, B : A = Passed(next, i, R) /\ B = Passed(next, i + 1, R)
  OBVIOUS
<1>4. s \in Contents(h) \ A /\ InDir(next, i + 1, h, R) /\ B = A \union {s}
  BY <1>1, <1>3, PassesSlot
<1>5. s \in Slot
  BY <1>2, <1>4, SlotOfDir
<1>6. s \notin P
  <2> SUFFICES ASSUME NEW d \in Sections(V) \ {h}, s \in Listed(d) PROVE FALSE
    BY <1>1, <1>3, <1>4 DEF AllOf
  <2>1. d \in Dirs /\ s \in Contents(d)
    BY DirIsDir DEF Sections, Listed
  <2> QED BY <1>2, <1>4, <2>1, OneParent
<1>7. ASSUME IsListed(s)
      PROVE  s \in Listed(h) /\ P \union {s} = AllOf(Sections(V) \ {h}) \union (Listed(h) \cap B)
  BY <1>1, <1>3, <1>4, <1>7 DEF Listed
<1>8. ASSUME ~IsListed(s)
      PROVE  P = AllOf(Sections(V) \ {h}) \union (Listed(h) \cap B)
  BY <1>1, <1>3, <1>4, <1>8 DEF Listed
<1>9. h \in V
  BY DEF Prints
<1> QED BY <1>2, <1>3, <1>4, <1>5, <1>6, <1>7, <1>8, <1>9 DEF Prints

\* The slots of a cluster are in order.
LEMMA SlotsInOrder ==
  ASSUME NEW c \in Cluster, NEW i \in 0 .. EntriesPerSector - 1, NEW j \in 0 .. EntriesPerSector - 1,
         i < j
  PROVE  SlotAt(c, i) < SlotAt(c, j) /\ SlotAt(c, i) \in SlotsOf(c) /\ SlotAt(c, j) \in SlotsOf(c)
<1>1. PICK k \in Nat : k = (RootSectors + c - 2) * EntriesPerSector
  <2>1. RootSectors + c - 2 \in Nat /\ EntriesPerSector \in Nat
    BY VolumeAssumption DEF Cluster
  <2> QED BY <2>1, Product
<1>2. i \in Nat /\ j \in Nat
  BY VolumeAssumption
<1>3. SlotAt(c, i) = k + i + 1 /\ SlotAt(c, j) = k + j + 1
  BY <1>1 DEF SlotAt
<1> QED BY <1>2, <1>3 DEF SlotsOf

\* At an unused entry, nothing of the cluster is left to print.
LEMMA PrintsNext ==
  ASSUME VolumeInv, ShapeInv, DirsPacked, NEW next, NEW i, NEW V, NEW P, NEW h,
         Prints(next, i, V, P, h), InChain(next),
         i < EntriesPerSector => entry[SlotAt(next, i)].kind = "end"
  PROVE  Prints(link[next], 0, V, P, h)
<1>1. PICK R : /\ InDir(next, i, h, R)
               /\ P = AllOf(Sections(V) \ {h}) \union (Listed(h) \cap Passed(next, i, R))
  BY DEF Prints
<1>2. PICK E \in Nat \ {0} : E = EntriesPerSector
  BY VolumeAssumption
<1>3. InDir(next, E, h, R)
  BY <1>1, <1>2 DEF InDir
<1>4. next \in Cluster /\ DirCluster(next) /\ i \in 0 .. E
  <2>1. next \in Cluster /\ owner[next] = h /\ h \in Slot /\ IsDir(h)
    BY <1>1 DEF InDir, ClustersOf
  <2> QED BY <1>1, <1>2, <2>1, Marks DEF DirCluster, IsDir, InDir
<1>5. /\ InDir(link[next], 0, h, R \union {next})
      /\ Passed(link[next], 0, R \union {next}) = Passed(next, E, R)
  BY <1>2, <1>3, PassesCluster
<1>6. PICK A : A = UNION {SlotsOf(c) : c \in R}
  OBVIOUS
<1>7. /\ Passed(next, i, R) = A \union {SlotAt(next, j) : j \in 0 .. i - 1}
      /\ Passed(next, E, R) = A \union {SlotAt(next, j) : j \in 0 .. E - 1}
  BY <1>6 DEF Passed
<1>8. 0 .. i - 1 \subseteq 0 .. E - 1 /\ \A j \in 0 .. E - 1 : j \in 0 .. i - 1 \/ j = i \/ i < j
  BY <1>2, <1>4
<1>9. ASSUME NEW j \in 0 .. E - 1, j \notin 0 .. i - 1
      PROVE  entry[SlotAt(next, j)].kind = "end"
  <2>1. i < E /\ i \in 0 .. E - 1 /\ entry[SlotAt(next, i)].kind = "end"
    BY <1>2, <1>4, <1>8, <1>9
  <2>2. CASE i < j
    <3>1. /\ SlotAt(next, i) < SlotAt(next, j)
          /\ SlotAt(next, i) \in SlotsOf(next) /\ SlotAt(next, j) \in SlotsOf(next)
      BY <1>2, <1>4, <2>1, <2>2, SlotsInOrder
    <3> QED BY <1>4, <2>1, <3>1 DEF DirsPacked, Packed
  <2> QED BY <1>8, <1>9, <2>1, <2>2
<1>10. Listed(h) \cap Passed(next, i, R) = Listed(h) \cap Passed(next, E, R)
  <2>1. \A j \in 0 .. E - 1 : j \notin 0 .. i - 1 => SlotAt(next, j) \notin Listed(h)
    BY <1>9 DEF Listed, IsListed
  <2> QED BY <1>7, <1>8, <2>1
<1>11. P = AllOf(Sections(V) \ {h}) \union (Listed(h) \cap Passed(link[next], 0, R \union {next}))
  BY <1>1, <1>5, <1>10
<1> QED BY <1>5, <1>11 DEF Prints

LEMMA PrintsAll ==
  ASSUME VolumeInv, ShapeInv, NEW next, NEW i, NEW V, NEW P, NEW h, Prints(next, i, V, P, h),
         ~InChain(next)
  PROVE  i = 0 /\ P = AllOf(Sections(V))
<1>1. PICK R : /\ InDir(next, i, h, R)
               /\ P = AllOf(Sections(V) \ {h}) \union (Listed(h) \cap Passed(next, i, R))
  BY DEF Prints
<1>2. Passed(next, i, R) = Contents(h)
  BY <1>1, PassesAll
<1>3. Listed(h) \cap Contents(h) = Listed(h)
  BY DEF Listed
<1>4. P = AllOf(Sections(V) \ {h}) \union Listed(h)
  BY <1>1, <1>2, <1>3
<1>5. h \in Sections(V)
  BY <1>1, DirIsDir DEF Prints, InDir, Sections
<1>6. AllOf(Sections(V)) = AllOf(Sections(V) \ {h}) \union Listed(h)
  BY <1>5 DEF AllOf
<1> QED BY <1>4, <1>6 DEF Prints
-----------------------------------------------------------------------------
(* The listing of the root *)

\* The sector of the root at p is printed up to its entry sh.
RootPart(p, sh, o) ==
  /\ \E n \in 0 .. RootSectors - 1 : p = n * EntriesPerSector + 1
  /\ sh \in 0 .. EntriesPerSector
  /\ sh # 0 => entry[p].kind # "end"
  /\ \E P : Lists(o, P, Root) /\ P = {s \in 1 .. p - 1 + sh : IsListed(s)}

LEMMA RootSector ==
  ASSUME NEW n \in 0 .. RootSectors - 1, NEW p, p = n * EntriesPerSector + 1
  PROVE  /\ p \in Nat \ {0} /\ EntriesPerSector \in Nat \ {0} /\ RootSlots \in Nat
         /\ p - 1 + EntriesPerSector <= RootSlots
         /\ n + 1 = RootSectors => p = RootSlots - EntriesPerSector + 1
         /\ p + EntriesPerSector = (n + 1) * EntriesPerSector + 1
         /\ RootSectors <= PrintSectors => p <= PrintSectors * EntriesPerSector
<1>1. PICK R \in Nat \ {0}, E \in Nat \ {0}, N \in Nat :
        R = RootSectors /\ E = EntriesPerSector /\ N = PrintSectors
  BY VolumeAssumption, DiskListAssumption
<1>2. PICK d \in Nat : R = (n + 1) + d
  BY <1>1, R - (n + 1) \in Nat, R = (n + 1) + (R - (n + 1))
<1>3. PICK a \in Nat, b \in Nat, r \in Nat :
        a = n * E /\ b = (n + 1) * E /\ r = R * E /\ b <= r /\ b = a + E
  <2>1. (n + 1) * E = n * E + 1 * E /\ n * E \in Nat
    BY <1>1, Product
  <2>2. (n + 1) * E <= R * E /\ R * E \in Nat /\ (n + 1) * E \in Nat
    BY <1>1, <1>2, Product
  <2> QED BY <1>1, <2>1, <2>2
<1>4. n + 1 = R => b = r
  BY <1>3
<1>5. ASSUME R <= N PROVE r <= N * E /\ N * E \in Nat
  <2>1. PICK x \in Nat : N = R + x
    BY <1>1, <1>5, N - R \in Nat, N = R + (N - R)
  <2> QED BY <1>1, <1>3, <2>1, Product
<1>6. p = a + 1 /\ RootSlots = r
  BY <1>1, <1>3 DEF RootSlots
<1>7. R <= N => p <= N * E
  BY <1>1, <1>3, <1>5, <1>6
<1> QED BY <1>1, <1>3, <1>4, <1>6, <1>7

LEMMA PrintsRootEntry ==
  ASSUME VolumeInv, NEW p, NEW sh, NEW o, RootPart(p, sh, o), sh < EntriesPerSector,
         entry[p].kind # "end", NEW s, s = p + sh, entry[s].kind # "end",
         NEW q, q = IF SkippedInSub(entry[s]) THEN o ELSE Append(o, Line(s))
  PROVE  RootPart(p, sh + 1, q)
<1>1. PICK n \in 0 .. RootSectors - 1 : p = n * EntriesPerSector + 1
  BY DEF RootPart
<1>2. PICK E \in Nat : /\ E = EntriesPerSector /\ p \in Nat \ {0} /\ RootSlots \in Nat
                       /\ p - 1 + E <= RootSlots
  BY <1>1, RootSector
<1>3. sh \in Nat /\ sh < E /\ sh + 1 \in 0 .. EntriesPerSector
  BY <1>2 DEF RootPart
<1>4. s \in 1 .. RootSlots /\ s \in Slot
  BY <1>2, <1>3, SlotsApart
<1>5. PICK P : Lists(o, P, Root) /\ P = {t \in 1 .. p - 1 + sh : IsListed(t)}
  BY DEF RootPart
<1>6. 1 .. p - 1 + (sh + 1) = (1 .. p - 1 + sh) \union {s} /\ s \notin 1 .. p - 1 + sh
  BY <1>2, <1>3
<1>7. \E X : Lists(q, X, Root) /\ X = {t \in 1 .. p - 1 + (sh + 1) : IsListed(t)}
  <2>1. CASE IsListed(s)
    <3>1. s \in Listed(Root) \ P /\ Root \in Dirs
      BY <1>4, <1>5, <1>6, <2>1, DirIsDir DEF Listed, Contents
    <3>2. Lists(Append(o, Line(s)), P \union {s}, Root)
      BY <1>5, <3>1, ListsLine
    <3>3. q = Append(o, Line(s))
      BY <1>4, <2>1, ShowsListed
    <3>4. P \union {s} = {t \in 1 .. p - 1 + (sh + 1) : IsListed(t)}
      BY <1>5, <1>6, <2>1
    <3> QED BY <3>2, <3>3, <3>4
  <2>2. CASE ~IsListed(s)
    <3>1. q = o
      BY <1>4, <2>2, ShowsListed
    <3>2. P = {t \in 1 .. p - 1 + (sh + 1) : IsListed(t)}
      BY <1>5, <1>6, <2>2
    <3> QED BY <1>5, <3>1, <3>2
  <2> QED BY <2>1, <2>2
<1> QED BY <1>1, <1>3, <1>7 DEF RootPart

LEMMA PrintsRootSector ==
  ASSUME VolumeInv, ShapeInv, RootIsPrinted, NEW p, NEW sh, NEW o, RootPart(p, sh, o),
         entry[p].kind # "end", sh < EntriesPerSector => entry[p + sh].kind = "end"
  PROVE  RootPart(p + EntriesPerSector, 0, o)
<1>1. PICK n \in 0 .. RootSectors - 1 : p = n * EntriesPerSector + 1
  BY DEF RootPart
<1>2. PICK E \in Nat \ {0}, R \in Nat :
        /\ E = EntriesPerSector /\ R = RootSlots /\ p \in Nat \ {0} /\ p - 1 + E <= R
        /\ n + 1 = RootSectors => p = R - E + 1
        /\ p + E = (n + 1) * E + 1
  BY <1>1, RootSector
<1>3. n + 1 \in 0 .. RootSectors - 1
  <2>1. p # R - E + 1
    BY <1>2 DEF RootIsPrinted
  <2> QED BY <1>2, <2>1, VolumeAssumption
<1>4. PICK P : Lists(o, P, Root) /\ P = {s \in 1 .. p - 1 + sh : IsListed(s)}
  BY DEF RootPart
<1>5. sh \in 0 .. E
  BY <1>2 DEF RootPart
<1>6. ASSUME NEW s \in 1 .. (p + E) - 1 + 0, IsListed(s) PROVE s \in 1 .. p - 1 + sh
  <2> SUFFICES ASSUME ~(s <= p - 1 + sh) PROVE FALSE
    BY <1>2, <1>5
  <2>1. /\ sh < E /\ p + sh \in 1 .. R /\ s \in 1 .. R /\ p + sh <= s
    BY <1>2, <1>5
  <2>2. entry[s].kind = "end"
    <3>1. PICK x : x = p + sh
      OBVIOUS
    <3>2. entry[x].kind = "end" /\ x \in 1 .. R /\ (x = s \/ x < s)
      BY <1>2, <2>1, <3>1
    <3> QED BY <1>2, <2>1, <3>2 DEF ShapeInv, RootPacked
  <2> QED BY <1>6, <2>2 DEF IsListed
<1>7. 1 .. p - 1 + sh \subseteq 1 .. (p + E) - 1 + 0
  BY <1>2, <1>5
<1>8. P = {s \in 1 .. (p + E) - 1 + 0 : IsListed(s)}
  BY <1>4, <1>6, <1>7
<1>9. 0 \in 0 .. EntriesPerSector
  BY VolumeAssumption
<1> QED BY <1>2, <1>3, <1>4, <1>8, <1>9 DEF RootPart

LEMMA PrintsWholeRoot ==
  ASSUME VolumeInv, ShapeInv, RootIsPrinted, NEW p, NEW sh, NEW o, RootPart(p, sh, o),
         ~(p <= PrintSectors * EntriesPerSector /\ entry[p].kind # "end")
  PROVE  sh = 0 /\ Lists(o, Listed(Root), Root)
<1>1. PICK n \in 0 .. RootSectors - 1 : p = n * EntriesPerSector + 1
  BY DEF RootPart
<1>2. PICK E \in Nat \ {0}, R \in Nat :
        /\ E = EntriesPerSector /\ R = RootSlots /\ p \in Nat \ {0} /\ p - 1 + E <= R
        /\ p <= PrintSectors * EntriesPerSector
  BY <1>1, RootSector DEF RootIsPrinted
<1>3. entry[p].kind = "end" /\ sh = 0
  BY <1>2 DEF RootPart
<1>4. PICK P : Lists(o, P, Root) /\ P = {s \in 1 .. p - 1 + 0 : IsListed(s)}
  BY <1>3 DEF RootPart
<1>5. ASSUME NEW s \in 1 .. R, IsListed(s) PROVE s \in 1 .. p - 1 + 0
  <2> SUFFICES ASSUME ~(s < p) PROVE FALSE
    BY <1>2
  <2>1. p \in 1 .. R /\ (p = s \/ p < s)
    BY <1>2
  <2>2. entry[s].kind = "end"
    BY <1>2, <1>3, <2>1 DEF ShapeInv, RootPacked
  <2> QED BY <1>5, <2>2 DEF IsListed
<1>6. 1 .. p - 1 + 0 \subseteq 1 .. R
  BY <1>2
<1>7. P = Listed(Root)
  <2>1. Listed(Root) = {s \in 1 .. R : IsListed(s)}
    BY <1>2 DEF Listed, Contents
  <2> QED BY <1>4, <1>5, <1>6, <2>1
<1> QED BY <1>3, <1>4, <1>7
-----------------------------------------------------------------------------
(* The listing of the directories *)

\* Where a call of parse_sub is in the walk: it begins after the printing.
At(v) == [next |-> IF v.pass = "print" THEN v.flc ELSE v.next, i |-> v.i]

Places(f) == [n \in 1 .. Len(f) |-> At(f[n])]

\* The innermost call prints.
Printing(f) == Len(f) # 0 /\ f[Len(f)].pass = "print"

\* What the calls f of parse_sub, the slot c of the root, the entries sh of a
\* sector and the lines o say of the listing.
WalkPart(f, c, sh, o) ==
  /\ \A n \in 1 .. Len(f) - 1 : f[n].pass = "walk"
  /\ \E V, P, h : /\ Roam(Places(f), c, V)
                  /\ Lists(o, P, h)
                  /\ IF Printing(f) THEN Prints(f[Len(f)].next, sh, V, P, h)
                                    ELSE sh = 0 /\ P = AllOf(Sections(V))

LEMMA PlacesOf ==
  ASSUME NEW S, NEW f \in Seq(S)
  PROVE  /\ Len(Places(f)) = Len(f) /\ Len(f) \in Nat
         /\ \A n \in 1 .. Len(f) : /\ Places(f)[n].next = IF f[n].pass = "print" THEN f[n].flc ELSE f[n].next
                                   /\ Places(f)[n].i = f[n].i
<1>1. PICK m \in Nat : m = Len(f)
  BY LenProperties
<1>2. Places(f) = [n \in 1 .. m |-> At(f[n])]
  BY <1>1 DEF Places
<1>3. Len(Places(f)) = m
  BY <1>2
<1> QED BY <1>1, <1>2, <1>3 DEF At

LEMMA PlacesOfNone ==
  Places(<<>>) = <<>> /\ ~Printing(<<>>) /\ Len(<<>>) = 0
<1>1. Len(<<>>) = 0 /\ 1 .. 0 = {}
  OBVIOUS
<1>2. Places(<<>>) = <<>>
  <2>1. PICK g : g = Places(<<>>)
    OBVIOUS
  <2>2. g = [n \in {} |-> At(<<>>[n])]
    BY <1>1, <2>1 DEF Places
  <2>3. <<>> = [n \in {} |-> At(<<>>[n])]
    OBVIOUS
  <2> QED BY <2>1, <2>2, <2>3
<1> QED BY <1>1, <1>2 DEF Printing

\* The walk over the root begins when that is printed.
LEMMA ListingBegins ==
  ASSUME VolumeInv, NEW o, Lists(o, Listed(Root), Root)
  PROVE  WalkPart(<<>>, 1, 0, o)
<1>1. Places(<<>>) = <<>> /\ ~Printing(<<>>) /\ Len(<<>>) = 0 /\ 1 .. 0 - 1 = {}
  BY PlacesOfNone
<1>2. Roam(Places(<<>>), 1, {})
  BY <1>1, RoamBegins
<1>3. AllOf(Sections({})) = Listed(Root)
  BY DEF AllOf, Sections
<1> QED BY <1>1, <1>2, <1>3 DEF WalkPart

LEMMA ListsRootSlot ==
  ASSUME VolumeInv, NEW c, NEW sh, NEW o, WalkPart(<<>>, c, sh, o), c \in 1 .. RootSlots,
         entry[c].kind # "end", ~IsDir(c)
  PROVE  WalkPart(<<>>, c + 1, sh, o)
<1>1. Places(<<>>) = <<>> /\ ~Printing(<<>>)
  BY PlacesOfNone
<1>2. PICK V, P, h : Roam(<<>>, c, V) /\ Lists(o, P, h) /\ sh = 0 /\ P = AllOf(Sections(V))
  BY <1>1 DEF WalkPart
<1>3. c \in Slot \ V /\ Roam(<<>>, c + 1, V \union {c})
  BY <1>2, RoamsRootSlot
<1>4. Sections(V \union {c}) = Sections(V)
  BY <1>3, SectionsGrow
<1> QED BY <1>1, <1>2, <1>3, <1>4 DEF WalkPart

LEMMA ListsRootDir ==
  ASSUME VolumeInv, NEW c, NEW sh, NEW o, WalkPart(<<>>, c, sh, o), c \in 1 .. RootSlots,
         IsDir(c), NEW v \in SoundCalls, v = Visit(entry[c].loc),
         NEW path, NEW q, q = Append(o, Header(c, path))
  PROVE  WalkPart(<<v>>, c + 1, sh, q)
<1>1. Places(<<>>) = <<>> /\ ~Printing(<<>>)
  BY PlacesOfNone
<1>2. PICK V, P, h : Roam(<<>>, c, V) /\ Lists(o, P, h) /\ sh = 0 /\ P = AllOf(Sections(V))
  BY <1>1 DEF WalkPart
<1>3. PICK g : g = <<v>>
  OBVIOUS
<1>4. g \in Seq(SoundCalls) /\ Len(g) = 1 /\ g[1] = v
  <2>1. PICK S : S = SoundCalls /\ v \in S
    OBVIOUS
  <2>2. g \in Seq(S) /\ Len(g) = 1 /\ g[1] = v
    BY <1>3, <2>1
  <2> QED BY <2>1, <2>2
<1>5. v.pass = "print" /\ v.flc = entry[c].loc /\ v.next = entry[c].loc /\ v.i = 0
  BY DEF Visit
<1>6. PICK x : x = Places(g) /\ Len(x) = 1 /\ x[1].next = entry[c].loc /\ x[1].i = 0
  <2>1. PICK x : x = Places(g)
    OBVIOUS
  <2>2. /\ Len(x) = Len(g)
        /\ \A n \in 1 .. Len(g) : /\ x[n].next = IF g[n].pass = "print" THEN g[n].flc ELSE g[n].next
                                  /\ x[n].i = g[n].i
    BY <1>4, <2>1, PlacesOf
  <2>3. 1 \in 1 .. Len(g)
    BY <1>4
  <2>4. /\ x[1].next = IF g[1].pass = "print" THEN g[1].flc ELSE g[1].next
        /\ x[1].i = g[1].i
    BY <2>2, <2>3
  <2>5. Len(x) = 1 /\ x[1].next = entry[c].loc /\ x[1].i = 0
    BY <1>5, <1>4, <2>2, <2>4
  <2> QED BY <2>1, <2>5
<1>7. c \in Slot \ V /\ Roam(x, c + 1, V \union {c})
  BY <1>2, <1>6, RoamsIntoRootDir
<1>8. Lists(q, P, c)
  BY <1>2, ListsHeader
<1>9. Prints(entry[c].loc, 0, V \union {c}, P, c)
  BY <1>2, <1>7, PrintsFirst
<1>10. Printing(g) /\ 1 .. Len(g) - 1 = {} /\ g[Len(g)].next = entry[c].loc
  BY <1>4, <1>5 DEF Printing
<1>11. WalkPart(g, c + 1, sh, q)
  BY <1>2, <1>6, <1>7, <1>8, <1>9, <1>10 DEF WalkPart
<1> QED BY <1>3, <1>11

\* All that there is to list is listed.
Complete(o) == \E P, h : Lists(o, P, h) /\ \A d \in Dirs : Listed(d) \subseteq P

LEMMA ListsAll ==
  ASSUME VolumeInv, ShapeInv, RootIsPrinted, NEW c, NEW sh, NEW o, WalkPart(<<>>, c, sh, o),
         ~(c <= RootSlots /\ entry[c].kind # "end")
  PROVE  Complete(o)
<1>1. Places(<<>>) = <<>> /\ ~Printing(<<>>) /\ Len(<<>>) = 0
  BY PlacesOfNone
<1>2. PICK V, P, h : Roam(<<>>, c, V) /\ Lists(o, P, h) /\ P = AllOf(Sections(V))
  BY <1>1 DEF WalkPart
<1>3. PICK D, Q, U : Roams(<<>>, c, D, Q, U, V)
  BY <1>2 DEF Roam
<1>4. /\ Explored(0, D, U, V) /\ c \in Nat \ {0} /\ U[0] = 1 .. c - 1
      /\ \A s \in 1 .. c - 1 : entry[s].kind # "end"
  BY <1>1, <1>3 DEF Roams
<1>5. c \in 1 .. RootSlots /\ entry[c].kind = "end"
  <2>1. RootSectors - 1 \in 0 .. RootSectors - 1
    BY VolumeAssumption
  <2>2. PICK p : p = (RootSectors - 1) * EntriesPerSector + 1
    OBVIOUS
  <2>3. p \in Nat \ {0} /\ RootSlots \in Nat /\ p <= RootSlots /\ entry[p].kind = "end"
    <3>1. /\ p \in Nat \ {0} /\ EntriesPerSector \in Nat \ {0} /\ RootSlots \in Nat
          /\ p - 1 + EntriesPerSector <= RootSlots
          /\ RootSectors - 1 + 1 = RootSectors => p = RootSlots - EntriesPerSector + 1
      BY <2>1, <2>2, RootSector
    <3>2. RootSectors - 1 + 1 = RootSectors
      BY VolumeAssumption
    <3> QED BY <3>1, <3>2 DEF RootIsPrinted
  <2>4. c <= p
    BY <1>4, <2>3
  <2> QED BY <1>4, <2>3, <2>4
<1>6. Dirs \ {Root} \subseteq V
  BY <1>4, <1>5, ExploresAll
<1>7. \A d \in Dirs : d \in Sections(V)
  BY <1>6 DEF Sections
<1> QED BY <1>2, <1>7 DEF Complete, AllOf
-----------------------------------------------------------------------------
(* The listing of a directory *)

\* In g, the innermost of the m calls f is another one.
Moves(f, g, m) ==
  /\ f \in Seq(SoundCalls) /\ g \in Seq(SoundCalls)
  /\ m \in Nat \ {0} /\ Len(f) = m /\ Len(g) = m
  /\ SameCallers(f, g, m)

\* The printing moves within the innermost call, or is over.
LEMMA PrintsMove ==
  ASSUME NEW f, NEW g, NEW m, Moves(f, g, m), At(g[m]) = At(f[m])
  PROVE  Places(g) = Places(f)
<1>1. m \in Nat \ {0} /\ Len(f) = m /\ Len(g) = m
  BY DEF Moves
<1>2. ASSUME NEW n \in 1 .. m PROVE At(g[n]) = At(f[n])
  <2>1. n = m \/ n \in 1 .. m - 1
    BY <1>1
  <2> QED BY <2>1 DEF Moves, SameCallers
<1>3. Places(g) = [n \in 1 .. m |-> At(g[n])] /\ Places(f) = [n \in 1 .. m |-> At(f[n])]
  BY <1>1 DEF Places
<1> QED BY <1>2, <1>3

LEMMA WalkMoves ==
  ASSUME NEW f, NEW g, NEW m, Moves(f, g, m), f[m].pass = "walk", g[m].pass = "walk"
  PROVE  /\ Len(Places(f)) = m /\ Len(Places(g)) = m
         /\ SameCallers(Places(f), Places(g), m)
         /\ Places(f)[m].next = f[m].next /\ Places(f)[m].i = f[m].i
         /\ Places(g)[m].next = g[m].next /\ Places(g)[m].i = g[m].i
<1>1. /\ m \in Nat \ {0} /\ m \in 1 .. m /\ Len(f) = m /\ Len(g) = m
      /\ f \in Seq(SoundCalls) /\ g \in Seq(SoundCalls)
  BY DEF Moves
<1>2. Places(g) = [n \in 1 .. m |-> At(g[n])] /\ Places(f) = [n \in 1 .. m |-> At(f[n])]
  BY <1>1 DEF Places
<1>3. At(f[m]).next = f[m].next /\ At(f[m]).i = f[m].i
  BY DEF At
<1>4. At(g[m]).next = g[m].next /\ At(g[m]).i = g[m].i
  BY DEF At
<1>5. Len(Places(f)) = m /\ Len(Places(g)) = m
  BY <1>1, PlacesOf
<1>6. SameCallers(Places(f), Places(g), m)
  <2> SUFFICES ASSUME NEW n \in 1 .. m - 1 PROVE Places(g)[n] = Places(f)[n]
    BY DEF SameCallers
  <2>1. n \in 1 .. m /\ g[n] = f[n]
    BY <1>1 DEF Moves, SameCallers
  <2> QED BY <1>2, <2>1
<1> QED BY <1>1, <1>2, <1>3, <1>4, <1>5, <1>6

\* The calls but the innermost walk.
CallersWalk(f) == \A n \in 1 .. Len(f) - 1 : f[n].pass = "walk"

LEMMA MovesUnder ==
  ASSUME NEW f, NEW g, NEW m, Moves(f, g, m), CallersWalk(f)
  PROVE  /\ CallersWalk(g)
         /\ Printing(f) <=> f[m].pass = "print"
         /\ Printing(g) <=> g[m].pass = "print"
BY DEF Moves, SameCallers, CallersWalk, Printing

\* q is o with the line of the entry s, if it has one.
Shows(q, o, s) == q = IF SkippedInSub(entry[s]) THEN o ELSE Append(o, Line(s))

LEMMA ListsEntry ==
  ASSUME VolumeInv, NEW f, NEW c, NEW sh, NEW o, WalkPart(f, c, sh, o), Printing(f),
         NEW n, n = f[Len(f)].next, InChain(n), sh < EntriesPerSector,
         NEW s, s = SlotAt(n, sh), entry[s].kind # "end",
         NEW q, Shows(q, o, s)
  PROVE  WalkPart(f, c, sh + 1, q)
<1>1. PICK V, P, h : Roam(Places(f), c, V) /\ Lists(o, P, h) /\ Prints(n, sh, V, P, h)
  BY DEF WalkPart
<1>2. /\ h \in Dirs /\ s \in Slot
      /\ IsListed(s) => s \in Listed(h) \ P /\ Prints(n, sh + 1, V, P \union {s}, h)
      /\ ~IsListed(s) => Prints(n, sh + 1, V, P, h)
  <2>1. Prints(n, sh, V, P, h) /\ InChain(n) /\ sh < EntriesPerSector /\ s = SlotAt(n, sh)
    BY <1>1
  <2> QED BY <2>1, PrintsSlot
<1>3. ~SkippedInSub(entry[s]) <=> IsListed(s)
  BY <1>2, ShowsListed
<1>4. CASE IsListed(s)
  <2>1. q = Append(o, Line(s))
    BY <1>3, <1>4 DEF Shows
  <2>2. Lists(q, P \union {s}, h)
    BY <1>1, <1>2, <1>4, <2>1, ListsLine
  <2> QED BY <1>1, <1>2, <1>4, <2>2 DEF WalkPart
<1>5. CASE ~IsListed(s)
  <2>1. q = o
    BY <1>3, <1>5 DEF Shows
  <2> QED BY <1>1, <1>2, <1>5, <2>1 DEF WalkPart
<1> QED BY <1>4, <1>5

LEMMA ListsCluster ==
  ASSUME VolumeInv, ShapeInv, DirsPacked, NEW f, NEW g, NEW m, Moves(f, g, m),
         NEW c, NEW sh, NEW o, WalkPart(f, c, sh, o), f[m].pass = "print",
         NEW n, n = f[m].next, InChain(n), sh < EntriesPerSector => entry[SlotAt(n, sh)].kind = "end",
         g[m].pass = "print", g[m].flc = f[m].flc, g[m].i = f[m].i, g[m].next = link[n]
  PROVE  WalkPart(g, c, 0, o)
<1>1. CallersWalk(g) /\ Printing(f) /\ Printing(g) /\ Len(f) = m /\ Len(g) = m
  <2>1. CallersWalk(f)
    BY DEF WalkPart, CallersWalk
  <2> QED BY <2>1, MovesUnder DEF Moves
<1>2. PICK V, P, h : Roam(Places(f), c, V) /\ Lists(o, P, h) /\ Prints(n, sh, V, P, h)
  BY <1>1 DEF WalkPart
<1>3. Prints(link[n], 0, V, P, h)
  BY <1>2, PrintsNext
<1>4. Places(g) = Places(f)
  BY PrintsMove DEF At
<1> QED BY <1>1, <1>2, <1>3, <1>4 DEF WalkPart, CallersWalk

LEMMA ListsRewind ==
  ASSUME VolumeInv, ShapeInv, NEW f, NEW g, NEW m, Moves(f, g, m),
         NEW c, NEW sh, NEW o, WalkPart(f, c, sh, o), f[m].pass = "print", ~InChain(f[m].next),
         g[m].pass = "walk", g[m].next = f[m].flc, g[m].i = f[m].i
  PROVE  WalkPart(g, c, sh, o)
<1>1. CallersWalk(g) /\ Printing(f) /\ ~Printing(g) /\ Len(f) = m /\ Len(g) = m
  <2>1. CallersWalk(f)
    BY DEF WalkPart, CallersWalk
  <2> QED BY <2>1, MovesUnder DEF Moves
<1>2. PICK V, P, h : Roam(Places(f), c, V) /\ Lists(o, P, h) /\ Prints(f[m].next, sh, V, P, h)
  BY <1>1 DEF WalkPart
<1>3. sh = 0 /\ P = AllOf(Sections(V))
  BY <1>2, PrintsAll
<1>4. Places(g) = Places(f)
  BY PrintsMove DEF At
<1> QED BY <1>1, <1>2, <1>3, <1>4 DEF WalkPart, CallersWalk
LEMMA ListsPast ==
  ASSUME VolumeInv, NEW f, NEW g, NEW m, Moves(f, g, m), NEW c, NEW sh, NEW o, WalkPart(f, c, sh, o),
         f[m].pass = "walk", g[m].pass = "walk", InChain(f[m].next), f[m].i < EntriesPerSector,
         NEW s, s = SlotAt(f[m].next, f[m].i), ~IsDir(s),
         g[m].next = f[m].next, g[m].i = f[m].i + 1
  PROVE  WalkPart(g, c, sh, o)
<1>1. CallersWalk(g) /\ ~Printing(f) /\ ~Printing(g) /\ m \in Nat \ {0}
  <2>1. CallersWalk(f)
    BY DEF WalkPart, CallersWalk
  <2> QED BY <2>1, MovesUnder DEF Moves
<1>2. PICK V, P, h : Roam(Places(f), c, V) /\ Lists(o, P, h) /\ sh = 0 /\ P = AllOf(Sections(V))
  BY <1>1 DEF WalkPart
<1>3. PICK x, y : x = Places(f) /\ y = Places(g)
  OBVIOUS
<1>4. /\ Len(x) = m /\ Len(y) = m /\ SameCallers(x, y, m)
      /\ x[m].next = f[m].next /\ x[m].i = f[m].i
      /\ y[m].next = g[m].next /\ y[m].i = g[m].i
  BY <1>3, WalkMoves
<1>5. s \in Slot \ V /\ Roam(y, c, V \union {s})
  <2>1. /\ Roam(x, c, V) /\ InChain(x[m].next) /\ x[m].i < EntriesPerSector
        /\ s = SlotAt(x[m].next, x[m].i)
        /\ y[m].next = x[m].next /\ y[m].i = x[m].i + 1
    BY <1>2, <1>3, <1>4
  <2> QED BY <1>1, <1>4, <2>1, RoamsSlot
<1>6. Sections(V \union {s}) = Sections(V)
  BY <1>5, SectionsGrow
<1> QED BY <1>1, <1>2, <1>3, <1>5, <1>6 DEF WalkPart, CallersWalk

LEMMA ListsInto ==
  ASSUME VolumeInv, NEW f, NEW e, NEW m, Moves(f, e, m), NEW c, NEW sh, NEW o, WalkPart(f, c, sh, o),
         f[m].pass = "walk", e[m].pass = "walk", InChain(f[m].next), f[m].i < EntriesPerSector,
         NEW s, s = SlotAt(f[m].next, f[m].i), IsDir(s),
         e[m].next = f[m].next, e[m].i = f[m].i + 1,
         NEW v \in SoundCalls, v = Visit(entry[s].loc), NEW g, g = Append(e, v),
         NEW path, NEW q, q = Append(o, Header(s, path))
  PROVE  WalkPart(g, c, sh, q)
<1>1. CallersWalk(e) /\ ~Printing(f) /\ m \in Nat \ {0} /\ e \in Seq(SoundCalls) /\ Len(e) = m
  <2>1. CallersWalk(f)
    BY DEF WalkPart, CallersWalk
  <2> QED BY <2>1, MovesUnder DEF Moves
<1>2. PICK V, P, h : Roam(Places(f), c, V) /\ Lists(o, P, h) /\ sh = 0 /\ P = AllOf(Sections(V))
  BY <1>1 DEF WalkPart
<1>3. PICK M \in Nat : M = m + 1 /\ M \in 1 .. M /\ \A n \in 1 .. m : n \in 1 .. M /\ n # M
  BY <1>1, m + 1 \in Nat
<1>4. g \in Seq(SoundCalls) /\ Len(g) = M /\ g[M] = v /\ \A n \in 1 .. m : g[n] = e[n]
  BY <1>1, <1>3, AppendProperties
<1>5. v.pass = "print" /\ v.flc = entry[s].loc /\ v.next = entry[s].loc /\ v.i = 0
  BY DEF Visit
<1>6. PICK x, z, y : x = Places(f) /\ z = Places(e) /\ y = Places(g)
  OBVIOUS
<1>7. /\ Len(x) = m /\ Len(z) = m /\ SameCallers(x, z, m)
      /\ x[m].next = f[m].next /\ x[m].i = f[m].i
      /\ z[m].next = e[m].next /\ z[m].i = e[m].i
  BY <1>6, WalkMoves
<1>8. Len(y) = M /\ (\A n \in 1 .. m : y[n] = z[n]) /\ y[M].next = entry[s].loc /\ y[M].i = 0
  <2>1. y = [n \in 1 .. M |-> At(g[n])] /\ z = [n \in 1 .. m |-> At(e[n])]
    BY <1>1, <1>4, <1>6 DEF Places
  <2>2. Len(y) = M
    BY <1>4, <1>6, PlacesOf
  <2>3. \A n \in 1 .. m : y[n] = z[n]
    BY <1>3, <1>4, <2>1
  <2>4. y[M] = At(v)
    BY <1>3, <1>4, <2>1
  <2>5. At(v).next = entry[s].loc /\ At(v).i = 0
    BY <1>5 DEF At
  <2> QED BY <2>2, <2>3, <2>4, <2>5
<1>9. Enters(x, y, m, s)
  <2>1. m \in 1 .. m /\ 1 .. m - 1 \subseteq 1 .. m
    BY <1>1
  <2>2. SameCallers(x, y, m) /\ y[m] = z[m]
    BY <1>7, <1>8, <2>1 DEF SameCallers
  <2> QED BY <1>3, <1>7, <1>8, <2>2 DEF Enters
<1>10. s \in Slot \ V /\ Roam(y, c, V \union {s})
  BY <1>1, <1>2, <1>6, <1>9, RoamsIntoDir
<1>11. Lists(q, P, s)
  BY <1>2, ListsHeader
<1>12. Prints(entry[s].loc, 0, V \union {s}, P, s)
  BY <1>2, <1>10, PrintsFirst
<1>13. \A n \in 1 .. Len(g) - 1 : g[n].pass = "walk"
  <2>1. Len(g) - 1 = m /\ \A n \in 1 .. m : n = m \/ n \in 1 .. m - 1
    BY <1>1, <1>3, <1>4
  <2> QED BY <1>1, <1>4, <2>1 DEF CallersWalk
<1>14. Printing(g) /\ g[Len(g)].next = entry[s].loc
  BY <1>3, <1>4, <1>5 DEF Printing
<1> QED BY <1>2, <1>6, <1>10, <1>11, <1>12, <1>13, <1>14 DEF WalkPart

LEMMA ListsNext ==
  ASSUME VolumeInv, ShapeInv, NEW f, NEW g, NEW m, Moves(f, g, m),
         NEW c, NEW sh, NEW o, WalkPart(f, c, sh, o),
         f[m].pass = "walk", g[m].pass = "walk", InChain(f[m].next), f[m].i = EntriesPerSector,
         g[m].next = link[f[m].next], g[m].i = 0
  PROVE  WalkPart(g, c, sh, o)
<1>1. CallersWalk(g) /\ ~Printing(f) /\ ~Printing(g) /\ m \in Nat \ {0}
  <2>1. CallersWalk(f)
    BY DEF WalkPart, CallersWalk
  <2> QED BY <2>1, MovesUnder DEF Moves
<1>2. PICK V, P, h : Roam(Places(f), c, V) /\ Lists(o, P, h) /\ sh = 0 /\ P = AllOf(Sections(V))
  BY <1>1 DEF WalkPart
<1>3. PICK x, y : x = Places(f) /\ y = Places(g)
  OBVIOUS
<1>4. /\ Len(x) = m /\ Len(y) = m /\ SameCallers(x, y, m)
      /\ x[m].next = f[m].next /\ x[m].i = f[m].i
      /\ y[m].next = g[m].next /\ y[m].i = g[m].i
  BY <1>3, WalkMoves
<1>5. Roam(y, c, V)
  BY <1>1, <1>2, <1>3, <1>4, RoamsCluster
<1> QED BY <1>1, <1>2, <1>3, <1>5 DEF WalkPart, CallersWalk

LEMMA ListsBack ==
  ASSUME VolumeInv, ShapeInv, NEW f \in Seq(SoundCalls), NEW m \in Nat \ {0}, m = Len(f),
         NEW c, NEW sh, NEW o, WalkPart(f, c, sh, o),
         f[m].pass = "walk", ~InChain(f[m].next), NEW g, g = SubSeq(f, 1, m - 1)
  PROVE  WalkPart(g, c, sh, o)
<1>1. ~Printing(f)
  BY DEF Printing
<1>2. PICK V, P, h : Roam(Places(f), c, V) /\ Lists(o, P, h) /\ sh = 0 /\ P = AllOf(Sections(V))
  BY <1>1 DEF WalkPart
<1>3. PICK M \in Nat : M = m - 1 /\ 1 .. M \subseteq 1 .. m /\ m \in 1 .. m
  BY m - 1 \in Nat
<1>4. Len(g) = M /\ \A n \in 1 .. M : g[n] = f[n]
  BY <1>3, SubSeqProperties
<1>5. PICK x, y : x = Places(f) /\ y = Places(g)
  OBVIOUS
<1>6. /\ Len(x) = m /\ x[m].next = f[m].next
      /\ Len(y) = M /\ \A n \in 1 .. M : y[n] = x[n]
  <2>1. x = [n \in 1 .. m |-> At(f[n])] /\ y = [n \in 1 .. M |-> At(g[n])]
    BY <1>4, <1>5 DEF Places
  <2>2. Len(x) = m /\ Len(y) = M
    BY <1>3, <2>1
  <2>3. At(f[m]).next = f[m].next
    BY DEF At
  <2> QED BY <1>3, <1>4, <2>1, <2>2, <2>3
<1>7. Roam(y, c, V)
  <2>1. /\ m = Len(x) /\ ~InChain(x[m].next) /\ Len(y) = m - 1
        /\ \A n \in 1 .. m - 1 : y[n].next = x[n].next /\ y[n].i = x[n].i
    BY <1>3, <1>6
  <2> QED BY <1>2, <1>5, <2>1, RoamsBack
<1>8. \A n \in 1 .. M : g[n].pass = "walk"
  BY <1>3, <1>4 DEF WalkPart
<1>9. ~Printing(g) /\ \A n \in 1 .. Len(g) - 1 : g[n].pass = "walk"
  <2>1. M = 0 \/ M \in 1 .. M
    BY <1>3
  <2>2. 1 .. M - 1 \subseteq 1 .. M
    BY <1>3
  <2> QED BY <1>4, <1>8, <2>1, <2>2 DEF Printing
<1> QED BY <1>2, <1>5, <1>7, <1>9 DEF WalkPart
-----------------------------------------------------------------------------
(* The steps of disklist *)

\* Where disklist is in the listing, on a disk all of whose root it prints.
ListInv ==
  /\ list = "off" => print_root = 1 /\ shown = 0 /\ place = 1
  /\ RootIsPrinted =>
       /\ list = "root" =>
            /\ place = 1
            /\ \E p, sh, o : p = print_root /\ sh = shown /\ o = out /\ RootPart(p, sh, o)
       /\ list = "walking" =>
            \E f, c, sh, o : f = calls /\ c = place /\ sh = shown /\ o = out /\ WalkPart(f, c, sh, o)
       /\ list = "done" => \E o : o = out /\ Complete(o)

\* A step of disklist goes on with the listing, or ends it.
Arrives ==
  \/ /\ list' = "root" /\ place' = 1
     /\ \E p, sh, o : p = print_root' /\ sh = shown' /\ o = out' /\ RootPart(p, sh, o)
  \/ /\ list' = "walking"
     /\ \E f, c, sh, o : f = calls' /\ c = place' /\ sh = shown' /\ o = out' /\ WalkPart(f, c, sh, o)
  \/ list' = "done" /\ \E o : o = out' /\ Complete(o)

LEMMA DirLeads ==
  ASSUME VolumeInv, NEW s \in Slot, IsDir(s)
  PROVE  DirCluster(entry[s].loc)
BY Marks, DirIsDir DEF ClustersOf, DirCluster, IsDir

LEMMA ArrivesInRoot ==
  ASSUME ToolInv, ShapeInv, ListInv, RootIsPrinted,
         StartList \/ PrintRootEntry \/ NextRootSector \/ RootPrinted
  PROVE  Arrives
<1>1. VolumeInv
  BY DEF ToolInv
<1>2. CASE StartList
  <2>1. PICK o : o = <<Header(Root, <<>>)>>
    OBVIOUS
  <2>2. print_root' = 1 /\ shown' = 0 /\ place' = 1 /\ list' = "root" /\ out' = o
    BY <1>2, <2>1 DEF StartList, ListInv
  <2>3. RootPart(1, 0, o)
    <3>1. 0 \in 0 .. RootSectors - 1 /\ 0 * EntriesPerSector = 0 /\ 0 \in 0 .. EntriesPerSector
      BY VolumeAssumption
    <3>2. 1 = 0 * EntriesPerSector + 1
      BY <3>1
    <3>3. {s \in 1 .. 1 - 1 + 0 : IsListed(s)} = {}
      OBVIOUS
    <3>4. Lists(o, {}, Root)
      BY <2>1, ListsFirst
    <3> QED BY <3>1, <3>2, <3>3, <3>4 DEF RootPart
  <2> QED BY <2>2, <2>3 DEF Arrives
<1>3. ASSUME list = "root"
      PROVE  place = 1 /\ \E p, sh, o : p = print_root /\ sh = shown /\ o = out /\ RootPart(p, sh, o)
  BY <1>3 DEF ListInv
<1>4. CASE PrintRootEntry
  <2>1. list = "root"
    BY <1>4 DEF PrintRootEntry
  <2>2. PICK p, sh, o : p = print_root /\ sh = shown /\ o = out /\ RootPart(p, sh, o)
    BY <1>3, <2>1
  <2>3. PICK s, q : s = p + sh /\ q = IF SkippedInSub(entry[s]) THEN o ELSE Append(o, Line(s))
    OBVIOUS
  <2>4. /\ entry[p].kind # "end" /\ sh < EntriesPerSector /\ entry[s].kind # "end"
        /\ print_root' = p /\ shown' = sh + 1 /\ out' = q /\ place' = place /\ list' = "root"
    BY <1>4, <2>2, <2>3 DEF PrintRootEntry, PrintsRoot, ShowEntry, SectorShown
  <2>5. RootPart(p, sh + 1, q)
    BY <1>1, <2>2, <2>3, <2>4, PrintsRootEntry
  <2> QED BY <1>3, <2>1, <2>4, <2>5 DEF Arrives
<1>5. CASE NextRootSector
  <2>1. list = "root"
    BY <1>5 DEF NextRootSector
  <2>2. PICK p, sh, o : p = print_root /\ sh = shown /\ o = out /\ RootPart(p, sh, o)
    BY <1>3, <2>1
  <2>3. /\ entry[p].kind # "end" /\ (sh < EntriesPerSector => entry[p + sh].kind = "end")
        /\ print_root' = p + EntriesPerSector /\ shown' = 0 /\ out' = o /\ place' = place
        /\ list' = "root"
    BY <1>5, <2>2 DEF NextRootSector, PrintsRoot, SectorShown
  <2>4. RootPart(p + EntriesPerSector, 0, o)
    BY <1>1, <2>2, <2>3, PrintsRootSector
  <2> QED BY <1>3, <2>1, <2>3, <2>4 DEF Arrives
<1>6. CASE RootPrinted
  <2>1. list = "root" /\ calls = <<>>
    BY <1>6 DEF RootPrinted, ToolInv, InTurn
  <2>2. PICK p, sh, o : p = print_root /\ sh = shown /\ o = out /\ RootPart(p, sh, o)
    BY <1>3, <2>1
  <2>3. /\ ~(p <= PrintSectors * EntriesPerSector /\ entry[p].kind # "end")
        /\ shown' = sh /\ out' = o /\ place' = 1 /\ calls' = <<>> /\ list' = "walking"
    BY <1>3, <1>6, <2>1, <2>2 DEF RootPrinted, PrintsRoot
  <2>4. sh = 0 /\ Lists(o, Listed(Root), Root)
    BY <1>1, <2>2, <2>3, PrintsWholeRoot
  <2>5. WalkPart(<<>>, 1, 0, o)
    BY <1>1, <2>4, ListingBegins
  <2> QED BY <2>3, <2>4, <2>5 DEF Arrives
<1> QED BY <1>2, <1>4, <1>5, <1>6

LEMMA ArrivesOverRoot ==
  ASSUME ToolInv, ShapeInv, ListInv, RootIsPrinted, PassRootEntry \/ EnterFromRoot \/ RootWalked
  PROVE  Arrives
<1>1. PICK c, sh, o : /\ calls = <<>> /\ c = place /\ sh = shown /\ o = out
                      /\ WalkPart(<<>>, c, sh, o)
  BY DEF PassRootEntry, EnterFromRoot, RootWalked, WalksRoot, ListInv
<1>2. VolumeInv /\ c \in Nat \ {0} /\ RootSlots \in Nat
  BY <1>1, VolumeAssumption, Product DEF ToolInv, RootSlots
<1>3. ASSUME RootHasMore
      PROVE  /\ c \in 1 .. RootSlots /\ c \in Slot /\ entry[c].kind # "end"
             /\ SkippedInRoot(entry[c]) => ~IsDir(c)
             /\ ~SkippedInRoot(entry[c]) /\ IsFile(entry[c]) => ~IsDir(c)
             /\ ~SkippedInRoot(entry[c]) /\ ~IsFile(entry[c]) => IsDir(c)
  <2>1. c \in 1 .. RootSlots /\ c \in Slot /\ entry[c].kind # "end"
    BY <1>1, <1>2, <1>3, SlotsApart DEF RootHasMore
  <2> QED BY <1>2, <2>1, EntryKinds
<1>4. CASE PassRootEntry
  <2>1. /\ c \in 1 .. RootSlots /\ entry[c].kind # "end" /\ ~IsDir(c)
        /\ list' = "walking" /\ calls' = <<>> /\ place' = c + 1 /\ shown' = sh /\ out' = o
    BY <1>1, <1>3, <1>4 DEF PassRootEntry, WalksRoot, Advance, IsDir, IsFile
  <2>2. WalkPart(<<>>, c + 1, sh, o)
    BY <1>1, <1>2, <2>1, ListsRootSlot
  <2> QED BY <2>1, <2>2 DEF Arrives
<1>5. CASE EnterFromRoot
  <2>1. PICK path, q, v : path = <<c>> /\ q = Append(o, Header(c, path)) /\ v = Visit(entry[c].loc)
    OBVIOUS
  <2>2. /\ RootHasMore /\ ~SkippedInRoot(entry[c]) /\ ~IsFile(entry[c])
        /\ list' = "walking" /\ calls' = <<v>> /\ place' = c + 1 /\ shown' = sh /\ out' = q
    BY <1>1, <1>5, <2>1 DEF EnterFromRoot, WalksRoot, Advance
  <2>3. c \in 1 .. RootSlots /\ c \in Slot /\ IsDir(c)
    BY <1>3, <2>2
  <2>4. v \in SoundCalls
    BY <1>2, <2>1, <2>3, DirLeads, FrameOfCall
  <2>5. WalkPart(<<v>>, c + 1, sh, q)
    BY <1>1, <1>2, <2>1, <2>3, <2>4, ListsRootDir
  <2> QED BY <2>2, <2>5 DEF Arrives
<1>6. CASE RootWalked
  <2>1. ~(c <= RootSlots /\ entry[c].kind # "end") /\ list' = "done" /\ out' = o
    BY <1>1, <1>6 DEF RootWalked, RootHasMore
  <2>2. Complete(o)
    BY <1>1, <1>2, <2>1, ListsAll
  <2> QED BY <2>1, <2>2 DEF Arrives
<1> QED BY <1>4, <1>5, <1>6
LEMMA ArrivesInSub ==
  ASSUME ToolInv, ShapeInv, DirsPacked, ListInv, RootIsPrinted,
         \/ PrintEntry \/ PrintNextCluster \/ StartWalk
         \/ PassEntry \/ EnterSub \/ NextCluster \/ Return
  PROVE  Arrives
<1>1. PICK f, c, sh, o : /\ f = calls /\ f # <<>> /\ c = place /\ sh = shown /\ o = out
                         /\ WalkPart(f, c, sh, o)
  BY DEF ListInv, PrintEntry, PrintNextCluster, StartWalk, PassEntry, EnterSub, NextCluster, Return,
         PrintsCluster, WalksEntry, InPass
<1>2. VolumeInv /\ f \in Seq(SoundCalls) /\ calls' \in Seq(SoundCalls)
  <2>1. ListStep
    BY DEF ListStep
  <2> QED BY <1>1, <2>1, CallsKept DEF ToolInv
<1>3. PICK m \in Nat \ {0} : m = Len(f) /\ m \in 1 .. Len(f)
  BY <1>1, <1>2, Stack
<1>4. PICK v : v = f[m] /\ v = Now
  BY <1>1, <1>3 DEF Now
<1>5. /\ v \in SoundCalls /\ v \in Visited /\ v.i \in Nat
      /\ v.pass = "print" => v.i = 0
      /\ InChain(v.next) => v.next \in Cluster
  <2>1. v \in SoundCalls
    BY <1>2, <1>3, <1>4, ElementOfSeq
  <2> QED BY <2>1, VolumeAssumption DEF SoundCalls, Visited, DirCluster
<1>6. ASSUME NEW x, NEW g, g = [f EXCEPT ![m] = x], g \in Seq(SoundCalls)
      PROVE  Moves(f, g, m) /\ g[m] = x
  <2>1. Len(g) = m /\ g[m] = x /\ \A n \in 1 .. m - 1 : g[n] = f[n]
    BY <1>2, <1>3, <1>6
  <2> QED BY <1>2, <1>3, <1>6, <2>1 DEF Moves, SameCallers
<1>7. ASSUME list' = "walking", NEW g, NEW k, NEW q, g = calls', place' = c, k = shown', q = out',
             WalkPart(g, c, k, q)
      PROVE  Arrives
  BY <1>7 DEF Arrives
<1>8. CASE PrintEntry
  <2>1. PrintsCluster /\ v.pass = "print" /\ InChain(v.next) /\ list = "walking"
    BY <1>4, <1>8 DEF PrintEntry, PrintsCluster, InPass
  <2>2. sh < EntriesPerSector /\ entry[NowSlot + sh].kind # "end"
    BY <1>1, <1>8 DEF PrintEntry, ShowEntry, SectorShown
  <2>3. PICK s, q : s = SlotAt(v.next, sh) /\ q = IF SkippedInSub(entry[s]) THEN o ELSE Append(o, Line(s))
    OBVIOUS
  <2>4. NowSlot + sh = s
    BY <1>1, <1>4, <2>1, <2>2, <2>3, PrintsSlots
  <2>5. /\ list' = "walking" /\ calls' = f /\ place' = c /\ shown' = sh + 1 /\ out' = q
        /\ entry[s].kind # "end"
    BY <1>1, <1>8, <2>1, <2>2, <2>3, <2>4 DEF PrintEntry, ShowEntry
  <2>6. PICK n : n = v.next
    OBVIOUS
  <2>7. n = f[Len(f)].next /\ Printing(f) /\ InChain(n) /\ s = SlotAt(n, sh)
    BY <1>3, <1>4, <2>1, <2>3, <2>6 DEF Printing
  <2>8. Shows(q, o, s)
    BY <2>3 DEF Shows
  <2>9. WalkPart(f, c, sh + 1, q)
    BY <1>1, <1>2, <2>2, <2>5, <2>7, <2>8, ListsEntry
  <2> QED BY <1>7, <2>5, <2>9
<1>9. CASE PrintNextCluster
  <2>1. PrintsCluster /\ v.pass = "print" /\ InChain(v.next) /\ list = "walking"
    BY <1>4, <1>9 DEF PrintNextCluster, PrintsCluster, InPass
  <2>2. sh < EntriesPerSector => entry[SlotAt(v.next, sh)].kind = "end"
    <3>1. sh < EntriesPerSector => NowSlot + sh = SlotAt(v.next, sh)
      BY <1>1, <1>4, <2>1, PrintsSlots
    <3> QED BY <1>1, <1>9, <3>1 DEF PrintNextCluster, SectorShown
  <2>3. PICK n : n = link[v.next] /\ n = Follow(v.next)
    BY <1>2, <1>5, <2>1, Follows DEF Follow
  <2>4. PICK x : x = [v EXCEPT !.next = n]
    OBVIOUS
  <2>5. x.pass = "print" /\ x.flc = v.flc /\ x.i = v.i /\ x.next = n
    BY <1>5, <2>1, <2>4 DEF Visited
  <2>6. PICK g : g = [f EXCEPT ![m] = x]
    OBVIOUS
  <2>7. list' = "walking" /\ calls' = g /\ place' = c /\ shown' = 0 /\ out' = o
    <3> HIDE DEF Follow
    <3> QED BY <1>1, <1>3, <1>4, <1>9, <2>1, <2>3, <2>4, <2>6 DEF PrintNextCluster
  <2>8. Moves(f, g, m) /\ g[m] = x
    BY <1>2, <1>6, <2>6, <2>7
  <2>9. WalkPart(g, c, 0, o)
    <3>1. PICK y : y = v.next /\ y = f[m].next /\ InChain(y)
      BY <1>4, <2>1
    <3>2. /\ f[m].pass = "print" /\ g[m].pass = "print" /\ g[m].flc = f[m].flc /\ g[m].i = f[m].i
          /\ g[m].next = link[y] /\ (sh < EntriesPerSector => entry[SlotAt(y, sh)].kind = "end")
      BY <1>4, <2>1, <2>2, <2>3, <2>5, <2>8, <3>1
    <3> QED BY <1>1, <1>2, <2>8, <3>1, <3>2, ListsCluster
  <2> QED BY <1>7, <2>7, <2>9
<1>10. CASE StartWalk
  <2>1. v.pass = "print" /\ ~InChain(v.next) /\ list = "walking"
    BY <1>4, <1>10 DEF StartWalk, InPass
  <2>2. PICK x : x = [v EXCEPT !.pass = "walk", !.next = v.flc]
    OBVIOUS
  <2>3. x.pass = "walk" /\ x.next = v.flc /\ x.i = v.i
    BY <1>5, <2>2 DEF Visited
  <2>4. PICK g : g = [f EXCEPT ![m] = x]
    OBVIOUS
  <2>5. list' = "walking" /\ calls' = g /\ place' = c /\ shown' = sh /\ out' = o
    BY <1>1, <1>3, <1>4, <1>10, <2>1, <2>2, <2>4 DEF StartWalk, Rewind
  <2>6. Moves(f, g, m) /\ g[m] = x
    BY <1>2, <1>6, <2>4, <2>5
  <2>7. WalkPart(g, c, sh, o)
    BY <1>1, <1>2, <1>4, <2>1, <2>3, <2>6, ListsRewind
  <2> QED BY <1>7, <2>5, <2>7
<1>11. PICK s : s = SlotAt(v.next, v.i) /\ s = NowSlot
  BY <1>4 DEF NowSlot
<1>12. ASSUME WalksEntry
       PROVE  /\ v.pass = "walk" /\ InChain(v.next) /\ v.i < EntriesPerSector /\ list = "walking"
              /\ s \in Slot
              /\ SkippedInSub(entry[s]) => ~IsDir(s)
              /\ ~SkippedInSub(entry[s]) /\ ~IsFile(entry[s]) => IsDir(s)
              /\ \A x : x = [v EXCEPT !.i = v.i + 1] =>
                   /\ x \in SoundCalls /\ x.pass = "walk" /\ x.next = v.next /\ x.i = v.i + 1
  <2>1. v.pass = "walk" /\ InChain(v.next) /\ v.i < EntriesPerSector /\ list = "walking" /\ s \in Slot
    BY <1>4, <1>11, <1>12 DEF WalksEntry, InPass
  <2>2. v.i + 1 \in 0 .. EntriesPerSector
    BY <1>5, <2>1, VolumeAssumption
  <2>3. ASSUME NEW x, x = [v EXCEPT !.i = v.i + 1]
        PROVE  x \in SoundCalls /\ x.pass = "walk" /\ x.next = v.next /\ x.i = v.i + 1
    BY <1>5, <2>1, <2>2, <2>3 DEF SoundCalls, Visited
  <2> QED BY <1>2, <2>1, <2>3, EntryKinds
<1>13. CASE PassEntry
  <2>1. WalksEntry /\ ~IsDir(s)
    BY <1>11, <1>12, <1>13 DEF PassEntry, IsFile, IsDir
  <2>2. PICK x : x = [v EXCEPT !.i = v.i + 1]
    OBVIOUS
  <2>3. PICK g : g = [f EXCEPT ![m] = x]
    OBVIOUS
  <2>4. list' = "walking" /\ calls' = g /\ place' = c /\ shown' = sh /\ out' = o
    BY <1>1, <1>3, <1>4, <1>12, <1>13, <2>1, <2>2, <2>3 DEF PassEntry
  <2>5. Moves(f, g, m) /\ g[m] = x
    BY <1>2, <1>6, <2>3, <2>4
  <2>6. /\ f[m].pass = "walk" /\ g[m].pass = "walk" /\ InChain(f[m].next) /\ f[m].i < EntriesPerSector
        /\ s = SlotAt(f[m].next, f[m].i) /\ g[m].next = f[m].next /\ g[m].i = f[m].i + 1
    BY <1>4, <1>11, <1>12, <2>1, <2>2, <2>5
  <2>7. WalkPart(g, c, sh, o)
    BY <1>1, <1>2, <2>1, <2>5, <2>6, ListsPast
  <2> QED BY <1>7, <2>4, <2>7
<1>14. CASE EnterSub
  <2>1. WalksEntry /\ IsDir(s)
    BY <1>11, <1>12, <1>14 DEF EnterSub
  <2>2. PICK x : x = [v EXCEPT !.i = v.i + 1]
    OBVIOUS
  <2>3. PICK e, w, path : /\ e = [f EXCEPT ![m] = x] /\ w = Visit(entry[s].loc)
                          /\ path = Append(dir_path, s)
    OBVIOUS
  <2>4. PICK g, q : g = Append(e, w) /\ q = Append(o, Header(s, path))
    OBVIOUS
  <2>5. list' = "walking" /\ calls' = g /\ place' = c /\ shown' = sh /\ out' = q
    BY <1>1, <1>3, <1>4, <1>11, <1>12, <1>14, <2>1, <2>2, <2>3, <2>4 DEF EnterSub
  <2>6. e \in Seq(SoundCalls)
    <3>1. x \in SoundCalls
      BY <1>12, <2>1, <2>2
    <3> QED BY <1>2, <1>3, <2>3, <3>1, ExceptSeq
  <2>7. Moves(f, e, m) /\ e[m] = x
    BY <1>6, <2>3, <2>6
  <2>8. /\ f[m].pass = "walk" /\ e[m].pass = "walk" /\ InChain(f[m].next) /\ f[m].i < EntriesPerSector
        /\ s = SlotAt(f[m].next, f[m].i) /\ e[m].next = f[m].next /\ e[m].i = f[m].i + 1
    BY <1>4, <1>11, <1>12, <2>1, <2>2, <2>7
  <2>9. w \in SoundCalls
    BY <1>2, <1>12, <2>1, <2>3, DirLeads, FrameOfCall
  <2>10. WalkPart(g, c, sh, q)
    BY <1>1, <1>2, <2>1, <2>3, <2>4, <2>7, <2>8, <2>9, ListsInto
  <2> QED BY <1>7, <2>5, <2>10
<1>15. CASE NextCluster
  <2>1. v.pass = "walk" /\ InChain(v.next) /\ v.i = EntriesPerSector /\ list = "walking"
    BY <1>4, <1>15 DEF NextCluster, InPass
  <2>2. PICK n : n = link[v.next] /\ n = Follow(v.next)
    BY <1>2, <1>5, <2>1, Follows DEF Follow
  <2>3. PICK x : x = [v EXCEPT !.i = 0, !.next = n]
    OBVIOUS
  <2>4. x.pass = "walk" /\ x.i = 0 /\ x.next = n
    BY <1>5, <2>1, <2>3 DEF Visited
  <2>5. PICK g : g = [f EXCEPT ![m] = x]
    OBVIOUS
  <2>6. list' = "walking" /\ calls' = g /\ place' = c /\ shown' = sh /\ out' = o
    <3>1. calls' = [f EXCEPT ![m].i = 0, ![m].next = Follow(@)]
      BY <1>1, <1>3, <1>15 DEF NextCluster
    <3> HIDE DEF Follow
    <3>2. calls' = g
      BY <1>3, <1>4, <1>5, <2>2, <2>3, <2>5, <3>1 DEF Visited
    <3> QED BY <1>1, <1>15, <2>1, <3>2 DEF NextCluster
  <2>7. Moves(f, g, m) /\ g[m] = x
    BY <1>2, <1>6, <2>5, <2>6
  <2>8. WalkPart(g, c, sh, o)
    BY <1>1, <1>2, <1>4, <2>1, <2>2, <2>4, <2>7, ListsNext
  <2> QED BY <1>7, <2>6, <2>8
<1>16. CASE Return
  <2>1. v.pass = "walk" /\ ~InChain(v.next) /\ list = "walking"
    BY <1>4, <1>16 DEF Return, InPass
  <2>2. PICK g : g = SubSeq(f, 1, m - 1)
    OBVIOUS
  <2>3. list' = "walking" /\ calls' = g /\ place' = c /\ shown' = sh /\ out' = o
    BY <1>1, <1>3, <1>16, <2>1, <2>2 DEF Return
  <2>4. WalkPart(g, c, sh, o)
    BY <1>1, <1>2, <1>3, <1>4, <2>1, <2>2, ListsBack
  <2> QED BY <1>7, <2>3, <2>4
<1> QED BY <1>8, <1>9, <1>10, <1>13, <1>14, <1>15, <1>16
-----------------------------------------------------------------------------
(* The listing is whole *)

LEMMA ListedKept ==
  ASSUME UNCHANGED volume
  PROVE  /\ Dirs' = Dirs /\ (RootIsPrinted' <=> RootIsPrinted)
         /\ \A s : IsListed(s)' <=> IsListed(s)
         /\ \A d : Listed(d)' = Listed(d)
         /\ \A S : AllOf(S)' = AllOf(S)
         /\ \A V : Sections(V)' = Sections(V)
<1>1. /\ Dirs' = Dirs /\ (RootIsPrinted' <=> RootIsPrinted)
      /\ \A s : IsListed(s)' <=> IsListed(s)
      /\ \A d : Contents(d)' = Contents(d)
  BY DEF volume, Dirs, RootIsPrinted, IsListed, Contents
<1>2. \A d : Listed(d)' = Listed(d)
  BY <1>1 DEF Listed
<1> QED BY <1>1, <1>2 DEF AllOf, Sections

LEMMA ListsKept ==
  ASSUME UNCHANGED volume, NEW o, NEW P, NEW h, Lists(o, P, h)
  PROVE  Lists(o, P, h)'
BY ListedKept DEF Lists, HeadedBy

LEMMA PrintsKept ==
  ASSUME UNCHANGED volume, NEW n, NEW i, NEW V, NEW P, NEW h, Prints(n, i, V, P, h)
  PROVE  Prints(n, i, V, P, h)'
<1>1. PICK R : /\ InDir(n, i, h, R)
               /\ P = AllOf(Sections(V) \ {h}) \union (Listed(h) \cap Passed(n, i, R))
  BY DEF Prints
<1>2. InDir(n, i, h, R)'
  BY <1>1 DEF volume, InDir, IsDir, ClustersOf
<1>3. Passed(n, i, R)' = Passed(n, i, R)
  BY DEF Passed
<1>4. (P = AllOf(Sections(V) \ {h}) \union (Listed(h) \cap Passed(n, i, R)))'
  <2>1. PICK S : S = Sections(V) \ {h}
    OBVIOUS
  <2>2. S = (Sections(V) \ {h})' /\ AllOf(S)' = AllOf(S) /\ Listed(h)' = Listed(h)
    BY <2>1, ListedKept
  <2> QED BY <1>1, <1>3, <2>1, <2>2
<1> QED BY <1>2, <1>4 DEF Prints

LEMMA WalkPartKept ==
  ASSUME UNCHANGED volume, NEW f, NEW c, NEW sh, NEW o, WalkPart(f, c, sh, o)
  PROVE  WalkPart(f, c, sh, o)'
<1>1. PICK V, P, h : /\ Roam(Places(f), c, V) /\ Lists(o, P, h)
                     /\ IF Printing(f) THEN Prints(f[Len(f)].next, sh, V, P, h)
                                       ELSE sh = 0 /\ P = AllOf(Sections(V))
  BY DEF WalkPart
<1>2. Roam(Places(f), c, V)' /\ Lists(o, P, h)'
  <2>1. PICK g : g = Places(f)
    OBVIOUS
  <2>2. Roam(g, c, V)'
    BY <1>1, <2>1, RoamKept
  <2> QED BY <1>1, <2>1, <2>2, ListsKept
<1>3. Printing(f) => Prints(f[Len(f)].next, sh, V, P, h)'
  <2>1. PICK n : n = f[Len(f)].next
    OBVIOUS
  <2>2. Printing(f) => Prints(n, sh, V, P, h)'
    BY <1>1, <2>1, PrintsKept
  <2> QED BY <2>1, <2>2
<1>4. AllOf(Sections(V))' = AllOf(Sections(V))
  <2>1. PICK S : S = Sections(V)
    OBVIOUS
  <2>2. Sections(V)' = S /\ AllOf(S)' = AllOf(S)
    BY <2>1, ListedKept
  <2> QED BY <2>1, <2>2
<1>5. (IF Printing(f) THEN Prints(f[Len(f)].next, sh, V, P, h)
                      ELSE sh = 0 /\ P = AllOf(Sections(V)))'
  BY <1>1, <1>3, <1>4 DEF Printing
<1> QED BY <1>2, <1>5 DEF WalkPart

LEMMA RootPartKept ==
  ASSUME UNCHANGED volume, NEW p, NEW sh, NEW o, RootPart(p, sh, o)
  PROVE  RootPart(p, sh, o)'
<1>1. PICK P : Lists(o, P, Root) /\ P = {s \in 1 .. p - 1 + sh : IsListed(s)}
  BY DEF RootPart
<1>2. Lists(o, P, Root)' /\ (P = {s \in 1 .. p - 1 + sh : IsListed(s)})'
  BY <1>1, ListsKept, ListedKept
<1> QED BY <1>2 DEF RootPart, volume

LEMMA CompleteKept ==
  ASSUME UNCHANGED volume, NEW o, Complete(o)
  PROVE  Complete(o)'
BY ListsKept, ListedKept DEF Complete

LEMMA ListingKept ==
  ASSUME ToolInv, ShapeInv, DirsPacked, ListInv, ListStep, UNCHANGED volume
  PROVE  ListInv'
<1>1. list' # "off"
  BY DEF ListInv, ListStep, StartList, PrintRootEntry, NextRootSector, RootPrinted, PassRootEntry,
         EnterFromRoot, RootWalked, WalksRoot, InPass, PrintsCluster, PrintEntry, PrintNextCluster,
         StartWalk, WalksEntry, PassEntry, EnterSub, NextCluster, Return
<1>2. CASE RootIsPrinted
  <2>1. Arrives
    <3>1. CASE StartList \/ PrintRootEntry \/ NextRootSector \/ RootPrinted
      BY <1>2, <3>1, ArrivesInRoot
    <3>2. CASE PassRootEntry \/ EnterFromRoot \/ RootWalked
      BY <1>2, <3>2, ArrivesOverRoot
    <3>3. CASE \/ PrintEntry \/ PrintNextCluster \/ StartWalk
               \/ PassEntry \/ EnterSub \/ NextCluster \/ Return
      BY <1>2, <3>3, ArrivesInSub
    <3> QED BY <3>1, <3>2, <3>3 DEF ListStep
  <2>2. CASE /\ list' = "root" /\ place' = 1
             /\ \E p, sh, o : p = print_root' /\ sh = shown' /\ o = out' /\ RootPart(p, sh, o)
    <3>1. PICK p, sh, o : p = print_root' /\ sh = shown' /\ o = out' /\ RootPart(p, sh, o)
      BY <2>2
    <3>2. RootPart(p, sh, o)'
      BY <3>1, RootPartKept
    <3> QED BY <2>2, <3>1, <3>2 DEF ListInv
  <2>3. CASE /\ list' = "walking"
             /\ \E f, c, sh, o : /\ f = calls' /\ c = place' /\ sh = shown' /\ o = out'
                                 /\ WalkPart(f, c, sh, o)
    <3>1. PICK f, c, sh, o : /\ f = calls' /\ c = place' /\ sh = shown' /\ o = out'
                             /\ WalkPart(f, c, sh, o)
      BY <2>3
    <3>2. WalkPart(f, c, sh, o)'
      BY <3>1, WalkPartKept
    <3> QED BY <2>3, <3>1, <3>2 DEF ListInv
  <2>4. CASE list' = "done" /\ \E o : o = out' /\ Complete(o)
    <3>1. PICK o : o = out' /\ Complete(o)
      BY <2>4
    <3>2. Complete(o)'
      BY <3>1, CompleteKept
    <3> QED BY <2>4, <3>1, <3>2 DEF ListInv
  <2> QED BY <2>1, <2>2, <2>3, <2>4 DEF Arrives
<1>3. CASE ~RootIsPrinted
  BY <1>1, <1>3, ListedKept DEF ListInv
<1> QED BY <1>2, <1>3

LEMMA ListingStays ==
  ASSUME ListInv, UNCHANGED <<volume, listVars>>
  PROVE  ListInv'
<1>1. /\ UNCHANGED volume /\ list' = list /\ print_root' = print_root /\ shown' = shown
      /\ place' = place /\ calls' = calls /\ out' = out
  BY DEF listVars
<1>2. RootIsPrinted' <=> RootIsPrinted
  BY <1>1, ListedKept
<1>3. CASE RootIsPrinted /\ list = "root"
  <2>1. PICK p, sh, o : p = print_root /\ sh = shown /\ o = out /\ RootPart(p, sh, o)
    BY <1>3 DEF ListInv
  <2>2. RootPart(p, sh, o)'
    BY <1>1, <2>1, RootPartKept
  <2> QED BY <1>1, <1>3, <2>1, <2>2 DEF ListInv
<1>4. CASE RootIsPrinted /\ list = "walking"
  <2>1. PICK f, c, sh, o : f = calls /\ c = place /\ sh = shown /\ o = out /\ WalkPart(f, c, sh, o)
    BY <1>4 DEF ListInv
  <2>2. WalkPart(f, c, sh, o)'
    BY <1>1, <2>1, WalkPartKept
  <2> QED BY <1>1, <1>4, <2>1, <2>2 DEF ListInv
<1>5. CASE RootIsPrinted /\ list = "done"
  <2>1. PICK o : o = out /\ Complete(o)
    BY <1>5 DEF ListInv
  <2>2. Complete(o)'
    BY <1>1, <2>1, CompleteKept
  <2> QED BY <1>1, <1>5, <2>1, <2>2 DEF ListInv
<1>6. CASE ~RootIsPrinted \/ list \notin {"root", "walking", "done"}
  BY <1>1, <1>2, <1>6 DEF ListInv
<1> QED BY <1>3, <1>4, <1>5, <1>6

\* The sections printed are those of the walk over the tree, and so is what is in
\* them, at every step of disklist.
THEOREM ListingIsRight == Spec => []ListInv
<1>1. Init => ListInv
  BY DEF Init, ListInit, ListInv
<1>2. ToolInv /\ ShapeInv /\ DirsPacked /\ ListInv /\ [Next]_vars => ListInv'
  <2> SUFFICES ASSUME ToolInv, ShapeInv, DirsPacked, ListInv, [Next]_vars PROVE ListInv'
    OBVIOUS
  <2>1. CASE Use
    <3>1. list = "off" /\ UNCHANGED listVars
      BY <2>1 DEF Use, ToolInv, InTurn
    <3> QED BY <3>1 DEF listVars, ListInv
  <2>2. CASE RunList
    BY <2>2, ListingKept DEF RunList
  <2>3. CASE UNCHANGED <<volume, listVars>>
    BY <2>3, ListingStays
  <2> QED BY <2>1, <2>2, <2>3 DEF Next, RunInfo, RunInfo2, vars
<1> QED BY <1>1, <1>2, ToolsSound, TreeIsWhole, NoneBehindEnd, PTL DEF Spec

\* A line is under the header it is headed by.
LEMMA HeaderFound ==
  ASSUME NEW i \in Nat, NEW j, HeadedBy(out, i, j)
  PROVE  HeaderOf(i) = out[j].slot
<1>1. PICK H : H = {k \in 1 .. i : out[k].what = "header"}
  OBVIOUS
<1>2. j \in H /\ \A k \in H : k \in Nat /\ k <= j
  BY <1>1 DEF HeadedBy
<1>3. \A k \in H : (\A l \in H : l <= k) => k = j
  BY <1>2
<1>4. (CHOOSE k \in H : \A l \in H : l <= k) = j
  BY <1>2, <1>3
<1> QED BY <1>1, <1>4 DEF HeaderOf

\* The listing of disklist (a3/disklist.c) has every directory and file with
\* contents, has nothing twice, and has everything in its section, on disks of every
\* size, however they were used, and whatever the depth of the directories and the
\* length of their chains.
THEOREM EachEntryIsListedOnce == Spec => []ListsEachEntryOnce
<1>1. ListInv => ListsEachEntryOnce
  <2> SUFFICES ASSUME ListInv, RootIsPrinted, list = "done"
               PROVE  /\ \A i \in Lines : /\ HeaderOf(i) \in Dirs
                                          /\ out[i].slot \in Holds(HeaderOf(i), {"file", "dir"})
                      /\ \A i, j \in Lines : out[i].slot = out[j].slot => i = j
                      /\ \A d \in Dirs : \A s \in Stored(Holds(d, {"file", "dir"})) :
                           \E i \in Lines : out[i].slot = s
    BY DEF ListsEachEntryOnce
  <2>1. \A d : Stored(Holds(d, {"file", "dir"})) = Listed(d)
    BY DEF Stored, Holds, Listed, IsListed
  <2>2. PICK P, h : Lists(out, P, h) /\ \A d \in Dirs : Listed(d) \subseteq P
    BY DEF ListInv, Complete
  <2>3. Len(out) \in Nat
    BY <2>2, LenProperties DEF Lists
  <2>4. ASSUME NEW i \in Lines
        PROVE  HeaderOf(i) \in Dirs /\ out[i].slot \in Holds(HeaderOf(i), {"file", "dir"})
    <3>1. PICK j : HeadedBy(out, i, j) /\ out[j].slot \in Dirs /\ out[i].slot \in Listed(out[j].slot)
      BY <2>2 DEF Lists, Lines
    <3>2. HeaderOf(i) = out[j].slot
      BY <2>3, <3>1, HeaderFound DEF Lines
    <3> QED BY <2>1, <3>1, <3>2 DEF Stored
  <2>5. \A i, j \in Lines : out[i].slot = out[j].slot => i = j
    BY <2>2 DEF Lists, Lines
  <2>6. ASSUME NEW d \in Dirs, NEW s \in Stored(Holds(d, {"file", "dir"}))
        PROVE  \E i \in Lines : out[i].slot = s
    <3>1. s \in P
      BY <2>1, <2>2
    <3> QED BY <2>2, <3>1 DEF Lists, Lines
  <2> QED BY <2>4, <2>5, <2>6
<1> QED BY <1>1, ListingIsRight, PTL

=============================================================================
