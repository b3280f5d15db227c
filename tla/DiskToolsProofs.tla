-------------------------- MODULE DiskToolsProofs --------------------------
(***************************************************************************)
(* The table as get_FAT_entry decodes it, the free space and the label both *)
(* variants of diskinfo print, the types of all variables, and that both   *)
(* walks take only directories for directories, for disks of every size.   *)
(* The argument is an invariant of the images: the chain of a file or      *)
(* directory stays with its owner, owners are entries of directories, and  *)
(* the entries in use of the root are in front of the others.              *)
(***************************************************************************)
EXTENDS DiskTools, FiniteSetTheorems, SequenceTheorems, WellFoundedInduction, TLAPS

-----------------------------------------------------------------------------
(* The table: what get_FAT_entry reads is what was written *)

\* The three bytes of a pair of entries.
LEMMA PairBytes ==
  ASSUME NEW n \in Nat, NEW table \in [0 .. n -> Entry12], NEW j \in Nat, 2 * j <= n,
         NEW odd \in Entry12, odd = IF 2 * j + 1 <= n THEN table[2 * j + 1] ELSE FreeMark
  PROVE  /\ Pack(table, n)[3 * j] = table[2 * j] % 256
         /\ Pack(table, n)[3 * j + 1] = (table[2 * j] \div 256) + 16 * (odd % 16)
         /\ 2 * j + 1 <= n => Pack(table, n)[3 * j + 2] = odd \div 16
<1> DEFINE B == 0 .. (3 * n) \div 2 + 1
<1>1. /\ 3 * j \in B /\ 3 * j + 1 \in B
      /\ 2 * j + 1 <= n => 3 * j + 2 \in B
  OBVIOUS
<1>2. /\ (3 * j) % 3 = 0 /\ (3 * j) \div 3 = j
      /\ (3 * j + 1) % 3 = 1 /\ (3 * j + 1) \div 3 = j
      /\ (3 * j + 2) % 3 = 2 /\ (3 * j + 2) \div 3 = j
  OBVIOUS
<1>3. Pack(table, n)[3 * j] = table[2 * j] % 256
  BY <1>1, <1>2 DEF Pack
<1>4. Pack(table, n)[3 * j + 1] = (table[2 * j] \div 256) + 16 * (odd % 16)
  BY <1>1, <1>2 DEF Pack, FreeMark
<1>5. ASSUME 2 * j + 1 <= n PROVE Pack(table, n)[3 * j + 2] = odd \div 16
  BY <1>1, <1>2, <1>5 DEF Pack
<1> QED BY <1>3, <1>4, <1>5

\* The tools read every entry of the table, whatever its neighbour holds: the
\* nibbles of the byte two entries share are never mixed up.
THEOREM ReadsEntry ==
  ASSUME NEW n \in Nat, NEW table \in [0 .. n -> Entry12], NEW i \in 0 .. n
  PROVE  get_FAT_entry(Pack(table, n), i) = table[i]
<1>1. ASSUME NEW j \in Nat, i = 2 * j
      PROVE  get_FAT_entry(Pack(table, n), i) = table[i]
  <2> DEFINE odd == IF 2 * j + 1 <= n THEN table[2 * j + 1] ELSE FreeMark
             e == table[2 * j]
  <2>1. e \in Entry12 /\ odd \in Entry12
    <3>1. 2 * j <= n /\ 2 * j \in 0 .. n
      BY <1>1
    <3>2. ASSUME 2 * j + 1 <= n PROVE table[2 * j + 1] \in Entry12
      <4>1. 2 * j + 1 \in 0 .. n
        BY <3>2
      <4> QED BY <4>1
    <3>3. FreeMark \in Entry12
      BY DEF FreeMark, Entry12
    <3> QED BY <3>1, <3>2, <3>3
  <2>2. /\ Pack(table, n)[3 * j] = e % 256
        /\ Pack(table, n)[3 * j + 1] = (e \div 256) + 16 * (odd % 16)
    BY <1>1, <2>1, PairBytes
  <2>3. i % 2 = 0 /\ (3 * i) \div 2 = 3 * j
    BY <1>1
  <2> HIDE DEF e, odd
  <2>4. get_FAT_entry(Pack(table, n), i)
          = 256 * (((e \div 256) + 16 * (odd % 16)) % 16) + (e % 256)
    BY <2>2, <2>3 DEF get_FAT_entry
  <2>5. ((e \div 256) + 16 * (odd % 16)) % 16 = e \div 256
    BY <2>1 DEF Entry12
  <2>6. 256 * (e \div 256) + (e % 256) = e
    BY <2>1 DEF Entry12
  <2> QED BY <1>1, <2>4, <2>5, <2>6 DEF e
<1>2. ASSUME NEW j \in Nat, i = 2 * j + 1
      PROVE  get_FAT_entry(Pack(table, n), i) = table[i]
  <2> DEFINE e == table[2 * j]
             odd == table[2 * j + 1]
  <2>1. e \in Entry12 /\ odd \in Entry12 /\ 2 * j <= n /\ 2 * j + 1 <= n
    <3>1. 2 * j \in 0 .. n /\ 2 * j + 1 \in 0 .. n
      BY <1>2
    <3> QED BY <3>1
  <2>2. /\ Pack(table, n)[3 * j + 1] = (e \div 256) + 16 * (odd % 16)
        /\ Pack(table, n)[3 * j + 2] = odd \div 16
    BY <2>1, PairBytes
  <2>3. i % 2 = 1 /\ (3 * i) \div 2 = 3 * j + 1
    BY <1>2
  <2> HIDE DEF e, odd
  <2>4. get_FAT_entry(Pack(table, n), i)
          = (((e \div 256) + 16 * (odd % 16)) \div 16) + 16 * (odd \div 16)
    BY <2>2, <2>3 DEF get_FAT_entry
  <2>5. ((e \div 256) + 16 * (odd % 16)) \div 16 = odd % 16
    BY <2>1 DEF Entry12
  <2>6. (odd % 16) + 16 * (odd \div 16) = odd
    BY <2>1 DEF Entry12
  <2> QED BY <1>2, <2>4, <2>5, <2>6 DEF odd
<1>3. i \in Nat /\ (i = 2 * (i \div 2) \/ i = 2 * (i \div 2) + 1) /\ i \div 2 \in Nat
  OBVIOUS
<1> QED BY <1>1, <1>2, <1>3

-----------------------------------------------------------------------------
(* Where the slots of a cluster are *)

LEMMA Product ==
  ASSUME NEW a \in Nat, NEW b \in Nat, NEW e \in Nat
  PROVE  a * e \in Nat /\ (a + b) * e = a * e + b * e /\ a * e <= (a + b) * e
OBVIOUS

\* The root ends before the slots of the clusters, which do not overlap.
LEMMA SlotsApart ==
  /\ 1 .. RootSlots \subseteq Slot
  /\ \A c \in Cluster : SlotsOf(c) \subseteq Slot \ (1 .. RootSlots)
  /\ \A c \in Cluster : SlotAt(c, 0) \in SlotsOf(c)
  /\ \A c, x \in Cluster : c # x => SlotsOf(c) \cap SlotsOf(x) = {}
<1>1. PICK R \in Nat, E \in Nat, L \in Nat :
        R = RootSectors /\ E = EntriesPerSector /\ L = LastCluster /\ E > 0 /\ L >= 2
  BY VolumeAssumption
<1>2. PICK root \in Nat : root = RootSlots
  BY <1>1, Product DEF RootSlots
<1>3. ASSUME NEW k \in Nat
      PROVE  /\ k * E \in Nat
             /\ \A i \in 0 .. E - 1 : SlotAt(k + 2, i) = root + k * E + i + 1
  <2>1. k * E \in Nat /\ (R + k) * E = R * E + k * E
    BY Product
  <2>2. ASSUME NEW i \in 0 .. E - 1 PROVE SlotAt(k + 2, i) = root + k * E + i + 1
    <3>1. R + (k + 2) - 2 = R + k
      OBVIOUS
    <3>2. SlotAt(k + 2, i) = (R + k) * E + i + 1
      BY <1>1, <3>1 DEF SlotAt
    <3> QED BY <1>1, <1>2, <2>1, <3>2 DEF RootSlots
  <2> QED BY <2>1, <2>2
<1>4. \A k, l \in Nat : k < l => k * E + E <= l * E
  <2> SUFFICES ASSUME NEW k \in Nat, NEW l \in Nat, k < l PROVE k * E + E <= l * E
    OBVIOUS
  <2>1. PICK m \in Nat : l = k + 1 + m
    BY l - k - 1 \in Nat, l = k + 1 + (l - k - 1)
  <2>2. (k + 1) * E <= (k + 1 + m) * E /\ (k + 1) * E = k * E + 1 * E
    BY Product
  <2> QED BY <2>1, <2>2
<1>5. ASSUME NEW c \in Cluster
      PROVE  /\ c - 2 \in 0 .. L - 2 /\ c = (c - 2) + 2
             /\ SlotsOf(c) = {root + (c - 2) * E + i + 1 : i \in 0 .. E - 1}
  <2>1. PICK k \in 0 .. L - 2 : c = k + 2
    BY <1>1, c - 2 \in 0 .. L - 2, c = (c - 2) + 2 DEF Cluster
  <2>2. \A i \in 0 .. E - 1 : SlotAt(c, i) = root + k * E + i + 1
    BY <1>3, <2>1
  <2>3. SlotsOf(c) = {root + k * E + i + 1 : i \in 0 .. E - 1}
    BY <1>1, <2>2 DEF SlotsOf
  <2>4. k = c - 2
    BY <2>1
  <2>5. c - 2 \in 0 .. L - 2 /\ c = (c - 2) + 2
    BY <2>1
  <2> QED BY <2>3, <2>4, <2>5, Zenon
<1>6. Slot = 1 .. root + (L - 1) * E
  BY <1>1, <1>2 DEF Slot
<1>7. 1 .. RootSlots \subseteq Slot
  BY <1>1, <1>2, <1>3, <1>6, L - 1 \in Nat
<1>8. ASSUME NEW c \in Cluster PROVE SlotsOf(c) \subseteq Slot \ (1 .. RootSlots)
  <2>1. PICK k \in Nat : k = c - 2 /\ k < L - 1
    BY <1>1, <1>5
  <2>2. k * E \in Nat /\ k * E + E <= (L - 1) * E /\ (L - 1) * E \in Nat
    BY <1>1, <1>3, <1>4, <2>1, L - 1 \in Nat
  <2>3. SlotsOf(c) = {root + k * E + i + 1 : i \in 0 .. E - 1}
    BY <1>5, <2>1
  <2> QED BY <1>1, <1>2, <1>6, <2>2, <2>3
<1>9. ASSUME NEW c \in Cluster PROVE SlotAt(c, 0) \in SlotsOf(c)
  BY <1>1 DEF SlotsOf
<1>10. ASSUME NEW c \in Cluster, NEW x \in Cluster, c < x PROVE SlotsOf(c) \cap SlotsOf(x) = {}
  <2>1. PICK k \in Nat, l \in Nat : k = c - 2 /\ l = x - 2 /\ k < l
    BY <1>1, <1>5, <1>10 DEF Cluster
  <2>2. k * E \in Nat /\ l * E \in Nat /\ k * E + E <= l * E
    BY <1>3, <1>4, <2>1
  <2>3. /\ SlotsOf(c) = {root + k * E + i + 1 : i \in 0 .. E - 1}
        /\ SlotsOf(x) = {root + l * E + i + 1 : i \in 0 .. E - 1}
    BY <1>5, <2>1
  <2> QED BY <1>1, <1>2, <2>2, <2>3
<1>11. ASSUME NEW c \in Cluster, NEW x \in Cluster, c # x PROVE SlotsOf(c) \cap SlotsOf(x) = {}
  <2>1. c < x \/ x < c
    BY <1>11, VolumeAssumption DEF Cluster
  <2> QED BY <1>10, <2>1
<1> QED BY <1>7, <1>8, <1>9, <1>11

LEMMA SlotCount ==
  /\ \E n \in Nat : Slot = 1 .. n
  /\ \A S \in SUBSET Slot : IsFiniteSet(S) /\ Cardinality(S) \in Nat
<1>1. PICK r \in Nat, e \in Nat, l \in Nat :
        r = RootSlots /\ e = EntriesPerSector /\ l = LastCluster - 1
  BY VolumeAssumption, Product DEF RootSlots
<1>2. l * e \in Nat
  BY Product
<1>3. PICK n \in Nat : n = r + l * e
  BY <1>2
<1>4. Slot = 1 .. n
  BY <1>1, <1>3 DEF Slot
<1>5. \A S \in SUBSET (1 .. n) : IsFiniteSet(S) /\ Cardinality(S) \in Nat
  BY FS_Interval, FS_Subset, FS_CardinalityType, 1 \in Int, n \in Int
<1> QED BY <1>4, <1>5

-----------------------------------------------------------------------------
(* The images *)

Kind == {"end", "label", "dot", "file", "dir"} \union Deleted

\* A cluster of a directory.
DirCluster(c) == c \in Cluster /\ owner[c] # Unowned /\ entry[owner[c]].kind = "dir"

VolumeTypes ==
  /\ entry \in [Slot -> [kind : Kind, loc : Cluster \union {NoCluster}]]
  /\ link \in [0 .. LastCluster -> Entry12]
  /\ owner \in [Cluster -> Slot \union {Unowned}]

\* The table knows which clusters are free, and these are clear.
FreeIsClear ==
  \A c \in Cluster :
    /\ link[c] = FreeMark <=> owner[c] = Unowned
    /\ owner[c] = Unowned => \A t \in SlotsOf(c) : entry[t] = EndEntry

\* A cluster is followed by one of the same file or directory.
ChainsStay ==
  \A c \in Cluster : owner[c] # Unowned =>
    /\ entry[owner[c]].kind \in {"file", "dir"}
    /\ InChain(link[c]) => link[c] \in Cluster /\ owner[link[c]] = owner[c]

\* Nothing is owned by what looks like an entry but is the data of a file.
OwnersInDirs == \A c, x \in Cluster : owner[c] \in SlotsOf(x) => DirCluster(x)

EntryLeads(s) ==
  /\ entry[s].kind = "dir" => entry[s].loc \in Cluster /\ owner[entry[s].loc] = s
  /\ entry[s].kind = "dot" => DirCluster(entry[s].loc) /\ s \in SlotsOf(entry[s].loc)
  /\ entry[s].kind = "end" => entry[s].loc = NoCluster

EntriesLead == \A s \in Slot : EntryLeads(s)

VolumeInv == VolumeTypes /\ FreeIsClear /\ ChainsStay /\ OwnersInDirs /\ EntriesLead

LEMMA Marks ==
  /\ Unowned \notin Slot /\ Root \notin Slot /\ Unowned = Root
  /\ EndMark \in Entry12 /\ FreeMark \in Entry12 /\ EndMark # FreeMark /\ ~InChain(EndMark)
  /\ Cluster \subseteq 2 .. 4079 /\ Cluster \subseteq 0 .. LastCluster
  /\ \A c \in Cluster : c \in Entry12 /\ c # FreeMark /\ c # NoCluster /\ InChain(c)
BY VolumeAssumption
DEF Unowned, Slot, Root, EndMark, FreeMark, Entry12, InChain, Cluster, NoCluster

\* A slot of a directory is in no cluster but one of the directory.
LEMMA SlotOfDir ==
  ASSUME VolumeInv, NEW d \in Dirs, NEW s \in Contents(d)
  PROVE  /\ s \in Slot
         /\ \A x \in Cluster : s \in SlotsOf(x) => DirCluster(x) /\ owner[x] = d
         /\ d # Root => \E x \in Cluster : s \in SlotsOf(x)
<1>1. CASE d = Root
  BY <1>1, SlotsApart DEF Contents
<1>2. CASE d # Root
  <2>1. d \in Slot /\ entry[d].kind = "dir"
    BY <1>2 DEF Dirs
  <2>2. PICK x \in Cluster : owner[x] = d /\ s \in SlotsOf(x)
    BY <1>2 DEF Contents
  <2>3. DirCluster(x)
    BY <2>1, <2>2, Marks DEF DirCluster
  <2>4. \A y \in Cluster : s \in SlotsOf(y) => y = x
    BY <2>2, SlotsApart
  <2> QED BY <2>2, <2>3, <2>4, SlotsApart
<1> QED BY <1>1, <1>2

LEMMA VolumeInitially ==
  ASSUME VolumeInit
  PROVE  VolumeInv
<1>1. EndEntry \in [kind : Kind, loc : Cluster \union {NoCluster}]
  BY DEF EndEntry, Kind
<1>2. 4080 \in Entry12
  BY DEF Entry12
<1>3. VolumeTypes
  BY <1>1, <1>2, Marks DEF VolumeInit, VolumeTypes
<1>4. FreeIsClear
  BY Marks, SlotsApart DEF VolumeInit, FreeIsClear
<1>5. ChainsStay
  BY DEF VolumeInit, ChainsStay
<1>6. OwnersInDirs
  BY Marks, SlotsApart DEF VolumeInit, OwnersInDirs
<1>7. EntriesLead
  BY DEF VolumeInit, EntriesLead, EntryLeads, EndEntry
<1> QED BY <1>3, <1>4, <1>5, <1>6, <1>7 DEF VolumeInv

\* A new entry without contents, or a label that becomes a deleted one.
LEMMA PutEntry ==
  ASSUME VolumeInv, NEW s \in Slot, NEW e,
         entry[s].kind \in {"end", "label"} \union Deleted,
         \A x \in Cluster : s \in SlotsOf(x) => DirCluster(x),
         e.kind \in {"label", "file"} \union Deleted,
         e \in [kind : Kind, loc : Cluster \union {NoCluster}],
         entry' = [entry EXCEPT ![s] = e],
         UNCHANGED <<link, owner>>
  PROVE  VolumeInv'
<1>1. /\ \A t \in Slot : t # s => entry'[t] = entry[t]
      /\ entry'[s] = e
  BY DEF VolumeInv, VolumeTypes
<1>2. VolumeTypes'
  BY DEF VolumeInv, VolumeTypes
<1>3. \A c \in Cluster : owner[c] # s
  BY Marks DEF VolumeInv, ChainsStay, Deleted
<1>4. \A c : DirCluster(c)' <=> DirCluster(c)
  BY <1>1, <1>3 DEF VolumeInv, VolumeTypes, DirCluster
<1>5. FreeIsClear'
  BY <1>1, SlotsApart DEF VolumeInv, FreeIsClear, DirCluster
<1>6. ChainsStay'
  BY <1>1, <1>3 DEF VolumeInv, VolumeTypes, ChainsStay
<1>7. OwnersInDirs'
  BY <1>4 DEF VolumeInv, OwnersInDirs
<1>8. EntriesLead'
  BY <1>1, <1>4 DEF VolumeInv, EntriesLead, EntryLeads, DirCluster, Deleted
<1> QED BY <1>2, <1>5, <1>6, <1>7, <1>8 DEF VolumeInv

\* What a free cluster and a usable slot are not part of.
LEMMA Unused ==
  ASSUME VolumeInv, NEW d \in Dirs, NEW s \in Contents(d), NEW c \in Cluster,
         owner[c] = Unowned
  PROVE  /\ s \in Slot /\ s \notin SlotsOf(c)
         /\ \A x \in Cluster : owner[x] \notin SlotsOf(c)
         /\ \A x \in Cluster : s \in SlotsOf(x) => DirCluster(x)
<1>1. s \in Slot /\ \A x \in Cluster : s \in SlotsOf(x) => DirCluster(x)
  BY SlotOfDir
<1>2. ~DirCluster(c)
  BY DEF DirCluster
<1>3. \A x \in Cluster : owner[x] \notin SlotsOf(c)
  BY <1>2 DEF VolumeInv, OwnersInDirs
<1> QED BY <1>1, <1>2, <1>3

\* A file or a directory, as kind says, with its first cluster c.
PutsCluster(d, s, c, kind) ==
  /\ s \in Contents(d) /\ entry[s].kind \in {"end"} \union Deleted
  /\ c \in Cluster /\ owner[c] = Unowned
  /\ entry' \in [Slot -> [kind : Kind, loc : Cluster \union {NoCluster}]]
  /\ entry'[s] = [kind |-> kind, loc |-> c]
  /\ \A t \in Slot : t # s /\ t \notin SlotsOf(c) => entry'[t] = entry[t]
  /\ \A t \in SlotsOf(c) :
       \/ entry'[t].kind = "file"
       \/ entry'[t].kind = "end" /\ entry'[t].loc = NoCluster
       \/ entry'[t].kind = "dot" /\ entry'[t].loc = c /\ kind = "dir"
  /\ link' = [link EXCEPT ![c] = EndMark]
  /\ owner' = [owner EXCEPT ![c] = s]

LEMMA PutClusterSound ==
  ASSUME VolumeInv, NEW d \in Dirs, NEW s, NEW c, NEW k \in {"file", "dir"},
         PutsCluster(d, s, c, k)
  PROVE  VolumeInv'
<1> USE DEF VolumeInv, PutsCluster
<1>1. /\ s \in Slot /\ s \notin SlotsOf(c)
      /\ \A x \in Cluster : owner[x] \notin SlotsOf(c)
      /\ \A x \in Cluster : s \in SlotsOf(x) => DirCluster(x)
  BY Unused
<1>2. /\ owner'[c] = s /\ \A x \in Cluster : x # c => owner'[x] = owner[x]
      /\ link'[c] = EndMark /\ \A x \in Cluster : x # c => link'[x] = link[x]
  BY Marks DEF VolumeTypes
<1>3. VolumeTypes'
  BY <1>1, Marks DEF VolumeTypes
<1>4. \A x \in Cluster : owner[x] # s
  BY <1>1, Marks DEF ChainsStay, Deleted
<1>5. \A x \in Cluster : owner[x] # Unowned => owner[x] \in Slot /\ entry'[owner[x]] = entry[owner[x]]
  BY <1>1, <1>4 DEF VolumeTypes
<1>6. \A x : DirCluster(x) => DirCluster(x)' /\ owner'[x] = owner[x]
  BY <1>2, <1>5 DEF DirCluster
<1>7. FreeIsClear'
  <2> SUFFICES ASSUME NEW x \in Cluster
               PROVE  /\ link'[x] = FreeMark <=> owner'[x] = Unowned
                      /\ owner'[x] = Unowned => \A t \in SlotsOf(x) : entry'[t] = EndEntry
    BY DEF FreeIsClear
  <2>1. CASE x = c
    BY <1>1, <1>2, <2>1, Marks
  <2>2. CASE x # c
    <3>1. owner[x] = Unowned => s \notin SlotsOf(x)
      BY <1>1 DEF DirCluster
    <3>2. SlotsOf(x) \subseteq Slot /\ SlotsOf(x) \cap SlotsOf(c) = {}
      BY <2>2, SlotsApart
    <3> QED BY <1>2, <2>2, <3>1, <3>2 DEF FreeIsClear
  <2> QED BY <2>1, <2>2
<1>8. ChainsStay'
  <2> SUFFICES ASSUME NEW x \in Cluster, owner'[x] # Unowned
               PROVE  /\ entry'[owner'[x]].kind \in {"file", "dir"}
                      /\ InChain(link'[x]) => link'[x] \in Cluster /\ owner'[link'[x]] = owner'[x]
    BY DEF ChainsStay
  <2>1. CASE x = c
    BY <1>2, <2>1, Marks
  <2>2. CASE x # c
    BY <1>2, <1>5, <2>2 DEF ChainsStay
  <2> QED BY <2>1, <2>2
<1>9. OwnersInDirs'
  <2> SUFFICES ASSUME NEW x \in Cluster, NEW y \in Cluster, owner'[x] \in SlotsOf(y)
               PROVE  DirCluster(y)'
    BY DEF OwnersInDirs
  <2>1. CASE x = c
    BY <1>1, <1>2, <1>6, <2>1
  <2>2. CASE x # c
    BY <1>2, <1>6, <2>2 DEF OwnersInDirs
  <2> QED BY <2>1, <2>2
<1>10. EntriesLead'
  <2> SUFFICES ASSUME NEW t \in Slot PROVE EntryLeads(t)'
    BY DEF EntriesLead
  <2>1. CASE t = s
    BY <1>2, <2>1 DEF EntryLeads
  <2>2. CASE t \in SlotsOf(c)
    <3>1. k = "dir" => owner'[c] # Unowned /\ entry'[owner'[c]].kind = "dir"
      BY <1>1, <1>2, Marks
    <3> QED BY <2>2, <3>1 DEF EntryLeads, DirCluster
  <2>3. CASE t # s /\ t \notin SlotsOf(c)
    <3>1. entry'[t] = entry[t]
      BY <2>3
    <3>2. entry[t].kind = "dir" => entry[t].loc \in Cluster /\ owner[entry[t].loc] = t /\ entry[t].loc # c
      BY Marks DEF EntriesLead, EntryLeads
    <3>3. DirCluster(entry[t].loc) =>
            LET l == entry[t].loc IN l \in Cluster /\ owner'[l] # Unowned /\ entry'[owner'[l]].kind = "dir"
      BY <1>5, <1>6 DEF DirCluster
    <3> QED BY <1>2, <3>1, <3>2, <3>3 DEF EntriesLead, EntryLeads, DirCluster
  <2> QED BY <2>1, <2>2, <2>3
<1> QED BY <1>3, <1>7, <1>8, <1>9, <1>10

LEMMA MakeFilePuts ==
  ASSUME VolumeInv, NEW d \in Dirs, NEW s \in Usable(d), NEW c \in Available, MakeFile(s, c)
  PROVE  PutsCluster(d, s, c, "file")
<1>1. /\ s \in Contents(d) /\ entry[s].kind \in {"end"} \union Deleted
      /\ c \in Cluster /\ owner[c] = Unowned
  BY DEF Usable, First, Holds, Available, FreeClusters
<1> DEFINE e == [kind |-> "file", loc |-> c]
<1>2. e \in [kind : Kind, loc : Cluster \union {NoCluster}]
  BY <1>1 DEF Kind
<1>3. s \in Slot /\ s \notin SlotsOf(c)
  BY <1>1, Unused
<1>4. \A t \in Slot : entry'[t] = IF t = s \/ t \in SlotsOf(c) THEN e ELSE entry[t]
  BY DEF MakeFile
<1>5. entry' \in [Slot -> [kind : Kind, loc : Cluster \union {NoCluster}]]
  BY <1>2, <1>4 DEF MakeFile, VolumeInv, VolumeTypes
<1>6. \A t \in SlotsOf(c) :
        \/ entry'[t].kind = "file"
        \/ entry'[t].kind = "end" /\ entry'[t].loc = NoCluster
        \/ entry'[t].kind = "dot" /\ entry'[t].loc = c /\ "file" = "dir"
  BY <1>1, <1>4, SlotsApart
<1>7. entry'[s] = e
  BY <1>3, <1>4
<1>8. \A t \in Slot : t # s /\ t \notin SlotsOf(c) => entry'[t] = entry[t]
  BY <1>4
<1>9. "file" \in {"file", "dir"}
  OBVIOUS
<1>10. link' = [link EXCEPT ![c] = EndMark] /\ owner' = [owner EXCEPT ![c] = s]
  BY DEF MakeFile
<1> QED BY <1>1, <1>5, <1>6, <1>7, <1>8, <1>10 DEF e, PutsCluster

LEMMA MakeDirPuts ==
  ASSUME VolumeInv, NEW d \in Dirs, NEW s \in Usable(d), NEW c \in Available, MakeDir(s, c)
  PROVE  PutsCluster(d, s, c, "dir")
<1>1. /\ s \in Contents(d) /\ entry[s].kind \in {"end"} \union Deleted
      /\ c \in Cluster /\ owner[c] = Unowned
  BY DEF Usable, First, Holds, Available, FreeClusters
<1> DEFINE e == [kind |-> "dir", loc |-> c]
           dot == [kind |-> "dot", loc |-> c]
<1>2. /\ "dir" \in {"file", "dir"}
      /\ {e, dot, EndEntry} \subseteq [kind : Kind, loc : Cluster \union {NoCluster}]
      /\ dot.kind = "dot" /\ dot.loc = c /\ EndEntry.kind = "end" /\ EndEntry.loc = NoCluster
  BY <1>1 DEF Kind, EndEntry
<1>3. s \in Slot /\ s \notin SlotsOf(c) /\ SlotAt(c, 0) \in SlotsOf(c) /\ SlotsOf(c) \subseteq Slot
  BY <1>1, Unused, SlotsApart
<1>4. /\ entry'[s] = e
      /\ entry'[SlotAt(c, 0)] = dot
      /\ \A t \in SlotsOf(c) : t # SlotAt(c, 0) => entry'[t] = EndEntry
      /\ \A t \in Slot : t # s /\ t \notin SlotsOf(c) => entry'[t] = entry[t]
  BY <1>3 DEF MakeDir
<1> HIDE DEF e, dot
<1>5. entry' \in [Slot -> [kind : Kind, loc : Cluster \union {NoCluster}]]
  <2>1. DOMAIN entry' = Slot /\ entry' = [t \in Slot |-> entry'[t]]
    BY DEF MakeDir
  <2>2. \A t \in Slot : entry'[t] \in [kind : Kind, loc : Cluster \union {NoCluster}]
    BY <1>2, <1>4 DEF VolumeInv, VolumeTypes
  <2> QED BY <2>1, <2>2
<1>6. \A t \in SlotsOf(c) :
        \/ entry'[t].kind = "file"
        \/ entry'[t].kind = "end" /\ entry'[t].loc = NoCluster
        \/ entry'[t].kind = "dot" /\ entry'[t].loc = c /\ "dir" = "dir"
  BY <1>2, <1>3, <1>4
<1>7. entry'[s] = e
  BY <1>3, <1>4
<1>8. \A t \in Slot : t # s /\ t \notin SlotsOf(c) => entry'[t] = entry[t]
  BY <1>3, <1>4
<1>9. link' = [link EXCEPT ![c] = EndMark] /\ owner' = [owner EXCEPT ![c] = s]
  BY DEF MakeDir
<1> QED BY <1>1, <1>5, <1>6, <1>7, <1>8, <1>9 DEF e, PutsCluster

LEMMA ExtendSound ==
  ASSUME VolumeInv, NEW d \in Dirs, NEW c \in Available, Extend(d, c)
  PROVE  VolumeInv'
<1> USE DEF VolumeInv
<1>1. c \in Cluster /\ owner[c] = Unowned
  BY DEF Available, First, FreeClusters
<1>2. d \in Slot /\ entry[d].kind = "dir" /\ d # Unowned
  BY Marks DEF Extend, Dirs
<1>3. PICK last \in Cluster : /\ owner[last] = d
                             /\ link' = [link EXCEPT ![last] = c, ![c] = EndMark]
  BY DEF Extend
<1>4. last # c
  BY <1>1, <1>2, <1>3
<1>5. /\ link'[c] = EndMark /\ link'[last] = c
      /\ \A x \in Cluster : x # c /\ x # last => link'[x] = link[x]
      /\ owner'[c] = d /\ \A x \in Cluster : x # c => owner'[x] = owner[x]
  BY <1>1, <1>3, <1>4, Marks DEF Extend, VolumeTypes
<1>6. entry' = entry
  <2>1. \A t \in Slot : entry'[t] = entry[t] /\ entry' = [u \in Slot |-> entry'[u]]
    BY <1>1 DEF Extend, FreeIsClear
  <2>2. entry = [t \in Slot |-> entry[t]]
    BY DEF VolumeTypes
  <2>3. entry' = [u \in Slot |-> entry'[u]]
    BY DEF Extend
  <2> QED BY <2>1, <2>2, <2>3
<1>7. VolumeTypes'
  <2>1. link' \in [0 .. LastCluster -> Entry12]
    BY <1>1, <1>3, Marks DEF VolumeTypes
  <2>2. owner' \in [Cluster -> Slot \union {Unowned}]
    BY <1>2 DEF Extend, VolumeTypes
  <2> QED BY <1>6, <2>1, <2>2 DEF VolumeTypes
<1>8. \A x : DirCluster(x) => x \in Cluster /\ owner'[x] = owner[x] /\ DirCluster(x)'
  BY <1>1, <1>5, <1>6 DEF DirCluster
<1>9. FreeIsClear'
  <2> SUFFICES ASSUME NEW x \in Cluster
               PROVE  /\ link'[x] = FreeMark <=> owner'[x] = Unowned
                      /\ owner'[x] = Unowned => \A t \in SlotsOf(x) : entry'[t] = EndEntry
    BY DEF FreeIsClear
  <2>1. CASE x = c
    BY <1>2, <1>5, <2>1, Marks
  <2>2. CASE x = last
    BY <1>1, <1>2, <1>3, <1>4, <1>5, <2>2, Marks
  <2>3. CASE x # c /\ x # last
    BY <1>5, <1>6, <2>3 DEF FreeIsClear
  <2> QED BY <2>1, <2>2, <2>3
<1>10. ChainsStay'
  <2> SUFFICES ASSUME NEW x \in Cluster, owner'[x] # Unowned
               PROVE  /\ entry'[owner'[x]].kind \in {"file", "dir"}
                      /\ InChain(link'[x]) => link'[x] \in Cluster /\ owner'[link'[x]] = owner'[x]
    BY DEF ChainsStay
  <2>1. CASE x = c
    BY <1>2, <1>5, <1>6, <2>1, Marks
  <2>2. CASE x = last
    BY <1>1, <1>2, <1>3, <1>4, <1>5, <1>6, <2>2
  <2>3. CASE x # c /\ x # last
    BY <1>1, <1>5, <1>6, <2>3 DEF ChainsStay
  <2> QED BY <2>1, <2>2, <2>3
<1>11. OwnersInDirs'
  <2> SUFFICES ASSUME NEW x \in Cluster, NEW y \in Cluster, owner'[x] \in SlotsOf(y)
               PROVE  DirCluster(y)'
    BY DEF OwnersInDirs
  <2>1. \E z \in Cluster : owner[z] = owner'[x]
    BY <1>3, <1>5
  <2> QED BY <1>8, <2>1 DEF OwnersInDirs
<1>12. EntriesLead'
  <2> SUFFICES ASSUME NEW t \in Slot PROVE EntryLeads(t)'
    BY DEF EntriesLead
  <2>1. EntryLeads(t)
    BY DEF EntriesLead
  <2>2. ASSUME entry[t].kind = "dir" PROVE owner'[entry[t].loc] = t
    <3>1. PICK l \in Cluster : l = entry[t].loc /\ owner[l] = t
      BY <2>1, <2>2 DEF EntryLeads
    <3>2. l # c
      BY <1>1, <3>1, Marks
    <3> QED BY <1>5, <3>1, <3>2
  <2>3. DirCluster(entry[t].loc) =>
          LET l == entry[t].loc IN l \in Cluster /\ owner'[l] # Unowned /\ entry'[owner'[l]].kind = "dir"
    BY <1>6, <1>8 DEF DirCluster
  <2> QED BY <1>6, <2>1, <2>2, <2>3 DEF EntryLeads, DirCluster
<1> QED BY <1>7, <1>9, <1>10, <1>11, <1>12

LEMMA DeleteSound ==
  ASSUME VolumeInv, NEW d \in Dirs, NEW s \in Holds(d, {"file", "dir"}), Delete(s)
  PROVE  VolumeInv'
<1> USE DEF VolumeInv
<1>1. /\ s \in Contents(d) /\ entry[s].kind \in {"file", "dir"}
      /\ s \in Slot /\ s # Root /\ s # Unowned
      /\ \A x \in Cluster : s \in SlotsOf(x) => DirCluster(x) /\ owner[x] = d
  BY SlotOfDir, Marks DEF Holds
<1>2. Contents(s) = UNION {SlotsOf(c) : c \in {x \in Cluster : owner[x] = s}}
  BY <1>1 DEF Contents
<1>3. s \notin Contents(s)
  <2> SUFFICES ASSUME s \in Contents(s) PROVE FALSE
    OBVIOUS
  <2>1. PICK x \in Cluster : owner[x] = s /\ s \in SlotsOf(x)
    BY <1>2
  <2>2. d = s /\ entry[s].kind = "dir"
    BY <1>1, <2>1 DEF DirCluster
  <2> QED BY <1>1, <2>2 DEF Delete, Holds
<1>4. /\ entry'[s].kind \in Deleted /\ entry'[s].loc \in Cluster \union {NoCluster}
      /\ entry'[s] \in [kind : Kind, loc : Cluster \union {NoCluster}]
  <2> DEFINE e == [kind |-> Gone(entry[s].kind), loc |-> IF entry[s].loc = NoCluster THEN NoCluster ELSE 2]
  <2>1. entry'[s] = e
    <3>1. entry' = [t \in Slot |-> CASE t = s -> e
                                   [] t \in Contents(s) -> EndEntry
                                   [] OTHER -> entry[t]]
      BY Zenon DEF Delete
    <3>2. s \in Slot
      BY <1>1
    <3> HIDE DEF e
    <3>3. entry'[s] = CASE s = s -> e [] s \in Contents(s) -> EndEntry [] OTHER -> entry[s]
      BY <3>1, <3>2
    <3> QED BY <1>3, <3>3
  <2>2. Gone(entry[s].kind) \in Deleted
    BY <1>1 DEF Gone, Deleted
  <2>3. 2 \in Cluster
    BY VolumeAssumption DEF Cluster
  <2> QED BY <2>1, <2>2, <2>3 DEF Kind
<1>5. /\ \A t \in Slot : t # s /\ t \in Contents(s) => entry'[t] = EndEntry
      /\ \A t \in Slot : t # s /\ t \notin Contents(s) => entry'[t] = entry[t]
  BY DEF Delete
<1>6. \A c \in Cluster : IF owner[c] = s THEN link'[c] = FreeMark /\ owner'[c] = Unowned
                                         ELSE link'[c] = link[c] /\ owner'[c] = owner[c]
  BY Marks DEF Delete
<1>7. VolumeTypes'
  <2>1. entry' \in [Slot -> [kind : Kind, loc : Cluster \union {NoCluster}]]
    <3>1. entry' = [t \in Slot |-> entry'[t]]
      BY DEF Delete
    <3>2. EndEntry \in [kind : Kind, loc : Cluster \union {NoCluster}]
      BY DEF EndEntry, Kind
    <3>3. \A t \in Slot : entry'[t] \in [kind : Kind, loc : Cluster \union {NoCluster}]
      BY <1>4, <1>5, <3>2 DEF VolumeTypes
    <3> QED BY <3>1, <3>3
  <2>2. link' \in [0 .. LastCluster -> Entry12]
    BY Marks DEF Delete, VolumeTypes
  <2>3. owner' \in [Cluster -> Slot \union {Unowned}]
    BY DEF Delete, VolumeTypes
  <2> QED BY <2>1, <2>2, <2>3 DEF VolumeTypes
\* What remains has no entry in what is cleared.
<1>8. ASSUME NEW c \in Cluster, owner[c] # Unowned, owner[c] # s
      PROVE  owner[c] \in Slot /\ entry'[owner[c]] = entry[owner[c]]
  <2>1. owner[c] \in Slot /\ entry[owner[c]].kind \in {"file", "dir"}
    BY <1>8 DEF VolumeTypes, ChainsStay
  <2>2. owner[c] \notin Contents(s)
    <3> SUFFICES ASSUME owner[c] \in Contents(s) PROVE FALSE
      OBVIOUS
    <3>1. PICK x \in Cluster : owner[x] = s /\ owner[c] \in SlotsOf(x)
      BY <1>2
    <3>2. entry[s].kind = "dir"
      BY <3>1 DEF OwnersInDirs, DirCluster
    <3> QED BY <2>1, <3>2 DEF Delete, Holds
  <2> QED BY <1>5, <1>8, <2>1, <2>2
<1>9. ASSUME NEW x, DirCluster(x), owner[x] # s
      PROVE  DirCluster(x)' /\ owner'[x] = owner[x]
  BY <1>6, <1>8, <1>9 DEF DirCluster
<1>10. FreeIsClear'
  <2> SUFFICES ASSUME NEW x \in Cluster
               PROVE  /\ link'[x] = FreeMark <=> owner'[x] = Unowned
                      /\ owner'[x] = Unowned => \A t \in SlotsOf(x) : entry'[t] = EndEntry
    BY DEF FreeIsClear
  <2>1. SlotsOf(x) \subseteq Slot
    BY SlotsApart
  <2>2. CASE owner[x] = s
    BY <1>2, <1>3, <1>5, <1>6, <2>1, <2>2
  <2>3. CASE owner[x] # s
    <3>1. owner[x] = Unowned => s \notin SlotsOf(x)
      BY <1>1 DEF DirCluster
    <3> QED BY <1>5, <1>6, <2>1, <2>3, <3>1 DEF FreeIsClear
  <2> QED BY <2>2, <2>3
<1>11. ChainsStay'
  <2> SUFFICES ASSUME NEW x \in Cluster, owner'[x] # Unowned
               PROVE  /\ entry'[owner'[x]].kind \in {"file", "dir"}
                      /\ InChain(link'[x]) => link'[x] \in Cluster /\ owner'[link'[x]] = owner'[x]
    BY DEF ChainsStay
  <2>1. owner[x] # s /\ owner[x] # Unowned /\ owner'[x] = owner[x] /\ link'[x] = link[x]
    BY <1>6
  <2> QED BY <1>6, <1>8, <2>1 DEF ChainsStay
<1>12. OwnersInDirs'
  <2> SUFFICES ASSUME NEW x \in Cluster, NEW y \in Cluster, owner'[x] \in SlotsOf(y)
               PROVE  DirCluster(y)'
    BY DEF OwnersInDirs
  <2>1. owner'[x] # Unowned /\ owner[x] = owner'[x] /\ owner[x] # s
    BY <1>6, SlotsApart, Marks
  <2>2. DirCluster(y) /\ entry[owner[x]].kind \in {"file", "dir"}
    BY <2>1 DEF OwnersInDirs, ChainsStay
  <2>3. owner[y] # s
    BY <1>2, <2>1, <2>2 DEF DirCluster, Delete, Holds
  <2> QED BY <1>9, <2>2, <2>3
<1>13. EntriesLead'
  <2> SUFFICES ASSUME NEW t \in Slot PROVE EntryLeads(t)'
    BY DEF EntriesLead
  <2>1. EntryLeads(t)
    BY DEF EntriesLead
  <2>2. CASE t = s
    BY <1>4, <2>2 DEF EntryLeads, Deleted
  <2>3. CASE t # s /\ t \in Contents(s)
    BY <1>5, <2>3 DEF EntryLeads, EndEntry
  <2>4. CASE t # s /\ t \notin Contents(s)
    <3>1. entry'[t] = entry[t]
      BY <1>5, <2>4
    <3>2. entry[t].kind = "dir" => owner'[entry[t].loc] = t
      BY <1>6, <2>1, <2>4 DEF EntryLeads
    <3>3. ASSUME entry[t].kind = "dot"
          PROVE  LET l == entry[t].loc IN l \in Cluster /\ owner'[l] # Unowned /\ entry'[owner'[l]].kind = "dir"
      <4>1. DirCluster(entry[t].loc) /\ owner[entry[t].loc] # s
        BY <1>2, <2>1, <2>4, <3>3 DEF EntryLeads, DirCluster
      <4> QED BY <1>6, <1>8, <4>1 DEF DirCluster
    <3> QED BY <2>1, <3>1, <3>2, <3>3 DEF EntryLeads, DirCluster
  <2> QED BY <2>2, <2>3, <2>4
<1> QED BY <1>7, <1>10, <1>11, <1>12, <1>13

LEMMA ChangeSound ==
  ASSUME VolumeInv, ChangeVolume
  PROVE  VolumeInv'
<1> DEFINE label_ == [kind |-> "label", loc |-> NoCluster]
           file_ == [kind |-> "file", loc |-> NoCluster]
<1>1. {label_, file_} \subseteq [kind : Kind, loc : Cluster \union {NoCluster}]
  BY DEF Kind
<1>2. ASSUME NEW d \in Dirs, NEW s \in Usable(d)
      PROVE  /\ s \in Slot /\ entry[s].kind \in {"end", "label"} \union Deleted
             /\ \A x \in Cluster : s \in SlotsOf(x) => DirCluster(x)
  <2>1. s \in Contents(d) /\ entry[s].kind \in {"end"} \union Deleted
    BY DEF Usable, First, Holds
  <2> QED BY <2>1, SlotOfDir
<1>3. CASE Label
  <2>1. PICK s \in Usable(Root) : entry' = [entry EXCEPT ![s] = label_]
    BY <1>3 DEF Label
  <2>2. Root \in Dirs
    BY DEF Dirs
  <2>3. label_.kind = "label" /\ UNCHANGED <<link, owner>>
    BY <1>3 DEF Label
  <2> HIDE DEF label_
  <2> QED BY <1>1, <1>2, <2>1, <2>2, <2>3, PutEntry
<1>4. CASE Unlabel
  <2>1. PICK s \in Labels : entry' = [entry EXCEPT ![s].kind = Gone(@)]
    BY <1>4 DEF Unlabel
  <2>2. Root \in Dirs /\ s \in Contents(Root) /\ entry[s].kind = "label"
    BY DEF Dirs, Labels, Holds
  <2>3. s \in Slot /\ \A x \in Cluster : s \in SlotsOf(x) => DirCluster(x)
    BY <2>2, SlotOfDir
  <2>4. PICK e : e = [entry[s] EXCEPT !.kind = Gone(@)]
    OBVIOUS
  <2>5. entry' = [entry EXCEPT ![s] = e]
    BY <2>1, <2>4
  <2>6. e.kind \in Deleted /\ e \in [kind : Kind, loc : Cluster \union {NoCluster}]
    <3>1. entry[s] \in [kind : Kind, loc : Cluster \union {NoCluster}]
      BY <2>3 DEF VolumeInv, VolumeTypes
    <3>2. Gone(entry[s].kind) = "deletedLabel" /\ "deletedLabel" \in Deleted
      BY <2>2 DEF Gone, Deleted
    <3> QED BY <2>4, <3>1, <3>2 DEF Kind
  <2>7. UNCHANGED <<link, owner>>
    BY <1>4 DEF Unlabel
  <2> QED BY <2>2, <2>3, <2>5, <2>6, <2>7, PutEntry
<1>5. ASSUME NEW d \in Dirs, NEW s \in Usable(d), MakeEmptyFile(s) PROVE VolumeInv'
  <2>1. /\ entry' = [entry EXCEPT ![s] = file_] /\ file_.kind = "file"
        /\ UNCHANGED <<link, owner>>
    BY <1>5 DEF MakeEmptyFile
  <2> HIDE DEF file_
  <2> QED BY <1>1, <1>2, <2>1, PutEntry
<1>6. ASSUME NEW d \in Dirs, NEW s \in Usable(d), NEW c \in Available, MakeFile(s, c) \/ MakeDir(s, c)
      PROVE  VolumeInv'
  <2>1. PutsCluster(d, s, c, "file") \/ PutsCluster(d, s, c, "dir")
    BY <1>6, MakeFilePuts, MakeDirPuts
  <2> QED BY <2>1, PutClusterSound
<1>7. ASSUME NEW d \in Dirs, NEW c \in Available, Extend(d, c) PROVE VolumeInv'
  BY <1>7, ExtendSound
<1>8. ASSUME NEW d \in Dirs, NEW s \in Holds(d, {"file", "dir"}), Delete(s) PROVE VolumeInv'
  BY <1>8, DeleteSound
<1>9. CASE SetAttribute
  BY <1>9 DEF SetAttribute, VolumeInv, VolumeTypes, FreeIsClear, ChainsStay, OwnersInDirs,
              EntriesLead, EntryLeads, DirCluster
<1> QED BY <1>3, <1>4, <1>5, <1>6, <1>7, <1>8, <1>9 DEF ChangeVolume, ChangeEntries

-----------------------------------------------------------------------------
(* The table as the tools read it *)

LEMMA Follows ==
  ASSUME VolumeInv, NEW c \in Cluster
  PROVE  get_FAT_entry(FAT, c) = link[c]
<1>1. LastCluster \in Nat /\ c \in 0 .. LastCluster
  BY Marks, VolumeAssumption
<1>2. link \in [0 .. LastCluster -> Entry12]
  BY DEF VolumeInv, VolumeTypes
<1> QED BY <1>1, <1>2, ReadsEntry DEF FAT

\* Masking off bits that are shifted out makes no difference.
LEMMA FollowsInOlder ==
  ASSUME VolumeInv, NEW c \in Cluster
  PROVE  goThroughFATEntries(FAT, c) = link[c]
<1>1. CASE c % 2 = 0
  BY <1>1, Follows DEF get_FAT_entry, goThroughFATEntries
<1>2. CASE c % 2 # 0
  <2>1. PICK j \in Nat : c = 2 * j + 1 /\ (3 * c) \div 2 = 3 * j + 1
    BY <1>2, Marks, c \div 2 \in Nat, c = 2 * (c \div 2) + 1
  <2>2. LastCluster \in Nat /\ 2 * j + 1 <= LastCluster /\ link \in [0 .. LastCluster -> Entry12]
    BY <2>1, Marks, VolumeAssumption DEF VolumeInv, VolumeTypes
  <2>3. PICK e \in Entry12, f \in Entry12 : e = link[2 * j] /\ f = link[2 * j + 1]
    BY <2>2, 2 * j \in 0 .. LastCluster, 2 * j + 1 \in 0 .. LastCluster
  <2>4. FAT[3 * j + 1] = (e \div 256) + 16 * (f % 16)
    BY <2>2, <2>3, PairBytes DEF FAT
  <2>5. PICK x \in Nat : x = FAT[3 * j + 1]
    <3>1. e \div 256 \in Nat /\ f % 16 \in Nat
      BY DEF Entry12
    <3>2. \A a, b \in Nat : a + 16 * b \in Nat
      OBVIOUS
    <3> QED BY <2>4, <3>1, <3>2
  <2>6. (x - (x % 16)) \div 16 = x \div 16
    OBVIOUS
  <2>7. goThroughFATEntries(FAT, c) = get_FAT_entry(FAT, c)
    BY <1>2, <2>1, <2>5, <2>6 DEF get_FAT_entry, goThroughFATEntries
  <2> QED BY <2>7, Follows
<1> QED BY <1>1, <1>2

\* The range diskinfo counts in is that of the data clusters.
LEMMA CountsFree ==
  ASSUME VolumeInv
  PROVE  /\ 2 .. TotalSectors - (17 + RootSectors) - 1 = Cluster
         /\ countEmptyFATentries = Cardinality(FreeClusters)
<1>1. 2 .. TotalSectors - (17 + RootSectors) - 1 = Cluster
  BY VolumeAssumption DEF TotalSectors, Cluster
<1>2. \A i \in Cluster : get_FAT_entry(FAT, i) = FreeMark <=> owner[i] = Unowned
  BY Follows DEF VolumeInv, FreeIsClear
<1>3. {i \in Cluster : get_FAT_entry(FAT, i) = FreeMark} = FreeClusters
  BY <1>2 DEF FreeClusters
<1> QED BY <1>1, <1>3 DEF countEmptyFATentries

\* The older variant misreads the number of sectors only in its low byte, and then
\* as a smaller one.
LEMMA SignedSectors ==
  /\ TotalSectors \in Nat /\ OlderSectors \in Int
  /\ OlderSectors <= TotalSectors
  /\ TotalSectors % 256 < 128 => OlderSectors = TotalSectors
<1>1. TotalSectors \in Nat /\ TotalSectors < 8200
  BY VolumeAssumption DEF TotalSectors
<1>2. PICK T \in Nat : T = TotalSectors /\ T < 8200
  BY <1>1
<1>3. /\ T \div 256 \in Nat /\ T % 256 \in Nat /\ T \div 256 < 128 /\ T % 256 < 256
      /\ T = 256 * (T \div 256) + (T % 256)
  BY <1>2
<1>4. OlderSectors = 256 * (T \div 256) + (IF T % 256 < 128 THEN T % 256 ELSE (T % 256) - 256)
  BY <1>2, <1>3 DEF OlderSectors, Signed
<1> QED BY <1>2, <1>3, <1>4

\* The free clusters within its bound.
OlderCounted == {c \in FreeClusters : c <= OlderSectors - (17 + RootSectors) - 1}

LEMMA OlderCountsFree ==
  ASSUME VolumeInv
  PROVE  /\ OlderFree = Cardinality(OlderCounted) /\ OlderFree \in Nat
         /\ Cardinality(FreeClusters) \in Nat /\ OlderFree <= Cardinality(FreeClusters)
         /\ TotalSectors % 256 < 128 => OlderFree = Cardinality(FreeClusters)
<1>1. PICK b \in Int : b = OlderSectors - (17 + RootSectors) - 1 /\ b <= LastCluster
  BY SignedSectors, VolumeAssumption DEF TotalSectors
<1>2. 2 .. b \subseteq Cluster
  BY <1>1, VolumeAssumption DEF Cluster
<1>3. \A i \in Cluster : goThroughFATEntries(FAT, i) = FreeMark <=> owner[i] = Unowned
  BY FollowsInOlder DEF VolumeInv, FreeIsClear
<1>4. \A i \in Cluster : i \in 2 .. b <=> i <= b
  BY <1>1, VolumeAssumption DEF Cluster
<1>5. {i \in 2 .. b : goThroughFATEntries(FAT, i) = FreeMark} = OlderCounted
  BY <1>1, <1>2, <1>3, <1>4 DEF OlderCounted, FreeClusters
<1>6. OlderFree = Cardinality(OlderCounted)
  BY <1>1, <1>5 DEF OlderFree
<1>7. IsFiniteSet(FreeClusters)
  <2>1. IsFiniteSet(Cluster)
    BY FS_Interval, VolumeAssumption DEF Cluster
  <2> QED BY <2>1, FS_Subset DEF FreeClusters
<1>8. OlderCounted \subseteq FreeClusters
  BY DEF OlderCounted
<1>9. TotalSectors % 256 < 128 => OlderCounted = FreeClusters
  <2>1. TotalSectors % 256 < 128 => b = LastCluster
    BY <1>1, SignedSectors, VolumeAssumption DEF TotalSectors
  <2> QED BY <1>1, <2>1, VolumeAssumption DEF OlderCounted, FreeClusters, Cluster
<1> QED BY <1>6, <1>7, <1>8, <1>9, FS_Subset, FS_CardinalityType

-----------------------------------------------------------------------------
(* The walks *)

Frame == [next : Entry12, i : 0 .. EntriesPerSector, total : Nat]

Visited == [flc : Cluster, next : Entry12, i : 0 .. EntriesPerSector, pass : {"print", "walk"}]

\* Calls of parse_sub that are in a directory, or at the end of one.
SoundFrames == {f \in Frame : InChain(f.next) => DirCluster(f.next)}

SoundCalls ==
  {v \in Visited : /\ DirCluster(v.flc) /\ (v.pass = "print" => v.i = 0)
                   /\ InChain(v.next) => DirCluster(v.next) /\ owner[v.next] = owner[v.flc]}

\* One thing after the other.
InTurn ==
  /\ info = "off" => frames = <<>> /\ free = 0 /\ older = "off"
  /\ older = "off" => list = "off"
  /\ list \in {"off", "root"} => calls = <<>>

Answers ==
  /\ info \in {"counting", "done"} =>
       /\ RootHasEnd
       /\ free = Cardinality(FreeClusters)
       /\ label = LabelAmong(Scanned)
  /\ older = "done" =>
       /\ freeSizeOfDisk = Cardinality(OlderCounted)
       /\ diskVolumeLabel = fetchDiskVolumeLable(Scanned)

ToolInv ==
  /\ VolumeInv
  /\ InTurn
  /\ Answers
  /\ frames \in Seq(SoundFrames)
  /\ calls \in Seq(SoundCalls)
  /\ place \in Nat \ {0}
  /\ shown \in 0 .. EntriesPerSector
  /\ \E n \in Nat : print_root = n * EntriesPerSector + 1

LEMMA Entered ==
  ASSUME VolumeInv, NEW t \in Slot, entry[t].loc \notin {0, 1},
         entry[t].kind \notin {"label", "file"} \union Deleted
  PROVE  DirCluster(entry[t].loc)
<1>1. entry[t].kind \in {"end", "dot", "dir"} /\ EntryLeads(t)
  BY DEF VolumeInv, VolumeTypes, EntriesLead, Kind
<1> QED BY <1>1, Marks DEF EntryLeads, DirCluster, NoCluster

\* The next cluster of a directory's chain.
LEMMA Followed ==
  ASSUME VolumeInv, NEW c, DirCluster(c)
  PROVE  LET n == get_FAT_entry(FAT, c)
         IN  n \in Entry12 /\ (InChain(n) => DirCluster(n) /\ owner[n] = owner[c])
<1>1. c \in Cluster /\ owner[c] # Unowned /\ get_FAT_entry(FAT, c) = link[c]
  BY Follows DEF DirCluster
<1>2. link[c] \in Entry12
  BY <1>1, Marks DEF VolumeInv, VolumeTypes
<1> QED BY <1>1, <1>2 DEF VolumeInv, ChainsStay, DirCluster

\* What is done to a stack of calls.
LEMMA Stack ==
  ASSUME NEW S, NEW s \in Seq(S), s # <<>>
  PROVE  /\ Len(s) \in Nat \ {0} /\ Len(s) \in 1 .. Len(s)
         /\ \A n \in 1 .. Len(s) : s[n] \in S
         /\ \A f \in S : [s EXCEPT ![Len(s)] = f] \in Seq(S)
         /\ \A f \in S : \A e \in S : Append([s EXCEPT ![Len(s)] = f], e) \in Seq(S)
         /\ SubSeq(s, 1, Len(s) - 1) \in Seq(S)
         /\ Len(SubSeq(s, 1, Len(s) - 1)) = Len(s) - 1
<1>1. /\ Len(s) \in Nat \ {0} /\ Len(s) \in 1 .. Len(s)
      /\ \A n \in 1 .. Len(s) : s[n] \in S
  BY EmptySeq, LenProperties, ElementOfSeq
<1>2. \A f \in S : [s EXCEPT ![Len(s)] = f] \in Seq(S)
  BY <1>1, ExceptSeq
<1>3. PICK m \in Nat : m = Len(s) - 1
  BY <1>1
<1>4. SubSeq(s, 1, m) \in Seq(S) /\ Len(SubSeq(s, 1, m)) = m
  BY <1>1, <1>3
<1> QED BY <1>1, <1>2, <1>3, <1>4

LEMMA VolumeKept ==
  ASSUME UNCHANGED volume
  PROVE  /\ VolumeInv' <=> VolumeInv
         /\ SoundFrames' = SoundFrames
         /\ SoundCalls' = SoundCalls
         /\ FreeClusters' = FreeClusters
         /\ OlderCounted' = OlderCounted
         /\ LabelAmong(Scanned)' = LabelAmong(Scanned)
         /\ fetchDiskVolumeLable(Scanned)' = fetchDiskVolumeLable(Scanned)
         /\ RootHasEnd' <=> RootHasEnd
<1> USE DEF volume
<1>1. VolumeInv' <=> VolumeInv
  BY DEF VolumeInv, VolumeTypes, FreeIsClear, ChainsStay, OwnersInDirs, EntriesLead,
         EntryLeads, DirCluster
<1>2. SoundFrames' = SoundFrames
  BY DEF SoundFrames, DirCluster
<1>3. SoundCalls' = SoundCalls
  BY DEF SoundCalls, DirCluster
<1>4. FreeClusters' = FreeClusters
  BY DEF FreeClusters
<1>5. LabelAmong(Scanned)' = LabelAmong(Scanned)
  BY DEF LabelAmong, Scanned
<1>6. fetchDiskVolumeLable(Scanned)' = fetchDiskVolumeLable(Scanned)
  BY DEF fetchDiskVolumeLable, Scanned
<1>7. RootHasEnd' <=> RootHasEnd
  BY DEF RootHasEnd, Holds, Contents
<1>8. OlderCounted' = OlderCounted
  BY DEF OlderCounted, FreeClusters
<1> QED BY <1>1, <1>2, <1>3, <1>4, <1>5, <1>6, <1>7, <1>8

LEMMA FrameOfCall ==
  ASSUME NEW c, DirCluster(c)
  PROVE  Call(c) \in SoundFrames /\ Visit(c) \in SoundCalls
<1>1. c \in Entry12 /\ c \in Cluster /\ 0 \in 0 .. EntriesPerSector
  BY Marks, VolumeAssumption DEF DirCluster
<1> QED BY <1>1 DEF Call, Visit, SoundFrames, SoundCalls, Frame, Visited

\* The slots print_directory prints are slots of the disk.
LEMMA PrintsSlots ==
  ASSUME ToolInv, shown < EntriesPerSector
  PROVE  /\ list = "root" /\ PrintsRoot => print_root + shown \in Slot
         /\ PrintsCluster => /\ DirCluster(Now.next) /\ NowSlot + shown = SlotAt(Now.next, shown)
                             /\ NowSlot + shown \in SlotsOf(Now.next) /\ NowSlot + shown \in Slot
<1>1. PICK R \in Nat, E \in Nat, L \in Nat, P \in Nat :
        /\ R = RootSectors /\ E = EntriesPerSector /\ L = LastCluster - 1 /\ P = PrintSectors
        /\ P <= R + L /\ E > 0
  BY VolumeAssumption, DiskListAssumption
<1>2. shown \in Nat /\ shown < E
  BY <1>1 DEF ToolInv
<1>3. ASSUME list = "root", PrintsRoot PROVE print_root + shown \in Slot
  <2>1. PICK n \in Nat : print_root = n * E + 1
    BY <1>1 DEF ToolInv
  <2>2. P * E <= (R + L) * E /\ (R + L) * E = R * E + L * E /\ R * E \in Nat /\ L * E \in Nat
    <3>1. PICK d \in Nat : R + L = P + d
      BY <1>1, R + L - P \in Nat, R + L = P + (R + L - P)
    <3> QED BY <1>1, <3>1, Product
  <2>3. n < P
    <3> SUFFICES ASSUME ~(n < P) PROVE FALSE
      OBVIOUS
    <3>1. PICK d \in Nat : n = P + d
      BY <1>1, n - P \in Nat, n = P + (n - P)
    <3>2. P * E <= n * E /\ n * E \in Nat /\ P * E \in Nat
      BY <1>1, <3>1, Product
    <3> QED BY <1>1, <1>3, <2>1, <3>2 DEF PrintsRoot
  <2>4. n * E + E <= P * E /\ n * E \in Nat
    <3>1. PICK d \in Nat : P = (n + 1) + d
      BY <1>1, <2>3, P - (n + 1) \in Nat, P = (n + 1) + (P - (n + 1))
    <3>2. (n + 1) * E = n * E + 1 * E /\ (n + 1) * E <= P * E /\ n * E \in Nat
      BY <1>1, <3>1, Product
    <3> QED BY <1>1, <3>2
  <2>5. Slot = 1 .. R * E + L * E
    BY <1>1 DEF Slot, RootSlots
  <2>6. PICK a, b, r, l : a = n * E /\ b = P * E /\ r = R * E /\ l = L * E
    OBVIOUS
  <2>7. /\ a \in Nat /\ a + E <= b /\ b <= r + l /\ r \in Nat /\ l \in Nat /\ b \in Nat
        /\ print_root = a + 1 /\ Slot = 1 .. r + l
    BY <1>1, <2>1, <2>2, <2>4, <2>5, <2>6, Product
  <2> QED BY <1>1, <1>2, <2>7
<1>4. ASSUME PrintsCluster
      PROVE  /\ DirCluster(Now.next) /\ NowSlot + shown = SlotAt(Now.next, shown)
             /\ NowSlot + shown \in SlotsOf(Now.next) /\ NowSlot + shown \in Slot
  <2>1. Now \in SoundCalls /\ Now.pass = "print" /\ InChain(Now.next)
    BY <1>4, Stack DEF PrintsCluster, InPass, Now, ToolInv
  <2>2. PICK c : c = Now.next /\ c \in Cluster /\ DirCluster(c) /\ Now.i = 0
    BY <2>1 DEF SoundCalls, DirCluster
  <2>3. PICK k \in Nat : k = (RootSectors + c - 2) * EntriesPerSector
    <3>1. RootSectors + c - 2 \in Nat /\ EntriesPerSector \in Nat
      BY <2>2, VolumeAssumption DEF Cluster
    <3> QED BY <3>1, Product
  <2>4. NowSlot + shown = SlotAt(c, shown)
    BY <1>2, <2>2, <2>3 DEF NowSlot, SlotAt
  <2>5. shown \in 0 .. EntriesPerSector - 1
    BY <1>1, <1>2
  <2>6. SlotAt(c, shown) \in SlotsOf(c)
    BY <2>5 DEF SlotsOf
  <2> QED BY <2>2, <2>4, <2>6, SlotsApart
<1> QED BY <1>3, <1>4

LEMMA FramesKept ==
  ASSUME ToolInv, InfoStep
  PROVE  frames' \in Seq(SoundFrames)
<1> USE DEF ToolInv
<1>1. PICK D : D = Len(frames)
  OBVIOUS
<1>2. PICK f : f = frames[D]
  OBVIOUS
<1>3. ASSUME frames # <<>>
      PROVE  /\ D \in Nat \ {0} /\ D \in 1 .. Len(frames)
             /\ f \in SoundFrames /\ f \in Frame /\ (InChain(f.next) => DirCluster(f.next))
             /\ Top = f /\ Depth = D
             /\ \A g \in SoundFrames : [frames EXCEPT ![D] = g] \in Seq(SoundFrames)
             /\ \A g, h \in SoundFrames : Append([frames EXCEPT ![D] = g], h) \in Seq(SoundFrames)
  BY <1>1, <1>2, <1>3, Stack DEF SoundFrames, Top, Depth
<1>4. ASSUME AtEntry
      PROVE  /\ frames # <<>>
             /\ [f EXCEPT !.i = f.i + 1] \in SoundFrames
             /\ [f EXCEPT !.i = f.i + 1, !.total = f.total + 1] \in SoundFrames
  <2>1. f.i + 1 \in 0 .. EntriesPerSector /\ f.total + 1 \in Nat
    BY <1>3, <1>4, VolumeAssumption DEF Frame, AtEntry
  <2> QED BY <1>3, <1>4, <2>1 DEF SoundFrames, Frame, AtEntry
<1>5. CASE RootDir
  <2>1. DirCluster(entry[cursor].loc)
    BY <1>5, Entered DEF RootDir, AtRoot, SkippedInRoot, Skipped, IsFile
  <2>2. PICK c : c = entry[cursor].loc
    OBVIOUS
  <2>3. frames' = <<Call(c)>> /\ Call(c) \in SoundFrames
    BY <1>5, <2>1, <2>2, FrameOfCall DEF RootDir
  <2> HIDE DEF Call
  <2> QED BY <2>3
<1>6. CASE SubSkip
  <2>1. frames # <<>> /\ frames' = [frames EXCEPT ![D] = [f EXCEPT !.i = f.i + 1]]
    BY <1>2, <1>3, <1>6 DEF SubSkip, AtEntry
  <2>2. [f EXCEPT !.i = f.i + 1] \in SoundFrames
    BY <1>4, <1>6 DEF SubSkip
  <2> QED BY <1>3, <2>1, <2>2
<1>7. CASE SubFile
  <2>1. frames # <<>>
    BY <1>7 DEF SubFile, AtEntry
  <2>2. PICK g : g = [f EXCEPT !.i = f.i + 1, !.total = f.total + 1]
    OBVIOUS
  <2>3. g \in SoundFrames
    BY <1>4, <1>7, <2>2 DEF SubFile
  <2>4. frames' = [frames EXCEPT ![D].i = @ + 1, ![D].total = @ + 1]
    BY <1>3, <1>7, <2>1 DEF SubFile
  <2>5. frames' = [frames EXCEPT ![D] = g]
    BY <1>2, <1>3, <2>1, <2>2, <2>4 DEF Frame
  <2> QED BY <1>3, <2>1, <2>3, <2>5
<1>8. CASE SubDir
  <2>1. frames # <<>> /\ TopSlot \in Slot
    BY <1>8 DEF SubDir, AtEntry
  <2>2. PICK c : c = entry[TopSlot].loc
    OBVIOUS
  <2>3. Call(c) \in SoundFrames
    BY <1>8, <2>1, <2>2, Entered, FrameOfCall DEF SubDir, SkippedInSub, Skipped, IsFile
  <2>4. frames' = Append([frames EXCEPT ![D] = [f EXCEPT !.i = f.i + 1]], Call(c))
    BY <1>2, <1>3, <1>8, <2>1, <2>2 DEF SubDir
  <2>5. [f EXCEPT !.i = f.i + 1] \in SoundFrames
    BY <1>4, <1>8 DEF SubDir
  <2> HIDE DEF Call
  <2> QED BY <1>3, <2>1, <2>3, <2>4, <2>5
<1>9. CASE SubNextCluster
  <2>1. frames # <<>> /\ InChain(f.next)
    BY <1>3, <1>9 DEF SubNextCluster
  <2>2. PICK n : n = get_FAT_entry(FAT, f.next)
    OBVIOUS
  <2>3. n \in Entry12 /\ (InChain(n) => DirCluster(n))
    BY <1>3, <2>1, <2>2, Followed
  <2>4. PICK g : g = [f EXCEPT !.i = 0, !.next = n]
    OBVIOUS
  <2>5. g \in SoundFrames
    <3>1. 0 \in 0 .. EntriesPerSector
      BY VolumeAssumption
    <3> QED BY <1>3, <2>1, <2>3, <2>4, <3>1 DEF SoundFrames, Frame
  <2>6. frames' = [frames EXCEPT ![D].i = 0, ![D].next = get_FAT_entry(FAT, @)]
    BY <1>3, <1>9, <2>1 DEF SubNextCluster, FollowChain
  <2> HIDE DEF FAT, get_FAT_entry
  <2>7. frames' = [frames EXCEPT ![D] = g]
    BY <1>2, <1>3, <2>1, <2>2, <2>4, <2>6 DEF Frame
  <2> QED BY <1>3, <2>1, <2>5, <2>7
<1>10. CASE SubReturn
  <2>1. frames # <<>> /\ GiveBack
    BY <1>10 DEF SubReturn
  <2>2. CASE D = 1
    BY <1>3, <2>1, <2>2 DEF GiveBack
  <2>3. CASE D # 1
    <3>1. PICK r \in Seq(SoundFrames) : r = SubSeq(frames, 1, D - 1) /\ Len(r) = D - 1
      BY <1>1, <2>1, Stack
    <3>2. r # <<>> /\ D - 1 \in 1 .. Len(r)
      BY <1>3, <2>1, <2>3, <3>1
    <3>3. PICK g : g = r[D - 1]
      OBVIOUS
    <3>4. g \in SoundFrames /\ g \in Frame
      BY <3>1, <3>2, <3>3, ElementOfSeq DEF SoundFrames
    <3>5. frames' = [r EXCEPT ![D - 1] = [g EXCEPT !.total = g.total + f.total]]
      BY <1>3, <2>1, <2>3, <3>1, <3>3 DEF GiveBack
    <3>6. [g EXCEPT !.total = g.total + f.total] \in SoundFrames
      <4>1. g.total + f.total \in Nat
        BY <1>3, <2>1, <3>4 DEF Frame
      <4> QED BY <3>4, <4>1 DEF SoundFrames, Frame
    <3> QED BY <3>1, <3>2, <3>5, <3>6, ExceptSeq
  <2> QED BY <2>2, <2>3
<1>11. CASE UNCHANGED frames
  BY <1>11
<1> QED BY <1>5, <1>6, <1>7, <1>8, <1>9, <1>10, <1>11
        DEF InfoStep, StartInfo, Astray, RootSkip, RootFile, RootEnd

LEMMA InfoSound ==
  ASSUME ToolInv, InfoStep, UNCHANGED <<volume, olderVars, listVars>>
  PROVE  ToolInv'
<1> USE DEF ToolInv, olderVars, listVars
<1>1. VolumeInv' /\ frames' \in Seq(SoundFrames)' /\ calls' \in Seq(SoundCalls)'
  BY VolumeKept, FramesKept
<1>2. /\ info' \in {"counting", "done"} =>
           RootHasEnd /\ free' = Cardinality(FreeClusters) /\ label' = LabelAmong(Scanned)
      /\ info' # "off"
  <2>1. CASE StartInfo
    BY <2>1, CountsFree DEF StartInfo
  <2>2. CASE Astray
    BY <2>2 DEF Astray
  <2>3. CASE info = "counting"
    BY <2>3 DEF InfoStep, Answers, StartInfo, Astray, RootSkip, RootFile, RootDir, RootEnd,
                SubSkip, SubFile, SubDir, SubNextCluster, SubReturn
  <2> QED BY <2>1, <2>2, <2>3 DEF InfoStep
<1>3. Answers'
  BY <1>2, VolumeKept DEF Answers
<1>4. InTurn'
  BY <1>2 DEF InTurn
<1> QED BY <1>1, <1>3, <1>4

LEMMA CallsKept ==
  ASSUME ToolInv, ListStep
  PROVE  calls' \in Seq(SoundCalls)
<1> USE DEF ToolInv
<1>1. PICK D : D = Len(calls)
  OBVIOUS
<1>2. PICK v : v = calls[D]
  OBVIOUS
<1>3. ASSUME calls # <<>>
      PROVE  /\ D \in Nat \ {0} /\ D \in 1 .. Len(calls)
             /\ v \in SoundCalls /\ v \in Visited /\ DirCluster(v.flc) /\ (v.pass = "print" => v.i = 0)
             /\ InChain(v.next) => DirCluster(v.next) /\ owner[v.next] = owner[v.flc]
             /\ Now = v
             /\ \A w \in SoundCalls : [calls EXCEPT ![D] = w] \in Seq(SoundCalls)
             /\ \A w, x \in SoundCalls : Append([calls EXCEPT ![D] = w], x) \in Seq(SoundCalls)
  <2>1. v \in SoundCalls
    BY <1>1, <1>2, <1>3, Stack
  <2>2. v \in Visited
    BY <2>1 DEF SoundCalls
  <2> QED BY <1>1, <1>2, <1>3, <2>1, <2>2, Stack DEF SoundCalls, Now
<1>4. ASSUME calls # <<>>, InChain(v.next)
      PROVE  LET n == Follow(v.next)
             IN  n \in Entry12 /\ (InChain(n) => DirCluster(n) /\ owner[n] = owner[v.flc])
  BY <1>3, <1>4, Followed DEF Follow
<1>5. CASE EnterFromRoot
  <2>1. PICK c : c = entry[place].loc
    OBVIOUS
  <2>2. place \in Slot => DirCluster(c)
    BY <1>5, <2>1, Entered DEF EnterFromRoot, SkippedInRoot, Skipped, IsFile
  <2>3. calls' = <<Visit(c)>>
    BY <1>5, <2>1 DEF EnterFromRoot
  <2>4. place \in 1 .. RootSlots
    BY <1>5, VolumeAssumption DEF EnterFromRoot, RootHasMore, RootSlots
  <2>5. Visit(c) \in SoundCalls
    BY <2>2, <2>4, SlotsApart, FrameOfCall
  <2> HIDE DEF Visit
  <2> QED BY <2>3, <2>5
<1>6. CASE PrintNextCluster
  <2>1. calls # <<>> /\ InChain(v.next)
    BY <1>3, <1>6 DEF PrintNextCluster, PrintsCluster, InPass
  <2>2. PICK n : n = Follow(v.next)
    OBVIOUS
  <2>3. [v EXCEPT !.next = n] \in SoundCalls
    BY <1>3, <1>4, <2>1, <2>2 DEF SoundCalls, Visited
  <2>4. calls' = [calls EXCEPT ![D] = [v EXCEPT !.next = n]]
    <3> HIDE DEF Follow
    <3> QED BY <1>1, <1>2, <1>3, <1>6, <2>1, <2>2 DEF PrintNextCluster
  <2> QED BY <1>3, <2>1, <2>3, <2>4
<1>7. CASE StartWalk
  <2>1. calls # <<>>
    BY <1>7 DEF StartWalk, InPass
  <2>2. [v EXCEPT !.pass = "walk", !.next = v.flc] \in SoundCalls
    <3>1. v.flc \in Entry12
      BY <1>3, <2>1, Marks DEF Visited
    <3> QED BY <1>3, <2>1, <3>1 DEF SoundCalls, Visited
  <2>3. calls' = [calls EXCEPT ![D] = [v EXCEPT !.pass = "walk", !.next = v.flc]]
    BY <1>1, <1>3, <1>7, <2>1 DEF StartWalk, Rewind
  <2> QED BY <1>3, <2>1, <2>2, <2>3
<1>8. ASSUME WalksEntry PROVE [v EXCEPT !.i = v.i + 1] \in SoundCalls
  <2>1. calls # <<>> /\ v.i < EntriesPerSector /\ v.pass = "walk"
    BY <1>3, <1>8 DEF WalksEntry, InPass
  <2>2. v.i + 1 \in 0 .. EntriesPerSector
    BY <1>3, <2>1, VolumeAssumption DEF Visited
  <2> QED BY <1>3, <2>1, <2>2 DEF SoundCalls, Visited
<1>9. CASE PassEntry
  <2>1. calls # <<>> /\ calls' = [calls EXCEPT ![D] = [v EXCEPT !.i = v.i + 1]]
    BY <1>1, <1>2, <1>3, <1>9 DEF PassEntry, WalksEntry, InPass
  <2> QED BY <1>3, <1>8, <1>9, <2>1 DEF PassEntry
<1>10. CASE EnterSub
  <2>1. calls # <<>> /\ NowSlot \in Slot
    BY <1>10 DEF EnterSub, WalksEntry, InPass
  <2>2. PICK c : c = entry[NowSlot].loc
    OBVIOUS
  <2>3. Visit(c) \in SoundCalls
    BY <1>10, <2>1, <2>2, Entered, FrameOfCall DEF EnterSub, SkippedInSub, Skipped, IsFile
  <2>4. calls' = Append([calls EXCEPT ![D] = [v EXCEPT !.i = v.i + 1]], Visit(c))
    BY <1>1, <1>2, <1>3, <1>10, <2>1, <2>2 DEF EnterSub
  <2>5. WalksEntry
    BY <1>10 DEF EnterSub
  <2> HIDE DEF Visit
  <2> QED BY <1>3, <1>8, <2>1, <2>3, <2>4, <2>5
<1>11. CASE NextCluster
  <2>1. calls # <<>> /\ InChain(v.next)
    BY <1>3, <1>11 DEF NextCluster, InPass
  <2>2. PICK n : n = Follow(v.next)
    OBVIOUS
  <2>3. PICK w : w = [v EXCEPT !.i = 0, !.next = n]
    OBVIOUS
  <2>4. w \in SoundCalls
    <3>1. 0 \in 0 .. EntriesPerSector
      BY VolumeAssumption
    <3> QED BY <1>3, <1>4, <2>1, <2>2, <2>3, <3>1 DEF SoundCalls, Visited
  <2>5. calls' = [calls EXCEPT ![D].i = 0, ![D].next = Follow(@)]
    BY <1>1, <1>11 DEF NextCluster
  <2> HIDE DEF Follow
  <2>6. calls' = [calls EXCEPT ![D] = w]
    BY <1>2, <1>3, <2>1, <2>2, <2>3, <2>5 DEF Visited
  <2> QED BY <1>3, <2>1, <2>4, <2>6
<1>12. CASE Return
  BY <1>12, Stack DEF Return, InPass
<1>13. CASE UNCHANGED calls
  BY <1>13
<1> QED BY <1>5, <1>6, <1>7, <1>9, <1>10, <1>11, <1>12, <1>13
        DEF ListStep, StartList, PrintRootEntry, NextRootSector, RootPrinted, PrintEntry,
            PassRootEntry, RootWalked

LEMMA ListSound ==
  ASSUME ToolInv, older # "off", ListStep, UNCHANGED <<volume, infoVars, olderVars>>
  PROVE  ToolInv'
<1> USE DEF ToolInv, infoVars, olderVars
<1>1. VolumeInv' /\ frames' \in Seq(SoundFrames)' /\ calls' \in Seq(SoundCalls)'
  BY VolumeKept, CallsKept
<1>2. Answers'
  BY VolumeKept DEF Answers
<1> HIDE DEF Follow
<1>3. list' # "off" /\ (list' = "root" => calls' = <<>>)
  BY DEF InTurn, ListStep, StartList, PrintRootEntry, NextRootSector, RootPrinted, PassRootEntry,
         EnterFromRoot, RootWalked, WalksRoot, InPass, PrintsCluster, PrintEntry, PrintNextCluster,
         StartWalk, WalksEntry, PassEntry, EnterSub, NextCluster, Return
<1>4. InTurn'
  BY <1>3 DEF InTurn
<1>5. place' \in Nat \ {0}
  BY DEF Advance, ListStep, StartList, PrintRootEntry, NextRootSector, RootPrinted, PassRootEntry,
         EnterFromRoot, RootWalked, WalksRoot, InPass, PrintsCluster, PrintEntry, PrintNextCluster,
         StartWalk, WalksEntry, PassEntry, EnterSub, NextCluster, Return
<1>6. shown' \in 0 .. EntriesPerSector
  <2>1. CASE PrintRootEntry \/ PrintEntry
    <3>1. shown < EntriesPerSector /\ shown' = shown + 1
      BY <2>1 DEF PrintRootEntry, PrintEntry, ShowEntry, SectorShown
    <3> QED BY <3>1, VolumeAssumption
  <2>2. CASE shown' = 0 \/ UNCHANGED shown
    BY <2>2, VolumeAssumption
  <2> QED BY <2>1, <2>2
       DEF ListStep, StartList, NextRootSector, RootPrinted, PassRootEntry, EnterFromRoot,
           RootWalked, PrintNextCluster, StartWalk, PassEntry, EnterSub, NextCluster, Return
<1>7. \E n \in Nat : print_root' = n * EntriesPerSector + 1
  <2>1. CASE NextRootSector
    <3>1. PICK n \in Nat : print_root = n * EntriesPerSector + 1
      OBVIOUS
    <3>2. /\ n + 1 \in Nat /\ (n + 1) * EntriesPerSector = n * EntriesPerSector + 1 * EntriesPerSector
          /\ 1 * EntriesPerSector = EntriesPerSector /\ n * EntriesPerSector \in Nat
      BY VolumeAssumption, Product
    <3>3. print_root' = (n + 1) * EntriesPerSector + 1
      BY <2>1, <3>1, <3>2, VolumeAssumption DEF NextRootSector
    <3> QED BY <3>2, <3>3
  <2>2. CASE UNCHANGED print_root
    BY <2>2
  <2> QED BY <2>1, <2>2
       DEF ListStep, StartList, PrintRootEntry, RootPrinted, PassRootEntry, EnterFromRoot,
           RootWalked, PrintEntry, PrintNextCluster, StartWalk, PassEntry, EnterSub, NextCluster,
           Return
<1> QED BY <1>1, <1>2, <1>4, <1>5, <1>6, <1>7

LEMMA OlderSound ==
  ASSUME ToolInv, info # "off", RunOlder, UNCHANGED <<volume, infoVars, listVars>>
  PROVE  ToolInv'
<1> USE DEF ToolInv, infoVars, listVars
<1>1. VolumeInv' /\ frames' \in Seq(SoundFrames)' /\ calls' \in Seq(SoundCalls)'
  BY VolumeKept
<1>2. older' = "done" => /\ freeSizeOfDisk' = Cardinality(OlderCounted)
                         /\ diskVolumeLabel' = fetchDiskVolumeLable(Scanned)
  BY OlderCountsFree DEF RunOlder
<1>3. Answers'
  BY <1>2, VolumeKept DEF Answers
<1>4. InTurn'
  BY DEF InTurn, RunOlder
<1> QED BY <1>1, <1>3, <1>4

LEMMA UseSound ==
  ASSUME ToolInv, Use
  PROVE  ToolInv'
<1> USE DEF ToolInv, Use, infoVars, olderVars, listVars
<1>1. VolumeInv'
  BY ChangeSound
<1>2. frames = <<>> /\ calls = <<>>
  BY DEF InTurn
<1>3. frames' \in Seq(SoundFrames)' /\ calls' \in Seq(SoundCalls)'
  BY <1>2
<1>4. InTurn' /\ Answers'
  BY DEF InTurn, Answers
<1> QED BY <1>1, <1>3, <1>4

-----------------------------------------------------------------------------
(* Theorems *)

\* Whatever has been done to a disk of any size, and wherever the tools are: its
\* table, its directories and the walks over them are as ToolInv says.
THEOREM ToolsSound == Spec => []ToolInv
<1>1. Init => ToolInv
  <2>1. VolumeInit => VolumeInv
    BY VolumeInitially
  <2>2. 0 \in 0 .. EntriesPerSector /\ 0 \in Nat /\ 1 = 0 * EntriesPerSector + 1
    BY VolumeAssumption
  <2> QED BY <2>1, <2>2
       DEF Init, InfoInit, OlderInit, ListInit, ToolInv, InTurn, Answers
<1>2. ToolInv /\ [Next]_vars => ToolInv'
  <2> SUFFICES ASSUME ToolInv, [Next]_vars PROVE ToolInv'
    OBVIOUS
  <2>1. CASE Use
    BY <2>1, UseSound
  <2>2. CASE RunInfo
    BY <2>2, InfoSound DEF RunInfo
  <2>3. CASE RunInfo2
    BY <2>3, OlderSound DEF RunInfo2
  <2>4. CASE RunList
    BY <2>4, ListSound DEF RunList
  <2>5. CASE UNCHANGED vars
    <3>1. UNCHANGED <<volume, infoVars, olderVars, listVars>>
      BY <2>5 DEF vars
    <3> QED BY <3>1, VolumeKept
         DEF ToolInv, InTurn, Answers, infoVars, olderVars, listVars
  <2> QED BY <2>1, <2>2, <2>3, <2>4, <2>5 DEF Next
<1> QED BY <1>1, <1>2, PTL DEF Spec

\* countEmptyFATentries (a3/diskinfo.c) counts the clusters that belong to no file
\* or directory, on a disk of every size that 12 bits can number.
THEOREM FreeSpaceIsRight == Spec => []FreeSpaceRight
<1>1. ToolInv => FreeSpaceRight
  BY DEF ToolInv, Answers, FreeSpaceRight
<1> QED BY <1>1, ToolsSound, PTL

\* parse_sub of both tools reads the entries of the directory it was called for,
\* on disks of every size, however deep the directories are nested and however
\* long their chains are.
THEOREM ParsesDirectoriesOnly == Spec => []ParsesDirectories
<1>1. ASSUME ToolInv PROVE ParsesDirectories
  <2>1. ASSUME NEW c, DirCluster(c) PROVE c \in Cluster /\ owner[c] \in Dirs \ {Root}
    BY <1>1, <2>1, Marks DEF ToolInv, VolumeInv, VolumeTypes, DirCluster, Dirs
  <2>2. \A n \in 1 .. Len(frames) : frames[n] \in SoundFrames
    BY <1>1, ElementOfSeq DEF ToolInv
  <2>3. \A n \in 1 .. Len(calls) : calls[n] \in SoundCalls
    BY <1>1, ElementOfSeq DEF ToolInv
  <2> QED BY <2>1, <2>2, <2>3 DEF ParsesDirectories, SoundFrames, SoundCalls, DirCluster
<1>2. ToolInv => ParsesDirectories
  BY <1>1
<1> QED BY <1>2, ToolsSound, PTL

-----------------------------------------------------------------------------
(* The label *)

LEMMA Least ==
  ASSUME NEW S \in SUBSET Nat, S # {}
  PROVE  \E s \in S : \A t \in S : s <= t
<1> DEFINE R == OpToRel(<, Nat)
<1>1. IsWellFoundedOn(R, Nat)
  BY NatLessThanWellFounded
<1>2. ASSUME NEW x \in Nat, NEW y \in Nat, x < y PROVE <<x, y>> \in R
  BY <1>2 DEF OpToRel
<1> HIDE DEF R
<1>3. S \subseteq Nat
  OBVIOUS
<1>4. PICK s \in S : \A t \in S : ~(<<t, s>> \in R)
  BY <1>1, <1>3, WFMin
<1>5. ASSUME NEW t \in S PROVE s <= t
  <2>1. ~(t < s)
    BY <1>2, <1>3, <1>4
  <2> QED BY <1>3, <2>1
<1> QED BY <1>5

LEMMA Greatest ==
  ASSUME NEW n \in Nat, NEW S \in SUBSET (1 .. n), S # {}
  PROVE  LastOf(S) \in S /\ \A t \in S : t <= LastOf(S)
<1>1. PICK d \in {n - s : s \in S} : \A e \in {n - s : s \in S} : d <= e
  <2>1. \A s \in S : s \in Nat /\ n - s \in Nat
    OBVIOUS
  <2>2. PICK s \in S : TRUE
    OBVIOUS
  <2>3. n - s \in {n - t : t \in S}
    OBVIOUS
  <2>4. {n - t : t \in S} \in SUBSET Nat
    BY <2>1
  <2>5. {n - t : t \in S} # {}
    BY <2>3
  <2> HIDE <2>1
  <2> QED BY <2>4, <2>5, Least
<1>2. PICK s \in S : d = n - s
  BY <1>1
<1>3. ASSUME NEW t \in S PROVE t <= s
  <2>1. n - t \in {n - x : x \in S}
    OBVIOUS
  <2>2. d <= n - t /\ s \in Nat /\ t \in Nat
    BY <1>1, <2>1
  <2> QED BY <1>2, <2>2
<1> QED BY <1>2, <1>3 DEF LastOf

\* The entries in use of the root are in front of the unused ones.
RootPacked ==
  \A s, t \in 1 .. RootSlots : s < t /\ entry[s].kind = "end" => entry[t].kind = "end"

\* In the root, an entry is put in front of all unused ones, or over one in use.
PutsOne(s) ==
  /\ entry'[s].kind # "end"
  /\ \A t \in 1 .. RootSlots : t # s => entry'[t] = entry[t]
  /\ s \in 1 .. RootSlots /\ entry[s].kind = "end" =>
       \A t \in 1 .. RootSlots : t < s => entry[t].kind # "end"

LEMMA StaysPacked ==
  ASSUME RootPacked, NEW s, PutsOne(s)
  PROVE  RootPacked'
<1>1. PICK r : r = RootSlots
  OBVIOUS
<1> SUFFICES ASSUME NEW x \in 1 .. r, NEW y \in 1 .. r, x < y, entry'[x].kind = "end"
             PROVE  entry'[y].kind = "end"
  BY <1>1 DEF RootPacked
<1>2. x # s /\ entry[x].kind = "end"
  BY <1>1 DEF PutsOne
<1>3. entry[y].kind = "end"
  BY <1>1, <1>2 DEF RootPacked
<1>4. y # s
  BY <1>1, <1>2, <1>3 DEF PutsOne
<1> QED BY <1>1, <1>3, <1>4 DEF PutsOne

LEMMA UsableIsFirst ==
  ASSUME VolumeInv, NEW d \in Dirs, NEW s \in Usable(d)
  PROVE  /\ s \in Slot
         /\ s \in 1 .. RootSlots => \A t \in 1 .. RootSlots : t < s => entry[t].kind # "end"
<1>1. s \in Contents(d) /\ \A t \in Holds(d, {"end"} \union Deleted) : s <= t
  BY DEF Usable, First, Holds
<1>2. s \in Slot /\ (d # Root => s \notin 1 .. RootSlots)
  BY <1>1, SlotOfDir, SlotsApart
<1>3. ASSUME d = Root, NEW t \in 1 .. RootSlots, t < s, entry[t].kind = "end" PROVE FALSE
  <2>1. t \in Holds(d, {"end"} \union Deleted)
    BY <1>3 DEF Holds, Contents
  <2>2. s <= t
    BY <1>1, <2>1
  <2>3. s \in Nat /\ t \in Nat
    BY <1>2 DEF Slot
  <2> QED BY <1>3, <2>2, <2>3
<1> QED BY <1>2, <1>3

LEMMA ChangePacked ==
  ASSUME VolumeInv, RootPacked, ChangeVolume
  PROVE  RootPacked'
<1> DEFINE label_ == [kind |-> "label", loc |-> NoCluster]
           file_ == [kind |-> "file", loc |-> NoCluster]
<1>1. ASSUME NEW d \in Dirs, NEW s \in Usable(d), NEW e, e.kind # "end",
             entry' = [entry EXCEPT ![s] = e]
      PROVE  RootPacked'
  <2>1. PutsOne(s)
    BY <1>1, UsableIsFirst, SlotsApart DEF PutsOne, VolumeInv, VolumeTypes
  <2> QED BY <2>1, StaysPacked
<1>2. CASE Label
  <2>1. Root \in Dirs /\ label_.kind # "end"
    BY DEF Dirs
  <2> QED BY <1>1, <1>2, <2>1 DEF Label
<1>3. CASE Unlabel
  <2>1. PICK s \in Labels : entry' = [entry EXCEPT ![s].kind = Gone(@)]
    BY <1>3 DEF Unlabel
  <2>2. s \in 1 .. RootSlots /\ s \in Slot /\ entry[s].kind = "label"
    BY SlotsApart DEF Labels, Holds, Contents
  <2>3. entry'[s].kind = "deletedLabel"
    BY <2>1, <2>2 DEF Gone, VolumeInv, VolumeTypes
  <2>4. PutsOne(s)
    BY <2>1, <2>2, <2>3, SlotsApart DEF PutsOne, VolumeInv, VolumeTypes
  <2> QED BY <2>4, StaysPacked
<1>4. ASSUME NEW d \in Dirs, NEW s \in Usable(d), MakeEmptyFile(s) PROVE RootPacked'
  <2>1. file_.kind # "end" /\ entry' = [entry EXCEPT ![s] = file_]
    BY <1>4 DEF MakeEmptyFile
  <2> HIDE DEF file_
  <2> QED BY <1>1, <2>1
<1>5. ASSUME NEW d \in Dirs, NEW s \in Usable(d), NEW c \in Available,
             MakeFile(s, c) \/ MakeDir(s, c)
      PROVE  RootPacked'
  <2>1. c \in Cluster /\ SlotAt(c, 0) \in SlotsOf(c) /\ SlotsOf(c) \subseteq Slot \ (1 .. RootSlots)
    BY SlotsApart DEF Available, First, FreeClusters
  <2>2. s \in Slot /\ s \notin SlotsOf(c)
    BY Unused DEF Usable, First, Holds, Available, FreeClusters
  <2>3. entry'[s].kind # "end" /\ \A t \in Slot : t # s /\ t \notin SlotsOf(c) => entry'[t] = entry[t]
    <3>1. CASE MakeFile(s, c)
      BY <2>2, <3>1 DEF MakeFile
    <3>2. CASE MakeDir(s, c)
      <4>1. entry'[s] = [kind |-> "dir", loc |-> c]
        BY <2>1, <2>2, <3>2 DEF MakeDir
      <4>2. \A t \in Slot : t # s /\ t \notin SlotsOf(c) => entry'[t] = entry[t]
        BY <2>1, <3>2 DEF MakeDir
      <4> QED BY <4>1, <4>2
    <3> QED BY <1>5, <3>1, <3>2
  <2>4. PutsOne(s)
    BY <2>1, <2>3, UsableIsFirst, SlotsApart DEF PutsOne
  <2> QED BY <2>4, StaysPacked
<1>6. ASSUME NEW d \in Dirs, NEW c \in Available, Extend(d, c) PROVE RootPacked'
  <2>1. c \in Cluster
    BY DEF Available, First, FreeClusters
  <2>2. \A t \in 1 .. RootSlots : entry'[t] = entry[t]
    BY <1>6, <2>1, SlotsApart DEF Extend
  <2> QED BY <2>2 DEF RootPacked
<1>7. ASSUME NEW d \in Dirs, NEW s \in Holds(d, {"file", "dir"}), Delete(s) PROVE RootPacked'
  <2>1. s \in Slot /\ s # Root /\ entry[s].kind \in {"file", "dir"}
    BY SlotOfDir, Marks DEF Holds
  <2>2. Contents(s) \cap (1 .. RootSlots) = {}
    BY <2>1, SlotsApart DEF Contents
  <2> DEFINE e == [kind |-> Gone(entry[s].kind), loc |-> IF entry[s].loc = NoCluster THEN NoCluster ELSE 2]
  <2>4. e.kind # "end"
    BY <2>1 DEF Gone
  <2>5. entry' = [t \in Slot |-> CASE t = s -> e [] t \in Contents(s) -> EndEntry [] OTHER -> entry[t]]
    BY <1>7, Zenon DEF Delete
  <2> HIDE DEF e
  <2>6. \A t \in 1 .. RootSlots : entry'[t] = IF t = s THEN e ELSE entry[t]
    BY <2>2, <2>5, SlotsApart
  <2>7. RootPacked'
    <3>1. CASE s \in 1 .. RootSlots
      BY <2>1, <2>4, <2>6, <3>1 DEF RootPacked
    <3>2. CASE s \notin 1 .. RootSlots
      BY <2>6, <3>2 DEF RootPacked
    <3> QED BY <3>1, <3>2
  <2> QED BY <2>7
<1>8. CASE SetAttribute
  BY <1>8 DEF SetAttribute, RootPacked
<1> QED BY <1>2, <1>3, <1>4, <1>5, <1>6, <1>7, <1>8 DEF ChangeVolume, ChangeEntries

\* What diskinfo takes for the label, for any way in which the disk was used.
LEMMA LabelFound ==
  ASSUME VolumeInv, RootPacked, RootHasEnd, label = LabelAmong(Scanned),
         info \in {"counting", "done"}
  PROVE  LabelIsCurrent
<1> DEFINE matches == {s \in Scanned : entry[s].kind \in {"label", "deletedLabel"}}
<1>1. PICK r \in Nat : r = RootSlots
  BY VolumeAssumption, Product DEF RootSlots
<1>2. PICK e \in 1 .. r : entry[e].kind = "end"
  BY <1>1 DEF RootHasEnd, Holds, Contents
<1>3. Scanned \subseteq 1 .. r
  <2> SUFFICES ASSUME NEW s \in Scanned, s \notin 1 .. r PROVE FALSE
    OBVIOUS
  <2>1. s \in Nat /\ s > 0 /\ \A t \in 1 .. s : entry[t].kind # "end"
    <3>1. s \in Slot
      BY DEF Scanned
    <3>2. Slot \subseteq Nat \ {0}
      BY DEF Slot
    <3> QED BY <3>1, <3>2 DEF Scanned
  <2> QED BY <1>2, <2>1
<1>4. Labels = {s \in 1 .. r : entry[s].kind = "label"}
  BY <1>1 DEF Labels, Holds, Contents
<1>5. Holds(Root, {"deletedLabel"}) = {s \in 1 .. r : entry[s].kind = "deletedLabel"}
  BY <1>1 DEF Holds, Contents
<1>6. Labels \subseteq matches
  <2> SUFFICES ASSUME NEW s \in Labels PROVE s \in matches
    OBVIOUS
  <2>1. s \in 1 .. r /\ entry[s].kind = "label" /\ s \in Slot
    BY <1>1, <1>4, SlotsApart
  <2>2. \A t \in 1 .. s : entry[t].kind # "end"
    BY <1>1, <2>1 DEF RootPacked
  <2> QED BY <2>1, <2>2 DEF Scanned
<1>7. label = IF matches = {} THEN NoLabel ELSE LastOf(matches)
  BY DEF LabelAmong
<1>8. matches # {} => label \in matches /\ \A t \in matches : t <= label
  <2>1. matches \in SUBSET (1 .. r)
    BY <1>3
  <2> HIDE DEF matches
  <2> QED BY <1>1, <1>7, <2>1, Greatest
<1>9. \A s \in matches : s \in 1 .. r /\ (s \in Labels \/ s \in Holds(Root, {"deletedLabel"}))
  BY <1>3, <1>4, <1>5
<1> HIDE DEF matches
<1>12. Labels # {} /\ Holds(Root, {"deletedLabel"}) = {} => label \in Labels
  BY <1>6, <1>8, <1>9
<1>13. Labels = {} /\ Holds(Root, {"deletedLabel"}) = {} => label = NoLabel
  BY <1>7, <1>9
<1> QED BY <1>12, <1>13 DEF LabelIsCurrent, IsLabel

\* The scan at a3/diskinfo.c:48 finds the label of the disk as long as the root has
\* no deleted one, on disks of every size and after any use.
THEOREM LabelIsRight == Spec => []LabelIsCurrent
<1>1. Init => RootPacked
  <2>1. VolumeInit => RootPacked
    BY SlotsApart DEF VolumeInit, RootPacked, EndEntry
  <2> QED BY <2>1 DEF Init
<1>2. ToolInv /\ RootPacked /\ [Next]_vars => RootPacked'
  <2> SUFFICES ASSUME ToolInv, RootPacked, [Next]_vars PROVE RootPacked'
    OBVIOUS
  <2>1. CASE Use
    BY <2>1, ChangePacked DEF Use, ToolInv
  <2>2. CASE UNCHANGED volume
    BY <2>2 DEF volume, RootPacked
  <2> QED BY <2>1, <2>2 DEF Next, RunInfo, RunInfo2, RunList, vars
<1>3. ToolInv /\ RootPacked => LabelIsCurrent
  <2> SUFFICES ASSUME ToolInv, RootPacked PROVE LabelIsCurrent
    OBVIOUS
  <2>1. CASE info \in {"counting", "done"}
    BY <2>1, LabelFound DEF ToolInv, Answers
  <2>2. CASE info \notin {"counting", "done"}
    BY <2>2 DEF LabelIsCurrent
  <2> QED BY <2>1, <2>2
<1> QED BY <1>1, <1>2, <1>3, ToolsSound, PTL DEF Spec
-----------------------------------------------------------------------------
(* Types *)

Printed == [what : {"header", "line"}, slot : Slot \union {Root}, path : Seq(Slot)]

\* What TypeOK says of the variables ToolInv does not speak of.
Typed ==
  /\ flagged \subseteq 1 .. RootSlots
  /\ changes \in 0 .. MaxChanges
  /\ info \in {"off", "counting", "done", "astray"}
  /\ label \in {NoLabel} \union Slot
  /\ free \in Nat /\ cursor \in Nat /\ count \in Nat
  /\ older \in {"off", "done", "astray"}
  /\ diskVolumeLabel \in {NoLabel} \union Slot
  /\ freeSizeOfDisk \in Nat /\ numOfFiles \in Nat
  /\ list \in {"off", "root", "walking", "done"}
  /\ dir_path \in Seq(Slot)
  /\ out \in Seq(Printed)

LEMMA AnswersTyped ==
  ASSUME VolumeInv
  PROVE  /\ LabelAmong(Scanned) \in {NoLabel} \union Slot
         /\ fetchDiskVolumeLable(Scanned) \in {NoLabel} \union Slot
         /\ countEmptyFATentries \in Nat
         /\ OlderFree \in Nat
         /\ totalNumOfFiles(Scanned) \in Nat
<1>1. PICK n \in Nat : Slot = 1 .. n
  BY SlotCount
<1>2. \A S \in SUBSET Scanned : S # {} => LastOf(S) \in Slot
  <2> SUFFICES ASSUME NEW S \in SUBSET Scanned, S # {} PROVE LastOf(S) \in Slot
    OBVIOUS
  <2>1. S \in SUBSET (1 .. n)
    BY <1>1 DEF Scanned
  <2>2. LastOf(S) \in S
    BY <2>1, Greatest
  <2> QED BY <1>1, <2>1, <2>2
<1>3. LabelAmong(Scanned) \in {NoLabel} \union Slot
  BY <1>2, {s \in Scanned : entry[s].kind \in {"label", "deletedLabel"}} \in SUBSET Scanned
     DEF LabelAmong
<1>4. fetchDiskVolumeLable(Scanned) \in {NoLabel} \union Slot
  BY <1>2, {s \in Scanned \ flagged : entry[s].kind \in {"label", "deletedLabel"}} \in SUBSET Scanned
     DEF fetchDiskVolumeLable
<1>5. {s \in Scanned \ flagged : entry[s].kind \in {"file", "deletedFile"}} \in SUBSET Slot
  BY DEF Scanned
<1> QED BY <1>3, <1>4, <1>5, CountsFree, OlderCountsFree, SlotCount DEF totalNumOfFiles

LEMMA InfoTyped ==
  ASSUME ToolInv, Typed, InfoStep, UNCHANGED <<volume, olderVars, listVars>>
  PROVE  Typed'
<1> USE DEF Typed, volume, olderVars, listVars
<1>1. LabelAmong(Scanned) \in {NoLabel} \union Slot /\ countEmptyFATentries \in Nat
  BY AnswersTyped DEF ToolInv
<1>2. CASE StartInfo
  BY <1>1, <1>2 DEF StartInfo
<1>3. CASE SubReturn
  <2>1. Top.total \in Nat
    BY <1>3, Stack DEF SubReturn, Top, Depth, ToolInv, SoundFrames, Frame
  <2>2. count' = count + Top.total \/ count' = count
    BY <1>3 DEF SubReturn, GiveBack
  <2>3. count' \in Nat
    BY <2>1, <2>2
  <2> QED BY <1>3, <2>3 DEF SubReturn
<1>4. CASE Astray \/ RootSkip \/ RootFile \/ RootDir \/ RootEnd
  BY <1>4 DEF Astray, RootSkip, RootFile, RootDir, RootEnd
<1>5. CASE SubSkip \/ SubFile \/ SubDir \/ SubNextCluster
  BY <1>5 DEF SubSkip, SubFile, SubDir, SubNextCluster
<1> QED BY <1>2, <1>3, <1>4, <1>5 DEF InfoStep

LEMMA ListTyped ==
  ASSUME ToolInv, Typed, ListStep, UNCHANGED <<volume, infoVars, olderVars>>
  PROVE  Typed'
<1> USE DEF volume, infoVars, olderVars
<1>1. ASSUME NEW s \in Slot \union {Root}, NEW q \in Seq(Slot)
      PROVE  Header(s, q) \in Printed /\ Line(s) \in Printed
  BY DEF Header, Line, Printed
<1>2. \A x \in Printed : Append(out, x) \in Seq(Printed)
  BY DEF Typed
<1>3. \A s \in Slot : Append(dir_path, s) \in Seq(Slot)
  BY DEF Typed
<1>4. out' \in Seq(Printed) /\ dir_path' \in Seq(Slot)
  <2>1. CASE StartList
    <3>1. Header(Root, <<>>) \in Printed
      BY <1>1, EmptySeq
    <3> HIDE DEF Printed, Header
    <3> QED BY <2>1, <3>1 DEF StartList, Typed
  <2>2. CASE PrintRootEntry \/ PrintEntry
    <3>1. PICK s \in Slot : out' = Append(out, Line(s)) \/ out' = out
      <4>1. shown < EntriesPerSector
        BY <2>2 DEF PrintRootEntry, PrintEntry, ShowEntry, SectorShown
      <4> QED BY <2>2, <4>1, PrintsSlots DEF PrintRootEntry, PrintEntry, ShowEntry
    <3>2. Line(s) \in Printed
      BY <1>1, EmptySeq
    <3> QED BY <1>2, <2>2, <3>1, <3>2 DEF PrintRootEntry, PrintEntry, Typed
  <2>3. CASE EnterFromRoot
    <3>1. place \in Slot
      <4>1. PICK R \in Nat : R = RootSlots
        BY VolumeAssumption, Product DEF RootSlots
      <4>2. place \in 1 .. R
        BY <2>3, <4>1 DEF EnterFromRoot, RootHasMore, ToolInv
      <4> QED BY <4>1, <4>2, SlotsApart
    <3>2. PICK q : q = <<place>>
      OBVIOUS
    <3>3. q \in Seq(Slot) /\ dir_path' = q /\ out' = Append(out, Header(place, q))
      BY <2>3, <3>1, <3>2 DEF EnterFromRoot
    <3> QED BY <1>1, <1>2, <3>1, <3>3
  <2>4. CASE EnterSub
    <3>1. PICK s \in Slot : s = NowSlot
      BY <2>4 DEF EnterSub, WalksEntry
    <3>2. PICK q \in Seq(Slot) : q = Append(dir_path, s) /\ dir_path' = q /\ out' = Append(out, Header(s, q))
      BY <1>3, <2>4, <3>1 DEF EnterSub
    <3> QED BY <1>1, <1>2, <3>1, <3>2
  <2>5. CASE UNCHANGED <<out, dir_path>>
    BY <2>5 DEF Typed
  <2> QED BY <2>1, <2>2, <2>3, <2>4, <2>5
       DEF ListStep, NextRootSector, RootPrinted, PassRootEntry, RootWalked, PrintNextCluster,
           StartWalk, PassEntry, NextCluster, Return
<1>5. list' \in {"off", "root", "walking", "done"}
  BY DEF Typed, ListStep, StartList, PrintRootEntry, NextRootSector, RootPrinted, PassRootEntry,
         EnterFromRoot, RootWalked, PrintEntry, PrintNextCluster, StartWalk, PassEntry, EnterSub,
         NextCluster, Return
<1> QED BY <1>4, <1>5 DEF Typed, Printed

\* All variables have their types, on disks of every size: no walk of a tool
\* leaves the disk, and every line that is printed is of an entry.
THEOREM ToolTypes == Spec => []TypeOK
<1>1. Init => Typed
  BY VolumeAssumption DEF Init, VolumeInit, InfoInit, OlderInit, ListInit, Typed
<1>2. ToolInv /\ Typed /\ [Next]_vars => Typed'
  <2> SUFFICES ASSUME ToolInv, Typed, [Next]_vars PROVE Typed'
    OBVIOUS
  <2>1. CASE Use
    <3>1. changes' \in 0 .. MaxChanges
      BY <2>1, VolumeAssumption DEF Use, ChangeVolume, Typed
    <3>2. flagged' \subseteq 1 .. RootSlots
      BY <2>1 DEF Use, ChangeVolume, KeepAttributes, SetAttribute, Holds, Contents, Typed
    <3> QED BY <2>1, <3>1, <3>2 DEF Use, infoVars, olderVars, listVars, Typed, Printed
  <2>2. CASE RunInfo
    BY <2>2, InfoTyped DEF RunInfo
  <2>3. CASE RunInfo2
    BY <2>3, AnswersTyped DEF RunInfo2, RunOlder, volume, infoVars, listVars, Typed, Printed, ToolInv
  <2>4. CASE RunList
    BY <2>4, ListTyped DEF RunList
  <2>5. CASE UNCHANGED vars
    BY <2>5 DEF vars, volume, infoVars, olderVars, listVars, Typed, Printed
  <2> QED BY <2>1, <2>2, <2>3, <2>4, <2>5 DEF Next
<1>3. ToolInv /\ Typed => TypeOK
  <2> SUFFICES ASSUME ToolInv, Typed PROVE TypeOK
    OBVIOUS
  <2>1. \A n \in Nat : n * EntriesPerSector + 1 \in Nat
    BY VolumeAssumption, Product
  <2>2. /\ SoundFrames \subseteq [next : Entry12, i : 0 .. EntriesPerSector, total : Nat]
        /\ SoundCalls \subseteq [flc : Cluster, next : Entry12, i : 0 .. EntriesPerSector,
                                 pass : {"print", "walk"}]
    BY DEF SoundFrames, SoundCalls, Frame, Visited
  <2>3. /\ frames \in Seq([next : Entry12, i : 0 .. EntriesPerSector, total : Nat])
        /\ calls \in Seq([flc : Cluster, next : Entry12, i : 0 .. EntriesPerSector,
                          pass : {"print", "walk"}])
    BY <2>2, SeqMonotonic DEF ToolInv
  <2> QED BY <2>1, <2>3 DEF TypeOK, Typed, Printed, ToolInv, VolumeInv, VolumeTypes, Kind
<1> QED BY <1>1, <1>2, <1>3, ToolsSound, PTL DEF Spec
=============================================================================
