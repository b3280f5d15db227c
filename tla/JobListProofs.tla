--------------------------- MODULE JobListProofs ---------------------------
(***************************************************************************)
(* Proofs that the list PMan keeps on the heap is the list of its jobs at  *)
(* every step of every walk along it, for any pids and addresses.          *)
(***************************************************************************)
EXTENDS JobList, PManProofs

JobIInv == PInv /\ JobTypeOK /\ ListOnHeap

\* What cells is while the list is represented by it.
IsList(cells) ==
  /\ cells \in [1 .. Len(jobs) -> Allocated]
  /\ Represents(cells) /\ Appending(cells) /\ Removing(cells)

LEMMA ListExists ==
  /\ ListOnHeap <=> \E cells : IsList(cells)
  /\ ListOnHeap' <=> \E cells : IsList(cells)'
  BY DEF ListOnHeap, IsList

\* The heap only follows what PMan does.
LEMMA PManStep == [JobNext]_allVars => [Next]_vars
  <1>1. ASSUME JobNext PROVE Next \/ UNCHANGED vars
    BY <1>1 DEF JobNext, JobUser, JobLoop, BgEntry, AppendWalk, AppendLink, RemoveFirst, RemoveSearch,
                RemoveWalk, RemoveFound, Next, User, Loop
  <1> QED
    BY <1>1 DEF allVars

LEMMA InitJobIInv == JobInit => JobIInv
  <1> SUFFICES ASSUME JobInit PROVE JobIInv
    OBVIOUS
  <1>1. PInv
    BY InitPInv DEF JobInit
  <1>2. Allocated = {} /\ jobs = <<>> /\ Len(jobs) = 0 /\ 1 .. 0 = {}
    BY DEF JobInit, Init, Allocated
  <1>3. JobTypeOK
    BY <1>2 DEF JobInit, JobTypeOK, Allocated
  <1>4. IsList(<<>>)
    BY <1>2 DEF JobInit, IsList, Represents, Appending, Removing
  <1> QED
    BY <1>1, <1>3, <1>4, ListExists DEF JobIInv

-----------------------------------------------------------------------------
(* Facts about one state *)

\* Nodes of different places are different, and none of them is NULL.
LEMMA CellsDiffer ==
  ASSUME TypeOK, JobTypeOK, NEW cells, IsList(cells)
  PROVE  /\ Len(jobs) \in Nat
         /\ \A i \in 1 .. Len(jobs) : cells[i] \in Allocated /\ cells[i] \in Address /\ cells[i] # NULL
         /\ \A i, j \in 1 .. Len(jobs) : cells[i] = cells[j] => i = j
         /\ jobs \in Seq(Pid)
         /\ (head = NULL) <=> (jobs = <<>>)
         /\ (jobs = <<>>) <=> (Len(jobs) = 0)
  <1>1. Len(jobs) \in Nat /\ jobs \in Seq(Pid) /\ (jobs = <<>> <=> Len(jobs) = 0)
    BY DEF TypeOK
  <1>2. \A i \in 1 .. Len(jobs) : cells[i] \in Allocated /\ cells[i] \in Address /\ cells[i] # NULL
    BY JobListAssumption DEF IsList, JobTypeOK
  <1>3. \A i, j \in 1 .. Len(jobs) : cells[i] = cells[j] => i = j
    BY DEF IsList, Represents, TypeOK
  <1>4. (head = NULL) <=> (jobs = <<>>)
    BY <1>1, <1>2 DEF IsList, Represents
  <1> QED
    BY <1>1, <1>2, <1>3, <1>4

\* No loop runs but where the code has one.
LEMMA WalkPlace ==
  ASSUME NEW cells, IsList(cells), JobTypeOK
  PROVE  /\ at \notin {"check", "reaped"} => walk = "none"
         /\ at = "check" => walk # "remove"
         /\ at = "reaped" => walk # "append"
  BY DEF IsList, Appending, Removing, JobTypeOK

\* The place of the pid to be removed.
LEMMA TargetListed ==
  ASSUME PInv, at = "reaped"
  PROVE  \E k \in 1 .. Len(jobs) : jobs[k] = target
  BY DEF PInv, TargetInv, check_pid

\* Unlinking the place of a pid removes that place.
LEMMA UnlinksPlace ==
  ASSUME TypeOK, Remove, NEW k \in 1 .. Len(jobs), jobs[k] = target
  PROVE  /\ Len(jobs) \in Nat /\ Len(jobs') = Len(jobs) - 1
         /\ \A i \in 1 .. Len(jobs) - 1 : jobs'[i] = IF i < k THEN jobs[i] ELSE jobs[i + 1]
         /\ at' = "check"
  <1>1. /\ jobs \in Seq(Pid) /\ Len(jobs) \in Nat
        /\ \A i, j \in 1 .. Len(jobs) : jobs[i] = jobs[j] => i = j
    BY DEF TypeOK
  <1>2. check_pid(target)
    BY DEF check_pid
  <1>3. PICK n \in 1 .. Len(jobs) : jobs[n] = target /\ jobs' = Unlink(n)
    BY <1>2 DEF Remove, removeNode
  <1>4. n = k
    BY <1>1, <1>3
  <1>5. Len(jobs) - 1 \in Nat
    BY <1>1
  <1>6. jobs' = [j \in 1 .. Len(jobs) - 1 |-> IF j < k THEN jobs[j] ELSE jobs[j + 1]]
    BY <1>3, <1>4 DEF Unlink
  <1>7. Len(jobs') = Len(jobs) - 1
    <2>1. \A j \in 1 .. Len(jobs) - 1 : j \in 1 .. Len(jobs) /\ j + 1 \in 1 .. Len(jobs)
      BY <1>1
    <2>2. \A j \in 1 .. Len(jobs) : jobs[j] \in Pid
      BY <1>1
    <2>3. jobs' \in [1 .. Len(jobs) - 1 -> Pid]
      BY <1>6, <2>1, <2>2
    <2> QED
      BY <1>5, <2>3
  <1> QED
    BY <1>1, <1>6, <1>7 DEF Remove

-----------------------------------------------------------------------------
(* Steps that leave the list alone *)

LEMMA ListStays ==
  ASSUME NEW cells, IsList(cells), UNCHANGED <<jobVars, jobs>>,
         walk = "none" \/ UNCHANGED <<at, target>>
  PROVE  IsList(cells)'
  <1>1. Represents(cells)'
    BY DEF IsList, Represents, jobVars, Allocated, LinkedJobs
  <1>2. Appending(cells)' /\ Removing(cells)'
    BY DEF IsList, Appending, Removing, jobVars, LinkedJobs
  <1> QED
    BY <1>1, <1>2 DEF IsList, jobVars, Allocated

-----------------------------------------------------------------------------
(* bg_entry *)

LEMMA BgEntryStep ==
  ASSUME JobIInv, NEW p \in Pid, BgEntry(p)
  PROVE  JobTypeOK' /\ ListOnHeap'
  <1>a. TypeOK /\ JobTypeOK /\ PInv
    BY DEF JobIInv, PInv
  <1>b. PICK cells : IsList(cells)
    BY ListExists DEF JobIInv
  <1>c. PICK a \in Address \ Allocated :
          /\ node' = With(a, p)
          /\ IF head = NULL THEN head' = a /\ UNCHANGED <<walk, curr, n1>>
             ELSE walk' = "append" /\ curr' = head /\ n1' = a /\ UNCHANGED head
    BY DEF BgEntry
  <1>e. PICK n : n = Len(jobs)
    OBVIOUS
  <1>f. PICK more : more = [i \in 1 .. n + 1 |-> IF i = n + 1 THEN a ELSE cells[i]]
    OBVIOUS
  <1>d. /\ n \in Nat /\ (head = NULL <=> n = 0)
        /\ \A i \in 1 .. n : cells[i] \in Allocated /\ cells[i] # NULL /\ cells[i] # a
    BY <1>a, <1>b, <1>c, <1>e, CellsDiffer
  <1>1. walk = "none" /\ at = "prompt" /\ at' = "check"
    BY <1>a, <1>b, WalkPlace DEF BgEntry, Bg
  <1>2. /\ Len(jobs') = n + 1
        /\ \A i \in 1 .. n : jobs'[i] = jobs[i]
        /\ jobs'[n + 1] = p
        /\ jobs' # <<>>
    BY <1>a, <1>e DEF BgEntry, Bg, Insert, TypeOK
  <1>3. /\ Allocated' = Allocated \union {a}
        /\ \A b \in Allocated : node'[b] = node[b]
        /\ node'[a] = [pid |-> p, next |-> NULL]
    BY <1>c DEF With, Allocated
  <1>4. JobTypeOK'
    <2>1. node' \in [Allocated' -> [pid : Pid, next : Address \union {NULL}]]
      BY <1>a, <1>c, <1>3 DEF JobTypeOK, With
    <2>2. Allocated' \subseteq Address
      BY <1>a, <1>c, <1>3 DEF JobTypeOK
    <2> QED
      BY <1>a, <1>c, <2>1, <2>2 DEF JobTypeOK
  <1>5. /\ Represents(cells)
        /\ \A i \in 1 .. n : /\ node[cells[i]].pid = jobs[i]
                             /\ node[cells[i]].next = IF i < n THEN cells[i + 1] ELSE NULL
        /\ Allocated = {cells[i] : i \in 1 .. n}
        /\ n # 0 => head = cells[1]
    BY <1>a, <1>b, <1>d, <1>e, <1>1, CellsDiffer DEF IsList, Represents, LinkedJobs
  <1>6. LinkedJobs' = IF n = 0 THEN 1 ELSE n
    BY <1>c, <1>d, <1>1, <1>2 DEF LinkedJobs
  <1>7. more \in [1 .. Len(jobs') -> Allocated']
    BY <1>2, <1>3, <1>d, <1>f
  <1>8. \A i \in 1 .. n : i \in 1 .. n + 1 /\ i # n + 1 /\ more[i] = cells[i]
    BY <1>d, <1>f
  <1>9. n + 1 \in 1 .. n + 1 /\ more[n + 1] = a /\ 1 \in 1 .. n + 1
    BY <1>d, <1>f
  <1>10. Allocated' = {more[i] : i \in 1 .. n + 1}
    <2>1. \A i \in 1 .. n + 1 : i = n + 1 \/ i \in 1 .. n
      BY <1>d
    <2> QED
      BY <1>3, <1>5, <1>8, <1>9, <2>1
  <1>11. \A i \in 1 .. n + 1 :
           /\ node'[more[i]].pid = jobs'[i]
           /\ node'[more[i]].next = IF i < LinkedJobs' THEN more[i + 1] ELSE NULL
    <2> SUFFICES ASSUME NEW i \in 1 .. n + 1
                 PROVE  /\ node'[more[i]].pid = jobs'[i]
                        /\ node'[more[i]].next = IF i < LinkedJobs' THEN more[i + 1] ELSE NULL
      OBVIOUS
    <2>1. CASE i = n + 1
      <3>1. ~(i < LinkedJobs')
        BY <1>6, <1>d, <2>1
      <3> QED
        BY <1>2, <1>3, <1>9, <2>1, <3>1
    <2>2. CASE i \in 1 .. n
      <3>1. node'[more[i]] = node[cells[i]] /\ n # 0
        BY <1>3, <1>8, <1>d, <2>2
      <3>2. i < LinkedJobs' <=> i < n
        BY <1>6, <3>1
      <3>3. i < n => i + 1 \in 1 .. n
        BY <1>d, <2>2
      <3> QED
        BY <1>2, <1>5, <1>8, <2>2, <3>1, <3>2, <3>3
    <2> QED
      BY <1>d, <2>1, <2>2
  <1>12. head' = more[1]
    <2>1. CASE n = 0
      BY <1>c, <1>d, <1>9, <2>1
    <2>2. CASE n # 0
      <3>1. 1 \in 1 .. n
        BY <1>d, <2>2
      <3> QED
        BY <1>c, <1>d, <1>5, <1>8, <2>2, <3>1
    <2> QED
      BY <2>1, <2>2
  <1>13. Represents(more)'
    BY <1>2, <1>10, <1>11, <1>12 DEF Represents
  <1>14. Appending(more)'
    <2> SUFFICES ASSUME walk' = "append"
                 PROVE  n1' = more[n + 1] /\ \E i \in 1 .. LinkedJobs' : curr' = more[i]
      BY <1>1, <1>2 DEF Appending
    <2>1. n # 0 /\ 1 \in 1 .. n
      BY <1>c, <1>d, <1>1
    <2> QED
      BY <1>c, <1>d, <1>5, <1>6, <1>8, <1>9, <2>1
  <1>15. Removing(more)'
    BY <1>c, <1>1 DEF Removing
  <1>16. IsList(more)'
    BY <1>7, <1>13, <1>14, <1>15 DEF IsList
  <1> QED
    BY <1>4, <1>16, ListExists

-----------------------------------------------------------------------------
(* The loops *)

LEMMA AppendWalkStep ==
  ASSUME JobIInv, AppendWalk
  PROVE  JobTypeOK' /\ ListOnHeap'
  <1>a. TypeOK /\ JobTypeOK
    BY DEF JobIInv, PInv
  <1>b. PICK cells : IsList(cells)
    BY ListExists DEF JobIInv
  <1>1. UNCHANGED <<vars, head, node, walk, n1>> /\ walk = "append"
    BY DEF AppendWalk
  <1>2. PICK i \in 1 .. LinkedJobs : curr = cells[i]
    BY <1>b, <1>1 DEF IsList, Appending
  <1>3. LinkedJobs = Len(jobs) - 1 /\ Len(jobs) \in Nat
    BY <1>a, <1>1 DEF LinkedJobs, TypeOK
  <1>4. i < LinkedJobs /\ i + 1 \in 1 .. LinkedJobs /\ curr' = cells[i + 1]
    <2>1. i \in 1 .. Len(jobs)
      BY <1>3
    <2>2. node[cells[i]].next = IF i < LinkedJobs THEN cells[i + 1] ELSE NULL
      BY <1>b, <2>1 DEF IsList, Represents
    <2> QED
      BY <1>2, <1>3, <2>2 DEF AppendWalk
  <1>5. LinkedJobs' = LinkedJobs /\ UNCHANGED <<jobs, at, target>>
    BY <1>1 DEF LinkedJobs, vars
  <1>6. IsList(cells)'
    <2>1. Represents(cells)'
      BY <1>b, <1>1, <1>5 DEF IsList, Represents, Allocated
    <2>2. Appending(cells)' /\ Removing(cells)'
      BY <1>b, <1>1, <1>4, <1>5 DEF IsList, Appending, Removing
    <2> QED
      BY <1>b, <1>1, <1>5, <2>1, <2>2 DEF IsList, Allocated
  <1>7. JobTypeOK'
    BY <1>a, <1>1 DEF JobTypeOK, Allocated
  <1> QED
    BY <1>6, <1>7, ListExists

LEMMA AppendLinkStep ==
  ASSUME JobIInv, AppendLink
  PROVE  JobTypeOK' /\ ListOnHeap'
  <1>a. TypeOK /\ JobTypeOK
    BY DEF JobIInv, PInv
  <1>b. PICK cells : IsList(cells)
    BY ListExists DEF JobIInv
  <1>1. /\ walk = "append" /\ walk' = "none"
        /\ UNCHANGED <<jobs, head>>
        /\ node' = [node EXCEPT ![curr].next = n1]
        /\ node[curr].next = NULL
    BY DEF AppendLink, WalkEnds, vars
  <1>2. PICK i \in 1 .. LinkedJobs : curr = cells[i]
    BY <1>b, <1>1 DEF IsList, Appending
  <1>3. PICK n : n = Len(jobs)
    OBVIOUS
  <1>4. n \in Nat /\ LinkedJobs = n - 1 /\ LinkedJobs' = n
    BY <1>a, <1>1, <1>3 DEF LinkedJobs, TypeOK
  <1>5. i \in 1 .. n /\ n \in 1 .. n /\ n1 = cells[n]
    BY <1>b, <1>1, <1>3, <1>4 DEF IsList, Appending
  <1>c. /\ \A j \in 1 .. n : cells[j] \in Allocated /\ cells[j] \in Address /\ cells[j] # NULL
        /\ \A j, k \in 1 .. n : cells[j] = cells[k] => j = k
    BY <1>a, <1>b, <1>3, CellsDiffer
  <1>d. /\ Allocated = {cells[j] : j \in 1 .. n}
        /\ head = IF jobs = <<>> THEN NULL ELSE cells[1]
        /\ \A j \in 1 .. n : /\ node[cells[j]].pid = jobs[j]
                             /\ node[cells[j]].next = IF j < n - 1 THEN cells[j + 1] ELSE NULL
    BY <1>b, <1>3, <1>4 DEF IsList, Represents
  <1>6. i = n - 1
    <2>1. i < n - 1 => i + 1 \in 1 .. n
      BY <1>4, <1>5
    <2>2. ~(i < n - 1)
      BY <1>1, <1>2, <1>5, <1>c, <1>d, <2>1
    <2> QED
      BY <1>2, <1>4, <2>2
  <1>7. /\ Allocated' = Allocated
        /\ node' \in [Allocated -> [pid : Pid, next : Address \union {NULL}]]
        /\ \A j \in 1 .. n : node'[cells[j]] =
              IF j = i THEN [node[cells[j]] EXCEPT !.next = n1] ELSE node[cells[j]]
    <2>1. node \in [Allocated -> [pid : Pid, next : Address \union {NULL}]] /\ n1 \in Address
      BY <1>a, <1>5, <1>c DEF JobTypeOK
    <2>2. node' \in [Allocated -> [pid : Pid, next : Address \union {NULL}]]
      BY <1>1, <2>1
    <2>3. Allocated' = Allocated
      BY <2>2 DEF Allocated
    <2> QED
      BY <1>1, <1>2, <1>5, <1>c, <2>1, <2>2, <2>3
  <1>8. \A j \in 1 .. n :
          /\ node'[cells[j]].pid = jobs[j]
          /\ node'[cells[j]].next = IF j < n THEN cells[j + 1] ELSE NULL
    <2> SUFFICES ASSUME NEW j \in 1 .. n
                 PROVE  /\ node'[cells[j]].pid = jobs[j]
                        /\ node'[cells[j]].next = IF j < n THEN cells[j + 1] ELSE NULL
      OBVIOUS
    <2>1. node[cells[j]] \in [pid : Pid, next : Address \union {NULL}]
      BY <1>a, <1>c DEF JobTypeOK
    <2>2. CASE j = i
      <3>1. j < n /\ j + 1 = n
        BY <1>6, <1>4, <2>2
      <3> QED
        BY <1>7, <1>5, <1>d, <2>1, <2>2, <3>1
    <2>3. CASE j # i
      <3>1. j < n <=> j < n - 1
        BY <1>6, <1>4, <2>3
      <3> QED
        BY <1>7, <1>d, <2>3, <3>1
    <2> QED
      BY <2>2, <2>3
  <1>9. IsList(cells)'
    <2>1. Represents(cells)'
      BY <1>1, <1>3, <1>4, <1>7, <1>8, <1>d DEF Represents
    <2>2. Appending(cells)' /\ Removing(cells)'
      BY <1>1 DEF Appending, Removing
    <2> QED
      BY <1>b, <1>1, <1>7, <2>1, <2>2 DEF IsList
  <1>10. JobTypeOK'
    BY <1>a, <1>1, <1>7 DEF JobTypeOK
  <1> QED
    BY <1>9, <1>10, ListExists

LEMMA RemoveSearchStep ==
  ASSUME JobIInv, RemoveSearch
  PROVE  JobTypeOK' /\ ListOnHeap'
  <1>a. TypeOK /\ JobTypeOK /\ PInv
    BY DEF JobIInv, PInv
  <1>b. PICK cells : IsList(cells)
    BY ListExists DEF JobIInv
  <1>1. /\ walk = "none" /\ at = "reaped" /\ ~IsFirst /\ walk' = "remove" /\ curr' = head
        /\ UNCHANGED <<jobs, at, target, head, node, prev, n1>>
    BY DEF RemoveSearch, vars
  <1>2. PICK k \in 1 .. Len(jobs) : jobs[k] = target
    BY <1>a, <1>1, TargetListed
  <1>3. 1 \in 1 .. Len(jobs) /\ jobs # <<>> /\ Len(jobs) \in Nat
    BY <1>a DEF TypeOK
  <1>4. head = cells[1] /\ head # NULL /\ node[head].pid = jobs[1]
    BY <1>a, <1>b, <1>3, CellsDiffer DEF IsList, Represents
  <1>5. jobs[1] # target
    BY <1>1, <1>4 DEF IsFirst
  <1>6. Represents(cells)'
    BY <1>b, <1>1 DEF IsList, Represents, LinkedJobs, Allocated
  <1>7. Removing(cells)'
    BY <1>1, <1>3, <1>4, <1>5 DEF Removing
  <1>8. IsList(cells)'
    BY <1>b, <1>1, <1>6, <1>7 DEF IsList, Appending, Allocated
  <1>9. JobTypeOK'
    BY <1>a, <1>1 DEF JobTypeOK, Allocated
  <1> QED
    BY <1>8, <1>9, ListExists

LEMMA RemoveWalkStep ==
  ASSUME JobIInv, RemoveWalk
  PROVE  JobTypeOK' /\ ListOnHeap'
  <1>a. TypeOK /\ JobTypeOK /\ PInv
    BY DEF JobIInv, PInv
  <1>b. PICK cells : IsList(cells)
    BY ListExists DEF JobIInv
  <1>1. /\ walk = "remove" /\ ~Stops /\ prev' = curr /\ curr' = node[curr].next
        /\ UNCHANGED <<jobs, at, target, head, node, walk, n1>>
    BY DEF RemoveWalk, vars
  <1>2. at = "reaped"
    BY <1>b, <1>1 DEF IsList, Removing
  <1>3. PICK i \in 1 .. Len(jobs) : /\ curr = cells[i]
                                    /\ \A j \in 1 .. Len(jobs) : j = 1 \/ j < i => jobs[j] # target
    BY <1>b, <1>1 DEF IsList, Removing
  <1>4. Len(jobs) \in Nat
    BY <1>a DEF TypeOK
  <1>5. PICK k \in 1 .. Len(jobs) : jobs[k] = target
    BY <1>a, <1>2, TargetListed
  <1>6. jobs[i] # target
    BY <1>b, <1>1, <1>3 DEF Stops, IsList, Represents
  <1>7. i < k /\ i + 1 \in 1 .. Len(jobs) /\ i < Len(jobs) /\ (i + 1) - 1 = i
    BY <1>3, <1>4, <1>5, <1>6
  <1>8. curr' = cells[i + 1]
    BY <1>b, <1>1, <1>3, <1>7 DEF IsList, Represents, LinkedJobs
  <1>9. \A j \in 1 .. Len(jobs) : j = 1 \/ j < i + 1 => jobs[j] # target
    BY <1>3, <1>4, <1>6
  <1>10. Represents(cells)'
    BY <1>b, <1>1 DEF IsList, Represents, LinkedJobs, Allocated
  <1>11. Removing(cells)'
    BY <1>1, <1>2, <1>3, <1>7, <1>8, <1>9 DEF Removing
  <1>12. IsList(cells)'
    BY <1>b, <1>1, <1>10, <1>11 DEF IsList, Appending, Allocated
  <1>13. JobTypeOK'
    BY <1>a, <1>1 DEF JobTypeOK, Allocated
  <1> QED
    BY <1>12, <1>13, ListExists

-----------------------------------------------------------------------------
(* removeNode *)

\* The list without its k-th node: its predecessor, or head, names its successor.
LEMMA NodeRemoved ==
  ASSUME JobIInv, Remove, walk # "append", walk' = "none", NEW cells, IsList(cells),
         NEW k \in 1 .. Len(jobs), jobs[k] = target,
         node' = Without(cells[k], IF k = 1 THEN node
                                   ELSE [node EXCEPT ![cells[k - 1]].next = node[cells[k]].next]),
         head' = IF k = 1 THEN node[head].next ELSE head
  PROVE  JobTypeOK' /\ ListOnHeap'
  <1>a. TypeOK /\ JobTypeOK
    BY DEF JobIInv, PInv
  <1>b. PICK n : n = Len(jobs)
    OBVIOUS
  <1>c. /\ n \in Nat /\ LinkedJobs = n /\ jobs # <<>>
        /\ \A j \in 1 .. n : cells[j] \in Allocated /\ cells[j] \in Address /\ cells[j] # NULL
        /\ \A i, j \in 1 .. n : cells[i] = cells[j] => i = j
    BY <1>a, <1>b, CellsDiffer DEF LinkedJobs
  <1>d. /\ Allocated = {cells[j] : j \in 1 .. n}
        /\ head = cells[1]
        /\ \A j \in 1 .. n : /\ node[cells[j]].pid = jobs[j]
                             /\ node[cells[j]].next = IF j < n THEN cells[j + 1] ELSE NULL
    BY <1>b, <1>c DEF IsList, Represents
  <1>e. node \in [Allocated -> [pid : Pid, next : Address \union {NULL}]]
    BY <1>a DEF JobTypeOK
  <1>1. /\ Len(jobs') = n - 1
        /\ \A i \in 1 .. n - 1 : jobs'[i] = IF i < k THEN jobs[i] ELSE jobs[i + 1]
        /\ at' = "check"
    BY <1>a, <1>b, UnlinksPlace
  <1>2. PICK less : less = [i \in 1 .. n - 1 |-> IF i < k THEN cells[i] ELSE cells[i + 1]]
    OBVIOUS
  <1>f. PICK after : after = node[cells[k]].next
    OBVIOUS
  <1>3. k \in 1 .. n /\ after = IF k < n THEN cells[k + 1] ELSE NULL
    BY <1>b, <1>d, <1>f
  <1>4. k > 1 => k - 1 \in 1 .. n
    BY <1>3, <1>c
  <1>5. /\ Allocated' = Allocated \ {cells[k]}
        /\ \A j \in 1 .. n : j # k =>
             node'[cells[j]] = IF k > 1 /\ j = k - 1 THEN [node[cells[j]] EXCEPT !.next = after]
                               ELSE node[cells[j]]
        /\ node' \in [Allocated' -> [pid : Pid, next : Address \union {NULL}]]
    <2>1. after \in Address \union {NULL}
      BY <1>3, <1>c
    <2>2. CASE k = 1
      <3>1. node' = [b \in Allocated \ {cells[k]} |-> node[b]]
        BY <2>2 DEF Without, Allocated
      <3>2. Allocated' = Allocated \ {cells[k]}
        BY <3>1 DEF Allocated
      <3> QED
        BY <1>3, <1>c, <1>e, <2>2, <3>1, <3>2
    <2>3. CASE k # 1
      <3> DEFINE linked == [node EXCEPT ![cells[k - 1]].next = after]
      <3>1. k > 1
        BY <1>3, <1>c, <2>3
      <3>2. /\ linked \in [Allocated -> [pid : Pid, next : Address \union {NULL}]]
            /\ \A b \in Allocated : b # cells[k - 1] => linked[b] = node[b]
            /\ linked[cells[k - 1]] = [node[cells[k - 1]] EXCEPT !.next = after]
        BY <1>4, <1>c, <1>e, <2>1, <3>1
      <3>3. node' = Without(cells[k], linked)
        BY <1>f, <2>3
      <3> HIDE DEF linked
      <3>4. node' = [b \in Allocated \ {cells[k]} |-> linked[b]]
        BY <3>2, <3>3 DEF Without
      <3>5. Allocated' = Allocated \ {cells[k]}
        BY <3>4 DEF Allocated
      <3>6. node' \in [Allocated' -> [pid : Pid, next : Address \union {NULL}]]
        BY <3>2, <3>4, <3>5
      <3>7. ASSUME NEW j \in 1 .. n, j # k
            PROVE  node'[cells[j]] = IF k > 1 /\ j = k - 1 THEN [node[cells[j]] EXCEPT !.next = after]
                                     ELSE node[cells[j]]
        <4>1. cells[j] \in Allocated \ {cells[k]}
          BY <1>3, <1>c, <3>7
        <4>2. node'[cells[j]] = linked[cells[j]]
          BY <3>4, <4>1
        <4>3. j # k - 1 => cells[j] # cells[k - 1]
          BY <1>4, <1>c, <3>1
        <4> QED
          BY <3>1, <3>2, <4>1, <4>2, <4>3
      <3> QED
        BY <3>5, <3>6, <3>7
    <2> QED
      BY <2>2, <2>3
  <1>6. \A i \in 1 .. n - 1 :
          /\ i \in 1 .. n /\ i + 1 \in 1 .. n
          /\ less[i] = IF i < k THEN cells[i] ELSE cells[i + 1]
    BY <1>2, <1>c
  <1>7. Allocated' = {less[i] : i \in 1 .. n - 1}
    <2>1. ASSUME NEW i \in 1 .. n - 1 PROVE less[i] \in Allocated'
      BY <1>3, <1>5, <1>6, <1>c
    <2>2. ASSUME NEW b \in Allocated' PROVE \E i \in 1 .. n - 1 : b = less[i]
      <3>1. PICK j \in 1 .. n : b = cells[j] /\ j # k
        BY <1>5, <1>d
      <3>2. CASE j < k
        <4>1. j \in 1 .. n - 1
          BY <1>3, <1>c, <3>2
        <4> QED
          BY <1>6, <3>1, <3>2, <4>1
      <3>3. CASE ~(j < k)
        <4>1. j - 1 \in 1 .. n - 1 /\ ~(j - 1 < k) /\ (j - 1) + 1 = j
          BY <1>3, <1>c, <3>1, <3>3
        <4> QED
          BY <1>6, <3>1, <4>1
      <3> QED
        BY <3>2, <3>3
    <2> QED
      BY <2>1, <2>2
  <1>8. less \in [1 .. n - 1 -> Allocated']
    BY <1>2, <1>7
  <1>9. head' = IF n - 1 = 0 THEN NULL ELSE less[1]
    <2>1. CASE k = 1
      <3>1. head' = after
        BY <1>d, <1>f, <2>1
      <3>2. n - 1 # 0 => 1 \in 1 .. n - 1 /\ less[1] = cells[1 + 1]
        BY <1>c, <1>3, <1>6, <2>1
      <3> QED
        BY <1>3, <1>c, <2>1, <3>1, <3>2
    <2>2. CASE k # 1
      <3>1. n - 1 # 0 /\ 1 \in 1 .. n - 1 /\ 1 < k
        BY <1>3, <1>c, <2>2
      <3> QED
        BY <1>d, <1>6, <2>2, <3>1
    <2> QED
      BY <2>1, <2>2
  <1>10. ASSUME NEW i \in 1 .. n - 1
         PROVE  /\ node'[less[i]].pid = jobs'[i]
                /\ node'[less[i]].next = IF i < n - 1 THEN less[i + 1] ELSE NULL
    <2>a. i < n - 1 => i + 1 \in 1 .. n - 1
      BY <1>c
    <2>b. \A j \in 1 .. n : node[cells[j]] \in [pid : Pid, next : Address \union {NULL}]
      BY <1>c, <1>e
    <2>1. CASE i < k - 1
      <3>1. i < k /\ i # k /\ i # k - 1 /\ i < n - 1 /\ i + 1 < k /\ i < n
        BY <1>3, <1>c, <2>1
      <3>2. node'[less[i]] = node[cells[i]] /\ less[i + 1] = cells[i + 1]
        BY <1>5, <1>6, <2>a, <3>1
      <3> QED
        BY <1>1, <1>6, <1>d, <3>1, <3>2
    <2>2. CASE i = k - 1
      <3>1. i < k /\ i # k /\ k > 1 /\ i + 1 = k /\ ~(k < k) /\ (i < n - 1 <=> k < n)
        BY <1>3, <1>c, <2>2
      <3>2. node'[less[i]] = [node[cells[i]] EXCEPT !.next = after]
        BY <1>5, <1>6, <2>2, <3>1
      <3>3. node'[less[i]].pid = node[cells[i]].pid /\ node'[less[i]].next = after
        BY <1>6, <2>b, <3>2
      <3>4. i < n - 1 => less[i + 1] = cells[k + 1]
        BY <1>6, <2>a, <3>1
      <3> QED
        BY <1>1, <1>3, <1>6, <1>d, <3>1, <3>3, <3>4
    <2>3. CASE ~(i < k)
      <3>1. i + 1 # k /\ i + 1 # k - 1 /\ (i < n - 1 <=> i + 1 < n) /\ ~(i + 1 < k)
        BY <1>3, <1>c, <2>3
      <3>2. node'[less[i]] = node[cells[i + 1]]
        BY <1>5, <1>6, <2>3, <3>1
      <3>3. i < n - 1 => less[i + 1] = cells[(i + 1) + 1]
        BY <1>6, <2>a, <3>1
      <3> QED
        BY <1>1, <1>6, <1>d, <2>3, <3>1, <3>2, <3>3
    <2> QED
      BY <1>3, <1>c, <2>1, <2>2, <2>3
  <1>11. (jobs' = <<>>) <=> (n - 1 = 0)
    <2>1. jobs' \in Seq(Pid)
      BY <1>a, RemoveUnlinks DEF Remove, TypeOK, check_pid
    <2>2. (jobs' = <<>>) <=> (Len(jobs') = 0)
      BY <2>1
    <2> QED
      BY <1>1, <2>2
  <1>12. LinkedJobs' = n - 1
    BY <1>1 DEF LinkedJobs
  <1>13. IsList(less)'
    <2>1. Represents(less)'
      BY <1>1, <1>7, <1>9, <1>10, <1>11, <1>12 DEF Represents
    <2> QED
      BY <1>1, <1>8, <2>1 DEF IsList, Appending, Removing
  <1>14. JobTypeOK'
    <2>1. Allocated' \subseteq Address
      BY <1>a, <1>5 DEF JobTypeOK
    <2>2. n - 1 # 0 => less[1] \in Address
      <3>1. n - 1 # 0 => 1 \in 1 .. n - 1
        BY <1>3, <1>c
      <3> QED
        BY <1>7, <2>1, <3>1
    <2>3. head' \in Address \union {NULL}
      BY <1>9, <2>2
    <2> QED
      BY <1>5, <2>1, <2>3 DEF JobTypeOK
  <1> QED
    BY <1>13, <1>14, ListExists

LEMMA RemoveFirstStep ==
  ASSUME JobIInv, RemoveFirst
  PROVE  JobTypeOK' /\ ListOnHeap'
  <1>a. TypeOK /\ JobTypeOK
    BY DEF JobIInv, PInv
  <1>b. PICK cells : IsList(cells)
    BY ListExists DEF JobIInv
  <1>1. /\ Remove /\ walk = "none" /\ walk' = "none" /\ head # NULL /\ node[head].pid = target
        /\ head' = node[head].next /\ node' = Without(head, node)
    BY DEF RemoveFirst, IsFirst
  <1>2. 1 \in 1 .. Len(jobs) /\ head = cells[1]
    BY <1>a, <1>b, <1>1, CellsDiffer DEF IsList, Represents
  <1>3. jobs[1] = target
    BY <1>b, <1>1, <1>2 DEF IsList, Represents
  <1> QED
    BY <1>b, <1>1, <1>2, <1>3, NodeRemoved

LEMMA RemoveFoundStep ==
  ASSUME JobIInv, RemoveFound
  PROVE  JobTypeOK' /\ ListOnHeap'
  <1>a. TypeOK /\ JobTypeOK
    BY DEF JobIInv, PInv
  <1>b. PICK cells : IsList(cells)
    BY ListExists DEF JobIInv
  <1>1. /\ Remove /\ walk = "remove" /\ walk' = "none" /\ head' = head /\ Stops
        /\ curr # NULL => UnlinkNode
    BY DEF RemoveFound, WalkEnds
  <1>2. PICK k \in 1 .. Len(jobs) : /\ curr = cells[k]
                                    /\ k > 1 => prev = cells[k - 1]
                                    /\ \A j \in 1 .. Len(jobs) : j = 1 \/ j < k => jobs[j] # target
    BY <1>b, <1>1 DEF IsList, Removing
  <1>3. curr # NULL
    BY <1>a, <1>b, <1>2, CellsDiffer
  <1>4. jobs[k] = target
    BY <1>b, <1>1, <1>2, <1>3 DEF Stops, IsList, Represents
  <1>5. k # 1 /\ k > 1
    BY <1>2, <1>4
  <1>6. node' = Without(cells[k], [node EXCEPT ![cells[k - 1]].next = node[cells[k]].next])
    BY <1>1, <1>2, <1>3, <1>5 DEF UnlinkNode
  <1> QED
    BY <1>b, <1>1, <1>4, <1>5, <1>6, NodeRemoved

-----------------------------------------------------------------------------

LEMMA JobStep == JobIInv /\ [JobNext]_allVars => JobIInv'
  <1> SUFFICES ASSUME JobIInv, [JobNext]_allVars PROVE JobIInv'
    OBVIOUS
  <1>a. PInv /\ JobTypeOK /\ TypeOK
    BY DEF JobIInv, PInv
  <1>b. PICK cells : IsList(cells)
    BY ListExists DEF JobIInv
  <1>1. PInv'
    BY <1>a, PManStep, PStep
  <1>2. ASSUME UNCHANGED <<jobVars, jobs>>, walk = "none" \/ UNCHANGED <<at, target>>
        PROVE  JobTypeOK' /\ ListOnHeap'
    <2>1. IsList(cells)'
      BY <1>2, <1>b, ListStays
    <2> QED
      BY <1>a, <1>2, <2>1, ListExists DEF JobTypeOK, jobVars, Allocated
  <1>3. CASE /\ \/ \E p \in Pid : Pstat(p) \/ \E s \in Sig : Bgsig(p, s)
                \/ ForkFails \/ InputEnds \/ Bglist \/ Refused
             /\ UNCHANGED jobVars
    <2>1. at = "prompt" /\ UNCHANGED jobs
      BY <1>3 DEF Pstat, Bgsig, ForkFails, InputEnds, Bglist, Refused
    <2>2. walk = "none"
      BY <1>a, <1>b, <2>1, WalkPlace
    <2> QED
      BY <1>1, <1>2, <1>3, <2>1, <2>2 DEF JobIInv
  <1>4. CASE /\ walk = "none"
             /\ Kill \/ ReadStat \/ ListEmpty \/ NoneReaped \/ \E p \in Pid : Reap(p)
             /\ UNCHANGED jobVars
    <2>1. UNCHANGED jobs
      BY <1>4 DEF Kill, ReadStat, ListEmpty, NoneReaped, Reap
    <2> QED
      BY <1>1, <1>2, <1>4, <2>1 DEF JobIInv
  <1>5. CASE Kernel /\ UNCHANGED jobVars
    <2>1. UNCHANGED <<jobs, at, target>>
      BY <1>5 DEF Kernel, Exits, Dies, ForeignStarts, ForeignEnds, Becomes
    <2> QED
      BY <1>1, <1>2, <1>5, <2>1 DEF JobIInv
  <1>6. CASE UNCHANGED allVars
    BY <1>1, <1>2, <1>6 DEF JobIInv, allVars, vars
  <1>7. CASE \E p \in Pid : BgEntry(p)
    BY <1>1, <1>7, BgEntryStep DEF JobIInv
  <1>8. CASE AppendWalk \/ AppendLink \/ RemoveFirst \/ RemoveSearch \/ RemoveWalk \/ RemoveFound
    BY <1>1, <1>8, AppendWalkStep, AppendLinkStep, RemoveFirstStep, RemoveSearchStep,
       RemoveWalkStep, RemoveFoundStep DEF JobIInv
  <1> QED
    BY <1>3, <1>4, <1>5, <1>6, <1>7, <1>8 DEF JobNext, JobUser, JobLoop

\* Whatever PMan has appended and removed, and while it does, the heap is the
\* list of its jobs: no walk meets a freed node or runs in a circle, and none of
\* the nodes is lost.
THEOREM HeapIsJobList == JobSpec => []ListOnHeap
  <1>1. JobIInv => ListOnHeap
    BY DEF JobIInv
  <1> QED
    BY InitJobIInv, JobStep, <1>1, PTL DEF JobSpec

\* The walks along the list are stutters of PMan, so that its properties are
\* those of the program with its list on the heap.
THEOREM HeapRefinesPMan == JobSpec => Spec
  <1>1. JobInit => Init
    BY DEF JobInit
  <1> QED
    BY <1>1, PManStep, PTL DEF JobSpec, Spec
=============================================================================
