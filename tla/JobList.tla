------------------------------ MODULE JobList ------------------------------
(***************************************************************************)
(* The linked list of a1/PMan.c, with its nodes on the heap.  PMan keeps   *)
(* the list as a sequence of pids; here bg_entry and removeNode allocate,  *)
(* walk, link, unlink and free, and the kernel goes on while they walk.    *)
(* The heap is a function on the nodes allocated at present: freed memory  *)
(* has no contents.                                                        *)
(***************************************************************************)
EXTENDS PMan

CONSTANTS Address,  \* where malloc may place a node; there is always room
          NULL

ASSUME JobListAssumption == NULL \notin Address

VARIABLES
  head,   \* the first node
  node,   \* the pid and the next of each allocated node
  walk,   \* which loop over the list is running
  curr,   \* the variables of that loop
  prev,
  n1      \* the node to be appended

jobVars == <<head, node, walk, curr, prev, n1>>
allVars == <<vars, jobVars>>

JobInit ==
  /\ Init
  /\ head = NULL
  /\ node = <<>>
  /\ walk = "none"
  /\ curr = NULL /\ prev = NULL /\ n1 = NULL

Allocated == DOMAIN node

-----------------------------------------------------------------------------
(* bg_entry *)

With(a, p) ==
  [b \in Allocated \union {a} |-> IF b = a THEN [pid |-> p, next |-> NULL] ELSE node[b]]

\* fork and malloc; a first node is linked at once, for another the end is sought.
BgEntry(p) ==
  /\ Bg(p)
  /\ \E a \in Address \ Allocated :
       /\ node' = With(a, p)
       /\ IF head = NULL THEN head' = a /\ UNCHANGED <<walk, curr, n1>>
          ELSE walk' = "append" /\ curr' = head /\ n1' = a /\ UNCHANGED head
  /\ UNCHANGED prev

AppendWalk ==
  /\ walk = "append"
  /\ node[curr].next # NULL
  /\ curr' = node[curr].next
  /\ UNCHANGED <<vars, head, node, walk, prev, n1>>

\* The loop is over, and with it the life of its variables.
WalkEnds == walk' = "none" /\ curr' = NULL /\ prev' = NULL /\ n1' = NULL

AppendLink ==
  /\ walk = "append"
  /\ node[curr].next = NULL
  /\ node' = [node EXCEPT ![curr].next = n1]
  /\ WalkEnds
  /\ UNCHANGED <<vars, head>>

-----------------------------------------------------------------------------
(* removeNode *)

Without(a, nodes) == [b \in DOMAIN nodes \ {a} |-> nodes[b]]

IsFirst == head # NULL /\ node[head].pid = target

RemoveFirst ==
  /\ walk = "none"
  /\ Remove
  /\ IsFirst
  /\ head' = node[head].next
  /\ node' = Without(head, node)
  /\ UNCHANGED <<walk, curr, prev, n1>>

RemoveSearch ==
  /\ walk = "none"
  /\ at = "reaped"
  /\ ~IsFirst
  /\ walk' = "remove"
  /\ curr' = head
  /\ UNCHANGED <<vars, head, node, prev, n1>>

\* The loop's condition fails: the end of the list, or the node.
Stops == curr = NULL \/ node[curr].pid = target

RemoveWalk ==
  /\ walk = "remove"
  /\ ~Stops
  /\ prev' = curr
  /\ curr' = node[curr].next
  /\ UNCHANGED <<vars, head, node, walk, n1>>

\* Mutant of UnlinkNode: the node is freed, and its predecessor still names it.
FreeOnly == node' = Without(curr, node)

UnlinkNode == node' = Without(curr, [node EXCEPT ![prev].next = node[curr].next])

\* A pid that is not in the list removes nothing.
RemoveFound ==
  /\ walk = "remove"
  /\ Stops
  /\ Remove
  /\ IF curr = NULL THEN UNCHANGED node ELSE UnlinkNode
  /\ WalkEnds
  /\ UNCHANGED head

-----------------------------------------------------------------------------

JobUser ==
  \/ \E p \in Pid : BgEntry(p)
  \/ /\ \/ \E p \in Pid : Pstat(p) \/ \E s \in Sig : Bgsig(p, s)
        \/ ForkFails
        \/ InputEnds
        \/ Bglist
        \/ Refused
     /\ UNCHANGED jobVars

JobLoop ==
  \/ AppendWalk
  \/ AppendLink
  \/ RemoveFirst
  \/ RemoveSearch
  \/ RemoveWalk
  \/ RemoveFound
  \/ /\ walk = "none"
     /\ Kill \/ ReadStat \/ ListEmpty \/ NoneReaped \/ \E p \in Pid : Reap(p)
     /\ UNCHANGED jobVars

JobNext == JobUser \/ JobLoop \/ (Kernel /\ UNCHANGED jobVars)

JobSpec == JobInit /\ [][JobNext]_allVars

\* As in PMan; every turn of a loop over the list is one of PMan's own steps.
JobFairness ==
  /\ WF_allVars(JobLoop)
  /\ \A p \in Pid : WF_allVars(Dies(p) /\ UNCHANGED jobVars)

JobFairSpec == JobSpec /\ JobFairness

-----------------------------------------------------------------------------
(* Properties *)

\* The number of nodes that are linked: all but the one being appended.
LinkedJobs == IF walk = "append" THEN Len(jobs) - 1 ELSE Len(jobs)

\* cells are the nodes of the jobs, in order.
Represents(cells) ==
  /\ Allocated = {cells[i] : i \in 1 .. Len(jobs)}
  /\ \A i \in 1 .. Len(jobs) : node[cells[i]].pid = jobs[i]
  /\ head = IF jobs = <<>> THEN NULL ELSE cells[1]
  /\ \A i \in 1 .. Len(jobs) :
       node[cells[i]].next = IF i < LinkedJobs THEN cells[i + 1] ELSE NULL

\* An append is on its way along the linked nodes, to hang the last one on.
Appending(cells) ==
  walk = "append" => /\ at = "check"
                     /\ n1 = cells[Len(jobs)]
                     /\ \E i \in 1 .. LinkedJobs : curr = cells[i]

\* A removal has not passed its node, and prev is right behind curr.
Removing(cells) ==
  walk = "remove" => /\ at = "reaped"
                     /\ \E i \in 1 .. Len(jobs) :
                          /\ curr = cells[i]
                          /\ i > 1 => prev = cells[i - 1]
                          /\ \A j \in 1 .. Len(jobs) : j = 1 \/ j < i => jobs[j] # target

\* The heap holds a node for every job, and from head they are linked in the
\* order of the jobs: every walk along them meets no freed node and comes to an
\* end, none is lost, and none is freed while something still points to it.
ListOnHeap ==
  \E cells \in [1 .. Len(jobs) -> Allocated] :
    Represents(cells) /\ Appending(cells) /\ Removing(cells)

JobTypeOK ==
  /\ node \in [Allocated -> [pid : Pid, next : Address \union {NULL}]]
  /\ Allocated \subseteq Address
  /\ head \in Address \union {NULL}
  /\ walk \in {"none", "append", "remove"}
=============================================================================
