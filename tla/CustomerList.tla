---------------------------- MODULE CustomerList ----------------------------
(***************************************************************************)
(* The linked lists behind the two queues of a2/A2.c.  CheckIn keeps each  *)
(* queue as the sequence of its customers; here Enqueue and TakeTurn also  *)
(* run Queue_Enqueue and Queue_Dequeue on nodes and pointers.  A customer  *)
(* creates one node in its life, so that the customer stands for it, and   *)
(* no node is ever freed: one that has left keeps its pointer.             *)
(***************************************************************************)
EXTENDS CheckInInvariants

VARIABLES
  head,   \* of each queue, a node or NULL
  tail,
  size,
  next    \* of each node

NULL == 0
Node == Customer

nodeVars == <<head, tail, size, next>>
listVars == <<vars, nodeVars>>

\* createQueue, twice.
ListInit ==
  /\ Init
  /\ head = [q \in Queue |-> NULL]
  /\ tail = [q \in Queue |-> NULL]
  /\ size = [q \in Queue |-> 0]
  /\ next = [n \in Node |-> NULL]

\* createNode makes n the last of its chain.
createNode(n) == [next EXCEPT ![n] = NULL]

\* Mutant of Queue_Enqueue: the old tail is not linked to the new one.
EnqueueUnlinked(q, n) ==
  /\ head' = [head EXCEPT ![q] = IF size[q] = 0 THEN n ELSE @]
  /\ next' = createNode(n)
  /\ tail' = [tail EXCEPT ![q] = n]
  /\ size' = [size EXCEPT ![q] = @ + 1]

Queue_Enqueue(q, n) ==
  /\ IF size[q] = 0
     THEN head' = [head EXCEPT ![q] = n] /\ next' = createNode(n)
     ELSE next' = [createNode(n) EXCEPT ![tail[q]] = n] /\ UNCHANGED head
  /\ tail' = [tail EXCEPT ![q] = n]
  /\ size' = [size EXCEPT ![q] = @ + 1]

\* Mutant of Queue_Dequeue: the last node goes like any other.
DequeueFirst(q) ==
  /\ head' = [head EXCEPT ![q] = next[@]]
  /\ size' = [size EXCEPT ![q] = @ - 1]
  /\ UNCHANGED <<tail, next>>

\* Nothing in an empty queue, else the last node, or any other first node.
Queue_Dequeue(q) ==
  IF size[q] = 0 THEN UNCHANGED nodeVars
  ELSE /\ head' = [head EXCEPT ![q] = IF size[q] = 1 THEN NULL ELSE next[@]]
       /\ tail' = [tail EXCEPT ![q] = IF size[q] = 1 THEN NULL ELSE @]
       /\ size' = [size EXCEPT ![q] = @ - 1]
       /\ UNCHANGED next

ListNext ==
  \/ /\ Running
     /\ \E c \in Customer :
          \/ Enqueue(c) /\ Queue_Enqueue(Class(c), c)
          \/ TakeTurn(c) /\ Queue_Dequeue(Class(c))
          \/ /\ AwaitCall(c) \/ WaitAgain(c) \/ Claim(c) \/ ClearStatus(c) \/ Leave(c)
             /\ UNCHANGED nodeVars
  \/ /\ (\E k \in Clerk : ClerkStep(k)) \/ MainStep \/ MainFails \/ SpuriousStep
     /\ UNCHANGED nodeVars

ListSpec == ListInit /\ [][ListNext]_listVars

-----------------------------------------------------------------------------
(* Properties *)

\* The nodes from head to tail of queue q are the customers of the sequence.
IsLinked(q) ==
  /\ size[q] = Len(queue[q])
  /\ queue[q] = <<>> => head[q] = NULL /\ tail[q] = NULL
  /\ queue[q] # <<>> => /\ head[q] = queue[q][1]
                        /\ tail[q] = queue[q][size[q]]
  /\ \A i \in 1 .. Len(queue[q]) - 1 : next[queue[q][i]] = queue[q][i + 1]

\* Each queue is a list of nodes that ends at its tail and whose size is right,
\* although a dequeued node keeps its pointer to a node that is still in line,
\* and a dequeue with equal ids takes a node away from the thread that made it.
QueuesAreLinked == \A q \in Queue : IsLinked(q)

\* A customer in some line stands in it once, has arrived, and the line is that
\* of its class: no node is in two lists, or twice in one.
Placed ==
  \A q \in Queue :
    /\ \A i \in 1 .. Len(queue[q]) : /\ Class(queue[q][i]) = q
                                     /\ cust[queue[q][i]] # "away"
    /\ \A i, j \in 1 .. Len(queue[q]) : queue[q][i] = queue[q][j] => i = j

ListTypeOK ==
  /\ head \in [Queue -> Node \union {NULL}]
  /\ tail \in [Queue -> Node \union {NULL}]
  /\ size \in [Queue -> Nat]
  /\ next \in [Node -> Node \union {NULL}]

ListIInv == IInv /\ ListTypeOK /\ Placed /\ QueuesAreLinked
=============================================================================
