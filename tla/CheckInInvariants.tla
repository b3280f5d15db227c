------------------------- MODULE CheckInInvariants -------------------------
(***************************************************************************)
(* Inductive invariants of CheckIn, from which CheckInProofs derives the   *)
(* safety properties of CheckIn.  Each relates where the threads are to    *)
(* the shared variables they own at that point.                            *)
(***************************************************************************)
EXTENDS CheckIn

Those(q, S) == {c \in Customer : Class(c) = q /\ cust[c] \in S}

\* The customer in a critical section is the one that holds the queue's mutex.
LockInv ==
  /\ \A c \in Customer :
       cust[c] \in {"entered", "dequeued"} => queue_mutex[Class(c)] = c
  /\ \A q \in Queue :
       queue_mutex[q] # Nobody =>
         /\ Class(queue_mutex[q]) = q
         /\ cust[queue_mutex[q]] \in {"entered", "dequeued"}

\* The list and the two counters of each queue count customers by where they
\* are, whichever customer a dequeue with equal ids takes from the list.
CountInv ==
  \A q \in Queue :
    /\ Len(queue[q]) = Cardinality(Those(q, InLine))
    /\ queue_length[q] = Cardinality(Those(q, InLine \union {"dequeued"}))
    /\ num_customers[q] = Cardinality(Those(q, AtDesk \union {"left"}))

\* main has joined only customers that have left.
JoinInv ==
  /\ \A c \in Customer : c <= joined => cust[c] = "left"
  /\ main = "done" => joined = NumCustomers

IInv == TypeOK /\ LockInv /\ CountInv /\ JoinInv

\* Without spurious wakeups of customers, an economy customer is awake only
\* after a clerk has signed its queue, and only business customers unsign.
SignedInv ==
  /\ \A c \in Customer : cust[c] = "claimed" => Class(c) = Business
  /\ \A c \in Customer :
       Class(c) = Economy =>
         /\ cust[c] \in {"woken", "dequeued"} => queue_status[Economy] \in Clerk
         /\ cust[c] \in AtDesk => curr_clerk[c] \in Clerk

Engaged(k) == clerk[k] \in {"called", "waitdone"}

OpenCall(q, k) == queue_status[q] = k /\ winner_selected[q] = 0

\* Clerks that no customer mistakes for another one.
Addressed == {k \in Clerk : k # NumClerks \/ \A c \in Customer : Class(c) = Economy}

\* A clerk is engaged while its call is open or a customer is at its desk, and
\* these exclude each other.
OneAtATime(k) ==
  /\ ServedBy(k) # {} => Engaged(k)
  /\ \A q \in Queue : OpenCall(q, k) => Engaged(k) /\ selected[k] = q /\ ServedBy(k) = {}
  /\ \A c, d \in ServedBy(k) : c = d

\* A customer at the head of the queue holds an open call until it claims it;
\* without spurious wakeups of clerks, a clerk does one thing at a time.
CallInv ==
  /\ \A c \in Customer : cust[c] = "dequeued" => winner_selected[Class(c)] = 0
  /\ \A k \in Addressed : OneAtATime(k)

CallIInv == IInv /\ SignedInv /\ CallInv
=============================================================================
