------------------------------ MODULE CheckIn ------------------------------
(***************************************************************************)
(* The airline check-in simulation of a2/A2.c: one thread per customer,    *)
(* NumClerks clerk threads and main, over two queues guarded by a mutex    *)
(* each, and three kinds of condition variable: request_queue_convar on    *)
(* which clerks sleep, one per queue on which customers wait, and one per  *)
(* clerk on which the clerk waits for its customer to be done.             *)
(*                                                                         *)
(* An action is a stretch of code that no other thread can observe half    *)
(* done.  Fields that are read without their mutex (queue->size by the     *)
(* clerks, queue_status[1] written by a served business customer) are      *)
(* touched by separate actions, so that the data races of the code are     *)
(* interleavings here: the program is built without optimisation, and each *)
(* access is one load or store of an aligned int.                          *)
(***************************************************************************)
EXTENDS Naturals, Sequences, FiniteSets

CONSTANTS
  NumCustomers,  \* the count on the first line of the input file
  Lines,         \* the customer lines of the input file
  NumClerks,     \* the number of clerk threads, 5 in the code
  Spurious       \* kinds of condition variable that may wake without a signal

Economy == 0
Business == 1
Queue == {Economy, Business}
Customer == 1 .. NumCustomers
Clerk == 1 .. NumClerks
Nobody == 0

MAX_SIZE == 1024   \* the length of customerArray: a longer file would overrun it

\* A class is one of the two that the comment at a2/A2.c:236 lists.  The code takes
\* any number: a customer of another class would join no queue and then compare a
\* variable that was never set (:354), which is not modelled.
ASSUME CheckInAssumption ==
  /\ NumCustomers \in Nat /\ NumCustomers <= MAX_SIZE
  /\ Lines \in Seq([id : Nat, class_type : Queue])
  /\ NumClerks \in Nat \ {0}
  /\ Spurious \subseteq {"request", "queue", "clerk"}

\* main reads at most NumCustomers lines; when the file has fewer, the rest
\* of the global array keeps its zeros and still gets a thread per entry.
customerArray ==
  [c \in Customer |-> IF c <= Len(Lines) THEN Lines[c]
                      ELSE [id |-> 0, class_type |-> Economy]]

Id(c) == customerArray[c].id
Class(c) == customerArray[c].class_type

VARIABLES
  main,             \* "creating", "joining", "done", or "failed" (exit(1))
  created,          \* customer threads created so far
  joined,           \* customer threads joined so far
  cust,             \* where each customer thread is
  curr_clerk,       \* the clerk a customer believes woke it
  clerk,            \* where each clerk thread is
  selected,         \* selected_queue_ID of each clerk
  queue,            \* businessQueue and economyQueue, head first
  queue_length,
  queue_status,     \* the clerk that last called into a queue
  winner_selected,  \* 1 once a customer has answered the last call
  num_customers,    \* numEconomyCustomers and numBusinessCustomers
  queue_mutex,      \* the customer inside the queue's critical section
  request_mutex     \* the clerk inside request_queue_mutex

custVars == <<cust, curr_clerk>>
clerkVars == <<clerk, selected>>
lineVars == <<queue, queue_length, num_customers>>
callVars == <<queue_status, winner_selected>>
mainVars == <<main, created, joined>>
vars == <<mainVars, custVars, clerkVars, lineVars, callVars, queue_mutex, request_mutex>>

Init ==
  /\ main = "creating"
  /\ created = 0
  /\ joined = 0
  /\ cust = [c \in Customer |-> "away"]
  /\ curr_clerk = [c \in Customer |-> Nobody]
  /\ clerk = [k \in Clerk |-> "idle"]
  /\ selected = [k \in Clerk |-> Economy]
  /\ queue = [q \in Queue |-> <<>>]
  /\ queue_length = [q \in Queue |-> 0]
  /\ queue_status = [q \in Queue |-> Nobody]
  /\ winner_selected = [q \in Queue |-> 0]
  /\ num_customers = [q \in Queue |-> 0]
  /\ queue_mutex = [q \in Queue |-> Nobody]
  /\ request_mutex = Nobody

-----------------------------------------------------------------------------
(* Customer threads *)

Size(q) == Len(queue[q])

\* pthread_cond_signal(&request_queue_convar): one sleeping clerk goes back to
\* the top of its loop; with none asleep the signal is lost.
SignalRequest ==
  \/ \E k \in Clerk : clerk[k] = "blocked" /\ clerk' = [clerk EXCEPT ![k] = "idle"]
  \/ (\A k \in Clerk : clerk[k] # "blocked") /\ UNCHANGED clerk

\* The arrival sleep ends; lock the queue and join it.  Clerks can see the new
\* size from here on, while the queue stays locked.
Enqueue(c) ==
  /\ cust[c] = "away"
  /\ c <= created
  /\ queue_mutex[Class(c)] = Nobody
  /\ queue_mutex' = [queue_mutex EXCEPT ![Class(c)] = c]
  /\ queue' = [queue EXCEPT ![Class(c)] = Append(@, c)]
  /\ queue_length' = [queue_length EXCEPT ![Class(c)] = @ + 1]
  /\ cust' = [cust EXCEPT ![c] = "entered"]
  /\ UNCHANGED <<mainVars, curr_clerk, clerkVars, num_customers, callVars, request_mutex>>

\* Tell the clerks, without their mutex, then wait on the queue's condition
\* variable, which unlocks the queue.
AwaitCall(c) ==
  /\ cust[c] = "entered"
  /\ SignalRequest
  /\ cust' = [cust EXCEPT ![c] = "waiting"]
  /\ queue_mutex' = [queue_mutex EXCEPT ![Class(c)] = Nobody]
  /\ UNCHANGED <<mainVars, curr_clerk, selected, lineVars, callVars, request_mutex>>

\* checkHead compares ids, not pointers.
checkHead(c) == Id(c) = Id(Head(queue[Class(c)]))

\* Mutant of MyTurn: the head is not looked at.
AnyonesTurn(c) == winner_selected[Class(c)] = 0

MyTurn(c) == checkHead(c) /\ winner_selected[Class(c)] = 0

\* Woken with the queue locked again, but not the one to go: back to waiting.
WaitAgain(c) ==
  /\ cust[c] = "woken"
  /\ queue_mutex[Class(c)] = Nobody
  /\ ~MyTurn(c)
  /\ cust' = [cust EXCEPT ![c] = "waiting"]
  /\ UNCHANGED <<mainVars, curr_clerk, clerkVars, lineVars, callVars, queue_mutex, request_mutex>>

\* Queue_Dequeue: clerks see the smaller size while the queue is locked.
TakeTurn(c) ==
  /\ cust[c] = "woken"
  /\ queue_mutex[Class(c)] = Nobody
  /\ MyTurn(c)
  /\ queue_mutex' = [queue_mutex EXCEPT ![Class(c)] = c]
  /\ queue' = [queue EXCEPT ![Class(c)] = Tail(@)]
  /\ cust' = [cust EXCEPT ![c] = "dequeued"]
  /\ UNCHANGED <<mainVars, curr_clerk, clerkVars, queue_length, num_customers, callVars,
                 request_mutex>>

\* Mutants of AfterClaim: the break is missing, so the customer waits again;
\* the economy branch resets queue_status like the business branch.
WaitAfterClaim(c) == "waiting"
ResetAfterClaim(c) == "claimed"

\* The loop ends; only the business branch goes on to reset queue_status.
AfterClaim(c) == IF Class(c) = Business THEN "claimed" ELSE "served"

\* Mutant of UseCallUp: no winner is recorded.
KeepCall(q) == UNCHANGED winner_selected

UseCallUp(q) == winner_selected' = [winner_selected EXCEPT ![q] = 1]

\* Mutant of LeaveLength: queue_length only ever grows.
KeepLength(q) == UNCHANGED queue_length

LeaveLength(q) == queue_length' = [queue_length EXCEPT ![q] = @ - 1]

\* The rest of the critical section: count the customer, note which clerk
\* called, use the call up, unlock.
Claim(c) ==
  /\ cust[c] = "dequeued"
  /\ num_customers' = [num_customers EXCEPT ![Class(c)] = @ + 1]
  /\ curr_clerk' = [curr_clerk EXCEPT ![c] = queue_status[Class(c)]]
  /\ LeaveLength(Class(c))
  /\ UseCallUp(Class(c))
  /\ queue_mutex' = [queue_mutex EXCEPT ![Class(c)] = Nobody]
  /\ cust' = [cust EXCEPT ![c] = AfterClaim(c)]
  /\ UNCHANGED <<mainVars, clerkVars, queue, queue_status, request_mutex>>

\* Only business customers reset queue_status, after a nap and unlocked.
ClearStatus(c) ==
  /\ cust[c] = "claimed"
  /\ queue_status' = [queue_status EXCEPT ![Class(c)] = Nobody]
  /\ cust' = [cust EXCEPT ![c] = "served"]
  /\ UNCHANGED <<mainVars, curr_clerk, clerkVars, lineVars, winner_selected, queue_mutex,
                 request_mutex>>

\* The chain of ifs over curr_clerk: whatever is not 1 .. NumClerks - 1 falls
\* through to the last clerk.
SignalledClerk(k) == IF k \in 1 .. NumClerks - 1 THEN k ELSE NumClerks

\* Service over: signal the clerk under its mutex and exit.  A clerk that is
\* not waiting yet misses the signal.
Leave(c) ==
  LET k == SignalledClerk(curr_clerk[c])
  IN  /\ cust[c] = "served"
      /\ cust' = [cust EXCEPT ![c] = "left"]
      /\ clerk' = [clerk EXCEPT ![k] = IF @ = "waitdone" THEN "idle" ELSE @]
      /\ UNCHANGED <<mainVars, curr_clerk, selected, lineVars, callVars, queue_mutex,
                     request_mutex>>

-----------------------------------------------------------------------------
(* Clerk threads *)

ClerkMoves(k, from, to) ==
  /\ clerk[k] = from
  /\ clerk' = [clerk EXCEPT ![k] = to]
  /\ UNCHANGED <<mainVars, custVars, lineVars, callVars, queue_mutex>>

\* The wait loop's condition, a load per queue, under request_queue_mutex, which
\* no customer takes.
SeesBusiness(k) ==
  /\ Size(Business) # 0
  /\ request_mutex = Nobody
  /\ ClerkMoves(k, "idle", "select")
  /\ UNCHANGED <<selected, request_mutex>>

SeesNoBusiness(k) ==
  /\ Size(Business) = 0
  /\ request_mutex = Nobody
  /\ ClerkMoves(k, "idle", "noBusiness")
  /\ request_mutex' = k
  /\ UNCHANGED selected

SeesEconomy(k) ==
  /\ Size(Economy) # 0
  /\ ClerkMoves(k, "noBusiness", "select")
  /\ request_mutex' = Nobody
  /\ UNCHANGED selected

SeesNobody(k) ==
  /\ Size(Economy) = 0
  /\ ClerkMoves(k, "noBusiness", "toBlock")
  /\ UNCHANGED <<selected, request_mutex>>

\* pthread_cond_wait(&request_queue_convar, ...): sleep and unlock at once.
Block(k) ==
  /\ ClerkMoves(k, "toBlock", "blocked")
  /\ request_mutex' = Nobody
  /\ UNCHANGED selected

\* The queue is chosen by looking at the sizes again, with no lock held.
SelectBusiness(k) ==
  /\ Size(Business) # 0
  /\ ClerkMoves(k, "select", "chosen")
  /\ selected' = [selected EXCEPT ![k] = Business]
  /\ UNCHANGED request_mutex

PassOverBusiness(k) ==
  /\ Size(Business) = 0
  /\ ClerkMoves(k, "select", "selectEconomy")
  /\ UNCHANGED <<selected, request_mutex>>

SelectEconomy(k) ==
  /\ Size(Economy) # 0
  /\ ClerkMoves(k, "selectEconomy", "chosen")
  /\ selected' = [selected EXCEPT ![k] = Economy]
  /\ UNCHANGED request_mutex

SelectNone(k) ==
  /\ Size(Economy) = 0
  /\ ClerkMoves(k, "selectEconomy", "idle")
  /\ UNCHANGED <<selected, request_mutex>>

\* Mutant of WakeWaiting: a signal, which wakes one customer, not a broadcast.
WakeOne(q) ==
  LET asleep == {c \in Customer : cust[c] = "waiting" /\ Class(c) = q}
  IN  \/ \E c \in asleep : cust' = [cust EXCEPT ![c] = "woken"]
      \/ asleep = {} /\ UNCHANGED cust

\* pthread_cond_broadcast on the queue's condition variable.
WakeWaiting(q) ==
  cust' = [c \in Customer |-> IF cust[c] = "waiting" /\ Class(c) = q THEN "woken" ELSE cust[c]]

\* One critical section: sign the queue, open it for one winner, wake everyone
\* in it.  The size is not looked at again.
Announce(k) ==
  /\ clerk[k] = "chosen"
  /\ queue_mutex[selected[k]] = Nobody
  /\ queue_status' = [queue_status EXCEPT ![selected[k]] = k]
  /\ winner_selected' = [winner_selected EXCEPT ![selected[k]] = 0]
  /\ WakeWaiting(selected[k])
  /\ clerk' = [clerk EXCEPT ![k] = "called"]
  /\ UNCHANGED <<mainVars, curr_clerk, selected, lineVars, queue_mutex, request_mutex>>

\* Wait, once and without a condition, on the clerk's own condition variable.
AwaitDone(k) ==
  /\ ClerkMoves(k, "called", "waitdone")
  /\ UNCHANGED <<selected, request_mutex>>

-----------------------------------------------------------------------------
(* main *)

\* Mutant of CreateCustomer: the loop runs once too often.
CreateOneMore ==
  /\ main = "creating"
  /\ created <= NumCustomers
  /\ created' = created + 1
  /\ UNCHANGED <<main, joined>>

CreateCustomer ==
  /\ main = "creating"
  /\ created < NumCustomers
  /\ created' = created + 1
  /\ UNCHANGED <<main, joined>>

\* pthread_create fails: the program exits with all its threads.
CreateFails ==
  /\ main = "creating"
  /\ created < NumCustomers
  /\ main' = "failed"
  /\ UNCHANGED <<created, joined>>

StartJoining ==
  /\ main = "creating"
  /\ created = NumCustomers
  /\ main' = "joining"
  /\ UNCHANGED <<created, joined>>

\* Mutant of JoinCustomer: main does not wait for the thread.
JoinAtOnce ==
  /\ main = "joining"
  /\ joined < NumCustomers
  /\ joined' = joined + 1
  /\ UNCHANGED <<main, created>>

JoinCustomer ==
  /\ main = "joining"
  /\ joined < NumCustomers
  /\ cust[joined + 1] = "left"
  /\ joined' = joined + 1
  /\ UNCHANGED <<main, created>>

\* "All jobs done...", the averages, and return 0, which ends the clerks too.
Finish ==
  /\ main = "joining"
  /\ joined = NumCustomers
  /\ main' = "done"
  /\ UNCHANGED <<created, joined>>

MainStep ==
  /\ CreateCustomer \/ StartJoining \/ JoinCustomer \/ Finish
  /\ UNCHANGED <<custVars, clerkVars, lineVars, callVars, queue_mutex, request_mutex>>

MainFails ==
  /\ CreateFails
  /\ UNCHANGED <<custVars, clerkVars, lineVars, callVars, queue_mutex, request_mutex>>

-----------------------------------------------------------------------------
(* Wakeups without a signal, which POSIX allows pthread_cond_wait *)

WakeRequest(k) ==
  /\ "request" \in Spurious
  /\ ClerkMoves(k, "blocked", "idle")
  /\ UNCHANGED <<selected, request_mutex>>

WakeClerk(k) ==
  /\ "clerk" \in Spurious
  /\ ClerkMoves(k, "waitdone", "idle")
  /\ UNCHANGED <<selected, request_mutex>>

WakeCustomer(c) ==
  /\ "queue" \in Spurious
  /\ cust[c] = "waiting"
  /\ cust' = [cust EXCEPT ![c] = "woken"]
  /\ UNCHANGED <<mainVars, curr_clerk, clerkVars, lineVars, callVars, queue_mutex, request_mutex>>

-----------------------------------------------------------------------------

\* The process lives until main returns or exits.
Running == main \in {"creating", "joining"}

CustomerStep(c) ==
  /\ Running
  /\ \/ Enqueue(c)
     \/ AwaitCall(c)
     \/ WaitAgain(c)
     \/ TakeTurn(c)
     \/ Claim(c)
     \/ ClearStatus(c)
     \/ Leave(c)

ClerkStep(k) ==
  /\ Running
  /\ \/ SeesBusiness(k)
     \/ SeesNoBusiness(k)
     \/ SeesEconomy(k)
     \/ SeesNobody(k)
     \/ Block(k)
     \/ SelectBusiness(k)
     \/ PassOverBusiness(k)
     \/ SelectEconomy(k)
     \/ SelectNone(k)
     \/ Announce(k)
     \/ AwaitDone(k)

SpuriousStep ==
  /\ Running
  /\ \/ \E k \in Clerk : WakeRequest(k) \/ WakeClerk(k)
     \/ \E c \in Customer : WakeCustomer(c)

Next ==
  \/ \E c \in Customer : CustomerStep(c)
  \/ \E k \in Clerk : ClerkStep(k)
  \/ MainStep
  \/ MainFails
  \/ SpuriousStep

Spec == Init /\ [][Next]_vars

\* The scheduler runs every thread that can run, sleeps end, and a mutex that
\* stays free is handed out.  Nothing obliges a spurious wakeup or a failure.
Fairness ==
  /\ \A c \in Customer : WF_vars(CustomerStep(c))
  /\ \A k \in Clerk : WF_vars(ClerkStep(k))
  /\ WF_vars(MainStep)

FairSpec == Spec /\ Fairness

-----------------------------------------------------------------------------
(* Properties *)

InLine == {"entered", "waiting", "woken"}
AtDesk == {"claimed", "served"}

\* Types of all variables.
TypeOK ==
  /\ main \in {"creating", "joining", "done", "failed"}
  /\ created \in 0 .. NumCustomers
  /\ joined \in 0 .. NumCustomers
  /\ cust \in [Customer -> {"away", "dequeued", "left"} \union InLine \union AtDesk]
  /\ curr_clerk \in [Customer -> Clerk \union {Nobody}]
  /\ clerk \in [Clerk -> {"idle", "noBusiness", "toBlock", "blocked", "select",
                          "selectEconomy", "chosen", "called", "waitdone"}]
  /\ selected \in [Clerk -> Queue]
  /\ queue \in [Queue -> Seq(Customer)]
  /\ queue_length \in [Queue -> Nat]
  /\ queue_status \in [Queue -> Clerk \union {Nobody}]
  /\ winner_selected \in [Queue -> {0, 1}]
  /\ num_customers \in [Queue -> Nat]
  /\ queue_mutex \in [Queue -> Customer \union {Nobody}]
  /\ request_mutex \in Clerk \union {Nobody}

\* checkHead dereferences queue->head: no customer is ever about to run it on
\* an empty queue, although Queue_Dequeue leaves head NULL and clerks call
\* into queues that have emptied meanwhile.
HeadExists ==
  \A c \in Customer : cust[c] \in {"waiting", "woken"} => queue[Class(c)] # <<>>

\* Whenever a queue is unlocked, queue_length and the count of customers taken
\* from it agree with the list and with the customers who came and went.
CountsAgree ==
  \A q \in Queue :
    queue_mutex[q] = Nobody =>
      /\ queue_length[q] = Size(q)
      /\ num_customers[q]
           = Cardinality({c \in Customer : Class(c) = q /\ cust[c] \in AtDesk \union {"left"}})

\* When main prints the averages every customer has been served exactly once,
\* so both divisors are the numbers of customers of the input.
AllJobsDone ==
  main = "done" =>
    \A q \in Queue :
      /\ queue[q] = <<>>
      /\ num_customers[q] = Cardinality({c \in Customer : Class(c) = q})

ServedBy(k) == {c \in Customer : cust[c] \in AtDesk /\ curr_clerk[c] = k}

\* A clerk serves one customer at a time, whatever the interleaving of calls,
\* overwritten calls and missed signals.  The last clerk is exempt once there
\* are business customers: it also gets the signals meant for nobody.
ClerkExclusive ==
  \A k \in Clerk :
    (k # NumClerks \/ \A c \in Customer : Class(c) = Economy) =>
      \A c, d \in ServedBy(k) : c = d

\* An economy customer at the desk was called by a clerk: queue_status[0] is
\* never read before a clerk has signed it.
EconomyHasClerk ==
  \A c \in Customer :
    Class(c) = Economy /\ cust[c] \in AtDesk => curr_clerk[c] \in Clerk

\* What the threads amount to for the front desk: an open call is one that no
\* customer has answered, nor is just about to answer inside its critical section.
ClassOf == [c \in Customer |-> Class(c)]

Stage ==
  [c \in Customer |->
     CASE cust[c] \in InLine -> "inline"
       [] cust[c] \in AtDesk \union {"dequeued"} -> "atdesk"
       [] OTHER -> cust[c]]

Called ==
  [q \in Queue |-> /\ winner_selected[q] = 0
                   /\ \A c \in Customer : Class(c) = q => cust[c] # "dequeued"]

Office ==
  CASE main = "done" -> "closed"
    [] main = "failed" -> "aborted"
    [] OTHER -> "open"

FD == INSTANCE FrontDesk WITH
  line <- queue, stage <- Stage, called <- Called, office <- Office

\* The threads together behave like the front desk: first come first served
\* per class, at most one customer per call, no closing before the last leaves.
ImplementsFrontDesk == FD!Spec

\* The first in line of a queue whose open call has woken somebody, and is not
\* in the hands of a customer that has just dequeued.
CalledHead ==
  {c \in Customer : /\ \E d \in Customer : Class(d) = Class(c) /\ cust[d] = "woken"
                    /\ queue_mutex[Class(c)] = Nobody
                    /\ c = Head(queue[Class(c)])
                    /\ winner_selected[Class(c)] = 0}

\* A call that wakes anybody is never lost on its way to the first in line: the
\* broadcast reaches the head, nobody else can use the call up, and the customer
\* gets to leave whatever becomes of its clerk.
CalledHeadLeaves ==
  \A c \in Customer : c \in CalledHead ~> cust[c] = "left" \/ main = "failed"

\* The comments at a2/A2.c:572 and :580: main waits for all customer threads to
\* terminate, then all jobs are done.
JobsGetDone == <>(main \in {"done", "failed"})

\* The comment at a2/A2.c:423 has a clerk wait for the customer to finish its
\* service: there is a customer it called, or its call still stands.
ClerkAwaitsCustomer ==
  \A k \in Clerk :
    clerk[k] = "waitdone" =>
      \/ ServedBy(k) # {}
      \/ queue_status[selected[k]] = k /\ winner_selected[selected[k]] = 0

\* The comment at a2/A2.c:353 has a customer find out which clerk awoke it:
\* there is such a clerk.
CustomerKnowsClerk ==
  \A c \in Customer : cust[c] \in AtDesk => curr_clerk[c] \in Clerk
=============================================================================
