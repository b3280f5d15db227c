------------------------- MODULE CustomerListProofs -------------------------
(***************************************************************************)
(* Proofs that the pointers of CustomerList represent the queues of        *)
(* CheckIn, for any number of customers and clerks, any input file and any *)
(* spurious wakeups.                                                       *)
(***************************************************************************)
EXTENDS CustomerList, CheckInProofs

LEMMA QueueIsTwo == Economy \in Queue /\ Business \in Queue /\ Queue = {0, 1}
  BY DEF Economy, Business, Queue

\* The pointers only follow what the threads do.
LEMMA ThreadsStep == [ListNext]_listVars => [Next]_vars
  <1>1. ListNext => Next
    BY DEF ListNext, Next, CustomerStep
  <1> QED
    BY <1>1 DEF listVars

LEMMA InitList == ListInit => ListIInv
  <1> SUFFICES ASSUME ListInit PROVE ListIInv
    OBVIOUS
  <1>1. IInv
    BY InitIInv DEF ListInit
  <1>2. \A q \in Queue : queue[q] = <<>>
    BY DEF ListInit, Init
  <1>3. ListTypeOK
    BY DEF ListInit, ListTypeOK
  <1>4. Placed
    BY <1>2 DEF Placed
  <1>5. QueuesAreLinked
    BY <1>2 DEF QueuesAreLinked, IsLinked, ListInit
  <1> QED
    BY <1>1, <1>3, <1>4, <1>5 DEF ListIInv

-----------------------------------------------------------------------------
(* Queue_Enqueue *)

\* A customer that is away stands in no line.
LEMMA AwayIsNowhere ==
  ASSUME Placed, NEW c \in Customer, cust[c] = "away",
         NEW q \in Queue, NEW i \in 1 .. Len(queue[q])
  PROVE  queue[q][i] # c
  BY DEF Placed

LEMMA EnqueueLinks ==
  ASSUME ListIInv, NEW c \in Customer, Enqueue(c), Queue_Enqueue(Class(c), c)
  PROVE  ListTypeOK' /\ Placed' /\ QueuesAreLinked'
  <1> DEFINE p == Class(c)
             n == Len(queue[p])
  <1>a. TypeOK /\ ListTypeOK /\ Placed /\ QueuesAreLinked
    BY DEF ListIInv, IInv
  <1>b. p \in Queue /\ c \in Nat /\ c # NULL
    BY ClassType, CustomerType DEF NULL, Nobody
  <1>c. queue \in [Queue -> Seq(Customer)] /\ n \in Nat
    BY <1>a, <1>b DEF TypeOK
  <1>d. cust[c] = "away" /\ cust' = [cust EXCEPT ![c] = "entered"] /\ DOMAIN cust = Customer
    BY <1>a DEF Enqueue, TypeOK
  <1>e. queue' = [queue EXCEPT ![p] = Append(@, c)]
    BY DEF Enqueue
  <1>1. /\ Len(queue'[p]) = n + 1
        /\ \A i \in 1 .. n : queue'[p][i] = queue[p][i]
        /\ queue'[p][n + 1] = c
        /\ queue'[p] # <<>>
    BY <1>b, <1>c, <1>e
  <1>2. \A q \in Queue : q # p => queue'[q] = queue[q]
    BY <1>e, <1>c
  <1>3. IsLinked(p)
    BY <1>a, <1>b DEF QueuesAreLinked
  <1>4. /\ size'[p] = n + 1 /\ tail'[p] = c
        /\ head'[p] = IF n = 0 THEN c ELSE head[p]
        /\ \A q \in Queue : q # p =>
             size'[q] = size[q] /\ tail'[q] = tail[q] /\ head'[q] = head[q]
    BY <1>a, <1>b, <1>3 DEF Queue_Enqueue, ListTypeOK, IsLinked
  <1>5. \A m \in Node : m # c /\ (n = 0 \/ m # tail[p]) => next'[m] = next[m]
    BY <1>a, <1>3 DEF Queue_Enqueue, createNode, ListTypeOK, IsLinked
  <1>6. n # 0 => /\ tail[p] = queue[p][n] /\ tail[p] \in Customer
                 /\ next'[tail[p]] = c
    <2> SUFFICES ASSUME n # 0 PROVE tail[p] = queue[p][n] /\ tail[p] \in Customer /\ next'[tail[p]] = c
      OBVIOUS
    <2>1. queue[p] # <<>> /\ n \in 1 .. n
      BY <1>b, <1>c
    <2>2. tail[p] = queue[p][n]
      BY <2>1, <1>3 DEF IsLinked
    <2>3. queue[p][n] \in Customer
      BY <2>1, <1>b, <1>c
    <2> QED
      BY <1>a, <1>3, <2>2, <2>3 DEF Queue_Enqueue, createNode, ListTypeOK, IsLinked, Node
  <1>7. ListTypeOK'
    <2>1. head' \in [Queue -> Node \union {NULL}]
      BY <1>a, <1>b DEF Queue_Enqueue, ListTypeOK, Node
    <2>2. tail' \in [Queue -> Node \union {NULL}]
      BY <1>a, <1>b DEF Queue_Enqueue, ListTypeOK, Node
    <2>3. size' \in [Queue -> Nat]
      BY <1>a, <1>b DEF Queue_Enqueue, ListTypeOK
    <2>4. next' \in [Node -> Node \union {NULL}]
      BY <1>a, <1>b DEF Queue_Enqueue, createNode, ListTypeOK, Node
    <2> QED
      BY <2>1, <2>2, <2>3, <2>4 DEF ListTypeOK
  <1>8. Placed'
    <2>1. ASSUME NEW q \in Queue
          PROVE  /\ \A i \in 1 .. Len(queue'[q]) :
                      Class(queue'[q][i]) = q /\ cust'[queue'[q][i]] # "away"
                 /\ \A i, j \in 1 .. Len(queue'[q]) : queue'[q][i] = queue'[q][j] => i = j
      <3>1. \A i \in 1 .. Len(queue[q]) :
              /\ Class(queue[q][i]) = q /\ queue[q][i] # c /\ queue[q][i] \in Customer
              /\ cust'[queue[q][i]] # "away"
        BY <1>a, <1>c, <1>d, AwayIsNowhere DEF Placed
      <3>2. \A i, j \in 1 .. Len(queue[q]) : queue[q][i] = queue[q][j] => i = j
        BY <1>a DEF Placed
      <3>3. CASE q # p
        BY <1>2, <3>1, <3>2, <3>3
      <3>4. CASE q = p
        <4> HIDE DEF p, n
        <4>1. \A i \in 1 .. Len(queue'[p]) : i \in 1 .. n \/ i = n + 1
          BY <1>1, <1>c
        <4>2. \A i \in 1 .. n : /\ Class(queue'[p][i]) = p /\ queue'[p][i] # c
                               /\ cust'[queue'[p][i]] # "away"
          BY <1>1, <3>1, <3>4 DEF n
        <4>3. Class(queue'[p][n + 1]) = p /\ cust'[queue'[p][n + 1]] # "away"
          BY <1>1, <1>d DEF p
        <4>4. \A i, j \in 1 .. n : queue'[p][i] = queue'[p][j] => i = j
          BY <1>1, <3>2, <3>4 DEF n
        <4>5. queue'[p][n + 1] = c
          BY <1>1
        <4> QED BY <3>4, <4>1, <4>2, <4>3, <4>4, <4>5
      <3> QED
        BY <3>3, <3>4
    <2> QED
      BY <2>1 DEF Placed
  <1>9. ASSUME NEW q \in Queue PROVE IsLinked(q)'
    <2>1. CASE q # p
      <3>1. \A i \in 1 .. Len(queue[q]) :
              queue[q][i] \in Node /\ queue[q][i] # c /\ (n = 0 \/ queue[q][i] # tail[p])
        <4> SUFFICES ASSUME NEW i \in 1 .. Len(queue[q])
                     PROVE  queue[q][i] \in Node /\ queue[q][i] # c /\ (n = 0 \/ queue[q][i] # tail[p])
          OBVIOUS
        <4>1. queue[q][i] \in Node /\ queue[q][i] # c /\ Class(queue[q][i]) = q
          BY <1>a, <1>c, <1>d, AwayIsNowhere DEF Placed, Node
        <4>2. n # 0 => n \in 1 .. n /\ Class(queue[p][n]) = p
          BY <1>a, <1>b, <1>c DEF Placed
        <4> QED
          BY <4>1, <4>2, <1>6, <2>1
      <3>2. Len(queue[q]) \in Nat /\ queue'[q] = queue[q] /\ IsLinked(q)
        BY <1>2, <1>a, <1>c, <2>1 DEF QueuesAreLinked
      <3> QED
        BY <1>4, <1>5, <2>1, <3>1, <3>2 DEF IsLinked
    <2>2. CASE q = p
      <3>1. \A i \in 1 .. n : i + 1 \in 1 .. n + 1 /\ next'[queue'[p][i]] = queue'[p][i + 1]
        <4> SUFFICES ASSUME NEW i \in 1 .. n
                     PROVE  i + 1 \in 1 .. n + 1 /\ next'[queue'[p][i]] = queue'[p][i + 1]
          OBVIOUS
        <4>1. queue[p][i] \in Node /\ queue[p][i] # c /\ n # 0
          BY <1>a, <1>b, <1>c, <1>d, AwayIsNowhere DEF Node
        <4>2. CASE i = n
          BY <1>1, <1>6, <1>c, <4>1, <4>2
        <4>3. CASE i < n
          <5>1. queue[p][i] # tail[p]
            BY <1>6, <1>a, <1>b, <1>c, <4>1, <4>3 DEF Placed
          <5>2. next'[queue[p][i]] = next[queue[p][i]]
            BY <1>5, <4>1, <5>1
          <5>3. i \in 1 .. n - 1 /\ i + 1 \in 1 .. n
            BY <1>c, <4>3
          <5>4. next[queue[p][i]] = queue[p][i + 1]
            BY <1>3, <5>3 DEF IsLinked
          <5>5. queue'[p][i] = queue[p][i] /\ queue'[p][i + 1] = queue[p][i + 1]
            BY <1>1, <5>3, Zenon
          <5>6. i + 1 \in 1 .. n + 1
            BY <1>c
          <5> QED
            BY <5>2, <5>4, <5>5, <5>6, Zenon
        <4> QED
          BY <4>2, <4>3, <1>c
      <3>2. head'[p] = queue'[p][1]
        <4>1. CASE n = 0
          BY <1>1, <1>4, <4>1
        <4>2. CASE n # 0
          BY <1>1, <1>3, <1>4, <1>b, <1>c, <4>2 DEF IsLinked
        <4> QED
          BY <4>1, <4>2
      <3> HIDE DEF p, n
      <3> QED
        BY <1>1, <1>4, <1>c, <2>2, <3>1, <3>2 DEF IsLinked
    <2> QED
      BY <2>1, <2>2
  <1> QED
    BY <1>7, <1>8, <1>9 DEF QueuesAreLinked

-----------------------------------------------------------------------------
(* Queue_Dequeue *)

LEMMA DequeueUnlinks ==
  ASSUME ListIInv, NEW c \in Customer, TakeTurn(c), Queue_Dequeue(Class(c))
  PROVE  ListTypeOK' /\ Placed' /\ QueuesAreLinked'
  <1> DEFINE p == Class(c)
             n == Len(queue[p])
  <1>a. TypeOK /\ CountInv /\ ListTypeOK /\ Placed /\ QueuesAreLinked
    BY DEF ListIInv, IInv
  <1>b. p \in Queue
    BY ClassType
  <1>c. queue \in [Queue -> Seq(Customer)] /\ n \in Nat
    BY <1>a, <1>b DEF TypeOK
  <1>d. cust[c] = "woken" /\ cust' = [cust EXCEPT ![c] = "dequeued"] /\ DOMAIN cust = Customer
    BY <1>a DEF TakeTurn, TypeOK
  <1>e. queue' = [queue EXCEPT ![p] = Tail(@)]
    BY DEF TakeTurn
  <1>f. n # 0 /\ queue[p] # <<>>
    BY <1>a, <1>d, LineNotEmpty DEF InLine
  <1>1. /\ Len(queue'[p]) = n - 1
        /\ \A i \in 1 .. n - 1 : i + 1 \in 1 .. n /\ queue'[p][i] = queue[p][i + 1]
        /\ queue'[p] \in Seq(Customer)
    BY <1>b, <1>c, <1>e, <1>f
  <1>2. \A q \in Queue : q # p => queue'[q] = queue[q]
    BY <1>e, <1>c
  <1>3. IsLinked(p)
    BY <1>a, <1>b DEF QueuesAreLinked
  <1>4. /\ size'[p] = n - 1
        /\ head'[p] = IF n = 1 THEN NULL ELSE next[head[p]]
        /\ tail'[p] = IF n = 1 THEN NULL ELSE tail[p]
        /\ \A q \in Queue : q # p =>
             size'[q] = size[q] /\ tail'[q] = tail[q] /\ head'[q] = head[q]
        /\ next' = next
    BY <1>a, <1>b, <1>c, <1>f, <1>3 DEF Queue_Dequeue, ListTypeOK, IsLinked
  <1>5. head[p] = queue[p][1] /\ tail[p] = queue[p][n] /\ head[p] \in Node
    BY <1>3, <1>f, <1>b, <1>c DEF IsLinked, Node
  <1>6. n # 1 => 1 \in 1 .. n - 1 /\ next[head[p]] = queue[p][2] /\ queue[p][2] = queue'[p][1]
    <2> SUFFICES ASSUME n # 1
                 PROVE  1 \in 1 .. n - 1 /\ next[head[p]] = queue[p][2] /\ queue[p][2] = queue'[p][1]
      OBVIOUS
    <2>1. 1 \in 1 .. n - 1 /\ 1 + 1 = 2
      <3> HIDE DEF n
      <3> QED
        BY <1>c, <1>f
    <2>2. queue'[p][1] = queue[p][1 + 1]
      BY <1>1, <2>1
    <2>3. next[queue[p][1]] = queue[p][1 + 1]
      BY <1>3, <2>1 DEF IsLinked
    <2> QED
      BY <1>5, <2>1, <2>2, <2>3
  <1>7. ListTypeOK'
    <2>1. next[head[p]] \in Node \union {NULL}
      BY <1>a, <1>5 DEF ListTypeOK
    <2>2. size[p] = n
      BY <1>3 DEF IsLinked
    <2>3. n - 1 \in Nat
      BY <1>c, <1>f
    <2> QED
      BY <1>a, <1>b, <1>f, <2>1, <2>2, <2>3 DEF Queue_Dequeue, ListTypeOK
  <1>8. Placed'
    <2>1. ASSUME NEW q \in Queue
          PROVE  /\ \A i \in 1 .. Len(queue'[q]) :
                      Class(queue'[q][i]) = q /\ cust'[queue'[q][i]] # "away"
                 /\ \A i, j \in 1 .. Len(queue'[q]) : queue'[q][i] = queue'[q][j] => i = j
      <3>1. \A i \in 1 .. Len(queue[q]) :
              /\ Class(queue[q][i]) = q /\ queue[q][i] \in Customer
              /\ cust'[queue[q][i]] # "away"
        BY <1>a, <1>c, <1>d DEF Placed
      <3>2. \A i, j \in 1 .. Len(queue[q]) : queue[q][i] = queue[q][j] => i = j
        BY <1>a DEF Placed
      <3>3. CASE q # p
        BY <1>2, <3>1, <3>2, <3>3
      <3>4. CASE q = p
        <4>1. \A i \in 1 .. n - 1 : Class(queue'[p][i]) = p /\ cust'[queue'[p][i]] # "away"
          BY <1>1, <3>1, <3>4
        <4>2. \A i, j \in 1 .. n - 1 : queue'[p][i] = queue'[p][j] => i = j
          <5> SUFFICES ASSUME NEW i \in 1 .. n - 1, NEW j \in 1 .. n - 1,
                              queue'[p][i] = queue'[p][j]
                       PROVE  i = j
            OBVIOUS
          <5>1. i + 1 \in 1 .. n /\ j + 1 \in 1 .. n /\ queue[p][i + 1] = queue[p][j + 1]
            BY <1>1
          <5>2. i + 1 = j + 1
            BY <5>1, <3>2, <3>4
          <5> QED
            BY <5>2
        <4> QED
          BY <1>1, <3>4, <4>1, <4>2
      <3> QED
        BY <3>3, <3>4
    <2> QED
      BY <2>1 DEF Placed
  <1>9. ASSUME NEW q \in Queue PROVE IsLinked(q)'
    <2>1. CASE q # p
      <3>1. queue'[q] = queue[q] /\ IsLinked(q)
        BY <1>2, <1>a, <2>1 DEF QueuesAreLinked
      <3> QED
        BY <1>4, <2>1, <3>1 DEF IsLinked
    <2>2. CASE q = p
      <3>1. \A i \in 1 .. n - 2 : next'[queue'[p][i]] = queue'[p][i + 1]
        <4> SUFFICES ASSUME NEW i \in 1 .. n - 2 PROVE next'[queue'[p][i]] = queue'[p][i + 1]
          OBVIOUS
        <4>1. i \in 1 .. n - 1 /\ i + 1 \in 1 .. n - 1
          BY <1>c
        <4>2. queue'[p][i] = queue[p][i + 1] /\ queue'[p][i + 1] = queue[p][(i + 1) + 1]
          BY <1>1, <4>1
        <4>3. next[queue[p][i + 1]] = queue[p][(i + 1) + 1]
          BY <1>3, <4>1 DEF IsLinked
        <4> QED
          BY <1>4, <4>2, <4>3
      <3>2. n = 1 => queue'[p] = <<>> /\ head'[p] = NULL /\ tail'[p] = NULL
        BY <1>1, <1>4
      <3>3. n # 1 => /\ queue'[p] # <<>> /\ head'[p] = queue'[p][1]
                     /\ tail'[p] = queue'[p][n - 1]
        <4> SUFFICES ASSUME n # 1 PROVE queue'[p] # <<>> /\ head'[p] = queue'[p][1] /\ tail'[p] = queue'[p][n - 1]
          OBVIOUS
        <4> HIDE DEF n
        <4>1. n - 1 \in 1 .. n - 1 /\ (n - 1) + 1 = n
          BY <1>c, <1>f
        <4>2. queue'[p][n - 1] = queue[p][n]
          BY <1>1, <4>1
        <4> QED
          BY <1>1, <1>4, <1>5, <1>6, <4>1, <4>2
      <3>4. (n - 1) - 1 = n - 2
        BY <1>c
      <3> HIDE DEF p, n
      <3> QED
        BY <1>1, <1>4, <2>2, <3>1, <3>2, <3>3, <3>4 DEF IsLinked
    <2> QED
      BY <2>1, <2>2
  <1> QED
    BY <1>7, <1>8, <1>9 DEF QueuesAreLinked

-----------------------------------------------------------------------------

\* What the other steps leave alone, and that nobody goes away again.
LEMMA OtherSteps ==
  ASSUME ListIInv, UNCHANGED nodeVars, UNCHANGED queue,
         \A c \in Customer : cust[c] # "away" => cust'[c] # "away"
  PROVE  ListTypeOK' /\ Placed' /\ QueuesAreLinked'
  <1>1. ListTypeOK'
    BY DEF ListIInv, ListTypeOK, nodeVars
  <1>2. QueuesAreLinked'
    BY DEF ListIInv, QueuesAreLinked, IsLinked, nodeVars
  <1>3. Placed'
    <2>1. queue \in [Queue -> Seq(Customer)]
      BY DEF ListIInv, IInv, TypeOK
    <2>2. \A q \in Queue : \A i \in 1 .. Len(queue[q]) : queue[q][i] \in Customer
      BY <2>1
    <2> QED
      BY <2>2 DEF ListIInv, Placed
  <1> QED
    BY <1>1, <1>2, <1>3

LEMMA ListStep == ListIInv /\ [ListNext]_listVars => ListIInv'
  <1> SUFFICES ASSUME ListIInv, [ListNext]_listVars PROVE ListIInv'
    OBVIOUS
  <1>a. IInv /\ TypeOK
    BY DEF ListIInv, IInv
  <1>b. IInv'
    BY <1>a, ThreadsStep, LockStep, CountStep, JoinStep, TypeStep DEF IInv
  <1> DEFINE Quiescent == UNCHANGED queue /\ \A c \in Customer : cust[c] # "away" => cust'[c] # "away"
  <1>1. ASSUME NEW c \in Customer,
               AwaitCall(c) \/ WaitAgain(c) \/ Claim(c) \/ ClearStatus(c) \/ Leave(c) \/ WakeCustomer(c)
        PROVE  Quiescent
    BY <1>1, <1>a DEF AwaitCall, WaitAgain, Claim, AfterClaim, ClearStatus, Leave, WakeCustomer,
                      lineVars, TypeOK
  <1>2. ASSUME NEW k \in Clerk, ClerkStep(k) \/ WakeRequest(k) \/ WakeClerk(k) PROVE Quiescent
    <2>1. CASE Announce(k)
      BY <2>1, <1>a DEF Announce, WakeWaiting, lineVars
    <2>2. CASE ~Announce(k)
      BY <2>2, <1>2 DEF ClerkStep, ClerkMoves, SeesBusiness, SeesNoBusiness, SeesEconomy, SeesNobody,
                        Block, SelectBusiness, PassOverBusiness, SelectEconomy, SelectNone, AwaitDone,
                        WakeRequest, WakeClerk, custVars, lineVars
    <2> QED
      BY <2>1, <2>2
  <1>3. ASSUME MainStep \/ MainFails \/ UNCHANGED vars PROVE Quiescent
    BY <1>3 DEF MainStep, MainFails, vars, custVars, lineVars
  <1>4. ASSUME Quiescent, UNCHANGED nodeVars PROVE ListTypeOK' /\ Placed' /\ QueuesAreLinked'
    BY <1>4, OtherSteps
  <1> HIDE DEF Quiescent
  <1>5. ListTypeOK' /\ Placed' /\ QueuesAreLinked'
    <2>1. CASE \E c \in Customer : Enqueue(c) /\ Queue_Enqueue(Class(c), c)
      BY <2>1, EnqueueLinks
    <2>2. CASE \E c \in Customer : TakeTurn(c) /\ Queue_Dequeue(Class(c))
      BY <2>2, DequeueUnlinks
    <2>3. CASE /\ UNCHANGED nodeVars
               /\ \/ \E c \in Customer : \/ AwaitCall(c) \/ WaitAgain(c) \/ Claim(c)
                                         \/ ClearStatus(c) \/ Leave(c) \/ WakeCustomer(c)
                  \/ \E k \in Clerk : ClerkStep(k) \/ WakeRequest(k) \/ WakeClerk(k)
                  \/ MainStep \/ MainFails \/ UNCHANGED vars
      BY <2>3, <1>1, <1>2, <1>3, <1>4
    <2> QED
      BY <2>1, <2>2, <2>3 DEF ListNext, listVars, SpuriousStep
  <1> QED
    BY <1>b, <1>5 DEF ListIInv

THEOREM ListInductive == ListSpec => []ListIInv
  BY InitList, ListStep, PTL DEF ListSpec

\* The lists of A2.c are well linked at all times: from head to tail through
\* next, with the size that is stored, are exactly the customers in line.
THEOREM ListsRepresentQueues == ListSpec => []QueuesAreLinked
  <1>1. ListIInv => QueuesAreLinked
    BY DEF ListIInv
  <1> QED
    BY ListInductive, <1>1, PTL

\* The pointers add nothing to what the threads do, so that every property of
\* CheckIn is one of the program with its lists.
THEOREM ListsRefineThreads == ListSpec => Spec
  <1>1. ListInit => Init
    BY DEF ListInit
  <1> QED
    BY <1>1, ThreadsStep, PTL DEF ListSpec, Spec
=============================================================================
