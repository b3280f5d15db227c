--------------------------- MODULE CheckInProofs ---------------------------
(***************************************************************************)
(* Proofs of the safety properties of CheckIn for any number of customers  *)
(* and clerks and any input file.                                          *)
(***************************************************************************)
EXTENDS CheckInInvariants, FiniteSetTheorems, TLAPS

(* Facts about the constants and the counting of customers *)

\* customerArray gives every customer a class, also past the end of the file.
LEMMA ClassType == \A c \in Customer : Class(c) \in Queue
  <1> SUFFICES ASSUME NEW c \in Customer PROVE Class(c) \in Queue
    OBVIOUS
  <1>1. CASE c <= Len(Lines)
    <2> DEFINE R == [id : Nat, class_type : Queue]
    <2>1. Lines \in Seq(R)
      BY CheckInAssumption
    <2> HIDE DEF R
    <2>2. Lines[c] \in R
      BY <1>1, <2>1 DEF Customer
    <2> QED
      BY <1>1, <2>2 DEF Class, customerArray, R
  <1>2. CASE ~(c <= Len(Lines))
    BY <1>2 DEF Class, customerArray, Queue
  <1> QED
    BY <1>1, <1>2

LEMMA CustomerType ==
  /\ \A c \in Customer : c \in Nat /\ c # Nobody
  /\ IsFiniteSet(Customer)
  BY CheckInAssumption, FS_Interval DEF Customer, Nobody

\* There are finitely many customers in any place.
LEMMA ThoseFinite ==
  ASSUME NEW q, NEW S
  PROVE  /\ IsFiniteSet(Those(q, S)) /\ Cardinality(Those(q, S)) \in Nat
         /\ Cardinality(Those(q, S)') \in Nat
  BY CustomerType, FS_Subset, FS_CardinalityType DEF Those

\* Customers who stay on their side of S are counted the same.
LEMMA ThoseStay ==
  ASSUME NEW q, NEW S,
         \A c \in Customer : Class(c) = q => (cust'[c] \in S <=> cust[c] \in S)
  PROVE  Those(q, S)' = Those(q, S)
  BY DEF Those

\* A customer that enters S is one more.
LEMMA ThoseEnter ==
  ASSUME NEW S, NEW c \in Customer, cust[c] \notin S, cust'[c] \in S,
         \A d \in Customer \ {c} : cust'[d] = cust[d]
  PROVE  Cardinality(Those(Class(c), S))' = Cardinality(Those(Class(c), S)) + 1
  <1>1. Those(Class(c), S)' = Those(Class(c), S) \union {c}
    BY DEF Those
  <1>2. c \notin Those(Class(c), S)
    BY DEF Those
  <1> QED
    BY <1>1, <1>2, ThoseFinite, FS_AddElement

\* A customer that leaves S is one less.
LEMMA ThoseExit ==
  ASSUME NEW S, NEW c \in Customer, cust[c] \in S, cust'[c] \notin S,
         \A d \in Customer \ {c} : cust'[d] = cust[d]
  PROVE  Cardinality(Those(Class(c), S))' = Cardinality(Those(Class(c), S)) - 1
  <1>1. Those(Class(c), S)' = Those(Class(c), S) \ {c}
    BY DEF Those
  <1>2. c \in Those(Class(c), S)
    BY DEF Those
  <1> QED
    BY <1>1, <1>2, ThoseFinite, FS_RemoveElement

\* A customer's move is seen in its own class only.
LEMMA ThoseOther ==
  ASSUME NEW S, NEW c \in Customer, \A d \in Customer \ {c} : cust'[d] = cust[d],
         NEW q, q # Class(c)
  PROVE  Those(q, S)' = Those(q, S)
  BY DEF Those

\* A queue with a waiting customer of its class is not empty.
LEMMA LineNotEmpty ==
  ASSUME TypeOK, CountInv, NEW c \in Customer, cust[c] \in InLine
  PROVE  Len(queue[Class(c)]) # 0 /\ queue[Class(c)] # <<>>
  <1>1. c \in Those(Class(c), InLine)
    BY DEF Those
  <1>2. Cardinality(Those(Class(c), InLine)) # 0
    BY <1>1, ThoseFinite, FS_EmptySet
  <1>3. Len(queue[Class(c)]) # 0
    BY <1>2, ClassType DEF CountInv
  <1>4. queue[Class(c)] \in Seq(Customer)
    BY ClassType DEF TypeOK
  <1> QED
    BY <1>3, <1>4

-----------------------------------------------------------------------------
(* The inductive invariant *)

LEMMA InitIInv == Init => IInv
  <1> SUFFICES ASSUME Init PROVE IInv
    OBVIOUS
  <1>1. TypeOK
    BY CheckInAssumption
    DEF Init, TypeOK, Customer, Clerk, Queue, Economy, Business, Nobody, InLine, AtDesk
  <1>2. LockInv
    BY DEF Init, LockInv
  <1>3. CountInv
    <2> SUFFICES ASSUME NEW q \in Queue
                 PROVE  /\ Len(queue[q]) = Cardinality(Those(q, InLine))
                        /\ queue_length[q] = Cardinality(Those(q, InLine \union {"dequeued"}))
                        /\ num_customers[q] = Cardinality(Those(q, AtDesk \union {"left"}))
      BY DEF CountInv
    <2>1. \A S : "away" \notin S => Those(q, S) = {}
      BY DEF Init, Those
    <2>2. /\ Those(q, InLine) = {}
          /\ Those(q, InLine \union {"dequeued"}) = {}
          /\ Those(q, AtDesk \union {"left"}) = {}
      BY <2>1 DEF InLine, AtDesk
    <2>3. Cardinality({}) = 0
      BY FS_EmptySet
    <2>4. queue[q] = <<>> /\ queue_length[q] = 0 /\ num_customers[q] = 0
      BY DEF Init
    <2> QED
      BY <2>2, <2>3, <2>4
  <1>4. JoinInv
    BY CustomerType DEF Init, JoinInv, Nobody
  <1> QED
    BY <1>1, <1>2, <1>3, <1>4 DEF IInv

\* What the critical sections and the waiting of customers touch.
CustomerSide == <<cust, queue, queue_length, num_customers, queue_mutex>>

\* Only customers, a clerk's broadcast and a spurious wakeup touch that part.
LEMMA CustomerSideMoves ==
  ASSUME [Next]_vars
  PROVE  \/ \E c \in Customer : \/ Enqueue(c)
                                \/ AwaitCall(c)
                                \/ WaitAgain(c)
                                \/ TakeTurn(c)
                                \/ Claim(c)
                                \/ ClearStatus(c)
                                \/ Leave(c)
                                \/ WakeCustomer(c)
         \/ \E k \in Clerk : Announce(k)
         \/ UNCHANGED CustomerSide
  <1> USE DEF CustomerSide, custVars, lineVars
  <1>1. ASSUME NEW k \in Clerk, ClerkStep(k)
        PROVE  Announce(k) \/ UNCHANGED CustomerSide
    BY <1>1 DEF ClerkStep, ClerkMoves, SeesBusiness, SeesNoBusiness, SeesEconomy, SeesNobody,
                Block, SelectBusiness, PassOverBusiness, SelectEconomy, SelectNone, AwaitDone
  <1>2. CASE MainStep \/ MainFails
    BY <1>2 DEF MainStep, MainFails
  <1>3. ASSUME NEW k \in Clerk, WakeRequest(k) \/ WakeClerk(k)
        PROVE  UNCHANGED CustomerSide
    BY <1>3 DEF WakeRequest, WakeClerk, ClerkMoves
  <1>4. CASE UNCHANGED vars
    BY <1>4 DEF vars
  <1> QED
    BY <1>1, <1>2, <1>3, <1>4 DEF Next, CustomerStep, SpuriousStep


\* Nobody is in the critical section of a free queue.
LEMMA FreeQueue ==
  ASSUME LockInv, NEW c \in Customer, queue_mutex[Class(c)] = Nobody
  PROVE  cust[c] \notin {"entered", "dequeued"}
  BY CustomerType DEF LockInv

\* Customers wait or wake, and the rest of their side stays.
WaitOrWake ==
  /\ \A c \in Customer :
       \/ cust'[c] = cust[c]
       \/ cust[c] \in {"waiting", "woken"} /\ cust'[c] \in {"waiting", "woken"}
  /\ UNCHANGED <<queue, queue_length, num_customers, queue_mutex>>

\* A customer that goes back to wait, a broadcast and a spurious wakeup do that.
LEMMA WaitingMoves ==
  ASSUME TypeOK,
         \/ \E c \in Customer : WaitAgain(c) \/ WakeCustomer(c)
         \/ \E k \in Clerk : Announce(k)
  PROVE  WaitOrWake
  <1>1. ASSUME NEW c \in Customer, WaitAgain(c) \/ WakeCustomer(c) PROVE WaitOrWake
    BY <1>1 DEF WaitAgain, WakeCustomer, WaitOrWake, lineVars, TypeOK
  <1>2. ASSUME NEW k \in Clerk, Announce(k) PROVE WaitOrWake
    BY <1>2 DEF Announce, WakeWaiting, WaitOrWake, lineVars
  <1> QED
    BY <1>1, <1>2

LEMMA LockStep == TypeOK /\ LockInv /\ [Next]_vars => LockInv'
  <1> SUFFICES ASSUME TypeOK, LockInv, [Next]_vars PROVE LockInv'
    OBVIOUS
  <1>0. /\ DOMAIN cust = Customer
        /\ cust = [c \in Customer |-> cust[c]]
        /\ queue_mutex \in [Queue -> Customer \union {Nobody}]
    BY DEF TypeOK
  <1> USE <1>0, ClassType, CustomerType DEF LockInv
  <1>1. ASSUME NEW c \in Customer, Enqueue(c) PROVE LockInv'
    <2>1. \A d \in Customer \ {c} :
            /\ cust'[d] = cust[d]
            /\ cust[d] \in {"entered", "dequeued"} => Class(d) # Class(c)
      BY <1>1, FreeQueue DEF Enqueue
    <2>2. cust'[c] = "entered" /\ queue_mutex' = [queue_mutex EXCEPT ![Class(c)] = c]
      BY <1>1 DEF Enqueue
    <2> QED
      BY <2>1, <2>2
  <1>2. ASSUME NEW c \in Customer, AwaitCall(c) PROVE LockInv'
    BY <1>2 DEF AwaitCall
  <1>3. ASSUME NEW c \in Customer, TakeTurn(c) PROVE LockInv'
    <2>1. \A d \in Customer \ {c} :
            /\ cust'[d] = cust[d]
            /\ cust[d] \in {"entered", "dequeued"} => Class(d) # Class(c)
      BY <1>3, FreeQueue DEF TakeTurn
    <2>2. cust'[c] = "dequeued" /\ queue_mutex' = [queue_mutex EXCEPT ![Class(c)] = c]
      BY <1>3 DEF TakeTurn
    <2> QED
      BY <2>1, <2>2
  <1>4. ASSUME NEW c \in Customer, Claim(c) PROVE LockInv'
    BY <1>4 DEF Claim, AfterClaim
  <1>5. ASSUME NEW c \in Customer, ClearStatus(c) PROVE LockInv'
    BY <1>5 DEF ClearStatus
  <1>6. ASSUME NEW c \in Customer, Leave(c) PROVE LockInv'
    BY <1>6 DEF Leave
  <1>7. CASE WaitOrWake
    BY <1>7 DEF WaitOrWake
  <1>8. CASE UNCHANGED CustomerSide
    BY <1>8 DEF CustomerSide
  <1> QED
    BY <1>1, <1>2, <1>3, <1>4, <1>5, <1>6, <1>7, <1>8, WaitingMoves, CustomerSideMoves

LEMMA CountStep == TypeOK /\ CountInv /\ [Next]_vars => CountInv'
  <1> SUFFICES ASSUME TypeOK, CountInv, [Next]_vars PROVE CountInv'
    OBVIOUS
  <1> DEFINE In == InLine \union {"dequeued"}
             Out == AtDesk \union {"left"}
             Counted(q) ==
               /\ Len(queue[q]) = Cardinality(Those(q, InLine))
               /\ queue_length[q] = Cardinality(Those(q, In))
               /\ num_customers[q] = Cardinality(Those(q, Out))
             OthersStay(c) ==
               /\ \A d \in Customer \ {c} : cust'[d] = cust[d]
               /\ \A q \in Queue \ {Class(c)} : /\ queue'[q] = queue[q]
                                                /\ queue_length'[q] = queue_length[q]
                                                /\ num_customers'[q] = num_customers[q]
  <1>a. /\ \A q \in Queue : queue[q] \in Seq(Customer) /\ Counted(q)
        /\ DOMAIN queue = Queue /\ DOMAIN queue_length = Queue /\ DOMAIN num_customers = Queue
        /\ DOMAIN cust = Customer
    BY DEF TypeOK, CountInv
  <1>b. SUFFICES \A q \in Queue : Counted(q)'
    BY DEF CountInv
  <1>c. ASSUME NEW c \in Customer, OthersStay(c), Counted(Class(c))'
        PROVE  \A q \in Queue : Counted(q)'
    <2> SUFFICES ASSUME NEW q \in Queue, q # Class(c) PROVE Counted(q)'
      BY <1>c
    <2>1. \A S : Those(q, S)' = Those(q, S)
      BY <1>c, ThoseOther
    <2> QED
      BY <1>a, <1>c, <2>1
  <1>1. ASSUME NEW c \in Customer, Enqueue(c) PROVE \A q \in Queue : Counted(q)'
    <2>1. cust[c] = "away" /\ cust'[c] = "entered" /\ OthersStay(c)
      BY <1>1, <1>a DEF Enqueue
    <2>2. /\ Cardinality(Those(Class(c), InLine))' = Cardinality(Those(Class(c), InLine)) + 1
          /\ Cardinality(Those(Class(c), In))' = Cardinality(Those(Class(c), In)) + 1
      BY <2>1, ThoseEnter DEF InLine
    <2>3. Those(Class(c), Out)' = Those(Class(c), Out)
      BY <2>1, ThoseStay DEF AtDesk
    <2>4. /\ queue'[Class(c)] = Append(queue[Class(c)], c)
          /\ queue_length'[Class(c)] = queue_length[Class(c)] + 1
          /\ num_customers' = num_customers
      BY <1>1, <1>a, ClassType DEF Enqueue
    <2>5. Len(queue'[Class(c)]) = Len(queue[Class(c)]) + 1
      BY <1>a, <2>4, ClassType
    <2>6. Counted(Class(c))'
      BY <1>a, <2>2, <2>3, <2>4, <2>5, ClassType
    <2> QED
      BY <1>c, <2>1, <2>6
  <1>2. ASSUME NEW c \in Customer, AwaitCall(c) PROVE \A q \in Queue : Counted(q)'
    <2>1. /\ cust[c] = "entered" /\ cust'[c] = "waiting" /\ OthersStay(c)
          /\ UNCHANGED <<queue, queue_length, num_customers>>
      BY <1>2, <1>a DEF AwaitCall, lineVars
    <2>2. /\ Those(Class(c), InLine)' = Those(Class(c), InLine)
          /\ Those(Class(c), In)' = Those(Class(c), In)
          /\ Those(Class(c), Out)' = Those(Class(c), Out)
      BY <2>1, ThoseStay DEF InLine, AtDesk
    <2>3. Counted(Class(c))'
      BY <1>a, <2>1, <2>2, ClassType
    <2> QED
      BY <1>c, <2>1, <2>3
  <1>3. ASSUME NEW c \in Customer, TakeTurn(c) PROVE \A q \in Queue : Counted(q)'
    <2>1. /\ cust[c] = "woken" /\ cust'[c] = "dequeued" /\ OthersStay(c)
          /\ UNCHANGED <<queue_length, num_customers>>
      BY <1>3, <1>a DEF TakeTurn
    <2>2. Cardinality(Those(Class(c), InLine))' = Cardinality(Those(Class(c), InLine)) - 1
      BY <2>1, ThoseExit DEF InLine
    <2>3. /\ Those(Class(c), In)' = Those(Class(c), In)
          /\ Those(Class(c), Out)' = Those(Class(c), Out)
      BY <2>1, ThoseStay DEF InLine, AtDesk
    <2>4. queue'[Class(c)] = Tail(queue[Class(c)]) /\ queue[Class(c)] # <<>>
      BY <1>3, <1>a, <2>1, ClassType, LineNotEmpty DEF TakeTurn, InLine
    <2>5. Len(queue'[Class(c)]) = Len(queue[Class(c)]) - 1
      BY <1>a, <2>4, ClassType
    <2>6. Counted(Class(c))'
      BY <1>a, <2>1, <2>2, <2>3, <2>5, ClassType
    <2> QED
      BY <1>c, <2>1, <2>6
  <1>4. ASSUME NEW c \in Customer, Claim(c) PROVE \A q \in Queue : Counted(q)'
    <2>1. cust[c] = "dequeued" /\ cust'[c] \in AtDesk /\ OthersStay(c) /\ queue' = queue
      BY <1>4, <1>a DEF Claim, LeaveLength, AfterClaim, AtDesk
    <2>2. Those(Class(c), InLine)' = Those(Class(c), InLine)
      BY <2>1, ThoseStay DEF InLine, AtDesk
    <2>3. Cardinality(Those(Class(c), In))' = Cardinality(Those(Class(c), In)) - 1
      BY <2>1, ThoseExit DEF InLine, AtDesk
    <2>4. Cardinality(Those(Class(c), Out))' = Cardinality(Those(Class(c), Out)) + 1
      BY <2>1, ThoseEnter DEF AtDesk
    <2>5. /\ queue_length'[Class(c)] = queue_length[Class(c)] - 1
          /\ num_customers'[Class(c)] = num_customers[Class(c)] + 1
      BY <1>4, <1>a, ClassType DEF Claim, LeaveLength
    <2>6. Counted(Class(c))'
      BY <1>a, <2>1, <2>2, <2>3, <2>4, <2>5, ClassType
    <2> QED
      BY <1>c, <2>1, <2>6
  <1>5. ASSUME NEW c \in Customer, ClearStatus(c) \/ Leave(c)
        PROVE  \A q \in Queue : Counted(q)'
    <2>1. /\ cust[c] \in AtDesk /\ cust'[c] \in Out /\ OthersStay(c)
          /\ UNCHANGED <<queue, queue_length, num_customers>>
      BY <1>5, <1>a DEF ClearStatus, Leave, AtDesk, lineVars
    <2>2. /\ Those(Class(c), InLine)' = Those(Class(c), InLine)
          /\ Those(Class(c), In)' = Those(Class(c), In)
          /\ Those(Class(c), Out)' = Those(Class(c), Out)
      BY <2>1, ThoseStay DEF InLine, AtDesk
    <2>3. Counted(Class(c))'
      BY <1>a, <2>1, <2>2, ClassType
    <2> QED
      BY <1>c, <2>1, <2>3
  <1>6. ASSUME WaitOrWake \/ UNCHANGED CustomerSide PROVE \A q \in Queue : Counted(q)'
    <2>1. UNCHANGED <<queue, queue_length, num_customers>>
      BY <1>6 DEF WaitOrWake, CustomerSide
    <2>2. \A c \in Customer :
            \/ cust'[c] = cust[c]
            \/ cust[c] \in {"waiting", "woken"} /\ cust'[c] \in {"waiting", "woken"}
      BY <1>6 DEF WaitOrWake, CustomerSide
    <2>3. ASSUME NEW q
          PROVE  /\ Those(q, InLine)' = Those(q, InLine)
                 /\ Those(q, In)' = Those(q, In)
                 /\ Those(q, Out)' = Those(q, Out)
      BY <2>2, ThoseStay DEF InLine, AtDesk
    <2> QED
      BY <1>a, <2>1, <2>3
  <1> QED
    BY <1>1, <1>2, <1>3, <1>4, <1>5, <1>6, WaitingMoves, CustomerSideMoves

LEMMA JoinStep == TypeOK /\ JoinInv /\ [Next]_vars => JoinInv'
  <1> SUFFICES ASSUME TypeOK, JoinInv, [Next]_vars PROVE JoinInv'
    OBVIOUS
  <1>a. /\ joined \in 0 .. NumCustomers /\ NumCustomers \in Nat
        /\ DOMAIN cust = Customer
    BY CheckInAssumption DEF TypeOK
  <1>b. \A c \in Customer : cust[c] = "left" => cust'[c] = "left"
    <2>1. ASSUME NEW c \in Customer, Enqueue(c) \/ AwaitCall(c) \/ TakeTurn(c)
          PROVE  \A d \in Customer : cust[d] = "left" => cust'[d] = "left"
      BY <2>1, <1>a DEF Enqueue, AwaitCall, TakeTurn
    <2>2. ASSUME NEW c \in Customer, Claim(c) \/ ClearStatus(c) \/ Leave(c)
          PROVE  \A d \in Customer : cust[d] = "left" => cust'[d] = "left"
      BY <2>2, <1>a DEF Claim, ClearStatus, Leave
    <2>3. CASE WaitOrWake \/ UNCHANGED CustomerSide
      BY <2>3 DEF WaitOrWake, CustomerSide
    <2> QED
      BY <2>1, <2>2, <2>3, WaitingMoves, CustomerSideMoves
  <1>1. CASE MainStep \/ MainFails
    BY <1>1, <1>a DEF MainStep, MainFails, CreateCustomer, CreateFails, StartJoining, JoinCustomer,
                      Finish, JoinInv, custVars, Customer
  <1>2. CASE UNCHANGED mainVars
    BY <1>2, <1>b DEF JoinInv, mainVars
  <1>3. ASSUME NEW c \in Customer, CustomerStep(c) PROVE UNCHANGED mainVars
    BY <1>3 DEF CustomerStep, Enqueue, AwaitCall, WaitAgain, TakeTurn, Claim, ClearStatus, Leave
  <1>4. ASSUME NEW k \in Clerk, ClerkStep(k) PROVE UNCHANGED mainVars
    BY <1>4 DEF ClerkStep, ClerkMoves, SeesBusiness, SeesNoBusiness, SeesEconomy, SeesNobody,
                Block, SelectBusiness, PassOverBusiness, SelectEconomy, SelectNone, Announce,
                AwaitDone
  <1>5. CASE SpuriousStep
    BY <1>2, <1>5 DEF SpuriousStep, WakeRequest, WakeClerk, WakeCustomer, ClerkMoves
  <1>6. CASE UNCHANGED vars
    BY <1>2, <1>6 DEF vars
  <1> QED
    BY <1>1, <1>2, <1>3, <1>4, <1>5, <1>6 DEF Next

LEMMA TypeStep == IInv /\ CountInv' /\ [Next]_vars => TypeOK'
  <1> SUFFICES ASSUME IInv, CountInv', [Next]_vars PROVE TypeOK'
    OBVIOUS
  <1>a. TypeOK /\ CountInv
    BY DEF IInv
  <1>b. \A q \in Queue : queue_length'[q] \in Nat /\ num_customers'[q] \in Nat
    BY ThoseFinite DEF CountInv
  <1>c. NumCustomers \in Nat /\ NumClerks \in Clerk /\ NumClerks \in Nat
    BY CheckInAssumption DEF Clerk
  <1> USE <1>a, <1>c, ClassType DEF TypeOK, InLine, AtDesk, Nobody
  <1>1. ASSUME NEW c \in Customer, Enqueue(c) PROVE TypeOK'
    <2>1. Append(queue[Class(c)], c) \in Seq(Customer)
      OBVIOUS
    <2> QED
      BY <1>1, <1>b, <2>1 DEF Enqueue, mainVars, clerkVars, callVars
  <1>2. ASSUME NEW c \in Customer, AwaitCall(c) PROVE TypeOK'
    BY <1>2 DEF AwaitCall, SignalRequest, mainVars, lineVars, callVars
  <1>3. ASSUME NEW c \in Customer, WaitAgain(c) \/ WakeCustomer(c) PROVE TypeOK'
    BY <1>3 DEF WaitAgain, WakeCustomer, mainVars, clerkVars, lineVars, callVars
  <1>4. ASSUME NEW c \in Customer, TakeTurn(c) PROVE TypeOK'
    <2>1. queue[Class(c)] # <<>>
      BY <1>4, LineNotEmpty DEF TakeTurn
    <2>2. Tail(queue[Class(c)]) \in Seq(Customer)
      BY <2>1
    <2> QED
      BY <1>4, <2>2 DEF TakeTurn, mainVars, clerkVars, callVars
  <1>5. ASSUME NEW c \in Customer, Claim(c) PROVE TypeOK'
    BY <1>5, <1>b DEF Claim, LeaveLength, UseCallUp, AfterClaim, mainVars, clerkVars
  <1>6. ASSUME NEW c \in Customer, ClearStatus(c) PROVE TypeOK'
    BY <1>6 DEF ClearStatus, mainVars, clerkVars, lineVars
  <1>7. ASSUME NEW c \in Customer, Leave(c) PROVE TypeOK'
    BY <1>7 DEF Leave, SignalledClerk, mainVars, lineVars, callVars
  <1>8. ASSUME NEW k \in Clerk, SeesBusiness(k) \/ SeesNoBusiness(k) \/ SeesEconomy(k)
                                \/ SeesNobody(k) \/ Block(k)
        PROVE  TypeOK'
    BY <1>8 DEF SeesBusiness, SeesNoBusiness, SeesEconomy, SeesNobody, Block, ClerkMoves,
                mainVars, custVars, lineVars, callVars
  <1>9. ASSUME NEW k \in Clerk, SelectBusiness(k) \/ PassOverBusiness(k) \/ SelectEconomy(k)
                                \/ SelectNone(k) \/ AwaitDone(k) \/ WakeRequest(k)
                                \/ WakeClerk(k)
        PROVE  TypeOK'
    BY <1>9 DEF SelectBusiness, PassOverBusiness, SelectEconomy, SelectNone, AwaitDone,
                WakeRequest, WakeClerk, ClerkMoves, mainVars, custVars, lineVars, callVars, Queue
  <1>10. ASSUME NEW k \in Clerk, Announce(k) PROVE TypeOK'
    BY <1>10 DEF Announce, WakeWaiting, mainVars, lineVars
  <1>11. CASE MainStep \/ MainFails
    BY <1>11 DEF MainStep, MainFails, CreateCustomer, CreateFails, StartJoining, JoinCustomer,
                 Finish, custVars, clerkVars, lineVars, callVars
  <1>12. CASE UNCHANGED vars
    BY <1>12 DEF vars, mainVars, custVars, clerkVars, lineVars, callVars
  <1> QED
    BY <1>1, <1>2, <1>3, <1>4, <1>5, <1>6, <1>7, <1>8, <1>9, <1>10, <1>11, <1>12
    DEF Next, CustomerStep, ClerkStep, SpuriousStep

\* IInv is an invariant, whatever the constants and with any spurious wakeups.
THEOREM Inductive == Spec => []IInv
  <1>1. IInv /\ [Next]_vars => IInv'
    BY LockStep, CountStep, JoinStep, TypeStep DEF IInv
  <1> QED
    BY InitIInv, <1>1, PTL DEF Spec

\* Every variable keeps its type: in particular the lengths of the queues never
\* go below zero, and no dequeue finds its queue empty.
THEOREM TypeCorrect == Spec => []TypeOK
  <1>1. IInv => TypeOK
    BY DEF IInv
  <1> QED
    BY Inductive, <1>1, PTL

\* checkHead never dereferences a NULL head, even with spurious wakeups, equal
\* ids, and threads for the zeroed rest of customerArray.
THEOREM HeadNeverNull == Spec => []HeadExists
  <1>1. IInv => HeadExists
    BY LineNotEmpty DEF IInv, HeadExists, InLine
  <1> QED
    BY Inductive, <1>1, PTL

\* Outside the critical sections the counters of a queue agree with its list
\* and with the customers who came and went.
THEOREM CountsCorrect == Spec => []CountsAgree
  <1>1. IInv => CountsAgree
    <2> SUFFICES ASSUME IInv, NEW q \in Queue, queue_mutex[q] = Nobody
                 PROVE  /\ queue_length[q] = Len(queue[q])
                        /\ num_customers[q] = Cardinality(Those(q, AtDesk \union {"left"}))
      BY DEF CountsAgree, Size, Those
    <2>1. Those(q, InLine \union {"dequeued"}) = Those(q, InLine)
      BY FreeQueue DEF IInv, Those
    <2> QED
      BY <2>1 DEF IInv, CountInv
  <1> QED
    BY Inductive, <1>1, PTL

\* main prints its averages only when every customer has been served once.
THEOREM DoneMeansServed == Spec => []AllJobsDone
  <1>1. IInv => AllJobsDone
    <2> SUFFICES ASSUME IInv, main = "done", NEW q \in Queue
                 PROVE  /\ queue[q] = <<>>
                        /\ num_customers[q] = Cardinality({c \in Customer : Class(c) = q})
      BY DEF AllJobsDone
    <2>1. \A c \in Customer : cust[c] = "left"
      BY CheckInAssumption DEF IInv, JoinInv, Customer
    <2>2. /\ Those(q, AtDesk \union {"left"}) = {c \in Customer : Class(c) = q}
          /\ Those(q, InLine) = {}
      BY <2>1 DEF Those, InLine
    <2>3. Len(queue[q]) = 0 /\ queue[q] \in Seq(Customer)
      BY <2>2, FS_EmptySet DEF IInv, CountInv, TypeOK
    <2>4. queue[q] = <<>>
      BY <2>3
    <2>5. num_customers[q] = Cardinality({c \in Customer : Class(c) = q})
      BY <2>2 DEF IInv, CountInv
    <2> QED
      BY <2>4, <2>5
  <1> QED
    BY Inductive, <1>1, PTL

-----------------------------------------------------------------------------
(* Calls: clerks and the customers they serve *)

LEMMA InitCalls == Init => SignedInv /\ CallInv
  BY DEF Init, SignedInv, CallInv, OneAtATime, ServedBy, AtDesk, OpenCall, Addressed, Nobody, Clerk

LEMMA SignedStep ==
  ASSUME "queue" \notin Spurious
  PROVE  IInv /\ SignedInv /\ [Next]_vars => SignedInv'
  <1> SUFFICES ASSUME IInv, SignedInv, [Next]_vars PROVE SignedInv'
    OBVIOUS
  <1>a. TypeOK /\ LockInv
    BY DEF IInv
  <1> USE <1>a, ClassType DEF SignedInv, AtDesk, TypeOK
  <1>1. ASSUME NEW c \in Customer, Enqueue(c) \/ AwaitCall(c) \/ WaitAgain(c) \/ TakeTurn(c)
        PROVE  SignedInv'
    BY <1>1 DEF Enqueue, AwaitCall, WaitAgain, TakeTurn, callVars
  <1>2. ASSUME NEW c \in Customer, Claim(c) PROVE SignedInv'
    BY <1>2 DEF Claim, AfterClaim
  <1>3. ASSUME NEW c \in Customer, ClearStatus(c) PROVE SignedInv'
    BY <1>3 DEF ClearStatus, Business, Economy
  <1>4. ASSUME NEW c \in Customer, Leave(c) PROVE SignedInv'
    BY <1>4 DEF Leave, callVars
  <1>5. ASSUME NEW k \in Clerk, Announce(k) PROVE SignedInv'
    BY <1>5 DEF Announce, WakeWaiting
  <1>6. CASE UNCHANGED <<cust, curr_clerk, queue_status>>
    BY <1>6
  <1>7. ASSUME NEW k \in Clerk, ClerkStep(k), ~Announce(k)
        PROVE  UNCHANGED <<cust, curr_clerk, queue_status>>
    BY <1>7 DEF ClerkStep, ClerkMoves, SeesBusiness, SeesNoBusiness, SeesEconomy, SeesNobody,
                Block, SelectBusiness, PassOverBusiness, SelectEconomy, SelectNone, AwaitDone,
                custVars, callVars
  <1>8. CASE MainStep \/ MainFails \/ UNCHANGED vars
    BY <1>6, <1>8 DEF MainStep, MainFails, vars, custVars, callVars
  <1>9. CASE SpuriousStep
    BY <1>6, <1>9 DEF SpuriousStep, WakeRequest, WakeClerk, WakeCustomer, ClerkMoves, custVars,
                      callVars
  <1> QED
    BY <1>1, <1>2, <1>3, <1>4, <1>5, <1>6, <1>7, <1>8, <1>9 DEF Next, CustomerStep

\* A step that neither opens a call, nor brings a customer to a desk or away
\* from it, nor frees a clerk.
Quiet ==
  \A k \in Clerk :
    /\ ServedBy(k)' = ServedBy(k)
    /\ \A q \in Queue : OpenCall(q, k)' => OpenCall(q, k)
    /\ Engaged(k) => Engaged(k)' /\ selected'[k] = selected[k]

\* All steps are quiet but a clerk's call, its answer and the customer's goodbye.
LEMMA QuietSteps ==
  ASSUME TypeOK, [Next]_vars, "clerk" \notin Spurious,
         \A c \in Customer : ~Claim(c) /\ ~Leave(c),
         \A k \in Clerk : ~Announce(k)
  PROVE  Quiet
  <1> USE DEF TypeOK, Quiet, ServedBy, OpenCall, Engaged, AtDesk
  <1>1. ASSUME NEW c \in Customer,
               Enqueue(c) \/ AwaitCall(c) \/ WaitAgain(c) \/ TakeTurn(c) \/ WakeCustomer(c)
        PROVE  Quiet
    BY <1>1 DEF Enqueue, AwaitCall, SignalRequest, WaitAgain, TakeTurn, WakeCustomer, clerkVars,
                callVars
  <1>2. ASSUME NEW c \in Customer, ClearStatus(c) PROVE Quiet
    BY <1>2, ClassType DEF ClearStatus, clerkVars, Nobody, Clerk
  <1>3. ASSUME NEW k \in Clerk, ClerkStep(k) PROVE Quiet
    BY <1>3 DEF ClerkStep, ClerkMoves, SeesBusiness, SeesNoBusiness, SeesEconomy, SeesNobody,
                Block, SelectBusiness, PassOverBusiness, SelectEconomy, SelectNone, AwaitDone,
                custVars, callVars
  <1>4. ASSUME NEW k \in Clerk, WakeRequest(k) PROVE Quiet
    BY <1>4 DEF WakeRequest, ClerkMoves, custVars, callVars
  <1>5. CASE MainStep \/ MainFails \/ UNCHANGED vars
    BY <1>5 DEF MainStep, MainFails, vars, custVars, clerkVars, callVars
  <1> QED
    BY <1>1, <1>2, <1>3, <1>4, <1>5 DEF Next, CustomerStep, SpuriousStep, WakeClerk

LEMMA CallStep ==
  ASSUME "clerk" \notin Spurious
  PROVE  IInv /\ SignedInv /\ CallInv /\ [Next]_vars => CallInv'
  <1> SUFFICES ASSUME IInv, SignedInv, CallInv, [Next]_vars PROVE CallInv'
    OBVIOUS
  <1>a. TypeOK /\ LockInv
    BY DEF IInv
  <1>1. ASSUME NEW d \in Customer, cust'[d] = "dequeued" PROVE winner_selected'[Class(d)] = 0
    <2> USE <1>1, <1>a, ClassType, CustomerType DEF TypeOK, LockInv, CallInv
    <2>1. ASSUME NEW c \in Customer, Enqueue(c) \/ AwaitCall(c)
          PROVE  winner_selected'[Class(d)] = 0
      BY <2>1 DEF Enqueue, AwaitCall, callVars
    <2>2. ASSUME NEW c \in Customer, TakeTurn(c) PROVE winner_selected'[Class(d)] = 0
      BY <2>2 DEF TakeTurn, MyTurn, callVars
    <2>3. ASSUME NEW c \in Customer, Claim(c) PROVE winner_selected'[Class(d)] = 0
      BY <2>3 DEF Claim, AfterClaim, UseCallUp
    <2>4. ASSUME NEW c \in Customer, ClearStatus(c) \/ Leave(c)
          PROVE  winner_selected'[Class(d)] = 0
      BY <2>4 DEF ClearStatus, Leave, callVars
    <2>5. ASSUME NEW c \in Customer, WaitAgain(c) \/ WakeCustomer(c)
          PROVE  winner_selected'[Class(d)] = 0
      BY <2>5 DEF WaitAgain, WakeCustomer, callVars
    <2>6. ASSUME NEW k \in Clerk, Announce(k) PROVE winner_selected'[Class(d)] = 0
      BY <2>6 DEF Announce, WakeWaiting
    <2>7. CASE UNCHANGED <<cust, winner_selected>>
      BY <2>7
    <2>8. ASSUME NEW k \in Clerk, ClerkStep(k), ~Announce(k)
          PROVE  UNCHANGED <<cust, winner_selected>>
      BY <2>8 DEF ClerkStep, ClerkMoves, SeesBusiness, SeesNoBusiness, SeesEconomy, SeesNobody,
                  Block, SelectBusiness, PassOverBusiness, SelectEconomy, SelectNone, AwaitDone,
                  custVars, callVars
    <2>9. CASE MainStep \/ MainFails \/ UNCHANGED vars
      BY <2>7, <2>9 DEF MainStep, MainFails, vars, custVars, callVars
    <2>10. ASSUME NEW k \in Clerk, WakeRequest(k) \/ WakeClerk(k)
           PROVE  UNCHANGED <<cust, winner_selected>>
      BY <2>10 DEF WakeRequest, WakeClerk, ClerkMoves, custVars, callVars
    <2> QED
      BY <2>1, <2>2, <2>3, <2>4, <2>5, <2>6, <2>7, <2>8, <2>9, <2>10
      DEF Next, CustomerStep, SpuriousStep
  <1>2. ASSUME NEW k \in Addressed, Quiet PROVE OneAtATime(k)'
    BY <1>2 DEF CallInv, OneAtATime, Quiet, Addressed
  <1>3. ASSUME NEW k \in Addressed, NEW c \in Customer, Claim(c) PROVE OneAtATime(k)'
    <2> DEFINE q == Class(c)
    <2>1. q \in Queue /\ k \in Clerk /\ OneAtATime(k) /\ winner_selected[q] = 0
      BY <1>3, ClassType DEF Claim, CallInv, Addressed
    <2>2. /\ cust[c] \notin AtDesk /\ cust'[c] \in AtDesk
          /\ curr_clerk'[c] = queue_status[q] /\ winner_selected'[q] = 1
          /\ \A d \in Customer \ {c} : cust'[d] = cust[d] /\ curr_clerk'[d] = curr_clerk[d]
          /\ \A r \in Queue \ {q} : winner_selected'[r] = winner_selected[r]
          /\ UNCHANGED <<clerk, selected, queue_status>>
      BY <1>3, <1>a, ClassType
      DEF Claim, AfterClaim, UseCallUp, AtDesk, clerkVars, TypeOK
    <2> HIDE DEF q
    <2>3. CASE queue_status[q] = k
      <3>1. Engaged(k) /\ selected[k] = q /\ ServedBy(k) = {}
        BY <2>1, <2>3 DEF OneAtATime, OpenCall
      <3>2. ServedBy(k)' = {c}
        BY <2>2, <2>3, <3>1 DEF ServedBy
      <3>3. \A r \in Queue : ~OpenCall(r, k)'
        BY <2>1, <2>2, <3>1 DEF OneAtATime, OpenCall
      <3> QED
        BY <2>2, <3>1, <3>2, <3>3 DEF OneAtATime, Engaged
    <2>4. CASE queue_status[q] # k
      <3>1. ServedBy(k)' = ServedBy(k)
        BY <2>2, <2>4 DEF ServedBy
      <3>2. \A r \in Queue : OpenCall(r, k)' => OpenCall(r, k)
        BY <2>2, <2>4 DEF OpenCall
      <3> QED
        BY <2>1, <2>2, <3>1, <3>2 DEF OneAtATime, Engaged
    <2> QED
      BY <2>3, <2>4
  <1>4. ASSUME NEW k \in Addressed, NEW c \in Customer, Leave(c) PROVE OneAtATime(k)'
    <2> DEFINE j == SignalledClerk(curr_clerk[c])
    <2>1. k \in Clerk /\ OneAtATime(k) /\ NumClerks \in Nat
      BY <1>4, CheckInAssumption DEF CallInv, Addressed
    <2>2. /\ cust[c] \in AtDesk /\ cust'[c] \notin AtDesk
          /\ \A d \in Customer \ {c} : cust'[d] = cust[d]
          /\ \A i \in Clerk \ {j} : clerk'[i] = clerk[i]
          /\ UNCHANGED <<curr_clerk, selected, queue_status, winner_selected>>
      BY <1>4, <1>a DEF Leave, AtDesk, TypeOK, callVars
    <2>3. CASE j = k
      <3>1. curr_clerk[c] = k
        <4>1. CASE k # NumClerks
          BY <2>3, <4>1 DEF SignalledClerk
        <4>2. CASE k = NumClerks
          <5>1. Class(c) = Economy
            BY <1>4, <4>2 DEF Addressed
          <5>2. curr_clerk[c] \in Clerk
            BY <2>2, <5>1 DEF SignedInv
          <5> QED
            BY <2>1, <2>3, <4>2, <5>2 DEF SignalledClerk, Clerk
        <4> QED
          BY <4>1, <4>2
      <3>2. c \in ServedBy(k)
        BY <2>2, <3>1 DEF ServedBy
      <3>3. ServedBy(k)' = {}
        BY <2>1, <2>2, <3>2 DEF OneAtATime, ServedBy
      <3>4. \A q \in Queue : ~OpenCall(q, k)'
        BY <2>1, <2>2, <3>2 DEF OneAtATime, OpenCall
      <3> QED
        BY <3>3, <3>4 DEF OneAtATime
    <2>4. CASE j # k
      <3> HIDE DEF j
      <3>1. ServedBy(k)' \subseteq ServedBy(k)
        BY <2>2 DEF ServedBy
      <3>2. \A q \in Queue : OpenCall(q, k)' => OpenCall(q, k)
        BY <2>2 DEF OpenCall
      <3>3. Engaged(k)' = Engaged(k) /\ selected'[k] = selected[k]
        BY <2>1, <2>2, <2>4 DEF Engaged
      <3> QED
        BY <2>1, <3>1, <3>2, <3>3 DEF OneAtATime
    <2> QED
      BY <2>3, <2>4
  <1>5. ASSUME NEW k \in Addressed, NEW j \in Clerk, Announce(j) PROVE OneAtATime(k)'
    <2>1. k \in Clerk /\ OneAtATime(k) /\ selected[j] \in Queue
      BY <1>5, <1>a DEF CallInv, Addressed, TypeOK
    <2>2. ServedBy(k)' = ServedBy(k)
      BY <1>5 DEF Announce, WakeWaiting, ServedBy, AtDesk
    <2>3. /\ clerk[j] = "chosen" /\ clerk' = [clerk EXCEPT ![j] = "called"]
          /\ selected' = selected
          /\ queue_status' = [queue_status EXCEPT ![selected[j]] = j]
          /\ winner_selected' = [winner_selected EXCEPT ![selected[j]] = 0]
      BY <1>5 DEF Announce
    <2>4. CASE j = k
      <3>1. ~Engaged(k) /\ Engaged(k)'
        BY <1>a, <2>1, <2>3, <2>4 DEF Engaged, TypeOK
      <3>2. ServedBy(k)' = {}
        BY <2>1, <2>2, <3>1 DEF OneAtATime
      <3>3. \A q \in Queue : OpenCall(q, k)' => selected'[k] = q
        BY <1>a, <2>1, <2>3, <2>4, <3>1 DEF OneAtATime, OpenCall, TypeOK
      <3> QED
        BY <3>1, <3>2, <3>3 DEF OneAtATime
    <2>5. CASE j # k
      <3>1. \A q \in Queue : OpenCall(q, k)' => OpenCall(q, k)
        BY <1>a, <2>1, <2>3, <2>5 DEF OpenCall, TypeOK
      <3>2. Engaged(k)' = Engaged(k) /\ selected'[k] = selected[k]
        BY <1>a, <2>1, <2>3, <2>5 DEF Engaged, TypeOK
      <3> QED
        BY <2>1, <2>2, <3>1, <3>2 DEF OneAtATime
    <2> QED
      BY <2>4, <2>5
  <1>6. \A k \in Addressed : OneAtATime(k)'
    BY <1>a, <1>2, <1>3, <1>4, <1>5, QuietSteps
  <1>7. Addressed' = Addressed
    BY DEF Addressed
  <1> QED
    BY <1>1, <1>6, <1>7 DEF CallInv

\* An economy customer at a desk was called there by a clerk, unless customers
\* wake up on their own.
THEOREM EconomyIsCalled ==
  ASSUME "queue" \notin Spurious
  PROVE  Spec => []EconomyHasClerk
  <1>1. Init => IInv /\ SignedInv
    BY InitIInv, InitCalls
  <1>2. IInv /\ SignedInv /\ [Next]_vars => IInv' /\ SignedInv'
    BY LockStep, CountStep, JoinStep, TypeStep, SignedStep DEF IInv
  <1>3. SignedInv => EconomyHasClerk
    BY DEF SignedInv, EconomyHasClerk
  <1> QED
    BY <1>1, <1>2, <1>3, PTL DEF Spec

\* Calls, desks and clerks fit together at all times: the customer that has just
\* dequeued holds the call open, and a clerk that can be told apart is engaged
\* from its call until its only customer leaves.
THEOREM CallsFitDesks ==
  ASSUME "queue" \notin Spurious, "clerk" \notin Spurious
  PROVE  Spec => []CallIInv
  <1>1. Init => CallIInv
    BY InitIInv, InitCalls DEF CallIInv
  <1>2. CallIInv /\ [Next]_vars => CallIInv'
    BY LockStep, CountStep, JoinStep, TypeStep, SignedStep, CallStep DEF IInv, CallIInv
  <1> QED
    BY <1>1, <1>2, PTL DEF Spec

\* A clerk serves at most one customer at a time, for any number of clerks and
\* any input, although its call may be overwritten and its signals missed.
THEOREM OneCustomerPerClerk ==
  ASSUME "queue" \notin Spurious, "clerk" \notin Spurious
  PROVE  Spec => []ClerkExclusive
  <1>1. CallIInv => ClerkExclusive
    BY DEF CallIInv, CallInv, OneAtATime, Addressed, ClerkExclusive
  <1> QED
    BY CallsFitDesks, <1>1, PTL

-----------------------------------------------------------------------------
(* The front desk *)

\* The ids of the input file, which checkHead compares, tell customers apart.
DistinctIds == \A c, d \in Customer : Id(c) = Id(d) => c = d

LEMMA InitFrontDesk == Init => FD!Init
  <1> SUFFICES ASSUME Init PROVE FD!Init
    OBVIOUS
  <1>1. Stage = [c \in Customer |-> "away"]
    BY DEF Init, Stage, InLine, AtDesk
  <1>2. Called = [q \in Queue |-> TRUE]
    BY DEF Init, Called
  <1>3. Office = "open" /\ queue = [q \in Queue |-> <<>>]
    BY DEF Init, Office
  <1> QED
    BY <1>1, <1>2, <1>3 DEF FD!Init

\* A step that moves nobody and changes no call is a stutter of the front desk.
LEMMA Stutter ==
  ASSUME Stage' = Stage, Called' = Called, Office' = Office, queue' = queue
  PROVE  UNCHANGED FD!vars
  BY DEF FD!vars

LEMMA FrontDeskStep ==
  ASSUME DistinctIds
  PROVE  IInv /\ [Next]_vars => [FD!Next]_(FD!vars)
  <1> SUFFICES ASSUME IInv, [Next]_vars PROVE FD!Next \/ UNCHANGED FD!vars
    BY DEF FD!Next, FD!vars
  <1>a. TypeOK /\ LockInv /\ CountInv /\ JoinInv
    BY DEF IInv
  <1>b. Running => Office = "open"
    BY DEF Running, Office
  <1>c. UNCHANGED main => Office' = Office
    BY DEF Office
  <1>d. UNCHANGED <<cust, winner_selected>> => Stage' = Stage /\ Called' = Called
    BY DEF Stage, Called
  <1>1. ASSUME NEW c \in Customer, Enqueue(c), Running PROVE FD!Arrive(c)
    <2>1. Stage[c] = "away" /\ Stage' = [Stage EXCEPT ![c] = "inline"]
      BY <1>1, <1>a DEF Enqueue, Stage, TypeOK, InLine, AtDesk
    <2>2. Called' = Called
      BY <1>1, <1>a DEF Enqueue, Called, TypeOK, callVars
    <2>3. queue' = [queue EXCEPT ![ClassOf[c]] = Append(@, c)] /\ UNCHANGED main
      BY <1>1 DEF Enqueue, ClassOf, mainVars
    <2> QED
      BY <1>c, <2>1, <2>2, <2>3 DEF FD!Arrive
  <1>2. ASSUME NEW c \in Customer, TakeTurn(c), Running PROVE FD!StepUp(c)
    <2>1. Stage[c] = "inline" /\ Stage' = [Stage EXCEPT ![c] = "atdesk"]
      BY <1>2, <1>a DEF TakeTurn, Stage, TypeOK, InLine, AtDesk
    <2>2. queue[Class(c)] # <<>> /\ c = Head(queue[Class(c)])
      <3>1. queue[Class(c)] # <<>> /\ queue[Class(c)] \in Seq(Customer)
        BY <1>2, <1>a, LineNotEmpty, ClassType DEF TakeTurn, InLine, TypeOK
      <3>2. Head(queue[Class(c)]) \in Customer
        BY <3>1
      <3> QED
        BY <1>2, <3>1, <3>2 DEF TakeTurn, MyTurn, checkHead, DistinctIds
    <2>3. Called[Class(c)] /\ Called' = [Called EXCEPT ![Class(c)] = FALSE]
      BY <1>2, <1>a, FreeQueue, ClassType DEF TakeTurn, MyTurn, Called, TypeOK, callVars
    <2>4. queue' = [queue EXCEPT ![Class(c)] = Tail(@)] /\ UNCHANGED main
      BY <1>2 DEF TakeTurn, mainVars
    <2>5. ClassOf[c] = Class(c)
      BY DEF ClassOf
    <2> QED
      BY <1>c, <2>1, <2>2, <2>3, <2>4, <2>5 DEF FD!StepUp
  <1>3. ASSUME NEW c \in Customer, Leave(c), Running PROVE FD!Depart(c)
    <2>1. Stage[c] = "atdesk" /\ Stage' = [Stage EXCEPT ![c] = "left"]
      BY <1>3, <1>a DEF Leave, Stage, TypeOK, InLine, AtDesk
    <2>2. Called' = Called /\ queue' = queue /\ UNCHANGED main
      BY <1>3, <1>a DEF Leave, Called, TypeOK, callVars, lineVars, mainVars
    <2> QED
      BY <1>c, <2>1, <2>2 DEF FD!Depart
  <1>4. ASSUME NEW k \in Clerk, Announce(k), Running PROVE FD!Call(selected[k])
    <2>1. Stage' = Stage
      <3>1. \A c \in Customer : \/ cust'[c] = cust[c]
                                \/ cust[c] \in InLine /\ cust'[c] \in InLine
        BY <1>4, <1>a, WaitingMoves DEF WaitOrWake, InLine
      <3> QED
        BY <3>1 DEF Stage, InLine, AtDesk
    <2>2. \A c \in Customer : Class(c) = selected[k] => cust[c] # "dequeued"
      BY <1>4, <1>a, FreeQueue DEF Announce
    <2>3. Called' = [Called EXCEPT ![selected[k]] = TRUE]
      BY <1>4, <1>a, <2>2 DEF Announce, WakeWaiting, Called, TypeOK
    <2>4. queue' = queue /\ UNCHANGED main
      BY <1>4 DEF Announce, lineVars, mainVars
    <2> QED
      BY <1>c, <2>1, <2>3, <2>4 DEF FD!Call
  <1>5. ASSUME NEW c \in Customer, Claim(c) PROVE UNCHANGED FD!vars
    <2>1. Stage' = Stage
      BY <1>5, <1>a DEF Claim, AfterClaim, Stage, TypeOK, InLine, AtDesk
    <2>2. Called' = Called
      BY <1>5, <1>a, ClassType DEF Claim, AfterClaim, UseCallUp, Called, TypeOK, LockInv
    <2>3. queue' = queue /\ UNCHANGED main
      BY <1>5 DEF Claim, mainVars
    <2> QED
      BY <1>c, <2>1, <2>2, <2>3, Stutter
  <1>6. ASSUME NEW c \in Customer, AwaitCall(c) \/ ClearStatus(c) \/ WaitAgain(c) \/ WakeCustomer(c)
        PROVE  UNCHANGED FD!vars
    <2>1. Stage' = Stage
      BY <1>6, <1>a DEF AwaitCall, ClearStatus, WaitAgain, WakeCustomer, Stage, TypeOK, InLine, AtDesk
    <2>2. Called' = Called
      BY <1>6, <1>a DEF AwaitCall, ClearStatus, WaitAgain, WakeCustomer, Called, TypeOK, callVars
    <2>3. queue' = queue /\ UNCHANGED main
      BY <1>6 DEF AwaitCall, ClearStatus, WaitAgain, WakeCustomer, lineVars, mainVars
    <2> QED
      BY <1>c, <2>1, <2>2, <2>3, Stutter
  <1>7. ASSUME MainStep \/ MainFails PROVE FD!Next \/ UNCHANGED FD!vars
    <2>1. UNCHANGED <<cust, winner_selected, queue>>
      BY <1>7 DEF MainStep, MainFails, custVars, lineVars, callVars
    <2>2. Stage' = Stage /\ Called' = Called
      BY <1>d, <2>1
    <2>3. CASE Finish
      <3>1. Office = "open" /\ Office' = "closed"
        BY <2>3 DEF Finish, Office
      <3>2. \A c \in Customer : Stage[c] = "left"
        BY <1>a, <2>3, CheckInAssumption DEF Finish, JoinInv, Stage, InLine, AtDesk, Customer
      <3>3. FD!Close
        BY <2>1, <2>2, <3>1, <3>2 DEF FD!Close
      <3> QED
        BY <3>1, <3>3 DEF FD!Next
    <2>4. CASE CreateFails
      <3>1. Office = "open" /\ Office' = "aborted"
        BY <2>4 DEF CreateFails, Office
      <3>2. FD!Abort
        BY <2>1, <2>2, <3>1 DEF FD!Abort
      <3> QED
        BY <3>1, <3>2 DEF FD!Next
    <2>5. CASE CreateCustomer \/ StartJoining \/ JoinCustomer
      <3>1. Office' = Office
        BY <2>5 DEF CreateCustomer, StartJoining, JoinCustomer, Office
      <3> QED
        BY <2>1, <2>2, <3>1, Stutter
    <2> QED
      BY <1>7, <2>3, <2>4, <2>5 DEF MainStep, MainFails
  <1>8. ASSUME UNCHANGED <<cust, winner_selected, queue, main>> PROVE UNCHANGED FD!vars
    BY <1>8, <1>c, <1>d, Stutter
  <1>9. ASSUME NEW k \in Clerk, ClerkStep(k), ~Announce(k) PROVE UNCHANGED FD!vars
    BY <1>8, <1>9 DEF ClerkStep, ClerkMoves, SeesBusiness, SeesNoBusiness, SeesEconomy, SeesNobody,
                      Block, SelectBusiness, PassOverBusiness, SelectEconomy, SelectNone,
                      AwaitDone, mainVars, custVars, lineVars, callVars
  <1>10. ASSUME NEW k \in Clerk, WakeRequest(k) \/ WakeClerk(k) PROVE UNCHANGED FD!vars
    BY <1>8, <1>10 DEF WakeRequest, WakeClerk, ClerkMoves, mainVars, custVars, lineVars, callVars
  <1>11. CASE UNCHANGED vars
    BY <1>8, <1>11 DEF vars, mainVars, custVars, lineVars, callVars
  <1>12. ASSUME NEW c \in Customer, CustomerStep(c) PROVE FD!Next \/ UNCHANGED FD!vars
    BY <1>b, <1>1, <1>2, <1>3, <1>5, <1>6, <1>12 DEF CustomerStep, FD!Next
  <1>13. ASSUME NEW k \in Clerk, ClerkStep(k) PROVE FD!Next \/ UNCHANGED FD!vars
    <2>1. selected[k] \in Queue
      BY <1>a DEF TypeOK
    <2> QED
      BY <1>b, <1>4, <1>9, <1>13, <2>1 DEF ClerkStep, FD!Next
  <1> QED
    BY <1>6, <1>7, <1>10, <1>11, <1>12, <1>13 DEF Next, SpuriousStep

\* With distinct ids, the threads of A2.c implement the front desk: customers of
\* a class step up in the order they came and at most one answers each call.
THEOREM Refinement ==
  ASSUME DistinctIds
  PROVE  Spec => ImplementsFrontDesk
  <1>1. Init => FD!Init
    BY InitFrontDesk
  <1>2. IInv /\ [Next]_vars => [FD!Next]_(FD!vars)
    BY FrontDeskStep
  <1> QED
    BY Inductive, <1>1, <1>2, PTL DEF Spec, ImplementsFrontDesk, FD!Spec
=============================================================================
