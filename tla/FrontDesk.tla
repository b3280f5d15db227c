----------------------------- MODULE FrontDesk -----------------------------
(***************************************************************************)
(* What the airline check-in of a2/A2.c promises, without threads, locks   *)
(* or condition variables: customers line up in the queue of their class,  *)
(* a clerk calls into a queue, at most one customer steps up per call and  *)
(* it is always the first in line, and the office closes only after every  *)
(* customer has left.                                                      *)
(***************************************************************************)
EXTENDS Sequences

CONSTANTS Customer,   \* the customers of one run of the program
          Queue,      \* the queues, one per class
          ClassOf     \* the queue a customer belongs to

VARIABLES line,       \* line[q]: the customers waiting in queue q, in order
          stage,      \* stage[c]: how far customer c has come
          called,     \* called[q]: a call into q that nobody has answered
          office      \* "open", "closed" after the last customer, "aborted"

vars == <<line, stage, called, office>>

\* A call is outstanding from the start: winner_selected is {0, 0} at first,
\* so the first customer to look need not have been called.
Init ==
  /\ line = [q \in Queue |-> <<>>]
  /\ stage = [c \in Customer |-> "away"]
  /\ called = [q \in Queue |-> TRUE]
  /\ office = "open"

Arrive(c) ==
  /\ stage[c] = "away"
  /\ stage' = [stage EXCEPT ![c] = "inline"]
  /\ line' = [line EXCEPT ![ClassOf[c]] = Append(@, c)]
  /\ UNCHANGED <<called, office>>

Call(q) ==
  /\ called' = [called EXCEPT ![q] = TRUE]
  /\ UNCHANGED <<line, stage, office>>

\* Only the first in line steps up, and it uses the call up.
StepUp(c) ==
  /\ stage[c] = "inline"
  /\ called[ClassOf[c]]
  /\ line[ClassOf[c]] # <<>>
  /\ c = Head(line[ClassOf[c]])
  /\ line' = [line EXCEPT ![ClassOf[c]] = Tail(@)]
  /\ stage' = [stage EXCEPT ![c] = "atdesk"]
  /\ called' = [called EXCEPT ![ClassOf[c]] = FALSE]
  /\ UNCHANGED office

Depart(c) ==
  /\ stage[c] = "atdesk"
  /\ stage' = [stage EXCEPT ![c] = "left"]
  /\ UNCHANGED <<line, called, office>>

Close ==
  /\ \A c \in Customer : stage[c] = "left"
  /\ office' = "closed"
  /\ UNCHANGED <<line, stage, called>>

Abort ==
  /\ office' = "aborted"
  /\ UNCHANGED <<line, stage, called>>

Next ==
  /\ office = "open"
  /\ \/ \E c \in Customer : Arrive(c) \/ StepUp(c) \/ Depart(c)
     \/ \E q \in Queue : Call(q)
     \/ Close
     \/ Abort

Spec == Init /\ [][Next]_vars
=============================================================================
