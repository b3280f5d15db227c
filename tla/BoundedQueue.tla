---------------------------- MODULE BoundedQueue ----------------------------
(***************************************************************************)
(* What the queue of a2/customerQueue.h promises: first in, first out, up  *)
(* to its capacity, and a refusal of what cannot be done.                  *)
(***************************************************************************)
EXTENDS Integers, Sequences

CONSTANTS
  capacity,
  Item,
  INT_MIN  \* the answer of a call that is refused

VARIABLES
  items,  \* oldest first
  result  \* what the last call returned

Init == items = <<>> /\ result = INT_MIN

Refuse == result' = INT_MIN /\ UNCHANGED items

Enqueue(item) ==
  IF Len(items) = capacity THEN Refuse
  ELSE items' = Append(items, item) /\ result' = 1

Dequeue ==
  IF items = <<>> THEN Refuse
  ELSE items' = Tail(items) /\ result' = Head(items)

Oldest ==
  IF items = <<>> THEN Refuse
  ELSE result' = items[1] /\ UNCHANGED items

Newest ==
  IF items = <<>> THEN Refuse
  ELSE result' = items[Len(items)] /\ UNCHANGED items

Next == (\E item \in Item : Enqueue(item)) \/ Dequeue \/ Oldest \/ Newest

Spec == Init /\ [][Next]_<<items, result>>
=============================================================================
