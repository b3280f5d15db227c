----------------------------- MODULE RingQueue -----------------------------
(***************************************************************************)
(* a2/customerQueue.h: a queue in an array that wraps around.  The words   *)
(* of a capacity below 2^31 do not overflow.  No program of the repository *)
(* includes the file, so that any sequence of calls is one to expect.      *)
(***************************************************************************)
EXTENDS Integers, Sequences

CONSTANTS capacity, Item, INT_MIN

VARIABLES
  head, tail, size,
  array,
  result  \* what the last call returned; INT_MIN before the first

ringVars == <<head, tail, size, array, result>>

\* constructCustomQueue: the array has what malloc finds there.  A queue without
\* capacity is full and empty at once.
Init ==
  /\ head = 0
  /\ size = 0
  /\ tail = capacity - 1
  /\ array \in [0 .. capacity - 1 -> Item]
  /\ result = INT_MIN

isFull == size = capacity
isEmpty == size = 0

Refuse == result' = INT_MIN /\ UNCHANGED <<head, tail, size, array>>

enqueue(item) ==
  IF isFull THEN Refuse
  ELSE /\ tail' = (tail + 1) % capacity
       /\ array' = [array EXCEPT ![tail'] = item]
       /\ size' = size + 1
       /\ result' = 1
       /\ UNCHANGED head

dequeue ==
  IF isEmpty THEN Refuse
  ELSE /\ result' = array[head]
       /\ head' = (head + 1) % capacity
       /\ size' = size - 1
       /\ UNCHANGED <<tail, array>>

getHead ==
  IF isEmpty THEN Refuse
  ELSE result' = array[head] /\ UNCHANGED <<head, tail, size, array>>

getTail ==
  IF isEmpty THEN Refuse
  ELSE result' = array[tail] /\ UNCHANGED <<head, tail, size, array>>

Next == (\E item \in Item : enqueue(item)) \/ dequeue \/ getHead \/ getTail

Spec == Init /\ [][Next]_ringVars

-----------------------------------------------------------------------------

\* The i-th item in line.
At(i) == array[(head + i - 1) % capacity]

Contents == [i \in 1 .. size |-> At(i)]

Abstract == INSTANCE BoundedQueue WITH items <- Contents

\* The ring is the queue it stands for, in every answer it gives.
ImplementsBoundedQueue == Abstract!Spec

\* The head and the size say where the tail is: at the last item or, if there is
\* none, before the head.
RingInv ==
  /\ size \in 0 .. capacity
  /\ array \in [0 .. capacity - 1 -> Item]
  /\ capacity > 0 => /\ head \in 0 .. capacity - 1
                     /\ tail \in 0 .. capacity - 1
                     /\ (tail + 1) % capacity = (head + size) % capacity
=============================================================================
