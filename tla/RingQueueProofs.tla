-------------------------- MODULE RingQueueProofs --------------------------
(***************************************************************************)
(* The ring of a2/customerQueue.h is a bounded queue, for every capacity.  *)
(***************************************************************************)
EXTENDS RingQueue, SequenceTheorems, TLAPS

\* An index that is at most one round ahead.
LEMMA Wraps ==
  ASSUME NEW n \in Nat \ {0}, NEW k \in 0 .. 2 * n - 1
  PROVE  k % n = IF k < n THEN k ELSE k - n
<1>1. CASE k < n
  BY <1>1
<1>2. CASE k >= n
  BY <1>2
<1> QED BY <1>1, <1>2

LEMMA WrapsOnce ==
  ASSUME NEW n \in Nat \ {0}, NEW h \in 0 .. n - 1, NEW k \in 0 .. n
  PROVE  /\ (h + k) % n = IF h + k < n THEN h + k ELSE h + k - n
         /\ (h + k) % n \in 0 .. n - 1
<1>1. PICK j \in 0 .. 2 * n - 1 : j = h + k
  OBVIOUS
<1>2. j % n = IF j < n THEN j ELSE j - n
  BY Wraps
<1>3. j % n \in 0 .. n - 1
  BY <1>2
<1> QED BY <1>1, <1>2, <1>3

LEMMA PlaceBefore ==
  ASSUME NEW n \in Nat \ {0}, NEW h \in 0 .. n - 1, NEW t \in 0 .. n - 1, NEW k \in 1 .. n,
         (t + 1) % n = (h + k) % n
  PROVE  (h + (k - 1)) % n = t
<1>1. k \in 0 .. n /\ k - 1 \in 0 .. n /\ 1 \in 0 .. n
  OBVIOUS
<1>2. (IF t + 1 < n THEN t + 1 ELSE t + 1 - n) = (IF h + k < n THEN h + k ELSE h + k - n)
  BY <1>1, WrapsOnce
<1>3. (h + (k - 1)) % n = IF h + (k - 1) < n THEN h + (k - 1) ELSE h + (k - 1) - n
  BY <1>1, WrapsOnce
<1> QED BY <1>2, <1>3

\* The place of an item, and of the next one to come.
LEMMA Places ==
  ASSUME capacity \in Nat \ {0}, RingInv, NEW k \in 0 .. capacity
  PROVE  /\ (head + k) % capacity = IF head + k < capacity THEN head + k ELSE head + k - capacity
         /\ (head + k) % capacity \in 0 .. capacity - 1
         /\ (tail + 1) % capacity = IF tail + 1 < capacity THEN tail + 1 ELSE tail + 1 - capacity
<1>1. head \in 0 .. capacity - 1 /\ tail \in 0 .. capacity - 1 /\ 1 \in 0 .. capacity
  BY DEF RingInv
<1> QED BY <1>1, WrapsOnce, Zenon

LEMMA RingInitially ==
  ASSUME capacity \in Nat, Init
  PROVE  RingInv
<1>1. CASE capacity = 0
  BY <1>1 DEF Init, RingInv
<1>2. CASE capacity > 0
  <2>1. capacity % capacity = 0 /\ 0 % capacity = 0
    BY <1>2, Wraps
  <2> QED BY <1>2, <2>1 DEF Init, RingInv
<1> QED BY <1>1, <1>2

LEMMA EnqueueRing ==
  ASSUME capacity \in Nat, RingInv, NEW item \in Item, ~isFull, enqueue(item)
  PROVE  /\ RingInv'
         /\ size' = size + 1 /\ head' = head /\ result' = 1
         /\ array' = [array EXCEPT ![(head + size) % capacity] = item]
<1>1. capacity \in Nat \ {0} /\ size \in 0 .. capacity - 1
  BY DEF RingInv, isFull
<1>2. tail' = (head + size) % capacity
  BY <1>1 DEF RingInv, enqueue
<1>3. (head + size) % capacity \in 0 .. capacity - 1
  BY <1>1, Places
<1>4. (tail' + 1) % capacity = (head + size + 1) % capacity
  <2> DEFINE t == (head + size) % capacity
  <2>1. t = IF head + size < capacity THEN head + size ELSE head + size - capacity
    BY <1>1, Places
  <2>2. head + (size + 1) = head + size + 1 /\ size + 1 \in 0 .. capacity
    BY <1>1 DEF RingInv
  <2>3. (head + (size + 1)) % capacity
          = IF head + (size + 1) < capacity THEN head + (size + 1) ELSE head + (size + 1) - capacity
    BY <1>1, <2>2, Places
  <2>4. (t + 1) % capacity = IF t + 1 < capacity THEN t + 1 ELSE t + 1 - capacity
    BY <1>1, <1>3, Wraps
  <2>5. head \in 0 .. capacity - 1 /\ t \in 0 .. capacity - 1
    BY <1>1, <1>3 DEF RingInv
  <2> DEFINE u == (head + (size + 1)) % capacity
             v == (t + 1) % capacity
  <2> HIDE DEF t, u, v
  <2>6. u = IF head + (size + 1) < capacity THEN head + (size + 1) ELSE head + (size + 1) - capacity
    BY <2>3 DEF u
  <2>7. v = IF t + 1 < capacity THEN t + 1 ELSE t + 1 - capacity
    BY <2>4 DEF v
  <2>8. u = v
    BY <1>1, <2>1, <2>5, <2>6, <2>7
  <2> QED BY <1>2, <2>2, <2>8 DEF t, u, v
<1>5. /\ size' = size + 1 /\ head' = head /\ result' = 1
      /\ array' = [array EXCEPT ![(head + size) % capacity] = item]
  BY <1>2 DEF enqueue
<1>6. array' \in [0 .. capacity - 1 -> Item]
  BY <1>3, <1>5 DEF RingInv
<1>7. (tail' + 1) % capacity = (head' + size') % capacity
  <2>1. head + (size + 1) = head + size + 1
    BY <1>1 DEF RingInv
  <2> QED BY <1>4, <1>5, <2>1
<1> QED BY <1>1, <1>2, <1>3, <1>5, <1>6, <1>7 DEF RingInv

LEMMA DequeueRing ==
  ASSUME capacity \in Nat, RingInv, ~isEmpty, dequeue
  PROVE  /\ RingInv'
         /\ size' = size - 1 /\ array' = array /\ result' = array[head]
         /\ head' = IF head + 1 < capacity THEN head + 1 ELSE 0
<1>1. capacity \in Nat \ {0} /\ size \in 1 .. capacity
  BY DEF RingInv, isEmpty
<1>2. head' = IF head + 1 < capacity THEN head + 1 ELSE 0
  <2>1. (head + 1) % capacity
          = IF head + 1 < capacity THEN head + 1 ELSE head + 1 - capacity
    BY <1>1, Places
  <2> QED BY <1>1, <2>1 DEF RingInv, dequeue
<1>3. size' = size - 1 /\ array' = array /\ result' = array[head] /\ tail' = tail
  BY DEF dequeue
<1>4. (head' + size') % capacity = (head + size) % capacity
  <2>1. (head + size) % capacity
          = IF head + size < capacity THEN head + size ELSE head + size - capacity
    BY <1>1, Places
  <2>2. CASE head + 1 < capacity
    <3>1. head' + size' = head + size
      BY <1>1, <1>2, <1>3, <2>2 DEF RingInv
    <3> QED BY <3>1
  <2>3. CASE ~(head + 1 < capacity)
    <3>1. head = capacity - 1 /\ head' + size' = size - 1
      BY <1>1, <1>2, <1>3, <2>3 DEF RingInv
    <3>2. (size - 1) % capacity = size - 1
      <4> DEFINE j == size - 1
      <4>1. j \in 0 .. 2 * capacity - 1 /\ j < capacity
        BY <1>1
      <4> HIDE DEF j
      <4>2. j % capacity = j
        BY <1>1, <4>1, Wraps
      <4> QED BY <4>2 DEF j
    <3> QED BY <1>1, <2>1, <3>1, <3>2
  <2> QED BY <2>2, <2>3
<1>5. head \in 0 .. capacity - 1 /\ tail' \in 0 .. capacity - 1 /\ array' \in [0 .. capacity - 1 -> Item]
  BY <1>1, <1>3 DEF RingInv
<1>6. head' \in 0 .. capacity - 1 /\ size' \in 0 .. capacity
  BY <1>1, <1>2, <1>3, <1>5
<1>7. (tail' + 1) % capacity = (head' + size') % capacity
  BY <1>1, <1>3, <1>4 DEF RingInv
<1>8. RingInv'
  BY <1>5, <1>6, <1>7 DEF RingInv
<1> QED BY <1>2, <1>3, <1>8

LEMMA RingStep ==
  ASSUME capacity \in Nat, RingInv, [Next]_ringVars
  PROVE  RingInv'
<1>1. ASSUME NEW item \in Item, enqueue(item) PROVE RingInv'
  <2>1. CASE isFull
    BY <1>1, <2>1 DEF enqueue, Refuse, RingInv
  <2>2. CASE ~isFull
    BY <1>1, <2>2, EnqueueRing
  <2> QED BY <2>1, <2>2
<1>2. CASE dequeue
  <2>1. CASE isEmpty
    BY <1>2, <2>1 DEF dequeue, Refuse, RingInv
  <2>2. CASE ~isEmpty
    BY <1>2, <2>2, DequeueRing
  <2> QED BY <2>1, <2>2
<1>3. CASE getHead \/ getTail \/ UNCHANGED ringVars
  BY <1>3 DEF getHead, getTail, Refuse, RingInv, ringVars
<1> QED BY <1>1, <1>2, <1>3 DEF Next

-----------------------------------------------------------------------------

\* The items in line are of the type of items; the first is at the head and the
\* last at the tail.
LEMMA Line ==
  ASSUME capacity \in Nat, RingInv
  PROVE  /\ Contents \in Seq(Item) /\ Len(Contents) = size
         /\ \A i \in 1 .. size : Contents[i] = At(i)
         /\ Contents = <<>> <=> size = 0
         /\ size > 0 => Contents[1] = array[head] /\ Contents[size] = array[tail]
<1>1. size \in Nat
  BY DEF RingInv
<1>2. ASSUME NEW i \in 1 .. size PROVE At(i) \in Item
  <2>1. capacity \in Nat \ {0} /\ i - 1 \in 0 .. capacity /\ head + (i - 1) = head + i - 1
    BY DEF RingInv
  <2>2. (head + (i - 1)) % capacity \in 0 .. capacity - 1
    BY <2>1, Places
  <2> QED BY <2>1, <2>2 DEF At, RingInv
<1>3. Contents \in Seq(Item) /\ Len(Contents) = size /\ \A i \in 1 .. size : Contents[i] = At(i)
  <2>1. Contents \in [1 .. size -> Item]
    BY <1>2 DEF Contents
  <2> QED BY <1>1, <2>1 DEF Contents
<1>4. Contents = <<>> <=> size = 0
  BY <1>1, <1>3
<1>5. ASSUME size > 0 PROVE Contents[1] = array[head] /\ Contents[size] = array[tail]
  <2>1. capacity \in Nat \ {0} /\ size \in 1 .. capacity
    BY <1>5 DEF RingInv
  <2>2. (head + 0) % capacity = IF head + 0 < capacity THEN head + 0 ELSE head + 0 - capacity
    BY <2>1, Places
  <2>3. head + 1 - 1 = head + 0 /\ head + size - 1 = head + (size - 1) /\ size - 1 \in 0 .. capacity
    BY <2>1 DEF RingInv
  <2>4. (head + 0) % capacity = head
    BY <2>1, <2>2 DEF RingInv
  <2>5. (head + (size - 1)) % capacity = tail
    <3>1. /\ head \in 0 .. capacity - 1 /\ tail \in 0 .. capacity - 1
          /\ (tail + 1) % capacity = (head + size) % capacity
      BY <2>1 DEF RingInv
    <3> QED BY <2>1, <3>1, PlaceBefore
  <2>6. 1 \in 1 .. size /\ size \in 1 .. size
    BY <2>1
  <2> QED BY <1>3, <2>3, <2>4, <2>5, <2>6 DEF At
<1> QED BY <1>3, <1>4, <1>5

LEMMA EnqueueAppends ==
  ASSUME capacity \in Nat, RingInv, NEW item \in Item, enqueue(item)
  PROVE  Abstract!Enqueue(item)
<1>1. CASE isFull
  BY <1>1, Line DEF enqueue, isFull, Refuse, Contents, At, Abstract!Enqueue, Abstract!Refuse
<1>2. CASE ~isFull
  <2>1. /\ RingInv' /\ size' = size + 1 /\ head' = head /\ result' = 1
        /\ array' = [array EXCEPT ![(head + size) % capacity] = item]
    BY <1>2, EnqueueRing
  <2>2. /\ Contents \in Seq(Item) /\ Len(Contents) = size
        /\ \A i \in 1 .. size : Contents[i] = At(i)
    BY Line
  <2>3. size \in 0 .. capacity - 1 /\ capacity \in Nat \ {0} /\ head \in 0 .. capacity - 1
    BY <1>2 DEF RingInv, isFull
  <2>4. (head + size) % capacity = (IF head + size < capacity THEN head + size ELSE head + size - capacity)
        /\ (head + size) % capacity \in 0 .. capacity - 1
    BY <2>3, Places
  <2>5. ASSUME NEW i \in 1 .. size PROVE At(i)' = At(i)
    <3>1. head + i - 1 = head + (i - 1) /\ i - 1 \in 0 .. capacity
      BY <2>3
    <3>2. (head + (i - 1)) % capacity
            = IF head + (i - 1) < capacity THEN head + (i - 1) ELSE head + (i - 1) - capacity
      BY <2>3, <3>1, Places
    <3>3. (head + (i - 1)) % capacity # (head + size) % capacity
      BY <2>3, <2>4, <3>2
    <3> QED BY <2>1, <3>1, <3>3 DEF At, RingInv
  <2>6. PICK n : n = size + 1
    OBVIOUS
  <2>7. At(n)' = item
    <3>1. head + n - 1 = head + size
      BY <2>3, <2>6
    <3>2. (head' + n - 1) % capacity = (head + size) % capacity
      BY <2>1, <3>1
    <3> QED BY <2>1, <2>4, <3>2 DEF At, RingInv
  <2>8. Contents' = Append(Contents, item)
    <3>1. Contents' = [i \in 1 .. n |-> At(i)']
      BY <2>1, <2>6 DEF Contents
    <3>2. \A i \in 1 .. n : At(i)' = Append(Contents, item)[i]
      <4>1. TAKE i \in 1 .. n
      <4>2. CASE i = n
        BY <2>2, <2>3, <2>6, <2>7, <4>2
      <4>3. CASE i # n
        <5>1. i \in 1 .. size
          BY <2>3, <2>6, <4>3
        <5> QED BY <2>2, <2>3, <2>5, <5>1
      <4> QED BY <4>2, <4>3
    <3>3. Append(Contents, item) = [i \in 1 .. n |-> Append(Contents, item)[i]]
      <4>1. Append(Contents, item) \in Seq(Item) /\ Len(Append(Contents, item)) = n
        BY <2>2, <2>6
      <4> QED BY <4>1, LenProperties
    <3> QED BY <3>1, <3>2, <3>3
  <2> QED BY <1>2, <2>1, <2>2, <2>8 DEF isFull, Abstract!Enqueue
<1> QED BY <1>1, <1>2

LEMMA DequeueTakes ==
  ASSUME capacity \in Nat, RingInv, dequeue
  PROVE  Abstract!Dequeue
<1>1. CASE isEmpty
  BY <1>1, Line DEF dequeue, isEmpty, Refuse, Contents, At, Abstract!Dequeue, Abstract!Refuse
<1>2. CASE ~isEmpty
  <2>1. /\ RingInv' /\ size' = size - 1 /\ array' = array /\ result' = array[head]
        /\ head' = IF head + 1 < capacity THEN head + 1 ELSE 0
    BY <1>2, DequeueRing
  <2>2. size \in 1 .. capacity /\ capacity \in Nat \ {0} /\ head \in 0 .. capacity - 1
    BY <1>2 DEF RingInv, isEmpty
  <2>3. /\ Contents \in Seq(Item) /\ Len(Contents) = size /\ Contents # <<>>
        /\ \A i \in 1 .. size : Contents[i] = At(i)
        /\ Contents[1] = array[head]
    BY <2>2, Line
  <2>4. ASSUME NEW i \in 1 .. size - 1 PROVE At(i)' = At(i + 1)
    <3>1. head + (i + 1) - 1 = head + i /\ i \in 0 .. capacity
      BY <2>2
    <3>2. (head + i) % capacity = IF head + i < capacity THEN head + i ELSE head + i - capacity
      BY <2>2, <3>1, Places
    <3>3. /\ i - 1 \in 0 .. capacity /\ head' + i - 1 = head' + (i - 1)
          /\ head' + (i - 1) \in 0 .. 2 * capacity - 1
      BY <2>1, <2>2
    <3>4. (head' + (i - 1)) % capacity
            = IF head' + (i - 1) < capacity THEN head' + (i - 1) ELSE head' + (i - 1) - capacity
      <4>1. head' \in 0 .. capacity - 1
        BY <2>1, <2>2
      <4> QED BY <2>2, <3>3, <4>1, WrapsOnce
    <3>5. (head' + (i - 1)) % capacity = (head + i) % capacity
      BY <2>1, <2>2, <3>2, <3>4
    <3> QED BY <2>1, <3>1, <3>3, <3>5 DEF At
  <2>5. Contents' = Tail(Contents)
    <3>1. Contents' = [i \in 1 .. size - 1 |-> At(i)']
      BY <2>1 DEF Contents
    <3>2. Tail(Contents) = [i \in 1 .. size - 1 |-> Contents[i + 1]]
      BY <2>2, <2>3, HeadTailProperties, LenProperties
    <3>3. ASSUME NEW i \in 1 .. size - 1 PROVE Contents[i + 1] = At(i + 1)
      <4>1. PICK j \in 1 .. size : j = i + 1
        BY <2>2
      <4>2. Contents[j] = At(j)
        BY <2>3
      <4> QED BY <4>1, <4>2
    <3> QED BY <2>4, <3>1, <3>2, <3>3
  <2>6. result' = Head(Contents)
    BY <2>1, <2>3
  <2> QED BY <2>3, <2>5, <2>6 DEF Abstract!Dequeue
<1> QED BY <1>1, <1>2

LEMMA StepRefines ==
  ASSUME capacity \in Nat, RingInv, [Next]_ringVars
  PROVE  [Abstract!Next]_<<Contents, result>>
<1>1. ASSUME NEW item \in Item, enqueue(item) PROVE Abstract!Next
  BY <1>1, EnqueueAppends DEF Abstract!Next
<1>2. CASE dequeue
  BY <1>2, DequeueTakes DEF Abstract!Next
<1>3. CASE getHead
  <2>1. Contents' = Contents
    BY <1>3 DEF getHead, Refuse, Contents, At
  <2>2. Abstract!Oldest
    BY <1>3, <2>1, Line DEF getHead, isEmpty, Refuse, RingInv, Abstract!Oldest, Abstract!Refuse
  <2> QED BY <2>2 DEF Abstract!Next
<1>4. CASE getTail
  <2>1. Contents' = Contents
    BY <1>4 DEF getTail, Refuse, Contents, At
  <2>2. Abstract!Newest
    BY <1>4, <2>1, Line DEF getTail, isEmpty, Refuse, RingInv, Abstract!Newest, Abstract!Refuse
  <2> QED BY <2>2 DEF Abstract!Next
<1>5. CASE UNCHANGED ringVars
  BY <1>5 DEF ringVars, Contents, At
<1> QED BY <1>1, <1>2, <1>3, <1>4, <1>5 DEF Next

\* Whatever is called and in which order, the ring of any capacity answers as a
\* first-in first-out queue of that capacity would: nothing is lost, overwritten
\* or given out twice where the array wraps around, and without a capacity every
\* call is refused.
THEOREM RingIsBoundedQueue ==
  ASSUME capacity \in Nat
  PROVE  Spec => ImplementsBoundedQueue
<1>1. Init => RingInv
  BY RingInitially
<1>2. RingInv /\ [Next]_ringVars => RingInv'
  BY RingStep
<1>3. Init => Abstract!Init
  <2> SUFFICES ASSUME Init PROVE Contents = <<>> /\ result = INT_MIN
    BY DEF Abstract!Init
  <2>1. RingInv
    BY RingInitially
  <2> QED BY <2>1, Line DEF Init
<1>4. RingInv /\ [Next]_ringVars => [Abstract!Next]_<<Contents, result>>
  BY StepRefines
<1> QED BY <1>1, <1>2, <1>3, <1>4, PTL DEF Spec, ImplementsBoundedQueue, Abstract!Spec
=============================================================================
