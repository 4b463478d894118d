-------------------------- MODULE BufferQueueProofs --------------------------
(***************************************************************************)
(* The ring of queue.c implements a FIFO queue, for every set of threads,  *)
(* every size and every set of indices.                                    *)
(***************************************************************************)
EXTENDS BufferQueue, SequenceTheorems, TLAPS

(* The remainder of an index that has wrapped around at most once.         *)
LEMMA Wrap ==
  ASSUME NEW a \in Nat, a < 2 * Size
  PROVE  a % Size = IF a < Size THEN a ELSE a - Size
<1>1. CASE a < Size
  BY <1>1, QueueAssumption, SMT
<1>2. CASE a >= Size
  BY <1>2, QueueAssumption, SMT
<1>3. QED
  BY <1>1, <1>2, QueueAssumption

(* The slot k places after slot i of the ring.                             *)
LEMMA WrapSum ==
  ASSUME NEW i \in Slots, NEW k \in 0 .. Size
  PROVE  (i + k) % Size = IF i + k < Size THEN i + k ELSE i + k - Size
<1> DEFINE a == i + k
<1>1. a \in Nat /\ a < 2 * Size
  BY QueueAssumption DEF Slots
<1> HIDE DEF a
<1>2. a % Size = IF a < Size THEN a ELSE a - Size
  BY <1>1, Wrap
<1>3. QED
  BY <1>2, QueueAssumption DEF a, Slots

(* Advancing an index stays in the ring.                                   *)
LEMMA AdvanceType ==
  ASSUME NEW i \in Slots
  PROVE  /\ Advance(i) \in Slots
         /\ Advance(i) = IF i + 1 < Size THEN i + 1 ELSE 0
<1>1. 1 \in 0 .. Size
  BY QueueAssumption
<1>2. (i + 1) % Size = IF i + 1 < Size THEN i + 1 ELSE i + 1 - Size
  BY <1>1, WrapSum, QueueAssumption
<1>3. QED
  BY <1>2, QueueAssumption DEF Advance, Slots

(* The slots of the queued indices are in the ring, and with room left     *)
(* none of them is the slot at head.                                       *)
LEMMA SlotsInUse ==
  ASSUME TypeOK, NEW k \in 1 .. n
  PROVE  /\ SlotOf(k) \in Slots
         /\ SlotOf(k) = IF tail + k - 1 < Size THEN tail + k - 1 ELSE tail + k - 1 - Size
         /\ HeadAfterTail /\ n < Size => SlotOf(k) # head
<1>1. k - 1 \in 0 .. Size /\ tail + (k - 1) = tail + k - 1
  BY QueueAssumption DEF TypeOK, Slots
<1>2. SlotOf(k) = IF tail + k - 1 < Size THEN tail + k - 1 ELSE tail + k - 1 - Size
  BY <1>1, WrapSum DEF SlotOf, TypeOK
<1>3. HeadAfterTail => head = IF tail + n < Size THEN tail + n ELSE tail + n - Size
  BY WrapSum DEF HeadAfterTail, TypeOK
<1>4. QED
  BY <1>2, <1>3, QueueAssumption DEF TypeOK, Slots

(* What queue_add does while others may stand in a call of their own: they *)
(* wait for the mutex, and find the ring as they would have left it.       *)
LEMMA AddConsistent ==
  ASSUME Consistent, NEW t \in Threads, queue_add(t)
  PROVE  Consistent'
<1> USE DEF Consistent, TypeOK, MutexHeld, HeadAfterTail, MidOperation
<1>1. ASSUME NEW e \in Elements, AddLock(t, e) PROVE Consistent'
  BY <1>1, QueueAssumption DEF AddLock, Acquire, PcValues
<1>2. CASE AddFull(t)
  BY <1>2, QueueAssumption DEF AddFull, PcValues, Failed
<1>3. CASE AddStore(t)
  <2>1. q' \in [Slots -> Elements] /\ q'[head] = arg[t]
    BY <1>3 DEF AddStore
  <2>2. QED
    BY <2>1, <1>3, QueueAssumption DEF AddStore, PcValues, Full
<1>4. CASE AddAdvance(t)
  <2>1. n < Size /\ n \in Nat /\ n' = n + 1 /\ n' \in 0 .. Size /\ tail' = tail /\ tail' \in Slots
    BY <1>4, QueueAssumption DEF AddAdvance
  <2>2. (tail + n) % Size = IF tail + n < Size THEN tail + n ELSE tail + n - Size
    BY <2>1, WrapSum, QueueAssumption DEF Slots
  <2>3. (tail' + n') % Size = IF tail' + n' < Size THEN tail' + n' ELSE tail' + n' - Size
    BY <2>1, WrapSum, QueueAssumption DEF Slots
  <2>4. head' = (tail' + n') % Size /\ head' \in Slots
    <3>1. head' \in Slots /\ head' = IF head + 1 < Size THEN head + 1 ELSE 0
      BY <1>4, AdvanceType DEF AddAdvance
    <3>2. head = IF tail + n < Size THEN tail + n ELSE tail + n - Size
      BY <2>2
    <3>3. head' = IF tail' + n' < Size THEN tail' + n' ELSE tail' + n' - Size
      BY <3>1, <3>2, <2>1, QueueAssumption DEF Slots
    <3>4. QED
      BY <3>1, <3>3, <2>3
  <2>5. QED
    BY <1>4, <2>1, <2>4, QueueAssumption DEF AddAdvance, PcValues
<1>5. QED
  BY <1>1, <1>2, <1>3, <1>4 DEF queue_add

(* And what queue_remove does                                              *)
LEMMA RemoveConsistent ==
  ASSUME Consistent, NEW t \in Threads, queue_remove(t)
  PROVE  Consistent'
<1> USE DEF Consistent, TypeOK, MutexHeld, HeadAfterTail, MidOperation
<1>1. CASE RemoveLock(t)
  BY <1>1, QueueAssumption DEF RemoveLock, Acquire, PcValues
<1>2. CASE RemoveEmpty(t)
  BY <1>2, QueueAssumption DEF RemoveEmpty, PcValues, Failed
<1>3. CASE RemoveTake(t)
  BY <1>3, QueueAssumption DEF RemoveTake, PcValues
<1>4. CASE RemoveAdvance(t)
  <2>1. n > 0 /\ n \in Nat /\ n' = n - 1 /\ n' \in 0 .. Size /\ head' = head
    BY <1>4, QueueAssumption DEF RemoveAdvance
  <2>2. (tail + n) % Size = IF tail + n < Size THEN tail + n ELSE tail + n - Size
    BY <2>1, WrapSum, QueueAssumption DEF Slots
  <2>3. tail' \in Slots /\ tail' = IF tail + 1 < Size THEN tail + 1 ELSE 0
    BY <1>4, AdvanceType DEF RemoveAdvance
  <2>4. (tail' + n') % Size = IF tail' + n' < Size THEN tail' + n' ELSE tail' + n' - Size
    BY <2>1, <2>3, WrapSum, QueueAssumption DEF Slots
  <2>5. head' = (tail' + n') % Size
    BY <2>1, <2>2, <2>3, <2>4, QueueAssumption DEF Slots
  <2>6. QED
    BY <1>4, <2>1, <2>3, <2>5, QueueAssumption DEF RemoveAdvance, PcValues
<1>5. QED
  BY <1>1, <1>2, <1>3, <1>4 DEF queue_remove

(* queue_empty only looks, and leaving a call only frees the mutex.        *)
LEMMA LookConsistent ==
  ASSUME Consistent, NEW t \in Threads, queue_empty(t) \/ Unlock(t)
  PROVE  Consistent'
<1> USE DEF Consistent, TypeOK, MutexHeld, HeadAfterTail, MidOperation
<1>1. CASE Unlock(t)
  BY <1>1, QueueAssumption DEF Unlock, PcValues
<1>2. CASE queue_empty(t)
  BY <1>2, QueueAssumption DEF queue_empty, EmptyLock, EmptyTest, Acquire, PcValues
<1>3. QED
  BY <1>1, <1>2

(* The invariant that the refinement rests on: the mutex makes the two     *)
(* steps of an operation one, and head is n slots after tail.              *)
THEOREM RingConsistent == Spec => []Consistent
<1>1. Init => Consistent
  BY QueueAssumption, Wrap
  DEF Init, queue_init, Consistent, TypeOK, MutexHeld, HeadAfterTail, MidOperation,
      PcValues, Slots, Failed
<1>2. Consistent /\ Next => Consistent'
  BY AddConsistent, RemoveConsistent, LookConsistent DEF Next
<1>3. Consistent /\ UNCHANGED vars => Consistent'
  BY DEF vars, Consistent, TypeOK, MutexHeld, HeadAfterTail, MidOperation
<1>4. QED
  BY <1>1, <1>2, <1>3, PTL DEF Spec

-----------------------------------------------------------------------------
(* The abstract queue is a sequence of n indices.                          *)
LEMMA ItemsType ==
  ASSUME TypeOK
  PROVE  /\ Items \in Seq(Elements)
         /\ Len(Items) = n
         /\ DOMAIN Items = 1 .. n
         /\ \A k \in 1 .. n : Items[k] = q[SlotOf(k)]
<1>1. \A k \in 1 .. n : q[SlotOf(k)] \in Elements
  BY SlotsInUse DEF TypeOK
<1>2. n \in Nat
  BY QueueAssumption DEF TypeOK
<1>3. QED
  BY <1>1, <1>2 DEF Items

(* A step that keeps tail, n and the slots in use keeps the queue.         *)
LEMMA ItemsKept ==
  ASSUME TypeOK, TypeOK', tail' = tail, n' = n,
         \A k \in 1 .. n : q'[SlotOf(k)] = q[SlotOf(k)]
  PROVE  Items' = Items
BY DEF Items, SlotOf

(* AddAdvance appends the index that AddStore left at head.                *)
LEMMA ItemsAdded ==
  ASSUME Consistent, Consistent', NEW t \in Threads, pc[t] = "added", AddAdvance(t)
  PROVE  Items' = Append(Items, arg[t]) /\ Len(Items) < Size
<1>1. /\ n \in Nat /\ n < Size /\ n' = n + 1 /\ tail' = tail /\ q' = q
      /\ q[head] = arg[t] /\ head = (tail + n) % Size
  BY QueueAssumption DEF Consistent, TypeOK, MidOperation, HeadAfterTail, AddAdvance
<1>2. Items \in Seq(Elements) /\ Len(Items) = n
  BY ItemsType DEF Consistent
<1>3. \A k \in 1 .. n + 1 : q[SlotOf(k)] = IF k = n + 1 THEN arg[t] ELSE Items[k]
  <2> SUFFICES ASSUME NEW k \in 1 .. n + 1
               PROVE  q[SlotOf(k)] = IF k = n + 1 THEN arg[t] ELSE Items[k]
    OBVIOUS
  <2>1. CASE k = n + 1
    <3>1. tail + k - 1 = tail + n
      BY <2>1, <1>1, QueueAssumption DEF Consistent, TypeOK, Slots
    <3>2. QED
      BY <2>1, <3>1, <1>1 DEF SlotOf
  <2>2. CASE k # n + 1
    BY <2>2, <1>1, ItemsType DEF Consistent
  <2>3. QED
    BY <2>1, <2>2
<1>4. Items' = [k \in 1 .. n + 1 |-> q[SlotOf(k)]]
  BY <1>1 DEF Items, SlotOf
<1>5. QED
  BY <1>1, <1>2, <1>3, <1>4

(* RemoveAdvance drops the oldest index, which RemoveTake has read.        *)
LEMMA ItemsRemoved ==
  ASSUME Consistent, Consistent', NEW t \in Threads, RemoveAdvance(t)
  PROVE  Items # <<>> /\ Items' = Tail(Items) /\ Head(Items) = arg[t]
<1>1. /\ n \in 1 .. Size /\ n' = n - 1 /\ tail' = Advance(tail) /\ q' = q
      /\ q[tail] = arg[t] /\ tail \in Slots
  BY QueueAssumption DEF Consistent, TypeOK, MidOperation, RemoveAdvance
<1>2. Items \in Seq(Elements) /\ Len(Items) = n
  BY ItemsType DEF Consistent
<1>3. \A k \in 1 .. n - 1 : SlotOf(k)' = SlotOf(k + 1)
  <2> SUFFICES ASSUME NEW k \in 1 .. n - 1 PROVE SlotOf(k)' = SlotOf(k + 1)
    OBVIOUS
  <2>1. k \in 1 .. n' /\ k + 1 \in 1 .. n
    BY <1>1
  <2>2. SlotOf(k)' = IF tail' + k - 1 < Size THEN tail' + k - 1 ELSE tail' + k - 1 - Size
    <3>1. k - 1 \in 0 .. Size /\ tail' \in Slots /\ tail' + (k - 1) = tail' + k - 1
      BY <1>1, <2>1, QueueAssumption DEF Consistent, TypeOK, Slots
    <3>2. QED
      BY <3>1, WrapSum, QueueAssumption DEF SlotOf, Slots
  <2>3. SlotOf(k + 1) = IF tail + k < Size THEN tail + k ELSE tail + k - Size
    BY <2>1, <1>1, SlotsInUse, QueueAssumption DEF Consistent, Slots
  <2>4. tail' = IF tail + 1 < Size THEN tail + 1 ELSE 0
    BY <1>1, AdvanceType
  <2>5. QED
    BY <2>1, <2>2, <2>3, <2>4, <1>1, QueueAssumption DEF Slots
<1>4. SlotOf(1) = tail
  BY <1>1, SlotsInUse, QueueAssumption DEF Consistent, Slots
<1>5. Items' = [k \in 1 .. n - 1 |-> q[SlotOf(k + 1)]]
  BY <1>1, <1>3 DEF Items
<1>6. Items' = [k \in 1 .. n - 1 |-> Items[k + 1]]
  BY <1>1, <1>5, ItemsType DEF Consistent
<1>7. Items[1] = arg[t]
  BY <1>1, <1>4, ItemsType DEF Consistent
<1>8. Len(Items) > 0 /\ Items # <<>> /\ Head(Items) = Items[1]
  BY <1>1, <1>2
<1>9. /\ Tail(Items) \in Seq(Elements)
      /\ Len(Tail(Items)) = n - 1
      /\ \A k \in 1 .. n - 1 : Tail(Items)[k] = Items[k + 1]
  BY <1>1, <1>2, <1>8, HeadTailProperties
<1>10. Items' = Tail(Items)
  <2>1. Items' \in Seq(Elements) /\ Len(Items') = n - 1
    <3>1. n - 1 \in Nat /\ \A k \in 1 .. n - 1 : Items[k + 1] \in Elements
      BY <1>1, <1>2
    <3>2. QED
      BY <1>6, <3>1
  <2>2. \A k \in 1 .. n - 1 : Items'[k] = Items[k + 1]
    BY <1>6
  <2>3. QED
    BY <1>9, <2>1, <2>2, SeqEqual
<1>11. QED
  BY <1>7, <1>8, <1>10

(* queue_add adds the index when it advances head, or fails when it finds  *)
(* the ring full.                                                          *)
LEMMA AddIsAdd ==
  ASSUME Consistent, Consistent', NEW t \in Threads, queue_add(t)
  PROVE  [Abstract!Next]_(Abstract!vars)
<1> USE DEF Abstract!vars, Abstract!Next
<1>0. TypeOK /\ TypeOK' /\ Len(Items) = n /\ Items \in Seq(Elements) /\ n \in Nat
  BY ItemsType, QueueAssumption DEF Consistent, TypeOK
<1>1. ASSUME NEW e \in Elements, AddLock(t, e) PROVE UNCHANGED <<Items, ret>>
  BY <1>0, <1>1, ItemsKept DEF AddLock
<1>2. CASE AddFull(t)
  <2>1. Items' = Items /\ n = Size
    BY <1>0, <1>2, ItemsKept, QueueAssumption DEF AddFull, Full, TypeOK
  <2>2. PICK e \in Elements : e = arg[t]
    BY <1>2 DEF AddFull, Consistent, MidOperation
  <2>3. Abstract!Add(t, e)
    BY <1>0, <1>2, <2>1 DEF AddFull, Abstract!Add, Abstract!Failed, Failed
  <2>4. QED
    BY <2>3
<1>3. CASE AddStore(t)
  <2>1. n < Size /\ n' = n /\ tail' = tail /\ q' = [q EXCEPT ![head] = arg[t]]
    BY <1>0, <1>3, QueueAssumption DEF AddStore, Full
  <2>2. \A k \in 1 .. n : SlotOf(k) # head /\ SlotOf(k) \in Slots
    BY <1>0, <2>1, SlotsInUse DEF Consistent
  <2>3. \A k \in 1 .. n : q'[SlotOf(k)] = q[SlotOf(k)]
    BY <1>0, <2>1, <2>2 DEF TypeOK
  <2>4. QED
    BY <1>0, <1>3, <2>1, <2>3, ItemsKept DEF AddStore
<1>4. CASE AddAdvance(t)
  <2>1. pc[t] = "added" /\ ret' = [ret EXCEPT ![t] = 0]
    BY <1>4 DEF AddAdvance
  <2>2. Items' = Append(Items, arg[t]) /\ Len(Items) < Size
    BY <1>4, <2>1, ItemsAdded
  <2>3. PICK e \in Elements : e = arg[t]
    BY <2>1 DEF Consistent, MidOperation, HeadAfterTail, TypeOK
  <2>4. Abstract!Add(t, e)
    BY <2>1, <2>2, <2>3 DEF Abstract!Add
  <2>5. QED
    BY <2>4
<1>5. QED
  BY <1>1, <1>2, <1>3, <1>4 DEF queue_add

(* queue_remove answers with the oldest index when it advances tail.       *)
LEMMA RemoveIsRemove ==
  ASSUME Consistent, Consistent', NEW t \in Threads, queue_remove(t)
  PROVE  [Abstract!Next]_(Abstract!vars)
<1> USE DEF Abstract!vars, Abstract!Next
<1>0. TypeOK /\ TypeOK' /\ Len(Items) = n /\ Items \in Seq(Elements) /\ n \in Nat
  BY ItemsType, QueueAssumption DEF Consistent, TypeOK
<1>1. CASE RemoveLock(t)
  BY <1>0, <1>1, ItemsKept DEF RemoveLock
<1>2. CASE RemoveEmpty(t)
  <2>1. Items' = Items /\ Items = <<>>
    BY <1>0, <1>2, ItemsKept DEF RemoveEmpty
  <2>2. Abstract!Remove(t)
    BY <1>2, <2>1 DEF RemoveEmpty, Abstract!Remove, Abstract!Failed, Failed
  <2>3. QED
    BY <2>2
<1>3. CASE RemoveTake(t)
  BY <1>0, <1>3, ItemsKept DEF RemoveTake
<1>4. CASE RemoveAdvance(t)
  <2>1. Abstract!Remove(t)
    BY <1>4, ItemsRemoved DEF RemoveAdvance, Abstract!Remove
  <2>2. QED
    BY <2>1
<1>5. QED
  BY <1>1, <1>2, <1>3, <1>4 DEF queue_remove

(* queue_empty answers whether the queue has no index.                     *)
LEMMA EmptyIsEmpty ==
  ASSUME Consistent, Consistent', NEW t \in Threads, queue_empty(t)
  PROVE  [Abstract!Next]_(Abstract!vars)
<1> USE DEF Abstract!vars, Abstract!Next
<1>0. TypeOK /\ TypeOK' /\ Len(Items) = n /\ Items \in Seq(Elements) /\ n \in Nat
  BY ItemsType, QueueAssumption DEF Consistent, TypeOK
<1>1. CASE EmptyLock(t)
  BY <1>0, <1>1, ItemsKept DEF EmptyLock
<1>2. CASE EmptyTest(t)
  <2>1. Items' = Items /\ (Items = <<>> <=> n = 0)
    BY <1>0, <1>2, ItemsKept DEF EmptyTest
  <2>2. Abstract!Empty(t)
    BY <1>2, <2>1 DEF EmptyTest, Abstract!Empty
  <2>3. QED
    BY <2>2
<1>3. QED
  BY <1>1, <1>2 DEF queue_empty

(* The ring implements the FIFO queue: an operation takes effect when it   *)
(* updates n or answers, and its other steps change nothing that shows.    *)
THEOREM RingImplementsFifo == Spec => ImplementsFifo
<1>1. Init => Abstract!Init
  BY DEF Init, queue_init, Abstract!Init, Items
<1>2. Consistent /\ Consistent' /\ Next => [Abstract!Next]_(Abstract!vars)
  <2>1. ASSUME Consistent, Consistent', NEW t \in Threads, Unlock(t) PROVE UNCHANGED Abstract!vars
    BY <2>1, ItemsKept DEF Unlock, Abstract!vars, Consistent
  <2>2. QED
    BY <2>1, AddIsAdd, RemoveIsRemove, EmptyIsEmpty DEF Next
<1>3. UNCHANGED vars => UNCHANGED Abstract!vars
  BY DEF vars, Abstract!vars, Items, SlotOf
<1>4. QED
  BY <1>1, <1>2, <1>3, RingConsistent, PTL DEF Spec, ImplementsFifo, Abstract!Spec
=============================================================================
