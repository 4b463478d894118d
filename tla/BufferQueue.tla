----------------------------- MODULE BufferQueue -----------------------------
(***************************************************************************)
(* v4l2-mfc-example/queue.c: the ring of buffer indices that the MFC       *)
(* thread fills and the FIMC or IPP thread empties, with its mutex.  A     *)
(* critical section is two steps, the access to the slot and the update of *)
(* the indices, so that what the mutex is for can be seen.                 *)
(***************************************************************************)
EXTENDS Integers, Sequences

CONSTANTS
  Threads,   \* the threads that call the queue
  Size,      \* the capacity given to queue_init
  Elements,  \* the buffer indices that are queued
  NoThread   \* the owner of a free mutex

ASSUME QueueAssumption ==
  /\ Size \in Nat \ {0}
  /\ Elements \subseteq Nat
  /\ NoThread \notin Threads

VARIABLES
  q, head, tail, n,  \* the fields of struct queue
  mutex,             \* the owner of queue.mutex, or NoThread
  pc,                \* where each thread stands in a queue operation
  arg,               \* arg[t]: the argument e of queue_add, the local x of
                     \* queue_remove
  ret                \* ret[t]: the value the last operation of t returned

vars == <<q, head, tail, n, mutex, pc, arg, ret>>

Slots == 0 .. Size - 1

Failed == -1

PcValues == {"idle", "add", "added", "remove", "removed", "empty", "unlock"}

TypeOK ==
  /\ q \in [Slots -> Elements]
  /\ head \in Slots
  /\ tail \in Slots
  /\ n \in 0 .. Size
  /\ mutex \in Threads \cup {NoThread}
  /\ pc \in [Threads -> PcValues]
  /\ arg \in [Threads -> Elements \cup {0}]
  /\ ret \in [Threads -> Elements \cup {Failed, 0, 1}]

-----------------------------------------------------------------------------
(* The array comes from malloc: its contents are arbitrary.                *)
queue_init ==
  /\ q \in [Slots -> Elements]
  /\ head = 0
  /\ tail = 0
  /\ n = 0
  /\ mutex = NoThread

Init ==
  /\ queue_init
  /\ pc = [t \in Threads |-> "idle"]
  /\ arg = [t \in Threads |-> 0]
  /\ ret = [t \in Threads |-> 0]

Advance_NoWrap(i) == IF i + 1 > Size THEN 0 ELSE i + 1

(* head++; head %= size                                                    *)
Advance(i) == (i + 1) % Size

Acquire_NoMutex(t) == mutex' = t

(* pthread_mutex_lock                                                      *)
Acquire(t) == mutex = NoThread /\ mutex' = t

AddLock(t, e) ==
  /\ pc[t] = "idle"
  /\ Acquire(t)
  /\ arg' = [arg EXCEPT ![t] = e]
  /\ pc' = [pc EXCEPT ![t] = "add"]
  /\ UNCHANGED <<q, head, tail, n, ret>>

Full_OffByOne == n > Size

Full == n >= Size

AddFull(t) ==
  /\ pc[t] = "add"
  /\ Full
  /\ ret' = [ret EXCEPT ![t] = Failed]
  /\ pc' = [pc EXCEPT ![t] = "unlock"]
  /\ UNCHANGED <<q, head, tail, n, mutex, arg>>

AddStore(t) ==
  /\ pc[t] = "add"
  /\ ~Full
  /\ q' = [q EXCEPT ![head] = arg[t]]
  /\ pc' = [pc EXCEPT ![t] = "added"]
  /\ UNCHANGED <<head, tail, n, mutex, arg, ret>>

AddAdvance(t) ==
  /\ pc[t] = "added"
  /\ head' = Advance(head)
  /\ n' = n + 1
  /\ ret' = [ret EXCEPT ![t] = 0]
  /\ pc' = [pc EXCEPT ![t] = "unlock"]
  /\ UNCHANGED <<q, tail, mutex, arg>>

RemoveLock(t) ==
  /\ pc[t] = "idle"
  /\ Acquire(t)
  /\ pc' = [pc EXCEPT ![t] = "remove"]
  /\ UNCHANGED <<q, head, tail, n, arg, ret>>

RemoveEmpty(t) ==
  /\ pc[t] = "remove"
  /\ n = 0
  /\ ret' = [ret EXCEPT ![t] = Failed]
  /\ pc' = [pc EXCEPT ![t] = "unlock"]
  /\ UNCHANGED <<q, head, tail, n, mutex, arg>>

RemoveTake(t) ==
  /\ pc[t] = "remove"
  /\ n # 0
  /\ arg' = [arg EXCEPT ![t] = q[tail]]
  /\ pc' = [pc EXCEPT ![t] = "removed"]
  /\ UNCHANGED <<q, head, tail, n, mutex, ret>>

RemoveAdvance(t) ==
  /\ pc[t] = "removed"
  /\ tail' = Advance(tail)
  /\ n' = n - 1
  /\ ret' = [ret EXCEPT ![t] = arg[t]]
  /\ pc' = [pc EXCEPT ![t] = "unlock"]
  /\ UNCHANGED <<q, head, mutex, arg>>

EmptyLock(t) ==
  /\ pc[t] = "idle"
  /\ Acquire(t)
  /\ pc' = [pc EXCEPT ![t] = "empty"]
  /\ UNCHANGED <<q, head, tail, n, arg, ret>>

EmptyTest(t) ==
  /\ pc[t] = "empty"
  /\ ret' = [ret EXCEPT ![t] = IF n = 0 THEN 1 ELSE 0]
  /\ pc' = [pc EXCEPT ![t] = "unlock"]
  /\ UNCHANGED <<q, head, tail, n, mutex, arg>>

Unlock(t) ==
  /\ pc[t] = "unlock"
  /\ mutex' = NoThread
  /\ pc' = [pc EXCEPT ![t] = "idle"]
  /\ UNCHANGED <<q, head, tail, n, arg, ret>>

queue_add(t) ==
  (\E e \in Elements : AddLock(t, e)) \/ AddFull(t) \/ AddStore(t) \/ AddAdvance(t)

queue_remove(t) ==
  RemoveLock(t) \/ RemoveEmpty(t) \/ RemoveTake(t) \/ RemoveAdvance(t)

queue_empty(t) == EmptyLock(t) \/ EmptyTest(t)

Next ==
  \E t \in Threads :
    queue_add(t) \/ queue_remove(t) \/ queue_empty(t) \/ Unlock(t)

Spec == Init /\ [][Next]_vars

-----------------------------------------------------------------------------
(* The slot that the k-th oldest queued index is in.                       *)
SlotOf(k) == (tail + k - 1) % Size

(* The queue as a sequence, oldest index first: the n slots from tail on.  *)
Items == [k \in 1 .. n |-> q[SlotOf(k)]]

Abstract == INSTANCE Fifo WITH items <- Items, answer <- ret

(* The ring implements a FIFO queue with indivisible operations: an index  *)
(* is neither lost nor duplicated nor overtaken at the wrap-around or by   *)
(* another thread inside queue_add (queue.c:44) or queue_remove (:59), and *)
(* -1 is answered exactly when the queue is full, or empty.                *)
ImplementsFifo == Abstract!Spec

(* A thread inside a critical section owns the mutex.                      *)
MutexHeld == \A t \in Threads : pc[t] # "idle" => mutex = t

(* head is n slots after tail.                                             *)
HeadAfterTail == head = (tail + n) % Size

(* Between its two steps an operation still finds what its first step saw: *)
(* room and the stored index at head, or the index it took at tail.        *)
MidOperation ==
  \A t \in Threads :
    /\ pc[t] = "add" => arg[t] \in Elements
    /\ pc[t] = "added" => n < Size /\ q[head] = arg[t]
    /\ pc[t] = "removed" => n > 0 /\ q[tail] = arg[t]

(* The inductive invariant: no operation of another thread interleaves     *)
(* with one that has begun, and the indices stay consistent.               *)
Consistent == TypeOK /\ MutexHeld /\ HeadAfterTail /\ MidOperation
=============================================================================
