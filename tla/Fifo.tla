-------------------------------- MODULE Fifo --------------------------------
(***************************************************************************)
(* The promise of the index queue of v4l2-mfc-example/queue.c: a bounded   *)
(* first-in first-out queue of buffer indices whose operations take effect *)
(* at once.  An operation that cannot be served answers Failed (-1) and    *)
(* changes nothing.                                                        *)
(***************************************************************************)
EXTENDS Integers, Sequences

CONSTANTS
  Threads,   \* the threads that call the queue
  Size,      \* the capacity given to queue_init
  Elements   \* the buffer indices that are queued

VARIABLES
  items,     \* the queued indices, oldest first
  answer     \* answer[t] is what the last operation of t returned

vars == <<items, answer>>

Failed == -1

TypeOK ==
  /\ items \in Seq(Elements)
  /\ Len(items) <= Size
  /\ answer \in [Threads -> Elements \cup {Failed, 0, 1}]

Init ==
  /\ items = <<>>
  /\ answer = [t \in Threads |-> 0]

Add(t, e) ==
  \/ /\ Len(items) < Size
     /\ items' = Append(items, e)
     /\ answer' = [answer EXCEPT ![t] = 0]
  \/ /\ Len(items) = Size
     /\ answer' = [answer EXCEPT ![t] = Failed]
     /\ UNCHANGED items

Remove(t) ==
  \/ /\ items # <<>>
     /\ items' = Tail(items)
     /\ answer' = [answer EXCEPT ![t] = Head(items)]
  \/ /\ items = <<>>
     /\ answer' = [answer EXCEPT ![t] = Failed]
     /\ UNCHANGED items

Empty(t) ==
  /\ answer' = [answer EXCEPT ![t] = IF items = <<>> THEN 1 ELSE 0]
  /\ UNCHANGED items

Next ==
  \E t \in Threads :
    \/ \E e \in Elements : Add(t, e)
    \/ Remove(t)
    \/ Empty(t)

Spec == Init /\ [][Next]_vars
=============================================================================
