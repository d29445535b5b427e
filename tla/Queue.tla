------------------------------- MODULE Queue -------------------------------
(***************************************************************************)
(* The Queue module, optionals/queue.c: a ring buffer in an array that     *)
(* grows and shrinks, and grayQueue, by which the collector learns which   *)
(* of its slots hold values.                                               *)
(*                                                                         *)
(* The program pushes new objects and keeps none of them, so a collection  *)
(* frees every object in a slot that grayQueue does not mark; the slot     *)
(* then holds a pointer to freed memory.  createQueue in a shrink may      *)
(* collect too, but before it changes anything, which is QueueCollect      *)
(* before the pop.  isFull, isEmpty, cap and len only read.                *)
(***************************************************************************)
EXTENDS Growth, FiniteSets, Sequences

CONSTANTS Objects,          \* how many objects are told apart; they are pushed in turn
          Unset,            \* a slot that was never written
          Freed,            \* a slot whose object was freed
          QueueSizes,       \* the sizes, without fractions, that queues are made with
          MaxQueueCapacity  \* bound: no queue grows beyond this many slots

Elem == 0 .. Objects - 1

ASSUME QueueAssumption ==
  /\ Objects \in Nat \ {0}
  /\ Unset \notin Elem /\ Freed \notin Elem /\ Unset # Freed
  /\ QueueSizes \subseteq Nat
  /\ MaxQueueCapacity \in Nat

VARIABLES queue,     \* struct Queue
          pushed,    \* the object that is pushed next
          taken,     \* what the last pop() or peek() answered
          bent       \* what has happened to the queue that the code does not allow for

queueVars == <<queue, pushed, taken, bent>>

DefaultCapacity == 8

----------------------------------------------------------------------------
\* Plausible slips, used to show that the properties can fail.

\* The slot after the last is taken for one of the array.
BrokenNextSlot(q, i) == IF i = q.capacity THEN 0 ELSE i + 1

\* A shrink keeps the first slots, as if the front were at the start.
BrokenShrinkQueue(q) ==
  [q EXCEPT !.capacity = q.capacity \div 2, !.front = 0, !.rear = q.count - 1,
            !.dq = [i \in 0 .. q.capacity \div 2 - 1 |-> @[i]]]

\* grayQueue leaves out the slot at the rear.
BrokenGrayed(q) ==
  IF q.count = q.capacity THEN q.front .. q.capacity - 1
  ELSE IF q.rear + 1 < q.front THEN q.front .. q.capacity - 1 \cup 0 .. q.rear - 1
  ELSE q.front .. q.rear - 1

\* grayQueue takes a front right behind the rear for a wrapped queue.
BrokenGrayedTie(q) ==
  IF q.rear < q.front THEN q.front .. q.capacity - 1 \cup 0 .. q.rear
  ELSE q.front .. q.rear
----------------------------------------------------------------------------
CreateQueue(capacity) ==
  [dq |-> [i \in 0 .. capacity - 1 |-> Unset], capacity |-> capacity,
   front |-> 0, rear |-> -1, count |-> 0]

\* The slots that grayQueue marks.
Grayed(q) ==
  IF q.count = q.capacity THEN q.front .. q.capacity - 1
  ELSE IF q.rear + 1 < q.front THEN q.front .. q.capacity - 1 \cup 0 .. q.rear
  ELSE q.front .. q.rear

\* The slots whose values a pop has yet to take.
Stored(q) == {(q.front + i) % q.capacity : i \in 0 .. q.count - 1}

Collected(q) == [q EXCEPT !.dq = [i \in DOMAIN @ |->
                   IF @[i] \in Elem /\ i \notin Grayed(q) THEN Freed ELSE @[i]]]

IsWrapped(q) == q.front > 0 /\ q.count = q.capacity

\* The larger array has the same slots, and new ones at the end.
Reallocated(q, oldCapacity) ==
  [q EXCEPT !.dq = [i \in 0 .. q.capacity - 1 |-> IF i < oldCapacity THEN @[i] ELSE Unset]]

\* queuePush's growth: the capacity is set first, and the allocation may collect.
Grow(q, collects) ==
  LET grown == [q EXCEPT !.capacity = GrowCapacity(q.capacity)]
  IN Reallocated(IF collects THEN Collected(grown) ELSE grown, q.capacity)

\* The slot that comes after slot i.
NextSlot(q, i) == IF i = q.capacity - 1 THEN 0 ELSE i + 1

Enqueued(q, e) ==
  LET rear == NextSlot(q, q.rear)
  IN [q EXCEPT !.dq[rear] = e, !.rear = rear, !.count = @ + 1]

Dequeued(q) == [q EXCEPT !.front = NextSlot(q, @), !.count = @ - 1]

\* The values in the order shrinkQueue copies them.
Unwrapped(q) == [i \in 1 .. q.count |-> q.dq[(q.front + i - 1) % q.capacity]]

ShrinkQueue(q) ==
  LET values == Unwrapped(q)
      fresh  == CreateQueue(ShrinkCapacity(q.capacity))
  IN [fresh EXCEPT !.dq = [i \in DOMAIN @ |-> IF i < q.count THEN values[i + 1] ELSE @[i]],
                   !.rear = q.count - 1, !.count = q.count]

IsSparse(q) == q.count < q.capacity \div 2 /\ q.capacity > DefaultCapacity

----------------------------------------------------------------------------
(* The program's calls, and collections between them. *)

QueueInit == /\ queue \in {CreateQueue(size) : size \in QueueSizes}
             /\ pushed = 0 /\ taken = Unset /\ bent = {}

QueuePush(collects) ==
  /\ queue.count < queue.capacity \/ GrowCapacity(queue.capacity) <= MaxQueueCapacity
  /\ collects => queue.count = queue.capacity
  /\ LET grows == queue.count = queue.capacity
     IN /\ queue' = Enqueued(IF grows THEN Grow(queue, collects) ELSE queue, pushed)
        /\ bent' = IF grows /\ IsWrapped(queue) THEN bent \cup {"grown while wrapped"} ELSE bent
  /\ pushed' = (pushed + 1) % Objects
  /\ UNCHANGED taken

\* An empty queue is a runtime error, which leaves it as it was.
QueuePop ==
  /\ queue.count > 0
  /\ LET q == IF IsSparse(queue) THEN ShrinkQueue(queue) ELSE queue
     IN /\ taken' = q.dq[q.front]
        /\ queue' = Dequeued(q)
  /\ UNCHANGED <<pushed, bent>>

\* queuePeek does not ask whether the queue is empty.  newWithSize takes numbers
\* between 0 and 1 and makes queues without a slot of them: peek then reads beyond.
QueuePeek == /\ taken' = IF queue.capacity = 0 THEN Unset ELSE queue.dq[queue.front]
             /\ UNCHANGED <<queue, pushed, bent>>

\* The objects the queue does not mark are freed; one that was taken last is
\* still in a variable of the program's.
QueueCollect ==
  /\ queue' = Collected(queue)
  /\ bent' = bent \cup (IF IsWrapped(queue) THEN {"collected while wrapped"} ELSE {})
                  \cup (IF \E i \in Grayed(queue) : queue.dq[i] = Freed
                        THEN {"marked freed memory"} ELSE {})
  /\ UNCHANGED <<pushed, taken>>

QueueNext == \/ \E collects \in BOOLEAN : QueuePush(collects)
             \/ QueuePop \/ QueuePeek \/ QueueCollect

QueueSpec == QueueInit /\ [][QueueNext]_queueVars

----------------------------------------------------------------------------
\* Every field has its type and names a slot of the array, if it has one.
QueueTypeOK ==
  /\ queue.capacity \in Nat /\ queue.count \in 0 .. queue.capacity
  /\ DOMAIN queue.dq = 0 .. queue.capacity - 1
  /\ \A i \in DOMAIN queue.dq : queue.dq[i] \in Elem \cup {Unset, Freed}
  /\ queue.front \in DOMAIN queue.dq \cup {0} /\ queue.rear \in -1 .. queue.capacity - 1
  /\ pushed \in Elem /\ taken \in Elem \cup {Unset, Freed}

\* docs/docs/standard-lib/queue.md: push() "resizes the queue if necessary", and
\* pop() "Returns the value at the front of the queue".  The queue is first in,
\* first out through every growth and shrink.  It is not: growing leaves a wrapped
\* queue's values where they are.
Fifo == INSTANCE FifoSpec WITH items <- Unwrapped(queue), taken <- taken
QueueIsFifo == Fifo!Init /\ [][Fifo!Next]_<<Unwrapped(queue), taken>>

\* So it is as long as the queue is never full and wrapped when it grows or is
\* collected, whatever else it goes through: wrapping, growing, shrinking with its
\* values wrapped around, and collections at any point.
FifoUnlessBent == Fifo!Init /\ [][bent' # {} \/ Fifo!Next]_<<Unwrapped(queue), taken>>

\* A collection keeps every value in the queue, exactly unless the queue is full
\* and wrapped: grayQueue then marks the values up to the end of the array only.
StoredIsGrayed ==
  "grown while wrapped" \notin bent =>
    (Stored(queue) \subseteq Grayed(queue) <=> ~ IsWrapped(queue))

HasGoneRound == queue.count = 0 /\ queue.front = 0 /\ queue.rear = queue.capacity - 1

\* What grayQueue marks beyond the stored values was popped, and may be freed.
\* That is nothing, except when an empty queue has gone exactly round its array.
OnlyStoredIsGrayed ==
  "grown while wrapped" \notin bent /\ ~ HasGoneRound =>
    Grayed(queue) \subseteq Stored(queue)
=============================================================================
