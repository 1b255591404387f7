----------------------------- MODULE ArrayQueue -----------------------------
(***************************************************************************)
(* struct _arrayQueue and its operations (circular_queue.c): a growable    *)
(* ring of dictEntry pointers.  "rear" is the index the next entry leaves  *)
(* from, "front" the index the next entry is stored at, and the ring is    *)
(* empty when they are equal.  "size" is a counter kept beside them.       *)
(* key_offset only serves code that no command reaches and is left out.    *)
(*                                                                         *)
(* Every operation is an operator from a queue record to a queue record;   *)
(* the pointer it returns is an operator of its own.  NULL is a cleared    *)
(* slot, Uninit a slot zmalloc or zrealloc left unwritten.                 *)
(***************************************************************************)
EXTENDS Integers, Sequences

CONSTANTS
    NULL,       \* the null pointer
    Uninit,     \* what an allocated and never written slot holds
    QueueMax    \* QUEUE_MAX, the capacity the ring may not grow beyond

ASSUME QueueMaxAssumption == QueueMax \in Nat \ {0}
ASSUME SlotMarksAssumption == NULL # Uninit

createArrayQueue(capacity) ==
    [rear |-> 0, front |-> 0, max |-> capacity, size |-> 0,
     buf |-> [i \in 0 .. capacity - 1 |-> Uninit]]

Next1(q, i) == (i + 1) % q.max

isEmpty(q) == q.rear = q.front

IsFull(q) == Next1(q, q.front) = q.rear

\* The capacity is exhausted: a further enqueue meets serverAssert(0).
CannotExtend(q) == IsFull(q) /\ q.max = QueueMax

NewCapacity(q) ==
    IF QueueMax - q.max < q.max THEN QueueMax ELSE q.max * 2

\* Fault: front is set one slot short of the last one.
ExtendShort(q) ==
    [rear  |-> q.rear % NewCapacity(q),
     front |-> q.max - 2,
     max   |-> NewCapacity(q),
     size  |-> q.size,
     buf   |-> [i \in 0 .. NewCapacity(q) - 1 |->
                  IF i < q.max THEN q.buf[i] ELSE Uninit]]

\* zrealloc keeps the old slots in place; front is moved to the last of them
\* whatever the position of rear.
Extend(q) ==
    [rear  |-> q.rear % NewCapacity(q),
     front |-> q.max - 1,
     max   |-> NewCapacity(q),
     size  |-> q.size,
     buf   |-> [i \in 0 .. NewCapacity(q) - 1 |->
                  IF i < q.max THEN q.buf[i] ELSE Uninit]]

Store(q, e) ==
    [rear  |-> q.rear,
     front |-> Next1(q, q.front),
     max   |-> q.max,
     size  |-> q.size + 1,
     buf   |-> [q.buf EXCEPT ![q.front] = e]]

\* enqueue of a non-NULL entry on a ring that may still grow.
enqueue(q, e) == IF IsFull(q) THEN Store(Extend(q), e) ELSE Store(q, e)

RearSlot(q) == q.buf[q.rear]

\* Fault: the slot is cleared and rear stays.
RemoveInPlace(q) ==
    [rear  |-> q.rear,
     front |-> q.front,
     max   |-> q.max,
     size  |-> q.size - 1,
     buf   |-> [q.buf EXCEPT ![q.rear] = NULL]]

\* Fault: the newest entry is taken out instead of the oldest.
RemoveNewest(q) ==
    LET last == (q.front + q.max - 1) % q.max IN
    [rear  |-> q.rear,
     front |-> last,
     max   |-> q.max,
     size  |-> q.size - 1,
     buf   |-> [q.buf EXCEPT ![last] = NULL]]

\* The three dequeues clear the slot, advance rear and count down.
RemoveOldest(q) ==
    [rear  |-> Next1(q, q.rear),
     front |-> q.front,
     max   |-> q.max,
     size  |-> q.size - 1,
     buf   |-> [q.buf EXCEPT ![q.rear] = NULL]]

\* dequeue returns NULL on an empty ring and on a cleared slot, and leaves
\* the ring alone in both cases.
dequeueResult(q) == IF isEmpty(q) THEN NULL ELSE RearSlot(q)

dequeue(q) == IF dequeueResult(q) = NULL THEN q ELSE RemoveOldest(q)

\* forceDequeue differs in the assertion: on a non-empty ring the slot it
\* reads may not be a cleared one.
forceDequeueAsserts(q) == isEmpty(q) \/ RearSlot(q) # NULL

forceDequeue(q) == IF isEmpty(q) THEN q ELSE RemoveOldest(q)

\* The slots between rear and front, the ones that hold the queue's entries.
Window(q) ==
    {i \in 0 .. q.max - 1 :
        IF q.rear <= q.front THEN q.rear <= i /\ i < q.front
                             ELSE q.rear <= i \/ i < q.front}

\* initializeQueue force-dequeues once for every index in rear..front, which
\* empties an unwrapped ring and does nothing to a wrapped one, and then
\* resets both indices.  size is only what the dequeues left.
initializeQueue(q) ==
    LET emptied == q.rear <= q.front IN
    [rear  |-> 0,
     front |-> 0,
     max   |-> q.max,
     size  |-> IF emptied THEN q.size - (q.front - q.rear) ELSE q.size,
     buf   |-> [i \in 0 .. q.max - 1 |->
                  IF emptied /\ i \in Window(q) THEN NULL ELSE q.buf[i]]]

-----------------------------------------------------------------------------
\* Views of a queue, for the specifications.

Members(q) == {q.buf[i] : i \in Window(q)}

\* The entries in the order they will leave.
Content(q) ==
    [i \in 1 .. (q.front + q.max - q.rear) % q.max |->
        q.buf[(q.rear + i - 1) % q.max]]

\* No entry waits twice.
NoEntryTwice(q) == \A i, j \in Window(q) : q.buf[i] = q.buf[j] => i = j

IsQueue(q, Entry) ==
    /\ q.max \in 1 .. QueueMax
    /\ q.rear \in 0 .. q.max - 1
    /\ q.front \in 0 .. q.max - 1
    /\ q.size \in Int
    /\ q.buf \in [0 .. q.max - 1 -> Entry \cup {NULL, Uninit}]
=============================================================================
