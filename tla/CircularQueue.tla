---------------------------- MODULE CircularQueue ----------------------------
(***************************************************************************)
(* One ring of circular_queue.c under every order of its operations.  The  *)
(* main thread is the only user of a ring, so each call is one step.       *)
(***************************************************************************)
EXTENDS ArrayQueue, FiniteSets

CONSTANTS
    Entries,        \* the dictEntry pointers that may be queued
    Capacity,       \* the capacity the ring is created with
    MaxSize         \* bound on the size counter (exploration only)

ASSUME EntriesAssumption == NULL \notin Entries /\ Uninit \notin Entries
ASSUME CapacityAssumption == Capacity \in 2 .. QueueMax /\ MaxSize \in Nat

VARIABLES
    q,          \* the ring
    last,       \* the last call, with the entry it was given or returned
    dropped,    \* entries a growing step or a reset left behind, counted
    crashed     \* a serverAssert failed

vars == <<q, last, dropped, crashed>>

Init ==
    /\ q = createArrayQueue(Capacity)
    /\ last = <<"create">>
    /\ dropped = 0
    /\ crashed = FALSE

Length(r) == (r.front + r.max - r.rear) % r.max

Enqueue(e) ==
    /\ ~crashed
    /\ q.size < MaxSize
    /\ IF CannotExtend(q)
       THEN crashed' = TRUE /\ UNCHANGED <<q, last, dropped>>
       ELSE /\ q' = enqueue(q, e)
            /\ last' = <<"put", e>>
            /\ dropped' = dropped + Length(q) + 1 - Length(q')
            /\ UNCHANGED crashed

Dequeue ==
    /\ ~crashed
    /\ q' = dequeue(q)
    /\ last' = <<"take", dequeueResult(q)>>
    /\ UNCHANGED <<dropped, crashed>>

ForceDequeue ==
    /\ ~crashed
    /\ IF forceDequeueAsserts(q)
       THEN /\ q' = forceDequeue(q)
            /\ last' = <<"take", IF isEmpty(q) THEN NULL ELSE RearSlot(q)>>
            /\ UNCHANGED crashed
       ELSE crashed' = TRUE /\ UNCHANGED <<q, last>>
    /\ UNCHANGED dropped

InitializeQueue ==
    /\ ~crashed
    /\ q' = initializeQueue(q)
    /\ last' = <<"clear">>
    /\ dropped' = IF q.rear <= q.front THEN dropped ELSE dropped + Length(q)
    /\ UNCHANGED crashed

Next ==
    \/ \E e \in Entries : Enqueue(e)
    \/ Dequeue
    \/ ForceDequeue
    \/ InitializeQueue

Spec == Init /\ [][Next]_vars

-----------------------------------------------------------------------------
\* The ring's indices stay inside the buffer and its slots hold pointers.
TypeOK ==
    /\ IsQueue(q, Entries)
    /\ dropped \in Nat
    /\ crashed \in BOOLEAN

\* Between rear and front there are only stored entries: no dequeue returns a
\* cleared or never written slot, through every growth and every reset.
WindowHoldsEntries == Members(q) \subseteq Entries

\* The counter that freeMemoryIfNeeded compares with DEFAULT_FREE_QUEUE_SIZE-1
\* is the number of queued entries plus every entry dropped so far: it never
\* under-counts, and it is exact until a ring grows or is reset while wrapped.
SizeCountsDropped == q.size = Length(q) + dropped

\* A growing step keeps every entry when the ring starts at index 0.
GrowthFromBaseKeepsAll ==
    [][(q'.max > q.max /\ q.rear = 0) =>
          SubSeq(Content(q'), 1, Len(Content(q'))-1) = Content(q)]_vars

Abstract == INSTANCE FifoQueue WITH items <- Content(q)

\* The ring implements the queue that may drop entries when one is added, and
\* otherwise keeps first-in first-out order: a dequeue returns the oldest entry
\* left, and NULL only from an empty ring.
ImplementsLossy == Abstract!LossySpec

\* "If it is full, extend queue size" (circular_queue.c:34): the ring
\* implements a queue that never loses an entry.
ImplementsFifo == Abstract!FifoSpec

\* The ring stays well-formed, has only stored entries between rear and front,
\* and its size is the number of entries, those dropped on growth included.
RingHoldsEntries ==
    /\ TypeOK
    /\ WindowHoldsEntries
    /\ SizeCountsDropped
=============================================================================
