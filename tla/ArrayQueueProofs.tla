-------------------------- MODULE ArrayQueueProofs --------------------------
(***************************************************************************)
(* What the operations of circular_queue.c do to the set of queued         *)
(* entries, for a ring of any capacity and at any position: the lemmas the *)
(* proofs about the users of a ring cite.                                  *)
(***************************************************************************)
EXTENDS ArrayQueue, TLAPS

\* Advancing an index wraps at the end of the buffer.
LEMMA NextIndex ==
  ASSUME NEW q, q.max \in Nat \ {0}, NEW i \in 0 .. q.max - 1
  PROVE  Next1(q, i) = IF i + 1 = q.max THEN 0 ELSE i + 1
<1> DEFINE m == q.max
<1>1. m \in Nat \ {0} /\ i \in 0 .. m - 1
  OBVIOUS
<1> HIDE DEF m
<1>2. (i + 1) % m = IF i + 1 = m THEN 0 ELSE i + 1
  BY <1>1
<1> QED
  BY <1>2 DEF Next1, m

\* Storing adds the slot at front to the window and nothing else.
LEMMA StoreWindow ==
  ASSUME NEW E, NEW q, IsQueue(q, E), ~IsFull(q), NEW e \in E
  PROVE  /\ IsQueue(Store(q, e), E)
         /\ Window(Store(q, e)) = Window(q) \cup {q.front}
         /\ q.front \notin Window(q)
         /\ Store(q, e).buf[q.front] = e
         /\ \A i \in Window(q) : Store(q, e).buf[i] = q.buf[i]
<1> DEFINE s == Store(q, e)
<1>1. /\ q.max \in Nat \ {0} /\ q.rear \in 0 .. q.max - 1
      /\ q.front \in 0 .. q.max - 1 /\ QueueMax \in Nat
  BY QueueMaxAssumption DEF IsQueue
<1>2. Next1(q, q.front) = IF q.front + 1 = q.max THEN 0 ELSE q.front + 1
  BY <1>1, NextIndex
<1>3. /\ s.rear = q.rear /\ s.max = q.max /\ s.size = q.size + 1
      /\ s.front = IF q.front + 1 = q.max THEN 0 ELSE q.front + 1
      /\ s.buf = [q.buf EXCEPT ![q.front] = e]
  BY <1>2 DEF Store
<1>4. q.rear # (IF q.front + 1 = q.max THEN 0 ELSE q.front + 1)
  BY <1>2 DEF IsFull
<1> HIDE DEF s
<1>5. IsQueue(s, E)
  BY <1>1, <1>3 DEF IsQueue
<1>6. Window(s) = Window(q) \cup {q.front} /\ q.front \notin Window(q)
  BY <1>1, <1>3, <1>4 DEF Window
<1>7. s.buf[q.front] = e
  BY <1>1, <1>3 DEF IsQueue
<1>8. \A i \in Window(q) : s.buf[i] = q.buf[i]
  BY <1>1, <1>3, <1>6 DEF IsQueue, Window
<1> QED
  BY <1>5, <1>6, <1>7, <1>8 DEF s

\* Growing a full ring leaves room, and its window holds old entries at their
\* old places; when the ring was wrapped, not all of them.
LEMMA ExtendWindow ==
  ASSUME NEW E, NEW q, IsQueue(q, E), IsFull(q), q.max # QueueMax
  PROVE  /\ IsQueue(Extend(q), E)
         /\ ~IsFull(Extend(q))
         /\ Window(Extend(q)) \subseteq Window(q)
         /\ \A i \in Window(Extend(q)) : Extend(q).buf[i] = q.buf[i]
<1> DEFINE c == NewCapacity(q)
           s == Extend(q)
<1>1. /\ q.max \in Nat \ {0} /\ q.max < QueueMax /\ q.rear \in 0 .. q.max - 1
      /\ q.front \in 0 .. q.max - 1 /\ QueueMax \in Nat
  BY QueueMaxAssumption DEF IsQueue
<1>2. c \in Nat /\ c > q.max /\ c <= QueueMax
  BY <1>1 DEF NewCapacity
<1>3. q.rear % c = q.rear
  <2> DEFINE r == q.rear
  <2>1. r \in Nat /\ c \in Nat /\ r < c
    BY <1>1, <1>2
  <2> HIDE DEF r, c
  <2>2. r % c = r
    BY <2>1
  <2> QED
    BY <2>2 DEF r
<1>4. /\ s.rear = q.rear /\ s.max = c /\ s.size = q.size /\ s.front = q.max - 1
      /\ s.buf = [i \in 0 .. c - 1 |-> IF i < q.max THEN q.buf[i] ELSE Uninit]
  BY <1>3 DEF Extend
<1>5. q.rear = IF q.front + 1 = q.max THEN 0 ELSE q.front + 1
  BY <1>1, NextIndex DEF IsFull
<1> HIDE DEF c, s
<1>6. IsQueue(s, E)
  <2>1. s.max \in 1 .. QueueMax /\ s.rear \in 0 .. s.max - 1
        /\ s.front \in 0 .. s.max - 1 /\ s.size \in Int
    BY <1>1, <1>2, <1>4 DEF IsQueue
  <2>2. \A i \in 0 .. c - 1 :
          (IF i < q.max THEN q.buf[i] ELSE Uninit) \in E \cup {NULL, Uninit}
    <3>1. q.buf \in [0 .. q.max - 1 -> E \cup {NULL, Uninit}]
      BY DEF IsQueue
    <3> QED
      BY <1>1, <1>2, <3>1
  <2>3. s.buf \in [0 .. s.max - 1 -> E \cup {NULL, Uninit}]
    BY <1>4, <2>2
  <2> QED
    BY <2>1, <2>3 DEF IsQueue
<1>7. ~IsFull(s)
  <2>1. Next1(s, s.front) = q.max
    <3>1. s.front \in 0 .. s.max - 1 /\ s.max \in Nat \ {0}
      BY <1>6, QueueMaxAssumption DEF IsQueue
    <3>2. Next1(s, s.front) = IF s.front + 1 = s.max THEN 0 ELSE s.front + 1
      BY <3>1, NextIndex
    <3> QED
      BY <1>1, <1>2, <1>4, <3>2
  <2> QED
    BY <1>1, <1>4, <2>1 DEF IsFull
<1>8. Window(s) \subseteq Window(q)
  BY <1>1, <1>2, <1>4, <1>5 DEF Window
<1>9. \A i \in Window(s) : s.buf[i] = q.buf[i]
  BY <1>1, <1>2, <1>4, <1>8 DEF Window
<1> QED
  BY <1>6, <1>7, <1>8, <1>9 DEF s

\* Removing takes the slot at rear out of the window and nothing else.
LEMMA RemoveWindow ==
  ASSUME NEW E, NEW q, IsQueue(q, E), ~isEmpty(q)
  PROVE  /\ IsQueue(RemoveOldest(q), E)
         /\ q.rear \in Window(q)
         /\ Window(RemoveOldest(q)) = Window(q) \ {q.rear}
         /\ \A i \in Window(RemoveOldest(q)) : RemoveOldest(q).buf[i] = q.buf[i]
<1> DEFINE s == RemoveOldest(q)
<1>1. /\ q.max \in Nat \ {0} /\ q.rear \in 0 .. q.max - 1
      /\ q.front \in 0 .. q.max - 1 /\ QueueMax \in Nat
  BY QueueMaxAssumption DEF IsQueue
<1>2. Next1(q, q.rear) = IF q.rear + 1 = q.max THEN 0 ELSE q.rear + 1
  BY <1>1, NextIndex
<1>3. /\ s.front = q.front /\ s.max = q.max /\ s.size = q.size - 1
      /\ s.rear = IF q.rear + 1 = q.max THEN 0 ELSE q.rear + 1
      /\ s.buf = [q.buf EXCEPT ![q.rear] = NULL]
  BY <1>2 DEF RemoveOldest
<1>4. q.rear # q.front
  BY DEF isEmpty
<1> HIDE DEF s
<1>5. IsQueue(s, E)
  BY <1>1, <1>3 DEF IsQueue
<1>6. q.rear \in Window(q) /\ Window(s) = Window(q) \ {q.rear}
  BY <1>1, <1>3, <1>4 DEF Window
<1>7. \A i \in Window(s) : s.buf[i] = q.buf[i]
  BY <1>1, <1>3, <1>6 DEF IsQueue, Window
<1> QED
  BY <1>5, <1>6, <1>7 DEF s

\* enqueue adds its entry, invents none and duplicates none.
THEOREM EnqueueMembers ==
  ASSUME NEW E, NEW q, IsQueue(q, E), ~CannotExtend(q), NoEntryTwice(q),
         NEW e \in E, e \notin Members(q)
  PROVE  /\ IsQueue(enqueue(q, e), E)
         /\ e \in Members(enqueue(q, e))
         /\ Members(enqueue(q, e)) \subseteq Members(q) \cup {e}
         /\ NoEntryTwice(enqueue(q, e))
<1> DEFINE r == IF IsFull(q) THEN Extend(q) ELSE q
<1>1. enqueue(q, e) = Store(r, e)
  BY DEF enqueue
<1>2. /\ IsQueue(r, E) /\ ~IsFull(r) /\ Window(r) \subseteq Window(q)
      /\ \A i \in Window(r) : r.buf[i] = q.buf[i]
  <2>1. CASE IsFull(q)
    BY <2>1, ExtendWindow DEF CannotExtend
  <2>2. CASE ~IsFull(q)
    BY <2>2
  <2> QED
    BY <2>1, <2>2
<1> HIDE DEF r
<1>3. /\ IsQueue(Store(r, e), E)
      /\ Window(Store(r, e)) = Window(r) \cup {r.front}
      /\ r.front \notin Window(r)
      /\ Store(r, e).buf[r.front] = e
      /\ \A i \in Window(r) : Store(r, e).buf[i] = r.buf[i]
  BY <1>2, StoreWindow
<1>4. \A i \in Window(r) : Store(r, e).buf[i] \in Members(q)
  BY <1>2, <1>3 DEF Members
<1>5. /\ e \in Members(Store(r, e))
      /\ Members(Store(r, e)) \subseteq Members(q) \cup {e}
  BY <1>3, <1>4 DEF Members
<1>6. NoEntryTwice(Store(r, e))
  BY <1>2, <1>3, <1>4 DEF NoEntryTwice
<1> QED
  BY <1>1, <1>3, <1>5, <1>6

\* enqueue on a ring that is not full drops nothing.
LEMMA EnqueueWithRoom ==
  ASSUME NEW E, NEW q, IsQueue(q, E), ~IsFull(q), NEW e \in E
  PROVE  Members(enqueue(q, e)) = Members(q) \cup {e} /\ enqueue(q, e).max = q.max
<1>1. enqueue(q, e) = Store(q, e)
  BY DEF enqueue
<1>2. /\ Window(Store(q, e)) = Window(q) \cup {q.front}
      /\ Store(q, e).buf[q.front] = e
      /\ \A i \in Window(q) : Store(q, e).buf[i] = q.buf[i]
  BY StoreWindow
<1>3. Members(Store(q, e)) = Members(q) \cup {e}
  BY <1>2 DEF Members
<1>4. Store(q, e).max = q.max
  BY DEF Store
<1> QED
  BY <1>1, <1>3, <1>4

\* enqueue on a full ring makes it larger.
LEMMA EnqueueGrows ==
  ASSUME NEW E, NEW q, IsQueue(q, E), IsFull(q), ~CannotExtend(q), NEW e
  PROVE  enqueue(q, e).max > q.max
<1>1. enqueue(q, e).max = NewCapacity(q)
  BY DEF enqueue, Store, Extend
<1>2. q.max \in Nat \ {0} /\ q.max < QueueMax /\ QueueMax \in Nat
  BY QueueMaxAssumption DEF IsQueue, CannotExtend
<1> QED
  BY <1>1, <1>2 DEF NewCapacity

\* No operation makes a ring smaller.
LEMMA RingNeverShrinks ==
  ASSUME NEW E, NEW q, IsQueue(q, E)
  PROVE  /\ q.max \in Nat /\ dequeue(q).max = q.max /\ RemoveOldest(q).max = q.max
         /\ \A e : ~CannotExtend(q) => enqueue(q, e).max >= q.max
         /\ \A e : ~IsFull(q) => enqueue(q, e).max = q.max
<1>1. q.max \in Nat
  BY QueueMaxAssumption DEF IsQueue
<1>2. dequeue(q).max = q.max /\ RemoveOldest(q).max = q.max
  BY DEF dequeue, RemoveOldest
<1>3. ASSUME NEW e, ~CannotExtend(q) PROVE enqueue(q, e).max >= q.max
  <2>1. CASE IsFull(q)
    <3>1. enqueue(q, e).max = NewCapacity(q) /\ q.max < QueueMax /\ QueueMax \in Nat
      BY <1>1, <1>3, <2>1, QueueMaxAssumption DEF enqueue, Store, Extend, IsQueue, CannotExtend
    <3> QED
      BY <1>1, <3>1 DEF NewCapacity
  <2>2. CASE ~IsFull(q)
    BY <1>1, <2>2 DEF enqueue, Store
  <2> QED
    BY <2>1, <2>2
<1>4. ASSUME NEW e, ~IsFull(q) PROVE enqueue(q, e).max = q.max
  BY <1>4 DEF enqueue, Store
<1> QED
  BY <1>1, <1>2, <1>3, <1>4

\* Among any m entries from E, two are the same.
Fewer(E, m) == \A f \in [0 .. m - 1 -> E] : \E i, j \in 0 .. m - 1 : i # j /\ f[i] = f[j]

\* A full ring holds all but one of as many entries as it has slots.
LEMMA FullRing ==
  ASSUME NEW E, NEW q, IsQueue(q, E), NoEntryTwice(q), Members(q) \subseteq E, NEW e \in E, e \notin Members(q),
         Fewer(E, q.max)
  PROVE  ~IsFull(q)
<1> SUFFICES ASSUME IsFull(q) PROVE FALSE
  OBVIOUS
<1> DEFINE f == [i \in 0 .. q.max - 1 |-> IF i = q.front THEN e ELSE q.buf[i]]
<1>1. /\ q.max \in Nat \ {0} /\ q.rear \in 0 .. q.max - 1 /\ q.front \in 0 .. q.max - 1
  BY QueueMaxAssumption DEF IsQueue
<1>2. q.rear = IF q.front + 1 = q.max THEN 0 ELSE q.front + 1
  BY <1>1, NextIndex DEF IsFull
<1>3. \A i \in 0 .. q.max - 1 : i # q.front => i \in Window(q)
  BY <1>1, <1>2 DEF Window
<1>4. \A i \in 0 .. q.max - 1 : i # q.front => q.buf[i] \in Members(q)
  BY <1>3 DEF Members
<1>5. f \in [0 .. q.max - 1 -> E]
  BY <1>4
<1>6. \A i, j \in 0 .. q.max - 1 : f[i] = f[j] => i = j
  BY <1>3, <1>4 DEF NoEntryTwice
<1> HIDE DEF f
<1> QED
  BY <1>5, <1>6 DEF Fewer

\* A dequeue of a non-empty ring takes out the entry at rear, and only it.
THEOREM RemoveMembers ==
  ASSUME NEW E, NEW q, IsQueue(q, E), ~isEmpty(q), NoEntryTwice(q)
  PROVE  /\ IsQueue(RemoveOldest(q), E)
         /\ RearSlot(q) \in Members(q)
         /\ Members(RemoveOldest(q)) = Members(q) \ {RearSlot(q)}
         /\ NoEntryTwice(RemoveOldest(q))
<1>1. /\ IsQueue(RemoveOldest(q), E)
      /\ q.rear \in Window(q)
      /\ Window(RemoveOldest(q)) = Window(q) \ {q.rear}
      /\ \A i \in Window(RemoveOldest(q)) : RemoveOldest(q).buf[i] = q.buf[i]
  BY RemoveWindow
<1>2. RearSlot(q) \in Members(q)
  BY <1>1 DEF Members, RearSlot
<1>3. Members(RemoveOldest(q)) \subseteq Members(q) \ {RearSlot(q)}
  BY <1>1 DEF Members, RearSlot, NoEntryTwice
<1>4. Members(q) \ {RearSlot(q)} \subseteq Members(RemoveOldest(q))
  BY <1>1 DEF Members, RearSlot
<1>5. NoEntryTwice(RemoveOldest(q))
  BY <1>1 DEF NoEntryTwice
<1> QED
  BY <1>1, <1>2, <1>3, <1>4, <1>5

\* A new ring is empty and well formed.
LEMMA CreateMembers ==
  ASSUME NEW E, NEW n \in 1 .. QueueMax
  PROVE  /\ IsQueue(createArrayQueue(n), E)
         /\ Members(createArrayQueue(n)) = {}
         /\ NoEntryTwice(createArrayQueue(n))
<1> DEFINE s == createArrayQueue(n)
<1>1. /\ s.rear = 0 /\ s.front = 0 /\ s.max = n /\ s.size = 0
      /\ s.buf = [i \in 0 .. n - 1 |-> Uninit]
      /\ n \in Nat \ {0}
  BY QueueMaxAssumption DEF createArrayQueue
<1> HIDE DEF s
<1>2. Window(s) = {}
  BY <1>1 DEF Window
<1>3. IsQueue(s, E)
  BY <1>1 DEF IsQueue
<1> QED
  BY <1>2, <1>3 DEF Members, NoEntryTwice, s
=============================================================================
