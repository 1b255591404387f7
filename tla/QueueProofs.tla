----------------------------- MODULE QueueProofs ------------------------------
(*****************************************************************************)
(* The two queues between the threads, for every size and number of jobs.    *)
(* The ring of circular_queue.c holds its entries through enqueues, dequeues *)
(* and the growth forced by a full ring, and implements a FIFO queue that may*)
(* only lose entries; growth from an unwrapped ring loses none.  The job list*)
(* of bio.c processes jobs in submission order, exactly once, and the counter*)
(* bioPendingJobsOfType returns is 0 only when all of them are done.         *)
(*****************************************************************************)
EXTENDS CircularQueue, Bio, ArrayQueueProofs, FiniteSetTheorems

\* An index at most one lap ahead wraps once.
Wrapped(x, m) == IF x < m THEN x ELSE x - m

LEMMA Wrap ==
  ASSUME NEW m \in Nat \ {0}, NEW x \in Nat, x < m + m
  PROVE  x % m = Wrapped(x, m)
<1>1. CASE x < m
  BY <1>1 DEF Wrapped
<1>2. CASE x >= m
  <2>1. x - m \in 0 .. m-1 /\ x = 1 * m + (x - m)
    BY <1>2
  <2> QED
    BY <1>2, <2>1 DEF Wrapped
<1> QED
  BY <1>1, <1>2

\* The slot of the i-th entry of a ring.
Slot(r, i) == Wrapped(r.rear + i - 1, r.max)

\* How many entries a ring holds, and in which slot the i-th of them is.
LEMMA RingContent ==
  ASSUME NEW E, NEW r, IsQueue(r, E)
  PROVE  /\ Length(r) = IF r.rear <= r.front THEN r.front - r.rear
                                             ELSE r.front + r.max - r.rear
         /\ Length(r) \in 0 .. r.max - 1
         /\ Content(r) \in Seq(E \cup {NULL, Uninit})
         /\ Len(Content(r)) = Length(r)
         /\ \A i \in 1 .. Length(r) : /\ Slot(r, i) \in Window(r)
                                      /\ Content(r)[i] = r.buf[Slot(r, i)]
<1> DEFINE n == Length(r)
<1>1. /\ r.max \in Nat \ {0} /\ r.rear \in 0 .. r.max - 1
      /\ r.front \in 0 .. r.max - 1
      /\ r.buf \in [0 .. r.max - 1 -> E \cup {NULL, Uninit}]
  BY QueueMaxAssumption DEF IsQueue
<1>2. n = Wrapped(r.front + r.max - r.rear, r.max)
  <2> DEFINE x == r.front + r.max - r.rear
  <2>1. x \in Nat /\ x < r.max + r.max
    BY <1>1
  <2> HIDE DEF x
  <2>2. x % r.max = Wrapped(x, r.max)
    BY <1>1, <2>1, Wrap
  <2> QED
    BY <2>2 DEF Length, x
<1>3. Content(r) = [i \in 1 .. n |-> r.buf[(r.rear + i - 1) % r.max]]
  BY DEF Content, Length
<1> HIDE DEF n
<1>4. n = IF r.rear <= r.front THEN r.front - r.rear ELSE r.front + r.max - r.rear
  BY <1>1, <1>2 DEF Wrapped
<1>5. n \in 0 .. r.max - 1
  <2>1. CASE r.rear <= r.front
    BY <1>1, <1>4, <2>1
  <2>2. CASE ~ (r.rear <= r.front)
    BY <1>1, <1>4, <2>2
  <2> QED
    BY <2>1, <2>2
<1>6. ASSUME NEW i \in 1 .. n
      PROVE  (r.rear + i - 1) % r.max = Slot(r, i)
  <2> DEFINE x == r.rear + i - 1
  <2>1. x \in Nat /\ x < r.max + r.max
    BY <1>1, <1>5
  <2> HIDE DEF x
  <2>2. x % r.max = Wrapped(x, r.max)
    BY <1>1, <2>1, Wrap
  <2> QED
    BY <2>2 DEF Slot, x
<1>7. ASSUME NEW i \in 1 .. n
      PROVE  Slot(r, i) \in Window(r)
  <2> DEFINE x == Slot(r, i)
  <2>1. x = IF r.rear + i - 1 < r.max THEN r.rear + i - 1
                                      ELSE r.rear + i - 1 - r.max
    BY <1>1 DEF Slot, Wrapped
  <2> HIDE DEF x
  <2>2. /\ x \in 0 .. r.max - 1
        /\ IF r.rear <= r.front THEN r.rear <= x /\ x < r.front
                                ELSE r.rear <= x \/ x < r.front
    <3>1. CASE r.rear <= r.front
      <4>1. r.rear + i - 1 < r.front /\ i \in Nat /\ i >= 1
        BY <1>1, <1>4, <3>1
      <4> QED
        BY <1>1, <2>1, <3>1, <4>1
    <3>2. CASE r.rear > r.front
      <4>1. r.rear + i - 1 - r.max < r.front /\ i \in Nat /\ i >= 1
        BY <1>1, <1>4, <3>2
      <4>2. CASE r.rear + i - 1 < r.max
        BY <1>1, <2>1, <3>2, <4>1, <4>2
      <4>3. CASE ~ (r.rear + i - 1 < r.max)
        <5>1. x = r.rear + i - 1 - r.max
          BY <2>1, <4>3
        <5> QED
          BY <1>1, <3>2, <4>1, <4>3, <5>1
      <4> QED
        BY <4>2, <4>3
    <3> QED
      BY <1>1, <3>1, <3>2
  <2> QED
    BY <2>2 DEF Window, x
<1>8. Content(r) = [i \in 1 .. n |-> r.buf[Slot(r, i)]]
  BY <1>3, <1>6
<1>9. \A i \in 1 .. n : r.buf[Slot(r, i)] \in E \cup {NULL, Uninit}
  BY <1>1, <1>7 DEF Window
<1>10. Content(r) \in Seq(E \cup {NULL, Uninit}) /\ Len(Content(r)) = n
  BY <1>5, <1>8, <1>9
<1> QED
  BY <1>4, <1>5, <1>7, <1>8, <1>10 DEF n

\* Storing appends to the content.
LEMMA StoreContent ==
  ASSUME NEW E, NEW r, IsQueue(r, E), ~IsFull(r), NEW e \in E
  PROVE  /\ Content(Store(r, e)) = Append(Content(r), e)
         /\ Length(Store(r, e)) = Length(r) + 1
<1> DEFINE s == Store(r, e)
           n == Length(r)
<1>1. /\ IsQueue(s, E)
      /\ s.buf[r.front] = e
      /\ \A i \in Window(r) : s.buf[i] = r.buf[i]
  BY StoreWindow
<1>2. /\ r.max \in Nat \ {0} /\ r.rear \in 0 .. r.max - 1
      /\ r.front \in 0 .. r.max - 1
  BY QueueMaxAssumption DEF IsQueue
<1>3. Next1(r, r.front) = IF r.front + 1 = r.max THEN 0 ELSE r.front + 1
  BY <1>2, NextIndex
<1>4. /\ s.rear = r.rear /\ s.max = r.max
      /\ s.front = IF r.front + 1 = r.max THEN 0 ELSE r.front + 1
      /\ s.front # r.rear
  BY <1>3 DEF Store, IsFull
<1> HIDE DEF s
<1>5. /\ n = IF r.rear <= r.front THEN r.front - r.rear ELSE r.front + r.max - r.rear
      /\ n \in 0 .. r.max - 1
      /\ Content(r) \in Seq(E \cup {NULL, Uninit}) /\ Len(Content(r)) = n
      /\ \A i \in 1 .. n : /\ Slot(r, i) \in Window(r)
                           /\ Content(r)[i] = r.buf[Slot(r, i)]
  BY RingContent
<1>6. /\ Length(s) = IF s.rear <= s.front THEN s.front - s.rear ELSE s.front + s.max - s.rear
      /\ Content(s) \in Seq(E \cup {NULL, Uninit}) /\ Len(Content(s)) = Length(s)
      /\ \A i \in 1 .. Length(s) : Content(s)[i] = s.buf[Slot(s, i)]
  BY <1>1, RingContent
<1> HIDE DEF n
<1>a. n = IF r.rear <= r.front THEN r.front - r.rear ELSE r.front + r.max - r.rear
  BY <1>5
<1>b. Length(s) = IF r.rear <= s.front THEN s.front - r.rear ELSE s.front + r.max - r.rear
  BY <1>4, <1>6
<1>7. Length(s) = n + 1
  BY <1>2, <1>4, <1>a, <1>b
<1>8. Slot(s, n + 1) = r.front /\ \A i \in 1 .. n : Slot(s, i) = Slot(r, i)
  <2>1. \A i : Slot(s, i) = Slot(r, i)
    BY <1>4 DEF Slot
  <2>2. Slot(r, n + 1) = r.front
    BY <1>2, <1>a DEF Slot, Wrapped
  <2> QED
    BY <2>1, <2>2
<1>9. \A i \in 1 .. n : Content(s)[i] = Content(r)[i]
  <2> TAKE i \in 1 .. n
  <2>1. i \in 1 .. Length(s)
    BY <1>5, <1>7
  <2> QED
    BY <1>1, <1>5, <1>6, <1>8, <2>1
<1>10. Content(s)[n + 1] = e
  BY <1>1, <1>5, <1>6, <1>7, <1>8
<1>11. Content(s) = Append(Content(r), e)
  BY <1>5, <1>6, <1>7, <1>9, <1>10
<1> QED
  BY <1>7, <1>11 DEF s, n

\* Removing takes the first entry of the content.
LEMMA RemoveContent ==
  ASSUME NEW E, NEW r, IsQueue(r, E), ~isEmpty(r)
  PROVE  /\ Content(r) # << >>
         /\ Content(RemoveOldest(r)) = Tail(Content(r))
         /\ Head(Content(r)) = RearSlot(r)
         /\ Length(RemoveOldest(r)) = Length(r) - 1
<1> DEFINE s == RemoveOldest(r)
           n == Length(r)
<1>1. /\ IsQueue(s, E) /\ \A i \in Window(s) : s.buf[i] = r.buf[i]
  BY RemoveWindow
<1>2. /\ r.max \in Nat \ {0} /\ r.rear \in 0 .. r.max - 1
      /\ r.front \in 0 .. r.max - 1 /\ r.rear # r.front
  BY QueueMaxAssumption DEF IsQueue, isEmpty
<1>3. Next1(r, r.rear) = IF r.rear + 1 = r.max THEN 0 ELSE r.rear + 1
  BY <1>2, NextIndex
<1>4. /\ s.front = r.front /\ s.max = r.max
      /\ s.rear = IF r.rear + 1 = r.max THEN 0 ELSE r.rear + 1
  BY <1>3 DEF RemoveOldest
<1> HIDE DEF s
<1>5. /\ n = IF r.rear <= r.front THEN r.front - r.rear ELSE r.front + r.max - r.rear
      /\ n \in 0 .. r.max - 1
      /\ Content(r) \in Seq(E \cup {NULL, Uninit}) /\ Len(Content(r)) = n
      /\ \A i \in 1 .. n : Content(r)[i] = r.buf[Slot(r, i)]
  BY RingContent
<1>6. /\ Length(s) = IF s.rear <= s.front THEN s.front - s.rear ELSE s.front + s.max - s.rear
      /\ Content(s) \in Seq(E \cup {NULL, Uninit}) /\ Len(Content(s)) = Length(s)
      /\ \A i \in 1 .. Length(s) : /\ Slot(s, i) \in Window(s)
                                   /\ Content(s)[i] = s.buf[Slot(s, i)]
  BY <1>1, RingContent
<1> HIDE DEF n
<1>a. n = IF r.rear <= r.front THEN r.front - r.rear ELSE r.front + r.max - r.rear
  BY <1>5
<1>b. Length(s) = IF s.rear <= r.front THEN r.front - s.rear ELSE r.front + r.max - s.rear
  BY <1>4, <1>6
<1>7. Length(s) = n - 1 /\ n >= 1
  BY <1>2, <1>4, <1>a, <1>b
<1>8. ASSUME NEW i \in 1 .. n - 1 PROVE Slot(s, i) = Slot(r, i + 1)
  <2>1. Slot(s, i) = IF s.rear + i - 1 < r.max THEN s.rear + i - 1
                                               ELSE s.rear + i - 1 - r.max
    BY <1>2, <1>4 DEF Slot, Wrapped
  <2>2. Slot(r, i + 1) = IF r.rear + (i + 1) - 1 < r.max THEN r.rear + (i + 1) - 1
                                                         ELSE r.rear + (i + 1) - 1 - r.max
    BY <1>2 DEF Slot, Wrapped
  <2>3. i \in 1 .. r.max - 2
    BY <1>2, <1>a
  <2> QED
    BY <1>2, <1>4, <2>1, <2>2, <2>3
<1>9. Slot(r, 1) = r.rear
  BY <1>2 DEF Slot, Wrapped
<1>10. \A i \in 1 .. n - 1 : Content(s)[i] = Content(r)[i + 1]
  <2> TAKE i \in 1 .. n - 1
  <2>1. i \in 1 .. Length(s) /\ i + 1 \in 1 .. n
    BY <1>5, <1>7
  <2>2. Content(s)[i] = r.buf[Slot(s, i)]
    BY <1>1, <1>6, <2>1
  <2>3. Content(r)[i + 1] = r.buf[Slot(r, i + 1)]
    BY <1>5, <2>1
  <2> QED
    BY <1>8, <2>2, <2>3
<1>11. Content(s) = Tail(Content(r))
  BY <1>5, <1>6, <1>7, <1>10
<1>12. Head(Content(r)) = RearSlot(r)
  BY <1>5, <1>7, <1>9 DEF RearSlot
<1> QED
  BY <1>5, <1>7, <1>11, <1>12 DEF s, n

\* Growing keeps the entries that were stored before the buffer's last slot: a
\* prefix of the content, all of it when the ring starts at index 0.
LEMMA ExtendContent ==
  ASSUME NEW E, NEW r, IsQueue(r, E), IsFull(r), r.max # QueueMax
  PROVE  /\ Length(Extend(r)) = r.max - 1 - r.rear
         /\ Length(r) = r.max - 1
         /\ Content(Extend(r)) = [i \in 1 .. r.max - 1 - r.rear |-> Content(r)[i]]
<1> DEFINE s == Extend(r)
<1>1. /\ IsQueue(s, E) /\ \A i \in Window(s) : s.buf[i] = r.buf[i]
  BY ExtendWindow
<1>2. /\ r.max \in Nat \ {0} /\ r.rear \in 0 .. r.max - 1
      /\ r.front \in 0 .. r.max - 1
  BY QueueMaxAssumption DEF IsQueue
<1>3. r.rear = IF r.front + 1 = r.max THEN 0 ELSE r.front + 1
  BY <1>2, NextIndex DEF IsFull
<1>4. s.front = r.max - 1 /\ s.max = NewCapacity(r) /\ s.rear = r.rear % NewCapacity(r)
  BY DEF Extend
<1>5. NewCapacity(r) \in Nat \ {0} /\ r.max < NewCapacity(r)
  <2>1. QueueMax \in Nat /\ r.max < QueueMax
    BY QueueMaxAssumption DEF IsQueue
  <2> QED
    BY <1>2, <2>1 DEF NewCapacity
<1>6. s.rear = r.rear
  <2> DEFINE a == r.rear
             c == NewCapacity(r)
  <2>1. a \in Nat /\ c \in Nat \ {0} /\ a < c
    BY <1>2, <1>5
  <2> HIDE DEF a, c
  <2>2. a % c = a
    BY <2>1
  <2> QED
    BY <1>4, <2>2 DEF a, c
<1> HIDE DEF s
<1>7. /\ Length(r) = IF r.rear <= r.front THEN r.front - r.rear ELSE r.front + r.max - r.rear
      /\ \A i \in 1 .. Length(r) : Content(r)[i] = r.buf[Slot(r, i)]
  BY RingContent
<1>8. /\ Length(s) = IF s.rear <= s.front THEN s.front - s.rear ELSE s.front + s.max - s.rear
      /\ Content(s) \in Seq(E \cup {NULL, Uninit}) /\ Len(Content(s)) = Length(s)
      /\ \A i \in 1 .. Length(s) : /\ Slot(s, i) \in Window(s)
                                   /\ Content(s)[i] = s.buf[Slot(s, i)]
  BY <1>1, RingContent
<1>9. Length(s) = r.max - 1 - r.rear
  BY <1>2, <1>4, <1>6, <1>8
<1>10. Length(r) = r.max - 1
  BY <1>2, <1>3, <1>7
<1>11. ASSUME NEW i \in 1 .. Length(s)
       PROVE  Content(s)[i] = Content(r)[i]
  <2>1. i \in 1 .. r.max - 1 - r.rear /\ i \in 1 .. Length(r) /\ i \in Nat
    BY <1>2, <1>9, <1>10
  <2>2. Slot(s, i) = r.rear + i - 1
    <3>1. r.rear + i - 1 < s.max
      BY <1>2, <1>4, <1>5, <2>1
    <3> QED
      BY <3>1, <1>6 DEF Slot, Wrapped
  <2>3. Slot(r, i) = r.rear + i - 1
    <3>1. r.rear + i - 1 < r.max
      BY <1>2, <2>1
    <3> QED
      BY <3>1 DEF Slot, Wrapped
  <2> QED
    BY <1>1, <1>7, <1>8, <2>1, <2>2, <2>3
<1>12. Content(s) = [i \in 1 .. Length(s) |-> Content(r)[i]]
  BY <1>8, <1>11
<1> QED
  BY <1>9, <1>10, <1>12 DEF s

\* The instance of FifoQueue counts as this module does.
LEMMA SameCardinality ==
  ASSUME NEW S
  PROVE  Abstract!Cardinality(S) = Cardinality(S)
BY Zenon DEF Abstract!Cardinality, Cardinality, Abstract!IsFiniteSet, IsFiniteSet

\* The first k positions of a sequence are its prefix of length k.
LEMMA KeptPrefix ==
  ASSUME NEW s, NEW k \in Nat
  PROVE  Abstract!Kept(s, 1 .. k) = [i \in 1 .. k |-> s[i]]
<1>1. Abstract!Cardinality(1 .. k) = k
  BY FS_Interval, SameCardinality
<1>2. ASSUME NEW i \in 1 .. k
      PROVE  Abstract!Cardinality({j \in 1 .. k : j < i}) = i - 1
  <2>1. {j \in 1 .. k : j < i} = 1 .. (i - 1)
    OBVIOUS
  <2>2. Abstract!Cardinality(1 .. (i - 1)) = i - 1
    BY FS_Interval, SameCardinality
  <2> QED
    BY <2>1, <2>2
<1> DEFINE at(n) == CHOOSE i \in 1 .. k : Abstract!Cardinality({j \in 1 .. k : j < i}) = n - 1
<1>3. ASSUME NEW n \in 1 .. k
      PROVE  at(n) = n
  <2>1. \A i \in 1 .. k : Abstract!Cardinality({j \in 1 .. k : j < i}) = n - 1 <=> i = n
    BY <1>2
  <2> QED
    BY <2>1
<1>4. Abstract!Kept(s, 1 .. k) = [n \in 1 .. k |-> s[at(n)]]
  <2>1. Abstract!Kept(s, 1 .. k) = [n \in 1 .. Abstract!Cardinality(1 .. k) |-> s[at(n)]]
    BY DEF Abstract!Kept
  <2> QED
    BY <1>1, <2>1
<1> HIDE DEF at
<1> QED
  BY <1>3, <1>4

\* enqueue keeps some prefix of the content and appends its entry; the size
\* counts what it left behind.
LEMMA EnqueueContent ==
  ASSUME NEW E, NEW r, IsQueue(r, E), ~CannotExtend(r), Members(r) \subseteq E, NEW e \in E
  PROVE  /\ IsQueue(enqueue(r, e), E)
         /\ Members(enqueue(r, e)) \subseteq E
         /\ Length(r) \in Nat /\ Length(enqueue(r, e)) \in Nat
         /\ Length(enqueue(r, e)) <= Length(r) + 1
         /\ enqueue(r, e).size = r.size + 1
         /\ \E k \in 0 .. Length(r) :
               /\ Content(enqueue(r, e)) = Append([i \in 1 .. k |-> Content(r)[i]], e)
               /\ r.rear = 0 \/ ~IsFull(r) => k = Length(r)
<1> DEFINE g == IF IsFull(r) THEN Extend(r) ELSE r
<1>1. enqueue(r, e) = Store(g, e)
  BY DEF enqueue
<1>2. /\ Length(r) \in Nat /\ Len(Content(r)) = Length(r)
      /\ Content(r) \in Seq(E \cup {NULL, Uninit})
  <2>1. /\ Length(r) \in 0 .. r.max - 1 /\ Len(Content(r)) = Length(r)
        /\ Content(r) \in Seq(E \cup {NULL, Uninit})
    BY RingContent
  <2> QED
    BY <2>1
<1>3. /\ IsQueue(g, E) /\ ~IsFull(g) /\ Window(g) \subseteq Window(r)
      /\ \A i \in Window(g) : g.buf[i] = r.buf[i]
      /\ g.size = r.size
  <2>1. CASE IsFull(r)
    BY <2>1, ExtendWindow DEF CannotExtend, Extend
  <2>2. CASE ~IsFull(r)
    BY <2>2
  <2> QED
    BY <2>1, <2>2
<1>4. \E k \in 0 .. Length(r) :
         /\ Content(g) = [i \in 1 .. k |-> Content(r)[i]]
         /\ Length(g) = k
         /\ r.rear = 0 \/ ~IsFull(r) => k = Length(r)
  <2>1. CASE IsFull(r)
    <3> DEFINE k == r.max - 1 - r.rear
    <3>1. /\ Length(g) = k /\ Length(r) = r.max - 1
          /\ Content(g) = [i \in 1 .. k |-> Content(r)[i]]
      BY <2>1, ExtendContent DEF CannotExtend
    <3>2. k \in 0 .. Length(r) /\ (r.rear = 0 => k = Length(r))
      BY <3>1, QueueMaxAssumption DEF IsQueue
    <3> QED
      BY <2>1, <3>1, <3>2
  <2>2. CASE ~IsFull(r)
    <3>1. Content(g) = [i \in 1 .. Length(r) |-> Content(r)[i]]
      BY <1>2, <2>2
    <3> QED
      BY <1>2, <2>2, <3>1
  <2> QED
    BY <2>1, <2>2
<1> HIDE DEF g
<1>5. PICK k \in 0 .. Length(r) :
         /\ Content(g) = [i \in 1 .. k |-> Content(r)[i]]
         /\ Length(g) = k
         /\ r.rear = 0 \/ ~IsFull(r) => k = Length(r)
  BY <1>4
<1>6. /\ IsQueue(Store(g, e), E)
      /\ Window(Store(g, e)) = Window(g) \cup {g.front}
      /\ Store(g, e).buf[g.front] = e
      /\ \A i \in Window(g) : Store(g, e).buf[i] = g.buf[i]
  BY <1>3, StoreWindow
<1>7. /\ Content(Store(g, e)) = Append(Content(g), e)
      /\ Length(Store(g, e)) = Length(g) + 1
  BY <1>3, StoreContent
<1>8. Store(g, e).size = r.size + 1
  BY <1>3 DEF Store
<1>9. Members(Store(g, e)) \subseteq E
  BY <1>3, <1>6 DEF Members
<1>10. Length(g) <= Length(r) /\ Length(g) \in Nat
  BY <1>2, <1>5
<1> QED
  BY <1>1, <1>2, <1>5, <1>6, <1>7, <1>8, <1>9, <1>10

\* A dequeue takes the oldest entry, and NULL only from an empty ring.
LEMMA DequeueContent ==
  ASSUME NEW r, IsQueue(r, Entries), Members(r) \subseteq Entries
  PROVE  /\ isEmpty(r) <=> Content(r) = << >>
         /\ ~isEmpty(r) => /\ RearSlot(r) \in Entries /\ RearSlot(r) # NULL
                           /\ Content(RemoveOldest(r)) = Tail(Content(r))
                           /\ Head(Content(r)) = RearSlot(r)
                           /\ Length(RemoveOldest(r)) = Length(r) - 1
                           /\ RemoveOldest(r).size = r.size - 1
                           /\ IsQueue(RemoveOldest(r), Entries)
                           /\ Members(RemoveOldest(r)) \subseteq Entries
<1>1. CASE isEmpty(r)
  <2>1. /\ Length(r) = IF r.rear <= r.front THEN r.front - r.rear ELSE r.front + r.max - r.rear
        /\ Len(Content(r)) = Length(r) /\ Content(r) \in Seq(Entries \cup {NULL, Uninit})
    BY RingContent
  <2>2. Length(r) = 0
    BY <1>1, <2>1 DEF isEmpty, IsQueue
  <2>3. Content(r) = << >>
    BY <2>1, <2>2
  <2> QED
    BY <1>1, <2>3
<1>2. CASE ~isEmpty(r)
  <2>1. /\ Content(r) # << >>
        /\ Content(RemoveOldest(r)) = Tail(Content(r))
        /\ Head(Content(r)) = RearSlot(r)
        /\ Length(RemoveOldest(r)) = Length(r) - 1
    BY <1>2, RemoveContent
  <2>2. /\ IsQueue(RemoveOldest(r), Entries)
        /\ r.rear \in Window(r)
        /\ Window(RemoveOldest(r)) = Window(r) \ {r.rear}
        /\ \A i \in Window(RemoveOldest(r)) : RemoveOldest(r).buf[i] = r.buf[i]
    BY <1>2, RemoveWindow
  <2>3. RearSlot(r) \in Entries /\ RearSlot(r) # NULL
    BY <2>2, EntriesAssumption DEF Members, RearSlot
  <2>4. Members(RemoveOldest(r)) \subseteq Entries
    BY <2>2 DEF Members
  <2>5. RemoveOldest(r).size = r.size - 1
    BY DEF RemoveOldest
  <2> QED
    BY <1>2, <2>1, <2>2, <2>3, <2>4, <2>5
<1> QED
  BY <1>1, <1>2

\* initializeQueue leaves an empty ring, and in size the entries of a wrapped
\* one.
LEMMA ResetContent ==
  ASSUME NEW r, IsQueue(r, Entries)
  PROVE  /\ IsQueue(initializeQueue(r), Entries)
         /\ Members(initializeQueue(r)) = {}
         /\ Content(initializeQueue(r)) = << >>
         /\ Length(initializeQueue(r)) = 0
         /\ Length(r) \in Nat
         /\ initializeQueue(r).max = r.max
         /\ initializeQueue(r).size = IF r.rear <= r.front THEN r.size - Length(r)
                                                          ELSE r.size
<1> DEFINE s == initializeQueue(r)
<1>1. /\ r.max \in Nat \ {0} /\ r.rear \in 0 .. r.max - 1 /\ r.max \in 1 .. QueueMax
      /\ r.front \in 0 .. r.max - 1 /\ r.size \in Int
      /\ r.buf \in [0 .. r.max - 1 -> Entries \cup {NULL, Uninit}]
  BY QueueMaxAssumption DEF IsQueue
<1>2. /\ Length(r) = IF r.rear <= r.front THEN r.front - r.rear ELSE r.front + r.max - r.rear
      /\ Length(r) \in 0 .. r.max - 1
  BY RingContent
<1>3. /\ s.rear = 0 /\ s.front = 0 /\ s.max = r.max
      /\ s.size = IF r.rear <= r.front THEN r.size - (r.front - r.rear) ELSE r.size
      /\ s.buf = [i \in 0 .. r.max - 1 |->
                   IF r.rear <= r.front /\ i \in Window(r) THEN NULL ELSE r.buf[i]]
  BY DEF initializeQueue
<1> HIDE DEF s
<1>4. s.buf \in [0 .. s.max - 1 -> Entries \cup {NULL, Uninit}]
  BY <1>1, <1>3
<1>5. IsQueue(s, Entries)
  BY <1>1, <1>3, <1>4 DEF IsQueue
<1>6. Window(s) = {}
  BY <1>1, <1>3 DEF Window
<1>7. /\ Length(s) = IF s.rear <= s.front THEN s.front - s.rear ELSE s.front + s.max - s.rear
      /\ Len(Content(s)) = Length(s) /\ Content(s) \in Seq(Entries \cup {NULL, Uninit})
  BY <1>5, RingContent
<1>8. Length(s) = 0
  BY <1>3, <1>7
<1>9. Content(s) = << >>
  BY <1>7, <1>8
<1> QED
  BY <1>1, <1>2, <1>3, <1>5, <1>6, <1>8, <1>9 DEF Members, s

LEMMA RingInit == Init => RingHoldsEntries
<1> SUFFICES ASSUME Init PROVE RingHoldsEntries
  OBVIOUS
<1>1. Capacity \in 1 .. QueueMax /\ q = createArrayQueue(Capacity)
  BY CapacityAssumption, QueueMaxAssumption DEF Init
<1>2. IsQueue(q, Entries) /\ Members(q) = {}
  BY <1>1, CreateMembers
<1>3. q.rear = 0 /\ q.front = 0 /\ q.size = 0
  BY <1>1 DEF createArrayQueue
<1>4. Length(q) = IF q.rear <= q.front THEN q.front - q.rear ELSE q.front + q.max - q.rear
  BY <1>2, RingContent
<1>5. Length(q) = 0
  BY <1>3, <1>4
<1>6. dropped = 0 /\ crashed = FALSE
  BY DEF Init
<1>7. q.size = Length(q) + dropped
  BY <1>3, <1>5, <1>6
<1> QED
  BY <1>2, <1>6, <1>7 DEF RingHoldsEntries, TypeOK, WindowHoldsEntries, SizeCountsDropped

LEMMA RingNext == RingHoldsEntries /\ [Next]_vars => RingHoldsEntries'
<1> SUFFICES ASSUME RingHoldsEntries, [Next]_vars PROVE RingHoldsEntries'
  OBVIOUS
<1> USE DEF RingHoldsEntries, TypeOK, WindowHoldsEntries, SizeCountsDropped
<1>1. Length(q) \in Nat /\ q.size = Length(q) + dropped /\ dropped \in Nat
  <2>1. Length(q) \in 0 .. q.max - 1
    BY RingContent
  <2> QED
    BY <2>1
<1>2. ASSUME NEW e \in Entries, Enqueue(e) PROVE RingHoldsEntries'
  <2>1. CASE CannotExtend(q)
    BY <1>2, <2>1 DEF Enqueue
  <2>2. CASE ~CannotExtend(q)
    <3>1. q' = enqueue(q, e) /\ dropped' = dropped + Length(q) + 1 - Length(q')
          /\ crashed' = crashed
      BY <1>2, <2>2 DEF Enqueue
    <3>2. /\ IsQueue(q', Entries) /\ Members(q') \subseteq Entries
          /\ Length(q') \in Nat /\ Length(q') <= Length(q) + 1
          /\ q'.size = q.size + 1
      BY <2>2, <3>1, EnqueueContent
    <3>3. dropped' \in Nat /\ q'.size = Length(q') + dropped'
      BY <1>1, <3>1, <3>2
    <3> QED
      BY <3>1, <3>2, <3>3
  <2> QED
    BY <2>1, <2>2
<1>3. ASSUME isEmpty(q) \/ q' # RemoveOldest(q) => q' = q,
             UNCHANGED <<dropped, crashed>>
      PROVE  RingHoldsEntries'
  <2>1. CASE q' = q
    BY <1>3, <2>1
  <2>2. CASE q' # q
    <3>1. ~isEmpty(q) /\ q' = RemoveOldest(q)
      BY <1>3, <2>2
    <3>2. /\ IsQueue(q', Entries) /\ Members(q') \subseteq Entries
          /\ Length(q') = Length(q) - 1 /\ q'.size = q.size - 1
      BY <3>1, DequeueContent
    <3>3. q'.size = Length(q') + dropped'
      BY <1>1, <1>3, <3>2
    <3> QED
      BY <1>3, <3>2, <3>3
  <2> QED
    BY <2>1, <2>2
<1>4. CASE Dequeue
  BY <1>3, <1>4 DEF Dequeue, dequeue, dequeueResult
<1>5. CASE ForceDequeue
  <2>1. forceDequeueAsserts(q)
    BY DequeueContent DEF forceDequeueAsserts
  <2> QED
    BY <1>3, <1>5, <2>1 DEF ForceDequeue, forceDequeue
<1>6. CASE InitializeQueue
  <2>1. /\ q' = initializeQueue(q) /\ crashed' = crashed
        /\ dropped' = IF q.rear <= q.front THEN dropped ELSE dropped + Length(q)
    BY <1>6 DEF InitializeQueue
  <2>2. /\ IsQueue(q', Entries) /\ Members(q') = {} /\ Length(q') = 0
        /\ q'.size = IF q.rear <= q.front THEN q.size - Length(q) ELSE q.size
    BY <2>1, ResetContent
  <2>3. dropped' \in Nat /\ q'.size = Length(q') + dropped'
    BY <1>1, <2>1, <2>2
  <2> QED
    BY <2>1, <2>2, <2>3
<1>7. CASE UNCHANGED vars
  BY <1>7 DEF vars
<1> QED
  BY <1>2, <1>4, <1>5, <1>6, <1>7 DEF Next

\* For every capacity and every order of calls, the ring of circular_queue.c
\* has only stored entries between rear and front, and its size is their
\* number plus those that growing or resetting the ring left behind.
THEOREM RingIsSound == Spec => []RingHoldsEntries
<1> QED
  BY RingInit, RingNext, PTL DEF Spec

\* A ring that grows when its first entry is in slot 0 loses none.
THEOREM GrowthKeepsAll == Spec => GrowthFromBaseKeepsAll
<1> DEFINE A == (q'.max > q.max /\ q.rear = 0) =>
                   SubSeq(Content(q'), 1, Len(Content(q'))-1) = Content(q)
<1>1. RingHoldsEntries /\ [Next]_vars => [A]_vars
  <2> SUFFICES ASSUME RingHoldsEntries, Next, q'.max > q.max, q.rear = 0
               PROVE  SubSeq(Content(q'), 1, Len(Content(q'))-1) = Content(q)
    BY DEF vars
  <2>1. IsQueue(q, Entries) /\ Members(q) \subseteq Entries /\ q.max \in Nat
    BY QueueMaxAssumption DEF RingHoldsEntries, TypeOK, WindowHoldsEntries, IsQueue
  <2>2. ~(q'.max = q.max)
    BY <2>1
  <2>3. PICK e \in Entries : Enqueue(e)
    <3>1. RemoveOldest(q).max = q.max
      BY DEF RemoveOldest
    <3>2. ~Dequeue
      BY <2>2, <3>1 DEF Dequeue, dequeue
    <3>3. ~ForceDequeue
      BY <2>2, <3>1 DEF ForceDequeue, forceDequeue
    <3>4. ~InitializeQueue
      BY <2>1, <2>2, ResetContent DEF InitializeQueue
    <3> QED
      BY <3>2, <3>3, <3>4 DEF Next
  <2>4. ~CannotExtend(q) /\ q' = enqueue(q, e)
    BY <2>2, <2>3 DEF Enqueue
  <2>5. PICK k \in 0 .. Length(q) :
          /\ Content(q') = Append([i \in 1 .. k |-> Content(q)[i]], e)
          /\ k = Length(q)
    BY <2>1, <2>4, EnqueueContent
  <2>6. /\ Length(q) \in Nat /\ Len(Content(q)) = Length(q)
        /\ Content(q) \in Seq(Entries \cup {NULL, Uninit})
    <3>1. /\ Length(q) \in 0 .. q.max - 1 /\ Len(Content(q)) = Length(q)
          /\ Content(q) \in Seq(Entries \cup {NULL, Uninit})
      BY <2>1, RingContent
    <3> QED
      BY <3>1
  <2>7. Content(q') = Append(Content(q), e)
    <3>1. [i \in 1 .. k |-> Content(q)[i]] = Content(q)
      BY <2>5, <2>6
    <3> QED
      BY <2>5, <3>1
  <2> QED
    <3> DEFINE c == Content(q)
               S == Entries \cup {NULL, Uninit}
    <3>1. c \in Seq(S) /\ e \in S /\ Content(q') = Append(c, e)
      BY <2>6, <2>7
    <3> HIDE DEF c, S
    <3>2. SubSeq(Append(c, e), 1, Len(Append(c, e)) - 1) = c
      BY <3>1
    <3> QED
      BY <3>1, <3>2 DEF c
<1> QED
  BY <1>1, RingIsSound, PTL DEF Spec, GrowthFromBaseKeepsAll

AbstractNext ==
  (\E e \in Entries : Abstract!LossyPut(e)) \/ Abstract!Take \/ Abstract!Clear

LEMMA LossyInit == Init => Abstract!Init
<1> SUFFICES ASSUME Init PROVE Abstract!Init
  OBVIOUS
<1>1. q.rear = 0 /\ q.front = 0
  BY DEF Init, createArrayQueue
<1>2. IsQueue(q, Entries) /\ Members(q) \subseteq Entries
  BY RingInit DEF RingHoldsEntries, TypeOK, WindowHoldsEntries
<1>3. Content(q) = << >>
  BY <1>1, <1>2, DequeueContent DEF isEmpty
<1> QED
  BY <1>3 DEF Init, Abstract!Init

LEMMA LossyStep == RingHoldsEntries /\ [Next]_vars => [AbstractNext]_Abstract!vars
<1> SUFFICES ASSUME RingHoldsEntries, [Next]_vars PROVE [AbstractNext]_Abstract!vars
  OBVIOUS
<1>1. IsQueue(q, Entries) /\ Members(q) \subseteq Entries
  BY DEF RingHoldsEntries, TypeOK, WindowHoldsEntries
<1>2. ASSUME q' = q, last' = last PROVE [AbstractNext]_Abstract!vars
  BY <1>2 DEF Abstract!vars
<1>3. ASSUME NEW e \in Entries, Enqueue(e) PROVE [AbstractNext]_Abstract!vars
  <2>1. CASE CannotExtend(q)
    BY <1>2, <1>3, <2>1 DEF Enqueue
  <2>2. CASE ~CannotExtend(q)
    <3>1. q' = enqueue(q, e) /\ last' = <<"put", e>>
      BY <1>3, <2>2 DEF Enqueue
    <3>2. PICK k \in 0 .. Length(q) :
            Content(q') = Append([i \in 1 .. k |-> Content(q)[i]], e)
      BY <1>1, <2>2, <3>1, EnqueueContent
    <3>3. Length(q) \in 0 .. q.max - 1 /\ Len(Content(q)) = Length(q)
      BY <1>1, RingContent
    <3>4. k \in Nat /\ 1 .. k \in SUBSET (1 .. Len(Content(q)))
      BY <3>2, <3>3
    <3>5. Abstract!Kept(Content(q), 1 .. k) = [i \in 1 .. k |-> Content(q)[i]]
      BY <3>4, KeptPrefix
    <3>6. Abstract!LossyPut(e)
      BY <3>1, <3>2, <3>4, <3>5 DEF Abstract!LossyPut
    <3> QED
      BY <3>6 DEF AbstractNext
  <2> QED
    BY <2>1, <2>2
<1>4. ASSUME IF isEmpty(q) THEN q' = q /\ last' = <<"take", NULL>>
                           ELSE q' = RemoveOldest(q) /\ last' = <<"take", RearSlot(q)>>
      PROVE  [AbstractNext]_Abstract!vars
  <2>1. Abstract!Take
    BY <1>1, <1>4, DequeueContent DEF Abstract!Take
  <2> QED
    BY <2>1 DEF AbstractNext
<1>5. CASE Dequeue
  BY <1>1, <1>4, <1>5, DequeueContent DEF Dequeue, dequeue, dequeueResult
<1>6. CASE ForceDequeue
  BY <1>1, <1>4, <1>6, DequeueContent
     DEF ForceDequeue, forceDequeue, forceDequeueAsserts
<1>7. CASE InitializeQueue
  <2>1. Abstract!Clear
    BY <1>1, <1>7, ResetContent DEF InitializeQueue, Abstract!Clear
  <2> QED
    BY <2>1 DEF AbstractNext
<1>8. CASE UNCHANGED vars
  BY <1>2, <1>8 DEF vars
<1> QED
  BY <1>3, <1>5, <1>6, <1>7, <1>8 DEF Next

\* The ring implements the lossy queue: whatever the capacity and the order of
\* calls, what it keeps leaves in the order it came, and a dequeue returns NULL
\* only when nothing is left.
THEOREM RingIsLossyFifo == Spec => ImplementsLossy
<1> QED
  BY LossyInit, LossyStep, RingIsSound, PTL
     DEF Spec, ImplementsLossy, Abstract!LossySpec, AbstractNext

-----------------------------------------------------------------------------
LEMMA InitListInv == BioInit => ListInv
  BY DEF BioInit, ListInv, BioTypeOK, ProcessedInOrder, NeverSleepsOnWork, Retiring,
         WorkerStates, WaiterStates

\* A job enters at the tail with the next number.
LEMMA CreateListInv == ListInv /\ bioCreateBackgroundJob => ListInv'
<1> SUFFICES ASSUME ListInv, bioCreateBackgroundJob PROVE ListInv'
  OBVIOUS
<1>1. /\ bio_jobs \in Seq(Nat) /\ submitted \in Nat /\ submitted' = submitted + 1
      /\ Len(bio_jobs) <= submitted
      /\ bio_jobs' = Append(bio_jobs, submitted')
      /\ \A i \in 1 .. Len(bio_jobs) :
            bio_jobs[i] = submitted - Len(bio_jobs) + i
  BY DEF ListInv, BioTypeOK, bioCreateBackgroundJob
<1>2. /\ bio_jobs' \in Seq(Nat) /\ Len(bio_jobs') = Len(bio_jobs) + 1
      /\ \A i \in 1 .. Len(bio_jobs) : bio_jobs'[i] = bio_jobs[i]
      /\ bio_jobs'[Len(bio_jobs) + 1] = submitted'
      /\ Len(bio_jobs) \in Nat
  BY <1>1
<1>3. \A i \in 1 .. Len(bio_jobs') :
         bio_jobs'[i] = submitted' - Len(bio_jobs') + i
  <2> SUFFICES ASSUME NEW i \in 1 .. Len(bio_jobs')
               PROVE  bio_jobs'[i] = submitted' - Len(bio_jobs') + i
    OBVIOUS
  <2>1. i \in 1 .. Len(bio_jobs) \/ i = Len(bio_jobs) + 1
    BY <1>2
  <2> QED
    BY <2>1, <1>1, <1>2
<1>4. /\ worker \in WorkerStates
      /\ worker' = IF worker = "sleeping" THEN "locking" ELSE worker
      /\ worker' # "sleeping" /\ Retiring' = Retiring
  BY DEF ListInv, BioTypeOK, bioCreateBackgroundJob, Retiring
<1>5. BioTypeOK'
  BY <1>1, <1>2, <1>4
  DEF ListInv, BioTypeOK, bioCreateBackgroundJob, WorkerStates
<1>6. Len(processed') = submitted' - Len(bio_jobs') + Retiring'
  <2>1. /\ Len(processed) = submitted - Len(bio_jobs) + Retiring
        /\ processed' = processed /\ Retiring \in Nat
    BY DEF ListInv, bioCreateBackgroundJob, Retiring
  <2> QED
    BY <2>1, <1>1, <1>2, <1>4
<1>7. bio_pending' = Len(bio_jobs') /\ Len(bio_jobs') <= submitted'
  BY <1>1, <1>2 DEF ListInv, bioCreateBackgroundJob
<1>8. bio_jobs' # << >>
  BY <1>2
<1>9. ProcessedInOrder'
  BY DEF ListInv, ProcessedInOrder, bioCreateBackgroundJob
<1> QED
  BY <1>3, <1>4, <1>5, <1>6, <1>7, <1>8, <1>9 DEF ListInv, NeverSleepsOnWork

\* The job at the head of the list is the next number to process.
LEMMA ProcessListInv == ListInv /\ WorkerProcess => ListInv'
<1> SUFFICES ASSUME ListInv, WorkerProcess PROVE ListInv'
  OBVIOUS
<1>1. /\ bio_jobs \in Seq(Nat) /\ processed \in Seq(Nat) /\ submitted \in Nat
      /\ bio_jobs # << >>
      /\ \A i \in 1 .. Len(bio_jobs) :
            bio_jobs[i] = submitted - Len(bio_jobs) + i
      /\ Len(processed) = submitted - Len(bio_jobs)
      /\ \A i \in 1 .. Len(processed) : processed[i] = i
      /\ processed' = Append(processed, Head(bio_jobs))
  BY DEF ListInv, BioTypeOK, WorkerProcess, ProcessedInOrder, Retiring
<1>2. Len(bio_jobs) \in Nat \ {0} /\ Head(bio_jobs) = bio_jobs[1]
  BY <1>1
<1>3. Head(bio_jobs) = Len(processed) + 1 /\ Len(processed) \in Nat
  BY <1>1, <1>2
<1>4. /\ processed' \in Seq(Nat) /\ Len(processed') = Len(processed) + 1
      /\ \A i \in 1 .. Len(processed) : processed'[i] = processed[i]
      /\ processed'[Len(processed) + 1] = Len(processed) + 1
  <2> DEFINE n == Len(processed) + 1
  <2>1. processed \in Seq(Nat) /\ n \in Nat /\ processed' = Append(processed, n)
    BY <1>1, <1>3
  <2> HIDE DEF n
  <2>2. /\ processed' \in Seq(Nat) /\ Len(processed') = Len(processed) + 1
        /\ \A i \in 1 .. Len(processed) : processed'[i] = processed[i]
        /\ processed'[Len(processed) + 1] = n
    BY <2>1
  <2> QED
    BY <2>2 DEF n
<1>5. ProcessedInOrder'
  <2> SUFFICES ASSUME NEW i \in 1 .. Len(processed') PROVE processed'[i] = i
    BY DEF ProcessedInOrder
  <2>1. i \in 1 .. Len(processed) \/ i = Len(processed) + 1
    BY <1>3, <1>4
  <2> QED
    BY <2>1, <1>1, <1>4
<1>6. Len(processed') = submitted' - Len(bio_jobs') + Retiring'
  BY <1>1, <1>2, <1>4 DEF WorkerProcess, Retiring
<1>7. BioTypeOK'
  BY <1>4 DEF ListInv, BioTypeOK, WorkerProcess, WorkerStates
<1> QED
  BY <1>1, <1>5, <1>6, <1>7 DEF ListInv, WorkerProcess, NeverSleepsOnWork

\* The processed node leaves the list and the counter follows.
LEMMA RetireListInv == ListInv /\ WorkerRetire => ListInv'
<1> SUFFICES ASSUME ListInv, WorkerRetire PROVE ListInv'
  OBVIOUS
<1>1. /\ bio_jobs \in Seq(Nat) /\ processed \in Seq(Nat) /\ submitted \in Nat
      /\ bio_jobs # << >> /\ Len(bio_jobs) <= submitted
      /\ \A i \in 1 .. Len(bio_jobs) :
            bio_jobs[i] = submitted - Len(bio_jobs) + i
      /\ Len(processed) = submitted - Len(bio_jobs) + 1
      /\ bio_jobs' = Tail(bio_jobs)
      /\ submitted' = submitted /\ processed' = processed
      /\ bio_pending = Len(bio_jobs) /\ bio_pending' = bio_pending - 1
  BY DEF ListInv, BioTypeOK, WorkerRetire, Retiring
<1>2. /\ Len(bio_jobs) \in Nat \ {0}
      /\ bio_jobs' \in Seq(Nat) /\ Len(bio_jobs') = Len(bio_jobs) - 1
      /\ \A i \in 1 .. Len(bio_jobs') : bio_jobs'[i] = bio_jobs[i + 1]
  BY <1>1
<1>3. \A i \in 1 .. Len(bio_jobs') :
         bio_jobs'[i] = submitted' - Len(bio_jobs') + i
  <2> SUFFICES ASSUME NEW i \in 1 .. Len(bio_jobs')
               PROVE  bio_jobs'[i] = submitted' - Len(bio_jobs') + i
    OBVIOUS
  <2>1. i + 1 \in 1 .. Len(bio_jobs)
    BY <1>2
  <2> QED
    BY <2>1, <1>1, <1>2
<1>4. /\ worker' = IF bio_jobs' = << >> THEN "sleeping" ELSE "processing"
      /\ Retiring' = 0
  BY DEF WorkerRetire, LoopHead, Retiring
<1>5. BioTypeOK'
  <2>1. bio_pending' \in Nat /\ worker' \in WorkerStates
    BY <1>1, <1>2, <1>4 DEF WorkerStates
  <2> QED
    BY <1>2, <2>1 DEF ListInv, BioTypeOK, WorkerRetire
<1>6. /\ bio_pending' = Len(bio_jobs') /\ Len(bio_jobs') <= submitted'
      /\ Len(processed') = submitted' - Len(bio_jobs') + Retiring'
  BY <1>1, <1>2, <1>4
<1>7. ProcessedInOrder'
  BY DEF ListInv, ProcessedInOrder, WorkerRetire
<1> QED
  BY <1>3, <1>4, <1>5, <1>6, <1>7 DEF ListInv, NeverSleepsOnWork

\* A step that leaves the list, its counter and the history alone keeps the
\* invariant when the states of the threads stay consistent with the list.
LEMMA QuietListInv ==
  ASSUME ListInv, BioTypeOK',
         UNCHANGED <<bio_jobs, bio_pending, submitted, processed>>,
         Retiring' = Retiring,
         worker' \in {"processing", "processed", "retiring"} => bio_jobs # << >>,
         worker' = "sleeping" => bio_jobs = << >>
  PROVE  ListInv'
  BY DEF ListInv, ProcessedInOrder, NeverSleepsOnWork

LEMMA NextListInv == ListInv /\ [BioNext]_bioJobVars => ListInv'
<1> SUFFICES ASSUME ListInv, [BioNext]_bioJobVars PROVE ListInv'
  OBVIOUS
<1> USE DEF WorkerStates, WaiterStates
<1>1. CASE bioCreateBackgroundJob
  BY <1>1, CreateListInv
<1>2. CASE WorkerStart
  <2>1. BioTypeOK'
    BY <1>2 DEF ListInv, BioTypeOK, WorkerStart, LoopHead
  <2> QED
    BY <1>2, <2>1, QuietListInv DEF WorkerStart, LoopHead, Retiring
<1>3. CASE WorkerProcess
  BY <1>3, ProcessListInv
<1>4. CASE WorkerBroadcast
  <2>1. BioTypeOK'
    BY <1>4 DEF ListInv, BioTypeOK, WorkerBroadcast
  <2> QED
    BY <1>4, <2>1, QuietListInv DEF ListInv, WorkerBroadcast, Retiring
<1>5. CASE WorkerRetire
  BY <1>5, RetireListInv
<1>6. ASSUME NEW t \in Waiters, bioWaitStepOfType(t) PROVE ListInv'
  <2>1. BioTypeOK' /\ worker' = worker
    BY <1>6 DEF ListInv, BioTypeOK, bioWaitStepOfType
  <2> QED
    BY <1>6, <2>1, QuietListInv
    DEF ListInv, NeverSleepsOnWork, bioWaitStepOfType, Retiring
<1>7. ASSUME NEW t \in Waiters, WaitReturn(t) PROVE ListInv'
  <2>1. BioTypeOK' /\ worker' = worker
    BY <1>7 DEF ListInv, BioTypeOK, WaitReturn
  <2> QED
    BY <1>7, <2>1, QuietListInv
    DEF ListInv, NeverSleepsOnWork, WaitReturn, Retiring
<1>8. CASE SpuriousWakeup
  <2>1. BioTypeOK'
    BY <1>8 DEF ListInv, BioTypeOK, SpuriousWakeup
  <2> QED
    BY <1>8, <2>1, QuietListInv DEF SpuriousWakeup, Retiring
<1>9. CASE UNCHANGED bioJobVars
  <2>1. BioTypeOK' /\ worker' = worker
    BY <1>9 DEF ListInv, BioTypeOK, bioJobVars
  <2> QED
    BY <1>9, <2>1, QuietListInv DEF ListInv, NeverSleepsOnWork, bioJobVars, Retiring
<1> QED
  BY <1>1, <1>2, <1>3, <1>4, <1>5, <1>6, <1>7, <1>8, <1>9 DEF BioNext, WorkerStep

\* The strengthened invariant of the job list holds in every reachable state.
THEOREM JobListInvariant == BioSpec => []ListInv
  BY InitListInv, NextListInv, PTL DEF BioSpec

\* A caller that reads 0 from bioPendingJobsOfType may rely on all the jobs it
\* submitted being done: the list is empty, and no processed node is left in it.
LEMMA PendingIsReliable == ListInv => NoPendingMeansAllDone
<1> SUFFICES ASSUME ListInv, bio_pending = 0
             PROVE  Len(processed) = submitted
  BY DEF NoPendingMeansAllDone
<1>1. bio_jobs \in Seq(Nat) /\ Len(bio_jobs) = 0
  BY DEF ListInv, BioTypeOK
<1>2. bio_jobs = << >>
  BY <1>1
<1>3. Retiring = 0
  BY <1>2 DEF ListInv, Retiring
<1> QED
  BY <1>1, <1>3 DEF ListInv, BioTypeOK

\* bio.c keeps its promises whatever its threads do: the jobs of a type are
\* processed in the order bioCreateBackgroundJob received them, none twice and
\* none left out; a caller that reads 0 pending jobs may rely on all of them
\* being done; no wake-up of the thread is lost.
THEOREM PromisesKept == BioSpec => []BioKeepsPromises
<1>1. ListInv => BioKeepsPromises
  BY PendingIsReliable DEF ListInv, BioKeepsPromises
<1> QED
  BY JobListInvariant, <1>1, PTL

\* What bioWaitStepOfType returns counts every job that is still to process and
\* at most one that is not: the processed node whose removal the mutex delays.
THEOREM ReturnedCount == BioSpec => WaitStepCounts
<1>1. ASSUME ListInv, NEW t \in Waiters, WaitReturn(t)
      PROVE  val'[t] - (submitted - Len(processed)) \in 0 .. Retiring
  <2>1. /\ bio_jobs \in Seq(Nat) /\ processed \in Seq(Nat) /\ submitted \in Nat
        /\ bio_pending = Len(bio_jobs)
        /\ Len(processed) = submitted - Len(bio_jobs) + Retiring
        /\ Retiring \in {0, 1}
    BY <1>1 DEF ListInv, BioTypeOK, Retiring
  <2>2. val'[t] = bio_pending
    BY <1>1 DEF ListInv, BioTypeOK, WaitReturn
  <2>3. Len(bio_jobs) \in Nat /\ Len(processed) \in Nat
    BY <2>1
  <2> QED
    BY <2>1, <2>2, <2>3
<1>2. ListInv => [\A t \in Waiters : WaitReturn(t) =>
                    val'[t] - (submitted - Len(processed)) \in 0 .. Retiring]_bioJobVars
  BY <1>1
<1> QED
  BY JobListInvariant, <1>2, PTL DEF WaitStepCounts
=============================================================================
