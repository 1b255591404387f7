-------------------------------- MODULE Dict --------------------------------
(***************************************************************************)
(* The hash table of dict.c: two tables and the incremental move from one to *)
(* the other, resizing in both directions, the safe iterator, and the        *)
(* stateless cursor of dictScan.                                             *)
(*                                                                         *)
(* The hash of a key is the key.  A bucket is the sequence of its keys, the  *)
(* last one added first.  With threads, the tiering thread iterates while the *)
(* main thread looks fields up (prepareBatchWriteToRocksDB, _cachedScan):   *)
(* the test of d->iterators and the step that follows it are then two steps. *)
(***************************************************************************)
EXTENDS Integers, Sequences, SequencesExt, FiniteSets

CONSTANTS DictBits,         \* bits of a cursor
          DictInitialSize,  \* DICT_HT_INITIAL_SIZE
          DictMinFill,      \* HASHTABLE_MIN_FILL, per cent
          DictForceRatio,   \* dict_force_resize_ratio
          DictEmptyVisits,  \* empty buckets a step of rehashing may visit
          DictStarts        \* tables to start from, with a value of dictBudget

VARIABLES ht,          \* <<ht[0], ht[1]>>
          rehashidx,   \* -1 if not rehashing
          iterators,   \* safe iterators bound to the table
          dictIter,    \* the safe iterator: table, index, entry, nextEntry, and what it returned
          dictCursor,  \* the cursor of a SCAN, and what it returned and owes
          lookup,      \* a lookup of the main thread is about to rehash a bucket
          dictBudget   \* operations left, the keys, and whether two threads are at work

dictVars == <<ht, rehashidx, iterators, dictIter, dictCursor, lookup, dictBudget>>

None == -1
NoTable == [size |-> 0, table |-> <<>>]
NewTable(n) == [size |-> n, table |-> [i \in 0 .. n - 1 |-> <<>>]]
TableKeys(t) == UNION {ToSet(t.table[i]) : i \in DOMAIN t.table}
Used(t) == Cardinality(TableKeys(t))
dictIsRehashing == rehashidx # -1
DictMembers == TableKeys(ht[1]) \cup TableKeys(ht[2])

-----------------------------------------------------------------------------
\* dictRehash(d, 1) as a function of the tables and the index.
FirstBusy(d, from) == CHOOSE i \in from .. d.ht[1].size - 1 :
    d.ht[1].table[i] # <<>> /\ \A j \in from .. i - 1 : d.ht[1].table[j] = <<>>

dictRehash(d) ==
    LET i == FirstBusy(d, d.idx)
        bucket == d.ht[1].table[i]
        moved == FoldLeft(LAMBDA t, k : [t EXCEPT ![k % d.ht[2].size] = <<k>> \o @], d.ht[2].table, bucket)
    IN  IF Used(d.ht[1]) = 0 THEN [ht |-> <<d.ht[2], NoTable>>, idx |-> -1]
        ELSE IF i - d.idx >= DictEmptyVisits THEN [d EXCEPT !.idx = @ + DictEmptyVisits]
        ELSE IF Used(d.ht[1]) = Len(bucket) THEN [ht |-> <<[d.ht[2] EXCEPT !.table = moved], NoTable>>, idx |-> -1]
        ELSE [ht |-> <<[d.ht[1] EXCEPT !.table[i] = <<>>], [d.ht[2] EXCEPT !.table = moved]>>, idx |-> i + 1]

\* Mutant: a step is done under a safe iterator.
StepUnderIterator(d) == IF d.idx # -1 THEN dictRehash(d) ELSE d

\* _dictRehashStep, as the operations below call it.
_dictRehashStep(d) == IF d.idx # -1 /\ iterators = 0 THEN dictRehash(d) ELSE d

\* dictExpand, to the power of two that _dictNextPower gives.
_dictNextPower(n) == CHOOSE p \in {DictInitialSize * 2 ^ e : e \in 0 .. DictBits} :
    p >= n /\ (p = DictInitialSize \/ p \div 2 < n)
dictExpand(d, n) ==
    LET size == _dictNextPower(n)
    IN  IF d.idx # -1 \/ Used(d.ht[1]) > n \/ size = d.ht[1].size THEN d
        ELSE IF d.ht[1].size = 0 THEN [d EXCEPT !.ht = <<NewTable(size), NoTable>>]
        ELSE [ht |-> <<d.ht[1], NewTable(size)>>, idx |-> 0]

_dictExpandIfNeeded(d, canResize) ==
    IF d.idx # -1 THEN d
    ELSE IF d.ht[1].size = 0 THEN dictExpand(d, DictInitialSize)
    ELSE IF Used(d.ht[1]) >= d.ht[1].size /\ (canResize \/ Used(d.ht[1]) \div d.ht[1].size > DictForceRatio)
    THEN dictExpand(d, Used(d.ht[1]) * 2)
    ELSE d

This == [ht |-> ht, idx |-> rehashidx]
Becomes(d) == ht' = d.ht /\ rehashidx' = d.idx
DictSpend(op) == dictBudget[op] > 0 /\ dictBudget' = [dictBudget EXCEPT ![op] = @ - 1]

\* A key that goes is not owed by a scan or an iterator that is under way.  One
\* that comes is an entry the iterator has not returned.
NotOwed(k) == /\ dictCursor' = [dictCursor EXCEPT !.owed = @ \ {k}]
              /\ dictIter' = [dictIter EXCEPT !.owed = @ \ {k}]

-----------------------------------------------------------------------------
\* dictAdd, dictReplace.
dictAdd(k, canResize) ==
    LET d == _dictExpandIfNeeded(_dictRehashStep(This), canResize)
        j == IF d.idx # -1 THEN 2 ELSE 1
        b == k % d.ht[j].size
    IN  /\ ~ lookup /\ k \notin DictMembers /\ DictSpend("add")
        /\ Becomes([d EXCEPT !.ht[j].table[b] = <<k>> \o @])
        /\ dictIter' = [dictIter EXCEPT !.seen = SelectSeq(@, LAMBDA x : x # k)]
        /\ UNCHANGED <<iterators, dictCursor, lookup>>

\* dictGenericDelete.  Under an iterator only the entry just returned goes.
dictDelete(k) ==
    LET d == _dictRehashStep(This)
        without(t) == [t EXCEPT !.table = [i \in DOMAIN @ |-> SelectSeq(@[i], LAMBDA x : x # k)]]
    IN  /\ ~ lookup /\ k \in DictMembers /\ (iterators > 0 => k = dictIter.entry)
        /\ DictSpend("del")
        /\ Becomes([d EXCEPT !.ht = <<without(d.ht[1]), without(d.ht[2])>>])
        /\ NotOwed(k)
        /\ UNCHANGED <<iterators, lookup>>

\* dictFind, by one thread; and, with two, the test of d->iterators and then
\* the step.
dictFind ==
    /\ ~ lookup /\ ~ dictBudget.threads /\ dictIsRehashing /\ DictMembers # {}
    /\ Becomes(_dictRehashStep(This))
    /\ UNCHANGED <<iterators, dictIter, dictCursor, lookup, dictBudget>>

LookupTests ==
    /\ dictBudget.threads /\ dictIsRehashing /\ iterators = 0
    /\ lookup' = TRUE
    /\ UNCHANGED <<ht, rehashidx, iterators, dictIter, dictCursor, dictBudget>>
LookupSteps ==
    /\ lookup /\ lookup' = FALSE
    /\ Becomes(IF dictIsRehashing THEN dictRehash(This) ELSE This)
    /\ UNCHANGED <<iterators, dictIter, dictCursor, dictBudget>>

\* tryResizeHashTables and dictResize, from databasesCron.
dictResize ==
    /\ ~ lookup /\ ht[1].size > DictInitialSize /\ DictSpend("resize")
    /\ Used(ht[1]) * 100 < DictMinFill * ht[1].size /\ ~ dictIsRehashing
    /\ Becomes(dictExpand(This, IF Used(ht[1]) < DictInitialSize THEN DictInitialSize ELSE Used(ht[1])))
    /\ UNCHANGED <<iterators, dictIter, dictCursor, lookup>>

-----------------------------------------------------------------------------
\* dictNext, of a safe iterator: the entry after e in its chain, and the first
\* bucket that is not empty after the one at (t, i).
ChainOf(e) == LET j == IF e \in TableKeys(ht[1]) THEN 1 ELSE 2 IN ht[j].table[e % ht[j].size]
Succ(e) == LET chain == ChainOf(e)
               at == SelectInSeq(chain, LAMBDA x : x = e)
           IN  IF at = Len(chain) THEN None ELSE chain[at + 1]
BusyAfter(t, i) ==
    LET busy(j, from) == {x \in from .. ht[j].size - 1 : ht[j].table[x] # <<>>}
        least(S) == CHOOSE x \in S : \A y \in S : x <= y
    IN  IF busy(t, i + 1) # {} THEN <<t, least(busy(t, i + 1))>>
        ELSE IF t = 1 /\ dictIsRehashing /\ busy(2, 0) # {} THEN <<2, least(busy(2, 0))>>
        ELSE <<t, None>>

Return(e, t, i) ==
    dictIter' = [dictIter EXCEPT !.table = t, !.index = i, !.entry = e, !.next = Succ(e), !.seen = Append(@, e)]

\* The iterator is made, by dictGetSafeIterator.
dictGetSafeIterator ==
    /\ dictIter.phase = "none" /\ DictSpend("iter")
    /\ dictIter' = [phase |-> "on", table |-> 1, index |-> None, entry |-> None, next |-> None,
                    seen |-> <<>>, owed |-> DictMembers]
    /\ UNCHANGED <<ht, rehashidx, iterators, dictCursor, lookup>>

\* The first call binds it to the table.  When it finds no more, it is released.
dictNext ==
    LET b == BusyAfter(dictIter.table, dictIter.index)
        first == dictIter.index = None /\ dictIter.table = 1
    IN  /\ dictIter.phase = "on"
        /\ IF dictIter.entry # None /\ dictIter.next # None
           THEN Return(dictIter.next, dictIter.table, dictIter.index) /\ UNCHANGED iterators
           ELSE IF b[2] # None
           THEN /\ Return(ht[b[1]].table[b[2]][1], b[1], b[2])
                /\ iterators' = IF first THEN iterators + 1 ELSE iterators
           ELSE /\ dictIter' = [dictIter EXCEPT !.phase = "done"]
                /\ iterators' = IF first THEN iterators ELSE iterators - 1
        /\ UNCHANGED <<ht, rehashidx, dictCursor, lookup, dictBudget>>

-----------------------------------------------------------------------------
\* rev: the bits of a cursor reversed.
Bit(v, i) == (v \div 2 ^ i) % 2
rev(v) == FoldLeft(LAMBDA acc, i : acc + Bit(v, i - 1) * 2 ^ (DictBits - i), 0, [i \in 1 .. DictBits |-> i])

\* The bits above those of the smaller table are set, and one is added from the
\* high end.
NextCursor(v, size) == rev((rev(2 ^ DictBits - size + (v % size)) + 1) % 2 ^ DictBits)

\* The buckets of the larger table that expand the one of the cursor in a
\* table of size n, from the cursor upwards.
Expansion(large, v, n) == UNION {ToSet(large.table[i]) : i \in {x \in (v % large.size) .. large.size - 1 : x % n = v % n}}

\* A call of dictScan: the bucket of the cursor in the smaller table, and those
\* of the larger one that expand it.
dictScan ==
    LET small == IF dictIsRehashing /\ ht[1].size > ht[2].size THEN 2 ELSE 1
        n == ht[small].size
        v == dictCursor.v
        bucket == ToSet(ht[small].table[v % n])
    IN  /\ ~ lookup /\ dictCursor.on
        /\ IF DictMembers = {} THEN dictCursor' = [dictCursor EXCEPT !.on = FALSE, !.v = 0]
           ELSE dictCursor' = [dictCursor EXCEPT !.v = NextCursor(v, n), !.on = NextCursor(v, n) # 0,
                                   !.seen = @ \cup bucket \cup (IF dictIsRehashing THEN Expansion(ht[3 - small], v, n) ELSE {})]
        /\ UNCHANGED <<ht, rehashidx, iterators, dictIter, lookup, dictBudget>>

StartScan ==
    /\ ~ dictCursor.on /\ DictSpend("scan")
    /\ dictCursor' = [on |-> TRUE, v |-> 0, seen |-> {}, owed |-> DictMembers]
    /\ UNCHANGED <<ht, rehashidx, iterators, dictIter, lookup>>

-----------------------------------------------------------------------------
DictInit ==
    /\ \E start \in DictStarts : dictBudget = start.budget /\ ht = start.ht /\ rehashidx = start.idx
    /\ iterators = 0 /\ lookup = FALSE
    /\ dictIter = [phase |-> "none", table |-> 1, index |-> None, entry |-> None, next |-> None, seen |-> <<>>, owed |-> {}]
    /\ dictCursor = [on |-> FALSE, v |-> 0, seen |-> {}, owed |-> {}]

DictNext ==
    \/ \E k \in dictBudget.keys : dictDelete(k) \/ \E can \in BOOLEAN : dictAdd(k, can)
    \/ dictFind \/ LookupTests \/ LookupSteps \/ dictResize
    \/ dictGetSafeIterator \/ dictNext \/ StartScan \/ dictScan

-----------------------------------------------------------------------------
\* Every entry is where dictFind looks for it, in one table, and no bucket
\* below rehashidx holds any ("Invariant of the dict.c rehashing",
\* dictGetSomeKeys; dictGetRandomKey relies on it to end).
DictFindable ==
    /\ \A j \in 1 .. 2 : \A i \in DOMAIN ht[j].table :
           /\ \A k \in ToSet(ht[j].table[i]) : k % ht[j].size = i
           /\ Cardinality(ToSet(ht[j].table[i])) = Len(ht[j].table[i])
    /\ TableKeys(ht[1]) \cap TableKeys(ht[2]) = {}
    /\ dictIsRehashing => /\ ht[2].size > 0
                          /\ \A i \in 0 .. rehashidx - 1 : ht[1].table[i] = <<>>
    /\ ~ dictIsRehashing => ht[2] = NoTable

\* "The function guarantees all elements present in the dictionary get returned
\* between the start and end of the iteration" (dictScan), although tables grow,
\* shrink and are rehashed between two calls.
ScanReturnsAll == ~ dictCursor.on => dictCursor.owed \subseteq dictCursor.seen

\* A safe iterator returns every entry once, although entries are added and the
\* one it returned is deleted ("otherwise some element can be missed or
\* duplicated", _dictRehashStep).
IteratorReturnsAll ==
    /\ \A i, j \in DOMAIN dictIter.seen : dictIter.seen[i] = dictIter.seen[j] => i = j
    /\ dictIter.phase = "done" => dictIter.owed \subseteq ToSet(dictIter.seen)

\* A hash table that is rehashed step by step, also between the calls of SCAN and
\* of an iterator, finds and returns every entry.
DictKeepsEntries ==
    /\ DictFindable
    /\ ScanReturnsAll
    /\ IteratorReturnsAll
=============================================================================
