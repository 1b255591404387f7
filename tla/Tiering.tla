------------------------------- MODULE Tiering -------------------------------
(***************************************************************************)
(* The ADDB storage path of one database: FPWRITE appends rows to the      *)
(* current row group of a partition, freeMemoryIfNeeded moves row groups   *)
(* from memory to RocksDB in batches and clears them, and FPSCAN reads a   *)
(* partition back from both places.                                        *)
(*                                                                         *)
(* Two threads take part.  The main thread runs commands one at a time;    *)
(* the BIO_BATCH_TIERING thread of bio.c serialises, writes and marks the  *)
(* row groups of a batch.  They share the row groups and the "location" of *)
(* each, which is accessed without a lock: every access of the bio thread  *)
(* is a step of its own, and so is every point where the main thread reads *)
(* a location that the bio thread may change.  Between two such points the *)
(* main thread's work is one step, because it touches nothing the bio      *)
(* thread touches (row groups that are REDIS_ONLY, Metadict, the rings).   *)
(*                                                                         *)
(* A row is named by its position in the insertion order of its partition. *)
(***************************************************************************)
EXTENDS ArrayQueue

CONSTANTS
    Partitions,         \* table and partition of a data key
    MaxGroups,          \* bound: row groups per partition
    MaxRows,            \* bound: rows per partition
    MaxJobs,            \* bound: batches waiting for the bio thread
    WriteSizes,         \* numbers of rows an FPWRITE may carry
    RowgroupSize,       \* server.rowgroup_size
    BatchTieringSize,   \* server.batch_tiering_size
    MaxMemory,          \* server.maxmemory, in rows
    Overhead,           \* memory in use that is not row groups, in rows
    NoEviction,         \* values of maxmemory_policy = MAXMEMORY_NO_EVICTION;
                        \* CONFIG SET may change it between two commands
    EvictQueueSize,     \* DEFAULT_ARRAY_QUEUE_SIZE
    FreeQueueSize,      \* DEFAULT_FREE_QUEUE_SIZE
    WriteMayFail        \* rocksdb_write may report an error

ASSUME TieringConstants ==
    /\ MaxGroups \in Nat /\ MaxRows \in Nat /\ MaxJobs \in Nat
    /\ WriteSizes \subseteq Nat
    /\ RowgroupSize \in Nat \ {0}
    /\ BatchTieringSize \in Nat
    /\ MaxMemory \in Nat /\ Overhead \in Nat
    /\ NoEviction \subseteq BOOLEAN /\ WriteMayFail \in BOOLEAN
    /\ EvictQueueSize \in 2 .. QueueMax
    /\ FreeQueueSize \in 2 .. QueueMax

Groups == 1 .. MaxGroups
DataKeys == Partitions \X Groups

ASSUME SlotMarksAreNoKeys == NULL \notin DataKeys /\ Uninit \notin DataKeys

VARIABLES
    \* Metadict
    rowgroup,   \* partition -> id of its current row group, 0 before any
    rowNumber,  \* data key  -> rows of the group according to Metadict
    \* db->dict, RocksDB and zmalloc
    location,   \* data key  -> location of its relation, or "ABSENT"
    relation,   \* data key  -> rows held in memory
    rocks,      \* data key  -> rows held by RocksDB
    usedMemory,
    \* the rings
    EvictQueue,
    FreeQueue,
    \* main thread
    pc,         \* where the main thread is
    req,        \* the command it executes
    count,      \* rows _batchTiering may still take
    evictKeys,  \* the batch _batchTiering is filling
    scanParams, \* RowGroupParameter of each group, filled by an FPSCAN
    groupsRead, \* groups an FPSCAN has read so far
    reply,      \* and the rows it found there
    \* BIO_BATCH_TIERING
    jobs,       \* its job list: a sequence of batches, the first one running
    bioPc,
    bioIdx,     \* elements of the running batch already dealt with
    writeBatch, \* the serialised groups of the running batch
    bioErr,     \* rocksdb_write reported an error for the running batch
    \* abort, and what was ever inserted
    fault,
    total,      \* partition -> rows inserted so far
    inserted    \* data key -> rows inserted into this group so far

metaVars == <<rowgroup, rowNumber>>
storeVars == <<location, relation, rocks, usedMemory>>
queueVars == <<EvictQueue, FreeQueue>>
cmdVars == <<req, count, evictKeys>>
scanVars == <<scanParams, groupsRead, reply>>
bioVars == <<bioPc, bioIdx, writeBatch, bioErr>>
histVars == <<total, inserted>>

vars == <<metaVars, storeVars, queueVars, pc, cmdVars, scanVars, jobs, bioVars,
          fault, histVars>>

Locations == {"ABSENT", "REDIS_ONLY", "FLUSH", "PERSISTED"}

NoRequest == [op |-> "none"]

Init ==
    /\ rowgroup = [p \in Partitions |-> 0]
    /\ rowNumber = [k \in DataKeys |-> 0]
    /\ location = [k \in DataKeys |-> "ABSENT"]
    /\ relation = [k \in DataKeys |-> << >>]
    /\ rocks = [k \in DataKeys |-> << >>]
    /\ usedMemory = Overhead
    /\ EvictQueue = createArrayQueue(EvictQueueSize)
    /\ FreeQueue = createArrayQueue(FreeQueueSize)
    /\ pc = "idle" /\ req = NoRequest
    /\ count = 0 /\ evictKeys = << >>
    /\ scanParams = << >> /\ groupsRead = 0 /\ reply = << >>
    /\ jobs = << >>
    /\ bioPc = "wait" /\ bioIdx = 0 /\ writeBatch = << >> /\ bioErr = FALSE
    /\ fault = "none"
    /\ total = [p \in Partitions |-> 0]
    /\ inserted = [k \in DataKeys |-> << >>]

-----------------------------------------------------------------------------
\* processCommand and freeMemoryIfNeeded up to the eviction loop.

Threshold == (MaxMemory * 8) \div 10

\* FPWRITE arrives: memory is looked after first, when a limit is set.
StartWrite(p, n) ==
    /\ fault = "none" /\ pc = "idle"
    /\ total[p] + n <= MaxRows
    /\ req' = [op |-> "write", p |-> p, n |-> n]
    /\ \E forbidden \in NoEviction :
       IF MaxMemory = 0 \/ usedMemory <= Threshold
       THEN pc' = "write" /\ UNCHANGED <<count, evictKeys>>
       ELSE IF forbidden
       THEN pc' = "oom" /\ UNCHANGED <<count, evictKeys>>
       ELSE IF FreeQueue.size < FreeQueueSize - 1
       THEN pc' = "batch" /\ count' = BatchTieringSize /\ evictKeys' = << >>
       ELSE pc' = "loop" /\ UNCHANGED <<count, evictKeys>>
    /\ UNCHANGED <<metaVars, storeVars, queueVars, scanVars, jobs, bioVars,
                   fault, histVars>>

\* freeMemoryIfNeeded returned C_ERR: the command is refused.
ReplyOOM ==
    /\ fault = "none" /\ pc = "oom"
    /\ pc' = "idle" /\ req' = NoRequest
    /\ UNCHANGED <<metaVars, storeVars, queueVars, count, evictKeys, scanVars,
                   jobs, bioVars, fault, histVars>>

-----------------------------------------------------------------------------
\* _batchTiering: an element of the loop is a step, chooseBestKeyFromQueue_
\* and _getRowCount included.

\* Fault: the loop does not look whether the EvictQueue is empty.
BatchGoesOnWhenEmpty == count > 0

BatchGoesOn == ~isEmpty(EvictQueue) /\ count > 0

\* The entry dequeued is usable and may be enqueued on the FreeQueue.
BestKeyAsserts ==
    /\ dequeueResult(EvictQueue) # NULL
    /\ location[dequeueResult(EvictQueue)] = "REDIS_ONLY"
    /\ ~CannotExtend(FreeQueue)

BatchTake ==
    /\ fault = "none" /\ pc = "batch" /\ BatchGoesOn
    /\ LET k == dequeueResult(EvictQueue) IN
       IF BestKeyAsserts
       THEN /\ EvictQueue' = dequeue(EvictQueue)
            /\ location' = [location EXCEPT ![k] = "FLUSH"]
            /\ FreeQueue' = enqueue(FreeQueue, k)
            /\ evictKeys' = Append(evictKeys, k)
            /\ count' = count - rowNumber[k]
            /\ UNCHANGED fault
       ELSE /\ fault' = "assert"
            /\ UNCHANGED <<queueVars, location, evictKeys, count>>
    /\ UNCHANGED <<metaVars, relation, rocks, usedMemory, pc, req, scanVars,
                   jobs, bioVars, histVars>>

\* Fault: the batch is submitted and kept.
BatchSubmitKept ==
    /\ fault = "none" /\ pc = "batch" /\ ~BatchGoesOn
    /\ Len(jobs) < MaxJobs
    /\ jobs' = Append(jobs, evictKeys)
    /\ pc' = "loop"
    /\ UNCHANGED <<metaVars, storeVars, queueVars, cmdVars, scanVars, bioVars,
                   fault, histVars>>

\* dbPersistBatch_ hands the batch over, an empty one as well.
BatchSubmit ==
    /\ fault = "none" /\ pc = "batch" /\ ~BatchGoesOn
    /\ Len(jobs) < MaxJobs
    /\ jobs' = Append(jobs, evictKeys)
    /\ evictKeys' = << >> /\ count' = 0
    /\ pc' = "loop"
    /\ UNCHANGED <<metaVars, storeVars, queueVars, req, scanVars, bioVars,
                   fault, histVars>>

-----------------------------------------------------------------------------
\* The eviction loop of freeMemoryIfNeeded.  An iteration that finds the
\* oldest entry of the FreeQueue still in FLUSH changes nothing and repeats.

\* Fault: the loop ends without looking at the memory in use.
LoopDoneUnchecked ==
    /\ fault = "none" /\ pc = "loop"
    /\ pc' = "write"
    /\ UNCHANGED <<metaVars, storeVars, queueVars, cmdVars, scanVars, jobs,
                   bioVars, fault, histVars>>

LoopDone ==
    /\ fault = "none" /\ pc = "loop" /\ usedMemory <= MaxMemory
    /\ pc' = "write"
    /\ UNCHANGED <<metaVars, storeVars, queueVars, cmdVars, scanVars, jobs,
                   bioVars, fault, histVars>>

\* dequeueForClear accepts the entry: it was stored, and is not REDIS_ONLY.
ClearKeyAsserts ==
    /\ RearSlot(FreeQueue) # NULL
    /\ location[RearSlot(FreeQueue)] \notin {"REDIS_ONLY", "ABSENT"}

\* The group is written: dbClear_ deletes it from db->dict.
LoopClear ==
    /\ fault = "none" /\ pc = "loop" /\ usedMemory > MaxMemory
    /\ ~isEmpty(FreeQueue)
    /\ LET k == RearSlot(FreeQueue) IN
       IF ClearKeyAsserts
       THEN /\ location[k] = "PERSISTED"
            /\ FreeQueue' = RemoveOldest(FreeQueue)
            /\ location' = [location EXCEPT ![k] = "ABSENT"]
            /\ relation' = [relation EXCEPT ![k] = << >>]
            /\ usedMemory' = usedMemory - Len(relation[k])
            /\ UNCHANGED fault
       ELSE /\ fault' = "assert"
            /\ UNCHANGED <<FreeQueue, location, relation, usedMemory>>
    /\ UNCHANGED <<metaVars, rocks, EvictQueue, pc, cmdVars, scanVars, jobs,
                   bioVars, histVars>>

\* Nothing to clear: another batch is forced.
LoopForce ==
    /\ fault = "none" /\ pc = "loop" /\ usedMemory > MaxMemory
    /\ isEmpty(FreeQueue)
    /\ pc' = "batch" /\ count' = BatchTieringSize /\ evictKeys' = << >>
    /\ UNCHANGED <<metaVars, storeVars, queueVars, req, scanVars, jobs,
                   bioVars, fault, histVars>>

-----------------------------------------------------------------------------
\* fpWriteCommand.

\* The group Metadict names, created on first use.
FirstGroup(p) == IF rowgroup[p] = 0 THEN 1 ELSE rowgroup[p]

GroupIsFull(p) == rowNumber[<<p, FirstGroup(p)>>] >= RowgroupSize

\* Fault: only groups gone from memory are recognised.
GroupIsSealedWhenGone(p) ==
    LET k == <<p, FirstGroup(p)>> IN
    ~GroupIsFull(p) /\ location[k] = "ABSENT" /\ rowNumber[k] # 0

\* A group on its way to RocksDB, or already gone from memory, is not written.
GroupIsSealed(p) ==
    LET k == <<p, FirstGroup(p)>> IN
    /\ ~GroupIsFull(p)
    /\ IF location[k] # "ABSENT" THEN location[k] # "REDIS_ONLY"
                                 ELSE rowNumber[k] # 0

TargetGroup(p) ==
    IF GroupIsFull(p) \/ GroupIsSealed(p) THEN FirstGroup(p) + 1
                                          ELSE FirstGroup(p)

\* Fault: the rows are inserted last one first.
NewRowsReversed(p, n) == [i \in 1 .. n |-> total[p] + n + 1 - i]

\* The n rows inserted next.
NewRows(p, n) == [i \in 1 .. n |-> total[p] + i]

\* Fault: only a group that follows a full one is enqueued.
EnrolledAfterFull(p, n) == GroupIsFull(p)

\* Enroll_queue: a full group was left, or the insertion created the relation.
Enrolled(p, n) ==
    \/ GroupIsFull(p)
    \/ n > 0 /\ location[<<p, TargetGroup(p)>>] = "ABSENT"

\* The final enqueue finds the entry in db->dict and room in the ring.
EnqueueAsserts(p, n) ==
    /\ n > 0 \/ location[<<p, TargetGroup(p)>>] # "ABSENT"
    /\ ~CannotExtend(EvictQueue)

\* The values are not a multiple of the column number: nothing is inserted.
RejectWrite ==
    /\ fault = "none" /\ pc = "write"
    /\ pc' = "idle" /\ req' = NoRequest
    /\ UNCHANGED <<metaVars, storeVars, queueVars, count, evictKeys, scanVars,
                   jobs, bioVars, fault, histVars>>

fpWriteCommand ==
    /\ fault = "none" /\ pc = "write"
    /\ LET p == req.p  n == req.n  k == <<p, TargetGroup(p)>> IN
       /\ TargetGroup(p) <= MaxGroups
       /\ rowgroup' = [rowgroup EXCEPT ![p] = TargetGroup(p)]
       /\ rowNumber' = [rowNumber EXCEPT ![k] = @ + n]
       /\ IF n > 0
          THEN /\ location' = [location EXCEPT ![k] =
                                IF @ = "ABSENT" THEN "REDIS_ONLY" ELSE @]
               /\ relation' = [relation EXCEPT ![k] = @ \o NewRows(p, n)]
          ELSE UNCHANGED <<location, relation>>
       /\ usedMemory' = usedMemory + n
       /\ inserted' = [inserted EXCEPT ![k] = @ \o NewRows(p, n)]
       /\ total' = [total EXCEPT ![p] = @ + n]
       /\ IF Enrolled(p, n) /\ ~EnqueueAsserts(p, n)
          THEN fault' = "assert" /\ UNCHANGED EvictQueue
          ELSE /\ EvictQueue' = IF Enrolled(p, n) THEN enqueue(EvictQueue, k)
                                                  ELSE EvictQueue
               /\ UNCHANGED fault
    /\ pc' = "idle" /\ req' = NoRequest
    /\ UNCHANGED <<rocks, FreeQueue, count, evictKeys, scanVars, jobs, bioVars>>

-----------------------------------------------------------------------------
\* fpScanCommand.  populateScanParameter looks every group up and notes where
\* it is to be read; the reading follows for all groups.

StartScan(p) ==
    /\ fault = "none" /\ pc = "idle"
    /\ req' = [op |-> "scan", p |-> p]
    /\ pc' = "populate"
    /\ UNCHANGED <<metaVars, storeVars, queueVars, count, evictKeys, scanVars,
                   jobs, bioVars, fault, histVars>>

createRowGroupParameter(k) ==
    [isInRocksDb |-> location[k] \in {"ABSENT", "PERSISTED"},
     rowCount    |-> rowNumber[k]]

PopulateGroup ==
    /\ fault = "none" /\ pc = "populate"
    /\ LET g == Len(scanParams) + 1 IN
       IF g <= rowgroup[req.p]
       THEN /\ scanParams' =
                Append(scanParams, createRowGroupParameter(<<req.p, g>>))
            /\ UNCHANGED pc
       ELSE pc' = "read" /\ UNCHANGED scanParams
    /\ UNCHANGED <<metaVars, storeVars, queueVars, cmdVars, groupsRead, reply,
                   jobs, bioVars, fault, histVars>>

\* Fault: the last row held is not read.
RowsOfShort(rows, n) == [i \in 1 .. n |-> IF i < Len(rows) THEN rows[i] ELSE 0]

\* rowCount rows of a group, 0 standing for a value that is not there.
RowsOf(rows, n) == [i \in 1 .. n |-> IF i <= Len(rows) THEN rows[i] ELSE 0]

cachedScan(k, n) == RowsOf(relation[k], n)

cachedScanOnRocksDB(k, n) == RowsOf(rocks[k], n)

\* scanDataFromADDB on a group.
ReadGroup ==
    /\ fault = "none" /\ pc = "read"
    /\ LET g == groupsRead + 1  k == <<req.p, g>>  n == scanParams[g].rowCount IN
       IF g <= Len(scanParams)
       THEN /\ reply' = reply \o (IF scanParams[g].isInRocksDb
                                  THEN cachedScanOnRocksDB(k, n)
                                  ELSE cachedScan(k, n))
            /\ groupsRead' = g
            /\ UNCHANGED pc
       ELSE pc' = "reply" /\ UNCHANGED <<reply, groupsRead>>
    /\ UNCHANGED <<metaVars, storeVars, queueVars, cmdVars, scanParams, jobs,
                   bioVars, fault, histVars>>

ReplyScan ==
    /\ fault = "none" /\ pc = "reply"
    /\ pc' = "idle" /\ req' = NoRequest
    /\ scanParams' = << >> /\ groupsRead' = 0 /\ reply' = << >>
    /\ UNCHANGED <<metaVars, storeVars, queueVars, count, evictKeys, jobs,
                   bioVars, fault, histVars>>

-----------------------------------------------------------------------------
\* The BIO_BATCH_TIERING thread: prepareBatchWriteToRocksDB on the first job,
\* which stays in the list until it is done.

BioTake ==
    /\ fault = "none" /\ bioPc = "wait" /\ jobs # << >>
    /\ bioPc' = "serialize" /\ bioIdx' = 0 /\ writeBatch' = << >>
    /\ UNCHANGED <<metaVars, storeVars, queueVars, pc, cmdVars, scanVars, jobs,
                   bioErr, fault, histVars>>

\* Fault: the first relation of the batch is serialised again and again.
BioSerializeFirst ==
    /\ fault = "none" /\ bioPc = "serialize" /\ bioIdx < Len(Head(jobs))
    /\ writeBatch' = Append(writeBatch, relation[Head(jobs)[1]])
    /\ bioIdx' = bioIdx + 1
    /\ UNCHANGED <<metaVars, storeVars, queueVars, pc, cmdVars, scanVars, jobs,
                   bioPc, bioErr, fault, histVars>>

\* One relation goes into the write batch.
BioSerialize ==
    /\ fault = "none" /\ bioPc = "serialize" /\ bioIdx < Len(Head(jobs))
    /\ writeBatch' = Append(writeBatch, relation[Head(jobs)[bioIdx + 1]])
    /\ bioIdx' = bioIdx + 1
    /\ UNCHANGED <<metaVars, storeVars, queueVars, pc, cmdVars, scanVars, jobs,
                   bioPc, bioErr, fault, histVars>>

\* Fault: the batch is never written.
BioWriteSkipped(ok) ==
    /\ fault = "none" /\ bioPc = "serialize" /\ bioIdx = Len(Head(jobs))
    /\ bioErr' = FALSE
    /\ bioPc' = "mark" /\ bioIdx' = 0
    /\ UNCHANGED <<metaVars, storeVars, queueVars, pc, cmdVars, scanVars, jobs,
                   writeBatch, fault, histVars>>

\* Fault: the batch is prepared again instead of being marked.
BioWriteAgain(ok) ==
    /\ fault = "none" /\ bioPc = "serialize" /\ bioIdx = Len(Head(jobs))
    /\ bioErr' = FALSE
    /\ bioIdx' = 0 /\ writeBatch' = << >>
    /\ UNCHANGED <<metaVars, storeVars, queueVars, pc, cmdVars, scanVars, jobs,
                   bioPc, fault, histVars>>

\* rocksdb_write: the batch is stored as a whole, or not at all.
BioWrite(ok) ==
    /\ fault = "none" /\ bioPc = "serialize" /\ bioIdx = Len(Head(jobs))
    /\ rocks' = [k \in DataKeys |->
                   IF ok /\ \E i \in 1 .. bioIdx : Head(jobs)[i] = k
                   THEN writeBatch[CHOOSE i \in 1 .. bioIdx : Head(jobs)[i] = k]
                   ELSE rocks[k]]
    /\ bioErr' = ~ok
    /\ bioPc' = "mark" /\ bioIdx' = 0
    /\ UNCHANGED <<metaVars, location, relation, usedMemory, queueVars, pc,
                   cmdVars, scanVars, jobs, writeBatch, fault, histVars>>

\* One relation is marked, whether or not the write succeeded.
BioMark ==
    /\ fault = "none" /\ bioPc = "mark" /\ bioIdx < Len(Head(jobs))
    /\ location' = [location EXCEPT ![Head(jobs)[bioIdx + 1]] = "PERSISTED"]
    /\ bioIdx' = bioIdx + 1
    /\ UNCHANGED <<metaVars, relation, rocks, usedMemory, queueVars, pc,
                   cmdVars, scanVars, jobs, bioPc, writeBatch, bioErr, fault,
                   histVars>>

\* The job is done and leaves the list; after an error the server panics.
BioFinish ==
    /\ fault = "none" /\ bioPc = "mark" /\ bioIdx = Len(Head(jobs))
    /\ IF bioErr
       THEN fault' = "panic" /\ UNCHANGED <<jobs, bioPc, bioIdx, writeBatch>>
       ELSE /\ jobs' = Tail(jobs)
            /\ bioPc' = "wait" /\ bioIdx' = 0 /\ writeBatch' = << >>
            /\ UNCHANGED fault
    /\ UNCHANGED <<metaVars, storeVars, queueVars, pc, cmdVars, scanVars,
                   bioErr, histVars>>

-----------------------------------------------------------------------------
Commands ==
    \E p \in Partitions :
        \/ \E n \in WriteSizes : StartWrite(p, n)
        \/ StartScan(p)

MainStep ==
    \/ ReplyOOM
    \/ BatchTake \/ BatchSubmit
    \/ LoopDone \/ LoopClear \/ LoopForce
    \/ RejectWrite \/ fpWriteCommand
    \/ PopulateGroup \/ ReadGroup \/ ReplyScan

BioStep ==
    \/ BioTake
    \/ BioSerialize
    \/ \E ok \in {TRUE, ~WriteMayFail} : BioWrite(ok)
    \/ BioMark
    \/ BioFinish

Next == Commands \/ MainStep \/ BioStep

Spec == Init /\ [][Next]_vars

\* The operating system schedules both threads; clients owe nothing.
FairSpec == Spec /\ WF_vars(MainStep) /\ WF_vars(BioStep)

-----------------------------------------------------------------------------
\* Properties.

WriteRequests == [op : {"write"}, p : Partitions, n : WriteSizes]
ScanRequests == [op : {"scan"}, p : Partitions]

StoreTypes ==
    /\ rowgroup \in [Partitions -> 0 .. MaxGroups]
    /\ rowNumber \in [DataKeys -> Nat]
    /\ location \in [DataKeys -> Locations]
    /\ relation \in [DataKeys -> Seq(Nat)]
    /\ rocks \in [DataKeys -> Seq(Nat)]
    /\ usedMemory \in Int
    /\ total \in [Partitions -> Nat]
    /\ inserted \in [DataKeys -> Seq(Nat)]

CommandTypes ==
    /\ pc \in {"idle", "oom", "batch", "loop", "write", "populate", "read", "reply"}
    /\ req \in {NoRequest} \cup WriteRequests \cup ScanRequests
    /\ count \in Int
    /\ evictKeys \in Seq(DataKeys)
    /\ fault \in {"none", "assert", "panic"}

ScanTypes ==
    /\ scanParams \in Seq([isInRocksDb : BOOLEAN, rowCount : Nat])
    /\ groupsRead \in Nat
    /\ reply \in Seq(Nat)

BioTypes ==
    /\ jobs \in Seq(Seq(DataKeys))
    /\ bioPc \in {"wait", "serialize", "mark"}
    /\ bioIdx \in Nat
    /\ writeBatch \in Seq(Seq(Nat))
    /\ bioErr \in BOOLEAN
    /\ bioPc # "wait" => jobs # << >> /\ bioIdx <= Len(Head(jobs))

\* Every variable stays in its domain: rings inside their buffers, batches of
\* data keys, indices of the bio thread inside the running batch.
TypeOK ==
    /\ StoreTypes /\ CommandTypes /\ ScanTypes /\ BioTypes
    /\ IsQueue(EvictQueue, DataKeys)
    /\ IsQueue(FreeQueue, DataKeys)

\* A row group the scan will look for in RocksDB, because it is marked
\* PERSISTED or gone from memory, is stored there with every row ever
\* inserted into it.
PersistedIsStored ==
    \A k \in DataKeys :
        location[k] \in {"PERSISTED", "ABSENT"} => rocks[k] = inserted[k]

\* The element of job j the bio thread will still read or mark at position i.
Pending(j, i) ==
    /\ j \in 1 .. Len(jobs) /\ i \in 1 .. Len(jobs[j])
    /\ j = 1 /\ bioPc = "mark" => i > bioIdx

\* The bio thread never follows a pointer to a relation the main thread has
\* freed: what it has yet to read or mark is in memory and in FLUSH.
PendingIsInMemory ==
    \A j \in 1 .. Len(jobs) : \A i \in 1 .. Len(jobs[j]) :
        Pending(j, i) => location[jobs[j][i]] = "FLUSH"

\* No serverAssert of the tiering path fails, except that of a ring that
\* cannot grow any further.
NoAssertFails ==
    fault = "assert" => CannotExtend(EvictQueue) \/ CannotExtend(FreeQueue)

\* The rings do not mix up row groups: what waits for eviction is REDIS_ONLY,
\* what waits for clearing is FLUSH or PERSISTED, and no group waits twice.
QueuesAgreeWithLocation ==
    /\ Members(EvictQueue) \subseteq {k \in DataKeys : location[k] = "REDIS_ONLY"}
    /\ Members(FreeQueue) \subseteq
          {k \in DataKeys : location[k] \in {"FLUSH", "PERSISTED"}}
    /\ NoEntryTwice(EvictQueue) /\ NoEntryTwice(FreeQueue)

\* A finished FPSCAN replies every row inserted into the partition, once and in
\* insertion order, wherever tiering has moved it meanwhile.
ScanReturnsAllRows ==
    pc = "reply" => reply = [i \in 1 .. total[req.p] |-> i]

\* Rows only go to a group that is REDIS_ONLY or new: once a group is handed to
\* the bio thread its contents never change again.
SealedGroupsFrozen ==
    [][\A k \in DataKeys :
          inserted'[k] # inserted[k] =>
             location[k] = "REDIS_ONLY" \/ inserted[k] = << >>]_vars

\* Every row group in memory waits in one of the rings, so that eviction can
\* reach it.
NoGroupForgotten ==
    \A k \in DataKeys :
        location[k] # "ABSENT" => k \in Members(EvictQueue) \cup Members(FreeQueue)

\* An FPWRITE that was admitted completes: freeMemoryIfNeeded does not loop
\* forever.
WriteCompletes == (req.op = "write") ~> (req.op # "write")

\* A group handed to the bio thread reaches RocksDB.
FlushReachesRocksDB ==
    \A k \in DataKeys : (location[k] = "FLUSH") ~> (location[k] # "FLUSH")

\* What an FPSCAN noted about a group stays right until it has read it: the
\* place it will read holds every row of the group, although the bio thread
\* writes and marks groups meanwhile.
ScanParamsStayValid ==
    \A g \in 1 .. Len(scanParams) :
        LET k == <<req.p, g>> IN
        /\ scanParams[g].rowCount = Len(inserted[k])
        /\ inserted[k] = IF scanParams[g].isInRocksDb THEN rocks[k]
                                                      ELSE relation[k]

-----------------------------------------------------------------------------
\* The inductive invariants behind the properties above.

\* The main thread executes the command its position belongs to, and a scan
\* looks at groups that exist.
PcMatchesReq ==
    /\ pc \in {"oom", "batch", "loop", "write"} => req \in WriteRequests
    /\ pc \in {"populate", "read", "reply"} =>
          req \in ScanRequests /\ Len(scanParams) <= rowgroup[req.p]
    /\ pc \notin {"populate", "read", "reply"} => scanParams = << >>

\* Groups Metadict has not handed out yet do not exist.
FreshGroups ==
    \A p \in Partitions, g \in Groups :
        g > rowgroup[p] => /\ location[<<p, g>>] = "ABSENT"
                           /\ rowNumber[<<p, g>>] = 0

\* No group is handed to the bio thread twice.
PendingOnce ==
    \A a, b \in 1 .. Len(jobs) :
        \A i \in 1 .. Len(jobs[a]), j \in 1 .. Len(jobs[b]) :
            Pending(a, i) /\ Pending(b, j) /\ jobs[a][i] = jobs[b][j]
               => a = b /\ i = j

\* The batch being filled holds groups in FLUSH that no job holds.
BatchIsNew ==
    \A n \in 1 .. Len(evictKeys) :
        /\ location[evictKeys[n]] = "FLUSH"
        /\ \A m \in 1 .. Len(evictKeys) : evictKeys[m] = evictKeys[n] => m = n
        /\ \A a \in 1 .. Len(jobs) : \A i \in 1 .. Len(jobs[a]) :
              Pending(a, i) => jobs[a][i] # evictKeys[n]

\* Who owns which group: the rings, the batch being filled and the jobs of the
\* bio thread agree with the locations at every step of either thread.
OwnershipInv ==
    /\ TypeOK /\ PcMatchesReq /\ FreshGroups
    /\ QueuesAgreeWithLocation
    /\ PendingIsInMemory /\ PendingOnce /\ BatchIsNew
    /\ bioPc = "serialize" => Len(writeBatch) = bioIdx

\* Metadict counts the rows inserted, and memory holds them all or none.
RowsAccountedFor ==
    \A k \in DataKeys :
        /\ rowNumber[k] = Len(inserted[k])
        /\ relation[k] = IF location[k] = "ABSENT" THEN << >> ELSE inserted[k]

\* What the bio thread has serialised is current, and what it will mark is
\* written.
BatchIsCurrent ==
    /\ bioPc = "serialize" =>
          \A i \in 1 .. bioIdx : writeBatch[i] = inserted[Head(jobs)[i]]
    /\ bioPc = "mark" =>
          \A i \in 1 .. Len(Head(jobs)) :
              i > bioIdx => rocks[Head(jobs)[i]] = inserted[Head(jobs)[i]]

\* Where the rows of every group are, as long as no RocksDB write fails.
ContentInv ==
    /\ RowsAccountedFor /\ PersistedIsStored /\ BatchIsCurrent
    /\ ScanParamsStayValid
    /\ ~bioErr

-----------------------------------------------------------------------------
\* Tiering is invisible: the rows of a partition, read group by group from
\* where a scan would read them, behave as the append-only log of RelStore.

VisibleRows(k) ==
    IF location[k] \in {"ABSENT", "PERSISTED"} THEN rocks[k] ELSE relation[k]

Concat(rows) ==
    LET upTo[g \in 0 .. MaxGroups] == IF g = 0 THEN << >> ELSE upTo[g - 1] \o rows[g]
    IN upTo[MaxGroups]

VisibleLog(p) == Concat([g \in Groups |-> VisibleRows(<<p, g>>)])

Log == INSTANCE RelStore WITH
         log <- [p \in Partitions |-> VisibleLog(p)],
         answer <- IF pc = "reply" THEN <<req.p, reply>> ELSE << >>

\* Every step of the server is a step of the log: FPWRITE appends, FPSCAN
\* answers with the log, and everything else leaves both alone.
ImplementsLog == Log!Spec

\* An FPWRITE that started returns (the eviction loop of freeMemoryIfNeeded
\* terminates), and what the loop handed to the tiering thread gets into RocksDB.
TieringProceeds ==
    /\ WriteCompletes
    /\ FlushReachesRocksDB
=============================================================================
