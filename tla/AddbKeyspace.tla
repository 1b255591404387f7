---------------------------- MODULE AddbKeyspace ----------------------------
(***************************************************************************)
(* The commands that remove keys, over the row groups of one ADDB partition: *)
(* DEL and expiry, FLUSHDB and FLUSHALL with and without ASYNC (db.c,        *)
(* lazyfree.c), and a restart, beside FPWRITE, the tiering of a batch and    *)
(* the clearing of a row group (addb_table.c, evict.c, circular_queue.c).    *)
(*                                                                         *)
(* The rings and the batch of the bio thread hold pointers to dictEntries,   *)
(* which the commands above free.  Each dictEntry with its relation is an    *)
(* object of ksObj, freed when not alive.  Tiering.tla has the threads and   *)
(* the rings in detail; here a ring is a sequence and one row is written at  *)
(* a time.  A row is named by its number in the order of insertion.          *)
(***************************************************************************)
EXTENDS Integers, Sequences, SequencesExt, FiniteSets

CONSTANTS KsMaxRows,     \* bound: rows ever written
          KsRowgroupSize, \* server.rowgroup_size
          KsStarts       \* initial values of ksBudget

VARIABLES ksMeta,    \* Metadict: the current group (0: none) and the rows of each group
          ksDict,    \* db->dict: the object of each group, 0 if there is none
          ksObj,     \* sequence of objects [group, rows, loc, alive]
          ksEvict,   \* EvictQueue and
          ksFree,    \* FreeQueue: sequences of objects
          ksBatch,   \* the batch the bio thread is to write
          ksLazy,    \* objects handed to the lazy free thread
          ksRocks,   \* RocksDB: the rows stored for each group
          ksRows,    \* history: the rows written since the last removal or restart
          ksBudget   \* operations left, rows written (total), and history: an entry was freed that
                     \* the tiering refers to (pulled), the Metadict kept groups that are gone (partial)

ksVars == <<ksMeta, ksDict, ksObj, ksEvict, ksFree, ksBatch, ksLazy, ksRocks, ksRows, ksBudget>>

KsGroups == 1 .. KsMaxRows
KsNoMeta == [group |-> 0, rows |-> [g \in KsGroups |-> 0]]
KsNoDict == [g \in KsGroups |-> 0]

KsFreed(S) == [i \in DOMAIN ksObj |-> [ksObj[i] EXCEPT !.alive = @ /\ i \notin S]]
KsSpend(op, pulled, partial) ==
    /\ ksBudget[op] > 0
    /\ ksBudget' = [ksBudget EXCEPT ![op] = @ - 1, !.pulled = @ \/ pulled, !.partial = @ \/ partial]

-----------------------------------------------------------------------------
\* fpWriteCommand for one row: the group it goes to, and whether that is the
\* next one because Metadict has the current group full.
KsFull(g) == ksMeta.rows[g] >= KsRowgroupSize

KsTarget ==
    LET g == IF ksMeta.group = 0 THEN 1 ELSE ksMeta.group
        i == ksDict[g]
    IN  IF KsFull(g) \/ (i # 0 /\ ksObj[i].loc # "REDIS_ONLY") \/ (i = 0 /\ ksMeta.rows[g] # 0)
        THEN g + 1 ELSE g

KsWrite ==
    /\ ksBudget.total < KsMaxRows
    /\ LET g == KsTarget
           row == ksBudget.total + 1
           init == ksDict[g] = 0
           i == IF init THEN Len(ksObj) + 1 ELSE ksDict[g]
       IN  /\ ksObj' = IF init
                       THEN Append(ksObj, [group |-> g, rows |-> <<row>>, loc |-> "REDIS_ONLY", alive |-> TRUE])
                       ELSE [ksObj EXCEPT ![i].rows = Append(@, row)]
           /\ ksDict' = [ksDict EXCEPT ![g] = i]
           /\ ksMeta' = [group |-> g, rows |-> [ksMeta.rows EXCEPT ![g] = @ + 1]]
           /\ ksEvict' = IF init \/ (ksMeta.group # 0 /\ KsFull(ksMeta.group)) THEN Append(ksEvict, i) ELSE ksEvict
           /\ ksRows' = Append(ksRows, row)
           /\ ksBudget' = [ksBudget EXCEPT !.total = row]
    /\ UNCHANGED <<ksFree, ksBatch, ksLazy, ksRocks>>

\* _batchTiering: the first entry of the EvictQueue goes to the FreeQueue and
\* to the bio thread.
KsTier ==
    /\ ksEvict # <<>> /\ ksBatch = <<>> /\ ksObj[Head(ksEvict)].alive
    /\ ksObj' = [ksObj EXCEPT ![Head(ksEvict)].loc = "FLUSH"]
    /\ ksEvict' = Tail(ksEvict)
    /\ ksFree' = Append(ksFree, Head(ksEvict))
    /\ ksBatch' = <<Head(ksEvict)>>
    /\ UNCHANGED <<ksMeta, ksDict, ksLazy, ksRocks, ksRows, ksBudget>>

\* prepareBatchWriteToRocksDB, on the bio thread.  A relation that was freed
\* meanwhile is read as it was.
KsPersist ==
    /\ ksBatch # <<>>
    /\ ksRocks' = [ksRocks EXCEPT ![ksObj[Head(ksBatch)].group] = ksObj[Head(ksBatch)].rows]
    /\ ksObj' = [ksObj EXCEPT ![Head(ksBatch)].loc = "PERSISTED"]
    /\ ksBatch' = <<>>
    /\ UNCHANGED <<ksMeta, ksDict, ksEvict, ksFree, ksLazy, ksRows, ksBudget>>


\* The loop of freeMemoryIfNeeded: chooseClearKeyFromQueue_ and dbClear_.
KsClear ==
    /\ ksFree # <<>> /\ ksObj[Head(ksFree)].alive
    /\ ksObj[Head(ksFree)].loc = "PERSISTED"
    /\ ksFree' = Tail(ksFree)
    /\ ksDict' = [ksDict EXCEPT ![ksObj[Head(ksFree)].group] = 0]
    /\ ksObj' = KsFreed({Head(ksFree)})
    /\ UNCHANGED <<ksMeta, ksEvict, ksBatch, ksLazy, ksRocks, ksRows, ksBudget>>

-----------------------------------------------------------------------------
\* DEL, or the expiry of the key of a group (dbSyncDelete), and UNLINK
\* (dbAsyncDelete): the rings are not told.
KsDelete(g) ==
    /\ ksDict[g] # 0 /\ KsSpend("del", TRUE, TRUE)
    /\ ksDict' = [ksDict EXCEPT ![g] = 0]
    /\ ksObj' = KsFreed({ksDict[g]})
    /\ ksRows' = <<>>
    /\ UNCHANGED <<ksMeta, ksEvict, ksFree, ksBatch, ksLazy, ksRocks>>

\* FLUSHDB and FLUSHALL: emptyDb frees the relations and the Metadict, then
\* initializeQueue empties the rings; RocksDB keeps its keys.
KsFlush ==
    /\ KsSpend("flush", ksBatch # <<>>, FALSE)
    /\ ksDict' = KsNoDict /\ ksMeta' = KsNoMeta
    /\ ksObj' = KsFreed(Range(ksDict))
    /\ ksEvict' = <<>> /\ ksFree' = <<>> /\ ksRows' = <<>>
    /\ UNCHANGED <<ksBatch, ksLazy, ksRocks>>

\* FLUSHDB ASYNC: emptyDbAsync replaces db->dict only.
KsFlushAsync ==
    /\ KsSpend("async", ksBatch # <<>>, TRUE)
    /\ ksDict' = KsNoDict /\ ksLazy' = ksLazy \cup (Range(ksDict) \ {0})
    /\ ksEvict' = <<>> /\ ksFree' = <<>> /\ ksRows' = <<>>
    /\ UNCHANGED <<ksMeta, ksObj, ksBatch, ksRocks>>

KsLazyFree ==
    /\ ksLazy # {}
    /\ ksObj' = KsFreed(ksLazy) /\ ksLazy' = {}
    /\ UNCHANGED <<ksMeta, ksDict, ksEvict, ksFree, ksBatch, ksRocks, ksRows, ksBudget>>

\* FLUSHDB of another database: emptyDb empties the rings of every database.
KsFlushOther ==
    /\ KsSpend("other", FALSE, FALSE)
    /\ ksEvict' = <<>> /\ ksFree' = <<>>
    /\ UNCHANGED <<ksMeta, ksDict, ksObj, ksBatch, ksLazy, ksRocks, ksRows>>

\* A restart without an RDB file: only RocksDB survives.
KsRestart ==
    /\ KsSpend("restart", FALSE, FALSE)
    /\ ksMeta' = KsNoMeta /\ ksDict' = KsNoDict
    /\ ksObj' = KsFreed(DOMAIN ksObj)
    /\ ksEvict' = <<>> /\ ksFree' = <<>> /\ ksBatch' = <<>> /\ ksLazy' = {} /\ ksRows' = <<>>
    /\ UNCHANGED ksRocks

-----------------------------------------------------------------------------
KsInit ==
    /\ ksMeta = KsNoMeta /\ ksDict = KsNoDict /\ ksObj = <<>>
    /\ ksEvict = <<>> /\ ksFree = <<>> /\ ksBatch = <<>> /\ ksLazy = {}
    /\ ksRocks = [g \in KsGroups |-> <<>>]
    /\ ksRows = <<>> /\ ksBudget \in KsStarts

KsNext ==
    \/ KsWrite \/ KsTier \/ KsPersist \/ KsClear
    \/ KsFlush \/ KsFlushAsync \/ KsLazyFree \/ KsFlushOther \/ KsRestart
    \/ \E g \in KsGroups : KsDelete(g)

-----------------------------------------------------------------------------
\* The rows an FPSCAN returns: of each group of the Metadict, as many as that
\* says, from memory unless the relation is absent or PERSISTED.
KsScanGroup(g) ==
    LET i == ksDict[g]
        rows == IF i = 0 \/ ksObj[i].loc = "PERSISTED" THEN ksRocks[g] ELSE ksObj[i].rows
        n == ksMeta.rows[g]
    IN  SubSeq(rows, 1, IF n < Len(rows) THEN n ELSE Len(rows))

KsScan == FlattenSeq([g \in 1 .. ksMeta.group |-> KsScanGroup(g)])

\* Everything written since the last flush or restart is scanned, in order, and
\* nothing else, although RocksDB keeps what was tiered before and the groups
\* are numbered from 1 again (emptyDb, fpWriteCommand).  FLUSHDB of another
\* database, which empties the rings, loses nothing.
KsScanIsExact == ~ ksBudget.partial => KsScan = ksRows

\* After any removal, of a key by DEL and of all keys by FLUSHDB ASYNC as well,
\* the rows written since are scanned in order, after whatever the Metadict
\* still knows of (fpWriteCommand opens a new group when the entry is gone).
KsNewRowsLast == IsSuffix(ksRows, KsScan)

\* "Remove all keys from all the databases in a Redis server" (emptyDb).
KsFlushRemovesAll == KsScan = ksRows

\* The rings and the batch refer to entries of db->dict, in the state that
\* dequeueForClear and chooseBestKeyFromQueue_ assert ("serverAssert
\* (obj->location != LOCATION_REDIS_ONLY)"; "if (obj->location !=
\* LOCATION_REDIS_ONLY) serverAssert(0)").
KsRingsAreLive ==
    /\ \A i \in Range(ksEvict) : ksObj[i].alive /\ ksObj[i].loc = "REDIS_ONLY"
    /\ \A i \in Range(ksFree) : ksObj[i].alive /\ ksObj[i].loc # "REDIS_ONLY"
    /\ \A i \in Range(ksBatch) : ksObj[i].alive /\ ksObj[i].loc = "FLUSH"
    /\ \A i \in Range(ksEvict) \cup Range(ksFree) : ksDict[ksObj[i].group] = i

\* The rings and the batch refer to live entries in the state the assertions
\* want, as long as no command frees an entry that is being tiered:
\* writing, tiering, clearing, restarts, and flushes between two batches keep
\* the three in step (fpWriteCommand, _batchTiering, freeMemoryIfNeeded).
KsTieringIsLive == ~ ksBudget.pulled => KsRingsAreLive

=============================================================================
