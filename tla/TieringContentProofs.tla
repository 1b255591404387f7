------------------------ MODULE TieringContentProofs ------------------------
(***************************************************************************)
(* No group in memory gets out of the reach of eviction, as long as the    *)
(* rings do not grow: proofs of NoGroupForgotten.  And no row is lost      *)
(* while groups move from memory to RocksDB, provided no RocksDB write     *)
(* fails: proofs of ContentInv.  Both build on OwnershipInv.               *)
(***************************************************************************)
EXTENDS TieringProofs

\* fpWriteCommand enrolls the group it creates, _batchTiering moves groups from
\* one ring to the other, and only dbClear_ takes one out.
LEMMA NothingForgotten ==
  ASSUME OwnershipInv, NoGroupForgotten, [Next]_vars,
         EvictQueue'.max = EvictQueue.max, FreeQueue'.max = FreeQueue.max,
         fpWriteCommand /\ fault' = "assert" => ~IsFull(EvictQueue)
  PROVE  NoGroupForgotten'
<1>1. /\ location \in [DataKeys -> Locations]
      /\ IsQueue(EvictQueue, DataKeys) /\ NoEntryTwice(EvictQueue)
      /\ IsQueue(FreeQueue, DataKeys) /\ NoEntryTwice(FreeQueue)
      /\ Members(EvictQueue) \subseteq {k \in DataKeys : location[k] = "REDIS_ONLY"}
      /\ Members(FreeQueue) \subseteq {k \in DataKeys : location[k] \in {"FLUSH", "PERSISTED"}}
  BY DEF OwnershipInv, TypeOK, StoreTypes, QueuesAgreeWithLocation
<1>2. IsQueue(EvictQueue, DataKeys) /\ IsQueue(FreeQueue, DataKeys)
  BY DEF OwnershipInv, TypeOK
<1>3. /\ EvictQueue.max \in Nat /\ FreeQueue.max \in Nat
      /\ \A e \in DataKeys : ~IsFull(EvictQueue) => Members(enqueue(EvictQueue, e)) = Members(EvictQueue) \cup {e}
      /\ \A e \in DataKeys : ~IsFull(FreeQueue) => Members(enqueue(FreeQueue, e)) = Members(FreeQueue) \cup {e}
  BY <1>2, RingNeverShrinks, EnqueueWithRoom
<1>4. CASE fpWriteCommand
  <2> DEFINE k == <<req.p, TargetGroup(req.p)>>
  <2>1. /\ pc = "write" /\ TargetGroup(req.p) <= MaxGroups /\ FreeQueue' = FreeQueue
    BY <1>4 DEF fpWriteCommand
  <2>2. k \in DataKeys /\ req.n \in Nat
    BY <2>1, TargetIsWritable
  <2>3. CASE Enrolled(req.p, req.n)
    <3>1. location[k] = "ABSENT"
      BY <2>1, <2>3, TargetIsWritable
    <3>2. k \notin Members(EvictQueue)
      BY <1>1, <2>2, <3>1
    <3>3. CASE req.n > 0
      <4>0. ~CannotExtend(EvictQueue)
        BY <1>4, <2>3 DEF fpWriteCommand, EnqueueAsserts, CannotExtend
      <4>1. /\ EvictQueue' = enqueue(EvictQueue, k)
            /\ location' = [location EXCEPT ![k] = "REDIS_ONLY"]
        BY <1>4, <2>3, <3>1, <3>3, <4>0 DEF fpWriteCommand, EnqueueAsserts
      <4>3. ~IsFull(EvictQueue)
        <5>1. IsFull(EvictQueue) => enqueue(EvictQueue, k).max > EvictQueue.max
          BY <1>2, <4>0, EnqueueGrows
        <5> QED
          BY <1>3, <4>1, <5>1
      <4>2. Members(EvictQueue') = Members(EvictQueue) \cup {k}
        BY <1>3, <2>2, <4>1, <4>3
      <4> HIDE DEF k
      <4> QED
        BY <1>1, <2>1, <2>2, <4>1, <4>2 DEF NoGroupForgotten
    <3>4. CASE ~ (req.n > 0)
      <4>1. UNCHANGED <<EvictQueue, location>>
        BY <1>4, <2>3, <3>1, <3>4 DEF fpWriteCommand, EnqueueAsserts
      <4> QED
        BY <2>1, <4>1 DEF NoGroupForgotten, Members, Window
    <3> QED
      BY <3>3, <3>4
  <2>4. CASE ~ Enrolled(req.p, req.n)
    <3>1. EvictQueue' = EvictQueue /\ (req.n > 0 => location[k] # "ABSENT")
      BY <1>4, <2>4 DEF fpWriteCommand, Enrolled
    <3>2. location' = location
      BY <1>1, <1>4, <2>2, <3>1 DEF fpWriteCommand
    <3> QED
      BY <2>1, <3>1, <3>2 DEF NoGroupForgotten, Members, Window
  <2> QED
    BY <2>3, <2>4
<1>5. CASE BatchTake
  <2> DEFINE k == RearSlot(EvictQueue)
  <2>1. ~isEmpty(EvictQueue)
    BY <1>5 DEF BatchTake, BatchGoesOn
  <2>2. k \in Members(EvictQueue) /\ Members(RemoveOldest(EvictQueue)) = Members(EvictQueue) \ {k}
    BY <1>1, <2>1, RemoveMembers
  <2>3. k \in DataKeys /\ location[k] = "REDIS_ONLY" /\ k \notin Members(FreeQueue) /\ k # NULL
    BY <1>1, <2>2, SlotMarksAreNoKeys
  <2>5. dequeueResult(EvictQueue) = k /\ dequeue(EvictQueue) = RemoveOldest(EvictQueue)
    BY <2>1, <2>3 DEF dequeueResult, dequeue
  <2>6. CASE CannotExtend(FreeQueue)
    <3>1. UNCHANGED <<EvictQueue, FreeQueue, location>>
      BY <1>5, <2>6 DEF BatchTake, BestKeyAsserts, queueVars
    <3> QED
      BY <3>1 DEF NoGroupForgotten, Members, Window
  <2>7. CASE ~CannotExtend(FreeQueue)
    <3>1. /\ EvictQueue' = RemoveOldest(EvictQueue)
          /\ location' = [location EXCEPT ![k] = "FLUSH"]
          /\ FreeQueue' = enqueue(FreeQueue, k)
      BY <1>5, <2>3, <2>5, <2>7 DEF BatchTake, BestKeyAsserts
    <3>2. ~IsFull(FreeQueue)
      <4>1. IsFull(FreeQueue) => enqueue(FreeQueue, k).max > FreeQueue.max
        BY <1>2, <2>7, EnqueueGrows
      <4> QED
        BY <1>3, <3>1, <4>1
    <3>3. Members(FreeQueue') = Members(FreeQueue) \cup {k}
      BY <1>3, <2>3, <3>1, <3>2
    <3>4. Members(EvictQueue') = Members(EvictQueue) \ {k}
      BY <2>2, <3>1
    <3> HIDE DEF k
    <3> QED
      BY <1>1, <2>3, <3>1, <3>3, <3>4 DEF NoGroupForgotten
  <2> QED
    BY <2>6, <2>7
<1>6. CASE LoopClear
  <2> DEFINE k == RearSlot(FreeQueue)
  <2>1. ~isEmpty(FreeQueue) /\ EvictQueue' = EvictQueue
    BY <1>6 DEF LoopClear
  <2>2. k \in Members(FreeQueue) /\ Members(RemoveOldest(FreeQueue)) = Members(FreeQueue) \ {k}
    BY <1>1, <2>1, RemoveMembers
  <2>3. k \in DataKeys /\ location[k] \in {"FLUSH", "PERSISTED"} /\ k # NULL
    BY <1>1, <2>2, SlotMarksAreNoKeys
  <2>4. FreeQueue' = RemoveOldest(FreeQueue) /\ location' = [location EXCEPT ![k] = "ABSENT"]
    BY <1>6, <2>3 DEF LoopClear, ClearKeyAsserts
  <2>6. Members(FreeQueue') = Members(FreeQueue) \ {k}
    BY <2>2, <2>4
  <2> HIDE DEF k
  <2> QED
    BY <1>1, <2>1, <2>3, <2>4, <2>6 DEF NoGroupForgotten
<1>7. CASE BioMark
  <2>1. /\ UNCHANGED <<EvictQueue, FreeQueue>> /\ bioPc = "mark" /\ bioIdx < Len(Head(jobs))
        /\ location' = [location EXCEPT ![Head(jobs)[bioIdx + 1]] = "PERSISTED"]
    BY <1>7 DEF BioMark, queueVars
  <2>2. location[Head(jobs)[bioIdx + 1]] = "FLUSH"
    <3>1. jobs \in Seq(Seq(DataKeys)) /\ jobs # << >> /\ bioIdx \in Nat
      BY <2>1 DEF OwnershipInv, TypeOK, BioTypes
    <3>2. Len(jobs) \in Nat /\ 1 \in 1 .. Len(jobs) /\ Head(jobs) = jobs[1] /\ jobs[1] \in Seq(DataKeys)
      BY <3>1
    <3>3. Len(jobs[1]) \in Nat
      BY <3>2
    <3>4. bioIdx + 1 \in 1 .. Len(jobs[1]) /\ bioIdx + 1 > bioIdx
      BY <2>1, <3>1, <3>2, <3>3
    <3>5. Pending(1, bioIdx + 1)
      BY <3>2, <3>4 DEF Pending
    <3> QED
      BY <3>2, <3>4, <3>5 DEF OwnershipInv, PendingIsInMemory
  <2>3. \A k \in DataKeys : location'[k] # "ABSENT" => location[k] # "ABSENT"
    BY <1>1, <2>1, <2>2
  <2> QED
    BY <2>1, <2>3 DEF NoGroupForgotten, Members, Window
<1>8. CASE ~ (fpWriteCommand \/ BatchTake \/ LoopClear \/ BioMark)
  <2>1. UNCHANGED <<EvictQueue, FreeQueue, location>>
    BY <1>8 DEF Next, Commands, MainStep, BioStep, vars, queueVars, storeVars, StartWrite, StartScan, ReplyOOM,
       RejectWrite, LoopDone, LoopForce, BatchSubmit, PopulateGroup, ReadGroup, ReplyScan, BioTake, BioSerialize,
       BioWrite, BioFinish
  <2> QED
    BY <2>1 DEF NoGroupForgotten, Members, Window
<1> QED
  BY <1>4, <1>5, <1>6, <1>7, <1>8

\* No ring has grown beyond the capacity it was created with
\* (DEFAULT_ARRAY_QUEUE_SIZE, DEFAULT_FREE_QUEUE_SIZE).
RingsNotGrown == EvictQueue.max = EvictQueueSize /\ FreeQueue.max = FreeQueueSize

\* Rings never shrink, and groups are only lost to a ring that has grown.
ReachInv ==
    /\ EvictQueue.max >= EvictQueueSize /\ FreeQueue.max >= FreeQueueSize
    /\ RingsNotGrown /\ fault # "assert" => NoGroupForgotten

\* The steps that change a ring.
LEMMA RingSteps ==
  ASSUME [Next]_vars
  PROVE  /\ \/ EvictQueue' = EvictQueue \/ EvictQueue' = dequeue(EvictQueue)
            \/ fpWriteCommand /\ Enrolled(req.p, req.n) /\ EnqueueAsserts(req.p, req.n)
               /\ \E e : EvictQueue' = enqueue(EvictQueue, e)
         /\ \/ FreeQueue' = FreeQueue \/ FreeQueue' = RemoveOldest(FreeQueue)
            \/ BatchTake /\ BestKeyAsserts /\ \E e : FreeQueue' = enqueue(FreeQueue, e)
<1>1. CASE fpWriteCommand
  BY <1>1 DEF fpWriteCommand
<1>2. CASE BatchTake
  BY <1>2 DEF BatchTake, queueVars
<1>3. CASE LoopClear
  BY <1>3 DEF LoopClear
<1>4. CASE ~ (fpWriteCommand \/ BatchTake \/ LoopClear)
  BY <1>4 DEF Next, Commands, MainStep, BioStep, vars, queueVars, StartWrite, StartScan, ReplyOOM, RejectWrite,
     LoopDone, LoopForce, BatchSubmit, PopulateGroup, ReadGroup, ReplyScan, BioTake, BioSerialize, BioWrite, BioMark,
     BioFinish
<1> QED
  BY <1>1, <1>2, <1>3, <1>4

\* The rings only ever grow.
LEMMA RingsGrow ==
  ASSUME OwnershipInv, [Next]_vars
  PROVE  EvictQueue'.max >= EvictQueue.max /\ FreeQueue'.max >= FreeQueue.max
<1>1. IsQueue(EvictQueue, DataKeys) /\ IsQueue(FreeQueue, DataKeys)
  BY DEF OwnershipInv, TypeOK
<1>3. \/ EvictQueue' = EvictQueue \/ EvictQueue' = dequeue(EvictQueue)
      \/ ~CannotExtend(EvictQueue) /\ \E e : EvictQueue' = enqueue(EvictQueue, e)
  BY RingSteps DEF EnqueueAsserts
<1>4. \/ FreeQueue' = FreeQueue \/ FreeQueue' = RemoveOldest(FreeQueue)
      \/ ~CannotExtend(FreeQueue) /\ \E e : FreeQueue' = enqueue(FreeQueue, e)
  BY RingSteps DEF BestKeyAsserts
<1>5. EvictQueue'.max >= EvictQueue.max
  BY <1>1, <1>3, RingNeverShrinks
<1>6. FreeQueue'.max >= FreeQueue.max
  BY <1>1, <1>4, RingNeverShrinks
<1> QED
  BY <1>5, <1>6

\* Every step of either thread.
LEMMA NextReach ==
  ASSUME OwnershipInv, OwnershipInv', ReachInv, [Next]_vars
  PROVE  ReachInv'
<1>1. /\ EvictQueue.max \in Int /\ FreeQueue.max \in Int /\ EvictQueue'.max \in Int /\ FreeQueue'.max \in Int
      /\ EvictQueueSize \in Int /\ FreeQueueSize \in Int
  <2>1. /\ IsQueue(EvictQueue, DataKeys) /\ IsQueue(FreeQueue, DataKeys)
        /\ IsQueue(EvictQueue', DataKeys) /\ IsQueue(FreeQueue', DataKeys)
    BY DEF OwnershipInv, TypeOK, IsQueue
  <2>2. EvictQueueSize \in Int /\ FreeQueueSize \in Int
    BY QueueMaxAssumption, TieringConstants
  <2> QED
    BY <2>1, <2>2, RingNeverShrinks
<1>2. EvictQueue'.max >= EvictQueue.max /\ FreeQueue'.max >= FreeQueue.max
  BY RingsGrow
<1>3. fault' # "assert" => fault # "assert"
  BY DEF Next, Commands, MainStep, BioStep, vars, StartWrite, StartScan, ReplyOOM, RejectWrite, LoopDone, LoopForce,
     LoopClear, BatchTake, BatchSubmit, fpWriteCommand, PopulateGroup, ReadGroup, ReplyScan, BioTake, BioSerialize,
     BioWrite, BioMark, BioFinish
<1>4. ASSUME RingsNotGrown', fault' # "assert" PROVE NoGroupForgotten'
  <2>1. EvictQueue'.max = EvictQueue.max /\ FreeQueue'.max = FreeQueue.max /\ RingsNotGrown
    BY <1>1, <1>2, <1>4 DEF ReachInv, RingsNotGrown
  <2> QED
    BY <1>3, <1>4, <2>1, NothingForgotten DEF ReachInv
<1>5. EvictQueue'.max >= EvictQueueSize /\ FreeQueue'.max >= FreeQueueSize
  BY <1>1, <1>2 DEF ReachInv
<1> QED
  BY <1>4, <1>5 DEF ReachInv

\* Until a ring grows or an assertion stops the server, every row group in
\* memory waits in one of the rings, at every step of either thread: growing is
\* all that can put a group out of the reach of freeMemoryIfNeeded.
THEOREM ForgottenOnlyByGrowth ==
  Spec => [](RingsNotGrown /\ fault # "assert" => NoGroupForgotten)
<1>1. Init => ReachInv
  <2> SUFFICES ASSUME Init PROVE ReachInv
    OBVIOUS
  <2>1. EvictQueue.max = EvictQueueSize /\ FreeQueue.max = FreeQueueSize /\ NoGroupForgotten
    BY DEF Init, NoGroupForgotten, createArrayQueue
  <2>2. EvictQueueSize \in Int /\ FreeQueueSize \in Int
    BY TieringConstants, QueueMaxAssumption
  <2> QED
    BY <2>1, <2>2 DEF ReachInv
<1>2. OwnershipInv /\ OwnershipInv' /\ ReachInv /\ [Next]_vars => ReachInv'
  BY NextReach
<1>3. ReachInv => (RingsNotGrown /\ fault # "assert" => NoGroupForgotten)
  BY DEF ReachInv
<1> QED
  BY <1>1, <1>2, <1>3, Ownership, PTL DEF Spec

\* There are fewer row groups than slots in either ring.
FewGroups == Fewer(DataKeys, EvictQueueSize) /\ Fewer(DataKeys, FreeQueueSize)

\* Then a ring that lacks a group is not full.
LEMMA RoomForAnother ==
  ASSUME FewGroups, OwnershipInv, RingsNotGrown, NEW k \in DataKeys
  PROVE  /\ k \notin Members(EvictQueue) => ~IsFull(EvictQueue)
         /\ k \notin Members(FreeQueue) => ~IsFull(FreeQueue)
<1>1. /\ IsQueue(EvictQueue, DataKeys) /\ NoEntryTwice(EvictQueue) /\ Members(EvictQueue) \subseteq DataKeys
      /\ IsQueue(FreeQueue, DataKeys) /\ NoEntryTwice(FreeQueue) /\ Members(FreeQueue) \subseteq DataKeys
  BY DEF OwnershipInv, TypeOK, QueuesAgreeWithLocation
<1>2. Fewer(DataKeys, EvictQueue.max) /\ Fewer(DataKeys, FreeQueue.max)
  BY DEF FewGroups, RingsNotGrown
<1> QED
  BY <1>1, <1>2, FullRing

\* With few groups no step makes a ring grow.
LEMMA NextFew ==
  ASSUME FewGroups, OwnershipInv, RingsNotGrown, NoGroupForgotten, [Next]_vars
  PROVE  RingsNotGrown' /\ NoGroupForgotten'
<1>1. /\ IsQueue(EvictQueue, DataKeys) /\ NoEntryTwice(EvictQueue)
      /\ Members(EvictQueue) \subseteq {k \in DataKeys : location[k] = "REDIS_ONLY"}
      /\ Members(FreeQueue) \subseteq {k \in DataKeys : location[k] \in {"FLUSH", "PERSISTED"}}
  BY DEF OwnershipInv, TypeOK, QueuesAgreeWithLocation
<1>2. ASSUME fpWriteCommand, Enrolled(req.p, req.n) PROVE ~IsFull(EvictQueue)
  <2> DEFINE k == <<req.p, TargetGroup(req.p)>>
  <2>1. k \in DataKeys /\ location[k] = "ABSENT"
    BY <1>2, TargetIsWritable DEF fpWriteCommand
  <2>2. k \notin Members(EvictQueue)
    BY <1>1, <2>1
  <2> QED
    BY <2>1, <2>2, RoomForAnother
<1>3. ASSUME BatchTake, BestKeyAsserts PROVE ~IsFull(FreeQueue)
  <2> DEFINE k == RearSlot(EvictQueue)
  <2>1. k \in Members(EvictQueue)
    BY <1>1, <1>3, RemoveMembers DEF BatchTake, BatchGoesOn
  <2>2. k \in DataKeys /\ k \notin Members(FreeQueue)
    BY <1>1, <2>1
  <2> QED
    BY <2>2, RoomForAnother
<1>4. EvictQueue'.max = EvictQueue.max
  BY <1>1, <1>2, RingSteps, RingNeverShrinks
<1>5. FreeQueue'.max = FreeQueue.max
  <2>1. IsQueue(FreeQueue, DataKeys)
    BY DEF OwnershipInv, TypeOK
  <2> QED
    BY <1>3, <2>1, RingSteps, RingNeverShrinks
<1>6. fpWriteCommand /\ fault' = "assert" => Enrolled(req.p, req.n)
  BY DEF fpWriteCommand
<1> QED
  BY <1>2, <1>4, <1>5, <1>6, NothingForgotten DEF RingsNotGrown

\* With fewer row groups than slots in either ring, every row group in memory
\* waits in one of the rings: freeMemoryIfNeeded can reach them all.
THEOREM EvictionReachesAll == FewGroups => (Spec => []NoGroupForgotten)
<1> SUFFICES ASSUME FewGroups
             PROVE  Spec => []NoGroupForgotten
  OBVIOUS
<1>1. Init => RingsNotGrown /\ NoGroupForgotten
  BY DEF Init, RingsNotGrown, NoGroupForgotten, createArrayQueue
<1>2. OwnershipInv /\ RingsNotGrown /\ NoGroupForgotten /\ [Next]_vars => RingsNotGrown' /\ NoGroupForgotten'
  BY NextFew
<1> QED
  BY <1>1, <1>2, Ownership, PTL DEF Spec

-----------------------------------------------------------------------------
LEMMA InitContent == Init => ContentInv
BY DEF Init, ContentInv, RowsAccountedFor, PersistedIsStored, BatchIsCurrent,
       ScanParamsStayValid

\* Steps that touch no group and leave the running batch alone.
LEMMA ContentFrame ==
  ASSUME ContentInv,
         UNCHANGED <<rowNumber, location, relation, rocks, inserted, bioPc,
                     bioIdx, writeBatch, bioErr>>,
         bioPc # "wait" => Head(jobs') = Head(jobs),
         ScanParamsStayValid'
  PROVE  ContentInv'
<1>1. RowsAccountedFor' /\ PersistedIsStored'
  BY DEF ContentInv, RowsAccountedFor, PersistedIsStored
<1>2. BatchIsCurrent'
  BY DEF ContentInv, BatchIsCurrent
<1> QED
  BY <1>1, <1>2 DEF ContentInv

\* Outside of a scan there are no parameters to keep valid.
LEMMA NoScanParams ==
  ASSUME OwnershipInv, pc \notin {"populate", "read", "reply"},
         UNCHANGED scanParams
  PROVE  scanParams = << >> /\ ScanParamsStayValid'
<1>1. scanParams = << >>
  BY DEF OwnershipInv, PcMatchesReq
<1> QED
  BY <1>1 DEF ScanParamsStayValid

LEMMA QuietContent ==
  ASSUME OwnershipInv, ContentInv,
         \/ \E p \in Partitions, n \in WriteSizes : StartWrite(p, n)
         \/ ReplyOOM \/ RejectWrite \/ LoopDone \/ LoopForce
         \/ \E p \in Partitions : StartScan(p)
  PROVE  ContentInv'
<1>1. /\ UNCHANGED <<metaVars, storeVars, scanVars, jobs, bioVars, histVars>>
      /\ pc \in {"idle", "oom", "write", "loop"}
  BY DEF StartWrite, ReplyOOM, RejectWrite, LoopDone, LoopForce, StartScan
<1>2. ScanParamsStayValid'
  BY <1>1, NoScanParams DEF scanVars
<1> QED
  BY <1>1, <1>2, ContentFrame DEF metaVars, storeVars, bioVars, histVars

LEMMA BatchSubmitContent ==
  ASSUME OwnershipInv, ContentInv, BatchSubmit
  PROVE  ContentInv'
<1>1. /\ UNCHANGED <<metaVars, storeVars, scanVars, bioVars, histVars>>
      /\ pc = "batch" /\ jobs' = Append(jobs, evictKeys)
  BY DEF BatchSubmit
<1>2. ScanParamsStayValid'
  BY <1>1, NoScanParams DEF scanVars
<1>3. bioPc # "wait" => Head(jobs') = Head(jobs)
  <2> SUFFICES ASSUME bioPc # "wait" PROVE Head(jobs') = Head(jobs)
    OBVIOUS
  <2>1. /\ jobs \in Seq(Seq(DataKeys)) /\ evictKeys \in Seq(DataKeys)
        /\ jobs # << >>
    BY DEF OwnershipInv, TypeOK, BioTypes, CommandTypes
  <2> QED
    BY <1>1, <2>1
<1> QED
  BY <1>1, <1>2, <1>3, ContentFrame DEF metaVars, storeVars, bioVars, histVars

\* populateScanParameter notes a place that holds the whole group.
LEMMA ScanContent ==
  ASSUME OwnershipInv, ContentInv, PopulateGroup \/ ReadGroup \/ ReplyScan
  PROVE  ContentInv'
<1>1. /\ UNCHANGED <<metaVars, storeVars, jobs, bioVars, histVars>>
      /\ pc \in {"populate", "read", "reply"}
  BY DEF PopulateGroup, ReadGroup, ReplyScan
<1>2. ScanParamsStayValid'
  <2>1. CASE ReplyScan
    <3>1. scanParams' = << >>
      BY <2>1 DEF ReplyScan
    <3> QED
      BY <3>1 DEF ScanParamsStayValid
  <2>2. CASE UNCHANGED <<scanParams, req>>
    BY <1>1, <2>2 DEF ContentInv, ScanParamsStayValid, storeVars, histVars
  <2>3. CASE PopulateGroup /\ Len(scanParams) + 1 <= rowgroup[req.p]
    <3> DEFINE h == Len(scanParams) + 1
               k == <<req.p, h>>
               d == createRowGroupParameter(k)
    <3>1. scanParams' = Append(scanParams, d) /\ req' = req
      BY <2>3 DEF PopulateGroup, cmdVars
    <3>2. /\ req.p \in Partitions /\ rowgroup[req.p] \in 0 .. MaxGroups
          /\ scanParams \in Seq([isInRocksDb : BOOLEAN, rowCount : Nat])
          /\ Len(scanParams) \in Nat /\ MaxGroups \in Nat
      <4>1. pc = "populate"
        BY <2>3 DEF PopulateGroup
      <4>2. req.p \in Partitions
        BY <4>1 DEF OwnershipInv, PcMatchesReq, ScanRequests
      <4>3. rowgroup \in [Partitions -> 0 .. MaxGroups]
        BY DEF OwnershipInv, TypeOK, StoreTypes
      <4>4. scanParams \in Seq([isInRocksDb : BOOLEAN, rowCount : Nat])
        BY DEF OwnershipInv, TypeOK, ScanTypes
      <4> QED
        BY <4>2, <4>3, <4>4, TieringConstants
    <3>3. k \in DataKeys
      BY <2>3, <3>2 DEF DataKeys, Groups
    <3>4. /\ d.isInRocksDb = (location[k] \in {"ABSENT", "PERSISTED"})
          /\ d.rowCount = rowNumber[k]
          /\ d \in [isInRocksDb : BOOLEAN, rowCount : Nat]
      <4>1. rowNumber[k] \in Nat
        BY <3>3 DEF OwnershipInv, TypeOK, StoreTypes
      <4> QED
        BY <4>1 DEF createRowGroupParameter
    <3>5. /\ d.rowCount = Len(inserted[k])
          /\ inserted[k] = IF d.isInRocksDb THEN rocks[k] ELSE relation[k]
      BY <3>3, <3>4 DEF ContentInv, RowsAccountedFor, PersistedIsStored
    <3> HIDE DEF d
    <3>6. /\ Len(scanParams') = h /\ scanParams'[h] = d
          /\ \A g \in 1 .. Len(scanParams) : scanParams'[g] = scanParams[g]
      BY <3>1, <3>2, <3>4
    <3>7. \A g \in 1 .. Len(scanParams') : g \in 1 .. Len(scanParams) \/ g = h
      BY <3>2, <3>6
    <3>8. rocks' = rocks /\ relation' = relation /\ inserted' = inserted
      BY <1>1 DEF storeVars, histVars
    <3> SUFFICES ASSUME NEW g \in 1 .. Len(scanParams')
                 PROVE  /\ scanParams'[g].rowCount = Len(inserted[<<req.p, g>>])
                        /\ inserted[<<req.p, g>>] =
                             IF scanParams'[g].isInRocksDb
                             THEN rocks[<<req.p, g>>] ELSE relation[<<req.p, g>>]
      BY <3>1, <3>8 DEF ScanParamsStayValid
    <3>9. CASE g = h
      BY <3>5, <3>6, <3>9
    <3>10. CASE g \in 1 .. Len(scanParams)
      BY <3>6, <3>10 DEF ContentInv, ScanParamsStayValid
    <3> QED
      BY <3>7, <3>9, <3>10
  <2> QED
    BY <2>1, <2>2, <2>3 DEF PopulateGroup, ReadGroup, cmdVars
<1> QED
  BY <1>1, <1>2, ContentFrame DEF metaVars, storeVars, bioVars, histVars

\* A group on its way from one ring to the other is still in memory.
LEMMA BatchTakeContent ==
  ASSUME OwnershipInv, ContentInv, BatchTake
  PROVE  ContentInv'
<1> DEFINE k == RearSlot(EvictQueue)
<1>1. /\ pc = "batch" /\ ~isEmpty(EvictQueue)
      /\ UNCHANGED <<metaVars, relation, rocks, scanVars, jobs, bioVars, histVars>>
  BY DEF BatchTake, BatchGoesOn
<1>2. k \in Members(EvictQueue)
  BY <1>1, RemoveMembers DEF OwnershipInv, TypeOK, QueuesAgreeWithLocation
<1>3. k \in DataKeys /\ location[k] = "REDIS_ONLY" /\ k # NULL
  BY <1>2, SlotMarksAreNoKeys DEF OwnershipInv, QueuesAgreeWithLocation
<1>4. dequeueResult(EvictQueue) = k
  BY <1>1 DEF dequeueResult
<1>5. location' = location \/ location' = [location EXCEPT ![k] = "FLUSH"]
  BY <1>4 DEF BatchTake
<1>6. location \in [DataKeys -> Locations]
  BY DEF OwnershipInv, TypeOK, StoreTypes
<1> HIDE DEF k
<1>7. \A e \in DataKeys :
        /\ location'[e] = "ABSENT" <=> location[e] = "ABSENT"
        /\ location'[e] = "PERSISTED" <=> location[e] = "PERSISTED"
  BY <1>3, <1>5, <1>6
<1>8. /\ rowNumber' = rowNumber /\ inserted' = inserted /\ relation' = relation
      /\ rocks' = rocks /\ bioPc' = bioPc /\ bioIdx' = bioIdx /\ jobs' = jobs
      /\ writeBatch' = writeBatch /\ bioErr' = bioErr /\ scanParams' = scanParams
  BY <1>1 DEF metaVars, histVars, bioVars, scanVars
<1>9. RowsAccountedFor' /\ PersistedIsStored'
  BY <1>7, <1>8 DEF ContentInv, RowsAccountedFor, PersistedIsStored
<1>10. BatchIsCurrent'
  BY <1>8 DEF ContentInv, BatchIsCurrent
<1>11. ScanParamsStayValid'
  BY <1>1, <1>8, NoScanParams
<1> QED
  BY <1>8, <1>9, <1>10, <1>11 DEF ContentInv

\* Only a group RocksDB holds is freed.
LEMMA LoopClearContent ==
  ASSUME OwnershipInv, ContentInv, LoopClear
  PROVE  ContentInv'
<1> DEFINE k == RearSlot(FreeQueue)
<1>1. /\ pc = "loop" /\ ~isEmpty(FreeQueue)
      /\ UNCHANGED <<metaVars, rocks, scanVars, jobs, bioVars, histVars>>
  BY DEF LoopClear
<1>2. k \in Members(FreeQueue)
  BY <1>1, RemoveMembers DEF OwnershipInv, TypeOK, QueuesAgreeWithLocation
<1>3. k \in DataKeys /\ location[k] \in {"FLUSH", "PERSISTED"} /\ k # NULL
  BY <1>2, SlotMarksAreNoKeys DEF OwnershipInv, QueuesAgreeWithLocation
<1>4. /\ location[k] = "PERSISTED"
      /\ location' = [location EXCEPT ![k] = "ABSENT"]
      /\ relation' = [relation EXCEPT ![k] = << >>]
  BY <1>3 DEF LoopClear, ClearKeyAsserts
<1>5. /\ location \in [DataKeys -> Locations]
      /\ relation \in [DataKeys -> Seq(Nat)]
  BY DEF OwnershipInv, TypeOK, StoreTypes
<1> HIDE DEF k
<1>6. /\ location'[k] = "ABSENT" /\ relation'[k] = << >>
      /\ \A e \in DataKeys \ {k} :
            location'[e] = location[e] /\ relation'[e] = relation[e]
  BY <1>3, <1>4, <1>5
<1>7. /\ rowNumber' = rowNumber /\ inserted' = inserted
      /\ rocks' = rocks /\ bioPc' = bioPc /\ bioIdx' = bioIdx /\ jobs' = jobs
      /\ writeBatch' = writeBatch /\ bioErr' = bioErr /\ scanParams' = scanParams
  BY <1>1 DEF metaVars, histVars, bioVars, scanVars
<1>8. RowsAccountedFor'
  BY <1>6, <1>7 DEF ContentInv, RowsAccountedFor
<1>9. PersistedIsStored'
  BY <1>3, <1>4, <1>6, <1>7 DEF ContentInv, PersistedIsStored
<1>10. BatchIsCurrent'
  BY <1>7 DEF ContentInv, BatchIsCurrent
<1>11. ScanParamsStayValid'
  BY <1>1, <1>7, NoScanParams
<1> QED
  BY <1>7, <1>8, <1>9, <1>10, <1>11 DEF ContentInv

\* New rows go to a group in memory, or to one nobody has written to.
LEMMA WriteContent ==
  ASSUME OwnershipInv, ContentInv, fpWriteCommand
  PROVE  ContentInv'
<1> DEFINE p == req.p
           n == req.n
           g == TargetGroup(p)
           k == <<p, g>>
           w == NewRows(p, n)
<1>1. /\ pc = "write" /\ g <= MaxGroups
      /\ IF n > 0
         THEN location' = [location EXCEPT ![k] =
                             IF @ = "ABSENT" THEN "REDIS_ONLY" ELSE @]
         ELSE location' = location
      /\ inserted' = [inserted EXCEPT ![k] = @ \o w]
      /\ UNCHANGED <<rocks, scanVars, jobs, bioVars>>
  BY DEF fpWriteCommand
<1>2. /\ p \in Partitions /\ n \in Nat /\ k \in DataKeys
      /\ location[k] \in {"REDIS_ONLY", "ABSENT"}
  BY <1>1, TargetIsWritable
<1>3. /\ location \in [DataKeys -> Locations] /\ inserted \in [DataKeys -> Seq(Nat)]
      /\ total[p] \in Nat
  BY <1>2 DEF OwnershipInv, TypeOK, StoreTypes
<1>4. w \in Seq(Nat) /\ Len(w) = n
  <2> HIDE DEF p, n
  <2> QED
    BY <1>2, <1>3 DEF NewRows
<1> HIDE DEF p, n, g, k, w
<1>5. /\ inserted'[k] = inserted[k] \o w
      /\ \A e \in DataKeys \ {k} :
            location'[e] = location[e] /\ inserted'[e] = inserted[e]
  BY <1>1, <1>2, <1>3
<1>6. RowsAccountedFor'
  BY WriteRows DEF ContentInv
<1>7. PersistedIsStored'
  <2>1. CASE n > 0
    <3>1. location'[k] = "REDIS_ONLY"
      BY <1>1, <1>2, <1>3, <2>1
    <3> QED
      BY <1>1, <1>5, <3>1 DEF ContentInv, PersistedIsStored
  <2>2. CASE n = 0
    <3>1. w = << >>
      BY <1>4, <2>2, EmptyIsIn
    <3>2. inserted'[k] = inserted[k]
      BY <1>2, <1>3, <1>5, <3>1, ConcatNothing
    <3> QED
      BY <1>1, <1>5, <2>2, <3>2 DEF ContentInv, PersistedIsStored
  <2> QED
    BY <1>2, <2>1, <2>2
<1>8. BatchIsCurrent'
  <2>1. /\ bioPc' = bioPc /\ bioIdx' = bioIdx /\ jobs' = jobs /\ rocks' = rocks
        /\ writeBatch' = writeBatch
    BY <1>1 DEF bioVars
  <2>2. CASE bioPc = "wait"
    BY <2>1, <2>2 DEF BatchIsCurrent
  <2>3. CASE bioPc # "wait"
    <3>1. /\ Len(jobs) \in Nat /\ 1 \in 1 .. Len(jobs) /\ Head(jobs) = jobs[1]
          /\ Len(jobs[1]) \in Nat /\ bioIdx \in 0 .. Len(jobs[1])
          /\ \A i \in 1 .. Len(jobs[1]) : jobs[1][i] \in DataKeys
      BY <2>3, RunningJob
    <3>2. \A i \in 1 .. Len(jobs[1]) :
            Pending(1, i) => inserted'[jobs[1][i]] = inserted[jobs[1][i]]
      <4>1. \A i \in 1 .. Len(jobs[1]) :
              Pending(1, i) => location[jobs[1][i]] = "FLUSH"
        BY <3>1 DEF OwnershipInv, PendingIsInMemory
      <4> QED
        BY <1>2, <1>5, <3>1, <4>1
    <3>3. \A i \in 1 .. Len(jobs[1]) :
            (bioPc = "mark" => i > bioIdx) => Pending(1, i)
      BY <3>1 DEF Pending
    <3> QED
      BY <2>1, <3>1, <3>2, <3>3 DEF ContentInv, BatchIsCurrent
  <2> QED
    BY <2>2, <2>3
<1>9. ScanParamsStayValid'
  BY <1>1, NoScanParams DEF scanVars
<1>10. ~bioErr'
  BY <1>1 DEF ContentInv, bioVars
<1> QED
  BY <1>6, <1>7, <1>8, <1>9, <1>10 DEF ContentInv

\* The bio thread serialises groups that cannot change any more.
LEMMA BioBatchContent ==
  ASSUME OwnershipInv, ContentInv, BioTake \/ BioSerialize
  PROVE  ContentInv'
<1>1. UNCHANGED <<metaVars, storeVars, pc, cmdVars, scanVars, jobs, bioErr,
                  histVars>>
  BY DEF BioTake, BioSerialize
<1>2. RowsAccountedFor' /\ PersistedIsStored'
  BY <1>1 DEF ContentInv, RowsAccountedFor, PersistedIsStored, metaVars,
              storeVars, histVars
<1>3. ScanParamsStayValid'
  BY <1>1 DEF ContentInv, ScanParamsStayValid, scanVars, cmdVars, storeVars,
              histVars
<1>4. BatchIsCurrent'
  <2>1. CASE BioTake
    BY <2>1 DEF BioTake, BatchIsCurrent
  <2>2. CASE BioSerialize
    <3> DEFINE k == jobs[1][bioIdx + 1]
               r == relation[k]
    <3>1. /\ bioPc = "serialize" /\ bioPc' = bioPc /\ bioIdx < Len(Head(jobs))
          /\ bioIdx' = bioIdx + 1
          /\ writeBatch' = Append(writeBatch, relation[Head(jobs)[bioIdx + 1]])
      BY <2>2 DEF BioSerialize
    <3>2. /\ Head(jobs) = jobs[1] /\ Len(jobs[1]) \in Nat /\ bioIdx \in Nat
          /\ 1 \in 1 .. Len(jobs)
          /\ \A i \in 1 .. Len(jobs[1]) : jobs[1][i] \in DataKeys
      BY <3>1, RunningJob
    <3>3. bioIdx + 1 \in 1 .. Len(jobs[1]) /\ k \in DataKeys
      BY <3>1, <3>2
    <3>4. Pending(1, bioIdx + 1)
      BY <3>1, <3>2, <3>3 DEF Pending
    <3>5. location[k] = "FLUSH"
      BY <3>2, <3>3, <3>4 DEF OwnershipInv, PendingIsInMemory
    <3>6. r = inserted[k] /\ r \in Seq(Nat)
      BY <3>3, <3>5 DEF ContentInv, RowsAccountedFor, OwnershipInv, TypeOK,
                        StoreTypes
    <3>7. writeBatch' = Append(writeBatch, r)
      BY <3>1, <3>2
    <3>8. writeBatch \in Seq(Seq(Nat)) /\ Len(writeBatch) = bioIdx
      BY <3>1 DEF OwnershipInv, TypeOK, BioTypes
    <3> HIDE DEF k, r
    <3>9. /\ writeBatch'[bioIdx + 1] = r
          /\ \A i \in 1 .. bioIdx : writeBatch'[i] = writeBatch[i]
      BY <3>6, <3>7, <3>8
    <3>10. \A i \in 1 .. bioIdx' : i \in 1 .. bioIdx \/ i = bioIdx + 1
      BY <3>1, <3>2
    <3>11. \A i \in 1 .. bioIdx : writeBatch[i] = inserted[jobs[1][i]]
      BY <3>1, <3>2 DEF ContentInv, BatchIsCurrent
    <3>12. \A i \in 1 .. bioIdx' : writeBatch'[i] = inserted[jobs[1][i]]
      BY <3>6, <3>9, <3>10, <3>11 DEF k
    <3>13. inserted' = inserted /\ jobs' = jobs
      BY <1>1 DEF histVars
    <3> QED
      BY <3>1, <3>2, <3>12, <3>13 DEF BatchIsCurrent
  <2> QED
    BY <2>1, <2>2
<1> QED
  BY <1>1, <1>2, <1>3, <1>4 DEF ContentInv

\* rocksdb_write stores every group of the batch with all of its rows, and
\* touches no other.
LEMMA BioWriteContent ==
  ASSUME OwnershipInv, ContentInv, BioWrite(TRUE)
  PROVE  ContentInv'
<1> DEFINE In(k) == \E i \in 1 .. bioIdx : Head(jobs)[i] = k
           At(k) == CHOOSE i \in 1 .. bioIdx : Head(jobs)[i] = k
<1>1. /\ bioPc = "serialize" /\ bioIdx = Len(Head(jobs))
      /\ bioErr' = ~TRUE /\ bioPc' = "mark" /\ bioIdx' = 0
      /\ UNCHANGED <<metaVars, location, relation, usedMemory, queueVars, pc,
                     cmdVars, scanVars, jobs, writeBatch, fault, histVars>>
      /\ rocks' = [k \in DataKeys |->
                     IF TRUE /\ In(k) THEN writeBatch[At(k)] ELSE rocks[k]]
  BY DEF BioWrite
<1>2. /\ Head(jobs) = jobs[1] /\ Len(jobs[1]) \in Nat /\ bioIdx \in Nat
      /\ \A i \in 1 .. Len(jobs[1]) : jobs[1][i] \in DataKeys
  BY <1>1, RunningJob
<1>3. \A k \in DataKeys : In(k) => rocks'[k] = inserted[k]
  <2> SUFFICES ASSUME NEW k \in DataKeys, In(k)
               PROVE  rocks'[k] = inserted[k]
    OBVIOUS
  <2>1. At(k) \in 1 .. bioIdx /\ Head(jobs)[At(k)] = k
    OBVIOUS
  <2>2. rocks'[k] = writeBatch[At(k)]
    BY <1>1
  <2> HIDE DEF At
  <2>3. writeBatch[At(k)] = inserted[Head(jobs)[At(k)]]
    BY <1>1, <2>1 DEF ContentInv, BatchIsCurrent
  <2> QED
    BY <2>1, <2>2, <2>3
<1>4. \A k \in DataKeys : ~In(k) => rocks'[k] = rocks[k]
  BY <1>1
<1>5. \A i \in 1 .. Len(jobs[1]) : In(jobs[1][i])
  BY <1>1, <1>2
<1> HIDE DEF In
<1>6. /\ rowNumber' = rowNumber /\ location' = location /\ relation' = relation
      /\ inserted' = inserted /\ jobs' = jobs /\ scanParams' = scanParams
      /\ req' = req /\ rowgroup' = rowgroup /\ pc' = pc
  BY <1>1 DEF metaVars, histVars, scanVars, cmdVars
<1>7. RowsAccountedFor'
  BY <1>6 DEF ContentInv, RowsAccountedFor
<1>8. PersistedIsStored'
  BY <1>3, <1>4, <1>6 DEF ContentInv, PersistedIsStored
<1>9. BatchIsCurrent'
  BY <1>1, <1>2, <1>3, <1>5, <1>6 DEF BatchIsCurrent
<1>10. ScanParamsStayValid'
  <2> SUFFICES ASSUME NEW g \in 1 .. Len(scanParams)
               PROVE  LET k == <<req.p, g>> IN
                      /\ scanParams[g].rowCount = Len(inserted[k])
                      /\ inserted[k] = IF scanParams[g].isInRocksDb THEN rocks'[k]
                                                                    ELSE relation[k]
    BY <1>6 DEF ScanParamsStayValid
  <2> DEFINE k == <<req.p, g>>
  <2>1. /\ scanParams[g].rowCount = Len(inserted[k])
        /\ inserted[k] = IF scanParams[g].isInRocksDb THEN rocks[k]
                                                      ELSE relation[k]
    BY DEF ContentInv, ScanParamsStayValid
  <2>2. k \in DataKeys
    <3>1. scanParams # << >>
      BY EmptyIsIn
    <3>2. req.p \in Partitions /\ Len(scanParams) <= rowgroup[req.p]
      BY <3>1 DEF OwnershipInv, PcMatchesReq, ScanRequests
    <3>3. /\ rowgroup[req.p] \in 0 .. MaxGroups /\ MaxGroups \in Nat
          /\ Len(scanParams) \in Nat
      BY <3>2, TieringConstants, LenOfSeq
         DEF OwnershipInv, TypeOK, StoreTypes, ScanTypes
    <3> QED
      BY <3>2, <3>3 DEF DataKeys, Groups
  <2>3. rocks'[k] = rocks[k] \/ rocks'[k] = inserted[k]
    BY <1>3, <1>4, <2>2
  <2> HIDE DEF k
  <2>4. inserted[k] = IF scanParams[g].isInRocksDb THEN rocks'[k] ELSE relation[k]
    BY <2>1, <2>3
  <2> QED
    BY <2>1, <2>4 DEF k
<1> QED
  BY <1>1, <1>7, <1>8, <1>9, <1>10 DEF ContentInv

\* A group is marked after it is written, and a finished batch leaves no trace.
LEMMA BioMarkContent ==
  ASSUME OwnershipInv, ContentInv, BioMark \/ BioFinish
  PROVE  ContentInv'
<1>1. /\ bioPc = "mark"
      /\ UNCHANGED <<metaVars, relation, rocks, cmdVars, scanVars, bioErr, histVars>>
  BY DEF BioMark, BioFinish, storeVars
<1>2. ScanParamsStayValid' /\ ~bioErr'
  BY <1>1 DEF ContentInv, ScanParamsStayValid, scanVars, cmdVars, histVars
<1>3. /\ rowNumber' = rowNumber /\ inserted' = inserted /\ relation' = relation
      /\ rocks' = rocks
  BY <1>1 DEF metaVars, histVars
<1>4. CASE BioFinish
  <2>1. location' = location /\ bioPc' = "wait"
    BY <1>4 DEF BioFinish, ContentInv, storeVars
  <2>2. RowsAccountedFor' /\ PersistedIsStored'
    BY <1>3, <2>1 DEF ContentInv, RowsAccountedFor, PersistedIsStored
  <2>3. BatchIsCurrent'
    BY <2>1 DEF BatchIsCurrent
  <2> QED
    BY <1>2, <2>2, <2>3 DEF ContentInv
<1>5. CASE BioMark
  <2> DEFINE k == jobs[1][bioIdx + 1]
  <2>1. /\ bioIdx < Len(Head(jobs))
        /\ location' = [location EXCEPT ![Head(jobs)[bioIdx + 1]] = "PERSISTED"]
        /\ bioIdx' = bioIdx + 1 /\ bioPc' = bioPc /\ jobs' = jobs
    BY <1>5 DEF BioMark
  <2>2. /\ Head(jobs) = jobs[1] /\ Len(jobs[1]) \in Nat /\ bioIdx \in Nat
        /\ 1 \in 1 .. Len(jobs)
        /\ \A i \in 1 .. Len(jobs[1]) : jobs[1][i] \in DataKeys
    BY <1>1, RunningJob
  <2>3. bioIdx + 1 \in 1 .. Len(jobs[1]) /\ k \in DataKeys /\ bioIdx + 1 > bioIdx
    BY <2>1, <2>2
  <2>4. Pending(1, bioIdx + 1)
    BY <2>2, <2>3 DEF Pending
  <2>5. location[k] = "FLUSH" /\ location \in [DataKeys -> Locations]
    BY <2>2, <2>3, <2>4
       DEF OwnershipInv, PendingIsInMemory, TypeOK, StoreTypes
  <2>6. rocks[k] = inserted[k]
    BY <1>1, <2>2, <2>3 DEF ContentInv, BatchIsCurrent
  <2>7. /\ location'[k] = "PERSISTED"
        /\ \A e \in DataKeys \ {k} : location'[e] = location[e]
    BY <2>1, <2>2, <2>3, <2>5
  <2>8. BatchIsCurrent'
    BY <1>1, <1>3, <2>1, <2>2 DEF ContentInv, BatchIsCurrent
  <2> HIDE DEF k
  <2>9. RowsAccountedFor'
    BY <1>3, <2>3, <2>5, <2>7 DEF ContentInv, RowsAccountedFor
  <2>10. PersistedIsStored'
    BY <1>3, <2>6, <2>7 DEF ContentInv, PersistedIsStored
  <2> QED
    BY <1>2, <2>8, <2>9, <2>10 DEF ContentInv
<1> QED
  BY <1>4, <1>5

LEMMA NextContent ==
  ASSUME ~WriteMayFail, OwnershipInv, ContentInv, [Next]_vars
  PROVE  ContentInv'
<1>1. CASE Commands
  BY <1>1, QuietContent DEF Commands
<1>2. CASE MainStep
  BY <1>2, QuietContent, ScanContent, BatchTakeContent, BatchSubmitContent,
     LoopClearContent, WriteContent DEF MainStep
<1>3. CASE BioStep
  BY <1>3, BioBatchContent, BioWriteContent, BioMarkContent DEF BioStep
<1>4. CASE UNCHANGED vars
  <2>1. UNCHANGED <<metaVars, storeVars, cmdVars, scanVars, jobs, bioVars,
                    histVars>>
    BY <1>4 DEF vars
  <2>2. ScanParamsStayValid'
    BY <2>1 DEF ContentInv, ScanParamsStayValid, scanVars, cmdVars, storeVars,
                histVars
  <2> QED
    BY <2>1, <2>2, ContentFrame DEF metaVars, storeVars, bioVars, histVars
<1> QED
  BY <1>1, <1>2, <1>3, <1>4 DEF Next

\* Where the rows of a group are, at every step of either thread.
THEOREM RowsStay == ~WriteMayFail => (Spec => []ContentInv)
<1> SUFFICES ASSUME ~WriteMayFail
             PROVE  Spec => []ContentInv
  OBVIOUS
<1>1. OwnershipInv /\ ContentInv /\ [Next]_vars => ContentInv'
  BY NextContent
<1> QED
  BY <1>1, InitContent, Ownership, PTL DEF Spec

\* A group marked PERSISTED or cleared from memory is in RocksDB with all of
\* its rows, if no write fails.
THEOREM NothingLost == ~WriteMayFail => (Spec => []PersistedIsStored)
<1> SUFFICES ASSUME ~WriteMayFail
             PROVE  Spec => []PersistedIsStored
  OBVIOUS
<1>1. ContentInv => PersistedIsStored
  BY DEF ContentInv
<1> QED
  BY <1>1, RowsStay, PTL

\* A scan reads every group from a place that has all of its rows, however the
\* bio thread interleaves with it.
THEOREM ScanNeverStale == ~WriteMayFail => (Spec => []ScanParamsStayValid)
<1> SUFFICES ASSUME ~WriteMayFail
             PROVE  Spec => []ScanParamsStayValid
  OBVIOUS
<1>1. ContentInv => ScanParamsStayValid
  BY DEF ContentInv
<1> QED
  BY <1>1, RowsStay, PTL
=============================================================================
