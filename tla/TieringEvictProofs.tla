------------------------- MODULE TieringEvictProofs --------------------------
(***************************************************************************)
(* Proofs about Tiering, for any number of partitions, groups, rows and    *)
(* jobs and any sizes of the rings: OwnershipInv holds initially, and the  *)
(* main thread's eviction steps and its reads preserve it.                 *)
(***************************************************************************)
EXTENDS Tiering, ArrayQueueProofs

\* Facts about sequences, in the form the steps below need them.

LEMMA EmptyIsIn ==
  ASSUME NEW S
  PROVE  << >> \in Seq(S) /\ Len(<< >>) = 0 /\ \A s \in Seq(S) : s # << >> => Len(s) \in Nat \ {0}
  OBVIOUS

LEMMA LenOfSeq ==
  ASSUME NEW S, NEW s \in Seq(S)
  PROVE  Len(s) \in Nat /\ s \in [1 .. Len(s) -> S] /\ DOMAIN s = 1 .. Len(s)
  OBVIOUS

LEMMA ElementIsIn ==
  ASSUME NEW S, NEW s \in Seq(S), NEW i \in 1 .. Len(s)
  PROVE  s[i] \in S
  OBVIOUS

LEMMA ConcatIsIn ==
  ASSUME NEW S, NEW s \in Seq(S), NEW t \in Seq(S)
  PROVE  s \o t \in Seq(S) /\ Len(s \o t) = Len(s) + Len(t)
  OBVIOUS

LEMMA ConcatNothing ==
  ASSUME NEW S, NEW s \in Seq(S)
  PROVE  s \o << >> = s
  OBVIOUS

LEMMA HeadAndTail ==
  ASSUME NEW S, NEW s \in Seq(S), s # << >>
  PROVE  /\ Head(s) \in S /\ Tail(s) \in Seq(S) /\ Len(Tail(s)) = Len(s) - 1
         /\ \A i \in 1 .. Len(Tail(s)) : Tail(s)[i] = s[i + 1]
  OBVIOUS

\* The rings the server creates are empty, and so is everything else.
LEMMA InitOwnership == Init => OwnershipInv
<1> SUFFICES ASSUME Init PROVE OwnershipInv
  OBVIOUS
<1>1. /\ IsQueue(EvictQueue, DataKeys) /\ Members(EvictQueue) = {}
      /\ NoEntryTwice(EvictQueue)
  BY CreateMembers, TieringConstants, QueueMaxAssumption DEF Init
<1>2. /\ IsQueue(FreeQueue, DataKeys) /\ Members(FreeQueue) = {}
      /\ NoEntryTwice(FreeQueue)
  BY CreateMembers, TieringConstants, QueueMaxAssumption DEF Init
<1>3. TypeOK
  <2>1. StoreTypes
    BY TieringConstants DEF Init, StoreTypes, Locations
  <2>2. CommandTypes
    BY DEF Init, CommandTypes
  <2>3. ScanTypes
    BY DEF Init, ScanTypes
  <2>4. BioTypes
    <3>1. << >> \in Seq(Seq(DataKeys)) /\ << >> \in Seq(Seq(Nat))
      BY EmptyIsIn
    <3> QED
      BY <3>1 DEF Init, BioTypes
  <2> QED
    BY <1>1, <1>2, <2>1, <2>2, <2>3, <2>4 DEF TypeOK
<1>4. QueuesAgreeWithLocation
  BY <1>1, <1>2 DEF QueuesAgreeWithLocation
<1>5. FreshGroups
  BY DEF Init, FreshGroups, DataKeys
<1>6. PcMatchesReq /\ PendingIsInMemory /\ PendingOnce /\ BatchIsNew
  BY DEF Init, PcMatchesReq, PendingIsInMemory, PendingOnce, BatchIsNew
<1>7. bioPc = "serialize" => Len(writeBatch) = bioIdx
  BY DEF Init
<1> QED
  BY <1>3, <1>4, <1>5, <1>6, <1>7 DEF OwnershipInv

LEMMA FreshFrame ==
  ASSUME FreshGroups, UNCHANGED <<rowgroup, rowNumber, location>>
  PROVE  FreshGroups'
BY DEF FreshGroups

LEMMA RingsFrame ==
  ASSUME QueuesAgreeWithLocation, UNCHANGED <<location, EvictQueue, FreeQueue>>
  PROVE  QueuesAgreeWithLocation'
<1>1. /\ Members(EvictQueue)' = Members(EvictQueue)
      /\ Members(FreeQueue)' = Members(FreeQueue)
  BY DEF Members, Window
<1>2. NoEntryTwice(EvictQueue)' /\ NoEntryTwice(FreeQueue)'
  BY DEF QueuesAgreeWithLocation, NoEntryTwice, Window
<1> QED
  BY <1>1, <1>2 DEF QueuesAgreeWithLocation

\* Steps that touch neither locations, rings nor jobs keep the ownership, also
\* when they start a new batch.
LEMMA OwnershipFrame ==
  ASSUME OwnershipInv,
         UNCHANGED <<rowgroup, rowNumber, location, EvictQueue, FreeQueue,
                     jobs, bioPc, bioIdx>>,
         evictKeys' = evictKeys \/ evictKeys' = << >>
  PROVE  /\ FreshGroups' /\ QueuesAgreeWithLocation'
         /\ PendingIsInMemory' /\ PendingOnce' /\ BatchIsNew'
<1>1. FreshGroups'
  BY FreshFrame DEF OwnershipInv
<1>2. QueuesAgreeWithLocation'
  BY RingsFrame DEF OwnershipInv
<1>3. PendingIsInMemory'
  BY DEF OwnershipInv, PendingIsInMemory, Pending
<1>4. PendingOnce'
  <2>1. PendingOnce
    BY DEF OwnershipInv
  <2>2. \A a, i : Pending(a, i)' <=> Pending(a, i)
    BY DEF Pending
  <2> QED
    BY <2>1, <2>2 DEF PendingOnce
<1>5. BatchIsNew'
  <2>1. CASE evictKeys' = evictKeys
    BY <2>1 DEF OwnershipInv, BatchIsNew, Pending
  <2>2. CASE evictKeys' = << >>
    BY <2>2 DEF BatchIsNew
  <2> QED
    BY <2>1, <2>2
<1> QED
  BY <1>1, <1>2, <1>3, <1>4, <1>5

\* What a step leaves alone keeps its type.
LEMMA StoreTypesFrame ==
  ASSUME StoreTypes, UNCHANGED <<metaVars, storeVars, histVars>>
  PROVE  StoreTypes'
BY DEF StoreTypes, metaVars, storeVars, histVars

LEMMA QueueTypesFrame ==
  ASSUME TypeOK, UNCHANGED queueVars
  PROVE  IsQueue(EvictQueue, DataKeys)' /\ IsQueue(FreeQueue, DataKeys)'
BY DEF TypeOK, queueVars, IsQueue

LEMMA ScanTypesFrame ==
  ASSUME ScanTypes, UNCHANGED scanVars
  PROVE  ScanTypes'
BY DEF ScanTypes, scanVars

LEMMA BioTypesFrame ==
  ASSUME BioTypes, UNCHANGED <<jobs, bioVars>>
  PROVE  BioTypes'
BY DEF BioTypes, bioVars

\* The steps of the main thread that leave groups alone, those of a scan aside.
LEMMA QuietOwnership ==
  ASSUME OwnershipInv,
         \/ \E p \in Partitions, n \in WriteSizes : StartWrite(p, n)
         \/ ReplyOOM \/ RejectWrite \/ LoopDone \/ LoopForce
         \/ \E p \in Partitions : StartScan(p)
  PROVE  OwnershipInv'
<1>1. /\ UNCHANGED <<metaVars, storeVars, queueVars, scanVars, jobs, bioVars,
                     fault, histVars>>
      /\ count' = count \/ count' = BatchTieringSize
      /\ evictKeys' = evictKeys \/ evictKeys' = << >>
      /\ \/ pc \in {"oom", "write"} /\ pc' = "idle" /\ req' = NoRequest
         \/ pc = "loop" /\ pc' \in {"write", "batch"} /\ req' = req
         \/ /\ pc = "idle" /\ pc' \in {"oom", "batch", "loop", "write"}
            /\ \E p \in Partitions, n \in WriteSizes :
                  req' = [op |-> "write", p |-> p, n |-> n]
         \/ /\ pc = "idle" /\ pc' = "populate"
            /\ \E p \in Partitions : req' = [op |-> "scan", p |-> p]
  BY DEF StartWrite, ReplyOOM, RejectWrite, LoopDone, LoopForce, StartScan,
         cmdVars
<1>2. PcMatchesReq'
  <2>1. scanParams' = scanParams /\ rowgroup' = rowgroup
    BY <1>1 DEF scanVars, metaVars
  <2>2. CASE pc' \in {"populate", "read", "reply"}
    <3>1. PICK p \in Partitions : req' = [op |-> "scan", p |-> p]
      BY <1>1, <2>2
    <3>2. scanParams = << >> /\ rowgroup[p] \in Nat
      <4>1. pc = "idle"
        BY <1>1, <2>2
      <4>2. scanParams = << >>
        BY <4>1 DEF OwnershipInv, PcMatchesReq
      <4>3. rowgroup \in [Partitions -> 0 .. MaxGroups] /\ MaxGroups \in Nat
        BY TieringConstants DEF OwnershipInv, TypeOK, StoreTypes
      <4> QED
        BY <4>2, <4>3
    <3>3. req' \in ScanRequests /\ req'.p = p /\ Len(<< >>) = 0
      BY <3>1 DEF ScanRequests
    <3> QED
      BY <2>1, <2>2, <3>2, <3>3 DEF PcMatchesReq
  <2>3. CASE pc' \notin {"populate", "read", "reply"}
    BY <1>1, <2>1, <2>3 DEF OwnershipInv, PcMatchesReq, WriteRequests
  <2> QED
    BY <2>2, <2>3
<1>3. CommandTypes'
  <2>1. count' \in Int
    BY <1>1, TieringConstants DEF OwnershipInv, TypeOK, CommandTypes
  <2>2. evictKeys' \in Seq(DataKeys)
    BY <1>1, EmptyIsIn DEF OwnershipInv, TypeOK, CommandTypes
  <2>3. req' \in {NoRequest} \cup WriteRequests \cup ScanRequests
    BY <1>1 DEF OwnershipInv, TypeOK, CommandTypes, ScanRequests, WriteRequests
  <2>4. fault' \in {"none", "assert", "panic"}
    BY <1>1 DEF OwnershipInv, TypeOK, CommandTypes
  <2> QED
    BY <1>1, <2>1, <2>2, <2>3, <2>4 DEF CommandTypes
<1>4. TypeOK'
  BY <1>1, <1>3, StoreTypesFrame, QueueTypesFrame, ScanTypesFrame, BioTypesFrame
     DEF OwnershipInv, TypeOK
<1>5. bioPc' = "serialize" => Len(writeBatch') = bioIdx'
  BY <1>1 DEF OwnershipInv, bioVars
<1>6. UNCHANGED <<rowgroup, rowNumber, location, EvictQueue, FreeQueue, jobs,
                  bioPc, bioIdx>>
  BY <1>1 DEF metaVars, storeVars, queueVars, bioVars
<1> QED
  BY <1>1, <1>2, <1>4, <1>5, <1>6, OwnershipFrame DEF OwnershipInv

\* The steps of an FPSCAN.
LEMMA ScanOwnership ==
  ASSUME OwnershipInv, PopulateGroup \/ ReadGroup \/ ReplyScan
  PROVE  OwnershipInv'
<1>1. /\ UNCHANGED <<metaVars, storeVars, queueVars, count, evictKeys, jobs,
                     bioVars, fault, histVars>>
      /\ pc \in {"populate", "read", "reply"}
      /\ \/ pc' \in {"populate", "read", "reply"} /\ req' = req
         \/ pc' = "idle" /\ req' = NoRequest /\ scanParams' = << >>
  BY DEF PopulateGroup, ReadGroup, ReplyScan, cmdVars
<1>0. /\ req.p \in Partitions /\ req \in ScanRequests
      /\ Len(scanParams) \in Nat /\ Len(scanParams) <= rowgroup[req.p]
      /\ rowgroup[req.p] \in 0 .. MaxGroups
      /\ scanParams \in Seq([isInRocksDb : BOOLEAN, rowCount : Nat])
  <2>1. req \in ScanRequests /\ Len(scanParams) <= rowgroup[req.p]
    BY <1>1 DEF OwnershipInv, PcMatchesReq
  <2>2. req.p \in Partitions
    BY <2>1 DEF ScanRequests
  <2>3. /\ scanParams \in Seq([isInRocksDb : BOOLEAN, rowCount : Nat])
        /\ rowgroup \in [Partitions -> 0 .. MaxGroups]
    BY DEF OwnershipInv, TypeOK, ScanTypes, StoreTypes
  <2>4. Len(scanParams) \in Nat
    BY <2>3, LenOfSeq
  <2> QED
    BY <2>1, <2>2, <2>3, <2>4
<1>2. PcMatchesReq'
  <2>1. CASE pc' = "idle" /\ req' = NoRequest /\ scanParams' = << >>
    BY <2>1 DEF PcMatchesReq
  <2>2. CASE pc' \in {"populate", "read", "reply"} /\ req' = req
    <3>1. rowgroup' = rowgroup
      BY <1>1 DEF metaVars
    <3>2. Len(scanParams') <= rowgroup[req.p]
      <4>1. CASE PopulateGroup
        BY <1>0, <4>1 DEF PopulateGroup
      <4>2. CASE ReadGroup
        BY <1>0, <4>2 DEF ReadGroup
      <4>3. CASE ReplyScan
        BY <2>2, <4>3 DEF ReplyScan
      <4> QED
        BY <4>1, <4>2, <4>3
    <3> QED
      BY <1>0, <2>2, <3>1, <3>2 DEF PcMatchesReq
  <2> QED
    BY <1>1, <2>1, <2>2
<1>3. CommandTypes'
  BY <1>1 DEF OwnershipInv, TypeOK, CommandTypes
<1>4. ScanTypes'
  <2>1. CASE PopulateGroup
    <3> DEFINE g == Len(scanParams) + 1
               k == <<req.p, g>>
               d == createRowGroupParameter(k)
    <3>1. g \in Nat \ {0} /\ req.p \in Partitions
          /\ scanParams \in Seq([isInRocksDb : BOOLEAN, rowCount : Nat])
      BY <1>1 DEF OwnershipInv, PcMatchesReq, ScanRequests, TypeOK, ScanTypes
    <3>2. CASE g <= rowgroup[req.p]
      <4>1. k \in DataKeys
        BY <3>1, <3>2, TieringConstants
           DEF OwnershipInv, TypeOK, StoreTypes, DataKeys, Groups
      <4>2. rowNumber[k] \in Nat
        BY <4>1 DEF OwnershipInv, TypeOK, StoreTypes
      <4>3. d \in [isInRocksDb : BOOLEAN, rowCount : Nat]
        BY <4>2 DEF createRowGroupParameter
      <4>4. /\ scanParams' = Append(scanParams, d)
            /\ UNCHANGED <<groupsRead, reply>>
        BY <2>1, <3>2 DEF PopulateGroup
      <4> HIDE DEF d
      <4> QED
        BY <3>1, <4>3, <4>4 DEF OwnershipInv, TypeOK, ScanTypes
    <3>3. CASE ~(g <= rowgroup[req.p])
      BY <2>1, <3>3 DEF PopulateGroup, OwnershipInv, TypeOK, ScanTypes
    <3> QED
      BY <3>2, <3>3
  <2>2. CASE ReadGroup
    <3> DEFINE g == groupsRead + 1
               k == <<req.p, g>>
               rows == IF scanParams[g].isInRocksDb THEN rocks[k] ELSE relation[k]
               n == scanParams[g].rowCount
    <3>1. CASE g <= Len(scanParams)
      <4>1. g \in 1 .. Len(scanParams) /\ g \in Nat
        BY <1>0, <3>1 DEF OwnershipInv, TypeOK, ScanTypes
      <4>2. n \in Nat
        <5>1. scanParams[g] \in [isInRocksDb : BOOLEAN, rowCount : Nat]
          BY <1>0, <4>1, ElementIsIn
        <5> QED
          BY <5>1
      <4>3. k \in DataKeys
        BY <1>0, <4>1, TieringConstants DEF DataKeys, Groups
      <4>4. rows \in Seq(Nat)
        BY <4>3 DEF OwnershipInv, TypeOK, StoreTypes
      <4>5. reply' = reply \o RowsOf(rows, n) /\ groupsRead' = g
            /\ scanParams' = scanParams
        BY <2>2, <3>1 DEF ReadGroup, cachedScan, cachedScanOnRocksDB
      <4>6. reply \in Seq(Nat)
        BY DEF OwnershipInv, TypeOK, ScanTypes
      <4> HIDE DEF rows, n
      <4>7. RowsOf(rows, n) \in Seq(Nat)
        BY <4>2, <4>4 DEF RowsOf
      <4>8. reply' \in Seq(Nat)
        BY <4>5, <4>6, <4>7
      <4> QED
        BY <1>0, <4>1, <4>5, <4>8 DEF ScanTypes
    <3>2. CASE ~(g <= Len(scanParams))
      BY <2>2, <3>2 DEF ReadGroup, OwnershipInv, TypeOK, ScanTypes
    <3> QED
      BY <3>1, <3>2
  <2>3. CASE ReplyScan
    BY <2>3 DEF ReplyScan, ScanTypes
  <2> QED
    BY <2>1, <2>2, <2>3
<1>5. TypeOK'
  BY <1>1, <1>3, <1>4, StoreTypesFrame, QueueTypesFrame, BioTypesFrame
     DEF OwnershipInv, TypeOK
<1>6. bioPc' = "serialize" => Len(writeBatch') = bioIdx'
  BY <1>1 DEF OwnershipInv, bioVars
<1>7. UNCHANGED <<rowgroup, rowNumber, location, EvictQueue, FreeQueue, jobs,
                  bioPc, bioIdx>>
  BY <1>1 DEF metaVars, storeVars, queueVars, bioVars
<1> QED
  BY <1>1, <1>2, <1>5, <1>6, <1>7, OwnershipFrame DEF OwnershipInv

\* Jobs are made of data keys.
LEMMA JobKeys ==
  ASSUME TypeOK, NEW a \in 1 .. Len(jobs)
  PROVE  /\ jobs[a] \in Seq(DataKeys) /\ Len(jobs[a]) \in Nat
         /\ \A i \in 1 .. Len(jobs[a]) : jobs[a][i] \in DataKeys
<1>1. jobs \in Seq(Seq(DataKeys))
  BY DEF TypeOK, BioTypes
<1>2. jobs[a] \in Seq(DataKeys)
  BY <1>1, ElementIsIn
<1> QED
  BY <1>2, ElementIsIn, LenOfSeq

\* What is pending stays so when no group leaves FLUSH.
LEMMA PendingFrame ==
  ASSUME OwnershipInv, UNCHANGED <<jobs, bioPc, bioIdx>>,
         \A k \in DataKeys : location[k] = "FLUSH" => location'[k] = "FLUSH"
  PROVE  PendingIsInMemory' /\ PendingOnce'
<1>1. PendingIsInMemory'
  BY JobKeys DEF OwnershipInv, PendingIsInMemory, Pending
<1>2. PendingOnce'
  BY DEF OwnershipInv, PendingOnce, Pending
<1> QED
  BY <1>1, <1>2

\* So does the batch being filled.
LEMMA BatchFrame ==
  ASSUME OwnershipInv, UNCHANGED <<evictKeys, jobs, bioPc, bioIdx>>,
         \A k \in DataKeys : location[k] = "FLUSH" => location'[k] = "FLUSH"
  PROVE  BatchIsNew'
<1>1. \A n \in 1 .. Len(evictKeys) : evictKeys[n] \in DataKeys
  BY ElementIsIn DEF OwnershipInv, TypeOK, CommandTypes
<1> QED
  BY <1>1 DEF OwnershipInv, BatchIsNew, Pending

\* chooseBestKeyFromQueue_ moves a group from one ring to the other and into
\* the batch.
LEMMA BatchTakeOwnership ==
  ASSUME OwnershipInv, BatchTake
  PROVE  OwnershipInv'
<1> DEFINE k == RearSlot(EvictQueue)
<1>1. /\ pc = "batch" /\ ~isEmpty(EvictQueue)
      /\ UNCHANGED <<metaVars, relation, rocks, usedMemory, pc, req, scanVars,
                     jobs, bioVars, histVars>>
  BY DEF BatchTake, BatchGoesOn
<1>2. /\ location \in [DataKeys -> Locations]
      /\ IsQueue(EvictQueue, DataKeys) /\ NoEntryTwice(EvictQueue)
      /\ IsQueue(FreeQueue, DataKeys) /\ NoEntryTwice(FreeQueue)
      /\ \A e \in Members(EvictQueue) : e \in DataKeys /\ location[e] = "REDIS_ONLY"
      /\ \A e \in Members(FreeQueue) :
            e \in DataKeys /\ location[e] \in {"FLUSH", "PERSISTED"}
  BY DEF OwnershipInv, TypeOK, StoreTypes, QueuesAgreeWithLocation
<1>3. /\ IsQueue(RemoveOldest(EvictQueue), DataKeys)
      /\ k \in Members(EvictQueue)
      /\ Members(RemoveOldest(EvictQueue)) = Members(EvictQueue) \ {k}
      /\ NoEntryTwice(RemoveOldest(EvictQueue))
  BY <1>1, <1>2, RemoveMembers
<1>4. k \in DataKeys /\ location[k] = "REDIS_ONLY" /\ k # NULL
  BY <1>2, <1>3, SlotMarksAreNoKeys
<1>5. dequeueResult(EvictQueue) = k /\ dequeue(EvictQueue) = RemoveOldest(EvictQueue)
  BY <1>1, <1>4 DEF dequeueResult, dequeue
<1>6. PcMatchesReq'
  BY <1>1 DEF OwnershipInv, PcMatchesReq, scanVars, metaVars
<1>7. ScanTypes' /\ BioTypes'
  BY <1>1, ScanTypesFrame, BioTypesFrame DEF OwnershipInv, TypeOK
<1>8. bioPc' = "serialize" => Len(writeBatch') = bioIdx'
  BY <1>1 DEF OwnershipInv, bioVars
<1>9. CASE CannotExtend(FreeQueue)
  <2>1. fault' = "assert" /\ UNCHANGED <<queueVars, location, evictKeys, count>>
    BY <1>9 DEF BatchTake, BestKeyAsserts
  <2>2. TypeOK'
    <3>1. CommandTypes'
      BY <1>1, <2>1 DEF OwnershipInv, TypeOK, CommandTypes
    <3>2. StoreTypes'
      BY <1>1, <2>1, StoreTypesFrame DEF OwnershipInv, TypeOK, storeVars
    <3> QED
      BY <1>7, <2>1, <3>1, <3>2, QueueTypesFrame DEF OwnershipInv, TypeOK
  <2>3. UNCHANGED <<rowgroup, rowNumber, location, EvictQueue, FreeQueue, jobs,
                    bioPc, bioIdx>>
    BY <1>1, <2>1 DEF metaVars, queueVars, bioVars
  <2> QED
    BY <1>6, <1>8, <2>1, <2>2, <2>3, OwnershipFrame DEF OwnershipInv
<1>10. CASE ~CannotExtend(FreeQueue)
  <2>1. /\ EvictQueue' = RemoveOldest(EvictQueue)
        /\ location' = [location EXCEPT ![k] = "FLUSH"]
        /\ FreeQueue' = enqueue(FreeQueue, k)
        /\ evictKeys' = Append(evictKeys, k)
        /\ count' = count - rowNumber[k]
        /\ UNCHANGED fault
    BY <1>4, <1>5, <1>10 DEF BatchTake, BestKeyAsserts
  <2>2. k \notin Members(FreeQueue)
    BY <1>2, <1>4
  <2>3. /\ IsQueue(FreeQueue', DataKeys) /\ NoEntryTwice(FreeQueue')
        /\ Members(FreeQueue') \subseteq Members(FreeQueue) \cup {k}
    BY <1>2, <1>4, <1>10, <2>1, <2>2, EnqueueMembers
  <2> HIDE DEF k
  <2>4. location'[k] = "FLUSH" /\ \A e \in DataKeys \ {k} : location'[e] = location[e]
    BY <1>2, <1>4, <2>1
  <2>5. evictKeys \in Seq(DataKeys)
    BY DEF OwnershipInv, TypeOK, CommandTypes
  <2>6. TypeOK'
    <3>1. CommandTypes'
      <4>1. evictKeys' \in Seq(DataKeys)
        BY <1>4, <2>1, <2>5
      <4>2. count' \in Int
        BY <1>4, <2>1 DEF OwnershipInv, TypeOK, CommandTypes, StoreTypes
      <4> QED
        BY <1>1, <2>1, <4>1, <4>2 DEF OwnershipInv, TypeOK, CommandTypes
    <3>2. StoreTypes'
      <4>1. location' \in [DataKeys -> Locations]
        BY <1>2, <2>1 DEF Locations
      <4> QED
        BY <1>1, <4>1 DEF OwnershipInv, TypeOK, StoreTypes, metaVars, histVars
    <3> QED
      BY <1>3, <1>7, <2>1, <2>3, <3>1, <3>2 DEF TypeOK
  <2>7. FreshGroups'
    <3> SUFFICES ASSUME NEW p \in Partitions, NEW g \in Groups, g > rowgroup[p]
                 PROVE  location'[<<p, g>>] = "ABSENT" /\ rowNumber[<<p, g>>] = 0
      BY <1>1 DEF FreshGroups, metaVars
    <3>1. location[<<p, g>>] = "ABSENT" /\ rowNumber[<<p, g>>] = 0
      BY DEF OwnershipInv, FreshGroups
    <3>2. <<p, g>> \in DataKeys /\ <<p, g>> # k
      BY <1>4, <3>1 DEF DataKeys
    <3> QED
      BY <2>4, <3>1, <3>2
  <2>8. QueuesAgreeWithLocation'
    BY <1>2, <1>3, <1>4, <2>1, <2>3, <2>4 DEF QueuesAgreeWithLocation
  <2>9. PendingIsInMemory' /\ PendingOnce'
    BY <1>1, <2>4, PendingFrame DEF bioVars
  <2>10. BatchIsNew'
    <3>1. \A n \in 1 .. Len(evictKeys) :
            evictKeys[n] \in DataKeys /\ evictKeys[n] # k
      BY <1>4, <2>5, ElementIsIn DEF OwnershipInv, BatchIsNew
    <3>2. \A a \in 1 .. Len(jobs) : \A i \in 1 .. Len(jobs[a]) :
            Pending(a, i) => jobs[a][i] # k
      BY <1>4 DEF OwnershipInv, PendingIsInMemory
    <3>3. /\ Len(evictKeys') = Len(evictKeys) + 1 /\ Len(evictKeys) \in Nat
          /\ evictKeys'[Len(evictKeys) + 1] = k
          /\ \A n \in 1 .. Len(evictKeys) : evictKeys'[n] = evictKeys[n]
      BY <1>4, <2>1, <2>5
    <3>4. \A n \in 1 .. Len(evictKeys') :
            n \in 1 .. Len(evictKeys) \/ n = Len(evictKeys) + 1
      BY <3>3
    <3>5. \A a, i : Pending(a, i)' <=> Pending(a, i)
      BY <1>1 DEF Pending, bioVars
    <3> SUFFICES ASSUME NEW n \in 1 .. Len(evictKeys')
                 PROVE  /\ location'[evictKeys'[n]] = "FLUSH"
                        /\ \A m \in 1 .. Len(evictKeys') :
                              evictKeys'[m] = evictKeys'[n] => m = n
                        /\ \A a \in 1 .. Len(jobs) : \A i \in 1 .. Len(jobs[a]) :
                              Pending(a, i) => jobs[a][i] # evictKeys'[n]
      BY <1>1, <3>5 DEF BatchIsNew
    <3>6. CASE n \in 1 .. Len(evictKeys)
      BY <2>4, <3>1, <3>3, <3>4, <3>6 DEF OwnershipInv, BatchIsNew
    <3>7. CASE n = Len(evictKeys) + 1
      BY <2>4, <3>1, <3>2, <3>3, <3>4, <3>7
    <3> QED
      BY <3>4, <3>6, <3>7
  <2> QED
    BY <1>6, <1>8, <2>6, <2>7, <2>8, <2>9, <2>10 DEF OwnershipInv
<1> QED
  BY <1>9, <1>10

\* dbPersistBatch_ appends the batch to the jobs of the bio thread.
LEMMA BatchSubmitOwnership ==
  ASSUME OwnershipInv, BatchSubmit
  PROVE  OwnershipInv'
<1>1. /\ pc = "batch" /\ pc' = "loop"
      /\ jobs' = Append(jobs, evictKeys)
      /\ evictKeys' = << >> /\ count' = 0
      /\ UNCHANGED <<metaVars, storeVars, queueVars, req, scanVars, bioVars,
                     fault, histVars>>
  BY DEF BatchSubmit
<1>2. /\ jobs \in Seq(Seq(DataKeys)) /\ Len(jobs) \in Nat
      /\ evictKeys \in Seq(DataKeys) /\ Len(evictKeys) \in Nat
  BY DEF OwnershipInv, TypeOK, BioTypes, CommandTypes
<1>3. /\ jobs' \in Seq(Seq(DataKeys))
      /\ Len(jobs') = Len(jobs) + 1
      /\ jobs'[Len(jobs) + 1] = evictKeys
      /\ \A a \in 1 .. Len(jobs) : jobs'[a] = jobs[a]
  BY <1>1, <1>2
<1>4. /\ bioPc' = bioPc /\ bioIdx' = bioIdx /\ writeBatch' = writeBatch
      /\ bioErr' = bioErr /\ location' = location /\ rowgroup' = rowgroup
      /\ rowNumber' = rowNumber /\ EvictQueue' = EvictQueue
      /\ FreeQueue' = FreeQueue /\ scanParams' = scanParams
  BY <1>1 DEF bioVars, storeVars, metaVars, queueVars, scanVars
<1>5. \A a \in 1 .. Len(jobs') : a \in 1 .. Len(jobs) \/ a = Len(jobs) + 1
  BY <1>2, <1>3
<1>6. \A a \in 1 .. Len(jobs) : \A i \in 1 .. Len(jobs[a]) :
        Pending(a, i)' => Pending(a, i)
  BY <1>3, <1>4 DEF Pending
<1>7. TypeOK'
  <2>1. CommandTypes'
    BY <1>1, EmptyIsIn DEF OwnershipInv, TypeOK, CommandTypes
  <2>2. BioTypes'
    <3>1. bioPc # "wait" => jobs' # << >> /\ bioIdx <= Len(Head(jobs'))
      <4> SUFFICES ASSUME bioPc # "wait"
                   PROVE  jobs' # << >> /\ bioIdx <= Len(Head(jobs'))
        OBVIOUS
      <4>1. jobs # << >> /\ bioIdx <= Len(Head(jobs))
        BY DEF OwnershipInv, TypeOK, BioTypes
      <4>2. Head(jobs) = jobs[1] /\ 1 \in 1 .. Len(jobs)
        BY <1>2, <4>1
      <4>3. Head(jobs') = jobs'[1] /\ jobs' # << >>
        BY <1>2, <1>3, EmptyIsIn
      <4> QED
        BY <1>3, <4>1, <4>2, <4>3
    <3> QED
      BY <1>3, <1>4, <3>1 DEF OwnershipInv, TypeOK, BioTypes
  <2> QED
    BY <1>1, <2>1, <2>2, StoreTypesFrame, QueueTypesFrame, ScanTypesFrame
       DEF OwnershipInv, TypeOK
<1>8. PcMatchesReq'
  BY <1>1, <1>4 DEF OwnershipInv, PcMatchesReq
<1>9. FreshGroups' /\ QueuesAgreeWithLocation'
  BY <1>4, FreshFrame, RingsFrame DEF OwnershipInv
<1>10. PendingIsInMemory'
  <2> SUFFICES ASSUME NEW a \in 1 .. Len(jobs'), NEW i \in 1 .. Len(jobs'[a]),
                      Pending(a, i)'
               PROVE  location[jobs'[a][i]] = "FLUSH"
    BY <1>4 DEF PendingIsInMemory
  <2>1. CASE a \in 1 .. Len(jobs)
    BY <1>3, <1>6, <2>1 DEF OwnershipInv, PendingIsInMemory
  <2>2. CASE a = Len(jobs) + 1
    BY <1>3, <2>2 DEF OwnershipInv, BatchIsNew
  <2> QED
    BY <1>5, <2>1, <2>2
<1>11. PendingOnce'
  <2> SUFFICES ASSUME NEW a \in 1 .. Len(jobs'), NEW b \in 1 .. Len(jobs'),
                      NEW i \in 1 .. Len(jobs'[a]), NEW j \in 1 .. Len(jobs'[b]),
                      Pending(a, i)', Pending(b, j)', jobs'[a][i] = jobs'[b][j]
               PROVE  a = b /\ i = j
    BY DEF PendingOnce
  <2>1. CASE a \in 1 .. Len(jobs) /\ b \in 1 .. Len(jobs)
    BY <1>3, <1>6, <2>1 DEF OwnershipInv, PendingOnce
  <2>2. CASE a = Len(jobs) + 1 /\ b = Len(jobs) + 1
    BY <1>3, <2>2 DEF OwnershipInv, BatchIsNew
  <2>3. CASE a = Len(jobs) + 1 /\ b \in 1 .. Len(jobs)
    <3>1. i \in 1 .. Len(evictKeys) /\ evictKeys[i] = jobs[b][j]
          /\ j \in 1 .. Len(jobs[b]) /\ Pending(b, j)
      BY <1>3, <1>6, <2>3
    <3> QED
      BY <2>3, <3>1 DEF OwnershipInv, BatchIsNew
  <2>4. CASE a \in 1 .. Len(jobs) /\ b = Len(jobs) + 1
    <3>1. j \in 1 .. Len(evictKeys) /\ evictKeys[j] = jobs[a][i]
          /\ i \in 1 .. Len(jobs[a]) /\ Pending(a, i)
      BY <1>3, <1>6, <2>4
    <3> QED
      BY <2>4, <3>1 DEF OwnershipInv, BatchIsNew
  <2> QED
    BY <1>5, <2>1, <2>2, <2>3, <2>4
<1>12. BatchIsNew'
  <2>1. evictKeys' = << >>
    BY <1>1
  <2> QED
    BY <2>1 DEF BatchIsNew
<1>13. bioPc' = "serialize" => Len(writeBatch') = bioIdx'
  BY <1>4 DEF OwnershipInv
<1> QED
  BY <1>7, <1>8, <1>9, <1>10, <1>11, <1>12, <1>13 DEF OwnershipInv

\* dbClear_ deletes a group that is PERSISTED, so nothing pending; the entry
\* it finds is one the assertions of dequeueForClear accept.
LEMMA LoopClearOwnership ==
  ASSUME OwnershipInv, LoopClear
  PROVE  OwnershipInv' /\ fault' = fault
<1> DEFINE k == RearSlot(FreeQueue)
<1>1. /\ pc = "loop" /\ ~isEmpty(FreeQueue)
      /\ UNCHANGED <<metaVars, rocks, EvictQueue, pc, cmdVars, scanVars, jobs,
                     bioVars, histVars>>
  BY DEF LoopClear
<1>2. /\ location \in [DataKeys -> Locations]
      /\ IsQueue(EvictQueue, DataKeys) /\ NoEntryTwice(EvictQueue)
      /\ IsQueue(FreeQueue, DataKeys) /\ NoEntryTwice(FreeQueue)
      /\ \A e \in Members(EvictQueue) : e \in DataKeys /\ location[e] = "REDIS_ONLY"
      /\ \A e \in Members(FreeQueue) :
            e \in DataKeys /\ location[e] \in {"FLUSH", "PERSISTED"}
  BY DEF OwnershipInv, TypeOK, StoreTypes, QueuesAgreeWithLocation
<1>3. /\ IsQueue(RemoveOldest(FreeQueue), DataKeys)
      /\ k \in Members(FreeQueue)
      /\ Members(RemoveOldest(FreeQueue)) = Members(FreeQueue) \ {k}
      /\ NoEntryTwice(RemoveOldest(FreeQueue))
  BY <1>1, <1>2, RemoveMembers
<1>4. k \in DataKeys /\ location[k] \in {"FLUSH", "PERSISTED"} /\ k # NULL
  BY <1>2, <1>3, SlotMarksAreNoKeys
<1>5. /\ location[k] = "PERSISTED"
      /\ FreeQueue' = RemoveOldest(FreeQueue)
      /\ location' = [location EXCEPT ![k] = "ABSENT"]
      /\ relation' = [relation EXCEPT ![k] = << >>]
      /\ usedMemory' = usedMemory - Len(relation[k])
      /\ UNCHANGED fault
  BY <1>4 DEF LoopClear, ClearKeyAsserts
<1> HIDE DEF k
<1>6. location'[k] = "ABSENT" /\ \A e \in DataKeys \ {k} : location'[e] = location[e]
  BY <1>2, <1>4, <1>5
<1>7. TypeOK'
  <2>1. CommandTypes'
    BY <1>1, <1>5 DEF OwnershipInv, TypeOK, CommandTypes, cmdVars
  <2>2. StoreTypes'
    <3>1. location' \in [DataKeys -> Locations]
      BY <1>2, <1>5 DEF Locations
    <3>2. relation \in [DataKeys -> Seq(Nat)] /\ usedMemory \in Int
      BY DEF OwnershipInv, TypeOK, StoreTypes
    <3>3. relation' \in [DataKeys -> Seq(Nat)] /\ usedMemory' \in Int
      BY <1>4, <1>5, <3>2, EmptyIsIn, LenOfSeq
    <3> QED
      BY <1>1, <3>1, <3>3 DEF OwnershipInv, TypeOK, StoreTypes, metaVars, histVars
  <2> QED
    BY <1>1, <1>2, <1>3, <1>5, <2>1, <2>2, ScanTypesFrame, BioTypesFrame
       DEF OwnershipInv, TypeOK
<1>8. FreshGroups'
  <2> SUFFICES ASSUME NEW p \in Partitions, NEW g \in Groups, g > rowgroup[p]
               PROVE  location'[<<p, g>>] = "ABSENT" /\ rowNumber[<<p, g>>] = 0
    BY <1>1 DEF FreshGroups, metaVars
  <2>1. location[<<p, g>>] = "ABSENT" /\ rowNumber[<<p, g>>] = 0
    BY DEF OwnershipInv, FreshGroups
  <2>2. <<p, g>> \in DataKeys
    BY DEF DataKeys
  <2> QED
    BY <1>6, <2>1, <2>2
<1>9. QueuesAgreeWithLocation'
  <2>1. EvictQueue' = EvictQueue
    BY <1>1
  <2> QED
    BY <1>2, <1>3, <1>5, <1>6, <2>1 DEF QueuesAgreeWithLocation
<1>10. PendingIsInMemory' /\ PendingOnce' /\ BatchIsNew'
  BY <1>1, <1>5, <1>6, PendingFrame, BatchFrame DEF bioVars, cmdVars
<1>11. PcMatchesReq'
  BY <1>1 DEF OwnershipInv, PcMatchesReq, scanVars, metaVars, cmdVars
<1>12. bioPc' = "serialize" => Len(writeBatch') = bioIdx'
  BY <1>1 DEF OwnershipInv, bioVars
<1> QED
  BY <1>5, <1>7, <1>8, <1>9, <1>10, <1>11, <1>12 DEF OwnershipInv
=============================================================================
