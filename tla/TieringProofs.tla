---------------------------- MODULE TieringProofs ----------------------------
(*****************************************************************************)
(* OwnershipInv is an invariant of Tiering, without any assumption on        *)
(* RocksDB: the steps of the tiering thread, then those of the clients (the  *)
(* evictions are in TieringEvictProofs).  On it rest that memory has all     *)
(* rows of a group or none, and that a group handed over gets no more rows.  *)
(* ContentInv, which assumes that no write fails, builds on it in            *)
(* TieringContentProofs.                                                     *)
(*****************************************************************************)
EXTENDS TieringEvictProofs

\* The first job is the running one.
LEMMA RunningJob ==
  ASSUME OwnershipInv, bioPc # "wait"
  PROVE  /\ Len(jobs) \in Nat /\ 1 \in 1 .. Len(jobs)
         /\ Head(jobs) = jobs[1] /\ jobs[1] \in Seq(DataKeys)
         /\ Len(jobs[1]) \in Nat /\ bioIdx \in 0 .. Len(jobs[1])
         /\ \A i \in 1 .. Len(jobs[1]) : jobs[1][i] \in DataKeys
<1>1. /\ jobs \in Seq(Seq(DataKeys)) /\ jobs # << >> /\ bioIdx \in Nat
      /\ bioIdx <= Len(Head(jobs))
  BY DEF OwnershipInv, TypeOK, BioTypes
<1>2. Len(jobs) \in Nat /\ 1 \in 1 .. Len(jobs) /\ Head(jobs) = jobs[1]
  BY <1>1
<1>3. /\ jobs[1] \in Seq(DataKeys) /\ Len(jobs[1]) \in Nat
      /\ \A i \in 1 .. Len(jobs[1]) : jobs[1][i] \in DataKeys
  BY <1>2, JobKeys DEF OwnershipInv
<1> QED
  BY <1>1, <1>2, <1>3

\* Nothing is lost of the ownership while the set of pending elements shrinks.
LEMMA PendingShrinks ==
  ASSUME OwnershipInv, UNCHANGED <<jobs, evictKeys, location>>,
         \A a \in 1 .. Len(jobs) : \A i \in 1 .. Len(jobs[a]) :
            Pending(a, i)' => Pending(a, i)
  PROVE  PendingIsInMemory' /\ PendingOnce' /\ BatchIsNew'
<1>1. PendingIsInMemory'
  BY DEF OwnershipInv, PendingIsInMemory
<1>2. PendingOnce'
  BY DEF OwnershipInv, PendingOnce
<1>3. BatchIsNew'
  BY DEF OwnershipInv, BatchIsNew
<1> QED
  BY <1>1, <1>2, <1>3

\* What the bio thread does before it marks is invisible to the ownership.
LEMMA BioQuietOwnership ==
  ASSUME OwnershipInv, bioPc # "mark",
         UNCHANGED <<metaVars, location, relation, usedMemory, queueVars, pc,
                     cmdVars, scanVars, jobs, fault, histVars>>,
         rocks' \in [DataKeys -> Seq(Nat)], BioTypes',
         bioPc' = "serialize" => Len(writeBatch') = bioIdx'
  PROVE  OwnershipInv'
<1>1. CommandTypes' /\ ScanTypes'
  BY ScanTypesFrame DEF OwnershipInv, TypeOK, CommandTypes, cmdVars
<1>2. StoreTypes'
  BY DEF OwnershipInv, TypeOK, StoreTypes, metaVars, histVars
<1>3. TypeOK'
  BY <1>1, <1>2, QueueTypesFrame DEF OwnershipInv, TypeOK
<1>4. PcMatchesReq'
  BY DEF OwnershipInv, PcMatchesReq, cmdVars, scanVars, metaVars
<1>5. FreshGroups' /\ QueuesAgreeWithLocation'
  BY FreshFrame, RingsFrame DEF OwnershipInv, metaVars, queueVars
<1>6. \A a \in 1 .. Len(jobs) : \A i \in 1 .. Len(jobs[a]) :
        Pending(a, i)' => Pending(a, i)
  BY DEF Pending
<1>7. PendingIsInMemory' /\ PendingOnce' /\ BatchIsNew'
  BY <1>6, PendingShrinks DEF cmdVars
<1> QED
  BY <1>3, <1>4, <1>5, <1>7 DEF OwnershipInv

LEMMA BioTakeOwnership ==
  ASSUME OwnershipInv, BioTake
  PROVE  OwnershipInv'
<1>1. /\ bioPc = "wait" /\ jobs # << >>
      /\ bioPc' = "serialize" /\ bioIdx' = 0 /\ writeBatch' = << >>
      /\ UNCHANGED <<metaVars, storeVars, queueVars, pc, cmdVars, scanVars, jobs,
                     bioErr, fault, histVars>>
  BY DEF BioTake
<1>2. /\ rocks' \in [DataKeys -> Seq(Nat)]
      /\ UNCHANGED <<location, relation, usedMemory>>
  BY <1>1 DEF OwnershipInv, TypeOK, StoreTypes, storeVars
<1>3. BioTypes'
  <2>1. jobs \in Seq(Seq(DataKeys))
    BY DEF OwnershipInv, TypeOK, BioTypes
  <2>2. Head(jobs) \in Seq(DataKeys)
    BY <1>1, <2>1, HeadAndTail
  <2>3. 0 <= Len(Head(jobs)) /\ << >> \in Seq(Seq(Nat))
    BY <2>2, LenOfSeq, EmptyIsIn
  <2> QED
    BY <1>1, <2>3 DEF OwnershipInv, TypeOK, BioTypes
<1>4. Len(writeBatch') = bioIdx'
  BY <1>1
<1> QED
  BY <1>1, <1>2, <1>3, <1>4, BioQuietOwnership

LEMMA BioSerializeOwnership ==
  ASSUME OwnershipInv, BioSerialize
  PROVE  OwnershipInv'
<1> DEFINE k == jobs[1][bioIdx + 1]
           r == relation[k]
<1>1. /\ bioPc = "serialize" /\ bioIdx < Len(Head(jobs))
      /\ writeBatch' = Append(writeBatch, relation[Head(jobs)[bioIdx + 1]])
      /\ bioIdx' = bioIdx + 1
      /\ UNCHANGED <<metaVars, storeVars, queueVars, pc, cmdVars, scanVars, jobs,
                     bioPc, bioErr, fault, histVars>>
  BY DEF BioSerialize
<1>0. bioPc = "serialize" /\ bioIdx < Len(Head(jobs))
  BY <1>1
<1>2. /\ Head(jobs) = jobs[1] /\ Len(jobs[1]) \in Nat /\ bioIdx \in Nat
      /\ \A i \in 1 .. Len(jobs[1]) : jobs[1][i] \in DataKeys
  BY <1>0, RunningJob
<1>3. k \in DataKeys
  BY <1>0, <1>2
<1>4. /\ rocks' \in [DataKeys -> Seq(Nat)] /\ r \in Seq(Nat)
      /\ UNCHANGED <<location, relation, usedMemory>>
  BY <1>1, <1>3 DEF OwnershipInv, TypeOK, StoreTypes, storeVars
<1>5. writeBatch' = Append(writeBatch, r)
  BY <1>1, <1>2
<1>6. writeBatch \in Seq(Seq(Nat)) /\ Len(writeBatch) = bioIdx
  BY <1>1 DEF OwnershipInv, TypeOK, BioTypes
<1> HIDE DEF r
<1>7. writeBatch' \in Seq(Seq(Nat)) /\ Len(writeBatch') = bioIdx'
  BY <1>1, <1>4, <1>5, <1>6
<1>8. BioTypes'
  <2>1. bioIdx' \in Nat /\ bioIdx' <= Len(Head(jobs))
    BY <1>0, <1>1, <1>2
  <2>2. jobs \in Seq(Seq(DataKeys)) /\ jobs # << >> /\ bioErr \in BOOLEAN
    BY <1>0 DEF OwnershipInv, TypeOK, BioTypes
  <2> QED
    BY <1>0, <1>1, <1>7, <2>1, <2>2 DEF BioTypes
<1> QED
  BY <1>1, <1>4, <1>7, <1>8, BioQuietOwnership

LEMMA BioWriteOwnership ==
  ASSUME OwnershipInv, NEW ok \in BOOLEAN, BioWrite(ok)
  PROVE  OwnershipInv'
<1>1. /\ bioPc = "serialize" /\ bioIdx = Len(Head(jobs))
      /\ bioErr' = ~ok /\ bioPc' = "mark" /\ bioIdx' = 0
      /\ UNCHANGED <<metaVars, location, relation, usedMemory, queueVars, pc,
                     cmdVars, scanVars, jobs, writeBatch, fault, histVars>>
  BY DEF BioWrite
<1>2. rocks' = [k \in DataKeys |->
                  IF ok /\ \E i \in 1 .. bioIdx : Head(jobs)[i] = k
                  THEN writeBatch[CHOOSE i \in 1 .. bioIdx : Head(jobs)[i] = k]
                  ELSE rocks[k]]
  BY DEF BioWrite
<1>3. /\ writeBatch \in Seq(Seq(Nat)) /\ Len(writeBatch) = bioIdx
      /\ rocks \in [DataKeys -> Seq(Nat)]
  BY <1>1 DEF OwnershipInv, TypeOK, BioTypes, StoreTypes
<1>4. rocks' \in [DataKeys -> Seq(Nat)]
  <2> SUFFICES ASSUME NEW k \in DataKeys
               PROVE  (IF ok /\ \E i \in 1 .. bioIdx : Head(jobs)[i] = k
                       THEN writeBatch[CHOOSE i \in 1 .. bioIdx : Head(jobs)[i] = k]
                       ELSE rocks[k]) \in Seq(Nat)
    BY <1>2
  <2>1. CASE \E i \in 1 .. bioIdx : Head(jobs)[i] = k
    <3>1. (CHOOSE i \in 1 .. bioIdx : Head(jobs)[i] = k) \in 1 .. bioIdx
      BY <2>1
    <3>2. writeBatch[CHOOSE i \in 1 .. bioIdx : Head(jobs)[i] = k] \in Seq(Nat)
      BY <1>3, <3>1, ElementIsIn
    <3> QED
      BY <1>3, <3>2
  <2>2. CASE ~\E i \in 1 .. bioIdx : Head(jobs)[i] = k
    BY <1>3, <2>2
  <2> QED
    BY <2>1, <2>2
<1>5. BioTypes'
  <2>1. Len(Head(jobs)) \in Nat
    BY <1>1, RunningJob
  <2> QED
    BY <1>1, <1>3, <2>1 DEF OwnershipInv, TypeOK, BioTypes
<1> QED
  BY <1>1, <1>4, <1>5, BioQuietOwnership

\* Marking a group makes it no longer pending, and it was pending only once.
LEMMA BioMarkOwnership ==
  ASSUME OwnershipInv, BioMark
  PROVE  OwnershipInv'
<1> DEFINE k == jobs[1][bioIdx + 1]
<1>1. /\ bioPc = "mark" /\ bioIdx < Len(Head(jobs))
      /\ location' = [location EXCEPT ![Head(jobs)[bioIdx + 1]] = "PERSISTED"]
      /\ bioIdx' = bioIdx + 1
      /\ UNCHANGED <<metaVars, relation, rocks, usedMemory, queueVars, pc,
                     cmdVars, scanVars, jobs, bioPc, writeBatch, bioErr, fault,
                     histVars>>
  BY DEF BioMark
<1>0. bioPc = "mark" /\ bioPc' = "mark" /\ bioIdx < Len(Head(jobs))
      /\ bioIdx' = bioIdx + 1 /\ jobs' = jobs /\ evictKeys' = evictKeys
  BY <1>1 DEF cmdVars
<1>2. /\ Len(jobs) \in Nat /\ 1 \in 1 .. Len(jobs) /\ Head(jobs) = jobs[1]
      /\ Len(jobs[1]) \in Nat /\ bioIdx \in Nat
      /\ \A i \in 1 .. Len(jobs[1]) : jobs[1][i] \in DataKeys
  BY <1>0, RunningJob
<1>3. bioIdx + 1 \in 1 .. Len(jobs[1]) /\ k \in DataKeys
  BY <1>0, <1>2
<1>4. Pending(1, bioIdx + 1)
  BY <1>0, <1>2, <1>3 DEF Pending
<1>5. location[k] = "FLUSH" /\ location \in [DataKeys -> Locations]
  BY <1>2, <1>3, <1>4
     DEF OwnershipInv, PendingIsInMemory, TypeOK, StoreTypes
<1>6. /\ location' \in [DataKeys -> Locations]
      /\ location'[k] = "PERSISTED"
      /\ \A e \in DataKeys \ {k} : location'[e] = location[e]
  BY <1>1, <1>2, <1>3, <1>5 DEF Locations
<1>7. \A a \in 1 .. Len(jobs) : \A i \in 1 .. Len(jobs[a]) :
        Pending(a, i)' => Pending(a, i) /\ jobs[a][i] # k
  <2> SUFFICES ASSUME NEW a \in 1 .. Len(jobs), NEW i \in 1 .. Len(jobs[a]),
                      Pending(a, i)'
               PROVE  Pending(a, i) /\ jobs[a][i] # k
    OBVIOUS
  <2>1. a = 1 => i > bioIdx + 1
    BY <1>0 DEF Pending
  <2>2. Len(jobs[a]) \in Nat
    BY JobKeys DEF OwnershipInv
  <2>3. Pending(a, i)
    BY <1>0, <1>2, <2>1, <2>2 DEF Pending
  <2>4. jobs[a][i] = k => a = 1 /\ i = bioIdx + 1
    BY <1>2, <1>3, <1>4, <2>3 DEF OwnershipInv, PendingOnce
  <2> QED
    BY <1>2, <2>1, <2>3, <2>4
<1>8. \A n \in 1 .. Len(evictKeys) : evictKeys[n] # k /\ evictKeys[n] \in DataKeys
  <2>1. \A n \in 1 .. Len(evictKeys) : evictKeys[n] \in DataKeys
    BY ElementIsIn DEF OwnershipInv, TypeOK, CommandTypes
  <2> QED
    BY <1>2, <1>3, <1>4, <2>1 DEF OwnershipInv, BatchIsNew
<1>9. TypeOK'
  <2>1. CommandTypes' /\ ScanTypes'
    BY <1>1, ScanTypesFrame DEF OwnershipInv, TypeOK, CommandTypes, cmdVars
  <2>2. StoreTypes'
    BY <1>1, <1>6 DEF OwnershipInv, TypeOK, StoreTypes, metaVars, histVars
  <2>3. BioTypes'
    BY <1>1, <1>2 DEF OwnershipInv, TypeOK, BioTypes
  <2> QED
    BY <1>1, <2>1, <2>2, <2>3, QueueTypesFrame DEF OwnershipInv, TypeOK
<1>10. PcMatchesReq'
  BY <1>1 DEF OwnershipInv, PcMatchesReq, cmdVars, scanVars, metaVars
<1>11. FreshGroups'
  <2> SUFFICES ASSUME NEW p \in Partitions, NEW g \in Groups, g > rowgroup[p]
               PROVE  location'[<<p, g>>] = "ABSENT" /\ rowNumber[<<p, g>>] = 0
    BY <1>1 DEF FreshGroups, metaVars
  <2>1. location[<<p, g>>] = "ABSENT" /\ rowNumber[<<p, g>>] = 0
    BY DEF OwnershipInv, FreshGroups
  <2>2. <<p, g>> \in DataKeys /\ <<p, g>> # k
    BY <1>5, <2>1 DEF DataKeys
  <2> QED
    BY <1>6, <2>1, <2>2
<1>12. QueuesAgreeWithLocation'
  <2>1. EvictQueue' = EvictQueue /\ FreeQueue' = FreeQueue
    BY <1>1 DEF queueVars
  <2>2. /\ \A e \in Members(EvictQueue) : e \in DataKeys /\ location[e] = "REDIS_ONLY"
        /\ \A e \in Members(FreeQueue) :
              e \in DataKeys /\ location[e] \in {"FLUSH", "PERSISTED"}
        /\ NoEntryTwice(EvictQueue) /\ NoEntryTwice(FreeQueue)
    BY DEF OwnershipInv, QueuesAgreeWithLocation
  <2>3. k \notin Members(EvictQueue)
    BY <1>5, <2>2
  <2> QED
    BY <1>6, <2>1, <2>2, <2>3 DEF QueuesAgreeWithLocation
<1>13. PendingIsInMemory'
  <2>1. \A a \in 1 .. Len(jobs) : \A i \in 1 .. Len(jobs[a]) :
          jobs[a][i] \in DataKeys
    BY JobKeys DEF OwnershipInv
  <2>2. PendingIsInMemory
    BY DEF OwnershipInv
  <2> HIDE DEF k
  <2> SUFFICES ASSUME NEW a \in 1 .. Len(jobs), NEW i \in 1 .. Len(jobs[a]),
                      Pending(a, i)'
               PROVE  location'[jobs[a][i]] = "FLUSH"
    BY <1>0 DEF PendingIsInMemory
  <2>3. Pending(a, i) /\ jobs[a][i] # k
    BY <1>7
  <2>4. location[jobs[a][i]] = "FLUSH"
    BY <2>2, <2>3 DEF PendingIsInMemory
  <2> QED
    BY <1>6, <2>1, <2>3, <2>4
<1>14. PendingOnce'
  <2>1. PendingOnce
    BY DEF OwnershipInv
  <2> HIDE DEF k
  <2> SUFFICES ASSUME NEW a \in 1 .. Len(jobs), NEW b \in 1 .. Len(jobs),
                      NEW i \in 1 .. Len(jobs[a]), NEW j \in 1 .. Len(jobs[b]),
                      Pending(a, i)', Pending(b, j)', jobs[a][i] = jobs[b][j]
               PROVE  a = b /\ i = j
    BY <1>0 DEF PendingOnce
  <2>2. Pending(a, i) /\ Pending(b, j)
    BY <1>7
  <2> QED
    BY <2>1, <2>2 DEF PendingOnce
<1>15. BatchIsNew'
  <2>1. BatchIsNew
    BY DEF OwnershipInv
  <2> HIDE DEF k
  <2> SUFFICES ASSUME NEW n \in 1 .. Len(evictKeys)
               PROVE  /\ location'[evictKeys[n]] = "FLUSH"
                      /\ \A m \in 1 .. Len(evictKeys) :
                            evictKeys[m] = evictKeys[n] => m = n
                      /\ \A a \in 1 .. Len(jobs) : \A i \in 1 .. Len(jobs[a]) :
                            Pending(a, i)' => jobs[a][i] # evictKeys[n]
    BY <1>0 DEF BatchIsNew
  <2>2. location'[evictKeys[n]] = location[evictKeys[n]]
    BY <1>6, <1>8
  <2>3. \A a \in 1 .. Len(jobs) : \A i \in 1 .. Len(jobs[a]) :
          Pending(a, i)' => Pending(a, i)
    BY <1>7
  <2> QED
    BY <2>1, <2>2, <2>3 DEF BatchIsNew
<1>16. bioPc' = "serialize" => Len(writeBatch') = bioIdx'
  BY <1>1
<1> QED
  BY <1>9, <1>10, <1>11, <1>12, <1>13, <1>14, <1>15, <1>16 DEF OwnershipInv

\* A finished job leaves the list with nothing of it pending.
LEMMA BioFinishOwnership ==
  ASSUME OwnershipInv, BioFinish
  PROVE  OwnershipInv'
<1>1. /\ bioPc = "mark" /\ bioIdx = Len(Head(jobs))
      /\ UNCHANGED <<metaVars, storeVars, queueVars, pc, cmdVars, scanVars,
                     bioErr, histVars>>
  BY DEF BioFinish
<1>2. /\ fault' \in {fault, "panic"}
      /\ location' = location /\ evictKeys' = evictKeys
  BY <1>1 DEF BioFinish, storeVars, cmdVars
<1>3. CommandTypes' /\ ScanTypes' /\ StoreTypes'
      /\ IsQueue(EvictQueue', DataKeys) /\ IsQueue(FreeQueue', DataKeys)
  <2>1. CommandTypes'
    BY <1>1, <1>2 DEF OwnershipInv, TypeOK, CommandTypes, cmdVars
  <2> QED
    BY <1>1, <2>1, ScanTypesFrame, StoreTypesFrame, QueueTypesFrame
       DEF OwnershipInv, TypeOK
<1>4. PcMatchesReq'
  BY <1>1 DEF OwnershipInv, PcMatchesReq, cmdVars, scanVars, metaVars
<1>5. FreshGroups' /\ QueuesAgreeWithLocation'
  BY <1>1, FreshFrame, RingsFrame DEF OwnershipInv, metaVars, queueVars, storeVars
<1>6. CASE bioErr
  <2>1. UNCHANGED <<jobs, bioPc, bioIdx, writeBatch>>
    BY <1>6 DEF BioFinish
  <2>2. TypeOK' /\ (bioPc' = "serialize" => Len(writeBatch') = bioIdx')
    BY <1>1, <1>3, <2>1, BioTypesFrame DEF OwnershipInv, TypeOK, bioVars
  <2>3. \A a \in 1 .. Len(jobs) : \A i \in 1 .. Len(jobs[a]) :
          Pending(a, i)' => Pending(a, i)
    BY <2>1 DEF Pending
  <2> QED
    BY <1>2, <1>4, <1>5, <2>1, <2>2, <2>3, PendingShrinks DEF OwnershipInv
<1>7. CASE ~bioErr
  <2>1. jobs' = Tail(jobs) /\ bioPc' = "wait" /\ bioIdx' = 0 /\ writeBatch' = << >>
    BY <1>7 DEF BioFinish
  <2>2. jobs \in Seq(Seq(DataKeys)) /\ jobs # << >> /\ Len(jobs) \in Nat
    BY <1>1, RunningJob DEF OwnershipInv, TypeOK, BioTypes
  <2>3. /\ jobs' \in Seq(Seq(DataKeys)) /\ Len(jobs') = Len(jobs) - 1
        /\ \A a \in 1 .. Len(jobs') : jobs'[a] = jobs[a + 1]
    BY <2>1, <2>2, HeadAndTail
  <2>4. \A a \in 1 .. Len(jobs') :
          /\ a + 1 \in 1 .. Len(jobs) /\ jobs'[a] = jobs[a + 1] /\ a \in Nat
          /\ \A i \in 1 .. Len(jobs'[a]) : Pending(a + 1, i)
    <3>1. \A a \in 1 .. Len(jobs') :
            a \in Nat /\ a + 1 # 1 /\ a + 1 \in 1 .. Len(jobs)
      BY <2>2, <2>3
    <3> QED
      BY <2>3, <3>1 DEF Pending
  <2>5. BioTypes'
    BY <1>1, <2>1, <2>3, EmptyIsIn DEF OwnershipInv, TypeOK, BioTypes
  <2>6. PendingIsInMemory'
    BY <1>2, <2>4 DEF OwnershipInv, PendingIsInMemory
  <2>7. PendingOnce'
    <3> SUFFICES ASSUME NEW a \in 1 .. Len(jobs'), NEW b \in 1 .. Len(jobs'),
                        NEW i \in 1 .. Len(jobs'[a]), NEW j \in 1 .. Len(jobs'[b]),
                        jobs'[a][i] = jobs'[b][j]
                 PROVE  a = b /\ i = j
      BY DEF PendingOnce
    <3>1. a + 1 = b + 1 /\ i = j
      BY <2>4 DEF OwnershipInv, PendingOnce
    <3> QED
      BY <2>4, <3>1
  <2>8. BatchIsNew'
    <3>1. BatchIsNew
      BY DEF OwnershipInv
    <3>2. \A n \in 1 .. Len(evictKeys) :
            \A a \in 1 .. Len(jobs') : \A i \in 1 .. Len(jobs'[a]) :
               jobs'[a][i] # evictKeys[n]
      <4> SUFFICES ASSUME NEW n \in 1 .. Len(evictKeys), NEW a \in 1 .. Len(jobs'),
                          NEW i \in 1 .. Len(jobs'[a])
                   PROVE  jobs'[a][i] # evictKeys[n]
        OBVIOUS
      <4>1. /\ a + 1 \in 1 .. Len(jobs) /\ i \in 1 .. Len(jobs[a + 1])
            /\ jobs'[a][i] = jobs[a + 1][i] /\ Pending(a + 1, i)
        BY <2>4
      <4> QED
        BY <3>1, <4>1 DEF BatchIsNew
    <3> QED
      BY <1>2, <3>1, <3>2 DEF BatchIsNew
  <2> QED
    BY <1>3, <1>4, <1>5, <2>1, <2>5, <2>6, <2>7, <2>8 DEF OwnershipInv, TypeOK
<1>8. bioErr \in BOOLEAN
  BY DEF OwnershipInv, TypeOK, BioTypes
<1> QED
  BY <1>6, <1>7, <1>8

-----------------------------------------------------------------------------
\* The group an FPWRITE goes to is new, or REDIS_ONLY and current; it is
\* enqueued only when it is new.
LEMMA TargetIsWritable ==
  ASSUME OwnershipInv, pc = "write", TargetGroup(req.p) <= MaxGroups
  PROVE  LET p == req.p  n == req.n  k == <<p, TargetGroup(p)>> IN
         /\ p \in Partitions /\ n \in WriteSizes /\ n \in Nat
         /\ k \in DataKeys /\ TargetGroup(p) \in 1 .. MaxGroups
         /\ rowgroup[p] <= TargetGroup(p)
         /\ \/ location[k] = "REDIS_ONLY"
            \/ location[k] = "ABSENT" /\ rowNumber[k] = 0
         /\ Enrolled(p, n) => location[k] = "ABSENT"
<1> DEFINE p == req.p
           n == req.n
           f == FirstGroup(p)
           g == TargetGroup(p)
           k == <<p, g>>
<1>1. req \in WriteRequests
  BY DEF OwnershipInv, PcMatchesReq
<1>2. p \in Partitions /\ n \in WriteSizes /\ n \in Nat
  BY <1>1, TieringConstants DEF WriteRequests
<1>3. /\ rowgroup[p] \in 0 .. MaxGroups /\ MaxGroups \in Nat
      /\ RowgroupSize \in Nat \ {0}
      /\ rowNumber \in [DataKeys -> Nat] /\ location \in [DataKeys -> Locations]
  BY <1>2, TieringConstants DEF OwnershipInv, TypeOK, StoreTypes
<1>4. f = (IF rowgroup[p] = 0 THEN 1 ELSE rowgroup[p])
      /\ f \in Nat \ {0} /\ rowgroup[p] <= f
  BY <1>3 DEF FirstGroup
<1>5. g = f \/ g = f + 1
  BY DEF TargetGroup
<1>6. g \in 1 .. MaxGroups /\ rowgroup[p] <= g /\ f \in 1 .. MaxGroups
  BY <1>3, <1>4, <1>5
<1>7. k \in DataKeys /\ <<p, f>> \in DataKeys
  BY <1>2, <1>6 DEF DataKeys, Groups
<1>8. \A h \in 1 .. MaxGroups :
        h > rowgroup[p] => location[<<p, h>>] = "ABSENT" /\ rowNumber[<<p, h>>] = 0
  BY <1>2 DEF OwnershipInv, FreshGroups, Groups
<1>9. GroupIsFull(p) <=> rowNumber[<<p, f>>] >= RowgroupSize
  BY DEF GroupIsFull
<1>10. ~GroupIsFull(p) /\ ~GroupIsSealed(p) =>
         \/ location[<<p, f>>] = "REDIS_ONLY"
         \/ location[<<p, f>>] = "ABSENT" /\ rowNumber[<<p, f>>] = 0
  BY DEF GroupIsSealed
<1>11. g = IF GroupIsFull(p) \/ GroupIsSealed(p) THEN f + 1 ELSE f
  BY DEF TargetGroup
<1>12. Enrolled(p, n) <=> GroupIsFull(p) \/ (n > 0 /\ location[k] = "ABSENT")
  BY DEF Enrolled
<1> HIDE DEF p, n, f, g
<1>13. \/ location[k] = "REDIS_ONLY"
       \/ location[k] = "ABSENT" /\ rowNumber[k] = 0
  <2>1. CASE g = f + 1
    BY <1>3, <1>4, <1>6, <1>8, <2>1
  <2>2. CASE g = f
    <3>1. ~GroupIsFull(p) /\ ~GroupIsSealed(p)
      BY <1>4, <1>11, <2>2
    <3>2. k = <<p, f>>
      BY <2>2
    <3> QED
      BY <1>10, <3>1, <3>2
  <2> QED
    BY <1>5, <2>1, <2>2
<1>14. Enrolled(p, n) => location[k] = "ABSENT"
  BY <1>3, <1>4, <1>6, <1>8, <1>11, <1>12
<1> QED
  BY <1>2, <1>6, <1>7, <1>13, <1>14 DEF p, n, g

\* fpWriteCommand changes one group, which nothing pending refers to.
LEMMA WriteOwnership ==
  ASSUME OwnershipInv, fpWriteCommand
  PROVE  OwnershipInv'
<1> DEFINE p == req.p
           n == req.n
           g == TargetGroup(p)
           k == <<p, g>>
<1>1. /\ pc = "write" /\ g <= MaxGroups
      /\ rowgroup' = [rowgroup EXCEPT ![p] = g]
      /\ rowNumber' = [rowNumber EXCEPT ![k] = @ + n]
      /\ IF n > 0
         THEN /\ location' = [location EXCEPT ![k] =
                               IF @ = "ABSENT" THEN "REDIS_ONLY" ELSE @]
              /\ relation' = [relation EXCEPT ![k] = @ \o NewRows(p, n)]
         ELSE UNCHANGED <<location, relation>>
      /\ usedMemory' = usedMemory + n
      /\ inserted' = [inserted EXCEPT ![k] = @ \o NewRows(p, n)]
      /\ total' = [total EXCEPT ![p] = @ + n]
      /\ pc' = "idle" /\ req' = NoRequest
      /\ UNCHANGED <<rocks, FreeQueue, count, evictKeys, scanVars, jobs, bioVars>>
  BY DEF fpWriteCommand
<1>2. \/ fault' = "assert" /\ UNCHANGED EvictQueue
      \/ UNCHANGED <<EvictQueue, fault>>
      \/ /\ Enrolled(p, n) /\ EnqueueAsserts(p, n)
         /\ EvictQueue' = enqueue(EvictQueue, k) /\ UNCHANGED fault
  BY DEF fpWriteCommand
<1>3. /\ p \in Partitions /\ n \in WriteSizes /\ n \in Nat
      /\ k \in DataKeys /\ g \in 1 .. MaxGroups /\ rowgroup[p] <= g
      /\ location[k] \in {"REDIS_ONLY", "ABSENT"}
      /\ Enrolled(p, n) => location[k] = "ABSENT"
  BY <1>1, TargetIsWritable
<1>4. EnqueueAsserts(p, n) /\ location[k] = "ABSENT"
        => n > 0 /\ ~CannotExtend(EvictQueue)
  BY <1>3 DEF EnqueueAsserts
<1>5. /\ location \in [DataKeys -> Locations]
      /\ IsQueue(EvictQueue, DataKeys) /\ NoEntryTwice(EvictQueue)
      /\ IsQueue(FreeQueue, DataKeys) /\ NoEntryTwice(FreeQueue)
      /\ \A e \in Members(EvictQueue) : e \in DataKeys /\ location[e] = "REDIS_ONLY"
      /\ \A e \in Members(FreeQueue) :
            e \in DataKeys /\ location[e] \in {"FLUSH", "PERSISTED"}
  BY DEF OwnershipInv, TypeOK, StoreTypes, QueuesAgreeWithLocation
<1>6. /\ rowgroup \in [Partitions -> 0 .. MaxGroups] /\ MaxGroups \in Nat
      /\ rowNumber \in [DataKeys -> Nat]
      /\ relation \in [DataKeys -> Seq(Nat)] /\ inserted \in [DataKeys -> Seq(Nat)]
      /\ usedMemory \in Int /\ total \in [Partitions -> Nat]
  BY TieringConstants DEF OwnershipInv, TypeOK, StoreTypes
<1>7. NewRows(p, n) \in Seq(Nat)
  <2>1. total[p] \in Nat
    BY <1>3, <1>6
  <2> HIDE DEF p, n
  <2> QED
    BY <1>3, <2>1 DEF NewRows
<1> HIDE DEF p, n, g, k
<1>8. /\ location' \in [DataKeys -> Locations]
      /\ \A e \in DataKeys \ {k} : location'[e] = location[e]
      /\ location'[k] \in {location[k], "REDIS_ONLY"}
      /\ n > 0 => location'[k] = "REDIS_ONLY"
  <2>1. CASE n > 0
    BY <1>1, <1>3, <1>5, <2>1 DEF Locations
  <2>2. CASE ~(n > 0)
    BY <1>1, <1>5, <2>2
  <2> QED
    BY <2>1, <2>2
<1>9. \/ EvictQueue' = EvictQueue
      \/ /\ IsQueue(EvictQueue', DataKeys) /\ NoEntryTwice(EvictQueue')
         /\ Members(EvictQueue') \subseteq Members(EvictQueue) \cup {k}
         /\ location'[k] = "REDIS_ONLY"
  <2> SUFFICES ASSUME Enrolled(p, n), EnqueueAsserts(p, n),
                      EvictQueue' = enqueue(EvictQueue, k)
               PROVE  /\ IsQueue(EvictQueue', DataKeys) /\ NoEntryTwice(EvictQueue')
                      /\ Members(EvictQueue') \subseteq Members(EvictQueue) \cup {k}
                      /\ location'[k] = "REDIS_ONLY"
    BY <1>2
  <2>1. location[k] = "ABSENT" /\ n > 0 /\ ~CannotExtend(EvictQueue)
    BY <1>3, <1>4
  <2>2. k \notin Members(EvictQueue)
    BY <1>5, <2>1
  <2>3. /\ IsQueue(EvictQueue', DataKeys) /\ NoEntryTwice(EvictQueue')
        /\ Members(EvictQueue') \subseteq Members(EvictQueue) \cup {k}
    BY <1>3, <1>5, <2>1, <2>2, EnqueueMembers
  <2> QED
    BY <1>8, <2>1, <2>3
<1>10. TypeOK'
  <2>1. StoreTypes'
    <3>1. rowgroup' \in [Partitions -> 0 .. MaxGroups]
      BY <1>1, <1>3, <1>6
    <3>2. rowNumber' \in [DataKeys -> Nat] /\ total' \in [Partitions -> Nat]
      BY <1>1, <1>3, <1>6
    <3>3. inserted' \in [DataKeys -> Seq(Nat)]
      BY <1>1, <1>3, <1>6, <1>7, ConcatIsIn
    <3>4. relation' \in [DataKeys -> Seq(Nat)]
      <4>1. relation[k] \o NewRows(p, n) \in Seq(Nat)
        BY <1>3, <1>6, <1>7, ConcatIsIn
      <4>2. CASE n > 0
        <5>1. relation' = [relation EXCEPT ![k] = relation[k] \o NewRows(p, n)]
          BY <1>1, <4>2
        <5> QED
          BY <1>6, <4>1, <5>1
      <4>3. CASE ~(n > 0)
        BY <1>1, <1>6, <4>3
      <4> QED
        BY <4>2, <4>3
    <3>5. usedMemory' \in Int /\ rocks' \in [DataKeys -> Seq(Nat)]
      <4>1. usedMemory' = usedMemory + n /\ rocks' = rocks /\ n \in Nat
        BY <1>1, <1>3
      <4>2. usedMemory \in Int /\ rocks \in [DataKeys -> Seq(Nat)]
        BY DEF OwnershipInv, TypeOK, StoreTypes
      <4> QED
        BY <4>1, <4>2
    <3> QED
      BY <1>8, <3>1, <3>2, <3>3, <3>4, <3>5 DEF StoreTypes
  <2>2. CommandTypes'
    BY <1>1, <1>2 DEF OwnershipInv, TypeOK, CommandTypes
  <2>3. IsQueue(EvictQueue', DataKeys) /\ IsQueue(FreeQueue', DataKeys)
    BY <1>1, <1>5, <1>9
  <2> QED
    BY <1>1, <2>1, <2>2, <2>3, ScanTypesFrame, BioTypesFrame
       DEF OwnershipInv, TypeOK
<1>11. PcMatchesReq'
  BY <1>1 DEF OwnershipInv, PcMatchesReq, scanVars
<1>12. FreshGroups'
  <2> SUFFICES ASSUME NEW r \in Partitions, NEW h \in Groups, h > rowgroup'[r]
               PROVE  location'[<<r, h>>] = "ABSENT" /\ rowNumber'[<<r, h>>] = 0
    BY DEF FreshGroups
  <2>1. h > rowgroup[r] /\ <<r, h>> # k
    <3>1. h \in Nat
      BY <1>6 DEF Groups
    <3>2. CASE r = p
      BY <1>1, <1>3, <1>6, <3>1, <3>2 DEF k
    <3>3. CASE r # p
      BY <1>1, <1>3, <1>6, <3>1, <3>3 DEF k
    <3> QED
      BY <3>2, <3>3
  <2>2. <<r, h>> \in DataKeys
    BY DEF DataKeys
  <2>3. location[<<r, h>>] = "ABSENT" /\ rowNumber[<<r, h>>] = 0
    BY <2>1 DEF OwnershipInv, FreshGroups
  <2> QED
    BY <1>1, <1>3, <1>6, <1>8, <2>1, <2>2, <2>3
<1>13. QueuesAgreeWithLocation'
  <2>1. FreeQueue' = FreeQueue
    BY <1>1
  <2> QED
    BY <1>3, <1>5, <1>8, <1>9, <2>1 DEF QueuesAgreeWithLocation
<1>14. \A e \in DataKeys : location[e] = "FLUSH" => location'[e] = "FLUSH"
  BY <1>3, <1>8
<1>15. PendingIsInMemory' /\ PendingOnce' /\ BatchIsNew'
  BY <1>1, <1>14, PendingFrame, BatchFrame DEF bioVars
<1>16. bioPc' = "serialize" => Len(writeBatch') = bioIdx'
  BY <1>1 DEF OwnershipInv, bioVars
<1> QED
  BY <1>10, <1>11, <1>12, <1>13, <1>15, <1>16 DEF OwnershipInv

LEMMA NextOwnership == OwnershipInv /\ [Next]_vars => OwnershipInv'
<1> SUFFICES ASSUME OwnershipInv, [Next]_vars
             PROVE  OwnershipInv'
  OBVIOUS
<1>1. CASE Commands
  BY <1>1, QuietOwnership DEF Commands
<1>2. CASE MainStep
  BY <1>2, QuietOwnership, ScanOwnership, BatchTakeOwnership,
     BatchSubmitOwnership, LoopClearOwnership, WriteOwnership DEF MainStep
<1>3. CASE BioStep
  <2>1. \A ok \in {TRUE, ~WriteMayFail} : ok \in BOOLEAN
    BY TieringConstants
  <2> QED
    BY <1>3, <2>1, BioTakeOwnership, BioSerializeOwnership, BioWriteOwnership,
       BioMarkOwnership, BioFinishOwnership DEF BioStep
<1>4. CASE UNCHANGED vars
  <2>1. UNCHANGED <<metaVars, storeVars, queueVars, pc, cmdVars, scanVars, jobs,
                    bioVars, fault, histVars>>
    BY <1>4 DEF vars
  <2>2. TypeOK'
    <3>1. CommandTypes'
      BY <2>1 DEF OwnershipInv, TypeOK, CommandTypes, cmdVars
    <3> QED
      BY <2>1, <3>1, ScanTypesFrame, StoreTypesFrame, QueueTypesFrame,
         BioTypesFrame DEF OwnershipInv, TypeOK
  <2>3. PcMatchesReq'
    BY <2>1 DEF OwnershipInv, PcMatchesReq, cmdVars, scanVars, metaVars
  <2>4. bioPc' = "serialize" => Len(writeBatch') = bioIdx'
    BY <2>1 DEF OwnershipInv, bioVars
  <2>5. UNCHANGED <<rowgroup, rowNumber, location, EvictQueue, FreeQueue, jobs,
                    bioPc, bioIdx, evictKeys>>
    BY <2>1 DEF metaVars, storeVars, queueVars, bioVars, cmdVars
  <2> QED
    BY <2>2, <2>3, <2>4, <2>5, OwnershipFrame DEF OwnershipInv
<1> QED
  BY <1>1, <1>2, <1>3, <1>4 DEF Next

\* The rings, the batch and the jobs agree with the locations forever, whatever
\* the sizes and even when RocksDB writes fail.
THEOREM Ownership == Spec => []OwnershipInv
<1> QED
  BY InitOwnership, NextOwnership, PTL DEF Spec

\* Every variable of the tiering path keeps its type.
THEOREM TypeCorrect == Spec => []TypeOK
<1>1. OwnershipInv => TypeOK
  BY DEF OwnershipInv
<1> QED
  BY <1>1, Ownership, PTL

\* The bio thread never reads or marks a relation dbClear_ has freed.
THEOREM NoUseAfterClear == Spec => []PendingIsInMemory
<1>1. OwnershipInv => PendingIsInMemory
  BY DEF OwnershipInv
<1> QED
  BY <1>1, Ownership, PTL

\* What waits in a ring has the location the ring stands for.
THEOREM RingsAgree == Spec => []QueuesAgreeWithLocation
<1>1. OwnershipInv => QueuesAgreeWithLocation
  BY DEF OwnershipInv
<1> QED
  BY <1>1, Ownership, PTL

\* A step fails an assertion only on a ring that cannot grow.
LEMMA NextAsserts ==
  ASSUME 0 \notin WriteSizes, OwnershipInv, NoAssertFails, [Next]_vars
  PROVE  NoAssertFails'
<1>1. CASE BatchTake
  <2> DEFINE k == RearSlot(EvictQueue)
  <2>1. ~isEmpty(EvictQueue) /\ fault = "none"
    BY <1>1 DEF BatchTake, BatchGoesOn
  <2>2. k \in Members(EvictQueue)
    BY <2>1, RemoveMembers DEF OwnershipInv, TypeOK, QueuesAgreeWithLocation
  <2>3. k \in DataKeys /\ location[k] = "REDIS_ONLY" /\ k # NULL
    BY <2>2, SlotMarksAreNoKeys DEF OwnershipInv, QueuesAgreeWithLocation
  <2>4. dequeueResult(EvictQueue) = k
    BY <2>1 DEF dequeueResult
  <2>5. BestKeyAsserts \/ CannotExtend(FreeQueue)
    BY <2>3, <2>4 DEF BestKeyAsserts
  <2>6. fault' = fault \/ (CannotExtend(FreeQueue) /\ FreeQueue' = FreeQueue)
    BY <1>1, <2>5 DEF BatchTake, queueVars
  <2> QED
    BY <2>1, <2>6 DEF NoAssertFails
<1>2. CASE LoopClear
  BY <1>2, LoopClearOwnership DEF NoAssertFails, LoopClear
<1>3. CASE fpWriteCommand
  <2> DEFINE p == req.p
             n == req.n
             k == <<p, TargetGroup(p)>>
  <2>1. fault = "none" /\ pc = "write" /\ TargetGroup(p) <= MaxGroups
    BY <1>3 DEF fpWriteCommand
  <2>2. n \in WriteSizes /\ n \in Nat
    BY <2>1, TargetIsWritable
  <2>3. n > 0
    BY <2>2
  <2>4. ~EnqueueAsserts(p, n) => CannotExtend(EvictQueue)
    BY <2>3 DEF EnqueueAsserts
  <2>5. fault' = fault \/ (~EnqueueAsserts(p, n) /\ EvictQueue' = EvictQueue)
    BY <1>3 DEF fpWriteCommand
  <2> QED
    BY <2>1, <2>4, <2>5 DEF NoAssertFails
<1>4. CASE BioFinish
  BY <1>4 DEF BioFinish, NoAssertFails
<1>5. CASE /\ Next /\ ~BatchTake /\ ~LoopClear /\ ~fpWriteCommand /\ ~BioFinish
  <2>1. fault = "none" /\ fault' = fault
    BY <1>5 DEF Next, Commands, MainStep, BioStep, StartWrite, StartScan,
       ReplyOOM, RejectWrite, BatchSubmit, LoopDone, LoopForce, PopulateGroup,
       ReadGroup, ReplyScan, BioTake, BioSerialize, BioWrite, BioMark
  <2> QED
    BY <2>1 DEF NoAssertFails
<1>6. CASE UNCHANGED vars
  BY <1>6 DEF vars, queueVars, NoAssertFails, CannotExtend, IsFull, Next1
<1> QED
  BY <1>1, <1>2, <1>3, <1>4, <1>5, <1>6

\* When every FPWRITE carries a row, the assertions of the tiering path hold as
\* long as the rings may grow.
THEOREM AssertionsHold == 0 \notin WriteSizes => (Spec => []NoAssertFails)
<1> SUFFICES ASSUME 0 \notin WriteSizes
             PROVE  Spec => []NoAssertFails
  OBVIOUS
<1>1. Init => NoAssertFails
  BY DEF Init, NoAssertFails
<1>2. OwnershipInv /\ NoAssertFails /\ [Next]_vars => NoAssertFails'
  BY NextAsserts
<1> QED
  BY <1>1, <1>2, Ownership, PTL DEF Spec

\* A group nobody has written to holds nothing.
LEMMA NoRowsYet ==
  ASSUME OwnershipInv, RowsAccountedFor, NEW k \in DataKeys, rowNumber[k] = 0
  PROVE  inserted[k] = << >>
<1>1. inserted[k] \in Seq(Nat)
  BY DEF OwnershipInv, TypeOK, StoreTypes
<1>2. Len(inserted[k]) = 0
  BY DEF RowsAccountedFor
<1> QED
  BY <1>1, <1>2, EmptyIsIn

\* New rows go to a group in memory, or to one nobody has written to.
LEMMA WriteRows ==
  ASSUME OwnershipInv, RowsAccountedFor, fpWriteCommand
  PROVE  RowsAccountedFor'
<1> DEFINE p == req.p
           n == req.n
           k == <<p, TargetGroup(p)>>
           w == NewRows(p, n)
<1>1. /\ pc = "write" /\ TargetGroup(p) <= MaxGroups
      /\ rowNumber' = [rowNumber EXCEPT ![k] = @ + n]
      /\ IF n > 0
         THEN /\ location' = [location EXCEPT ![k] =
                               IF @ = "ABSENT" THEN "REDIS_ONLY" ELSE @]
              /\ relation' = [relation EXCEPT ![k] = @ \o w]
         ELSE UNCHANGED <<location, relation>>
      /\ inserted' = [inserted EXCEPT ![k] = @ \o w]
  BY DEF fpWriteCommand
<1>2. /\ p \in Partitions /\ n \in Nat /\ k \in DataKeys
      /\ \/ location[k] = "REDIS_ONLY"
         \/ location[k] = "ABSENT" /\ rowNumber[k] = 0
  BY <1>1, TargetIsWritable
<1>3. /\ location \in [DataKeys -> Locations] /\ rowNumber \in [DataKeys -> Nat]
      /\ relation \in [DataKeys -> Seq(Nat)] /\ inserted \in [DataKeys -> Seq(Nat)]
      /\ total[p] \in Nat
  BY <1>2 DEF OwnershipInv, TypeOK, StoreTypes
<1>4. w \in Seq(Nat) /\ Len(w) = n
  <2> HIDE DEF p, n
  <2> QED
    BY <1>2, <1>3 DEF NewRows
<1>5. location[k] = "ABSENT" => inserted[k] = << >>
  BY <1>2, NoRowsYet
<1>6. /\ rowNumber[k] = Len(inserted[k])
      /\ relation[k] = inserted[k] /\ inserted[k] \in Seq(Nat)
  BY <1>2, <1>3, <1>5 DEF RowsAccountedFor
<1> HIDE DEF p, n, k, w
<1>7. /\ rowNumber'[k] = rowNumber[k] + n
      /\ inserted'[k] = inserted[k] \o w
      /\ \A e \in DataKeys \ {k} :
            rowNumber'[e] = rowNumber[e] /\ inserted'[e] = inserted[e]
  BY <1>1, <1>2, <1>3
<1>8. \A e \in DataKeys \ {k} :
        location'[e] = location[e] /\ relation'[e] = relation[e]
  BY <1>1, <1>3
<1>9. Len(inserted'[k]) = rowNumber'[k]
  <2>1. Len(inserted[k] \o w) = Len(inserted[k]) + Len(w)
    BY <1>4, <1>6, ConcatIsIn
  <2> QED
    BY <1>4, <1>6, <1>7, <2>1
<1>10. relation'[k] = IF location'[k] = "ABSENT" THEN << >> ELSE inserted'[k]
  <2>1. CASE n > 0
    BY <1>1, <1>2, <1>3, <1>6, <1>7, <2>1
  <2>2. CASE n = 0
    <3>1. location'[k] = location[k] /\ relation'[k] = relation[k]
      BY <1>1, <2>2
    <3>2. w = << >>
      BY <1>4, <2>2, EmptyIsIn
    <3>3. inserted'[k] = inserted[k]
      BY <1>6, <1>7, <3>2, ConcatNothing
    <3> QED
      BY <1>5, <1>6, <3>1, <3>3
  <2> QED
    BY <1>2, <2>1, <2>2
<1> QED
  BY <1>7, <1>8, <1>9, <1>10 DEF RowsAccountedFor

\* dbClear_ frees all rows of a group, and nothing else moves rows.
LEMMA NextRows ==
  ASSUME OwnershipInv, RowsAccountedFor, [Next]_vars
  PROVE  RowsAccountedFor'
<1>1. location \in [DataKeys -> Locations] /\ relation \in [DataKeys -> Seq(Nat)]
  BY DEF OwnershipInv, TypeOK, StoreTypes
<1>2. CASE fpWriteCommand
  BY <1>2, WriteRows
<1>3. CASE LoopClear
  <2> DEFINE k == RearSlot(FreeQueue)
  <2>1. ~isEmpty(FreeQueue) /\ rowNumber' = rowNumber /\ inserted' = inserted
    BY <1>3 DEF LoopClear, metaVars, histVars
  <2>2. k \in Members(FreeQueue)
    BY <2>1, RemoveMembers DEF OwnershipInv, TypeOK, QueuesAgreeWithLocation
  <2>3. k \in DataKeys /\ location[k] \in {"FLUSH", "PERSISTED"} /\ k # NULL
    BY <2>2, SlotMarksAreNoKeys DEF OwnershipInv, QueuesAgreeWithLocation
  <2>4. /\ location' = [location EXCEPT ![k] = "ABSENT"]
        /\ relation' = [relation EXCEPT ![k] = << >>]
    BY <1>3, <2>3 DEF LoopClear, ClearKeyAsserts
  <2> HIDE DEF k
  <2>5. /\ location'[k] = "ABSENT" /\ relation'[k] = << >>
        /\ \A e \in DataKeys \ {k} :
              location'[e] = location[e] /\ relation'[e] = relation[e]
    BY <1>1, <2>3, <2>4
  <2> QED
    BY <2>1, <2>5 DEF RowsAccountedFor
<1>4. CASE BatchTake
  <2> DEFINE k == RearSlot(EvictQueue)
  <2>1. /\ ~isEmpty(EvictQueue)
        /\ rowNumber' = rowNumber /\ inserted' = inserted /\ relation' = relation
    BY <1>4 DEF BatchTake, BatchGoesOn, metaVars, histVars
  <2>2. k \in Members(EvictQueue)
    BY <2>1, RemoveMembers DEF OwnershipInv, TypeOK, QueuesAgreeWithLocation
  <2>3. k \in DataKeys /\ location[k] = "REDIS_ONLY" /\ k # NULL
    BY <2>2, SlotMarksAreNoKeys DEF OwnershipInv, QueuesAgreeWithLocation
  <2>4. dequeueResult(EvictQueue) = k
    BY <2>1 DEF dequeueResult
  <2>5. location' = location \/ location' = [location EXCEPT ![k] = "FLUSH"]
    BY <1>4, <2>4 DEF BatchTake
  <2> HIDE DEF k
  <2>6. \A e \in DataKeys : location'[e] = "ABSENT" <=> location[e] = "ABSENT"
    BY <1>1, <2>3, <2>5
  <2> QED
    BY <2>1, <2>6 DEF RowsAccountedFor
<1>5. CASE BioMark
  <2> DEFINE k == jobs[1][bioIdx + 1]
  <2>1. /\ bioPc = "mark" /\ bioIdx < Len(Head(jobs))
        /\ location' = [location EXCEPT ![Head(jobs)[bioIdx + 1]] = "PERSISTED"]
        /\ rowNumber' = rowNumber /\ inserted' = inserted /\ relation' = relation
    BY <1>5 DEF BioMark, metaVars, histVars
  <2>2. /\ Head(jobs) = jobs[1] /\ Len(jobs[1]) \in Nat /\ bioIdx \in Nat
        /\ 1 \in 1 .. Len(jobs)
        /\ \A i \in 1 .. Len(jobs[1]) : jobs[1][i] \in DataKeys
    BY <2>1, RunningJob
  <2>3. bioIdx + 1 \in 1 .. Len(jobs[1]) /\ k \in DataKeys /\ bioIdx + 1 > bioIdx
    BY <2>1, <2>2
  <2>4. location[k] = "FLUSH"
    BY <2>2, <2>3 DEF OwnershipInv, PendingIsInMemory, Pending
  <2>5. location' = [location EXCEPT ![k] = "PERSISTED"]
    BY <2>1, <2>2
  <2> HIDE DEF k
  <2>6. \A e \in DataKeys : location'[e] = "ABSENT" <=> location[e] = "ABSENT"
    BY <1>1, <2>3, <2>4, <2>5
  <2> QED
    BY <2>1, <2>6 DEF RowsAccountedFor
<1>6. CASE /\ \/ Next /\ ~fpWriteCommand /\ ~LoopClear /\ ~BatchTake /\ ~BioMark
              \/ UNCHANGED vars
  <2>1. /\ rowNumber' = rowNumber /\ inserted' = inserted
        /\ relation' = relation /\ location' = location
    BY <1>6 DEF Next, Commands, MainStep, BioStep, StartWrite, StartScan,
       ReplyOOM, RejectWrite, BatchSubmit, LoopDone, LoopForce, PopulateGroup,
       ReadGroup, ReplyScan, BioTake, BioSerialize, BioWrite, BioFinish,
       metaVars, storeVars, histVars, vars
  <2> QED
    BY <2>1 DEF RowsAccountedFor
<1> QED
  BY <1>2, <1>3, <1>4, <1>5, <1>6

\* Metadict counts the rows inserted into a group, and memory holds all of them
\* or none, even when RocksDB writes fail (fpWriteCommand, dbClear_).
THEOREM MemoryIsExact == Spec => []RowsAccountedFor
<1>1. Init => RowsAccountedFor
  BY EmptyIsIn DEF Init, RowsAccountedFor
<1> QED
  BY <1>1, NextRows, Ownership, PTL DEF Spec

\* fpWriteCommand never adds a row to a group that has been handed to the bio
\* thread, even when RocksDB writes fail.
THEOREM SealedStaySealed == Spec => SealedGroupsFrozen
<1> DEFINE Frozen == \A k \in DataKeys :
                       inserted'[k] # inserted[k] =>
                          location[k] = "REDIS_ONLY" \/ inserted[k] = << >>
<1>1. OwnershipInv /\ RowsAccountedFor /\ [Next]_vars => [Frozen]_vars
  <2> SUFFICES ASSUME OwnershipInv, RowsAccountedFor, Next
               PROVE  Frozen
    OBVIOUS
  <2>1. CASE fpWriteCommand
    <3> DEFINE k == <<req.p, TargetGroup(req.p)>>
    <3>1. /\ pc = "write" /\ TargetGroup(req.p) <= MaxGroups
          /\ inserted' = [inserted EXCEPT ![k] = @ \o NewRows(req.p, req.n)]
      BY <2>1 DEF fpWriteCommand
    <3>2. /\ k \in DataKeys
          /\ \/ location[k] = "REDIS_ONLY"
             \/ location[k] = "ABSENT" /\ rowNumber[k] = 0
      BY <3>1, TargetIsWritable
    <3>3. location[k] = "REDIS_ONLY" \/ inserted[k] = << >>
      BY <3>2, NoRowsYet
    <3>4. inserted \in [DataKeys -> Seq(Nat)]
      BY DEF OwnershipInv, TypeOK, StoreTypes
    <3> HIDE DEF k
    <3> QED
      BY <3>1, <3>3, <3>4
  <2>2. CASE ~fpWriteCommand
    <3>1. inserted' = inserted
      BY <2>2 DEF Next, Commands, MainStep, BioStep, StartWrite, StartScan,
         ReplyOOM, RejectWrite, BatchTake, BatchSubmit, LoopDone, LoopClear,
         LoopForce, PopulateGroup, ReadGroup, ReplyScan, BioTake, BioSerialize, BioWrite,
         BioMark, BioFinish, histVars
    <3> QED
      BY <3>1
  <2> QED
    BY <2>1, <2>2
<1>2. SealedGroupsFrozen <=> [][Frozen]_vars
  BY DEF SealedGroupsFrozen
<1> HIDE DEF Frozen
<1> QED
  BY <1>1, <1>2, MemoryIsExact, Ownership, PTL DEF Spec
=============================================================================
