--------------------------- MODULE TieringLogProofs ---------------------------
(***************************************************************************)
(* The tiered store is the append-only log of RelStore, if no write to     *)
(* RocksDB fails.  LogInv, on top of OwnershipInv and ContentInv, says     *)
(* that the row groups of a partition hold consecutive rows, and that the  *)
(* reply of a running scan is the rows of the groups it has read.          *)
(***************************************************************************)
EXTENDS TieringContentProofs, WellFoundedInduction

\* The first n rows of a partition, in order.
Rows(n) == [i \in 1 .. n |-> i]

\* A set of naturals with an element has a least one.
LEMMA NatMin ==
  ASSUME NEW T, T \subseteq Nat, T # {}
  PROVE  \E x \in T : \A y \in T : x <= y
<1> DEFINE R == {ss \in Nat \X Nat : ss[1] < ss[2]}
<1>1. IsWellFoundedOn(R, Nat)
  BY NatLessThanWellFounded, Zenon DEF OpToRel
<1>3. \A x, y \in Nat : y < x => <<y, x>> \in R
  OBVIOUS
<1> HIDE DEF R
<1>2. PICK x \in T : \A y \in T : ~ (<<y, x>> \in R)
  BY <1>1, WFMin, Zenon
<1>4. \A y \in T : x <= y
  <2> TAKE y \in T
  <2>1. x \in Nat /\ y \in Nat /\ ~ (y < x)
    BY <1>2, <1>3
  <2> QED
    BY <2>1
<1> QED
  BY <1>4

\* A function that satisfies the equation of Concat is the one it computes.
LEMMA ConcatIs ==
  ASSUME NEW rows, NEW h, h = [g \in 0 .. MaxGroups |-> IF g = 0 THEN << >> ELSE h[g - 1] \o rows[g]]
  PROVE  Concat(rows) = h[MaxGroups]
<1> DEFINE Fix(f) == f = [g \in 0 .. MaxGroups |-> IF g = 0 THEN << >> ELSE f[g - 1] \o rows[g]]
           u == CHOOSE f : Fix(f)
           T == {g \in 0 .. MaxGroups : u[g] # h[g]}
<1>1. Fix(u)
  BY Zenon
<1>2. Concat(rows) = u[MaxGroups]
  BY Zenon DEF Concat
<1> HIDE DEF u
<1>3. T = {}
  <2>1. SUFFICES ASSUME T # {} PROVE FALSE
    OBVIOUS
  <2>2. PICK g \in T : \A y \in T : g <= y
    <3>1. T \subseteq Nat
      BY TieringConstants
    <3> HIDE DEF T
    <3> QED
      BY <2>1, <3>1, NatMin
  <2>3. g \in 0 .. MaxGroups /\ u[g] # h[g]
    BY <2>2
  <2>4. g # 0
    BY <1>1, <2>3
  <2>5. g - 1 \in 0 .. MaxGroups /\ g - 1 \notin T
    BY <2>2, <2>3, <2>4, TieringConstants
  <2>6. u[g - 1] = h[g - 1]
    BY <2>5
  <2>7. u[g] = u[g - 1] \o rows[g] /\ h[g] = h[g - 1] \o rows[g]
    BY <1>1, <2>3, <2>4
  <2> QED
    BY <2>3, <2>6, <2>7
<1>4. MaxGroups \in 0 .. MaxGroups
  BY TieringConstants
<1> QED
  BY <1>2, <1>3, <1>4

\* Rows n + 1, n + 2, ... after the first n.
LEMMA MoreRows ==
  ASSUME NEW n \in Nat, NEW s \in Seq(Nat), \A i \in 1 .. Len(s) : s[i] = n + i
  PROVE  Rows(n) \o s = Rows(n + Len(s))
<1>1. Rows(n) \in Seq(Nat) /\ Len(Rows(n)) = n /\ Len(s) \in Nat
  BY DEF Rows
<1> DEFINE c == Rows(n) \o s
<1>2. c \in Seq(Nat) /\ Len(c) = n + Len(s)
  BY <1>1
<1>3. \A i \in 1 .. n + Len(s) : c[i] = i
  <2> TAKE i \in 1 .. n + Len(s)
  <2>1. CASE i <= n
    <3>1. c[i] = Rows(n)[i]
      BY <1>1, <2>1
    <3> QED
      BY <3>1, <2>1 DEF Rows
  <2>2. CASE i > n
    <3>1. c[i] = s[i - n] /\ i - n \in 1 .. Len(s)
      BY <1>1, <2>2
    <3> QED
      BY <3>1, <1>1
  <2>3. i <= n \/ i > n
    BY <1>1
  <2> QED
    BY <2>1, <2>2, <2>3
<1> HIDE DEF c
<1>4. c = [i \in 1 .. Len(c) |-> c[i]]
  BY <1>2
<1>5. c = [i \in 1 .. n + Len(s) |-> i]
  BY <1>2, <1>3, <1>4
<1> QED
  BY <1>5 DEF c, Rows

\* Where the rows of each group of p end, e[g] being the number of rows in the
\* groups up to g: groups hold consecutive rows, and none is beyond the current.
Numbered(p, e) ==
    /\ e \in [0 .. MaxGroups -> Nat]
    /\ e[0] = 0
    /\ \A g \in Groups :
          /\ e[g] = e[g - 1] + Len(inserted[<<p, g>>])
          /\ \A i \in 1 .. Len(inserted[<<p, g>>]) : inserted[<<p, g>>][i] = e[g - 1] + i
    /\ \A g \in rowgroup[p] .. MaxGroups : e[g] = total[p]

\* A scan of p has the rows of the groups it has read.
Scanned(p, e) ==
    /\ pc \in {"read", "reply"} /\ req.p = p =>
          /\ Len(scanParams) = rowgroup[p] /\ groupsRead <= rowgroup[p]
          /\ reply = Rows(e[groupsRead])
          /\ pc = "reply" => groupsRead = rowgroup[p]

\* What the groups and a running scan of every partition hold; outside the
\* reading part of a scan there is no reply.
LogInv ==
    /\ \A p \in Partitions : \E e : Numbered(p, e) /\ Scanned(p, e)
    /\ pc \notin {"read", "reply"} => groupsRead = 0 /\ reply = << >>

\* Reading a group from where a scan would read it gives the rows inserted.
LEMMA VisibleIsInserted ==
  ASSUME ContentInv, NEW k \in DataKeys
  PROVE  VisibleRows(k) = inserted[k]
  BY DEF ContentInv, PersistedIsStored, RowsAccountedFor, VisibleRows

\* The rows of a partition, read group by group, are all the rows inserted.
LEMMA VisibleIsAll ==
  ASSUME OwnershipInv, ContentInv, NEW p \in Partitions, NEW e, Numbered(p, e)
  PROVE  VisibleLog(p) = Rows(total[p])
<1> DEFINE rows == [g \in Groups |-> VisibleRows(<<p, g>>)]
           h == [g \in 0 .. MaxGroups |-> Rows(e[g])]
<1>1. \A g \in Groups : /\ rows[g] = inserted[<<p, g>>] /\ inserted[<<p, g>>] \in Seq(Nat)
  BY VisibleIsInserted DEF DataKeys, OwnershipInv, TypeOK, StoreTypes
<1>2. \A g \in Groups : g - 1 \in 0 .. MaxGroups /\ e[g - 1] \in Nat /\ h[g - 1] = Rows(e[g - 1]) /\ h[g] = Rows(e[g])
  BY TieringConstants DEF Groups, Numbered
<1>3. \A g \in Groups : h[g] = h[g - 1] \o rows[g]
  <2> TAKE g \in Groups
  <2>1. Rows(e[g - 1]) \o inserted[<<p, g>>] = Rows(e[g - 1] + Len(inserted[<<p, g>>]))
    BY <1>1, <1>2, MoreRows DEF Numbered
  <2>2. e[g] = e[g - 1] + Len(inserted[<<p, g>>])
    BY DEF Numbered
  <2> QED
    BY <1>1, <1>2, <2>1, <2>2
<1>4. h[0] = << >>
  BY TieringConstants DEF Numbered, Rows
<1> HIDE DEF rows
<1>5. h = [g \in 0 .. MaxGroups |-> IF g = 0 THEN << >> ELSE h[g - 1] \o rows[g]]
  <2>1. \A g \in 0 .. MaxGroups : h[g] = IF g = 0 THEN << >> ELSE h[g - 1] \o rows[g]
    <3> TAKE g \in 0 .. MaxGroups
    <3>1. CASE g = 0
      BY <1>4, <3>1
    <3>2. CASE g # 0
      <4>1. g \in Groups
        BY <3>2, TieringConstants DEF Groups
      <4> HIDE DEF h
      <4> QED
        BY <1>3, <3>2, <4>1
    <3> QED
      BY <3>1, <3>2
  <2>2. h = [g \in 0 .. MaxGroups |-> h[g]]
    OBVIOUS
  <2> HIDE DEF h
  <2> QED
    BY <2>1, <2>2
<1>6. h[MaxGroups] = Rows(total[p])
  <2>1. MaxGroups \in 0 .. MaxGroups /\ MaxGroups \in rowgroup[p] .. MaxGroups
    BY TieringConstants DEF OwnershipInv, TypeOK, StoreTypes
  <2> QED
    BY <2>1 DEF Numbered
<1> HIDE DEF h
<1>7. Concat(rows) = h[MaxGroups]
  BY <1>5, ConcatIs
<1>8. VisibleLog(p) = Concat(rows)
  BY DEF VisibleLog, rows
<1> QED
  BY <1>6, <1>7, <1>8

\* Nothing is inserted yet.
LEMMA InitLog ==
  ASSUME Init PROVE LogInv
<1> DEFINE e == [g \in 0 .. MaxGroups |-> 0]
<1>1. ASSUME NEW p \in Partitions PROVE Numbered(p, e)
  <2>1. \A g \in Groups : inserted[<<p, g>>] = << >> /\ e[g] = 0 /\ e[g - 1] = 0
    BY TieringConstants DEF Init, DataKeys, Groups
  <2>2. e \in [0 .. MaxGroups -> Nat] /\ e[0] = 0
    BY TieringConstants
  <2>3. rowgroup[p] = 0 /\ total[p] = 0 /\ \A g \in 0 .. MaxGroups : e[g] = 0
    BY DEF Init
  <2> HIDE DEF e
  <2> QED
    BY <2>1, <2>2, <2>3 DEF Numbered
<1>2. pc = "idle" /\ groupsRead = 0 /\ reply = << >>
  BY DEF Init
<1> HIDE DEF e
<1> QED
  BY <1>1, <1>2 DEF LogInv, Scanned

\* Steps outside the reading part of a scan, and those of the bio thread.
LEMMA LogFrame ==
  ASSUME LogInv, UNCHANGED <<rowgroup, inserted, total, groupsRead, reply>>,
         \/ UNCHANGED <<pc, req, scanParams>>
         \/ pc \notin {"read", "reply"} /\ pc' \notin {"read", "reply"}
  PROVE  LogInv'
<1>1. ASSUME NEW p \in Partitions, NEW e, Numbered(p, e), Scanned(p, e)
      PROVE  Numbered(p, e)' /\ Scanned(p, e)'
  BY <1>1 DEF Numbered, Scanned
<1> QED
  BY <1>1 DEF LogInv

\* Eviction, the refusals and the bio thread move rows, and number none.
LEMMA QuietLog ==
  ASSUME LogInv,
         \/ UNCHANGED vars
         \/ Commands \/ ReplyOOM \/ RejectWrite \/ LoopDone \/ LoopForce \/ LoopClear \/ BatchTake \/ BatchSubmit
         \/ BioStep
  PROVE  LogInv'
<1>1. CASE UNCHANGED vars
  BY <1>1, LogFrame DEF vars, metaVars, histVars, scanVars, cmdVars
<1>2. CASE Commands \/ ReplyOOM \/ RejectWrite \/ LoopDone \/ LoopForce \/ LoopClear \/ BatchTake \/ BatchSubmit
  <2>1. /\ UNCHANGED <<rowgroup, inserted, total, groupsRead, reply>>
        /\ pc \notin {"read", "reply"} /\ pc' \notin {"read", "reply"}
    BY <1>2 DEF Commands, StartWrite, StartScan, ReplyOOM, RejectWrite, LoopDone, LoopForce, LoopClear, BatchTake,
       BatchSubmit, metaVars, histVars, scanVars
  <2> QED
    BY <2>1, LogFrame
<1>3. CASE BioStep
  <2>1. UNCHANGED <<rowgroup, inserted, total, groupsRead, reply, pc, req, scanParams>>
    BY <1>3 DEF BioStep, BioTake, BioSerialize, BioWrite, BioMark, BioFinish, metaVars, histVars, scanVars, cmdVars
  <2> QED
    BY <2>1, LogFrame
<1> QED
  BY <1>1, <1>2, <1>3

\* rowCount rows from where they are.
LEMMA RowsOfAll ==
  ASSUME NEW s \in Seq(Nat)
  PROVE  RowsOf(s, Len(s)) = s
<1>1. Len(s) \in Nat /\ s = [i \in 1 .. Len(s) |-> s[i]]
  OBVIOUS
<1>2. RowsOf(s, Len(s)) = [i \in 1 .. Len(s) |-> s[i]]
  BY <1>1 DEF RowsOf
<1> QED
  BY <1>1, <1>2

\* fpScanCommand: each group read extends the reply by the next rows.
LEMMA ScanLog ==
  ASSUME OwnershipInv, ContentInv, LogInv, PopulateGroup \/ ReadGroup \/ ReplyScan
  PROVE  LogInv'
<1>1. UNCHANGED <<rowgroup, inserted, total>>
  BY DEF PopulateGroup, ReadGroup, ReplyScan, metaVars, histVars
<1>2. req \in ScanRequests /\ req.p \in Partitions /\ Len(scanParams) <= rowgroup[req.p]
      /\ scanParams \in Seq([isInRocksDb : BOOLEAN, rowCount : Nat])
      /\ rowgroup[req.p] \in 0 .. MaxGroups /\ groupsRead \in Nat
  BY DEF PopulateGroup, ReadGroup, ReplyScan, OwnershipInv, PcMatchesReq, ScanRequests, TypeOK, ScanTypes, StoreTypes
<1>3. \A p \in Partitions : \A e : Numbered(p, e) => Numbered(p, e)'
  BY <1>1 DEF Numbered
<1>4. Len(scanParams) \in Nat
  BY <1>2
<1>5. CASE PopulateGroup
  <2>1. UNCHANGED <<groupsRead, reply, req>> /\ pc = "populate"
    BY <1>5 DEF PopulateGroup, cmdVars
  <2>2. groupsRead = 0 /\ reply = << >>
    BY <2>1 DEF LogInv
  <2>3. CASE Len(scanParams) + 1 <= rowgroup[req.p]
    <3>1. pc' = pc
      BY <1>5, <2>3 DEF PopulateGroup
    <3> QED
      BY <1>1, <2>1, <3>1, LogFrame
  <2>4. CASE ~ (Len(scanParams) + 1 <= rowgroup[req.p])
    <3>1. pc' = "read" /\ scanParams' = scanParams
      BY <1>5, <2>4 DEF PopulateGroup
    <3>2. Len(scanParams) = rowgroup[req.p]
      BY <1>2, <1>4, <2>4, TieringConstants
    <3>3. ASSUME NEW p \in Partitions, NEW e, Numbered(p, e)
          PROVE  Scanned(p, e)'
      <4>1. Rows(e[0]) = << >>
        BY <3>3 DEF Numbered, Rows
      <4> QED
        BY <1>1, <1>2, <2>1, <2>2, <3>1, <3>2, <4>1 DEF Scanned
    <3> QED
      BY <1>3, <3>1, <3>3 DEF LogInv
  <2> QED
    BY <2>3, <2>4
<1>6. CASE ReplyScan
  <2>1. pc' = "idle" /\ groupsRead' = 0 /\ reply' = << >>
    BY <1>6 DEF ReplyScan
  <2> QED
    BY <1>3, <2>1 DEF LogInv, Scanned
<1>7. CASE ReadGroup
  <2>1. pc = "read" /\ UNCHANGED <<req, scanParams>>
    BY <1>7 DEF ReadGroup, cmdVars
  <2> DEFINE g == groupsRead + 1
             k == <<req.p, g>>
             n == scanParams[g].rowCount
  <2>2. CASE g <= Len(scanParams)
    <3>1. /\ pc' = pc /\ groupsRead' = g
          /\ reply' = reply \o (IF scanParams[g].isInRocksDb THEN RowsOf(rocks[k], n) ELSE RowsOf(relation[k], n))
      BY <1>7, <2>2 DEF ReadGroup, cachedScan, cachedScanOnRocksDB
    <3>2. g \in 1 .. Len(scanParams) /\ g \in Groups /\ k \in DataKeys
      BY <1>2, <1>4, <2>2, TieringConstants DEF Groups, DataKeys
    <3>3. /\ n = Len(inserted[k]) /\ inserted[k] \in Seq(Nat)
          /\ inserted[k] = IF scanParams[g].isInRocksDb THEN rocks[k] ELSE relation[k]
      BY <3>2 DEF ContentInv, ScanParamsStayValid, OwnershipInv, TypeOK, StoreTypes
    <3>4. reply' = reply \o inserted[k]
      BY <3>1, <3>3, RowsOfAll
    <3>5. ASSUME NEW p \in Partitions, NEW e, Numbered(p, e), Scanned(p, e)
          PROVE  Scanned(p, e)'
      <4>1. CASE req.p = p
        <5>1. Len(scanParams) = rowgroup[p] /\ reply = Rows(e[groupsRead])
          BY <2>1, <3>5, <4>1 DEF Scanned
        <5>2. g - 1 = groupsRead /\ groupsRead \in 0 .. MaxGroups /\ e[groupsRead] \in Nat
          BY <1>2, <3>2, <3>5, TieringConstants DEF Groups, Numbered
        <5>3. /\ e[g] = e[groupsRead] + Len(inserted[k])
              /\ \A i \in 1 .. Len(inserted[k]) : inserted[k][i] = e[groupsRead] + i
          BY <3>2, <3>5, <4>1, <5>2 DEF Numbered
        <5>4. reply' = Rows(e[g])
          BY <3>3, <3>4, <5>1, <5>2, <5>3, MoreRows
        <5> QED
          BY <1>1, <2>1, <2>2, <3>1, <5>1, <5>4 DEF Scanned
      <4>2. CASE req.p # p
        BY <2>1, <4>2 DEF Scanned
      <4> QED
        BY <4>1, <4>2
    <3> QED
      BY <1>3, <2>1, <3>1, <3>5 DEF LogInv
  <2>3. CASE ~ (g <= Len(scanParams))
    <3>1. pc' = "reply" /\ UNCHANGED <<reply, groupsRead>>
      BY <1>7, <2>3 DEF ReadGroup
    <3>2. ASSUME NEW p \in Partitions, NEW e, Numbered(p, e), Scanned(p, e)
          PROVE  Scanned(p, e)'
      <4>1. req.p = p => Len(scanParams) = rowgroup[p] /\ groupsRead <= rowgroup[p] /\ reply = Rows(e[groupsRead])
        BY <2>1, <3>2 DEF Scanned
      <4>2. req.p = p => groupsRead = rowgroup[p]
        BY <1>2, <1>4, <2>3, <4>1, TieringConstants
      <4> QED
        BY <1>1, <2>1, <3>1, <4>1, <4>2 DEF Scanned
    <3> QED
      BY <1>3, <3>1, <3>2 DEF LogInv
  <2> QED
    BY <2>2, <2>3
<1> QED
  BY <1>5, <1>6, <1>7

\* fpWriteCommand: the new rows follow all others, in the current group or in
\* an empty one after it.
LEMMA WriteLog ==
  ASSUME OwnershipInv, LogInv, fpWriteCommand
  PROVE  LogInv'
<1>0. PICK q, n, t, w : q = req.p /\ n = req.n /\ t = TargetGroup(req.p) /\ w = NewRows(req.p, req.n)
  OBVIOUS
<1> DEFINE k == <<q, t>>
<1>1. /\ pc = "write" /\ pc' = "idle" /\ t <= MaxGroups
      /\ rowgroup' = [rowgroup EXCEPT ![q] = t]
      /\ inserted' = [inserted EXCEPT ![k] = @ \o w]
      /\ total' = [total EXCEPT ![q] = @ + n]
      /\ UNCHANGED <<groupsRead, reply>>
  BY <1>0 DEF fpWriteCommand, scanVars
<1>2. /\ q \in Partitions /\ n \in Nat /\ k \in DataKeys /\ t \in 1 .. MaxGroups /\ rowgroup[q] <= t
  BY <1>0, <1>1, TargetIsWritable
<1>3. /\ rowgroup \in [Partitions -> 0 .. MaxGroups] /\ total \in [Partitions -> Nat] /\ inserted \in [DataKeys -> Seq(Nat)]
  BY DEF OwnershipInv, TypeOK, StoreTypes
<1>4. w \in Seq(Nat) /\ Len(w) = n /\ \A i \in 1 .. n : w[i] = total[q] + i
  <2>1. w = [i \in 1 .. n |-> total[q] + i] /\ total[q] \in Nat
    BY <1>0, <1>2, <1>3 DEF NewRows
  <2> QED
    BY <1>2, <2>1
<1> DEFINE s == inserted[k] \o w
<1>5. s \in Seq(Nat) /\ inserted[k] \in Seq(Nat) /\ Len(s) = Len(inserted[k]) + n
  <2>1. inserted[k] \in Seq(Nat)
    BY <1>2, <1>3
  <2>2. \A a, b \in Seq(Nat) : a \o b \in Seq(Nat) /\ Len(a \o b) = Len(a) + Len(b)
    OBVIOUS
  <2> QED
    BY <1>4, <2>1, <2>2
<1>6. /\ inserted'[k] = s /\ rowgroup'[q] = t /\ total'[q] = total[q] + n
      /\ \A kk \in DataKeys : kk # k => inserted'[kk] = inserted[kk]
      /\ \A p \in Partitions : p # q => rowgroup'[p] = rowgroup[p] /\ total'[p] = total[p]
  BY <1>1, <1>2, <1>3
<1>7. ASSUME NEW p \in Partitions, p # q, NEW e, Numbered(p, e)
      PROVE  Numbered(p, e)'
  <2>1. \A g \in Groups : inserted'[<<p, g>>] = inserted[<<p, g>>]
    BY <1>6, <1>7 DEF DataKeys
  <2> QED
    BY <1>6, <1>7, <2>1 DEF Numbered
<1>8. ASSUME NEW e, Numbered(q, e)
      PROVE  \E f : Numbered(q, f)'
  <2> DEFINE ends == [g \in 0 .. MaxGroups |-> IF g >= t THEN e[g] + n ELSE e[g]]
  <2>0. PICK f : f = ends
    OBVIOUS
  <2>1. e \in [0 .. MaxGroups -> Nat] /\ e[0] = 0
    BY <1>8 DEF Numbered
  <2>2. f \in [0 .. MaxGroups -> Nat] /\ f[0] = 0
    BY <1>2, <2>0, <2>1, TieringConstants
  <2>3. \A g \in Groups : g \in 0 .. MaxGroups /\ g - 1 \in 0 .. MaxGroups /\ e[g] \in Nat /\ e[g - 1] \in Nat
    BY <2>1, TieringConstants DEF Groups
  <2>4. e[t] = total[q] /\ e[t] = e[t - 1] + Len(inserted[k]) /\ e[t - 1] \in Nat
    <3>1. t \in Groups /\ t \in rowgroup[q] .. MaxGroups
      BY <1>2, <1>3 DEF Groups
    <3> QED
      BY <1>8, <2>3, <3>1 DEF Numbered
  <2>5. ASSUME NEW g \in Groups
        PROVE  /\ f[g] = f[g - 1] + Len(inserted'[<<q, g>>])
               /\ \A i \in 1 .. Len(inserted'[<<q, g>>]) : inserted'[<<q, g>>][i] = f[g - 1] + i
    <3>1. CASE g = t
      <4>1. f[g] = e[t] + n /\ f[g - 1] = e[t - 1]
        BY <1>2, <2>0, <2>3, <3>1, TieringConstants DEF Groups
      <4>2. inserted'[<<q, g>>] = s
        BY <1>6, <3>1
      <4>3. ASSUME NEW i \in 1 .. Len(s)
            PROVE  s[i] = e[t - 1] + i
        <5>1. CASE i <= Len(inserted[k])
          <6>1. s[i] = inserted[k][i] /\ i \in 1 .. Len(inserted[k])
            BY <1>4, <1>5, <5>1
          <6> QED
            BY <1>8, <3>1, <6>1 DEF Numbered
        <5>2. CASE i > Len(inserted[k])
          <6> DEFINE j == i - Len(inserted[k])
          <6>1. j \in 1 .. n /\ s[i] = w[j]
            BY <1>2, <1>4, <1>5, <5>2
          <6>2. s[i] = total[q] + j
            BY <1>4, <6>1
          <6>3. Len(inserted[k]) \in Nat /\ i \in Nat
            BY <1>5
          <6>4. \A a, b, c, d \in Nat : a = b + c => a + (d - c) = b + d
            OBVIOUS
          <6>5. total[q] \in Nat /\ total[q] = e[t - 1] + Len(inserted[k]) /\ e[t - 1] \in Nat
            BY <1>2, <1>3, <2>4
          <6>6. total[q] + j = e[t - 1] + i
            BY <6>3, <6>4, <6>5
          <6> HIDE DEF s, j
          <6> QED
            BY <6>2, <6>6
        <5>3. i \in Nat /\ Len(inserted[k]) \in Nat
          BY <1>5
        <5> QED
          BY <5>1, <5>2, <5>3
      <4>4. Len(inserted[k]) \in Nat
        BY <1>5
      <4>5. e[t] + n = e[t - 1] + Len(s)
        BY <1>2, <1>5, <2>4, <4>4
      <4> HIDE DEF s
      <4> QED
        BY <4>1, <4>2, <4>3, <4>5
    <3>2. CASE g # t
      <4>1. inserted'[<<q, g>>] = inserted[<<q, g>>] /\ Len(inserted[<<q, g>>]) \in Nat
        <5>1. <<q, g>> \in DataKeys /\ <<q, g>> # k
          BY <1>2, <3>2 DEF DataKeys
        <5> QED
          BY <1>3, <1>6, <5>1
      <4>2. /\ e[g] = e[g - 1] + Len(inserted[<<q, g>>])
            /\ \A i \in 1 .. Len(inserted[<<q, g>>]) : inserted[<<q, g>>][i] = e[g - 1] + i
        BY <1>8 DEF Numbered
      <4>3. CASE g < t
        <5>1. f[g] = e[g] /\ f[g - 1] = e[g - 1]
          BY <1>2, <2>0, <2>3, <4>3, TieringConstants DEF Groups
        <5> QED
          BY <4>1, <4>2, <5>1
      <4>4. CASE g > t
        <5>1. f[g] = e[g] + n /\ f[g - 1] = e[g - 1] + n
          BY <1>2, <2>0, <2>3, <4>4, TieringConstants DEF Groups
        <5>2. Len(inserted[<<q, g>>]) = 0
          <6>1. g \in rowgroup[q] .. MaxGroups /\ g - 1 \in rowgroup[q] .. MaxGroups
            BY <1>2, <1>3, <4>4, TieringConstants DEF Groups
          <6>2. e[g] = total[q] /\ e[g - 1] = total[q]
            BY <1>8, <6>1 DEF Numbered
          <6> QED
            BY <2>3, <4>1, <4>2, <6>2
        <5> QED
          BY <1>2, <2>3, <4>1, <4>2, <5>1, <5>2
      <4>5. g \in Int /\ t \in Int
        BY <1>2 DEF Groups
      <4> QED
        BY <3>2, <4>3, <4>4, <4>5
    <3> QED
      BY <3>1, <3>2
  <2>6. ASSUME NEW g \in rowgroup'[q] .. MaxGroups
        PROVE  f[g] = total'[q]
    <3>1. g \in rowgroup[q] .. MaxGroups /\ g >= t /\ g \in 0 .. MaxGroups
      BY <1>2, <1>3, <1>6
    <3>2. e[g] = total[q]
      BY <1>8, <3>1 DEF Numbered
    <3> QED
      BY <1>6, <2>0, <3>1, <3>2
  <2>7. Numbered(q, f)'
    BY <2>2, <2>5, <2>6 DEF Numbered
  <2> QED
    BY <2>7
<1>9. ASSUME NEW p \in Partitions PROVE \E e : (Numbered(p, e) /\ Scanned(p, e))'
  <2>1. \A e : Scanned(p, e)'
    BY <1>1 DEF Scanned
  <2>2. PICK e : Numbered(p, e)
    BY DEF LogInv
  <2>3. \E f : Numbered(p, f)'
    BY <1>2, <1>7, <1>8, <2>2
  <2> QED
    BY <2>1, <2>3
<1> QED
  BY <1>1, <1>9 DEF LogInv

\* Every step of either thread.
LEMMA NextLog ==
  ASSUME OwnershipInv, ContentInv, LogInv, [Next]_vars
  PROVE  LogInv'
  BY QuietLog, ScanLog, WriteLog DEF Next, MainStep

\* The row groups fpWriteCommand fills hold the rows of a partition in order,
\* and fpScanCommand collects them in that order.
THEOREM RowsInOrder == ~WriteMayFail => (Spec => []LogInv)
<1> SUFFICES ASSUME ~WriteMayFail
             PROVE  Spec => []LogInv
  OBVIOUS
<1>1. OwnershipInv /\ ContentInv /\ LogInv /\ [Next]_vars => LogInv'
  BY NextLog
<1>2. Init => LogInv
  BY InitLog
<1> QED
  BY <1>1, <1>2, Ownership, RowsStay, PTL DEF Spec

\* The rows a scan is about to reply.
LEMMA ReplyIsAll ==
  ASSUME OwnershipInv, LogInv, pc = "reply"
  PROVE  req.p \in Partitions /\ reply = Rows(total[req.p])
<1>1. req.p \in Partitions /\ rowgroup[req.p] \in 0 .. MaxGroups
  BY DEF OwnershipInv, PcMatchesReq, ScanRequests, TypeOK, StoreTypes
<1>2. PICK e : Numbered(req.p, e) /\ Scanned(req.p, e)
  BY <1>1 DEF LogInv
<1>3. reply = Rows(e[rowgroup[req.p]])
  BY <1>2 DEF Scanned
<1>4. rowgroup[req.p] \in rowgroup[req.p] .. MaxGroups
  BY <1>1, TieringConstants
<1> QED
  BY <1>1, <1>2, <1>3, <1>4 DEF Numbered

\* A finished FPSCAN has every row of the partition, once and in insertion
\* order, wherever the tiering thread has moved them meanwhile.
THEOREM ScanComplete == ~WriteMayFail => (Spec => []ScanReturnsAllRows)
<1> SUFFICES ASSUME ~WriteMayFail
             PROVE  Spec => []ScanReturnsAllRows
  OBVIOUS
<1>1. OwnershipInv /\ LogInv => ScanReturnsAllRows
  BY ReplyIsAll DEF ScanReturnsAllRows, Rows
<1> QED
  BY <1>1, Ownership, RowsInOrder, PTL

\* What the refinement mapping sees.
LEMMA LogIsAll ==
  ASSUME OwnershipInv, ContentInv, LogInv
  PROVE  [p \in Partitions |-> VisibleLog(p)] = [p \in Partitions |-> Rows(total[p])]
<1>1. \A p \in Partitions : VisibleLog(p) = Rows(total[p])
  BY VisibleIsAll DEF LogInv
<1> QED
  BY <1>1

\* fpWriteCommand appends to the log, the end of fpScanCommand answers with it,
\* and every step of eviction and of the bio thread leaves it alone.
THEOREM TieringIsInvisible == ~WriteMayFail => (Spec => ImplementsLog)
<1> SUFFICES ASSUME ~WriteMayFail
             PROVE  Spec => ImplementsLog
  OBVIOUS
<1> DEFINE log == [p \in Partitions |-> VisibleLog(p)]
           answer == IF pc = "reply" THEN <<req.p, reply>> ELSE << >>
           Inv == OwnershipInv /\ ContentInv /\ LogInv
<1>1. Init => Log!Init
  <2> SUFFICES ASSUME Init PROVE Log!Init
    OBVIOUS
  <2>1. OwnershipInv /\ ContentInv /\ LogInv
    BY InitOwnership, InitContent, InitLog
  <2>2. \A p \in Partitions : Rows(total[p]) = << >>
    BY DEF Init, Rows
  <2>3. log = [p \in Partitions |-> << >>]
    BY <2>1, <2>2, LogIsAll
  <2>4. answer = << >>
    BY DEF Init
  <2> QED
    BY <2>3, <2>4 DEF Log!Init
<1>2. ASSUME Inv, Inv', [Next]_vars
      PROVE  [Log!Next]_<<log, answer>>
  <2>1. log = [p \in Partitions |-> Rows(total[p])] /\ log' = [p \in Partitions |-> Rows(total'[p])]
    <3>1. log = [p \in Partitions |-> Rows(total[p])]
      BY <1>2, LogIsAll
    <3>2. (log = [p \in Partitions |-> Rows(total[p])])'
      BY <1>2, LogIsAll, PTL
    <3> QED
      BY <3>1, <3>2 DEF Rows
  <2>2. CASE fpWriteCommand
    <3>1. /\ pc = "write" /\ pc' = "idle" /\ TargetGroup(req.p) <= MaxGroups
          /\ total' = [total EXCEPT ![req.p] = @ + req.n]
      BY <2>2 DEF fpWriteCommand
    <3>2. req.p \in Partitions /\ req.n \in WriteSizes /\ req.n \in Nat /\ total \in [Partitions -> Nat]
      BY <1>2, <3>1, TargetIsWritable DEF OwnershipInv, TypeOK, StoreTypes
    <3>3. answer = << >> /\ answer' = << >>
      BY <3>1
    <3> DEFINE more == [i \in 1 .. req.n |-> Len(log[req.p]) + i]
    <3>4. log[req.p] \o more = Rows(total[req.p] + req.n)
      <4>1. log[req.p] = Rows(total[req.p]) /\ total[req.p] \in Nat
        BY <2>1, <3>2
      <4>2. Len(log[req.p]) = total[req.p]
        BY <4>1 DEF Rows
      <4> HIDE DEF log
      <4>3. more \in Seq(Nat) /\ Len(more) = req.n /\ \A i \in 1 .. Len(more) : more[i] = total[req.p] + i
        BY <3>2, <4>1, <4>2
      <4> HIDE DEF more
      <4> QED
        BY <4>1, <4>3, MoreRows
    <3>5. log' = [log EXCEPT ![req.p] = log[req.p] \o more]
      <4>1. \A p \in Partitions : total'[p] = IF p = req.p THEN total[p] + req.n ELSE total[p]
        BY <3>1, <3>2
      <4>2. log' = [p \in Partitions |-> IF p = req.p THEN Rows(total[p] + req.n) ELSE Rows(total[p])]
        BY <2>1, <4>1
      <4>3. [log EXCEPT ![req.p] = Rows(total[req.p] + req.n)] =
              [p \in Partitions |-> IF p = req.p THEN Rows(total[p] + req.n) ELSE Rows(total[p])]
        BY <2>1
      <4> QED
        BY <3>4, <4>2, <4>3
    <3>6. Log!Write(req.p, req.n)
      BY <3>3, <3>5 DEF Log!Write
    <3> QED
      BY <3>2, <3>6 DEF Log!Next
  <2>3. CASE ReadGroup /\ pc' = "reply"
    <3>1. pc = "read" /\ req' = req /\ total' = total
      BY <2>3 DEF ReadGroup, cmdVars, histVars
    <3>2. (pc = "reply" => req.p \in Partitions /\ reply = Rows(total[req.p]))'
      BY <1>2, ReplyIsAll, PTL
    <3>3. req.p \in Partitions /\ reply' = Rows(total[req.p])
      BY <2>3, <3>1, <3>2 DEF Rows
    <3>4. answer = << >> /\ answer' = <<req.p, log[req.p]>> /\ log' = log
      BY <2>1, <2>3, <3>1, <3>3
    <3>5. Log!Scan(req.p)
      BY <3>4 DEF Log!Scan
    <3> QED
      BY <3>3, <3>5 DEF Log!Next
  <2>4. CASE ReplyScan
    <3>1. pc = "reply" /\ pc' = "idle" /\ total' = total
      BY <2>4 DEF ReplyScan, histVars
    <3>2. answer # << >> /\ answer' = << >> /\ log' = log
      BY <2>1, <3>1
    <3> QED
      BY <3>2 DEF Log!Next, Log!Answered
  <2>5. CASE ~ fpWriteCommand /\ ~ (ReadGroup /\ pc' = "reply") /\ ~ ReplyScan
    <3>1. total' = total
      BY <1>2, <2>5 DEF Next, Commands, MainStep, BioStep, vars, histVars, StartWrite, StartScan, ReplyOOM, RejectWrite,
         LoopDone, LoopForce, LoopClear, BatchTake, BatchSubmit, PopulateGroup, ReadGroup, BioTake, BioSerialize,
         BioWrite, BioMark, BioFinish
    <3>2. answer' = answer
      BY <1>2, <2>5 DEF Next, Commands, MainStep, BioStep, vars, cmdVars, scanVars, StartWrite, StartScan, ReplyOOM,
         RejectWrite, LoopDone, LoopForce, LoopClear, BatchTake, BatchSubmit, PopulateGroup, ReadGroup, BioTake,
         BioSerialize, BioWrite, BioMark, BioFinish
    <3>3. log' = log
      BY <2>1, <3>1
    <3> QED
      BY <3>2, <3>3
  <2> QED
    BY <2>2, <2>3, <2>4, <2>5
<1> QED
  BY <1>1, <1>2, Ownership, RowsStay, RowsInOrder, PTL DEF Spec, ImplementsLog, Log!Spec
=============================================================================
