---------------------------- MODULE SentinelProofs ----------------------------
(*****************************************************************************)
(* The theorems about Sentinel.tla: one leader in an epoch, by the inductive *)
(* invariant VotesInv of SentinelVoteProofs, and no failover without a quorum*)
(* of Sentinels that found a master down, by DownInv.  One lemma per action. *)
(*****************************************************************************)
EXTENDS SentinelVoteProofs

\* A step of s that gives no vote, learns none and leaves the messages alone.
LEMMA KeptStep ==
  ASSUME SentinelAssumption, VotesInv, NEW s \in Sentinels, NEW w, Kept(sen[s], w), sen' = [sen EXCEPT ![s] = w],
         UNCHANGED <<ask, hello, elected, voted>>
  PROVE  VotesInv'
<1>1. IsSen(w) /\ Advances(sen[s], w)
  BY DEF Kept, Advances
<1>2. \A t \in Sentinels : w.vote[t].id # Nobody => t # s /\ Vote(t, w.vote[t].epoch, w.vote[t].id) \in voted
  BY DEF VotesInv, SenInv, Backed, Kept
<1>3. voted' = voted \cup NewVote(s, sen[s], w)
  BY DEF NewVote, Kept
<1>4. SenInv' /\ VotedInv' /\ voted \subseteq voted'
  BY <1>1, <1>2, <1>3, VotesStep DEF VotesInv
<1> QED
  BY <1>4, ElectedKept, AskKept DEF VotesInv, HelloInv

LEMMA DelayOverVotes ==
  ASSUME SentinelAssumption, VotesInv, NEW s \in Sentinels, DelayOver(s) PROVE VotesInv'
<1> DEFINE w == [sen[s] EXCEPT !.delay = FALSE]
<1>1. IsSen(sen[s]) /\ sen' = [sen EXCEPT ![s] = w] /\ UNCHANGED <<ask, hello, elected, voted>>
  BY DEF DelayOver, VotesInv, SenInv
<1>2. Kept(sen[s], w)
  BY <1>1 DEF Kept, IsSen, SenFields
<1> HIDE DEF w
<1> QED
  BY <1>1, <1>2, KeptStep

LEMMA ForceVotes ==
  ASSUME SentinelAssumption, VotesInv, NEW s \in Sentinels, ForceFailover(s) PROVE VotesInv'
<1> DEFINE v == sen[s]
           u == sentinelStartFailover(v)
           w == [u EXCEPT !.forced = TRUE]
<1>1. IsSen(v) /\ sen' = [sen EXCEPT ![s] = w] /\ UNCHANGED <<ask, hello, elected, voted>>
  BY DEF ForceFailover, VotesInv, SenInv
<1> HIDE DEF v
<1>2. Kept(v, w)
  BY <1>1 DEF Kept, IsSen, SenFields, sentinelStartFailover
<1> HIDE DEF w
<1> QED
  BY <1>1, <1>2, KeptStep DEF v

LEMMA RefreshVotes ==
  ASSUME SentinelAssumption, VotesInv, NEW s \in Sentinels, NEW i \in Redises, NEW up \in BOOLEAN,
         sentinelRefreshInstanceInfo(s, i, up)
  PROVE  VotesInv'
<1> DEFINE v == sen[s]
           u == [v EXCEPT !.cfg = v.fepoch, !.fstate = "RECONF_SLAVES"]
<1>1. IsSen(v) /\ UNCHANGED <<ask, hello, elected, voted>>
  BY DEF sentinelRefreshInstanceInfo, VotesInv, SenInv
<1>2. PICK step : sen' = [sen EXCEPT ![s] = sentinelFlushConfig(u)] \/ sen' = [sen EXCEPT ![s] = [v EXCEPT !.reconf[i] = step]]
  BY DEF sentinelRefreshInstanceInfo
<1> HIDE DEF v
<1>3. Kept(v, u) /\ IsSen(u) /\ u.leader = v.leader
  BY <1>1 DEF Kept, IsSen, SenFields
<1> HIDE DEF u
<1>4. Kept(v, sentinelFlushConfig(u))
  BY <1>3, FlushKeeps DEF Kept
<1>5. Kept(v, [v EXCEPT !.reconf[i] = step])
  BY <1>1 DEF Kept, IsSen, SenFields
<1> QED
  BY <1>1, <1>2, <1>4, <1>5, KeptStep DEF v

LEMMA HelloVotes ==
  ASSUME SentinelAssumption, VotesInv, NEW s \in Sentinels, NEW h \in hello, sentinelProcessHelloMessage(s, h)
  PROVE  VotesInv'
<1> DEFINE v == sen[s]
           u == [v EXCEPT !.cur = h.cur]
           w == IF h.cur > v.cur THEN sentinelFlushConfig(u) ELSE v
           x == [w EXCEPT !.cfg = h.cfg]
           y == sentinelResetMasterAndChangeAddress(x, h.addr)
<1>1. IsSen(v) /\ sen' = [sen EXCEPT ![s] = HelloUpdate(v, h)] /\ UNCHANGED <<ask, hello, elected, voted>>
      /\ h.cur \in Nat /\ h.cfg \in Nat
  BY DEF sentinelProcessHelloMessage, VotesInv, SenInv, HelloInv
<1> HIDE DEF v
<1>2. HelloUpdate(v, h) = IF w.cfg >= h.cfg THEN w ELSE IF h.addr # w.addr THEN y ELSE x
  BY DEF HelloUpdate
<1>3. IsSen(u) /\ Kept(v, u) /\ u.leader = v.leader
  BY <1>1 DEF Kept, IsSen, SenFields
<1> HIDE DEF u
<1>4. IsSen(w) /\ Kept(v, w) /\ w.leader = v.leader
  BY <1>1, <1>3, FlushKeeps DEF Kept
<1> HIDE DEF w
<1>5. IsSen(x) /\ Kept(v, x) /\ x.leader = v.leader
  BY <1>1, <1>4 DEF Kept, IsSen, SenFields
<1> HIDE DEF x
<1>6. Kept(v, y)
  BY <1>5, ResetKeeps DEF Kept
<1> HIDE DEF y
<1>7. Kept(v, HelloUpdate(v, h))
  BY <1>2, <1>4, <1>5, <1>6
<1> QED
  BY <1>1, <1>7, KeptStep DEF v

\* A crash forgets everything but the configuration file, on which the last vote is.
LEMMA RestartVotes ==
  ASSUME SentinelAssumption, VotesInv, NEW s \in Sentinels, SenRestart(s)
  PROVE  VotesInv'
<1> DEFINE v == sen[s]
           w == FreshSentinel(v.disk)
<1>1. IsSen(v) /\ sen' = [sen EXCEPT ![s] = w] /\ UNCHANGED <<hello, elected, voted>>
      /\ ask' = [t \in Sentinels |-> [u \in Others(t) |-> IF s \in {t, u} THEN Quiet ELSE ask[t][u]]]
  BY DEF SenRestart, VotesInv, SenInv
<1> HIDE DEF v
<1>2. Max({v.disk.cur, v.disk.cfg}) \in Nat
  <2> DEFINE a == v.disk.cur
             b == v.disk.cfg
  <2>1. a \in Nat /\ b \in Nat
    BY <1>1 DEF IsSen
  <2> HIDE DEF a, b
  <2>2. \E x \in {a, b} : \A y \in {a, b} : x >= y
    BY <2>1
  <2>3. Max({a, b}) \in {a, b}
    BY <2>2 DEF Max
  <2> QED
    BY <2>1, <2>3 DEF a, b
<1>3. /\ DOMAIN w = SenFields /\ w.cur \in Nat /\ w.cfg = v.disk.cfg /\ w.leader = Nobody /\ w.lepoch = v.disk.lepoch /\ w.fepoch = 0
      /\ w.disk = v.disk /\ w.down = [t \in Sentinels |-> FALSE] /\ w.vote = [t \in Sentinels |-> [id |-> Nobody, epoch |-> 0]]
  BY <1>2 DEF FreshSentinel, SenFields
<1> HIDE DEF w
<1>4. IsSen(w) /\ Advances(v, w) /\ w.lepoch = v.lepoch /\ \A t \in Sentinels : w.vote[t].id = Nobody
  BY <1>1, <1>3 DEF IsSen, Advances
<1>5. voted' = voted \cup NewVote(s, sen[s], w)
  BY <1>1, <1>4 DEF NewVote, v
<1>6. SenInv' /\ VotedInv' /\ voted \subseteq voted'
  BY <1>1, <1>4, <1>5, VotesStep DEF VotesInv, v
<1>7. AskInv'
  BY <1>1 DEF VotesInv, AskInv, Answer, Quiet, Nobody
<1> QED
  BY <1>1, <1>6, <1>7, ElectedKept DEF VotesInv, HelloInv

-----------------------------------------------------------------------------
LEMMA SendHelloVotes ==
  ASSUME SentinelAssumption, VotesInv, NEW s \in Sentinels, sentinelSendHello(s)
  PROVE  VotesInv'
<1>1. IsSen(sen[s]) /\ UNCHANGED <<sen, ask, elected, voted>>
  BY DEF sentinelSendHello, VotesInv, SenInv
<1>2. HelloInv'
  BY <1>1 DEF sentinelSendHello, VotesInv, HelloInv, IsSen
<1> QED
  BY <1>1, <1>2 DEF VotesInv, SenInv, VotedInv, VoteOnce, AskInv, Answer, ElectedInv

\* The answer carries the vote of the Sentinel asked, old or new.
LEMMA IsMasterDownVotes ==
  ASSUME SentinelAssumption, VotesInv, NEW s \in Sentinels, NEW t \in Others(s), IsMasterDown(s, t)
  PROVE  VotesInv'
<1> DEFINE q == ask[s][t]
           v == sen[t]
           asked == q.addr = v.addr /\ q.id # Nobody
           w == IF asked THEN sentinelVoteLeader(v, t, q.epoch, q.id) ELSE v
           r == [is |-> "rep", addr |-> 0, epoch |-> IF asked THEN w.lepoch ELSE 0,
                 id |-> IF asked THEN w.leader ELSE Nobody, down |-> q.addr = v.addr /\ v.sdown]
<1>1. /\ t \in Sentinels /\ IsSen(v) /\ Backed(t, v, voted)
      /\ q.epoch \in Nat /\ q.id \in Sentinels \cup {Nobody}
      /\ DOMAIN ask = Sentinels /\ \A u \in Sentinels : DOMAIN ask[u] = Others(u)
  BY DEF Others, VotesInv, SenInv, AskInv, Answer
<1>2. /\ sen' = [sen EXCEPT ![t] = w] /\ ask' = [ask EXCEPT ![s][t] = r] /\ voted' = voted \cup NewVote(t, v, w)
      /\ UNCHANGED <<hello, elected>>
  BY DEF IsMasterDown
<1> HIDE DEF v, q
<1>3. Follows(v, w)
  <2>1. CASE asked
    <3>1. w = sentinelVoteLeader(v, t, q.epoch, q.id) /\ q.id \in Sentinels
      BY <1>1, <2>1
    <3> HIDE DEF w
    <3>2. q.epoch \in Nat /\ IsSen(v)
      BY <1>1
    <3>3. Follows(v, sentinelVoteLeader(v, t, q.epoch, q.id))
      BY <3>1, <3>2, VoteFollows
    <3> QED
      BY <3>1, <3>3
  <2>2. CASE ~ asked
    BY <1>1, <2>2 DEF Follows, Kept
  <2> QED
    BY <2>1, <2>2
<1>4. r.is = "rep" /\ r.epoch = (IF asked THEN w.lepoch ELSE 0) /\ r.id = (IF asked THEN w.leader ELSE Nobody)
  OBVIOUS
<1> HIDE DEF w, r, asked
<1>5. IsSen(w) /\ Advances(v, w) /\ w.vote = v.vote
  BY <1>3 DEF Follows, Kept, Advances
<1>6. \A u \in Sentinels : w.vote[u].id # Nobody => u # t /\ Vote(u, w.vote[u].epoch, w.vote[u].id) \in voted
  BY <1>1, <1>5 DEF Backed
<1>7. SenInv' /\ VotedInv' /\ voted \subseteq voted'
  BY <1>1, <1>2, <1>5, <1>6, VotesStep DEF VotesInv, v
<1>8. Answer(t, r, voted')
  <2>1. sen'[t] = w /\ w.lepoch \in Nat /\ w.leader \in Sentinels \cup {Nobody}
    BY <1>1, <1>2, <1>5 DEF VotesInv, SenInv, IsSen
  <2>2. Backed(t, w, voted')
    BY <1>1, <1>7, <2>1 DEF SenInv
  <2> QED
    BY <1>4, <2>1, <2>2 DEF Answer, Backed
<1>9. AskInv'
  <2>1. DOMAIN ask' = Sentinels /\ \A a \in Sentinels : DOMAIN ask'[a] = Others(a)
    BY <1>1, <1>2
  <2>2. \A a \in Sentinels : \A b \in Others(a) : ask'[a][b] = IF a = s /\ b = t THEN r ELSE ask[a][b]
    BY <1>1, <1>2
  <2>3. \A a \in Sentinels : \A b \in Others(a) : Answer(b, ask[a][b], voted')
    BY <1>7 DEF VotesInv, AskInv, Answer
  <2>4. \A a \in Sentinels : \A b \in Others(a) : Answer(b, ask'[a][b], voted')
    BY <1>8, <2>2, <2>3
  <2> QED
    BY <2>1, <2>4 DEF AskInv
<1> QED
  BY <1>2, <1>7, <1>9, ElectedKept DEF VotesInv, HelloInv

LEMMA ReplyVotes ==
  ASSUME SentinelAssumption, VotesInv, NEW s \in Sentinels, NEW t \in Others(s), sentinelReceiveIsMasterDownReply(s, t)
  PROVE  VotesInv'
<1> DEFINE r == ask[s][t]
           v == sen[s]
           x == IF r.id = Nobody THEN v.vote[t] ELSE [id |-> r.id, epoch |-> r.epoch]
           w == [v EXCEPT !.down[t] = r.down, !.vote[t] = x]
<1>1. /\ t \in Sentinels /\ t # s /\ IsSen(v) /\ Backed(s, v, voted) /\ Answer(t, r, voted)
      /\ DOMAIN ask = Sentinels /\ \A u \in Sentinels : DOMAIN ask[u] = Others(u)
  BY DEF Others, VotesInv, SenInv, AskInv
<1>2. /\ sen' = [sen EXCEPT ![s] = w]
      /\ r.is = "rep" /\ ask' = [ask EXCEPT ![s][t] = Quiet]
      /\ UNCHANGED <<hello, elected, voted>>
  <2>1. /\ sen' = [sen EXCEPT ![s].down[t] = r.down,
                              ![s].vote[t] = IF r.id = Nobody THEN @ ELSE [id |-> r.id, epoch |-> r.epoch]]
        /\ DOMAIN sen = Sentinels
    BY DEF sentinelReceiveIsMasterDownReply, VotesInv, SenInv
  <2>2. sen' = [sen EXCEPT ![s] = w]
    BY <1>1, <2>1 DEF IsSen, SenFields
  <2> QED
    BY <2>2 DEF sentinelReceiveIsMasterDownReply
<1> HIDE DEF v, r
<1>3. x.id \in Sentinels \cup {Nobody} /\ x.epoch \in Nat /\ (x.id # Nobody => Vote(t, x.epoch, x.id) \in voted)
  BY <1>1, <1>2 DEF IsSen, Backed, Answer
<1> HIDE DEF x
<1>4. /\ DOMAIN w = SenFields /\ w.cur = v.cur /\ w.cfg = v.cfg /\ w.lepoch = v.lepoch /\ w.fepoch = v.fepoch
      /\ w.leader = v.leader /\ w.disk = v.disk /\ DOMAIN w.down = Sentinels /\ w.vote = [v.vote EXCEPT ![t] = x]
  BY <1>1 DEF IsSen, SenFields
<1> HIDE DEF w
<1>5. IsSen(w) /\ Advances(v, w)
  BY <1>1, <1>3, <1>4 DEF IsSen, Advances
<1>6. \A u \in Sentinels : w.vote[u].id # Nobody => u # s /\ Vote(u, w.vote[u].epoch, w.vote[u].id) \in voted
  BY <1>1, <1>3, <1>4 DEF Backed, IsSen
<1>7. voted' = voted \cup NewVote(s, v, w)
  BY <1>2, <1>4 DEF NewVote
<1>8. SenInv' /\ VotedInv' /\ voted \subseteq voted'
  BY <1>1, <1>2, <1>5, <1>6, <1>7, VotesStep DEF VotesInv, v
<1>9. AskInv'
  <2>1. DOMAIN ask' = Sentinels /\ \A a \in Sentinels : DOMAIN ask'[a] = Others(a)
    BY <1>1, <1>2
  <2>2. \A a \in Sentinels : \A b \in Others(a) : ask'[a][b] \in {Quiet, ask[a][b]}
    BY <1>1, <1>2
  <2>3. \A a \in Sentinels : \A b \in Others(a) : Answer(b, ask'[a][b], voted')
    BY <2>2, <1>2 DEF VotesInv, AskInv, Answer, Quiet, Nobody
  <2> QED
    BY <2>1, <2>3 DEF AskInv
<1> QED
  BY <1>2, <1>8, <1>9, ElectedKept DEF VotesInv, HelloInv

-----------------------------------------------------------------------------
\* A run of the timer: the failover state machine may vote and be elected, and
\* the requests that go out carry no vote.
LEMMA TimerVotes ==
  ASSUME SentinelAssumption, VotesInv, NEW s \in Sentinels, Timer(s)
  PROVE  VotesInv'
<1>1. PICK who, late, stale, blind : sentinelTimer(s, late, stale, blind, who)
  BY DEF Timer
<1> DEFINE v == sen[s]
           linked == {i \in Redises : redis[i].up} \ blind
           gone == v.addr \notin linked \/ (late /\ redis[v.addr].master # 0)
           b == Begin(sentinelCheckObjectivelyDown(sentinelCheckSubjectivelyDown(v, gone)))
           a == sentinelFailoverStateMachine(b, s, Slaves(b) \cap linked, linked, late)
           w == Forget(a, stale)
           e == [by |-> s, epoch |-> b.fepoch, pure |-> b.cur = b.fepoch /\ ~ b.forced]
<1>2. /\ sen' = [sen EXCEPT ![s] = w] /\ voted' = voted \cup NewVote(s, v, w) /\ hello' = hello
      /\ ask' = [ask EXCEPT ![s] = [t \in Others(s) |-> IF t \in who THEN Question(w, s) ELSE ask[s][t]]]
      /\ elected' = elected \cup (IF b.fstate = "WAIT_START" /\ a.fstate = "SELECT_SLAVE" THEN {e} ELSE {})
  <2>1. \E begun \in {b} : \E acted \in {sentinelFailoverStateMachine(begun, s, Slaves(begun) \cap linked, linked, late)} :
        \E x \in {Forget(acted, stale)}, sent \in {Sent(begun, linked, late)} :
           TimerStep(s, v, begun, acted, x, sent, who)
    BY <1>1, Zenon DEF sentinelTimer
  <2> HIDE DEF b
  <2>2. PICK sent : TimerStep(s, v, b, a, w, sent, who)
    BY <2>1
  <2> HIDE DEF a, w
  <2> QED
    BY <2>2 DEF TimerStep, VotesInv, AskInv
<1>3. IsSen(v) /\ Backed(s, v, voted)
  BY DEF VotesInv, SenInv
<1> HIDE DEF v, gone, linked
<1>4. Kept(v, b) /\ b.leader = v.leader
  BY <1>3, BeginKeeps
<1> HIDE DEF b
<1>5. IsSen(b) /\ b.vote[s].id = Nobody
  BY <1>3, <1>4 DEF Kept, Backed
<1>6. /\ Follows(b, a)
      /\ b.fstate = "WAIT_START" /\ a.fstate = "SELECT_SLAVE" /\ b.cur = b.fepoch /\ ~ b.forced => \E Q : ElectedBy(b, a, s, Q)
  <2> DEFINE good == Slaves(b) \cap linked
  <2>1. a = sentinelFailoverStateMachine(b, s, good, linked, late)
    OBVIOUS
  <2> HIDE DEF a, good
  <2> QED
    BY <1>5, <2>1, MachineFollows
<1> HIDE DEF a
<1>7. IsSen(a) /\ Advances(v, a) /\ a.vote = v.vote
  BY <1>4, <1>6 DEF Follows, Kept, Advances
<1>8. /\ IsSen(w) /\ w.lepoch = a.lepoch /\ w.leader = a.leader
      /\ \A t \in Sentinels : w.vote[t].id \in {a.vote[t].id, Nobody} /\ w.vote[t].epoch = a.vote[t].epoch
  BY <1>7, ForgetKeeps
<1> HIDE DEF w
<1>9. Advances(v, w)
  BY <1>7, <1>8 DEF Advances
<1>10. \A t \in Sentinels : w.vote[t].id # Nobody => t # s /\ Vote(t, w.vote[t].epoch, w.vote[t].id) \in voted
  BY <1>3, <1>7, <1>8 DEF Backed
<1>11. SenInv' /\ VotedInv' /\ voted \subseteq voted'
  BY <1>2, <1>8, <1>9, <1>10, VotesStep DEF VotesInv, v
<1>12. AskInv'
  <2> DEFINE q == Question(w, s)
  <2>1. q.is = "req" /\ q.epoch \in Nat /\ q.id \in Sentinels \cup {Nobody}
    BY <1>8 DEF Question, IsSen
  <2> HIDE DEF q
  <2>2. \A t : Answer(t, q, voted')
    BY <2>1 DEF Answer
  <2>3. \A r \in Sentinels : \A t \in Others(r) : Answer(t, ask[r][t], voted')
    BY <1>11 DEF VotesInv, AskInv, Answer
  <2>4. /\ DOMAIN ask' = Sentinels /\ \A r \in Sentinels : DOMAIN ask'[r] = Others(r)
        /\ \A r \in Sentinels : \A t \in Others(r) : ask'[r][t] \in {q, ask[r][t]}
    BY <1>2 DEF VotesInv, AskInv, q
  <2> QED
    BY <2>2, <2>3, <2>4 DEF AskInv
<1>13. ElectedInv'
  <2>1. CASE b.fstate = "WAIT_START" /\ a.fstate = "SELECT_SLAVE" /\ e.pure
    <3>1. PICK Q : ElectedBy(b, a, s, Q)
      BY <2>1, <1>6
    <3>2. Q \in SUBSET Sentinels /\ HasQuorum(Cardinality(Q))
      BY <3>1 DEF ElectedBy
    <3>3. \A t \in Q : Vote(t, b.fepoch, s) \in voted'
      <4> TAKE t \in Q
      <4>1. CASE t # s /\ b.vote[t].id = s /\ b.vote[t].epoch = b.fepoch
        <5>1. v.vote[t].id = s /\ v.vote[t].epoch = b.fepoch /\ s # Nobody /\ t \in Sentinels
          BY <4>1, <1>4, <3>2 DEF Kept, SentinelAssumption, Nobody
        <5> QED
          BY <5>1, <1>3, <1>11 DEF Backed
      <4>2. CASE t = s /\ a.lepoch = b.fepoch /\ a.leader = s
        <5>1. sen'[s] = w /\ w.leader = s /\ w.lepoch = b.fepoch /\ s # Nobody
          BY <4>2, <1>2, <1>8 DEF VotesInv, SenInv, SentinelAssumption, Nobody
        <5>2. Backed(s, sen'[s], voted')
          BY <1>11 DEF SenInv
        <5> QED
          BY <4>2, <5>1, <5>2 DEF Backed
      <4> QED
        BY <3>1, <4>1, <4>2 DEF ElectedBy
    <3>4. elected' = elected \cup {e} /\ e.epoch = b.fepoch /\ e.by = s
      BY <1>2, <2>1
    <3> HIDE DEF e
    <3>5. \A d \in elected : d.pure => \E P \in SUBSET Sentinels :
              HasQuorum(Cardinality(P)) /\ \A t \in P : Vote(t, d.epoch, d.by) \in voted'
      BY <1>11 DEF VotesInv, ElectedInv
    <3> QED
      BY <3>2, <3>3, <3>4, <3>5 DEF ElectedInv
  <2>2. CASE ~ (b.fstate = "WAIT_START" /\ a.fstate = "SELECT_SLAVE" /\ e.pure)
    <3>1. \A d \in elected' : d.pure => d \in elected
      BY <1>2, <2>2
    <3> QED
      BY <3>1, <1>11 DEF VotesInv, ElectedInv
  <2> QED
    BY <2>1, <2>2
<1> QED
  BY <1>2, <1>11, <1>12, <1>13 DEF VotesInv, HelloInv

LEMMA InitVotes ==
  ASSUME SentinelAssumption, SenInit
  PROVE  VotesInv
<1>1. PICK start \in SenStarts :
         /\ sen = [s \in Sentinels |->
                    [FreshSentinel([cur |-> 0, addr |-> 1, cfg |-> 0, lepoch |-> 0]) EXCEPT
                        !.sdown = start.odown, !.odown = start.odown, !.down = [t \in Sentinels |-> start.odown /\ t # s]]]
         /\ ask = [s \in Sentinels |-> [t \in Others(s) |-> Quiet]]
         /\ hello = {} /\ elected = {} /\ voted = {}
  BY DEF SenInit
<1> DEFINE d == [cur |-> 0, addr |-> 1, cfg |-> 0, lepoch |-> 0]
           f == FreshSentinel(d)
<1>2. Max({0, 0}) = 0
  <2>1. \E x \in {0, 0} : \A y \in {0, 0} : x >= y
    OBVIOUS
  <2> QED
    BY <2>1 DEF Max
<1>3. /\ DOMAIN f = SenFields /\ f.cur = 0 /\ f.cfg = 0 /\ f.leader = Nobody /\ f.lepoch = 0 /\ f.fepoch = 0
      /\ f.disk = d /\ f.vote = [t \in Sentinels |-> [id |-> Nobody, epoch |-> 0]]
  BY <1>2 DEF FreshSentinel, SenFields
<1>4. d.cur = 0 /\ d.cfg = 0 /\ d.lepoch = 0
  OBVIOUS
<1> HIDE DEF f, d
<1>5. \A s \in Sentinels :
         /\ DOMAIN sen[s] = SenFields /\ sen[s].cur = 0 /\ sen[s].cfg = 0 /\ sen[s].leader = Nobody /\ sen[s].lepoch = 0
         /\ sen[s].fepoch = 0 /\ sen[s].disk = d /\ sen[s].vote = f.vote /\ DOMAIN sen[s].down = Sentinels
  BY <1>1, <1>3 DEF f, d, SenFields
<1>6. SenInv
  <2>1. \A s, t \in Sentinels : sen[s].vote[t].id = Nobody /\ sen[s].vote[t].epoch = 0
    <3>1. \A t \in Sentinels : f.vote[t].id = Nobody /\ f.vote[t].epoch = 0
      BY <1>3
    <3> QED
      BY <1>5, <3>1
  <2>2. \A s \in Sentinels : IsSen(sen[s])
    BY <1>3, <1>4, <1>5, <2>1 DEF IsSen, Nobody
  <2>3. \A s \in Sentinels : Backed(s, sen[s], voted)
    BY <1>5, <2>1 DEF Backed
  <2> QED
    BY <1>1, <2>2, <2>3 DEF SenInv
<1>7. AskInv
  BY <1>1 DEF AskInv, Answer, Quiet, Nobody
<1> QED
  BY <1>1, <1>6, <1>7 DEF VotesInv, VotedInv, VoteOnce, HelloInv, ElectedInv

LEMMA NextVotes ==
  ASSUME SentinelAssumption, VotesInv, [SenNext]_senVars
  PROVE  VotesInv'
<1>1. ASSUME NEW s \in Sentinels, NEW i \in Redises, Slaveof(s, i) PROVE VotesInv'
  BY <1>1 DEF Slaveof, VotesInv, SenInv, VotedInv, VoteOnce, AskInv, Answer, HelloInv, ElectedInv
<1>2. ASSUME NEW i \in Redises, RedisFlip(i) PROVE VotesInv'
  BY <1>2 DEF RedisFlip, VotesInv, SenInv, VotedInv, VoteOnce, AskInv, Answer, HelloInv, ElectedInv
<1>3. ASSUME UNCHANGED senVars PROVE VotesInv'
  BY <1>3 DEF senVars, VotesInv, SenInv, VotedInv, VoteOnce, AskInv, Answer, HelloInv, ElectedInv
<1> QED
  BY <1>1, <1>2, <1>3, TimerVotes, DelayOverVotes, SendHelloVotes, ForceVotes, RestartVotes, IsMasterDownVotes, ReplyVotes,
     RefreshVotes, HelloVotes DEF SenNext

\* In every execution a Sentinel votes once in an epoch, crashes included, and
\* at most one Sentinel is elected in it with votes of its failover's own epoch
\* (sentinelVoteLeader, sentinelGetLeader).
THEOREM OneLeaderElected == SenSpec => []OneLeaderPerEpoch
<1>1. SenInit => VotesInv
  BY InitVotes, SentinelAssumption
<1>2. VotesInv /\ [SenNext]_senVars => VotesInv'
  BY NextVotes, SentinelAssumption
<1>3. VotesInv => OneLeaderPerEpoch
  BY VotesElectOne, SentinelAssumption
<1> QED
  BY <1>1, <1>2, <1>3, PTL DEF SenSpec

-----------------------------------------------------------------------------
Enough == Cardinality(felt) >= SenQuorum

\* Where the down states of s and its failover come from.
Grounded(s, v) ==
    /\ v.sdown => s \in felt
    /\ \A t \in Sentinels : v.down[t] => t \in felt \ {s}
    /\ v.odown \/ (Busy(v) /\ ~ v.forced) => Enough

DownInv ==
    /\ felt \subseteq Sentinels
    /\ \A s \in Sentinels : Grounded(s, sen[s])
    /\ \A s \in Sentinels : \A t \in Others(s) : ask[s][t].is = "rep" /\ ask[s][t].down => t \in felt

LEMMA EnoughGrows ==
  ASSUME SentinelAssumption, felt \subseteq felt', felt' \subseteq Sentinels, Enough PROVE Enough'
<1>1. IsFiniteSet(felt') /\ IsFiniteSet(felt) /\ Cardinality(felt) <= Cardinality(felt')
  BY FS_Subset DEF SentinelAssumption
<1>2. Cardinality(felt) \in Nat /\ Cardinality(felt') \in Nat
  BY <1>1, FS_CardinalityType
<1> QED
  BY <1>1, <1>2 DEF Enough, SentinelAssumption

LEMMA CalmGrounded ==
  ASSUME NEW s, NEW v, NEW w, Grounded(s, v), Calm(v, w), \A t \in Sentinels : w.down[t] => v.down[t]
  PROVE  Grounded(s, w)
  BY DEF Grounded, Calm

\* A step of s that leaves the messages and felt alone.
LEMMA CalmStep ==
  ASSUME SenInv, DownInv, NEW s \in Sentinels, NEW w, sen' = [sen EXCEPT ![s] = w], Calm(sen[s], w),
         \A t \in Sentinels : w.down[t] => sen[s].down[t], UNCHANGED <<ask, felt>>
  PROVE  DownInv'
<1>1. Grounded(s, w)
  BY CalmGrounded DEF DownInv
<1>2. \A t \in Sentinels : Grounded(t, sen'[t])
  BY <1>1 DEF DownInv, SenInv
<1>3. \A t \in Sentinels : Grounded(t, sen[t])'
  BY <1>2 DEF Grounded, Enough, Busy
<1> QED
  BY <1>3 DEF DownInv

LEMMA DelayOverDown ==
  ASSUME VotesInv, DownInv, NEW s \in Sentinels, DelayOver(s) PROVE DownInv'
<1> DEFINE w == [sen[s] EXCEPT !.delay = FALSE]
<1>1. IsSen(sen[s]) /\ sen' = [sen EXCEPT ![s] = w] /\ UNCHANGED <<ask, felt>>
  BY DEF DelayOver, VotesInv, SenInv
<1>2. Calm(sen[s], w) /\ w.down = sen[s].down
  BY <1>1 DEF Calm, Busy, IsSen, SenFields
<1> HIDE DEF w
<1> QED
  BY <1>1, <1>2, CalmStep DEF VotesInv

LEMMA ForceDown ==
  ASSUME VotesInv, DownInv, NEW s \in Sentinels, ForceFailover(s) PROVE DownInv'
<1> DEFINE v == sen[s]
           u == sentinelStartFailover(v)
           w == [u EXCEPT !.forced = TRUE]
<1>1. IsSen(v) /\ sen' = [sen EXCEPT ![s] = w] /\ UNCHANGED <<ask, felt>>
  BY DEF ForceFailover, VotesInv, SenInv
<1> HIDE DEF v
<1>2. Calm(v, w) /\ w.down = v.down
  BY <1>1 DEF Calm, Busy, IsSen, SenFields, sentinelStartFailover
<1> HIDE DEF w
<1> QED
  BY <1>1, <1>2, CalmStep DEF v, VotesInv

LEMMA RefreshDown ==
  ASSUME VotesInv, DownInv, NEW s \in Sentinels, NEW i \in Redises, NEW up \in BOOLEAN, sentinelRefreshInstanceInfo(s, i, up)
  PROVE  DownInv'
<1> DEFINE v == sen[s]
           u == [v EXCEPT !.cfg = v.fepoch, !.fstate = "RECONF_SLAVES"]
<1>1. IsSen(v) /\ UNCHANGED <<ask, felt>>
  BY DEF sentinelRefreshInstanceInfo, VotesInv, SenInv
<1>2. PICK step : \/ v.fstate = "WAIT_PROMOTION" /\ sen' = [sen EXCEPT ![s] = sentinelFlushConfig(u)]
                  \/ sen' = [sen EXCEPT ![s] = [v EXCEPT !.reconf[i] = step]]
  BY DEF sentinelRefreshInstanceInfo
<1> HIDE DEF v
<1>3. IsSen(u) /\ u.down = v.down /\ u.sdown = v.sdown /\ u.odown = v.odown /\ u.forced = v.forced /\ u.fstate = "RECONF_SLAVES"
  BY <1>1 DEF IsSen, SenFields
<1> HIDE DEF u
<1>4. v.fstate = "WAIT_PROMOTION" => Calm(v, sentinelFlushConfig(u)) /\ sentinelFlushConfig(u).down = v.down
  BY <1>3, FlushKeeps DEF Kept, Calm, Busy
<1>5. Calm(v, [v EXCEPT !.reconf[i] = step]) /\ [v EXCEPT !.reconf[i] = step].down = v.down
  BY <1>1 DEF Calm, Busy, IsSen, SenFields
<1> QED
  BY <1>1, <1>2, <1>4, <1>5, CalmStep DEF v, VotesInv

LEMMA HelloDown ==
  ASSUME VotesInv, DownInv, NEW s \in Sentinels, NEW h \in hello, sentinelProcessHelloMessage(s, h)
  PROVE  DownInv'
<1> DEFINE v == sen[s]
           u == [v EXCEPT !.cur = h.cur]
           w == IF h.cur > v.cur THEN sentinelFlushConfig(u) ELSE v
           x == [w EXCEPT !.cfg = h.cfg]
           y == sentinelResetMasterAndChangeAddress(x, h.addr)
           Same(z) == IsSen(z) /\ z.down = v.down /\ z.sdown = v.sdown /\ z.odown = v.odown /\ z.forced = v.forced /\ z.fstate = v.fstate
<1>1. IsSen(v) /\ sen' = [sen EXCEPT ![s] = HelloUpdate(v, h)] /\ UNCHANGED <<ask, felt>>
      /\ h.cur \in Nat /\ h.cfg \in Nat
  BY DEF sentinelProcessHelloMessage, VotesInv, SenInv, HelloInv
<1> HIDE DEF v
<1>2. HelloUpdate(v, h) = IF w.cfg >= h.cfg THEN w ELSE IF h.addr # w.addr THEN y ELSE x
  BY DEF HelloUpdate
<1>3. Same(u)
  BY <1>1 DEF IsSen, SenFields
<1> HIDE DEF u
<1>4. Same(w)
  BY <1>1, <1>3, FlushKeeps DEF Kept
<1> HIDE DEF w
<1>5. Same(x)
  BY <1>1, <1>4 DEF IsSen, SenFields
<1> HIDE DEF x
<1>6. y.fstate = "NONE" /\ ~ y.odown /\ ~ y.sdown /\ y.down = x.down
  BY <1>5, ResetKeeps DEF Kept
<1> HIDE DEF y
<1>7. Calm(v, HelloUpdate(v, h)) /\ HelloUpdate(v, h).down = v.down
  BY <1>2, <1>4, <1>5, <1>6 DEF Calm, Busy
<1> QED
  BY <1>1, <1>7, CalmStep DEF v, VotesInv

-----------------------------------------------------------------------------
LEMMA RestartDown ==
  ASSUME VotesInv, DownInv, NEW s \in Sentinels, SenRestart(s)
  PROVE  DownInv'
<1> DEFINE w == FreshSentinel(sen[s].disk)
<1>1. /\ sen' = [sen EXCEPT ![s] = w] /\ felt' = felt /\ DOMAIN sen = Sentinels
      /\ ask' = [t \in Sentinels |-> [u \in Others(t) |-> IF s \in {t, u} THEN Quiet ELSE ask[t][u]]]
  BY DEF SenRestart, VotesInv, SenInv
<1>2. ~ w.sdown /\ ~ w.odown /\ w.fstate = "NONE" /\ w.down = [t \in Sentinels |-> FALSE]
  BY DEF FreshSentinel
<1> HIDE DEF w
<1>3. Grounded(s, w)
  BY <1>2 DEF Grounded, Busy
<1>4. \A t \in Sentinels : Grounded(t, sen'[t])
  BY <1>1, <1>3 DEF DownInv
<1>5. \A t \in Sentinels : Grounded(t, sen[t])'
  BY <1>1, <1>4 DEF Grounded, Enough, Busy
<1>6. \A a \in Sentinels : \A t \in Others(a) : ask'[a][t].is = "rep" /\ ask'[a][t].down => t \in felt
  BY <1>1 DEF DownInv, Quiet
<1> QED
  BY <1>1, <1>5, <1>6 DEF DownInv

LEMMA IsMasterDownDown ==
  ASSUME VotesInv, DownInv, NEW s \in Sentinels, NEW t \in Others(s), IsMasterDown(s, t)
  PROVE  DownInv'
<1> DEFINE q == ask[s][t]
           v == sen[t]
           asked == q.addr = v.addr /\ q.id # Nobody
           w == IF asked THEN sentinelVoteLeader(v, t, q.epoch, q.id) ELSE v
           r == [is |-> "rep", addr |-> 0, epoch |-> IF asked THEN w.lepoch ELSE 0,
                 id |-> IF asked THEN w.leader ELSE Nobody, down |-> q.addr = v.addr /\ v.sdown]
<1>1. /\ t \in Sentinels /\ IsSen(v) /\ Grounded(t, v)
      /\ q.epoch \in Nat /\ q.id \in Sentinels \cup {Nobody} /\ DOMAIN sen = Sentinels
      /\ DOMAIN ask = Sentinels /\ \A u \in Sentinels : DOMAIN ask[u] = Others(u)
  BY DEF Others, VotesInv, SenInv, AskInv, Answer, DownInv
<1>2. sen' = [sen EXCEPT ![t] = w] /\ ask' = [ask EXCEPT ![s][t] = r] /\ felt' = felt
  BY DEF IsMasterDown
<1> HIDE DEF v, q
<1>3. Calm(v, w) /\ w.down = v.down
  <2>1. CASE asked
    <3>1. w = sentinelVoteLeader(v, t, q.epoch, q.id) /\ q.id \in Sentinels /\ q.epoch \in Nat /\ IsSen(v)
      BY <1>1, <2>1
    <3> DEFINE x == sentinelVoteLeader(v, t, q.epoch, q.id)
    <3> HIDE DEF w
    <3>2. Follows(v, x) /\ x.fstate = v.fstate /\ x.forced = v.forced /\ x.odown = v.odown /\ x.sdown = v.sdown
      BY <3>1, VoteFollows
    <3> HIDE DEF x
    <3>3. w = x
      BY <3>1 DEF x
    <3> QED
      BY <3>2, <3>3 DEF Follows, Kept, Calm, Busy
  <2>2. CASE ~ asked
    BY <2>2 DEF Calm
  <2> QED
    BY <2>1, <2>2
<1>4. r.down => t \in felt
  BY <1>1 DEF Grounded
<1> HIDE DEF w, r, asked
<1>5. Grounded(t, w)
  BY <1>1, <1>3, CalmGrounded
<1>6. \A u \in Sentinels : Grounded(u, sen'[u])
  BY <1>1, <1>2, <1>5 DEF DownInv
<1>7. \A u \in Sentinels : Grounded(u, sen[u])'
  BY <1>2, <1>6 DEF Grounded, Enough, Busy
<1>8. \A a \in Sentinels : \A b \in Others(a) : ask'[a][b] = IF a = s /\ b = t THEN r ELSE ask[a][b]
  BY <1>1, <1>2
<1>9. \A a \in Sentinels : \A b \in Others(a) : ask'[a][b].is = "rep" /\ ask'[a][b].down => b \in felt
  BY <1>4, <1>8 DEF DownInv
<1> QED
  BY <1>2, <1>7, <1>9 DEF DownInv

LEMMA ReplyDown ==
  ASSUME VotesInv, DownInv, NEW s \in Sentinels, NEW t \in Others(s), sentinelReceiveIsMasterDownReply(s, t)
  PROVE  DownInv'
<1> DEFINE r == ask[s][t]
           v == sen[s]
           x == IF r.id = Nobody THEN v.vote[t] ELSE [id |-> r.id, epoch |-> r.epoch]
           w == [v EXCEPT !.down[t] = r.down, !.vote[t] = x]
<1>1. /\ t \in Sentinels /\ t # s /\ IsSen(v) /\ Grounded(s, v) /\ DOMAIN sen = Sentinels
      /\ DOMAIN ask = Sentinels /\ \A u \in Sentinels : DOMAIN ask[u] = Others(u)
  BY DEF Others, VotesInv, SenInv, AskInv, DownInv
<1>2. /\ sen' = [sen EXCEPT ![s] = w]
      /\ r.is = "rep" /\ ask' = [ask EXCEPT ![s][t] = Quiet] /\ felt' = felt
  <2>1. /\ sen' = [sen EXCEPT ![s].down[t] = r.down,
                              ![s].vote[t] = IF r.id = Nobody THEN @ ELSE [id |-> r.id, epoch |-> r.epoch]]
    BY DEF sentinelReceiveIsMasterDownReply
  <2>2. sen' = [sen EXCEPT ![s] = w]
    BY <1>1, <2>1 DEF IsSen, SenFields
  <2> QED
    BY <2>2 DEF sentinelReceiveIsMasterDownReply
<1>3. r.down => t \in felt
  BY <1>2 DEF DownInv
<1> HIDE DEF v, r, x
<1>4. /\ w.sdown = v.sdown /\ w.odown = v.odown /\ w.fstate = v.fstate /\ w.forced = v.forced
      /\ w.down = [v.down EXCEPT ![t] = r.down]
  BY <1>1 DEF IsSen, SenFields
<1> HIDE DEF w
<1>5. Grounded(s, w)
  BY <1>1, <1>3, <1>4 DEF Grounded, IsSen, Busy
<1>6. \A u \in Sentinels : Grounded(u, sen'[u])
  BY <1>1, <1>2, <1>5 DEF DownInv
<1>7. \A u \in Sentinels : Grounded(u, sen[u])'
  BY <1>2, <1>6 DEF Grounded, Enough, Busy
<1>8. \A a \in Sentinels : \A b \in Others(a) : ask'[a][b] \in {Quiet, ask[a][b]}
  BY <1>1, <1>2
<1>9. \A a \in Sentinels : \A b \in Others(a) : ask'[a][b].is = "rep" /\ ask'[a][b].down => b \in felt
  BY <1>8 DEF DownInv, Quiet
<1> QED
  BY <1>2, <1>7, <1>9 DEF DownInv

-----------------------------------------------------------------------------
LEMMA QuorumFelt ==
  ASSUME SentinelAssumption, NEW s \in Sentinels, NEW F \in SUBSET Sentinels, s \in F, NEW D, D \subseteq F \ {s},
         1 + Cardinality(D) >= SenQuorum
  PROVE  Cardinality(F) >= SenQuorum
<1>1. IsFiniteSet(F) /\ IsFiniteSet(D) /\ IsFiniteSet(D \cup {s})
  <2>1. F \subseteq Sentinels /\ D \subseteq Sentinels /\ D \cup {s} \subseteq Sentinels
    OBVIOUS
  <2> QED
    BY <2>1, FS_Subset DEF SentinelAssumption
<1>2. Cardinality(D \cup {s}) = Cardinality(D) + 1
  BY <1>1, FS_AddElement
<1>3. Cardinality(D \cup {s}) <= Cardinality(F)
  <2>1. D \cup {s} \subseteq F
    OBVIOUS
  <2> QED
    BY <1>1, <2>1, FS_Subset
<1>4. Cardinality(F) \in Nat /\ Cardinality(D) \in Nat
  BY <1>1, FS_CardinalityType
<1> QED
  BY <1>2, <1>3, <1>4 DEF SentinelAssumption

LEMMA TimerDown ==
  ASSUME SentinelAssumption, VotesInv, DownInv, NEW s \in Sentinels, Timer(s)
  PROVE  DownInv'
<1>1. PICK who, late, stale, blind : sentinelTimer(s, late, stale, blind, who)
  BY DEF Timer
<1> DEFINE v == sen[s]
           linked == {i \in Redises : redis[i].up} \ blind
           gone == v.addr \notin linked \/ (late /\ redis[v.addr].master # 0)
           b == Begin(sentinelCheckObjectivelyDown(sentinelCheckSubjectivelyDown(v, gone)))
           a == sentinelFailoverStateMachine(b, s, Slaves(b) \cap linked, linked, late)
           w == Forget(a, stale)
           D == {t \in DOMAIN v.down : v.down[t]}
<1>2. /\ sen' = [sen EXCEPT ![s] = w] /\ felt' = (IF w.sdown THEN felt \cup {s} ELSE felt)
      /\ ask' = [ask EXCEPT ![s] = [t \in Others(s) |-> IF t \in who THEN Question(w, s) ELSE ask[s][t]]]
  <2>1. \E begun \in {b} : \E acted \in {sentinelFailoverStateMachine(begun, s, Slaves(begun) \cap linked, linked, late)} :
        \E x \in {Forget(acted, stale)}, sent \in {Sent(begun, linked, late)} :
           TimerStep(s, v, begun, acted, x, sent, who)
    BY <1>1, Zenon DEF sentinelTimer
  <2> HIDE DEF b
  <2>2. PICK sent : TimerStep(s, v, b, a, w, sent, who)
    BY <2>1
  <2> HIDE DEF a, w
  <2> QED
    BY <2>2 DEF TimerStep, VotesInv, AskInv
<1>3. IsSen(v) /\ Backed(s, v, voted) /\ Grounded(s, v) /\ DOMAIN sen = Sentinels
  BY DEF VotesInv, SenInv, DownInv
<1> HIDE DEF v, gone, linked
<1>4. /\ Kept(v, b)
      /\ b.odown => b.sdown /\ 1 + Cardinality(D) >= SenQuorum
      /\ Busy(b) /\ ~ b.forced => b.odown \/ (Busy(v) /\ ~ v.forced)
  BY <1>3, BeginKeeps
<1> HIDE DEF b
<1>5. IsSen(b) /\ b.vote[s].id = Nobody
  BY <1>3, <1>4 DEF Kept, Backed
<1>6. Follows(b, a) /\ Calm(b, a)
  <2> DEFINE good == Slaves(b) \cap linked
  <2>1. a = sentinelFailoverStateMachine(b, s, good, linked, late)
    OBVIOUS
  <2> HIDE DEF a, good
  <2> QED
    BY <1>5, <2>1, MachineFollows
<1> HIDE DEF a
<1>7. IsSen(a) /\ a.down = v.down
  BY <1>4, <1>6 DEF Follows, Kept
<1>8. /\ w.sdown = a.sdown /\ w.odown = a.odown /\ w.fstate = a.fstate /\ w.forced = a.forced
      /\ \A t \in Sentinels : w.down[t] => v.down[t]
  BY <1>7, ForgetKeeps
<1> HIDE DEF w
<1>9. felt \subseteq felt' /\ felt' \subseteq Sentinels /\ (w.sdown => s \in felt')
  BY <1>2 DEF DownInv
<1>10. Enough => Enough'
  BY <1>9, EnoughGrows
<1>11. b.odown /\ w.sdown => Enough'
  <2>1. SUFFICES ASSUME b.odown, w.sdown PROVE Cardinality(felt') >= SenQuorum
    BY DEF Enough
  <2>2. D \subseteq felt \ {s}
    BY <1>3 DEF Grounded, IsSen
  <2>3. D \subseteq felt' \ {s} /\ 1 + Cardinality(D) >= SenQuorum /\ s \in felt'
    BY <1>4, <1>9, <2>1, <2>2
  <2> HIDE DEF D
  <2> QED
    BY <1>9, <2>3, QuorumFelt
<1>12. w.odown \/ (Busy(w) /\ ~ w.forced) => Enough'
  <2>1. w.odown => b.odown /\ w.sdown
    BY <1>4, <1>6, <1>8 DEF Calm
  <2>2. Busy(w) /\ ~ w.forced => (b.odown /\ w.sdown) \/ (Busy(v) /\ ~ v.forced)
    BY <1>4, <1>6, <1>8 DEF Calm, Busy
  <2> QED
    BY <1>3, <1>10, <1>11, <2>1, <2>2 DEF Grounded
<1>13. \A t \in Sentinels : w.down[t] => t \in felt' \ {s}
  BY <1>3, <1>8, <1>9 DEF Grounded
<1>14. \A t \in Sentinels : Grounded(t, sen[t])'
  <2> TAKE t \in Sentinels
  <2>1. CASE t = s
    <3>1. sen'[s] = w
      BY <1>2, <1>3
    <3> QED
      BY <2>1, <3>1, <1>9, <1>12, <1>13 DEF Grounded, Busy
  <2>2. CASE t # s
    <3>1. sen'[t] = sen[t] /\ Grounded(t, sen[t])
      BY <2>2, <1>2, <1>3 DEF DownInv
    <3> QED
      BY <3>1, <1>9, <1>10 DEF Grounded, Busy
  <2> QED
    BY <2>1, <2>2
<1>15. \A r \in Sentinels : \A t \in Others(r) : ask'[r][t].is = "rep" /\ ask'[r][t].down => t \in felt'
  <2> DEFINE q == Question(w, s)
  <2>1. q.is = "req"
    BY DEF Question
  <2> HIDE DEF q
  <2>2. \A r \in Sentinels : \A t \in Others(r) : ask'[r][t] \in {q, ask[r][t]}
    BY <1>2 DEF VotesInv, AskInv, q
  <2> QED
    BY <2>1, <2>2, <1>9 DEF DownInv
<1> QED
  BY <1>9, <1>14, <1>15 DEF DownInv

LEMMA InitDown ==
  ASSUME SentinelAssumption, SenInit
  PROVE  DownInv
<1>1. PICK start \in SenStarts :
         /\ start.odown => Cardinality(Sentinels) >= SenQuorum
         /\ sen = [s \in Sentinels |->
                    [FreshSentinel([cur |-> 0, addr |-> 1, cfg |-> 0, lepoch |-> 0]) EXCEPT
                        !.sdown = start.odown, !.odown = start.odown, !.down = [t \in Sentinels |-> start.odown /\ t # s]]]
         /\ ask = [s \in Sentinels |-> [t \in Others(s) |-> Quiet]]
         /\ felt = IF start.odown THEN Sentinels ELSE {}
  BY DEF SenInit
<1> DEFINE f == FreshSentinel([cur |-> 0, addr |-> 1, cfg |-> 0, lepoch |-> 0])
<1>2. DOMAIN f = SenFields /\ f.fstate = "NONE"
  BY DEF FreshSentinel, SenFields
<1> HIDE DEF f
<1>3. \A s \in Sentinels :
         /\ sen[s].sdown = start.odown /\ sen[s].odown = start.odown /\ sen[s].fstate = "NONE"
         /\ sen[s].down = [t \in Sentinels |-> start.odown /\ t # s]
  BY <1>1, <1>2 DEF f, SenFields
<1>4. \A s \in Sentinels : Grounded(s, sen[s])
  <2> TAKE s \in Sentinels
  <2>1. CASE start.odown
    <3>1. felt = Sentinels /\ Enough
      BY <1>1, <2>1 DEF Enough
    <3> QED
      BY <1>3, <3>1 DEF Grounded, Busy
  <2>2. CASE ~ start.odown
    BY <1>3, <2>2 DEF Grounded, Busy
  <2> QED
    BY <2>1, <2>2
<1>5. \A s \in Sentinels : \A t \in Others(s) : ask[s][t].is # "rep"
  BY <1>1 DEF Quiet
<1> QED
  BY <1>1, <1>4, <1>5 DEF DownInv
LEMMA NextDown ==
  ASSUME SentinelAssumption, VotesInv, DownInv, [SenNext]_senVars
  PROVE  DownInv'
<1>1. ASSUME UNCHANGED <<sen, ask, felt>> PROVE DownInv'
  BY <1>1 DEF DownInv, Grounded, Enough, Busy
<1>2. ASSUME NEW s \in Sentinels, sentinelSendHello(s) PROVE DownInv'
  BY <1>1, <1>2 DEF sentinelSendHello
<1>3. ASSUME NEW s \in Sentinels, NEW i \in Redises, Slaveof(s, i) PROVE DownInv'
  BY <1>1, <1>3 DEF Slaveof
<1>4. ASSUME NEW i \in Redises, RedisFlip(i) PROVE DownInv'
  BY <1>1, <1>4 DEF RedisFlip
<1>5. ASSUME UNCHANGED senVars PROVE DownInv'
  BY <1>1, <1>5 DEF senVars
<1> QED
  BY <1>2, <1>3, <1>4, <1>5, TimerDown, DelayOverDown, ForceDown, RestartDown, IsMasterDownDown, ReplyDown, RefreshDown,
     HelloDown DEF SenNext

\* In every execution a Sentinel fails over the first master, unless an operator
\* ordered it, only after a quorum of Sentinels has found a master down
\* (sentinelCheckObjectivelyDown, sentinelReceiveIsMasterDownReply).
THEOREM FailoverByQuorum == SenSpec => []DownByQuorum
<1>1. SenInit => VotesInv /\ DownInv
  BY InitVotes, InitDown, SentinelAssumption
<1>2. VotesInv /\ DownInv /\ [SenNext]_senVars => VotesInv' /\ DownInv'
  BY NextVotes, NextDown, SentinelAssumption
<1>3. DownInv => DownByQuorum
  BY DEF DownInv, Grounded, Enough, DownByQuorum
<1> QED
  BY <1>1, <1>2, <1>3, PTL DEF SenSpec
=============================================================================
