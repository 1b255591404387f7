-------------------------- MODULE SentinelVoteProofs --------------------------
(*****************************************************************************)
(* What the operators of Sentinel.tla do to the votes: every function of the *)
(* failover keeps a Sentinel's last vote and its epoch, except the vote      *)
(* itself, which is later than the one before (Follows); a Sentinel that     *)
(* finds itself elected has a quorum of votes (LeaderHasQuorum); and one     *)
(* step of a Sentinel keeps what is known of the votes given (VotesStep).    *)
(*****************************************************************************)
EXTENDS Sentinel, FiniteSetTheorems, WellFoundedInduction, TLAPS

SenFields == {"cur", "addr", "cfg", "leader", "lepoch", "fstate", "fepoch", "forced", "delay", "sdown", "odown",
              "promoted", "reconf", "down", "vote", "disk"}

\* The part of a Sentinel's state that votes depend on: the vote on disk is
\* the vote in memory.
IsSen(v) ==
    /\ DOMAIN v = SenFields
    /\ v.cur \in Nat /\ v.cfg \in Nat /\ v.lepoch \in Nat /\ v.fepoch \in Nat
    /\ v.leader \in Sentinels \cup {Nobody}
    /\ v.disk.cur \in Nat /\ v.disk.cfg \in Nat /\ v.disk.lepoch = v.lepoch
    /\ DOMAIN v.down = Sentinels
    /\ DOMAIN v.vote = Sentinels
    /\ \A t \in Sentinels : v.vote[t].id \in Sentinels \cup {Nobody} /\ v.vote[t].epoch \in Nat

\* w is v after a step in which it did not vote.
Kept(v, w) ==
    /\ IsSen(w)
    /\ w.lepoch = v.lepoch /\ w.leader \in {v.leader, Nobody}
    /\ w.vote = v.vote /\ w.down = v.down

\* ... or in which it may have voted, once, for one of the Sentinels.
Follows(v, w) ==
    \/ Kept(v, w)
    \/ /\ IsSen(w) /\ w.vote = v.vote /\ w.down = v.down
       /\ w.lepoch > v.lepoch /\ w.leader \in Sentinels

LEMMA FlushKeeps ==
  ASSUME NEW v, IsSen(v)
  PROVE  LET w == sentinelFlushConfig(v)
         IN  /\ Kept(v, w) /\ w.leader = v.leader /\ w.cur = v.cur /\ w.fstate = v.fstate
             /\ w.fepoch = v.fepoch /\ w.forced = v.forced /\ w.odown = v.odown /\ w.sdown = v.sdown
  BY DEF IsSen, Kept, sentinelFlushConfig, SenFields

LEMMA AbortKeeps ==
  ASSUME NEW v, IsSen(v)
  PROVE  Kept(v, sentinelAbortFailover(v)) /\ sentinelAbortFailover(v).fstate = "NONE" /\ sentinelAbortFailover(v).leader = v.leader
  BY DEF IsSen, Kept, sentinelAbortFailover, SenFields

LEMMA ResetKeeps ==
  ASSUME NEW v, IsSen(v), NEW addr
  PROVE  LET w == sentinelResetMasterAndChangeAddress(v, addr)
         IN  Kept(v, w) /\ w.fstate = "NONE" /\ ~ w.odown /\ ~ w.sdown
<1> DEFINE u == [v EXCEPT !.addr = addr, !.leader = Nobody, !.fstate = "NONE", !.forced = FALSE, !.promoted = 0,
                          !.sdown = FALSE, !.odown = FALSE, !.delay = FALSE, !.reconf = [i \in Redises |-> "no"]]
<1>1. Kept(v, u) /\ u.fstate = "NONE" /\ ~ u.odown /\ ~ u.sdown /\ IsSen(u)
  BY DEF IsSen, Kept, SenFields
<1> QED
  BY <1>1, FlushKeeps DEF Kept, sentinelResetMasterAndChangeAddress

\* The vote of an epoch is given once, and only in a later epoch than the last.
LEMMA VoteFollows ==
  ASSUME NEW v, IsSen(v), NEW me, NEW epoch \in Nat, NEW id \in Sentinels
  PROVE  LET w == sentinelVoteLeader(v, me, epoch, id)
         IN  /\ Follows(v, w) /\ w.fstate = v.fstate /\ w.forced = v.forced /\ w.odown = v.odown /\ w.sdown = v.sdown
             /\ w.lepoch = v.lepoch => w.leader = v.leader
<1> DEFINE w == IF epoch > v.cur THEN sentinelFlushConfig([v EXCEPT !.cur = epoch]) ELSE v
           x == [w EXCEPT !.leader = id, !.lepoch = w.cur]
           y == sentinelFlushConfig(x)
           z == [y EXCEPT !.delay = @ \/ id # me]
<1>1. /\ IsSen(w) /\ w.lepoch = v.lepoch /\ w.leader = v.leader /\ w.vote = v.vote /\ w.down = v.down /\ w.cur >= epoch
      /\ w.fstate = v.fstate /\ w.forced = v.forced /\ w.odown = v.odown /\ w.sdown = v.sdown
  <2>1. CASE epoch > v.cur
    <3> DEFINE u == [v EXCEPT !.cur = epoch]
    <3>1. IsSen(u) /\ u.lepoch = v.lepoch /\ u.leader = v.leader /\ u.vote = v.vote /\ u.down = v.down /\ u.cur = epoch
          /\ u.fstate = v.fstate /\ u.forced = v.forced /\ u.odown = v.odown /\ u.sdown = v.sdown
      BY DEF IsSen, SenFields
    <3> HIDE DEF u
    <3>2. sentinelFlushConfig(u).cur >= epoch
      BY <3>1, FlushKeeps
    <3>3. w = sentinelFlushConfig(u)
      BY <2>1 DEF u
    <3> QED
      BY <3>1, <3>2, <3>3, FlushKeeps DEF Kept
  <2>2. CASE ~ epoch > v.cur
    BY <2>2 DEF IsSen
  <2> QED
    BY <2>1, <2>2
<1> HIDE DEF w
<1>2. CASE w.lepoch < epoch /\ w.cur <= epoch
  <2>1. sentinelVoteLeader(v, me, epoch, id) = z
    BY <1>2 DEF sentinelVoteLeader, w
  <2>2. /\ DOMAIN y = SenFields /\ y.leader = id /\ y.lepoch = w.cur /\ y.vote = w.vote /\ y.down = w.down /\ y.cur = w.cur
        /\ y.cfg = w.cfg /\ y.fepoch = w.fepoch /\ y.fstate = w.fstate /\ y.forced = w.forced /\ y.odown = w.odown /\ y.sdown = w.sdown
        /\ y.disk.cur = w.cur /\ y.disk.cfg = w.cfg /\ y.disk.lepoch = w.cur
    BY <1>1 DEF IsSen, SenFields, sentinelFlushConfig
  <2> HIDE DEF y
  <2>3. IsSen(y)
    BY <1>1, <2>2 DEF IsSen
  <2>4. IsSen(z) /\ z.leader = id /\ z.lepoch = w.cur /\ z.vote = v.vote /\ z.down = v.down
        /\ z.fstate = w.fstate /\ z.forced = w.forced /\ z.odown = w.odown /\ z.sdown = w.sdown
    BY <1>1, <2>2, <2>3 DEF IsSen, SenFields
  <2>5. w.cur = epoch /\ w.cur > v.lepoch
    BY <1>1, <1>2 DEF IsSen
  <2> HIDE DEF z
  <2> QED
    BY <1>1, <2>1, <2>4, <2>5 DEF Follows, IsSen
<1>3. CASE ~ (w.lepoch < epoch /\ w.cur <= epoch)
  <2>1. sentinelVoteLeader(v, me, epoch, id) = w
    BY <1>3 DEF sentinelVoteLeader, w
  <2> QED
    BY <1>1, <2>1 DEF Follows, Kept
<1> QED
  BY <1>2, <1>3

-----------------------------------------------------------------------------
LEMMA NatMin ==
  ASSUME NEW T, T \subseteq Nat, T # {}
  PROVE  \E x \in T : \A y \in T : x <= y
<1> DEFINE R == {ss \in Nat \X Nat : ss[1] < ss[2]}
<1>1. IsWellFoundedOn(R, Nat)
  BY NatLessThanWellFounded, Zenon DEF OpToRel
<1>3. \A x, y \in Nat : y < x => <<y, x>> \in R
  OBVIOUS
<1> HIDE DEF R
<1>2. PICK x \in T : \A y \in T : ~ (<<y, x>> \in R)
  BY <1>1, WFMin, Zenon
<1>4. \A y \in T : x <= y
  <2> TAKE y \in T
  <2>1. x \in Nat /\ y \in Nat /\ ~ (y < x)
    BY <1>2, <1>3
  <2> QED
    BY <2>1
<1> QED
  BY <1>4

\* The votes a Sentinel counts for id in its current epoch.
Supporters(v, id) == {t \in DOMAIN v.vote : v.vote[t].id = id /\ v.vote[t].id # Nobody /\ v.vote[t].epoch = v.cur}

LEMMA VotesForBounds ==
  ASSUME SentinelAssumption, NEW v, IsSen(v), NEW id
  PROVE  /\ IsFiniteSet(Supporters(v, id)) /\ Supporters(v, id) \subseteq Sentinels
         /\ VotesFor(v, id) = Cardinality(Supporters(v, id))
         /\ VotesFor(v, id) \in 0..Cardinality(Sentinels)
         /\ Cardinality(Sentinels) \in Nat
<1>1. Supporters(v, id) \subseteq Sentinels
  BY DEF Supporters, IsSen
<1>2. IsFiniteSet(Supporters(v, id)) /\ Cardinality(Supporters(v, id)) <= Cardinality(Sentinels)
  BY <1>1, FS_Subset DEF SentinelAssumption
<1>3. Cardinality(Supporters(v, id)) \in Nat /\ Cardinality(Sentinels) \in Nat
  BY <1>2, FS_CardinalityType DEF SentinelAssumption
<1>4. VotesFor(v, id) = Cardinality(Supporters(v, id))
  BY DEF VotesFor, Supporters
<1> QED
  BY <1>1, <1>2, <1>3, <1>4

LEMMA MostVotedIsSentinel ==
  ASSUME NEW N \in Nat, NEW votes \in [Sentinels -> 0..N]
  PROVE  MostVoted(votes) \in Sentinels \cup {Nobody}
<1>1. CASE \A id \in Sentinels : votes[id] = 0
  BY <1>1 DEF MostVoted
<1>2. CASE ~ \A id \in Sentinels : votes[id] = 0
  <2> DEFINE T == {N - votes[id] : id \in Sentinels}
  <2>1. T \subseteq Nat /\ T # {}
    BY <1>2
  <2>2. PICK x \in T : \A y \in T : x <= y
    BY <2>1, NatMin
  <2>3. PICK id \in Sentinels : x = N - votes[id]
    BY <2>2
  <2>4. \A j \in Sentinels : votes[j] <= votes[id]
    <3> TAKE j \in Sentinels
    <3>1. N - votes[id] <= N - votes[j]
      BY <2>2, <2>3
    <3> QED
      BY <3>1
  <2>5. (CHOOSE i \in Sentinels : \A j \in Sentinels : votes[j] <= votes[i]) \in Sentinels
    BY <2>4
  <2> QED
    BY <1>2, <2>5 DEF MostVoted
<1> QED
  BY <1>1, <1>2

\* Q elects me in v's failover epoch, w being v after its own vote.
ElectedBy(v, w, me, Q) ==
    /\ Q \in SUBSET Sentinels
    /\ HasQuorum(Cardinality(Q))
    /\ \A t \in Q : \/ t # me /\ v.vote[t].id = me /\ v.vote[t].epoch = v.fepoch
                    \/ t = me /\ w.lepoch = v.fepoch /\ w.leader = me

\* The vote of sentinelGetLeader is a vote like another, and a Sentinel that
\* finds itself elected in its current epoch has a quorum of votes.
LEMMA LeaderHasQuorum ==
  ASSUME SentinelAssumption, NEW v, IsSen(v), NEW me \in Sentinels, v.vote[me].id = Nobody
  PROVE  LET g == sentinelGetLeader(v, me, v.fepoch)
         IN  /\ Follows(v, g.v) /\ g.v.fstate = v.fstate /\ g.v.forced = v.forced
             /\ g.v.odown = v.odown /\ g.v.sdown = v.sdown
             /\ g.v.lepoch = v.lepoch => g.v.leader = v.leader
             /\ g.leader = me /\ v.cur = v.fepoch => \E Q : ElectedBy(v, g.v, me, Q)
<1> DEFINE votes == [id \in Sentinels |-> VotesFor(v, id)]
           first == MostVoted(votes)
           w == OwnVote(v, me, v.fepoch, first)
           A == Supporters(v, me)
           mine == IF w.lepoch = v.fepoch THEN w.leader ELSE Nobody
           Q == IF mine = me THEN A \cup {me} ELSE A
           g == sentinelGetLeader(v, me, v.fepoch)
<1>1. votes \in [Sentinels -> 0..Cardinality(Sentinels)] /\ Cardinality(Sentinels) \in Nat
  BY VotesForBounds
<1>2. first \in Sentinels \cup {Nobody}
  BY <1>1, MostVotedIsSentinel
<1>3. g.v = w /\ g.leader = Winner(w, v.fepoch, votes, first)
  BY DEF sentinelGetLeader, LeaderOf, LeaderAmong
<1> HIDE DEF first, g
<1>4. /\ Follows(v, w) /\ w.fstate = v.fstate /\ w.forced = v.forced /\ w.odown = v.odown /\ w.sdown = v.sdown
      /\ w.lepoch = v.lepoch => w.leader = v.leader
  <2> DEFINE id == IF first = Nobody THEN me ELSE first
  <2>1. id \in Sentinels /\ v.fepoch \in Nat
    BY <1>2 DEF IsSen
  <2>2. w = sentinelVoteLeader(v, me, v.fepoch, id)
    BY DEF OwnVote
  <2> HIDE DEF id, w
  <2> QED
    BY <2>1, <2>2, VoteFollows
<1> HIDE DEF w
<1>5. ASSUME Winner(w, v.fepoch, votes, first) = me, v.cur = v.fepoch
      PROVE  ElectedBy(v, w, me, Q)
  <2>1. me # Nobody
    BY DEF SentinelAssumption, Nobody
  <2>2. HasQuorum(votes[me] + IF mine = me THEN 1 ELSE 0)
    BY <1>5, <2>1 DEF Winner
  <2>3. me \notin A
    BY DEF Supporters
  <2>4. IsFiniteSet(A) /\ A \subseteq Sentinels /\ votes[me] = Cardinality(A) /\ Cardinality(A) \in Nat
    BY VotesForBounds
  <2>5. \A t \in A : t # me /\ v.vote[t].id = me /\ v.vote[t].epoch = v.fepoch
    BY <1>5, <2>3 DEF Supporters
  <2>6. mine = me => w.lepoch = v.fepoch /\ w.leader = me
    BY <2>1
  <2> HIDE DEF A, mine, votes
  <2>7. Cardinality(Q) = votes[me] + IF mine = me THEN 1 ELSE 0
    <3>1. CASE mine = me
      BY <3>1, <2>3, <2>4, FS_AddElement
    <3>2. CASE mine # me
      BY <3>2, <2>4
    <3> QED
      BY <3>1, <3>2
  <2> QED
    BY <2>2, <2>4, <2>5, <2>6, <2>7 DEF ElectedBy
<1> HIDE DEF Q
<1> QED
  BY <1>3, <1>4, <1>5 DEF g

-----------------------------------------------------------------------------
\* w has the down states of v and no failover that v had not, or it has neither.
Calm(v, w) ==
    \/ w.sdown = v.sdown /\ w.odown = v.odown /\ (Busy(w) /\ ~ w.forced => Busy(v) /\ ~ v.forced)
    \/ ~ w.sdown /\ ~ w.odown /\ ~ Busy(w)

LEMMA MachineFollows ==
  ASSUME SentinelAssumption, NEW v, IsSen(v), NEW me \in Sentinels, v.vote[me].id = Nobody,
         NEW good, NEW linked, NEW late
  PROVE  LET a == sentinelFailoverStateMachine(v, me, good, linked, late)
         IN  /\ Follows(v, a) /\ Calm(v, a)
             /\ v.fstate = "WAIT_START" /\ a.fstate = "SELECT_SLAVE" /\ v.cur = v.fepoch /\ ~ v.forced
                => \E Q : ElectedBy(v, a, me, Q)
             /\ a.lepoch = v.lepoch => a.leader \in {v.leader, Nobody}
<1> DEFINE a == sentinelFailoverStateMachine(v, me, good, linked, late)
           Goal(b) == Kept(v, b) /\ Calm(v, b)
           Final(b) ==
             /\ Follows(v, b) /\ Calm(v, b)
             /\ v.fstate = "WAIT_START" /\ b.fstate = "SELECT_SLAVE" /\ v.cur = v.fepoch /\ ~ v.forced
                => \E Q : ElectedBy(v, b, me, Q)
             /\ b.lepoch = v.lepoch => b.leader \in {v.leader, Nobody}
<1>0. Goal(v)
  BY DEF Kept, Calm, IsSen
<1>1. Goal(sentinelAbortFailover(v))
  <2>1. sentinelAbortFailover(v).sdown = v.sdown /\ sentinelAbortFailover(v).odown = v.odown
    BY DEF sentinelAbortFailover, IsSen, SenFields
  <2> QED
    BY <2>1, AbortKeeps DEF Calm, Busy
<1>2. ASSUME v.fstate = "WAIT_START"
      PROVE  /\ Follows(v, a) /\ Calm(v, a)
             /\ a.fstate = "SELECT_SLAVE" /\ v.cur = v.fepoch /\ ~ v.forced => \E Q : ElectedBy(v, a, me, Q)
  <2> DEFINE g == sentinelGetLeader(v, me, v.fepoch)
             u == g.v
             b == [u EXCEPT !.fstate = "SELECT_SLAVE"]
             c == sentinelAbortFailover(u)
  <2>1. a = IF g.leader = me \/ v.forced THEN b ELSE IF late THEN c ELSE u
    BY <1>2 DEF sentinelFailoverStateMachine, sentinelFailoverWaitStart
  <2>2. /\ Follows(v, u) /\ u.fstate = v.fstate /\ u.forced = v.forced /\ u.odown = v.odown /\ u.sdown = v.sdown
        /\ g.leader = me /\ v.cur = v.fepoch => \E Q : ElectedBy(v, u, me, Q)
    BY LeaderHasQuorum
  <2>3. IsSen(u)
    BY <2>2 DEF Follows, Kept
  <2> HIDE DEF u
  <2>4. /\ IsSen(b) /\ b.lepoch = u.lepoch /\ b.leader = u.leader /\ b.vote = u.vote /\ b.down = u.down
        /\ b.fstate = "SELECT_SLAVE" /\ b.forced = u.forced /\ b.odown = u.odown /\ b.sdown = u.sdown
    BY <2>3 DEF IsSen, SenFields
  <2>5. /\ IsSen(c) /\ c.lepoch = u.lepoch /\ c.leader = u.leader /\ c.vote = u.vote /\ c.down = u.down
        /\ c.fstate = "NONE" /\ c.odown = u.odown /\ c.sdown = u.sdown
    BY <2>3 DEF IsSen, SenFields, sentinelAbortFailover
  <2> HIDE DEF b, c, a
  <2>6. Follows(v, b) /\ Follows(v, c)
    BY <2>2, <2>4, <2>5 DEF Follows, Kept
  <2>7. Calm(v, b) /\ Calm(v, c) /\ Calm(v, u)
    BY <1>2, <2>2, <2>4, <2>5 DEF Calm, Busy
  <2>8. a.fstate = "SELECT_SLAVE" /\ ~ v.forced => a = b /\ g.leader = me
    BY <1>2, <2>1, <2>2, <2>5
  <2>9. \A Q : ElectedBy(v, u, me, Q) => ElectedBy(v, b, me, Q)
    BY <2>4 DEF ElectedBy
  <2> QED
    BY <2>1, <2>2, <2>6, <2>7, <2>8, <2>9
<1>3. ASSUME v.fstate = "SELECT_SLAVE" PROVE Goal(a)
  <2> DEFINE i == sentinelSelectSlave(v, good)
             b == [v EXCEPT !.promoted = i, !.fstate = "SEND_SLAVEOF_NOONE"]
  <2>1. a = IF i = 0 THEN sentinelAbortFailover(v) ELSE b
    BY <1>3 DEF sentinelFailoverStateMachine, sentinelFailoverSelectSlave
  <2> HIDE DEF i
  <2>2. Goal(b)
    BY <1>3 DEF IsSen, SenFields, Kept, Calm, Busy
  <2> QED
    BY <1>1, <2>1, <2>2
<1>4. ASSUME v.fstate = "SEND_SLAVEOF_NOONE" PROVE Goal(a)
  <2> DEFINE b == [v EXCEPT !.fstate = "WAIT_PROMOTION"]
  <2>1. a = IF v.promoted \in linked THEN b ELSE IF late THEN sentinelAbortFailover(v) ELSE v
    BY <1>4 DEF sentinelFailoverStateMachine, sentinelFailoverSendSlaveOfNoOne
  <2>2. Goal(b)
    BY <1>4 DEF IsSen, SenFields, Kept, Calm, Busy
  <2> QED
    BY <1>0, <1>1, <2>1, <2>2
<1>5. ASSUME v.fstate = "WAIT_PROMOTION" PROVE Goal(a)
  <2>1. a = IF late THEN sentinelAbortFailover(v) ELSE v
    BY <1>5 DEF sentinelFailoverStateMachine, sentinelFailoverWaitPromotion
  <2> QED
    BY <1>0, <1>1, <2>1
<1>6. ASSUME v.fstate = "RECONF_SLAVES" PROVE Goal(a)
  <2> DEFINE re == [i \in Redises |-> IF i \in ReconfNext(v, linked) THEN "sent" ELSE v.reconf[i]]
             w == [v EXCEPT !.reconf = re]
             open == {i \in Slaves(v) \ {v.promoted} : w.reconf[i] # "done" /\ redis[i].up}
             r == sentinelResetMasterAndChangeAddress(w, v.promoted)
  <2>1. w = [v EXCEPT !.reconf = [i \in Redises |-> IF i \in ReconfNext(v, linked) THEN "sent" ELSE @[i]]]
    OBVIOUS
  <2>2. a = IF redis[v.promoted].up /\ (open = {} \/ late) THEN r ELSE w
    BY <1>6, <2>1 DEF sentinelFailoverStateMachine, sentinelFailoverReconfNextSlave
  <2> HIDE DEF re, open
  <2>3. IsSen(w) /\ Kept(v, w) /\ w.leader = v.leader /\ w.sdown = v.sdown /\ w.odown = v.odown /\ w.fstate = v.fstate /\ w.forced = v.forced
    BY DEF IsSen, SenFields, Kept
  <2> HIDE DEF w
  <2>4. Kept(w, r) /\ r.fstate = "NONE" /\ ~ r.odown /\ ~ r.sdown
    BY <2>3, ResetKeeps
  <2> HIDE DEF r
  <2>5. Goal(w)
    BY <2>3 DEF Calm, Busy
  <2>6. Goal(r)
    BY <2>3, <2>4 DEF Calm, Busy, Kept
  <2> QED
    BY <2>2, <2>5, <2>6
<1>7. ASSUME v.fstate \notin {"WAIT_START", "SELECT_SLAVE", "SEND_SLAVEOF_NOONE", "WAIT_PROMOTION", "RECONF_SLAVES"}
      PROVE  Goal(a)
  BY <1>0, <1>7 DEF sentinelFailoverStateMachine
<1> HIDE DEF a
<1>8. ASSUME v.fstate = "WAIT_START" PROVE Final(a)
  <2>1. Follows(v, a) /\ a.lepoch = v.lepoch => a.leader \in {v.leader, Nobody}
    BY DEF Follows, Kept, IsSen
  <2> QED
    BY <1>2, <1>8, <2>1
<1>9. ASSUME v.fstate # "WAIT_START" PROVE Final(a)
  <2>1. Goal(a)
    BY <1>3, <1>4, <1>5, <1>6, <1>7, <1>9
  <2> QED
    BY <1>9, <2>1 DEF Follows, Kept
<1>10. Final(a)
  BY <1>8, <1>9
<1> QED
  BY <1>10 DEF a

-----------------------------------------------------------------------------
LEMMA BeginKeeps ==
  ASSUME NEW v, IsSen(v), NEW gone
  PROVE  LET b == Begin(sentinelCheckObjectivelyDown(sentinelCheckSubjectivelyDown(v, gone)))
         IN  /\ Kept(v, b) /\ b.leader = v.leader
             /\ b.odown => b.sdown /\ 1 + Cardinality({t \in DOMAIN v.down : v.down[t]}) >= SenQuorum
             /\ Busy(b) /\ ~ b.forced => b.odown \/ (Busy(v) /\ ~ v.forced)
<1> DEFINE x == sentinelCheckSubjectivelyDown(v, gone)
           y == sentinelCheckObjectivelyDown(x)
           z == sentinelStartFailover(y)
<1>1. /\ Kept(v, x) /\ IsSen(x) /\ x.leader = v.leader /\ x.fstate = v.fstate /\ x.forced = v.forced
  BY DEF IsSen, SenFields, Kept, sentinelCheckSubjectivelyDown
<1> HIDE DEF x
<1> DEFINE down == {t \in DOMAIN x.down : x.down[t]}
           od == x.sdown /\ 1 + Cardinality(down) >= SenQuorum
<1>2. y = [x EXCEPT !.odown = od]
  BY DEF sentinelCheckObjectivelyDown
<1> HIDE DEF od, y
<1>3. /\ Kept(v, y) /\ IsSen(y) /\ y.leader = v.leader /\ y.fstate = v.fstate /\ y.forced = v.forced
      /\ y.sdown = x.sdown /\ y.odown = od
  BY <1>1, <1>2 DEF IsSen, SenFields, Kept
<1>4. y.odown => y.sdown /\ 1 + Cardinality({t \in DOMAIN v.down : v.down[t]}) >= SenQuorum
  BY <1>1, <1>3 DEF od, Kept
<1>5. /\ Kept(v, z) /\ z.leader = v.leader /\ z.odown = y.odown /\ z.sdown = y.sdown
  BY <1>3 DEF IsSen, SenFields, Kept, sentinelStartFailover
<1> HIDE DEF z
<1>6. Begin(y) = IF y.odown /\ ~ Busy(y) /\ ~ y.delay THEN z ELSE y
  BY DEF Begin, StartIfNeeded, z
<1>7. CASE y.odown /\ ~ Busy(y) /\ ~ y.delay
  <2>1. Begin(y) = z
    BY <1>6, <1>7
  <2>2. z.odown
    BY <1>5, <1>7
  <2> QED
    BY <1>4, <1>5, <2>1, <2>2 DEF y, x
<1>8. CASE ~ (y.odown /\ ~ Busy(y) /\ ~ y.delay)
  <2>1. Begin(y) = y
    BY <1>6, <1>8
  <2> QED
    BY <1>3, <1>4, <2>1 DEF y, x, Busy
<1> QED
  BY <1>7, <1>8

LEMMA ForgetKeeps ==
  ASSUME NEW v, IsSen(v), NEW stale
  PROVE  LET w == Forget(v, stale)
         IN  /\ IsSen(w) /\ w.lepoch = v.lepoch /\ w.leader = v.leader
             /\ w.sdown = v.sdown /\ w.odown = v.odown /\ w.fstate = v.fstate /\ w.forced = v.forced
             /\ \A t \in Sentinels : w.vote[t].id \in {v.vote[t].id, Nobody} /\ w.vote[t].epoch = v.vote[t].epoch
             /\ \A t \in Sentinels : w.down[t] => v.down[t]
<1> DEFINE vt == [t \in Sentinels |-> IF t \in stale THEN [v.vote[t] EXCEPT !.id = Nobody] ELSE v.vote[t]]
           dn == [t \in Sentinels |-> v.down[t] /\ t \notin stale]
           w == [v EXCEPT !.down = dn, !.vote = vt]
<1>1. Forget(v, stale) = w
  BY DEF Forget, IsSen
<1>2. \A t \in Sentinels : vt[t].id \in {v.vote[t].id, Nobody} /\ vt[t].epoch = v.vote[t].epoch
  OBVIOUS
<1>3. \A t \in Sentinels : dn[t] => v.down[t]
  OBVIOUS
<1>4. DOMAIN vt = Sentinels /\ DOMAIN dn = Sentinels
  OBVIOUS
<1> HIDE DEF vt, dn
<1>5. /\ DOMAIN w = SenFields /\ w.cur = v.cur /\ w.cfg = v.cfg /\ w.lepoch = v.lepoch /\ w.fepoch = v.fepoch
      /\ w.leader = v.leader /\ w.disk = v.disk /\ w.down = dn /\ w.vote = vt
      /\ w.sdown = v.sdown /\ w.odown = v.odown /\ w.fstate = v.fstate /\ w.forced = v.forced
  BY DEF IsSen, SenFields
<1> HIDE DEF w
<1>6. IsSen(w)
  BY <1>2, <1>4, <1>5 DEF IsSen
<1> QED
  BY <1>1, <1>2, <1>3, <1>5, <1>6

-----------------------------------------------------------------------------
Vote(s, epoch, id) == [by |-> s, epoch |-> epoch, to |-> id]

\* The vote of s itself, and the votes of others that s has been told, were given.
Backed(s, v, votes) ==
    /\ v.leader # Nobody => Vote(s, v.lepoch, v.leader) \in votes
    /\ \A t \in Sentinels : v.vote[t].id # Nobody => t # s /\ Vote(t, v.vote[t].epoch, v.vote[t].id) \in votes

SenInv ==
    /\ DOMAIN sen = Sentinels
    /\ \A s \in Sentinels : IsSen(sen[s]) /\ Backed(s, sen[s], voted)

\* Votes are given in increasing epochs.
VotedInv ==
    /\ \A b \in voted : b.by \in Sentinels /\ b.epoch \in Nat /\ b.epoch <= sen[b.by].lepoch
    /\ VoteOnce

Answer(t, q, votes) ==
    /\ q.epoch \in Nat /\ q.id \in Sentinels \cup {Nobody}
    /\ q.is = "rep" /\ q.id # Nobody => Vote(t, q.epoch, q.id) \in votes

AskInv ==
    /\ DOMAIN ask = Sentinels
    /\ \A s \in Sentinels : DOMAIN ask[s] = Others(s) /\ \A t \in Others(s) : Answer(t, ask[s][t], voted)

HelloInv == \A h \in hello : h.cur \in Nat /\ h.cfg \in Nat

\* A Sentinel elected with the votes of its own failover's epoch had a quorum.
ElectedInv ==
    \A e \in elected : e.pure => \E Q \in SUBSET Sentinels :
        HasQuorum(Cardinality(Q)) /\ \A t \in Q : Vote(t, e.epoch, e.by) \in voted

VotesInv == SenInv /\ VotedInv /\ AskInv /\ HelloInv /\ ElectedInv

\* w is v after a step in which it voted once, in a later epoch, or not at all.
Advances(v, w) ==
    \/ w.lepoch = v.lepoch /\ w.leader \in {v.leader, Nobody}
    \/ w.lepoch > v.lepoch /\ w.leader \in Sentinels

LEMMA VotesStep ==
  ASSUME SentinelAssumption, SenInv, VotedInv, NEW s \in Sentinels, NEW w, IsSen(w), Advances(sen[s], w),
         \A t \in Sentinels : w.vote[t].id # Nobody => t # s /\ Vote(t, w.vote[t].epoch, w.vote[t].id) \in voted,
         sen' = [sen EXCEPT ![s] = w], voted' = voted \cup NewVote(s, sen[s], w)
  PROVE  SenInv' /\ VotedInv' /\ voted \subseteq voted'
<1>1. voted \subseteq voted'
  OBVIOUS
<1>2. sen'[s] = w /\ \A t \in Sentinels \ {s} : sen'[t] = sen[t]
  BY DEF SenInv
<1>3. IsSen(sen[s]) /\ sen[s].lepoch \in Nat /\ w.lepoch \in Nat
  BY DEF SenInv, IsSen
<1>4. SenInv'
  <2>1. DOMAIN sen' = Sentinels
    BY DEF SenInv
  <2>2. Backed(s, w, voted')
    <3>1. w.leader # Nobody => Vote(s, w.lepoch, w.leader) \in voted'
      <4>1. CASE w.lepoch = sen[s].lepoch /\ w.leader \in {sen[s].leader, Nobody}
        BY <4>1, <1>1 DEF SenInv, Backed
      <4>2. CASE w.lepoch > sen[s].lepoch /\ w.leader \in Sentinels
        BY <4>2, <1>3 DEF NewVote, Vote
      <4> QED
        BY <4>1, <4>2 DEF Advances
    <3> QED
      BY <3>1, <1>1 DEF Backed
  <2>3. \A t \in Sentinels \ {s} : IsSen(sen'[t]) /\ Backed(t, sen'[t], voted')
    BY <1>1, <1>2 DEF SenInv, Backed
  <2>4. IsSen(sen'[s]) /\ Backed(s, sen'[s], voted')
    BY <1>2, <2>2
  <2> QED
    BY <2>1, <2>3, <2>4 DEF SenInv
<1>5. VotedInv'
  <2>1. w.lepoch >= sen[s].lepoch
    BY <1>3 DEF Advances
  <2>2. \A b \in voted : b.by \in Sentinels /\ b.epoch \in Nat /\ b.epoch <= sen'[b.by].lepoch
    <3> TAKE b \in voted
    <3>1. b.by \in Sentinels /\ b.epoch \in Nat /\ b.epoch <= sen[b.by].lepoch
      BY DEF VotedInv
    <3>2. CASE b.by = s
      BY <3>1, <3>2, <1>2, <1>3, <2>1
    <3>3. CASE b.by # s
      BY <3>1, <3>3, <1>2
    <3> QED
      BY <3>2, <3>3
  <2>3. CASE w.lepoch = sen[s].lepoch
    <3>1. voted' = voted
      BY <2>3 DEF NewVote
    <3> QED
      BY <2>2, <3>1 DEF VotedInv, VoteOnce
  <2>4. CASE w.lepoch # sen[s].lepoch
    <3> DEFINE n == Vote(s, w.lepoch, w.leader)
    <3>1. voted' = voted \cup {n} /\ n.by = s /\ n.epoch = w.lepoch
      BY <2>4 DEF NewVote, Vote
    <3>2. \A b \in voted : b.by = s => b.epoch # w.lepoch
      BY <2>4, <2>1, <1>3 DEF VotedInv
    <3> HIDE DEF n
    <3>3. VoteOnce'
      BY <3>1, <3>2 DEF VotedInv, VoteOnce
    <3>4. \A b \in voted' : b.by \in Sentinels /\ b.epoch \in Nat /\ b.epoch <= sen'[b.by].lepoch
      BY <3>1, <2>2, <1>2, <1>3
    <3> QED
      BY <3>3, <3>4 DEF VotedInv
  <2> QED
    BY <2>3, <2>4
<1> QED
  BY <1>1, <1>4, <1>5

LEMMA ElectedKept ==
  ASSUME ElectedInv, voted \subseteq voted', elected' = elected
  PROVE  ElectedInv'
  BY DEF ElectedInv

LEMMA AskKept ==
  ASSUME AskInv, voted \subseteq voted', ask' = ask
  PROVE  AskInv'
  BY DEF AskInv, Answer

\* Two quorums of an epoch share a Sentinel, which voted once.
LEMMA QuorumsMeet ==
  ASSUME SentinelAssumption, NEW P \in SUBSET Sentinels, NEW Q \in SUBSET Sentinels,
         HasQuorum(Cardinality(P)), HasQuorum(Cardinality(Q))
  PROVE  P \cap Q # {}
<1>1. IsFiniteSet(P) /\ IsFiniteSet(Q) /\ IsFiniteSet(P \cup Q) /\ IsFiniteSet(P \cap Q)
  BY FS_Subset, FS_Union, FS_Intersection DEF SentinelAssumption
<1>2. Cardinality(P \cup Q) = Cardinality(P) + Cardinality(Q) - Cardinality(P \cap Q)
  BY <1>1, FS_Union
<1>3. Cardinality(P \cup Q) <= Cardinality(Sentinels)
  <2>1. P \cup Q \subseteq Sentinels
    OBVIOUS
  <2> QED
    BY <2>1, FS_Subset DEF SentinelAssumption
<1>4. /\ Cardinality(P) \in Nat /\ Cardinality(Q) \in Nat /\ Cardinality(P \cup Q) \in Nat
      /\ Cardinality(P \cap Q) \in Nat /\ Cardinality(Sentinels) \in Nat
  BY <1>1, FS_CardinalityType DEF SentinelAssumption
<1>5. SUFFICES ASSUME Cardinality(P \cap Q) = 0 PROVE FALSE
  BY FS_EmptySet
<1>6. Cardinality(P) >= (Cardinality(Sentinels) \div 2) + 1 /\ Cardinality(Q) >= (Cardinality(Sentinels) \div 2) + 1
  BY DEF HasQuorum
<1> DEFINE n == Cardinality(Sentinels)
           p == Cardinality(P)
           q == Cardinality(Q)
<1>7. n \in Nat /\ p \in Nat /\ q \in Nat /\ p >= (n \div 2) + 1 /\ q >= (n \div 2) + 1 /\ p + q <= n
  BY <1>2, <1>3, <1>4, <1>5, <1>6
<1> HIDE DEF n, p, q
<1> QED
  BY <1>7

LEMMA VotesElectOne ==
  ASSUME SentinelAssumption, VotesInv
  PROVE  OneLeaderPerEpoch
<1>1. ASSUME NEW a \in elected, NEW b \in elected, a.pure, b.pure, a.epoch = b.epoch
      PROVE  a.by = b.by
  <2>1. PICK P \in SUBSET Sentinels : HasQuorum(Cardinality(P)) /\ \A t \in P : Vote(t, a.epoch, a.by) \in voted
    BY <1>1 DEF VotesInv, ElectedInv
  <2>2. PICK Q \in SUBSET Sentinels : HasQuorum(Cardinality(Q)) /\ \A t \in Q : Vote(t, b.epoch, b.by) \in voted
    BY <1>1 DEF VotesInv, ElectedInv
  <2>3. PICK t \in P : t \in Q
    BY <2>1, <2>2, QuorumsMeet
  <2>4. Vote(t, a.epoch, a.by) \in voted /\ Vote(t, b.epoch, b.by) \in voted
    BY <2>1, <2>2, <2>3
  <2>5. VoteOnce
    BY DEF VotesInv, VotedInv
  <2>6. Vote(t, a.epoch, a.by).to = Vote(t, b.epoch, b.by).to
    BY <1>1, <2>4, <2>5 DEF VoteOnce, Vote
  <2> QED
    BY <2>6 DEF Vote
<1> QED
  BY <1>1 DEF OneLeaderPerEpoch, OneLeader, VotesInv, VotedInv
=============================================================================
