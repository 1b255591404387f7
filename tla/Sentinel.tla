------------------------------ MODULE Sentinel ------------------------------
(***************************************************************************)
(* The failover of one monitored master by the Sentinels of sentinel.c: the  *)
(* down states, the requests that ask for a down state and for a vote, the   *)
(* leader election of an epoch, the failover state machine, the hello        *)
(* messages that spread a configuration, the configuration file and crashes. *)
(*                                                                         *)
(* A Sentinel is a record and each C function an operator on it; one run of  *)
(* the timer is one action.  What the clock decides (a timeout that elapsed, *)
(* a reply that is too old, the delay between two failovers) is an argument. *)
(* Hello messages travel through every monitored instance, so they arrive in *)
(* any order and more than once.  INFO is read when its reply is processed.  *)
(* All Sentinels and replicas are known to each other from the start.        *)
(***************************************************************************)
EXTENDS Integers, FiniteSets, Sequences, FiniteSetsExt

CONSTANTS Sentinels,   \* 1 .. n, their run IDs
          Redises,     \* 1 .. n, the Redis instances; 1 is the first master
          SenQuorum,   \* master->quorum
          SenStarts    \* [odown, budget]

\* Run IDs are not Nobody, the dictionaries of Sentinels are finite, and a quorum
\* is a number of Sentinels.
ASSUME SentinelAssumption ==
    IsFiniteSet(Sentinels) /\ Sentinels \subseteq Nat \ {0} /\ SenQuorum \in Nat \ {0}

VARIABLES sen,        \* each Sentinel's state
          redis,      \* each instance: its master (0: none), up, priority, offset
          ask,        \* ask[s][t]: request or reply between s and t
          order,      \* order[s][i]: SLAVEOF commands from s that i has not executed
          hello,      \* hello messages published
          elected,    \* history: elections won
          voted,      \* history: votes given, [by, epoch, to]
          felt,       \* history: Sentinels that found a master down
          senBudget

senVars == <<sen, redis, ask, order, hello, elected, voted, felt, senBudget>>

Nobody == 0
Quiet == [is |-> "none", addr |-> 0, epoch |-> 0, id |-> Nobody, down |-> FALSE]
Others(s) == Sentinels \ {s}
Slaves(v) == Redises \ {v.addr}
Busy(v) == v.fstate # "NONE"   \* SRI_FAILOVER_IN_PROGRESS

-----------------------------------------------------------------------------
\* Once the promotion is confirmed, the new address is the one to announce.
sentinelGetCurrentMasterAddress(v) ==
    IF Busy(v) /\ v.promoted # 0 /\ v.fstate \in {"RECONF_SLAVES", "UPDATE_CONFIG"} THEN v.promoted ELSE v.addr

sentinelFlushConfig(v) ==
    [v EXCEPT !.disk = [cur |-> v.cur, addr |-> sentinelGetCurrentMasterAddress(v), cfg |-> v.cfg, lepoch |-> v.lepoch]]

sentinelAbortFailover(v) ==
    [v EXCEPT !.fstate = "NONE", !.forced = FALSE, !.promoted = 0]

\* The master is forgotten but for its name, and monitored at another address;
\* the old address becomes one of the replicas.
sentinelResetMasterAndChangeAddress(v, addr) ==
    sentinelFlushConfig([v EXCEPT !.addr = addr, !.leader = Nobody, !.fstate = "NONE", !.forced = FALSE, !.promoted = 0,
                                  !.sdown = FALSE, !.odown = FALSE, !.delay = FALSE, !.reconf = [i \in Redises |-> "no"]])

\* Mutant: the vote is not on disk when it is sent.
VoteUnsaved(v, me, epoch, id) ==
    LET w == IF epoch > v.cur THEN sentinelFlushConfig([v EXCEPT !.cur = epoch]) ELSE v
    IN  IF w.lepoch < epoch /\ w.cur <= epoch
        THEN [w EXCEPT !.leader = id, !.lepoch = w.cur, !.delay = @ \/ id # me] ELSE w

\* One vote in an epoch, on disk before it is sent.
sentinelVoteLeader(v, me, epoch, id) ==
    LET w == IF epoch > v.cur THEN sentinelFlushConfig([v EXCEPT !.cur = epoch]) ELSE v
    IN  IF w.lepoch < epoch /\ w.cur <= epoch
        THEN [sentinelFlushConfig([w EXCEPT !.leader = id, !.lepoch = w.cur]) EXCEPT !.delay = @ \/ id # me] ELSE w

\* The others' votes of the current epoch, then our own.
VotesFor(v, id) == Cardinality({t \in DOMAIN v.vote : v.vote[t].id = id /\ v.vote[t].id # Nobody /\ v.vote[t].epoch = v.cur})

\* The Sentinel with the most of the votes, if anybody has one.
MostVoted(votes) ==
    IF \A id \in Sentinels : votes[id] = 0 THEN Nobody
    ELSE CHOOSE id \in Sentinels : \A j \in Sentinels : votes[j] <= votes[id]

HasQuorum(n) == n >= (Cardinality(Sentinels) \div 2) + 1 /\ n >= SenQuorum

\* w has voted, for whom votes had first: its vote in the epoch counts too.
Winner(w, epoch, votes, first) ==
    LET mine == IF w.lepoch = epoch THEN w.leader ELSE Nobody
        count(id) == votes[id] + IF mine = id THEN 1 ELSE 0
        winner == IF mine # Nobody /\ (first = Nobody \/ count(mine) > votes[first]) THEN mine ELSE first
    IN  IF winner # Nobody /\ HasQuorum(count(winner)) THEN winner ELSE Nobody

\* sentinelGetLeader votes too: the Sentinel after it, and the leader.
OwnVote(v, me, epoch, first) == sentinelVoteLeader(v, me, epoch, IF first = Nobody THEN me ELSE first)
LeaderAmong(v, me, epoch, votes, first) ==
    LET w == OwnVote(v, me, epoch, first) IN [v |-> w, leader |-> Winner(w, epoch, votes, first)]
LeaderOf(v, me, epoch, votes) == LeaderAmong(v, me, epoch, votes, MostVoted(votes))
sentinelGetLeader(v, me, epoch) == LeaderOf(v, me, epoch, [id \in Sentinels |-> VotesFor(v, id)])

-----------------------------------------------------------------------------
\* The timer.  gone: the master does not reply, or says it is a replica.
sentinelCheckSubjectivelyDown(v, gone) == [v EXCEPT !.sdown = gone]

sentinelCheckObjectivelyDown(v) ==
    [v EXCEPT !.odown = v.sdown /\ 1 + Cardinality({t \in DOMAIN v.down : v.down[t]}) >= SenQuorum]

sentinelStartFailover(v) ==
    [v EXCEPT !.fstate = "WAIT_START", !.cur = @ + 1, !.fepoch = v.cur + 1, !.delay = TRUE]

StartIfNeeded(v) == v.odown /\ ~ Busy(v) /\ ~ v.delay

\* Better first: priority, then offset, then run ID.
Better(i, j) ==
    \/ redis[i].prio < redis[j].prio
    \/ redis[i].prio = redis[j].prio /\ redis[i].off > redis[j].off
    \/ redis[i].prio = redis[j].prio /\ redis[i].off = redis[j].off /\ i < j

\* sentinelSelectSlave, among the replicas whose links and INFO are good.
sentinelSelectSlave(v, good) ==
    LET fit == {i \in good : redis[i].prio # 0}
    IN  IF fit = {} THEN 0 ELSE CHOOSE i \in fit : \A j \in fit \ {i} : Better(i, j)

sentinelFailoverWaitStart(v, me, late) ==
    LET g == sentinelGetLeader(v, me, v.fepoch)
    IN  IF g.leader = me \/ v.forced THEN [g.v EXCEPT !.fstate = "SELECT_SLAVE"]
        ELSE IF late THEN sentinelAbortFailover(g.v) ELSE g.v

sentinelFailoverSelectSlave(v, good) ==
    LET i == sentinelSelectSlave(v, good)
    IN  IF i = 0 THEN sentinelAbortFailover(v) ELSE [v EXCEPT !.promoted = i, !.fstate = "SEND_SLAVEOF_NOONE"]

sentinelFailoverSendSlaveOfNoOne(v, linked, late) ==
    IF v.promoted \in linked THEN [v EXCEPT !.fstate = "WAIT_PROMOTION"]
    ELSE IF late THEN sentinelAbortFailover(v) ELSE v

sentinelFailoverWaitPromotion(v, late) == IF late THEN sentinelAbortFailover(v) ELSE v

\* The replicas to reconfigure now: one at a time (parallel-syncs), linked.
ReconfNext(v, linked) ==
    IF \E i \in Slaves(v) : v.reconf[i] \in {"sent", "inprog"} THEN {}
    ELSE LET todo == {i \in (Slaves(v) \ {v.promoted}) \cap linked : v.reconf[i] = "no"}
         IN  IF todo = {} THEN {} ELSE {CHOOSE i \in todo : TRUE}

\* The failover ends when all reachable replicas are done, or by timeout.
sentinelFailoverReconfNextSlave(v, linked, late) ==
    LET w == [v EXCEPT !.reconf = [i \in Redises |-> IF i \in ReconfNext(v, linked) THEN "sent" ELSE @[i]]]
        open == {i \in Slaves(v) \ {v.promoted} : w.reconf[i] # "done" /\ redis[i].up}
    IN  IF redis[v.promoted].up /\ (open = {} \/ late)
        THEN sentinelResetMasterAndChangeAddress(w, v.promoted) ELSE w

sentinelFailoverStateMachine(v, me, good, linked, late) ==
    CASE v.fstate = "WAIT_START" -> sentinelFailoverWaitStart(v, me, late)
      [] v.fstate = "SELECT_SLAVE" -> sentinelFailoverSelectSlave(v, good)
      [] v.fstate = "SEND_SLAVEOF_NOONE" -> sentinelFailoverSendSlaveOfNoOne(v, linked, late)
      [] v.fstate = "WAIT_PROMOTION" -> sentinelFailoverWaitPromotion(v, late)
      [] v.fstate = "RECONF_SLAVES" -> sentinelFailoverReconfNextSlave(v, linked, late)
      [] OTHER -> v

\* sentinelSendSlaveOf: what the state machine sends to each instance.  At the
\* timeout the last SLAVEOF goes to every replica not reconfigured yet, the
\* promoted one included.
Sent(v, linked, late) ==
    LET next == ReconfNext(v, linked)
        rest == {i \in Slaves(v) \cap linked : v.reconf[i] \notin {"done", "sent"}}
        now == next \union (IF late /\ redis[v.promoted].up THEN rest ELSE {})
    IN  [i \in Redises |->
            CASE v.fstate = "SEND_SLAVEOF_NOONE" /\ i = v.promoted /\ i \in linked -> <<0>>
              [] v.fstate = "RECONF_SLAVES" /\ i \in now -> <<v.promoted>>
              [] OTHER -> <<>>]

\* sentinelAskMasterStateToOtherSentinels: old answers are forgotten.
Forget(v, stale) ==
    [v EXCEPT !.down = [t \in DOMAIN @ |-> @[t] /\ t \notin stale],
              !.vote = [t \in DOMAIN @ |-> IF t \in stale THEN [@[t] EXCEPT !.id = Nobody] ELSE @[t]]]
Question(v, me) ==
    [is |-> "req", addr |-> v.addr, epoch |-> v.cur, id |-> IF Busy(v) THEN me ELSE Nobody, down |-> FALSE]

-----------------------------------------------------------------------------
\* The budget of a scenario; awake: the Sentinels whose timers run in it.
SenSpend(op) == senBudget[op] > 0 /\ senBudget' = [senBudget EXCEPT ![op] = @ - 1]
NewVote(s, v, w) == IF w.lepoch # v.lepoch THEN {[by |-> s, epoch |-> w.lepoch, to |-> w.leader]} ELSE {}

Begin(v) == IF StartIfNeeded(v) THEN sentinelStartFailover(v) ELSE v

\* What a run of the timer leaves: v began as begun, the state machine made it
\* acted, and it ends as w, with orders sent and the Sentinels in who asked.
TimerStep(s, v, begun, acted, w, sent, who) ==
    /\ who # {} => w.sdown
    /\ sen' = [sen EXCEPT ![s] = w]
    /\ ask' = [ask EXCEPT ![s] = [t \in Others(s) |-> IF t \in who THEN Question(w, s) ELSE @[t]]]
    /\ order' = [order EXCEPT ![s] = [i \in Redises |-> @[i] \o sent[i]]]
    /\ elected' = elected \union
          (IF begun.fstate = "WAIT_START" /\ acted.fstate = "SELECT_SLAVE"
           THEN {[by |-> s, epoch |-> begun.fepoch, pure |-> begun.cur = begun.fepoch /\ ~ begun.forced]} ELSE {})
    /\ voted' = voted \union NewVote(s, v, w)
    /\ felt' = IF w.sdown THEN felt \union {s} ELSE felt
    /\ UNCHANGED <<redis, hello>>

\* A run of the timer that lets time pass: late for a state's timeout, stale for
\* the answers, blind for what this Sentinel does not reach, who for the
\* Sentinels it is time to ask.
sentinelTimer(s, late, stale, blind, who) ==
    LET linked == {i \in Redises : redis[i].up} \ blind
        v == sen[s]
        gone == v.addr \notin linked \/ (late /\ redis[v.addr].master # 0)
    IN  \E begun \in {Begin(sentinelCheckObjectivelyDown(sentinelCheckSubjectivelyDown(v, gone)))} :
        \E acted \in {sentinelFailoverStateMachine(begun, s, Slaves(begun) \cap linked, linked, late)} :
        \E w \in {Forget(acted, stale)}, sent \in {Sent(begun, linked, late)} :
           TimerStep(s, v, begun, acted, w, sent, who)

\* Of what the clock decides, at most one thing happens in a run.
Timer(s) ==
    \E who \in SUBSET {t \in Others(s) : ask[s][t].is = "none"}, late \in BOOLEAN,
       stale \in {{}, Others(s)}, blind \in {{}} \union {{i} : i \in Redises} :
       LET less(n, c) == n - IF c THEN 1 ELSE 0
           left == [senBudget EXCEPT !.ask = @ - Cardinality(who), !.late = less(@, late), !.stale = less(@, stale # {}),
                                     !.blind = less(@, blind # {}), !.expired = @ \/ (late /\ sen[s].fstate = "RECONF_SLAVES")]
       IN  /\ s \in senBudget.awake
           /\ late => stale = {}
           /\ blind # {} => ~ late /\ stale = {}
           /\ left.ask >= 0 /\ left.late >= 0 /\ left.stale >= 0 /\ left.blind >= 0
           /\ senBudget' = left
           /\ sentinelTimer(s, late, stale, blind, who)

\* The delay between two failovers of the same master has passed.
DelayOver(s) ==
    /\ sen[s].delay /\ SenSpend("delay")
    /\ sen' = [sen EXCEPT ![s].delay = FALSE]
    /\ UNCHANGED <<redis, ask, order, hello, elected, voted, felt>>

\* SENTINEL is-master-down-by-addr, at t for s, and its reply at s.
IsMasterDown(s, t) ==
    LET q == ask[s][t]
        v == sen[t]
        known == q.addr = v.addr
        w == IF known /\ q.id # Nobody THEN sentinelVoteLeader(v, t, q.epoch, q.id) ELSE v
        asked == known /\ q.id # Nobody
    IN  /\ q.is = "req"
        /\ sen' = [sen EXCEPT ![t] = w]
        /\ ask' = [ask EXCEPT ![s][t] = [is |-> "rep", addr |-> 0, epoch |-> IF asked THEN w.lepoch ELSE 0,
                                         id |-> IF asked THEN w.leader ELSE Nobody, down |-> known /\ v.sdown]]
        /\ voted' = voted \union NewVote(t, v, w)
        /\ UNCHANGED <<redis, order, hello, elected, felt, senBudget>>

sentinelReceiveIsMasterDownReply(s, t) ==
    LET r == ask[s][t]
    IN  /\ r.is = "rep"
        /\ sen' = [sen EXCEPT ![s].down[t] = r.down,
                              ![s].vote[t] = IF r.id = Nobody THEN @ ELSE [id |-> r.id, epoch |-> r.epoch]]
        /\ ask' = [ask EXCEPT ![s][t] = Quiet]
        /\ UNCHANGED <<redis, order, hello, elected, voted, felt, senBudget>>

\* INFO of a replica: a promotion confirmed, a replica in the wrong role or with
\* the wrong master while the master looks sane, the progress of a reconfiguration.
sentinelRefreshInstanceInfo(s, i, up) ==
    LET v == sen[s]
        m == redis[i].master
        sane == redis[v.addr].master = 0 /\ redis[v.addr].up /\ ~ v.sdown /\ ~ v.odown
        promoted == m = 0 /\ v.promoted = i /\ v.fstate = "WAIT_PROMOTION"
        fix == sane /\ IF m = 0 THEN v.promoted # i ELSE m # v.addr
        step == CASE v.reconf[i] = "sent" /\ m = v.promoted -> IF up THEN "done" ELSE "inprog"
                  [] v.reconf[i] = "inprog" /\ m # 0 /\ up -> "done"
                  [] OTHER -> v.reconf[i]
    IN  /\ i \in Slaves(v) /\ redis[i].up
        /\ promoted \/ fix \/ step # v.reconf[i]
        /\ sen' = [sen EXCEPT ![s] = IF promoted THEN sentinelFlushConfig([v EXCEPT !.cfg = v.fepoch, !.fstate = "RECONF_SLAVES"])
                                     ELSE [v EXCEPT !.reconf[i] = step]]
        /\ IF fix /\ ~ promoted THEN SenSpend("fix") /\ order' = [order EXCEPT ![s][i] = Append(@, v.addr)]
           ELSE UNCHANGED <<order, senBudget>>
        /\ UNCHANGED <<redis, ask, hello, elected, voted, felt>>

\* An instance executes SLAVEOF.
Slaveof(s, i) ==
    /\ order[s][i] # <<>> /\ redis[i].up
    /\ redis' = [redis EXCEPT ![i].master = Head(order[s][i])]
    /\ order' = [order EXCEPT ![s][i] = Tail(@)]
    /\ UNCHANGED <<sen, ask, hello, elected, voted, felt, senBudget>>

sentinelSendHello(s) ==
    LET h == [from |-> s, cur |-> sen[s].cur, addr |-> sentinelGetCurrentMasterAddress(sen[s]), cfg |-> sen[s].cfg]
    IN  /\ h \notin hello /\ SenSpend("hello")
        /\ hello' = hello \union {h}
        /\ UNCHANGED <<sen, redis, ask, order, elected, voted, felt>>

\* Mutant: the address is taken without its configuration epoch.
HelloKeepsEpoch(v, h) ==
    LET w == IF h.cur > v.cur THEN sentinelFlushConfig([v EXCEPT !.cur = h.cur]) ELSE v
    IN  IF w.cfg >= h.cfg THEN w
        ELSE IF h.addr # w.addr THEN sentinelResetMasterAndChangeAddress(w, h.addr)
        ELSE [w EXCEPT !.cfg = h.cfg]

\* A newer configuration replaces ours.
HelloUpdate(v, h) ==
    LET w == IF h.cur > v.cur THEN sentinelFlushConfig([v EXCEPT !.cur = h.cur]) ELSE v
    IN  IF w.cfg >= h.cfg THEN w
        ELSE IF h.addr # w.addr THEN sentinelResetMasterAndChangeAddress([w EXCEPT !.cfg = h.cfg], h.addr)
        ELSE [w EXCEPT !.cfg = h.cfg]

sentinelProcessHelloMessage(s, h) ==
    /\ h.from # s /\ HelloUpdate(sen[s], h) # sen[s]
    /\ sen' = [sen EXCEPT ![s] = HelloUpdate(@, h)]
    /\ UNCHANGED <<redis, ask, order, hello, elected, voted, felt, senBudget>>

\* SENTINEL FAILOVER, by the operator.
ForceFailover(s) ==
    /\ ~ Busy(sen[s]) /\ sentinelSelectSlave(sen[s], {i \in Slaves(sen[s]) : redis[i].up}) # 0 /\ SenSpend("force")
    /\ sen' = [sen EXCEPT ![s] = [sentinelStartFailover(@) EXCEPT !.forced = TRUE]]
    /\ UNCHANGED <<redis, ask, order, hello, elected, voted, felt>>

FreshSentinel(disk) ==
    [cur |-> Max({disk.cur, disk.cfg}), addr |-> disk.addr, cfg |-> disk.cfg, leader |-> Nobody, lepoch |-> disk.lepoch,
     fstate |-> "NONE", fepoch |-> 0, forced |-> FALSE, delay |-> FALSE, sdown |-> FALSE, odown |-> FALSE, promoted |-> 0,
     reconf |-> [i \in Redises |-> "no"], down |-> [t \in Sentinels |-> FALSE],
     vote |-> [t \in Sentinels |-> [id |-> Nobody, epoch |-> 0]], disk |-> disk]

\* A Sentinel crashes and starts from its configuration file.
SenRestart(s) ==
    /\ SenSpend("crash")
    /\ sen' = [sen EXCEPT ![s] = FreshSentinel(@.disk)]
    /\ ask' = [t \in Sentinels |-> [u \in Others(t) |-> IF s \in {t, u} THEN Quiet ELSE ask[t][u]]]
    /\ UNCHANGED <<redis, order, hello, elected, voted, felt>>

\* An instance goes down, or comes back with its configuration.
RedisFlip(i) ==
    /\ SenSpend(IF redis[i].up THEN "down" ELSE "up")
    /\ redis' = [redis EXCEPT ![i].up = ~ @]
    /\ UNCHANGED <<sen, ask, order, hello, elected, voted, felt>>

\* odown: the master is down and the Sentinels have told each other.
SenInit ==
    \E start \in SenStarts :
       /\ start.odown => Cardinality(Sentinels) >= SenQuorum
       /\ sen = [s \in Sentinels |->
                    [FreshSentinel([cur |-> 0, addr |-> 1, cfg |-> 0, lepoch |-> 0]) EXCEPT
                        !.sdown = start.odown, !.odown = start.odown, !.down = [t \in Sentinels |-> start.odown /\ t # s]]]
       /\ redis = [i \in Redises |-> [master |-> IF i = 1 THEN 0 ELSE 1, up |-> i # 1 \/ ~ start.odown, prio |-> 100, off |-> i]]
       /\ ask = [s \in Sentinels |-> [t \in Others(s) |-> Quiet]]
       /\ order = [s \in Sentinels |-> [i \in Redises |-> <<>>]]
       /\ hello = {} /\ elected = {} /\ voted = {}
       /\ felt = IF start.odown THEN Sentinels ELSE {}
       /\ senBudget = start.budget

SenNext ==
    \/ \E s \in Sentinels :
          \/ Timer(s) \/ DelayOver(s) \/ sentinelSendHello(s) \/ ForceFailover(s) \/ SenRestart(s)
          \/ \E t \in Others(s) : IsMasterDown(s, t) \/ sentinelReceiveIsMasterDownReply(s, t)
          \/ \E i \in Redises : Slaveof(s, i) \/ \E up \in BOOLEAN : sentinelRefreshInstanceInfo(s, i, up)
          \/ \E h \in hello : sentinelProcessHelloMessage(s, h)
    \/ \E i \in Redises : RedisFlip(i)

SenSpec == SenInit /\ [][SenNext]_senVars

-----------------------------------------------------------------------------
\* Each Sentinel votes for one leader in an epoch, crashes included.
VoteOnce == \A a, b \in voted : a.by = b.by /\ a.epoch = b.epoch => a.to = b.to

\* At most one Sentinel is elected for an epoch, when the votes it counted are
\* those of the failover's own epoch.
OneLeader == \A a, b \in elected : a.pure /\ b.pure /\ a.epoch = b.epoch => a.by = b.by

\* Two Sentinels with the same configuration epoch announce the same master.
ConfigAgrees ==
    (\A e \in elected : e.pure)
    => \A s, t \in Sentinels :
          sen[s].cfg = sen[t].cfg => sentinelGetCurrentMasterAddress(sen[s]) = sentinelGetCurrentMasterAddress(sen[t])

\* A failover of the first master starts only if a quorum of Sentinels has found
\* it down.
DownByQuorum ==
    \A s \in Sentinels : Busy(sen[s]) /\ ~ sen[s].forced /\ sen[s].cfg = 0 => Cardinality(felt) >= SenQuorum

\* No instance is made a replica of itself (SLAVEOF).
NoSelfReplica == \A i \in Redises : redis[i].master # i

\* No instance is made a replica of itself, unless a failover ends by timeout
\* (sentinelFailoverDetectEnd, sentinelFailoverReconfNextSlave).
NoSelfReplicaInTime == ~ senBudget.expired => NoSelfReplica

-----------------------------------------------------------------------------
(***************************************************************************)
(* The queue of notification and reconfiguration scripts of a Sentinel     *)
(* (sentinel.c): scripts are queued by events, forked by the timer up to a *)
(* limit, collected when they exit and run again when they ask for it.     *)
(***************************************************************************)
CONSTANTS ScriptMaxQueue,     \* SENTINEL_SCRIPT_MAX_QUEUE
          ScriptMaxRunning,   \* SENTINEL_SCRIPT_MAX_RUNNING
          ScriptMaxRetry,     \* SENTINEL_SCRIPT_MAX_RETRY
          ScriptStarts        \* budgets

VARIABLES scripts,     \* scripts_queue: [running, retry, later, child, spoilt]
          running,     \* running_scripts
          scriptBudget

scriptVars == <<scripts, running, scriptBudget>>

ScriptSpend(op) == scriptBudget[op] > 0 /\ scriptBudget' = [scriptBudget EXCEPT ![op] = @ - 1]
Children == {k \in DOMAIN scripts : scripts[k].running}

-----------------------------------------------------------------------------

\* Over the limit, the oldest script that is not running goes.
DropPending(q) ==
    IF Len(q) > ScriptMaxQueue /\ \E k \in DOMAIN q : ~ q[k].running
    THEN LET k == CHOOSE k \in DOMAIN q : ~ q[k].running /\ \A j \in 1..(k - 1) : q[j].running
         IN  SubSeq(q, 1, k - 1) \o SubSeq(q, k + 1, Len(q))
    ELSE q

sentinelScheduleScriptExecution ==
    /\ ScriptSpend("events")
    /\ scripts' = DropPending(Append(scripts, [running |-> FALSE, retry |-> 0, later |-> FALSE, child |-> "none", spoilt |-> FALSE]))
    /\ UNCHANGED running

\* Older jobs first; fails are the jobs whose fork fails.
StartScript(st, k, fails) ==
    IF st.n >= ScriptMaxRunning \/ st.q[k].running \/ st.q[k].later THEN st
    ELSE IF k \in fails THEN [st EXCEPT !.q[k].retry = @ + 1, !.q[k].spoilt = TRUE]
    ELSE [q |-> [st.q EXCEPT ![k] = [@ EXCEPT !.running = TRUE, !.retry = @ + 1, !.child = "alive"]], n |-> st.n + 1]
sentinelRunPendingScripts(q, n, fails) ==
    LET upTo[k \in 0..Len(q)] == IF k = 0 THEN [q |-> q, n |-> n] ELSE StartScript(upTo[k - 1], k, fails)
    IN  upTo[Len(q)]

\* A script that was killed or asks for a retry runs again, unless it has had
\* its last attempt.
Again(j) == j.child = "again" /\ j.retry # ScriptMaxRetry

\* Each exited child: rescheduled, or removed and counted out.
sentinelCollectTerminatedScripts(q, n) ==
    LET ended == {k \in DOMAIN q : q[k].child \in {"again", "over"}}
        kept == [k \in DOMAIN q |->
                    IF k \in ended THEN [q[k] EXCEPT !.running = FALSE, !.child = "none", !.later = TRUE] ELSE q[k]]
        gone == {k \in ended : ~ Again(q[k])}
    IN  [q |-> [i \in 1..(Len(q) - Cardinality(gone)) |->
                   kept[CHOOSE k \in DOMAIN q \ gone : Cardinality((1..k) \ gone) = i]],
         n |-> n - Cardinality(gone)]

sentinelKillTimedoutScripts(q, late) ==
    [k \in DOMAIN q |-> IF late /\ q[k].child = "alive" THEN [q[k] EXCEPT !.child = "again"] ELSE q[k]]

\* The part of sentinelTimer about scripts.
ScriptTimer ==
    \E fails \in SUBSET DOMAIN scripts, late \in BOOLEAN :
       LET run == sentinelRunPendingScripts(scripts, running, fails)
           col == sentinelCollectTerminatedScripts(run.q, run.n)
       IN  /\ IF fails # {} THEN late = FALSE /\ ScriptSpend("forks")
              ELSE IF late THEN ScriptSpend("kills") ELSE UNCHANGED scriptBudget
           /\ scripts' = sentinelKillTimedoutScripts(col.q, late)
           /\ running' = col.n

\* A child exits: code 1 or a signal asks for a retry.
ScriptExit(k, code) ==
    /\ scripts[k].child = "alive"
    /\ scripts' = [scripts EXCEPT ![k].child = code]
    /\ UNCHANGED <<running, scriptBudget>>

\* The delay before a retry is over.
sentinelScriptRetryDelay(k) ==
    /\ scripts[k].later
    /\ scripts' = [scripts EXCEPT ![k].later = FALSE]
    /\ UNCHANGED <<running, scriptBudget>>

ScriptInit == scripts = <<>> /\ running = 0 /\ scriptBudget \in ScriptStarts

ScriptNext ==
    \/ sentinelScheduleScriptExecution \/ ScriptTimer
    \/ \E k \in DOMAIN scripts :
          sentinelScriptRetryDelay(k) \/ \E code \in {"again", "over"} : ScriptExit(k, code)

-----------------------------------------------------------------------------
\* running_scripts is the number of scripts in execution.
RunningIsCount == running = Cardinality(Children)

\* No more children than the limit, each of them counted, and the queue within
\* its own limit (the assertion of sentinelScheduleScriptExecution).
ScriptsBounded ==
    Cardinality(Children) <= running /\ running <= ScriptMaxRunning /\ Len(scripts) <= ScriptMaxQueue

\* A script that could always be forked runs at most ScriptMaxRetry times.
RetriesBounded == \A k \in DOMAIN scripts : scripts[k].spoilt \/ scripts[k].retry <= ScriptMaxRetry

\* A Sentinel votes once in an epoch, and one leader is elected in it.
OneLeaderPerEpoch ==
    /\ VoteOnce
    /\ OneLeader

\* Of a failover: Sentinels with the same configuration epoch announce the same
\* master, it starts by a quorum, and no instance is made a replica of itself
\* before a timeout.  Of the scripts it runs: queue, children and retries stay
\* within their limits.
FailoverIsSafe ==
    /\ ConfigAgrees
    /\ DownByQuorum
    /\ NoSelfReplicaInTime
    /\ ScriptsBounded
    /\ RetriesBounded
=============================================================================
