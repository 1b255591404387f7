--------------------------- MODULE ClusterEpoch ---------------------------
(***************************************************************************)
(* The configuration protocol of the cluster bus (src/src/cluster.c): the   *)
(* epochs, who serves which slot, the election of a replica, the UPDATE     *)
(* message, epoch collisions, CLUSTER FAILOVER FORCE | TAKEOVER, BUMPEPOCH,  *)
(* and the restart of a node from its nodes.conf.                           *)
(*                                                                         *)
(* Membership is fixed and which nodes are flagged FAIL is chosen by the     *)
(* environment (ClusterGossip models how both come about).  A node's         *)
(* name is a number, compared as memcmp compares names; 0 is the NULL        *)
(* pointer.  numslots and slaves[] are read off slots and slaveof.  A packet *)
(* is handled together with clusterBeforeSleep, which saves nodes.conf       *)
(* before anything queued by the handler is written to a socket.             *)
(***************************************************************************)
EXTENDS Integers, FiniteSets, FiniteSetsExt

CONSTANTS Names,          \* node names, positive numbers
          SlotIds,        \* hash slots, numbers
          ClusterStarts,  \* initial [masterOf, ownerOf, epochOf, failOf, links, budget] records
          PromptVotes,    \* votes come before auth_retry_time or not at all
          MaxBusEpoch     \* no new attempt at an election from this epoch on

VARIABLES cluster,    \* cluster[i]: server.cluster of node i
          nodesConf,  \* nodesConf[i]: what node i last saved to nodes.conf
          busNet,     \* packets in flight; a packet never received is lost
          links,      \* links[i]: the nodes that node i has a connected link to
          elections,  \* history: <<epoch, node>> of every election won
          busBudget   \* how often each administrative or fault action may still happen;
                      \* inflight: a node pings only while fewer packets are under way

epochVars == <<cluster, nodesConf, busNet, links, elections, busBudget>>

MaxOf(a, b) == IF a > b THEN a ELSE b

-----------------------------------------------------------------------------
\* What is read off server.cluster.

SlotsOf(s, n) == {j \in SlotIds : s.slots[j] = n}

NodeIsMaster(s, n) == s.slaveof[n] = 0

\* The size computed by clusterUpdateState: masters that serve slots.
clusterUpdateState(s) ==
    [s EXCEPT !.size = Cardinality({n \in Names : NodeIsMaster(s, n) /\ SlotsOf(s, n) # {}})]

clusterGetMaxEpoch(s) ==
    Max({s.currentEpoch} \cup {s.configEpoch[n] : n \in Names})

clusterDoBeforeSleep(s, flags) == [s EXCEPT !.todo = @ \cup flags]

SaveLater(s) == clusterDoBeforeSleep(s, {"SAVE_CONFIG"})
UpdateAndSaveLater(s) == clusterDoBeforeSleep(s, {"UPDATE_STATE", "SAVE_CONFIG"})

Persisted(s) ==
    [currentEpoch |-> s.currentEpoch, lastVoteEpoch |-> s.lastVoteEpoch,
     configEpoch |-> s.configEpoch, slaveof |-> s.slaveof, slots |-> s.slots, fail |-> s.fail]

\* clusterInit with clusterLoadConfig: the election and the manual failover
\* start over, and the size is 1 until clusterUpdateState runs.
clusterLoadConfig(c) ==
    [currentEpoch |-> Max({c.currentEpoch} \cup {c.configEpoch[n] : n \in Names}),
     lastVoteEpoch |-> c.lastVoteEpoch, configEpoch |-> c.configEpoch,
     slaveof |-> c.slaveof, slots |-> c.slots, fail |-> c.fail,
     size |-> 1, authAge |-> "retry", authSent |-> FALSE, authCount |-> 0, authEpoch |-> 0,
     forced |-> FALSE, won |-> FALSE, todo |-> {}, out |-> {}]

-----------------------------------------------------------------------------
\* Packets.  A replica announces the slots and the configEpoch of its master.

clusterBuildMessageHdr(s, i, type, to) ==
    LET master == IF s.slaveof[i] # 0 THEN s.slaveof[i] ELSE i
    IN  [type |-> type, from |-> i, to |-> to, currentEpoch |-> s.currentEpoch,
         configEpoch |-> s.configEpoch[master], slaveof |-> s.slaveof[i],
         slots |-> SlotsOf(s, master), force |-> FALSE,
         about |-> 0, aboutEpoch |-> 0, aboutSlots |-> {}]

Send(s, m) == [s EXCEPT !.out = @ \cup {m}]

\* To every node, link or no link; what has no link is dropped when the
\* sockets are written.
clusterBroadcast(s, i, type, force) ==
    [s EXCEPT !.out = @ \cup {[clusterBuildMessageHdr(s, i, type, n) EXCEPT !.force = force] :
                              n \in Names \ {i}}]

\* The UPDATE packet carries the configuration of another node, about.
clusterSendUpdate(s, i, to, n) ==
    Send(s, [clusterBuildMessageHdr(s, i, "UPDATE", to) EXCEPT
                 !.about = n, !.aboutEpoch = s.configEpoch[n], !.aboutSlots = SlotsOf(s, n)])

-----------------------------------------------------------------------------
\* Roles and slots.

clusterSetNodeAsMaster(s, n) ==
    IF NodeIsMaster(s, n) THEN s ELSE UpdateAndSaveLater([s EXCEPT !.slaveof[n] = 0])

clusterSetMaster(s, i, n) ==
    [s EXCEPT !.slaveof[i] = n, !.forced = FALSE]

\* Mutant: a claim with an equal configEpoch also wins the slot.
UpdateSlotsOnTies(s, i, sender, epoch, claimed) ==
    LET won == {j \in claimed : s.slots[j] # sender /\ (s.slots[j] # 0 => s.configEpoch[s.slots[j]] <= epoch)}
    IN  UpdateAndSaveLater([s EXCEPT !.slots = [j \in SlotIds |-> IF j \in won THEN sender ELSE s.slots[j]]])

\* Slots are taken one at a time, but the slots a claim wins do not depend on
\* each other, and the last one that was curmaster's sets newmaster.
clusterUpdateSlotsConfigWith(s, i, sender, epoch, claimed) ==
    LET curmaster == IF NodeIsMaster(s, i) THEN i ELSE s.slaveof[i]
        won == {j \in claimed : /\ s.slots[j] # sender
                                /\ s.slots[j] # 0 => s.configEpoch[s.slots[j]] < epoch}
        bound == [s EXCEPT !.slots = [j \in SlotIds |-> IF j \in won THEN sender ELSE s.slots[j]]]
        moved == IF won = {} THEN s ELSE UpdateAndSaveLater(bound)
        newmaster == \E j \in won : s.slots[j] = curmaster
    IN  IF sender = i THEN s
        ELSE IF newmaster /\ SlotsOf(moved, curmaster) = {}
        THEN clusterSetMaster(moved, i, sender)
        ELSE moved

clusterHandleConfigEpochCollision(s, i, sender) ==
    IF \/ s.configEpoch[sender] # s.configEpoch[i]
       \/ ~ NodeIsMaster(s, sender) \/ ~ NodeIsMaster(s, i)
       \/ sender <= i
    THEN s
    ELSE SaveLater([s EXCEPT !.currentEpoch = @ + 1,
                             !.configEpoch[i] = s.currentEpoch + 1])

\* Mutant: the new epoch is not saved.
BumpUnsaved(s, i) ==
    IF s.configEpoch[i] = 0 \/ s.configEpoch[i] # clusterGetMaxEpoch(s)
    THEN [s EXCEPT !.currentEpoch = @ + 1, !.configEpoch[i] = s.currentEpoch + 1] ELSE s

clusterBumpConfigEpochWithoutConsensus(s, i) ==
    IF s.configEpoch[i] = 0 \/ s.configEpoch[i] # clusterGetMaxEpoch(s)
    THEN SaveLater([s EXCEPT !.currentEpoch = @ + 1,
                             !.configEpoch[i] = s.currentEpoch + 1])
    ELSE s

-----------------------------------------------------------------------------
\* The election.  authAge is the place of the clock relative to
\* failover_auth_time: before it ("wait"), within auth_timeout ("valid"),
\* after it ("expired"), or beyond auth_retry_time ("retry", also at start).

clusterFailoverReplaceYourMaster(s, i) ==
    LET old == s.slaveof[i]
        promoted == [clusterSetNodeAsMaster(s, i) EXCEPT
                        !.slots = [j \in SlotIds |-> IF s.slots[j] = old THEN i ELSE s.slots[j]]]
    IN  IF old = 0 THEN s
        ELSE [clusterBroadcast(clusterUpdateState(promoted), i, "PONG", FALSE)
              EXCEPT !.forced = FALSE]

LocalSlaves(s, i) ==
    {n \in Names \ {i} : s.slaveof[n] # 0 /\ s.slaveof[n] \in {i, s.slaveof[i]}}

clusterHandleSlaveFailover(s, i) ==
    LET master == s.slaveof[i]
        quorum == (s.size \div 2) + 1
        scheduled == [s EXCEPT !.authAge = IF s.forced THEN "valid" ELSE "wait",
                               !.authCount = 0, !.authSent = FALSE]
        asking == [s EXCEPT !.currentEpoch = @ + 1, !.authEpoch = s.currentEpoch + 1]
        elected == [s EXCEPT !.configEpoch[i] = MaxOf(@, s.authEpoch), !.won = TRUE]
    IN  IF \/ master = 0
           \/ master \notin s.fail /\ ~ s.forced
           \/ SlotsOf(s, master) = {}
        THEN s
        ELSE CASE s.authAge = "retry" ->
                  [scheduled EXCEPT !.out = @ \cup
                       {clusterBuildMessageHdr(s, i, "PONG", n) : n \in LocalSlaves(s, i)}]
               [] s.authAge \in {"wait", "expired"} -> s
               [] s.authAge = "valid" /\ ~ s.authSent ->
                  UpdateAndSaveLater([clusterBroadcast(asking, i, "AUTH_REQUEST", s.forced)
                                      EXCEPT !.authSent = TRUE])
               [] OTHER -> IF s.authCount >= quorum
                           THEN clusterFailoverReplaceYourMaster(elected, i) ELSE s


\* A denied vote leaves no trace, so a voter still within two node timeouts of
\* its last vote about this master is one that has not read the request yet.
clusterSendFailoverAuthIfNeeded(s, i, m) ==
    LET master == s.slaveof[m.from]
    IN  IF \/ ~ NodeIsMaster(s, i) \/ SlotsOf(s, i) = {}
           \/ m.currentEpoch < s.currentEpoch
           \/ s.lastVoteEpoch = s.currentEpoch
           \/ master = 0
           \/ master \notin s.fail /\ ~ m.force
           \/ \E j \in m.slots : s.slots[j] # 0 /\ s.configEpoch[s.slots[j]] > m.configEpoch
        THEN s
        ELSE [Send(s, clusterBuildMessageHdr(s, i, "AUTH_ACK", m.from))
              EXCEPT !.lastVoteEpoch = s.currentEpoch]

-----------------------------------------------------------------------------
\* clusterProcessPacket.

\* The epochs of the header, for every packet type.  A higher currentEpoch
\* alone is not saved.
HeaderEpochs(s, m) ==
    LET t == [s EXCEPT !.currentEpoch = MaxOf(@, m.currentEpoch)]
    IN  IF m.configEpoch > s.configEpoch[m.from]
        THEN SaveLater([t EXCEPT !.configEpoch[m.from] = m.configEpoch]) ELSE t

ReplyToPing(s, i, m) ==
    IF m.type = "PING" THEN Send(s, clusterBuildMessageHdr(s, i, "PONG", m.from)) ELSE s

\* Check for role switch: slave -> master or master -> slave.
SenderRole(s, m) ==
    IF m.slaveof = 0 THEN clusterSetNodeAsMaster(s, m.from)
    ELSE IF s.slaveof[m.from] = m.slaveof THEN s
    ELSE LET t == SaveLater([s EXCEPT !.slaveof[m.from] = m.slaveof])
         IN  IF ~ NodeIsMaster(s, m.from) THEN t
             ELSE UpdateAndSaveLater([t EXCEPT
                      !.slots = [j \in SlotIds |-> IF @[j] = m.from THEN 0 ELSE @[j]]])

DirtySlots(s, m) ==
    SlotsOf(s, IF NodeIsMaster(s, m.from) THEN m.from ELSE s.slaveof[m.from]) # m.slots

UpdateFromSender(s, i, m) ==
    IF NodeIsMaster(s, m.from) /\ DirtySlots(s, m)
    THEN clusterUpdateSlotsConfigWith(s, i, m.from, m.configEpoch, m.slots) ELSE s

\* dirty_slots was computed before UpdateFromSender; the first outdated slot
\* decides whom the UPDATE is about.
TellSenderIfOutdated(s, i, m, dirty) ==
    LET outdated == {j \in m.slots : /\ s.slots[j] \notin {m.from, 0}
                                     /\ s.configEpoch[s.slots[j]] > m.configEpoch}
    IN  IF dirty /\ outdated # {}
        THEN clusterSendUpdate(s, i, m.from, s.slots[Min(outdated)]) ELSE s

ProcessPing(s, i, m) ==
    LET replied == ReplyToPing(s, i, m)
        roles == SenderRole(replied, m)
        bound == UpdateFromSender(roles, i, m)
        told == TellSenderIfOutdated(bound, i, m, DirtySlots(roles, m))
    IN  IF m.configEpoch = told.configEpoch[i]
        THEN clusterHandleConfigEpochCollision(told, i, m.from) ELSE told

ProcessAck(s, i, m) ==
    IF NodeIsMaster(s, m.from) /\ SlotsOf(s, m.from) # {} /\ m.currentEpoch >= s.authEpoch
    THEN clusterHandleSlaveFailover([s EXCEPT !.authCount = @ + 1], i) ELSE s

ProcessUpdate(s, i, m) ==
    IF s.configEpoch[m.about] >= m.aboutEpoch THEN s
    ELSE clusterUpdateSlotsConfigWith(
             SaveLater([clusterSetNodeAsMaster(s, m.about) EXCEPT !.configEpoch[m.about] = m.aboutEpoch]),
             i, m.about, m.aboutEpoch, m.aboutSlots)

ProcessPacket(s, i, m) ==
    CASE m.type \in {"PING", "PONG"} -> ProcessPing(s, i, m)
      [] m.type = "AUTH_REQUEST" -> clusterSendFailoverAuthIfNeeded(s, i, m)
      [] m.type = "AUTH_ACK" -> ProcessAck(s, i, m)
      [] m.type = "UPDATE" -> ProcessUpdate(s, i, m)

-----------------------------------------------------------------------------
\* The event loop of a node: a handler, then clusterBeforeSleep, which
\* updates the state and saves nodes.conf if asked to; then the sockets.

clusterBeforeSleep(s) == IF "UPDATE_STATE" \in s.todo THEN clusterUpdateState(s) ELSE s

EventLoop(i, s, consumed) ==
    LET t == clusterBeforeSleep(s)
    IN  /\ cluster' = [cluster EXCEPT ![i] = [t EXCEPT !.todo = {}, !.out = {}, !.won = FALSE]]
        /\ nodesConf' = IF "SAVE_CONFIG" \in t.todo
                        THEN [nodesConf EXCEPT ![i] = Persisted(t)] ELSE nodesConf
        /\ busNet' = (busNet \ consumed) \cup {m \in t.out : m.to \in links[i]}
        /\ UNCHANGED links
        /\ elections' = IF t.won THEN elections \cup {<<t.configEpoch[i], i>>} ELSE elections

clusterProcessPacket(i) ==
    /\ \E m \in {x \in busNet : x.to = i} :
           EventLoop(i, ProcessPacket(HeaderEpochs(cluster[i], m), i, m), {m})
    /\ UNCHANGED busBudget

PingNode(i, n) ==
    /\ n \in links[i]
    /\ Cardinality(busNet) < busBudget.inflight
    /\ LET m == clusterBuildMessageHdr(cluster[i], i, "PING", n)
       IN  m \notin busNet /\ busNet' = busNet \cup {m}
    /\ UNCHANGED <<cluster, nodesConf, links, elections, busBudget>>

\* clusterCron: the failover of a replica's master, and the state when it is
\* down.  down: server.cluster->state is CLUSTER_FAIL.
ReplicaCron(i) ==
    \E down \in BOOLEAN :
        LET s == clusterHandleSlaveFailover(cluster[i], i)
            t == IF down THEN clusterUpdateState(s) ELSE s
        IN  t # cluster[i] /\ EventLoop(i, t, {}) /\ UNCHANGED busBudget

\* Time passes relative to failover_auth_time.  PromptVotes: a request
\* or a vote that is still under way at auth_retry_time, four node timeouts
\* later, has been lost with its link.
AuthTimer(i) ==
    /\ cluster[i].authAge # "retry" /\ cluster[i].slaveof[i] # 0
    /\ cluster[i].authAge = "expired" => cluster[i].currentEpoch < MaxBusEpoch
    /\ cluster' = [cluster EXCEPT ![i].authAge =
                      CASE @ = "wait" -> "valid" [] @ = "valid" -> "expired" [] OTHER -> "retry"]
    /\ busNet' = IF PromptVotes /\ cluster[i].authAge = "expired"
                 THEN {m \in busNet : /\ ~ (m.type = "AUTH_ACK" /\ m.to = i)
                                       /\ ~ (m.type = "AUTH_REQUEST" /\ m.from = i)}
                 ELSE busNet
    /\ UNCHANGED <<nodesConf, links, elections, busBudget>>

Spend(i, op) == links[i] # {} /\ busBudget[op] > 0 /\ busBudget' = [busBudget EXCEPT ![op] = @ - 1]

\* Failure detection flags master n as FAIL in node i's view, and saves it.
FlagFail(i, n) ==
    /\ Spend(i, "fail") /\ n # i /\ n \notin cluster[i].fail
    /\ EventLoop(i, SaveLater([cluster[i] EXCEPT !.fail = @ \cup {n}]), {})

\* CLUSTER FAILOVER FORCE and TAKEOVER.
FailoverForce(i) ==
    /\ Spend(i, "force") /\ cluster[i].slaveof[i] # 0
    /\ cluster' = [cluster EXCEPT ![i].forced = TRUE]
    /\ UNCHANGED <<nodesConf, busNet, links, elections>>

FailoverTakeover(i) ==
    /\ Spend(i, "takeover") /\ cluster[i].slaveof[i] # 0
    /\ EventLoop(i, clusterFailoverReplaceYourMaster(
                        clusterBumpConfigEpochWithoutConsensus(cluster[i], i), i), {})

\* manualFailoverCheckTimeout.
ForceTimesOut(i) ==
    /\ cluster[i].forced
    /\ cluster' = [cluster EXCEPT ![i].forced = FALSE]
    /\ UNCHANGED <<nodesConf, busNet, links, elections, busBudget>>

BumpEpoch(i) ==
    /\ Spend(i, "bump")
    /\ EventLoop(i, clusterBumpConfigEpochWithoutConsensus(cluster[i], i), {})

\* The process stops, which ends its links, and starts again from nodes.conf.
Restart(i) ==
    /\ Spend(i, "restart")
    /\ cluster' = [cluster EXCEPT ![i] = clusterLoadConfig(nodesConf[i])]
    /\ busNet' = {m \in busNet : i \notin {m.from, m.to}}
    /\ UNCHANGED <<nodesConf, links, elections>>

-----------------------------------------------------------------------------
StartView(w, i) ==
    [currentEpoch |-> Max({w.epochOf[n] : n \in Names}), lastVoteEpoch |-> 0,
     configEpoch |-> w.epochOf, slaveof |-> w.masterOf,
     slots |-> w.ownerOf[i], fail |-> w.failOf[i]]

EpochInit ==
    \E w \in ClusterStarts :
        /\ nodesConf = [i \in Names |-> StartView(w, i)]
        /\ cluster = [i \in Names |-> clusterUpdateState(clusterLoadConfig(StartView(w, i)))]
        /\ busNet = {}
        /\ links = w.links
        /\ elections = {}
        /\ busBudget = w.budget

EpochNext ==
    \E i \in Names :
        \/ clusterProcessPacket(i)
        \/ \E n \in Names : PingNode(i, n)
        \/ ReplicaCron(i)
        \/ AuthTimer(i)
        \/ \E n \in Names : FlagFail(i, n)
        \/ FailoverForce(i)
        \/ FailoverTakeover(i)
        \/ ForceTimesOut(i)
        \/ BumpEpoch(i)
        \/ Restart(i)

-----------------------------------------------------------------------------
\* The nodes that take part, and whether each is linked to all the others.
Linked == {i \in Names : links[i] # {}}
FullMesh == \A i \in Linked : links[i] = Linked \ {i}

-----------------------------------------------------------------------------
\* Views and packets are well formed, and a node has not voted in an epoch it
\* does not know (clusterSendFailoverAuthIfNeeded).
EpochTypeOK ==
    /\ \A i \in Names :
          /\ cluster[i].lastVoteEpoch <= cluster[i].currentEpoch
          /\ cluster[i].slaveof \in [Names -> Names \cup {0}]
          /\ cluster[i].slots \in [SlotIds -> Names \cup {0}]
          /\ cluster[i].size \in 0..Cardinality(Names)
    /\ \A m \in busNet : m.to \in Names \ {m.from}


\* No node, and no packet, knows a master under a configEpoch that the master
\* itself does not have (any more): otherwise what it announces would be
\* outdated for ever.  This rests on nodes.conf being saved before a new epoch
\* is announced (clusterBeforeSleep, clusterSaveConfigOrDie).
NoEpochFromTheFuture ==
    \A n \in Names : NodeIsMaster(cluster[n], n) =>
        /\ \A i \in Names : cluster[i].configEpoch[n] <= cluster[n].configEpoch[n]
        /\ \A m \in busNet : /\ m.from = n /\ m.slaveof = 0 => m.configEpoch <= cluster[n].configEpoch[n]
                             /\ m.about = n => m.aboutEpoch <= cluster[n].configEpoch[n]

\* clusterLoadConfig calls a currentEpoch below some node's configEpoch
\* "something that should never happen": in no node, and in no nodes.conf.
CurrentEpochIsGreatest ==
    \A i \in Names : \A n \in Names :
        /\ cluster[i].configEpoch[n] <= cluster[i].currentEpoch
        /\ nodesConf[i].configEpoch[n] <= nodesConf[i].currentEpoch

\* A master that still serves slots in its own view is not a replica in it, and
\* a replica serves none: the assertions of clusterSetMaster.
ReplicasServeNothing ==
    \A i \in Names : ~ NodeIsMaster(cluster[i], i) =>
        cluster[i].slaveof[i] # i /\ SlotsOf(cluster[i], i) = {}

\* While a packet is processed, a slot goes from one node to another only if the
\* new one has the greater configEpoch (clusterUpdateSlotsConfigWith).
SlotsFollowEpochs ==
    [][\A i \in Names : clusterProcessPacket(i) =>
          \A j \in SlotIds :
              LET old == cluster[i].slots[j]
                  new == cluster'[i].slots[j]
              IN  old # new /\ old # 0 /\ new # 0 =>
                      cluster[i].configEpoch[old] < cluster'[i].configEpoch[new]]_epochVars

\* A PING or PONG of node i tells node n nothing new.
NothingNew(i, n) ==
    LET m == clusterBuildMessageHdr(cluster[i], i, "PONG", n)
    IN  ProcessPacket(HeaderEpochs(cluster[n], m), n, m) = cluster[n]

\* The views do not come to rest in disagreement: when no packet is under way
\* and no node can learn anything from the header of another, all agree who is
\* whose master and who serves which slot, whatever slots were claimed by
\* several nodes and under whatever epochs (clusterHandleConfigEpochCollision,
\* clusterUpdateSlotsConfigWith, UPDATE).
QuietMeansAgreed ==
    FullMesh /\ busNet = {} /\ (\A i \in Linked : \A n \in links[i] : NothingNew(i, n)) =>
        \A i, k \in Linked : /\ cluster[i].slots = cluster[k].slots
                            /\ cluster[i].slaveof = cluster[k].slaveof

\* What the nodes of a cluster know of each other's epochs: no vote, view or
\* packet is of an epoch its master has not reached, currentEpoch is the greatest
\* one known, a replica serves no slot, and views come to rest in agreement.
EpochsAndViewsAgree ==
    /\ EpochTypeOK
    /\ NoEpochFromTheFuture
    /\ CurrentEpochIsGreatest
    /\ ReplicasServeNothing
    /\ QuietMeansAgreed
=============================================================================
