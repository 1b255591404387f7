--------------------------- MODULE ClusterGossip ----------------------------
(***************************************************************************)
(* Failure detection on the cluster bus (src/src/cluster.c): a PING that is *)
(* not answered makes a node PFAIL, gossip carries failure reports, enough  *)
(* reports make it FAIL, a FAIL packet tells the others, an answer takes    *)
(* the flag away again, and the flags decide whether a node still serves    *)
(* queries (clusterUpdateState).                                            *)
(*                                                                         *)
(* Who is a master and who serves slots is fixed here.  Time is abstract:   *)
(* a deadline passes in a step of its own.  The timeout of a PING passes    *)
(* while the two nodes are separated, or for a slow node (fdBudget.slow).   *)
(***************************************************************************)
EXTENDS Integers, FiniteSets, FiniteSetsExt

CONSTANTS FdMasters,    \* masters, each serving slots
          FdReplicas,   \* replicas
          FullCoverage, \* cluster-require-full-coverage
          MaxFdMsgs,    \* a node pings only while fewer packets are in flight
          FdBudgets     \* initial values of fdBudget

VARIABLES fdView,     \* fdView[i]: node i's flags, failure reports and state
          fdConf,     \* fdConf[i]: the flags node i last saved to nodes.conf
          fdNet,      \* packets in flight; a packet never received is lost
          fdCut,      \* the nodes separated from the others
          fdBudget,   \* how often each fault may still happen (cut, heal, slow, restart),
                      \* who talks to whom, and who may be separated
          signaled    \* history: signaled[n]: masters that ever flagged n PFAIL

fdVars == <<fdView, fdConf, fdNet, fdCut, fdBudget, signaled>>

FdNodes == FdMasters \cup FdReplicas
Apart(i, n) == (i \in fdCut) # (n \in fdCut)
Down(v, n) == v.flag[n] # "ok"
Quorum(size) == (size \div 2) + 1

\* Restart with the flags of nodes.conf: PFAIL and FAIL are both loaded.
FdBoot(flags) ==
    [flag |-> flags, reports |-> [n \in FdNodes |-> {}], old |-> {},
     size |-> 1, state |-> "fail", minority |-> FALSE, booting |-> TRUE,
     update |-> FALSE, save |-> FALSE, out |-> {}]

-----------------------------------------------------------------------------
UpdateAndSave(v) == [v EXCEPT !.update = TRUE, !.save = TRUE]

\* minority: among_minority_time is younger than rejoin_delay.
\* booting: first_call_time is younger than CLUSTER_WRITABLE_DELAY.
FdUpdateState(v, i) ==
    LET reachable == Cardinality({k \in FdMasters : ~ Down(v, k)})
        few == reachable < Quorum(Cardinality(FdMasters))
        covered == FullCoverage => \A k \in FdMasters : v.flag[k] # "fail"
        new == IF covered /\ ~ few THEN "ok" ELSE "fail"
        w == [v EXCEPT !.size = Cardinality(FdMasters), !.minority = @ \/ few]
    IN  IF i \in FdMasters /\ v.state = "fail" /\ v.booting THEN v
        ELSE IF new = "ok" /\ v.state = "fail" /\ i \in FdMasters /\ w.minority THEN w
        ELSE [w EXCEPT !.state = new]

FdSetFail(v, n) ==
    UpdateAndSave([v EXCEPT !.flag[n] = "fail", !.old = @ \ {n}])

clusterSendFail(v, i, n) ==
    [v EXCEPT !.out = @ \cup {[type |-> "FAIL", from |-> i, to |-> k, about |-> n] :
                              k \in {x \in FdNodes : <<i, x>> \in fdBudget.talk}}]


markNodeAsFailingIfNeeded(v, i, n) ==
    LET failures == Cardinality(v.reports[n]) + (IF i \in FdMasters THEN 1 ELSE 0)
    IN  IF v.flag[n] # "pfail" \/ failures < Quorum(v.size) THEN v
        ELSE LET w == FdSetFail(v, n)
             IN  IF i \in FdMasters THEN clusterSendFail(w, i, n) ELSE w

\* A master with slots is cleared only when the FAIL flag is old.
clearNodeFailureIfNeeded(v, n) ==
    IF n \in FdReplicas \/ n \in v.old
    THEN UpdateAndSave([v EXCEPT !.flag[n] = "ok", !.old = @ \ {n}]) ELSE v

clusterNodeAddFailureReport(v, n, sender) == [v EXCEPT !.reports[n] = @ \cup {sender}]
clusterNodeDelFailureReport(v, n, sender) == [v EXCEPT !.reports[n] = @ \ {sender}]

\* The gossip section: down holds the nodes sent with a PFAIL or FAIL flag, up
\* those sent without.  Each entry touches its own node only, so their order
\* does not matter.
GossipDown(v, i, sender, nodes) ==
    FoldSet(LAMBDA n, w : markNodeAsFailingIfNeeded(clusterNodeAddFailureReport(w, n, sender), i, n),
            v, nodes)

GossipUp(v, sender, nodes) ==
    FoldSet(LAMBDA n, w : clusterNodeDelFailureReport(w, n, sender), v, nodes)

clusterProcessGossipSection(v, i, m) ==
    IF m.from \notin FdMasters THEN v
    ELSE GossipUp(GossipDown(v, i, m.from, m.down \ {i}), m.from, m.up)

-----------------------------------------------------------------------------
\* The gossip of a packet: every PFAIL node, and some of the others.
clusterSendPing(v, i, type, to, some) ==
    LET told == {n \in FdNodes : v.flag[n] = "pfail"} \cup some
    IN  [type |-> type, from |-> i, to |-> to,
         down |-> {n \in told : Down(v, n)}, up |-> {n \in told : ~ Down(v, n)}]

\* The random draws hit none of the other nodes, or all.
Drawn(v, i) == {{}, {n \in FdNodes \ {i} : v.flag[n] # "pfail"}}

\* The end of the event loop: clusterBeforeSleep, then the sockets.
FdLoop(i, v, consumed) ==
    LET w == IF v.update THEN FdUpdateState(v, i) ELSE v
    IN  /\ fdView' = [fdView EXCEPT ![i] = [w EXCEPT !.update = FALSE, !.save = FALSE, !.out = {}]]
        /\ fdConf' = IF w.save THEN [fdConf EXCEPT ![i] = w.flag] ELSE fdConf
        /\ fdNet' = (fdNet \ consumed) \cup w.out
        /\ signaled' = IF i \in FdMasters
                       THEN [n \in FdNodes |-> IF w.flag[n] = "pfail" THEN signaled[n] \cup {i} ELSE signaled[n]]
                       ELSE signaled

ReceivePing(i, m) ==
    /\ m.type = "PING"
    /\ \E some \in Drawn(fdView[i], i) :
           LET v == [fdView[i] EXCEPT !.out =
                        {clusterSendPing(fdView[i], i, "PONG", m.from, some)}]
           IN  FdLoop(i, clusterProcessGossipSection(v, i, m), {m})

ReceivePong(i, m) ==
    /\ m.type = "PONG"
    /\ LET v == fdView[i]
           w == CASE v.flag[m.from] = "pfail" -> UpdateAndSave([v EXCEPT !.flag[m.from] = "ok"])
                  [] v.flag[m.from] = "fail" -> clearNodeFailureIfNeeded(v, m.from)
                  [] OTHER -> v
       IN  FdLoop(i, clusterProcessGossipSection(w, i, m), {m})

ReceiveFail(i, m) ==
    /\ m.type = "FAIL"
    /\ FdLoop(i, IF m.about # i /\ fdView[i].flag[m.about] # "fail"
                 THEN FdSetFail(fdView[i], m.about) ELSE fdView[i], {m})

FdReceive(i) ==
    /\ \E m \in {x \in fdNet : x.to = i} :
           ~ Apart(i, m.from) /\ (ReceivePing(i, m) \/ ReceivePong(i, m) \/ ReceiveFail(i, m))
    /\ UNCHANGED <<fdCut, fdBudget>>

\* clusterCron pings a node, also again after it reconnected the link.
FdPing(i, n) ==
    /\ <<i, n>> \in fdBudget.talk /\ ~ Apart(i, n)
    /\ Cardinality(fdNet) < MaxFdMsgs
    /\ \E some \in Drawn(fdView[i], i) :
           fdNet' = fdNet \cup {clusterSendPing(fdView[i], i, "PING", n, some)}
    /\ UNCHANGED <<fdView, fdConf, fdCut, fdBudget, signaled>>

FdSpend(op) == fdBudget[op] > 0 /\ fdBudget' = [fdBudget EXCEPT ![op] = @ - 1]

\* clusterCron: the PONG is later than the node timeout.
PongLate(i, n) ==
    /\ <<i, n>> \in fdBudget.talk /\ fdView[i].flag[n] = "ok"
    /\ IF Apart(i, n) THEN UNCHANGED fdBudget ELSE FdSpend("slow")
    /\ FdLoop(i, [fdView[i] EXCEPT !.flag[n] = "pfail", !.update = TRUE], {})
    /\ UNCHANGED fdCut

\* clusterCron while the state is not ok.
FdCronUpdate(i) ==
    /\ fdView[i].state = "fail"
    /\ FdUpdateState(fdView[i], i) # fdView[i]
    /\ fdView' = [fdView EXCEPT ![i] = FdUpdateState(@, i)]
    /\ UNCHANGED <<fdConf, fdNet, fdCut, fdBudget, signaled>>

\* Deadlines: CLUSTER_WRITABLE_DELAY, rejoin_delay, CLUSTER_FAIL_UNDO_TIME_MULT
\* and the validity of a failure report (clusterNodeCleanupFailureReports).
FdDeadline(i) ==
    /\ \/ fdView[i].booting /\ fdView' = [fdView EXCEPT ![i].booting = FALSE]
       \/ fdView[i].minority /\ fdView' = [fdView EXCEPT ![i].minority = FALSE]
       \/ \E n \in FdNodes \ fdView[i].old :
              fdView[i].flag[n] = "fail" /\ fdView' = [fdView EXCEPT ![i].old = @ \cup {n}]
       \/ \E n \in FdNodes : \E k \in fdView[i].reports[n] :
              fdView' = [fdView EXCEPT ![i].reports[n] = @ \ {k}]
    /\ UNCHANGED <<fdConf, fdNet, fdCut, fdBudget, signaled>>

Separate(i) ==
    /\ FdSpend("cut") /\ fdCut = {}
    /\ fdCut' = {i}
    /\ fdNet' = {m \in fdNet : i \notin {m.from, m.to}}
    /\ UNCHANGED <<fdView, fdConf, signaled>>

Heal ==
    /\ FdSpend("heal") /\ fdCut # {}
    /\ fdCut' = {}
    /\ UNCHANGED <<fdView, fdConf, fdNet, signaled>>

FdRestart(i) ==
    /\ FdSpend("restart")
    /\ fdView' = [fdView EXCEPT ![i] = FdBoot(fdConf[i])]
    /\ fdNet' = {m \in fdNet : i \notin {m.from, m.to}}
    /\ UNCHANGED <<fdConf, fdCut, signaled>>

-----------------------------------------------------------------------------
FdInit ==
    /\ fdConf = [i \in FdNodes |-> [n \in FdNodes |-> "ok"]]
    /\ fdView = [i \in FdNodes |-> FdUpdateState([FdBoot(fdConf[i]) EXCEPT !.booting = FALSE], i)]
    /\ fdNet = {} /\ fdCut = {}
    /\ fdBudget \in FdBudgets
    /\ signaled = [n \in FdNodes |-> {}]

FdNext ==
    \/ \E i \in FdNodes :
          \/ FdReceive(i)
          \/ \E n \in FdNodes : FdPing(i, n) \/ PongLate(i, n)
          \/ FdCronUpdate(i) \/ FdDeadline(i) \/ FdRestart(i)
    \/ \E i \in fdBudget.separable : Separate(i)
    \/ Heal

-----------------------------------------------------------------------------
\* Flags and reports are well formed: nobody flags itself, reports come from
\* other masters, and a time of failure is kept of failed nodes only.
FdTypeOK ==
    \A i \in FdNodes :
        /\ fdView[i].flag \in [FdNodes -> {"ok", "pfail", "fail"}] /\ fdView[i].flag[i] = "ok"
        /\ fdView[i].reports \in [FdNodes -> SUBSET (FdMasters \ {i})]
        /\ fdView[i].old \subseteq {n \in FdNodes : fdView[i].flag[n] = "fail"}

\* A node is FAIL for anybody only when the majority of the masters signaled
\* that it is down (markNodeAsFailingIfNeeded: "Enough means that the majority
\* of the masters signaled the node is down recently").
FailNeedsMajority ==
    \A i, n \in FdNodes : fdView[i].flag[n] = "fail" =>
        Cardinality(signaled[n]) >= Quorum(Cardinality(FdMasters))

\* A node serves queries only while, by its own flags, it reaches the majority
\* of the masters and every slot is covered: nothing changes a flag without
\* the state being computed again in the same turn of the event loop.
StateFollowsFlags ==
    \A i \in FdNodes : fdView[i].state = "ok" =>
        /\ Cardinality({k \in FdMasters : ~ Down(fdView[i], k)}) >= Quorum(Cardinality(FdMasters))
        /\ FullCoverage => \A k \in FdMasters : fdView[i].flag[k] # "fail"

-----------------------------------------------------------------------------
(***************************************************************************)
(* Who knows whom on the cluster bus (src/src/cluster.c): CLUSTER MEET and   *)
(* the handshake, nodes learned from gossip, the address of a node that      *)
(* moved, CLUSTER FORGET with its blacklist, and CLUSTER RESET.              *)
(*                                                                         *)
(* A process p runs at the address procAddr[p] under the name procName[p].    *)
(* An entry of its node table in HANDSHAKE state has a random name, here 0.  *)
(* The PONG to a packet comes back on the link of the entry the packet was    *)
(* sent for; it is lost when that entry or its link is gone.                  *)
(***************************************************************************)
CONSTANTS Procs,       \* processes, numbers; also their first names and addresses
          FreshAddrs,  \* addresses unused at first
          MeetStarts   \* initial [groups, budget] records

VARIABLES procAddr, procName,
          nodeTable,   \* nodeTable[p]: entries of server.cluster->nodes, without myself
          blackList,   \* blackList[p]: names in nodes_black_list
          meetNet,     \* packets under way
          group,       \* history: group[p]: processes joined to p by CLUSTER MEET
          meetBudget   \* administrative actions and faults left; packets under way at most;
                       \* mesh: nothing happens that may leave the mesh incomplete

meetVars == <<procAddr, procName, nodeTable, blackList, meetNet, group, meetBudget>>

\* addr 0: NOADDR.  link: the link to the node is up.
NodeEntry(name, addr, hs, meet) == [name |-> name, addr |-> addr, hs |-> hs, meet |-> meet, link |-> FALSE]
Known(t, name) == \E e \in t : e.name = name
Lookup(t, name) == CHOOSE e \in t : e.name = name
At(addr) == {p \in Procs : procAddr[p] = addr}

-----------------------------------------------------------------------------
clusterStartHandshake(t, addr) ==
    IF \E e \in t : e.hs /\ e.addr = addr THEN t
    ELSE t \cup {NodeEntry(0, addr, TRUE, TRUE)}

\* The gossip section, from a sender that is in the table.  A node nobody answers
\* for is PFAIL, and takes the address of a sender that reaches it; a node that
\* is unknown, and not in the blacklist, is met.
GossipMeet(t, p, m) ==
    LET news(e) == {g \in m.gossip : /\ g.name = e.name /\ g.up /\ g.addr # e.addr
                                     /\ ~ e.link /\ e.addr # 0 /\ At(e.addr) = {}}
        unknown == {g \in m.gossip : /\ ~ Known(t, g.name) /\ g.name # procName[p]
                                     /\ g.addr # 0 /\ g.name \notin blackList[p]
                                     /\ ~ \E e \in t : e.hs /\ e.addr = g.addr}
    IN  {IF news(e) = {} THEN e ELSE [e EXCEPT !.addr = (CHOOSE g \in news(e) : TRUE).addr] : e \in t}
        \cup {NodeEntry(0, g.addr, TRUE, TRUE) : g \in unknown}

\* The address a packet comes from replaces the one in the table, unless it
\* came on the link of that very node.
nodeUpdateAddressIfNeeded(t, name, addr) ==
    LET e == Lookup(t, name)
    IN  IF e.addr = addr THEN t
        ELSE (t \ {e}) \cup {[e EXCEPT !.addr = addr, !.link = FALSE]}

\* A packet of p to an address, with the nodes it gossips about.
MeetPacket(p, type, to, entry) ==
    [type |-> type, from |-> p, to |-> to, sender |-> procName[p], addr |-> procAddr[p], on |-> entry,
     gossip |-> {[name |-> e.name, addr |-> e.addr, up |-> e.link] : e \in {x \in nodeTable[p] : ~ x.hs}}]

SetTable(p, t) == nodeTable' = [nodeTable EXCEPT ![p] = t]

-----------------------------------------------------------------------------
\* clusterCron connects to a node without link and sends a MEET or a PING.
Connect(p) ==
    \E e \in nodeTable[p] :
        LET up == [e EXCEPT !.link = TRUE, !.meet = FALSE]
        IN  /\ ~ e.link /\ e.addr # 0 /\ At(e.addr) # {}
            /\ Cardinality(meetNet) < meetBudget.inflight
            /\ SetTable(p, (nodeTable[p] \ {e}) \cup {up})
            /\ meetNet' = meetNet \cup {MeetPacket(p, IF e.meet THEN "MEET" ELSE "PING", e.addr, up)}
            /\ UNCHANGED <<procAddr, procName, blackList, group, meetBudget>>

\* clusterCron pings a node it has a link to.
PingEntry(p) ==
    \E e \in nodeTable[p] :
        LET m == MeetPacket(p, "PING", e.addr, e)
        IN  /\ e.link /\ ~ e.hs /\ meetNet = {} /\ At(e.addr) # {}
            /\ meetNet' = {m}
            /\ UNCHANGED <<procAddr, procName, nodeTable, blackList, group, meetBudget>>

\* A MEET or PING is received, on an accepted link, which has no node.
ReceiveMeet(p) ==
    \E m \in meetNet :
        LET t == nodeTable[p]
            known == Known(t, m.sender)
            new == IF known \/ m.type = "PING" \/ m.sender = procName[p] THEN t
                   ELSE t \cup {NodeEntry(0, m.addr, TRUE, FALSE)}
            moved == IF known /\ m.type = "PING" THEN nodeUpdateAddressIfNeeded(new, m.sender, m.addr) ELSE new
        IN  /\ m.type \in {"MEET", "PING"} /\ p \in At(m.to)
            /\ SetTable(p, IF known THEN GossipMeet(moved, p, m) ELSE new)
            /\ meetNet' = (meetNet \ {m}) \cup {MeetPacket(p, "PONG", m.from, m.on)}
            /\ UNCHANGED <<procAddr, procName, blackList, group, meetBudget>>

\* The PONG ends a handshake: the node is one we know already, or gets its
\* name.  Otherwise it must come from the node the link was made for.
PongTable(t, p, m) ==
    LET e == m.on
    IN  IF e.hs
        THEN IF m.sender = procName[p] THEN t \ {e}
             ELSE IF Known(t, m.sender) THEN nodeUpdateAddressIfNeeded(t \ {e}, m.sender, m.addr)
             ELSE (t \ {e}) \cup {[e EXCEPT !.name = m.sender, !.hs = FALSE]}
        ELSE IF e.name # m.sender
        THEN (t \ {e}) \cup {[e EXCEPT !.addr = 0, !.link = FALSE]}
        ELSE GossipMeet(t, p, m)

ReceiveMeetPong(p) ==
    \E m \in meetNet :
        /\ m.type = "PONG" /\ m.to = p
        /\ SetTable(p, IF m.on \in nodeTable[p] THEN PongTable(nodeTable[p], p, m) ELSE nodeTable[p])
        /\ meetNet' = meetNet \ {m}
        /\ UNCHANGED <<procAddr, procName, blackList, group, meetBudget>>

\* clusterCron drops a handshake that takes longer than the node timeout.
HandshakeTimesOut(p) ==
    \E e \in nodeTable[p] :
        /\ e.hs /\ (At(e.addr) # {} => meetBudget.timeout > 0)
        /\ SetTable(p, nodeTable[p] \ {e})
        /\ meetBudget' = IF At(e.addr) # {} THEN [meetBudget EXCEPT !.timeout = @ - 1] ELSE meetBudget
        /\ UNCHANGED <<procAddr, procName, blackList, meetNet, group>>

-----------------------------------------------------------------------------
SpendMeet(op) == meetBudget[op] > 0 /\ meetBudget' = [meetBudget EXCEPT ![op] = @ - 1]

\* CLUSTER MEET on p with the address of q, possibly p itself.
ClusterMeetCommand(p, q) ==
    /\ SpendMeet("meet")
    /\ SetTable(p, clusterStartHandshake(nodeTable[p], procAddr[q]))
    /\ group' = [r \in Procs |-> IF r \in group[p] \cup group[q] THEN group[p] \cup group[q] ELSE group[r]]
    /\ UNCHANGED <<procAddr, procName, blackList, meetNet>>

\* CLUSTER FORGET: clusterBlacklistAddNode, clusterDelNode.
Forget(p) ==
    /\ SpendMeet("forget")
    /\ \E e \in nodeTable[p] :
           /\ ~ e.hs
           /\ blackList' = [blackList EXCEPT ![p] = @ \cup {e.name}]
           /\ SetTable(p, nodeTable[p] \ {e})
    /\ UNCHANGED <<procAddr, procName, meetNet, group>>

clusterBlacklistCleanup(p) ==
    /\ blackList[p] # {}
    /\ blackList' = [blackList EXCEPT ![p] = {}]
    /\ UNCHANGED <<procAddr, procName, nodeTable, meetNet, group, meetBudget>>

\* CLUSTER RESET SOFT | HARD.
clusterReset(p) ==
    /\ SpendMeet("reset")
    /\ SetTable(p, {})
    /\ \/ procName' = procName
       \/ procName' = [procName EXCEPT ![p] = @ + Cardinality(Procs)]
    /\ UNCHANGED <<procAddr, blackList, meetNet, group>>

\* A process starts again at another address: its links end on both sides.
Move(p) ==
    /\ SpendMeet("move")
    /\ \E a \in (FreshAddrs \cup (IF meetBudget.reuse THEN Procs ELSE {})) \ {procAddr[q] : q \in Procs} :
           procAddr' = [procAddr EXCEPT ![p] = a]
    /\ nodeTable' = [q \in Procs |->
           {[e EXCEPT !.link = @ /\ q # p /\ e.addr # procAddr[p]] :
               e \in {x \in nodeTable[q] : q # p \/ ~ x.hs}}]
    /\ meetNet' = {m \in meetNet : m.from # p /\ p \notin At(m.to) /\ m.to # p}
    /\ UNCHANGED <<procName, blackList, group>>

-----------------------------------------------------------------------------
MeetInit ==
    \E w \in MeetStarts :
        /\ procAddr = [p \in Procs |-> p] /\ procName = [p \in Procs |-> p]
        /\ group = w.groups
        /\ nodeTable = [p \in Procs |-> {[NodeEntry(q, q, FALSE, FALSE) EXCEPT !.link = TRUE] :
                                         q \in w.groups[p] \ {p}}]
        /\ blackList = [p \in Procs |-> {}]
        /\ meetNet = {}
        /\ meetBudget = w.budget

MeetNext ==
    \E p \in Procs :
        \/ Connect(p) \/ PingEntry(p) \/ ReceiveMeet(p) \/ ReceiveMeetPong(p) \/ HandshakeTimesOut(p)
        \/ \E q \in Procs : ClusterMeetCommand(p, q)
        \/ Forget(p) \/ clusterBlacklistCleanup(p) \/ clusterReset(p) \/ Move(p)

-----------------------------------------------------------------------------
\* The node table is a hash table by name: no name is in it twice, and myself
\* is not there a second time, whatever renames, moves and handshakes are under
\* way (clusterAddNode, clusterRenameNode).
NodeTableIsKeyed ==
    \A p \in Procs :
        /\ \A e, f \in nodeTable[p] : e.name = f.name /\ ~ e.hs => e = f
        /\ \A e \in nodeTable[p] : (e.name = 0) = e.hs /\ (e.meet => e.hs)
        /\ meetBudget.reset = 0 \/ ~ Known(nodeTable[p], procName[p])

\* A node never gets to know one that no CLUSTER MEET joined to its cluster,
\* directly or through others ("otherwise we risk joining another cluster"),
\* whatever handshakes, moves and resets are under way.
NeverJoinsUninvited ==
    \A p, q \in Procs : Known(nodeTable[p], procName[q]) => q \in group[p]

\* Nothing that p could send to q would change the table of q or, by the
\* reply, its own.
MeetQuiet(p) ==
    \A e \in nodeTable[p] :
        /\ ~ e.hs /\ (e.link \/ e.addr = 0 \/ At(e.addr) = {})
        /\ \A q \in At(e.addr) :
              LET m == MeetPacket(p, "PING", e.addr, e)
                  r == MeetPacket(q, "PONG", p, e)
              IN  /\ Known(nodeTable[q], m.sender) =>
                         GossipMeet(nodeUpdateAddressIfNeeded(nodeTable[q], m.sender, m.addr), q, m) = nodeTable[q]
                  /\ PongTable(nodeTable[p], p, r) = nodeTable[p]

\* When nothing more can be learned and no handshake was given up, the nodes
\* of a cluster all know each other, at the addresses they have now: the
\* handshake is mutual and gossip completes the mesh.
QuietMeansMesh ==
    /\ meetNet = {} /\ meetBudget.mesh /\ (\A p \in Procs : MeetQuiet(p))
    => \A p \in Procs : \A q \in group[p] \ {p} :
           \E e \in nodeTable[p] : e.name = procName[q] /\ e.addr = procAddr[q]

=============================================================================
