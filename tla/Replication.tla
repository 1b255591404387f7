---------------------------- MODULE Replication ----------------------------
(***************************************************************************)
(* Master and replica of replication.c: the backlog, PSYNC with its two      *)
(* replication IDs, the full resynchronisation with an RDB file, chained     *)
(* replicas, SLAVEOF in both directions, acknowledgements for WAIT.          *)
(*                                                                         *)
(* The stream is a sequence of commands, one unit of the offset each: SELECT *)
(* of a database, and writes, each with its own number.  The dataset is the  *)
(* sequence of writes applied, with their databases.  A connection is the    *)
(* client the master has in server.slaves: what it wrote to the socket       *)
(* (pre), the output buffer (out) and whether the replica's end is open.     *)
(* What is in flight when a connection ends is lost, which is what dropping  *)
(* it with the client amounts to.  The RDB file is on disk (no diskless      *)
(* transfer).                                                                *)
(***************************************************************************)
EXTENDS Integers, Sequences, SequencesExt, FiniteSets

CONSTANTS ReplNodes,    \* 1 .. n
          BacklogSize,  \* server.repl_backlog_size
          ReplStarts    \* [master: node -> its master or 0, synced, budget with the live nodes and the databases]

VARIABLES srv,         \* the state of each server
          replNext,    \* next replication ID and next write
          replBudget   \* operations left; history of what may make an ID ambiguous

replVars == <<srv, replNext, replBudget>>

NoBacklog == [on |-> FALSE, buf |-> <<>>, idx |-> 0, histlen |-> 0, first |-> 0]
NoId == 0
NoChild == [on |-> FALSE, data |-> <<>>, db |-> -1, replid |-> NoId, off |-> 0]
IsMaster(v) == v.masterhost = 0
Write(id) == [op |-> "write", arg |-> id]
Select(db) == [op |-> "select", arg |-> db]
SlaveRec(s) == [s |-> s, st |-> "WAIT_START", pre |-> <<>>, out |-> <<>>, init |-> 0, ack |-> 0, open |-> TRUE]

-----------------------------------------------------------------------------
\* The backlog: a circular buffer, and the offset of its first byte.
createReplicationBacklog(v) ==
    [v EXCEPT !.backlog = [on |-> TRUE, buf |-> [i \in 0 .. BacklogSize - 1 |-> Select(0)], idx |-> 0,
                           histlen |-> 0, first |-> v.off + 1]]

feedReplicationBacklog(v, e) ==
    LET b == v.backlog
        hist == IF b.histlen < BacklogSize THEN b.histlen + 1 ELSE BacklogSize
    IN  [v EXCEPT !.off = @ + 1,
                  !.backlog = [b EXCEPT !.buf[b.idx] = e, !.idx = (b.idx + 1) % BacklogSize, !.histlen = hist,
                                        !.first = v.off + 1 - hist + 1]]

\* addReplyReplicationBacklog: the data from offset to the end.
addReplyReplicationBacklog(b, offset) ==
    LET skip == offset - b.first
        j == (b.idx + BacklogSize - b.histlen) % BacklogSize
    IN  [k \in 1 .. b.histlen - skip |-> b.buf[(j + skip + k - 1) % BacklogSize]]

\* One command goes to the backlog and to the replicas that wait for no BGSAVE.
FeedAll(v, e) ==
    LET f == IF v.backlog.on THEN feedReplicationBacklog(v, e) ELSE v
    IN  [f EXCEPT !.slaves = [i \in DOMAIN @ |->
             IF @[i].st = "WAIT_START" THEN @[i] ELSE [@[i] EXCEPT !.out = Append(@, e)]]]

replicationFeedSlaves(v, db, e) ==
    IF ~ IsMaster(v) \/ (~ v.backlog.on /\ v.slaves = <<>>) THEN v
    ELSE FeedAll([(IF v.seldb = db THEN v ELSE FeedAll(v, Select(db))) EXCEPT !.seldb = db], e)

-----------------------------------------------------------------------------
\* Replication IDs.
changeReplicationId(v, id) == [v EXCEPT !.replid = id]
clearReplicationId2(v) == [v EXCEPT !.replid2 = NoId, !.second = -1]

\* Mutant: the old ID is valid for any offset.
ShiftWithoutLimit(v, id) == [v EXCEPT !.replid2 = v.replid, !.second = 1000, !.replid = id]

shiftReplicationId(v, id) == [v EXCEPT !.replid2 = v.replid, !.second = v.off + 1, !.replid = id]

\* The connections with the replicas are closed.
disconnectSlaves(v) == [v EXCEPT !.slaves = <<>>]

-----------------------------------------------------------------------------
\* A server that starts, with its configured master and a new replication ID.
FreshNode(m, id) ==
    [masterhost |-> m, state |-> IF m = 0 THEN "NONE" ELSE "CONNECT", asked |-> FALSE,
     replid |-> id, replid2 |-> NoId, second |-> -1, off |-> 0, backlog |-> NoBacklog, seldb |-> -1, data |-> <<>>,
     mc |-> [reploff |-> 0, replid |-> NoId, db |-> 0], cached |-> FALSE, initial |-> [replid |-> NoId, off |-> 0],
     slaves |-> <<>>, child |-> NoChild, rdb |-> NoChild, woff |-> <<>>]

\* The BGSAVE starts: the replicas that wait for it get +FULLRESYNC, and the
\* stream will select the database again.
startBgsaveForReplication(v) ==
    LET full == [op |-> "FULLRESYNC", replid |-> v.replid, off |-> v.off]
    IN  [v EXCEPT !.child = [on |-> TRUE, data |-> v.data, db |-> IF v.state = "CONNECTED" THEN v.mc.db ELSE -1,
                             replid |-> v.replid, off |-> v.off],
                  !.seldb = -1,
                  !.slaves = [i \in DOMAIN @ |-> IF @[i].st # "WAIT_START" THEN @[i]
                                  ELSE [@[i] EXCEPT !.st = "WAIT_END", !.init = v.off, !.pre = Append(@, full)]]]

\* fork() fails: they are dropped with an error.
BgsaveFails(v) == [v EXCEPT !.slaves = SelectSeq(@, LAMBDA c : c.st # "WAIT_START")]

\* masterTryPartialResynchronization accepts the request.
CanContinue(v, req) ==
    /\ req.replid = v.replid \/ (req.replid = v.replid2 /\ req.off <= v.second)
    /\ v.backlog.on
    /\ req.off >= v.backlog.first /\ req.off <= v.backlog.first + v.backlog.histlen

\* syncCommand, with a fresh ID at hand.
syncCommand(v, s, req, id, ok) ==
    LET rec == SlaveRec(s)
        joined == [v EXCEPT !.slaves = Append(@, rec)]
        logged == IF v.slaves = <<>> /\ ~ v.backlog.on
                  THEN createReplicationBacklog(clearReplicationId2(changeReplicationId(joined, id)))
                  ELSE joined
        peers == SelectSeq(v.slaves, LAMBDA c : c.st = "WAIT_END")
        full == [op |-> "FULLRESYNC", replid |-> logged.replid, off |-> Head(peers).init]
        last == Len(logged.slaves)
    IN  IF CanContinue(v, req)
        THEN [v EXCEPT !.slaves = Append(@, [rec EXCEPT !.st = "ONLINE", !.pre = <<[op |-> "CONTINUE", replid |-> v.replid]>>,
                                                        !.out = addReplyReplicationBacklog(v.backlog, req.off)])]
        ELSE IF v.child.on
        THEN IF peers = <<>> THEN logged
             ELSE [logged EXCEPT !.seldb = -1,
                                 !.slaves[last] = [rec EXCEPT !.st = "WAIT_END", !.init = Head(peers).init,
                                                              !.out = Head(peers).out, !.pre = <<full>>]]
        ELSE IF ok THEN startBgsaveForReplication(logged) ELSE BgsaveFails(logged)

\* updateSlavesWaitingBgsave: a failed child ends the connections that wait for
\* it; the others are given the file, which they keep open; and the next BGSAVE
\* starts if some wait for one.
updateSlavesWaitingBgsave(v, ok) ==
    LET kept == IF ok THEN v.slaves ELSE SelectSeq(v.slaves, LAMBDA c : c.st # "WAIT_END")
        w == [v EXCEPT !.child = NoChild,
                       !.rdb = IF ok THEN v.child ELSE @,
                       !.slaves = [i \in DOMAIN kept |->
                           IF kept[i].st # "WAIT_END" THEN kept[i]
                           ELSE [kept[i] EXCEPT !.st = "SEND_BULK", !.pre = Append(@, [op |-> "RDB", file |-> v.child])]]]
    IN  IF \E i \in DOMAIN kept : kept[i].st = "WAIT_START" THEN startBgsaveForReplication(w) ELSE w

\* What a replica can read: the replies and the file, then, once putSlaveOnline
\* installed the write handler, what was buffered.
Readable(c) == c.pre \o (IF c.st = "ONLINE" THEN c.out ELSE <<>>)
Consumed(c) == IF c.pre # <<>> THEN [c EXCEPT !.pre = Tail(@)] ELSE [c EXCEPT !.out = Tail(@)]

-----------------------------------------------------------------------------
\* The replica's side.  server.master and server.cached_master are one client,
\* mc, connected or cached.
replicationCacheMaster(v) == [v EXCEPT !.state = "CONNECT", !.cached = TRUE]
replicationDiscardCachedMaster(v) == [v EXCEPT !.cached = FALSE]
replicationCacheMasterUsingMyself(v) ==
    [v EXCEPT !.mc = [reploff |-> v.off, replid |-> v.replid, db |-> 0], !.cached = TRUE]

\* PSYNC failed or is not supported: the chained replicas have to resync.
NoPartialResync(v) == [disconnectSlaves(replicationDiscardCachedMaster(v)) EXCEPT !.backlog = NoBacklog]

\* +CONTINUE: a new ID replaces the one of the cached master, which stays valid
\* up to here, and the chained replicas are told by disconnecting them.
PsyncContinue(v, id) ==
    LET w == [v EXCEPT !.state = "CONNECTED", !.cached = FALSE]
    IN  IF id = v.mc.replid THEN w
        ELSE disconnectSlaves([w EXCEPT !.replid2 = v.mc.replid, !.second = v.off + 1, !.replid = id, !.mc.replid = id])

\* +FULLRESYNC.
PsyncFullResync(v, msg) ==
    [NoPartialResync(v) EXCEPT !.state = "TRANSFER", !.initial = [replid |-> msg.replid, off |-> msg.off]]

\* readSyncBulkPayload, when the file is complete.
readSyncBulkPayload(v, file) ==
    LET w == [v EXCEPT !.data = file.data, !.state = "CONNECTED", !.rdb = file,
                       !.mc = [reploff |-> v.initial.off, replid |-> v.initial.replid,
                               db |-> IF file.db = -1 THEN 0 ELSE file.db],
                       !.replid = v.initial.replid, !.off = v.initial.off]
    IN  LET c == clearReplicationId2(w) IN IF c.backlog.on THEN c ELSE createReplicationBacklog(c)

\* A command from the master: it is applied and passed on as it came.
ApplyFromMaster(v, e) ==
    LET w == [v EXCEPT !.mc.reploff = @ + 1]
    IN  FeedAll(IF e.op = "select" THEN [w EXCEPT !.mc.db = e.arg]
                ELSE [w EXCEPT !.data = Append(@, <<v.mc.db, e.arg>>)], e)

\* replicationSetMaster and replicationUnsetMaster.
replicationSetMaster(v, m) ==
    LET w == disconnectSlaves(IF v.state = "CONNECTED" THEN replicationCacheMaster(v) ELSE v)
    IN  [(IF IsMaster(v) THEN replicationCacheMasterUsingMyself(w) ELSE w)
            EXCEPT !.masterhost = m, !.state = "CONNECT", !.asked = FALSE]
replicationUnsetMaster(v, id) ==
    [disconnectSlaves(replicationDiscardCachedMaster(shiftReplicationId(v, id)))
        EXCEPT !.masterhost = 0, !.state = "NONE", !.seldb = -1, !.asked = FALSE]

-----------------------------------------------------------------------------
\* The client of s at its master, 0 if there is none.
LinkOf(s) ==
    LET at == {i \in DOMAIN srv[srv[s].masterhost].slaves :
                  srv[srv[s].masterhost].slaves[i].s = s /\ srv[srv[s].masterhost].slaves[i].open}
    IN  IF IsMaster(srv[s]) \/ at = {} THEN 0 ELSE CHOOSE i \in at : TRUE

\* The replica's end of its connection is closed in state f.
Closed(f, s) ==
    IF LinkOf(s) = 0 THEN f
    ELSE [f EXCEPT ![srv[s].masterhost].slaves = [i \in DOMAIN @ |->
              IF i = LinkOf(s) THEN [@[i] EXCEPT !.open = FALSE] ELSE @[i]]]

ReplSpend(op) == replBudget[op] > 0 /\ replBudget' = [replBudget EXCEPT ![op] = @ - 1]

\* History: a dataset changed while the offset stood still, under an ID that
\* another server knows; a replica took a database for the selected one.
Marked(b, n, uncounted, guessed) ==
    [b EXCEPT !.uncounted = @ \/ (uncounted /\ \E m \in ReplNodes \ {n} :
                                     srv[n].replid \in {srv[m].replid, srv[m].replid2, srv[m].mc.replid}),
              !.guessed = @ \/ guessed]

\* A client writes to a master.
ReplWrite(n, db) ==
    LET v == [srv[n] EXCEPT !.data = Append(@, <<db, replNext.write>>)]
        w == replicationFeedSlaves(v, db, Write(replNext.write))
    IN  /\ IsMaster(srv[n]) /\ replBudget.write > 0
        /\ replBudget' = Marked([replBudget EXCEPT !.write = @ - 1], n, ~ srv[n].backlog.on, FALSE)
        /\ srv' = [srv EXCEPT ![n] = [w EXCEPT !.woff = Append(@, [write |-> replNext.write, off |-> w.off])]]
        /\ replNext' = [replNext EXCEPT !.write = @ + 1]

\* connectWithMaster and the handshake, up to the PSYNC.
ReplConnect(s) ==
    /\ srv[s].state = "CONNECT"
    /\ srv' = [srv EXCEPT ![s].state = "HANDSHAKE", ![s].asked = TRUE]
    /\ UNCHANGED <<replNext, replBudget>>

\* The master reads it.
Psync(s) ==
    LET m == srv[s].masterhost
        v == srv[s]
        req == IF v.cached THEN [replid |-> v.mc.replid, off |-> v.mc.reploff + 1] ELSE [replid |-> NoId, off |-> -1]
    IN  /\ v.state = "HANDSHAKE" /\ v.asked
        /\ \/ /\ ~ IsMaster(srv[m]) /\ srv[m].state # "CONNECTED"
              /\ srv' = [srv EXCEPT ![s].state = "CONNECT", ![s].asked = FALSE]
              /\ UNCHANGED <<replNext, replBudget>>
           \/ /\ IsMaster(srv[m]) \/ srv[m].state = "CONNECTED"
              /\ \E ok \in BOOLEAN :
                    /\ srv' = [srv EXCEPT ![m] = syncCommand(srv[m], s, req, replNext.replid, ok), ![s].asked = FALSE]
                    /\ IF ok THEN UNCHANGED replBudget ELSE ReplSpend("bgfail")
              /\ replNext' = [replNext EXCEPT !.replid = @ + 1]

\* The replica reads: the reply to PSYNC, the file, or a command.
ReplRead(s) ==
    LET m == srv[s].masterhost
        c == srv[m].slaves[LinkOf(s)]
        msg == Head(Readable(c))
    IN  /\ LinkOf(s) # 0 /\ Readable(c) # <<>>
        /\ srv' = [srv EXCEPT ![m].slaves[LinkOf(s)] = Consumed(c),
                              ![s] = CASE msg.op = "CONTINUE" -> PsyncContinue(@, msg.replid)
                                       [] msg.op = "FULLRESYNC" -> PsyncFullResync(@, msg)
                                       [] msg.op = "RDB" -> readSyncBulkPayload(@, msg.file)
                                       [] OTHER -> ApplyFromMaster(@, msg)]
        /\ replBudget' = Marked(replBudget, s, msg.op \in {"write", "select"} /\ ~ srv[s].backlog.on,
                                msg.op = "RDB" /\ ~ IsMaster(srv[m]) /\ msg.file.db = -1)
        /\ UNCHANGED replNext

\* The connection is gone: a read error while the reply to PSYNC is awaited
\* counts as a master without PSYNC.
ReplReadError(s) ==
    /\ LinkOf(s) = 0 /\ ~ srv[s].asked /\ srv[s].state \in {"HANDSHAKE", "TRANSFER", "CONNECTED"}
    /\ srv' = [srv EXCEPT ![s] = CASE @.state = "CONNECTED" -> replicationCacheMaster(@)
                                   [] @.state = "TRANSFER" -> [@ EXCEPT !.state = "CONNECT"]
                                   [] OTHER -> [NoPartialResync(@) EXCEPT !.state = "CONNECT"]]
    /\ UNCHANGED <<replNext, replBudget>>

\* The replica times out or closes; the master notices later, or times out itself.
ReplBreak(s) ==
    /\ srv[s].state \in {"HANDSHAKE", "TRANSFER", "CONNECTED"} /\ ReplSpend("break")
    /\ srv' = [Closed(srv, s) EXCEPT ![s] =
                  [(IF @.state = "CONNECTED" THEN replicationCacheMaster(@) ELSE @) EXCEPT !.state = "CONNECT", !.asked = FALSE]]
    /\ UNCHANGED replNext
DropClient(m, i) ==
    /\ IF srv[m].slaves[i].open THEN ReplSpend("drop") ELSE UNCHANGED replBudget
    /\ srv' = [srv EXCEPT ![m].slaves = RemoveAt(@, i)]
    /\ UNCHANGED replNext

\* REPLCONF ACK.
ReplAck(s) ==
    /\ LinkOf(s) # 0 /\ srv[s].state = "CONNECTED"
    /\ srv[srv[s].masterhost].slaves[LinkOf(s)].ack < srv[s].mc.reploff
    /\ srv' = [srv EXCEPT ![srv[s].masterhost].slaves[LinkOf(s)].ack = srv[s].mc.reploff]
    /\ UNCHANGED <<replNext, replBudget>>

\* A BGSAVE of the user's, the end of a child, and the file sent to a replica.
UserBgsave(n) ==
    /\ ~ srv[n].child.on /\ ReplSpend("bgsave")
    /\ srv' = [srv EXCEPT ![n].child = [on |-> TRUE, data |-> srv[n].data, db |-> -1, replid |-> srv[n].replid, off |-> srv[n].off]]
    /\ UNCHANGED replNext
ReplBgsaveDone(n, ok) ==
    /\ srv[n].child.on
    /\ IF ok THEN UNCHANGED replBudget ELSE ReplSpend("bgfail")
    /\ srv' = [srv EXCEPT ![n] = updateSlavesWaitingBgsave(@, ok)]
    /\ UNCHANGED replNext
sendBulkToSlave(n, i) ==
    /\ srv[n].slaves[i].st = "SEND_BULK"
    /\ srv' = [srv EXCEPT ![n].slaves[i] = [@ EXCEPT !.st = "ONLINE"]]
    /\ UNCHANGED <<replNext, replBudget>>
\* replicationCron: the BGSAVE that waiting replicas need.
ReplCron(n) ==
    /\ ~ srv[n].child.on /\ \E i \in DOMAIN srv[n].slaves : srv[n].slaves[i].st = "WAIT_START"
    /\ srv' = [srv EXCEPT ![n] = startBgsaveForReplication(@)]
    /\ UNCHANGED <<replNext, replBudget>>

\* SLAVEOF, and the backlog freed after repl-backlog-ttl.
SlaveOf(n, m) ==
    /\ n # m /\ srv[n].masterhost # m /\ ReplSpend("slaveof")
    /\ srv' = [Closed(srv, n) EXCEPT ![n] = replicationSetMaster(@, m)]
    /\ UNCHANGED replNext
SlaveOfNoOne(n) ==
    /\ ~ IsMaster(srv[n]) /\ ReplSpend("noone")
    /\ srv' = [Closed(srv, n) EXCEPT ![n] = replicationUnsetMaster(@, replNext.replid)]
    /\ replNext' = [replNext EXCEPT !.replid = @ + 1]
freeReplicationBacklog(n) ==
    /\ IsMaster(srv[n]) /\ srv[n].slaves = <<>> /\ srv[n].backlog.on /\ ReplSpend("free")
    /\ srv' = [srv EXCEPT ![n].backlog = NoBacklog]
    /\ UNCHANGED replNext

\* loadDataFromDisk after a crash, with the configuration as it was.
ReplRestart(n) ==
    LET v == srv[n]
        new == [FreshNode(v.masterhost, replNext.replid) EXCEPT !.rdb = v.rdb]
        loaded == [new EXCEPT !.data = v.rdb.data, !.replid = v.rdb.replid, !.off = v.rdb.off]
    IN  /\ replBudget.restart > 0
        /\ srv' = [Closed(srv, n) EXCEPT ![n] = IF ~ v.rdb.on THEN new
                                                ELSE IF IsMaster(v) THEN loaded ELSE replicationCacheMasterUsingMyself(loaded)]
        /\ replBudget' = Marked([replBudget EXCEPT !.restart = @ - 1], n, FALSE, ~ IsMaster(v) /\ v.rdb.on)
        /\ replNext' = [replNext EXCEPT !.replid = @ + 1]

\* The servers after a full resynchronisation of all with server 1, no writes.
SyncedNode(master, n) ==
    LET empty == [NoChild EXCEPT !.on = TRUE, !.replid = 1]
        up == createReplicationBacklog([FreshNode(master[n], 1) EXCEPT !.rdb = empty, !.mc.replid = 1,
                                            !.state = IF master[n] = 0 THEN "NONE" ELSE "CONNECTED"])
        mine == SetToSortSeq({s \in ReplNodes : master[s] = n}, <)
    IN  [up EXCEPT !.slaves = [i \in DOMAIN mine |-> [SlaveRec(mine[i]) EXCEPT !.st = "ONLINE"]]]

ReplInit ==
    /\ replNext = [write |-> 1, replid |-> Cardinality(ReplNodes) + 1]
    /\ \E start \in ReplStarts :
          /\ srv = [n \in ReplNodes |->
                       IF start.synced /\ n \in start.budget.live THEN SyncedNode(start.master, n) ELSE FreshNode(start.master[n], n)]
          /\ replBudget = start.budget

ReplNext ==
    \/ \E n \in replBudget.live :
          \/ \E db \in replBudget.dbs : ReplWrite(n, db)
          \/ ReplConnect(n) \/ Psync(n) \/ ReplRead(n) \/ ReplReadError(n) \/ ReplBreak(n) \/ ReplAck(n)
          \/ UserBgsave(n) \/ ReplCron(n) \/ (\E ok \in BOOLEAN : ReplBgsaveDone(n, ok))
          \/ \E i \in DOMAIN srv[n].slaves : sendBulkToSlave(n, i) \/ DropClient(n, i)
          \/ \E m \in replBudget.live : SlaveOf(n, m)
          \/ SlaveOfNoOne(n) \/ freeReplicationBacklog(n) \/ ReplRestart(n)

-----------------------------------------------------------------------------
\* Two servers with one replication ID and one offset have the same data.
SameIdSameData ==
    \A n, m \in ReplNodes :
       srv[n].replid = srv[m].replid /\ srv[n].off = srv[m].off /\ srv[n].backlog.on /\ srv[m].backlog.on
           => srv[n].data = srv[m].data

\* PSYNC rests on this: two servers with the same replication ID and the same
\* offset have executed the same writes, whatever resynchronisations, failovers
\* and restarts brought them there (masterTryPartialResynchronization), as long
\* as nothing was written without a backlog under an ID that others know, and no
\* restarted replica had to guess the selected database (Marked).
SameHistory == ~ replBudget.uncounted /\ ~ replBudget.guessed => SameIdSameData

\* What was sent to the replica has been read, and the datasets are the same.
CaughtUp(s) ==
    LET m == srv[s].masterhost
    IN  LinkOf(s) # 0 /\ srv[s].state = "CONNECTED"
        => LET c == srv[m].slaves[LinkOf(s)] IN c.st = "ONLINE" /\ Readable(c) = <<>> => srv[s].data = srv[m].data

\* A replica that has read everything its master sent has its master's dataset.
ReplicaCatchesUp == \A s \in ReplNodes : CaughtUp(s)

\* A replica that has read everything its master sent has its master's dataset,
\* on the condition of SameHistory.
ReplicaConverges == ~ replBudget.uncounted /\ ~ replBudget.guessed => ReplicaCatchesUp

\* WAIT counts a replica for a write only if the replica has the write.
AcksAreTrue ==
    \A n \in ReplNodes : \A i \in DOMAIN srv[n].slaves : \A w \in ToSet(srv[n].woff) :
       LET c == srv[n].slaves[i]
           Has(v) == \E k \in DOMAIN v.data : v.data[k][2] = w.write
       IN  IsMaster(srv[n]) /\ c.st = "ONLINE" /\ c.open /\ w.off > 0 /\ c.ack >= w.off /\ Has(srv[n]) => Has(srv[c.s])

\* A replica that waits for the end of a BGSAVE waits for one that runs: the
\* child of a failed or finished BGSAVE leaves none behind.
NoReplicaForgotten ==
    \A n \in ReplNodes : \A i \in DOMAIN srv[n].slaves : srv[n].slaves[i].st = "WAIT_END" => srv[n].child.on

\* What PSYNC, WAIT and the replication handshake rest on, each on the condition
\* stated above: a replica has the history its replication ID and offset stand
\* for and all of it once it has read what was sent, it acknowledges only what
\* it has, and none waits for the end of a BGSAVE that does not run.
ReplicationIsExact ==
    /\ SameHistory
    /\ ReplicaConverges
    /\ AcksAreTrue
    /\ NoReplicaForgotten
=============================================================================
