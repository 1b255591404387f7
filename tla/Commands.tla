------------------------------ MODULE Commands ------------------------------
(***************************************************************************)
(* How commands of several clients are executed, propagated and answered     *)
(* (server.c, multi.c, blocked.c, the blocking part of t_list.c, WAIT of      *)
(* replication.c, the keyspace operations of db.c they use): transactions     *)
(* with WATCH, blocking pops served after the command that made a list ready, *)
(* lazy expiration, SWAPDB, a change of role, and the stream of commands a    *)
(* replica executes.                                                          *)
(***************************************************************************)
EXTENDS Integers, Sequences, FiniteSets, SequencesExt

CONSTANTS Clients, Keys, Replicas,
          CmStarts   \* [menu, data, budget]: who may send what, from which dataset

VARIABLES cm,        \* the server and its clients
          cmMenu, cmBudget

cmVars == <<cm, cmMenu, cmBudget>>

CmDbs == {0, 1}
NoKey == "nokey"
NoVal == [t |-> "none", l |-> <<>>, e |-> "no"]
StrVal(v) == [t |-> "str", l |-> <<v>>, e |-> "no"]
ListVal(l) == [t |-> "list", l |-> l, e |-> "no"]
\* A command: its name, its keys, its destination key, its value or count.
Cmd(op, ks, d, v) == [op |-> op, ks |-> ks, d |-> d, v |-> v]
Plain(op) == Cmd(op, <<>>, NoKey, 0)
WriteOps == {"set", "del", "lpush", "lpop", "rpop", "rpoplpush", "sort", "flushdb", "swapdb", "expire", "blpop", "brpoplpush"}
CmSpend(op) == cmBudget[op] > 0 /\ cmBudget' = [cmBudget EXCEPT ![op] = @ - 1]

-----------------------------------------------------------------------------
\* What a command does to the dataset d when executed in database n; it is the
\* same on the master and on a replica that is sent the command.
Popped(x, where) == [x EXCEPT !.l = IF where = "head" THEN Tail(@) ELSE Front(@)]
OrNoKey(x) == IF x.t = "list" /\ x.l = <<>> THEN NoVal ELSE x
IsList(x) == x.t \in {"none", "list"}
Pushed(x, v) == [(IF x.t = "none" THEN ListVal(<<>>) ELSE x) EXCEPT !.l = <<v>> \o @]

popGenericCommand(d, n, k, where) ==
    IF d[n][k].t = "list" THEN [d EXCEPT ![n][k] = OrNoKey(Popped(@, where))] ELSE d
pushGenericCommand(d, n, k, v) == IF IsList(d[n][k]) THEN [d EXCEPT ![n][k] = Pushed(@, v)] ELSE d

rpoplpushCommand(d, n, k, to) ==
    IF d[n][k].t = "list" /\ IsList(d[n][to])
    THEN LET p == [d EXCEPT ![n][k] = Popped(@, "tail")]
             q == [p EXCEPT ![n][to] = Pushed(@, Last(d[n][k].l))]
         IN  [q EXCEPT ![n][k] = OrNoKey(@)]
    ELSE d

\* SORT k BY nosort STORE to.
sortCommand(d, n, k, to) ==
    IF IsList(d[n][k]) THEN [d EXCEPT ![n][to] = OrNoKey(ListVal(d[n][k].l))] ELSE d

Effect(d, n, m) ==
    CASE m.op = "set" -> [d EXCEPT ![n][m.ks[1]] = StrVal(m.v)]
      [] m.op = "del" -> [d EXCEPT ![n][m.ks[1]] = NoVal]
      [] m.op = "lpush" -> pushGenericCommand(d, n, m.ks[1], m.v)
      [] m.op = "lpop" -> popGenericCommand(d, n, m.ks[1], "head")
      [] m.op = "rpop" -> popGenericCommand(d, n, m.ks[1], "tail")
      [] m.op = "rpoplpush" -> rpoplpushCommand(d, n, m.ks[1], m.d)
      [] m.op = "sort" -> sortCommand(d, n, m.ks[1], m.d)
      [] m.op = "flushdb" -> [d EXCEPT ![n] = [k \in Keys |-> NoVal]]
      [] m.op = "swapdb" -> [d EXCEPT ![0] = d[1], ![1] = d[0]]
      [] m.op = "expire" -> [d EXCEPT ![n][m.ks[1]].e = IF d[n][m.ks[1]].t = "none" THEN "no" ELSE "set"]
      [] OTHER -> d

\* server.dirty moves: the command is propagated.
Dirty(d, n, m) ==
    LET x == IF m.ks = <<>> THEN NoVal ELSE d[n][m.ks[1]]
    IN  CASE m.op \in {"set", "swapdb"} -> TRUE
          [] m.op \in {"del", "expire"} -> x.t # "none"
          [] m.op = "lpush" -> IsList(x)
          [] m.op \in {"lpop", "rpop"} -> x.t = "list"
          [] m.op = "rpoplpush" -> x.t = "list" /\ IsList(d[n][m.d])
          [] m.op = "sort" -> x.t = "list" \/ (x.t = "none" /\ d[n][m.d].t # "none")
          [] m.op = "flushdb" -> \E k \in Keys : d[n][k].t # "none"
          [] OTHER -> FALSE

\* signalModifiedKey, and touchWatchedKeysOnFlush for the keys that exist.
Modified(d, n, m) ==
    CASE ~Dirty(d, n, m) -> {}
      [] m.op \in {"set", "del", "lpush", "lpop", "rpop", "expire"} -> {m.ks[1]}
      [] m.op = "rpoplpush" -> {m.ks[1], m.d}
      [] m.op = "sort" -> {m.d}
      [] m.op = "flushdb" -> {k \in Keys : d[n][k].t # "none"}
      [] OTHER -> {}

-----------------------------------------------------------------------------
\* The stream: what is fed to the replica, which executes a transaction when it
\* has its EXEC.
ReplicaFeed(r, n, m) ==
    CASE m.op = "multi" -> [r EXCEPT !.multi = TRUE]
      [] m.op = "exec" -> [r EXCEPT !.data = FoldLeft(LAMBDA d, x : Effect(d, x.n, x.m), @, r.queue), !.multi = FALSE, !.queue = <<>>]
      [] r.multi -> [r EXCEPT !.queue = Append(@, [n |-> n, m |-> m])]
      [] OTHER -> [r EXCEPT !.data = Effect(@, n, m)]

propagate(s, n, m) == IF s.slave THEN s ELSE [s EXCEPT !.off = @ + 1, !.rep = ReplicaFeed(@, n, m)]

touchWatchedKey(s, n, ks) ==
    [s EXCEPT !.cl = [c \in Clients |-> [s.cl[c] EXCEPT !.cas = @ \/ \E k \in ks : <<n, k>> \in s.cl[c].watched]]]

signalListAsReady(s, n, k) ==
    IF s.blocking[n][k] # <<>> /\ <<n, k>> \notin Range(s.ready) THEN [s EXCEPT !.ready = Append(@, <<n, k>>)] ELSE s

\* A list that appears under a key that did not exist is signalled: dbAdd.
dbAdd(s, before, n, k) ==
    IF before[n][k].t = "none" /\ s.data[n][k].t = "list" THEN signalListAsReady(s, n, k) ELSE s

scanDatabaseForReadyLists(s, n) ==
    FoldLeft(LAMBDA t, k : IF t.data[n][k].t = "list" THEN signalListAsReady(t, n, k) ELSE t, s, SetToSeq(Keys))

expireIfNeeded(s, n, k) ==
    IF s.data[n][k].e = "past" /\ ~s.slave
    THEN propagate([s EXCEPT !.data[n][k] = NoVal], n, Cmd("del", <<k>>, NoKey, 0)) ELSE s

LookedUp(m) == IF m.op \in {"flushdb", "swapdb"} THEN <<>> ELSE m.ks \o (IF m.d = NoKey THEN <<>> ELSE <<m.d>>)

\* The body of a write command, before it is propagated.
Signalled(t, before, n, m) ==
    IF m.op = "swapdb" THEN scanDatabaseForReadyLists(scanDatabaseForReadyLists([t EXCEPT !.swapped = TRUE], 0), 1)
    ELSE FoldLeft(LAMBDA x, k : dbAdd(x, before, n, k), t, LookedUp(m))
WriteResult(t, before, n, m) ==
    [s |-> [t EXCEPT !.overwritten = @ \/ (m.op = "sort" /\ before[n][m.d].t = "str" /\ t.data[n][m.d].t = "list")],
     dirty |-> Dirty(before, n, m), prop |-> m]
WriteLooked(s, n, m) ==
    WriteResult(Signalled(touchWatchedKey([s EXCEPT !.data = Effect(@, n, m)], n, Modified(s.data, n, m)), s.data, n, m), s.data, n, m)
Write(s, n, m) == WriteLooked(FoldLeft(LAMBDA t, k : expireIfNeeded(t, n, k), s, LookedUp(m)), n, m)

-----------------------------------------------------------------------------
\* Blocking.
blockForKeys(s, c, ks, to, timeout) ==
    LET n == s.cl[c].db
    IN  [s EXCEPT !.cl[c].blocked = "list", !.cl[c].keys = ToSet(ks), !.cl[c].target = to, !.cl[c].timeout = timeout,
                  !.blocking[n] = [k \in Keys |-> IF k \in ToSet(ks) THEN Append(s.blocking[n][k], c) ELSE s.blocking[n][k]]]

unblockClientWaitingData(s, c) ==
    LET n == s.cl[c].db
    IN  [s EXCEPT !.cl[c].keys = {}, !.cl[c].target = NoKey,
                  !.blocking[n] = [k \in Keys |-> SelectSeq(s.blocking[n][k], LAMBDA x : x # c)]]
unblockClientWaitingReplicas(s, c) == [s EXCEPT !.waiting = SelectSeq(@, LAMBDA x : x # c)]

unblockClient(s, c) ==
    LET t == IF s.cl[c].blocked = "list" THEN unblockClientWaitingData(s, c) ELSE unblockClientWaitingReplicas(s, c)
    IN  [t EXCEPT !.cl[c].blocked = "no"]

\* A reply with an element of the list at k.
Got(s, c, k, v) == [s EXCEPT !.cl[c].got = [k |-> k, v |-> v, n |-> @.n + 1]]

\* The pop that serves client c, and what is propagated for it; the pop is
\* undone when the destination holds the wrong type.
Served(s, c, k, v) == [Got(s, c, k, v) EXCEPT !.cl[c].mine = s.off, !.cl[c].served = TRUE]
PushTo(s, c, n, k, to, v) ==
    Served(propagate(touchWatchedKey(dbAdd([s EXCEPT !.data[n][to] = Pushed(@, v)], s.data, n, to), n, {to}), n,
                     Cmd("lpush", <<to>>, NoKey, v)), c, k, v)
MoveTo(s, c, n, k, to, list) ==
    IF ~IsList(s.data[n][to]) THEN [s EXCEPT !.data[n][k] = list]
    ELSE PushTo(propagate(s, n, Cmd("rpop", <<k>>, NoKey, 0)), c, n, k, to, Last(list.l))
serveClientBlockedOnList(s0, c, n, k, to, where) ==
    LET list == s0.data[n][k]
        s == unblockClient([s0 EXCEPT !.data[n][k] = Popped(@, where)], c)
    IN  IF to # NoKey THEN MoveTo(expireIfNeeded(s, n, to), c, n, k, to, list)
        ELSE Served(propagate(s, n, Cmd(IF where = "head" THEN "lpop" ELSE "rpop", <<k>>, NoKey, 0)), c, k,
                    IF where = "head" THEN Head(list.l) ELSE Last(list.l))

\* One client of the list of k; nothing happens when the list is empty.
ServeFirst(s, n, k) ==
    IF s.data[n][k].l = <<>> THEN s
    ELSE LET c == Head(s.blocking[n][k])
         IN  serveClientBlockedOnList(s, c, n, k, s.cl[c].target, IF s.cl[c].last = "blpop" THEN "head" ELSE "tail")

ServeAll(s, n, k) ==
    IF s.data[n][k].t # "list" THEN s
    ELSE [FoldLeft(LAMBDA x, i : ServeFirst(x, n, k), s, [i \in 1..Len(s.blocking[n][k]) |-> i]) EXCEPT !.data[n][k] = OrNoKey(@)]

\* Mutant: the last client that blocked is served first.
ServeLastFirst(s0, n, k) ==
    ServeAll(expireIfNeeded([s0 EXCEPT !.ready = Tail(@), !.blocking[n][k] = Reverse(@)], n, k), n, k)

ServeKey(s0, n, k) == ServeAll(expireIfNeeded([s0 EXCEPT !.ready = Tail(@)], n, k), n, k)


RECURSIVE handleClientsBlockedOnLists(_)
handleClientsBlockedOnLists(s) ==
    IF s.ready = <<>> THEN s ELSE handleClientsBlockedOnLists(ServeKey(s, Head(s.ready)[1], Head(s.ready)[2]))


PopOrBlock(x, c, n, m) ==
    LET held == {i \in DOMAIN m.ks : x.data[n][m.ks[i]].t # "none"}
        first == m.ks[CHOOSE i \in held : \A j \in held : i <= j]
        nothing == [s |-> x, dirty |-> FALSE, prop |-> m]
    IN  CASE held = {} /\ x.cl[c].multi -> nothing
          [] held = {} -> [nothing EXCEPT !.s = blockForKeys(x, c, m.ks, m.d, m.v)]
          [] x.data[n][first].t # "list" -> nothing
          [] m.op = "blpop" -> Write(x, n, Cmd("lpop", <<first>>, NoKey, 0))
          [] OTHER -> Write(x, n, Cmd("rpoplpush", m.ks, m.d, 0))
blockingPop(s, c, m) == PopOrBlock(FoldLeft(LAMBDA t, k : expireIfNeeded(t, s.cl[c].db, k), s, m.ks), c, s.cl[c].db, m)

-----------------------------------------------------------------------------
\* WAIT.
replicationCountAcksByOffset(s, o) == Cardinality({r \in Replicas : s.acks[r] >= o})

\* The reply of WAIT; a lie counts a replica that has not executed what the
\* client wrote.  For a client served while blocked it is recorded apart.
WaitReply(s, c, num) ==
    LET lie == num > Cardinality({r \in Replicas : s.acks[r] >= s.cl[c].mine})
    IN  [s EXCEPT !.waitLie = @ \/ (lie /\ ~s.cl[c].served), !.waitLieServed = @ \/ (lie /\ s.cl[c].served)]

waitCommand(s, c, num, timeout) ==
    LET acked == replicationCountAcksByOffset(s, s.cl[c].woff)
    IN  CASE s.slave \/ s.cl[c].multi -> s
          [] acked >= num -> WaitReply(s, c, acked)
          [] OTHER -> [s EXCEPT !.cl[c].blocked = "wait", !.cl[c].timeout = timeout, !.cl[c].num = num,
                                !.waiting = Append(@, c), !.getack = TRUE]

\* The offset and the count of the last client answered spare a count when the
\* next one asked for less of both.
processClientsWaitingReplicas(s) ==
    LET Step(a, c) ==
            LET o == s.cl[c].woff
                num == replicationCountAcksByOffset(s, o)
            IN  CASE a.off > o /\ a.num > s.cl[c].num -> [a EXCEPT !.s = WaitReply(unblockClient(@, c), c, a.num)]
                  [] num >= s.cl[c].num -> [s |-> WaitReply(unblockClient(a.s, c), c, num), off |-> o, num |-> num]
                  [] OTHER -> a
    IN  FoldLeft(Step, [s |-> s, off |-> 0, num |-> 0], s.waiting).s

-----------------------------------------------------------------------------
\* Transactions.
unwatchAllKeys(s, c) == [s EXCEPT !.cl[c].watched = {}, !.cl[c].snap = <<>>]
discardTransaction(s, c) ==
    [unwatchAllKeys(s, c) EXCEPT !.cl[c].multi = FALSE, !.cl[c].queue = <<>>, !.cl[c].cas = FALSE, !.cl[c].dexec = FALSE,
                                 !.cl[c].refused = FALSE]
flagTransaction(s, c) == [s EXCEPT !.cl[c].dexec = @ \/ s.cl[c].multi]

watchCommand(s, c, k) ==
    LET w == <<s.cl[c].db, k>>
    IN  IF s.cl[c].multi \/ w \in s.cl[c].watched THEN s
        ELSE [s EXCEPT !.cl[c].watched = @ \cup {w}, !.cl[c].snap = Append(@, [w |-> w, x |-> s.data[w[1]][k]])]

\* The value is the one seen by WATCH; a key whose time came may be gone.
Unchanged(s, o) ==
    LET x == s.data[o.w[1]][o.w[2]]
    IN  x = o.x \/ (o.x.e # "no" /\ (x.t = "none" \/ x = [o.x EXCEPT !.e = "past"]))

Proc(s, c, m) ==
    LET plain(t) == [s |-> t, dirty |-> FALSE, prop |-> m]
    IN  CASE m.op \in {"blpop", "brpoplpush"} -> blockingPop(s, c, m)
          [] m.op \in WriteOps \ {"blpop", "brpoplpush"} -> Write(s, s.cl[c].db, m)
          [] m.op = "select" -> plain([s EXCEPT !.cl[c].db = m.v])
          [] m.op = "unwatch" -> plain([unwatchAllKeys(s, c) EXCEPT !.cl[c].cas = FALSE])
          [] m.op = "watch" -> plain(watchCommand(s, c, m.ks[1]))
          [] m.op = "wait" -> plain(waitCommand(s, c, m.v, 1))
          [] m.op = "multi" -> plain([s EXCEPT !.cl[c].multi = TRUE])
          [] m.op = "discard" -> plain(IF s.cl[c].multi THEN discardTransaction(s, c) ELSE s)
          [] OTHER -> plain(FoldLeft(LAMBDA t, k : expireIfNeeded(t, t.cl[c].db, k), s, m.ks))

Wrote(s, c) == [s EXCEPT !.cl[c].mine = s.off, !.cl[c].served = FALSE]
PropagateIf(r, c) == IF r.dirty THEN Wrote(propagate(r.s, r.s.cl[c].db, r.prop), c) ELSE r.s
call(s, c, m) == PropagateIf(Proc(s, c, m), c)

\* MULTI is propagated before the first command that is not a read, EXEC when
\* MULTI was.
ExecStep(s, c, m) == call(IF m.op # "get" /\ ~s.rep.multi THEN propagate(s, s.cl[c].db, Plain("multi")) ELSE s, c, m)
PropagateExec(s, c, must) == IF must THEN Wrote(propagate(s, s.cl[c].db, Plain("exec")), c) ELSE s
\* What the transaction that ran as u in s is remembered for.
Remember(s, u, c, broken) ==
    [discardTransaction(u, c) EXCEPT
       !.casBroken = @ \/ (~s.swapped /\ broken), !.casBrokenSwap = @ \/ (s.swapped /\ broken),
       !.partly = @ \/ s.cl[c].refused, !.slaveWrote = @ \/ (s.slave /\ u.data # s.data)]
execCommand(s, c) ==
    LET q == s.cl[c].queue
    IN  CASE ~s.cl[c].multi -> s
          [] s.cl[c].cas \/ s.cl[c].dexec -> discardTransaction(s, c)
          [] OTHER -> PropagateExec(Remember(s, FoldLeft(LAMBDA t, m : ExecStep(t, c, m), unwatchAllKeys(s, c), q), c,
                                             \E i \in DOMAIN s.cl[c].snap : ~Unchanged(s, s.cl[c].snap[i])),
                                    c, \E i \in DOMAIN q : q[i].op # "get")

AfterCall(s, c) == handleClientsBlockedOnLists([s EXCEPT !.cl[c].woff = s.off])

\* A command of client c; a refused one is recorded while a transaction is open.
processCommand(s0, c, m) ==
    LET s == [s0 EXCEPT !.cl[c].last = m.op]
        r == [s EXCEPT !.cl[c].refused = @ \/ s.cl[c].multi]
    IN  CASE m.op = "bad" -> flagTransaction(r, c)
          [] s.slave /\ m.op \in WriteOps -> r
          [] s.cl[c].multi /\ m.op \notin {"exec", "discard", "multi", "watch"} -> [s EXCEPT !.cl[c].queue = Append(@, m)]
          [] OTHER -> AfterCall(IF m.op = "exec" THEN execCommand(s, c) ELSE call(s, c, m), c)

-----------------------------------------------------------------------------
CmCommand(c) ==
    /\ CmSpend("cmd")
    /\ ~cm.cl[c].dead /\ cm.cl[c].blocked = "no"
    /\ \E m \in cmMenu[c] : cm' = processCommand(cm, c, m)
    /\ UNCHANGED cmMenu

\* freeClient: the client leaves every list it is in.
Freed(s, c) == [unwatchAllKeys(IF s.cl[c].blocked = "no" THEN s ELSE unblockClient(s, c), c) EXCEPT !.cl[c].dead = TRUE]
CmDisconnect(c) ==
    /\ CmSpend("disconnect")
    /\ ~cm.cl[c].dead
    /\ cm' = Freed(cm, c)
    /\ UNCHANGED cmMenu

\* clientsCronHandleTimeout.
BlockedTimeout(c) ==
    /\ CmSpend("timeout")
    /\ cm.cl[c].blocked # "no" /\ cm.cl[c].timeout > 0
    /\ LET s == IF cm.cl[c].blocked = "wait" THEN WaitReply(cm, c, replicationCountAcksByOffset(cm, cm.cl[c].woff)) ELSE cm
       IN  cm' = unblockClient(s, c)
    /\ UNCHANGED cmMenu

\* The time of the keys with an expire comes, on both servers.
CmTick ==
    /\ CmSpend("tick")
    /\ LET late(d) == [n \in CmDbs |-> [k \in Keys |-> IF d[n][k].e = "set" THEN [d[n][k] EXCEPT !.e = "past"] ELSE d[n][k]]]
       IN  cm' = [cm EXCEPT !.data = late(@), !.rep.data = late(@)]
    /\ UNCHANGED cmMenu

\* REPLCONF ACK of a replica that has executed all it was sent.
CmAck(r) ==
    /\ CmSpend("ack")
    /\ cm' = [cm EXCEPT !.acks[r] = cm.off]
    /\ UNCHANGED cmMenu

\* beforeSleep: GETACK is fed to the replicas, which moves the offset, and the
\* clients in WAIT are looked at.
CmBeforeSleep ==
    /\ cm.waiting # <<>>
    /\ cm' = processClientsWaitingReplicas([cm EXCEPT !.getack = FALSE, !.off = IF cm.getack THEN @ + 1 ELSE @])
    /\ UNCHANGED <<cmMenu, cmBudget>>

\* SLAVEOF: every blocked client is answered and closed.
disconnectAllBlockedClients ==
    /\ CmSpend("slaveof")
    /\ ~cm.slave
    /\ cm' = FoldLeft(LAMBDA s, c : IF s.cl[c].blocked = "no" THEN s ELSE Freed(s, c), [cm EXCEPT !.slave = TRUE], SetToSeq(Clients))
    /\ UNCHANGED cmMenu

-----------------------------------------------------------------------------
CmInit ==
    \E st \in CmStarts :
        /\ cmMenu = st.menu
        /\ cmBudget = st.budget
        /\ cm = [data |-> st.data, rep |-> [data |-> st.data, multi |-> FALSE, queue |-> <<>>], off |-> 0,
                 acks |-> [r \in Replicas |-> 0], ready |-> <<>>, waiting |-> <<>>, getack |-> FALSE, slave |-> FALSE,
                 blocking |-> [n \in CmDbs |-> [k \in Keys |-> <<>>]],
                 cl |-> [c \in Clients |-> [db |-> 0, multi |-> FALSE, queue |-> <<>>, cas |-> FALSE, dexec |-> FALSE, refused |-> FALSE,
                                            watched |-> {}, snap |-> <<>>, blocked |-> "no", keys |-> {}, target |-> NoKey, timeout |-> 0,
                                            num |-> 0, last |-> "none", woff |-> 0, mine |-> 0, served |-> FALSE,
                                            got |-> [k |-> NoKey, v |-> 0, n |-> 0], dead |-> FALSE]],
                 swapped |-> FALSE, overwritten |-> FALSE, casBroken |-> FALSE, casBrokenSwap |-> FALSE, partly |-> FALSE,
                 slaveWrote |-> FALSE, waitLie |-> FALSE, waitLieServed |-> FALSE]

CmNext ==
    \/ \E c \in Clients : CmCommand(c) \/ CmDisconnect(c) \/ BlockedTimeout(c)
    \/ \E r \in Replicas : CmAck(r)
    \/ CmTick \/ CmBeforeSleep \/ disconnectAllBlockedClients

-----------------------------------------------------------------------------
\* A replica that executed the whole stream has the dataset of its master, and
\* no transaction is left open: queued commands, pops that serve blocked
\* clients, expirations and SWAPDB are all propagated, in their order.
StreamIsExact == cm.slave \/ (cm.rep.data = cm.data /\ ~cm.rep.multi)

\* EXEC runs only when every watched key still has the value it had at WATCH
\* (touchWatchedKey), as long as no SWAPDB ran.
WatchHolds == ~cm.casBroken

\* Between two events no client is blocked on a key that holds a list
\* (handleClientsBlockedOnLists serves all that can be served).
NobodyWaitsOnData ==
    cm.overwritten \/ \A n \in CmDbs, k \in Keys : cm.blocking[n][k] # <<>> => cm.data[n][k].t # "list"

\* A client served with an element of a key blocked before every client that
\* stays blocked on that key ("from the one that blocked first, to the last").
ServedInOrder ==
    [][\A n \in CmDbs, k \in Keys :
          LET q == cm.blocking[n][k]
          IN  \A i, j \in DOMAIN q :
                 (i < j /\ cm'.cl[q[j]].got.n > cm.cl[q[j]].got.n /\ cm'.cl[q[j]].got.k = k) => q[i] \notin Range(cm'.blocking[n][k])]_cmVars

\* The lists of blocked clients are those the clients know of, and hold no
\* client that is gone (unblockClient, freeClient).
BlockedListsAgree ==
    \A c \in Clients : LET x == cm.cl[c] IN
        /\ {<<n, k>> \in CmDbs \X Keys : c \in Range(cm.blocking[n][k])} = {x.db} \X x.keys
        /\ (c \in Range(cm.waiting)) = (x.blocked = "wait")
        /\ x.dead => x.blocked = "no"

\* WAIT never counts a replica that has not acknowledged the last write of the
\* client (waitCommand), unless the write was a pop that served it while blocked.
WaitIsHonest == ~cm.waitLie

\* WAIT covers the pop that served a blocked client: "WAIT for N replicas to acknowledge the
\* processing of our latest write command (and all the previous commands)".
WaitCoversServed == ~cm.waitLieServed

\* EXEC runs only when every watched key still has the value it had at WATCH,
\* after SWAPDB as well (dbSwapDatabases).
WatchHoldsOnSwap == ~cm.casBrokenSwap

\* No EXEC runs after a command of the transaction was refused (flagTransaction:
\* "Should be called every time there is an error while queueing a command").
AllOrNothing == ~cm.partly

\* No client is blocked on a key that holds a list, when the list replaced a value
\* of another type as well (signalListAsReady).
ListsReplacedAreServed == \A n \in CmDbs, k \in Keys : cm.blocking[n][k] # <<>> => cm.data[n][k].t # "list"

\* A read only replica is not written by its clients (processCommand: "Don't
\* accept write commands if this is a read only slave").
ReplicaIsReadOnly == ~cm.slaveWrote

=============================================================================
