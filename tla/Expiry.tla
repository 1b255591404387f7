------------------------------- MODULE Expiry -------------------------------
(***************************************************************************)
(* Keys with a time to live (db.c, expire.c, t_string.c) on a master, in its   *)
(* append only file, and on a replica that hears of commands later: the master  *)
(* deletes expired keys, and only tells.  A replica may have keys of its own.   *)
(***************************************************************************)
EXTENDS Integers, Sequences, FiniteSets, SequencesExt, Functions

CONSTANTS ExMaxTime, ExMaxVal, ExLinkMax,    \* bounds: clock, counters, commands under way
          ExStarts                           \* [menu, budget]

VARIABLES exNow,
          exMaster, exAof, exReplica,  \* key -> [v, t]: value (0: no key), time it expires (0: never)
          exLink,                      \* commands on their way to the replica
          exTracked,                   \* slaveKeysWithExpire
          exRead,                      \* the last value read: [how, v, due]
          exRewritten,                 \* keys whose time was lost in a rewritten command
          exMenu, exBudget
exVars == <<exNow, exMaster, exAof, exReplica, exLink, exTracked, exRead, exRewritten, exMenu, exBudget>>

ExKeys == {1, 2}
ExOwn == {3, 4}            \* written by clients of the replica only
NoKey == [v |-> 0, t |-> 0]
Cmd(op, k, v, n) == [op |-> op, k |-> k, v |-> v, n |-> n]
Due(e, now) == e.t # 0 /\ now > e.t

\* A command at work on a dataset, as "master", "replica" or "loading"; out is what it
\* propagates.
ExAt(db, now, role) == [db |-> db, now |-> now, role |-> role, out |-> <<>>]
dbOverwrite(s, k, v) == [s EXCEPT !.db[k].v = v]
removeExpire(s, k) == [s EXCEPT !.db[k].t = 0]
setExpire(s, k, t) == [s EXCEPT !.db[k].t = t]
dbDelete(s, k) == [s EXCEPT !.db[k] = NoKey]
ExSay(s, c) == [s EXCEPT !.out = Append(@, c)]

propagateExpire(s, k) == ExSay(s, Cmd("del", k, 0, 0))
expireIfNeeded(s, k) ==
    IF Due(s.db[k], s.now) /\ s.role = "master" THEN dbDelete(propagateExpire(s, k), k) ELSE s
lookupKeyWrite(s, k) == expireIfNeeded(s, k)
setKey(s, k, v) == removeExpire(dbOverwrite(lookupKeyWrite(s, k), k, v), k)
Has(s, k) == s.db[k].v # 0

\* SET, with ttl c.n if that is not 0; NX if c.nx.
setGenericCommand(s0, c) ==
    LET s == IF c.op = "setnx" THEN lookupKeyWrite(s0, c.k) ELSE s0
        set == setKey(s, c.k, c.v)
    IN  IF c.op = "setnx" /\ Has(s, c.k) THEN s
        ELSE ExSay(IF c.n = 0 THEN set ELSE setExpire(set, c.k, s.now + c.n), c)
incrDecrCommand(s0, c) ==
    LET s == lookupKeyWrite(s0, c.k) IN ExSay(dbOverwrite(s, c.k, s.db[c.k].v + c.n), c)
\* Propagated as a SET of the result.
incrbyfloatCommand(s0, c) ==
    LET s == lookupKeyWrite(s0, c.k)
        v == s.db[c.k].v + c.n
    IN  ExSay(dbOverwrite(s, c.k, v), Cmd("set", c.k, v, 0))
\* A time in the past deletes, on a master; ExpireAt's time is absolute.
expireGenericCommand(s0, c) ==
    LET s == lookupKeyWrite(s0, c.k)
        when == IF c.op = "expireat" THEN c.n ELSE s.now + c.n
    IN  IF ~Has(s, c.k) THEN s
        ELSE IF when <= s.now /\ s.role = "master" THEN ExSay(dbDelete(s, c.k), Cmd("del", c.k, 0, 0))
        ELSE ExSay(setExpire(s, c.k, when), c)
persistCommand(s0, c) ==
    LET s == lookupKeyWrite(s0, c.k)
    IN  IF Has(s, c.k) /\ s.db[c.k].t # 0 THEN ExSay(removeExpire(s, c.k), c) ELSE s
\* The time goes with the value to key c.n.
renameGenericCommand(s0, c) ==
    LET s1 == lookupKeyWrite(s0, c.k)
        s == IF Has(s1, c.k) /\ c.k # c.n THEN lookupKeyWrite(s1, c.n) ELSE s1
    IN  IF ~Has(s1, c.k) \/ c.k = c.n THEN s ELSE ExSay([s EXCEPT !.db[c.n] = s.db[c.k], !.db[c.k] = NoKey], c)
delGenericCommand(s0, c) ==
    LET s == expireIfNeeded(s0, c.k) IN IF Has(s, c.k) THEN ExSay(dbDelete(s, c.k), c) ELSE s
getCommand(s, c) == expireIfNeeded(s, c.k)

ExCall(s, c) ==
    CASE c.op \in {"set", "setnx"} -> setGenericCommand(s, c)
      [] c.op = "incr" -> incrDecrCommand(s, c)
      [] c.op = "incrbyfloat" -> incrbyfloatCommand(s, c)
      [] c.op \in {"expire", "expireat"} -> expireGenericCommand(s, c)
      [] c.op = "persist" -> persistCommand(s, c)
      [] c.op = "rename" -> renameGenericCommand(s, c)
      [] c.op = "del" -> delGenericCommand(s, c)
      [] c.op = "get" -> getCommand(s, c)

-----------------------------------------------------------------------------
\* Times in the file are absolute: EXPIRE, and SET with a time in two commands.
feedAppendOnlyFile(c, now) ==
    CASE c.op = "expire" -> <<Cmd("expireat", c.k, 0, now + c.n)>>
      [] c.op \in {"set", "setnx"} /\ c.n # 0 -> <<Cmd("set", c.k, c.v, 0), Cmd("expireat", c.k, 0, now + c.n)>>
      [] OTHER -> <<c>>
\* What the file would be loaded as (a fresh server, later: at time ExMaxTime + 1).
Load(db, cs) == FoldLeft(LAMBDA d, c : ExCall(ExAt(d, ExMaxTime + 1, "loading"), c).db, db, cs)
FlattenFeed(out, now) == FoldLeft(LAMBDA a, c : a \o feedAppendOnlyFile(c, now), <<>>, out)

ExCommit(s) ==
    /\ exMaster' = s.db
    /\ exLink' = exLink \o s.out
    /\ exAof' = Load(exAof, FlattenFeed(s.out, exNow))

-----------------------------------------------------------------------------
ExInit == /\ exNow = 1 /\ exMaster = [k \in ExKeys |-> NoKey] /\ exAof = [k \in ExKeys |-> NoKey]
          /\ exReplica = [k \in ExKeys \cup ExOwn |-> NoKey] /\ exLink = <<>> /\ exTracked = {}
          /\ exRead = [how |-> "none", v |-> 0, due |-> FALSE] /\ exRewritten = {}
          /\ \E st \in ExStarts : exMenu = st.menu /\ exBudget = st.budget

ExCmds(keys) ==
    {Cmd("set", k, 1, n) : k \in keys, n \in {0, 1}} \cup {Cmd("setnx", k, 2, n) : k \in keys, n \in {0, 2}}
    \cup {Cmd(op, k, 0, 1) : op \in {"incr", "incrbyfloat"}, k \in keys} \cup {Cmd("expire", k, 0, n) : k \in keys, n \in {-1, 1}}
    \cup {Cmd(op, k, 0, 0) : op \in {"persist", "del", "get"}, k \in keys} \cup {Cmd("rename", k, 0, n) : k, n \in keys}

ExTick == /\ exNow < ExMaxTime /\ exMenu # {}
          /\ exNow' = exNow + 1
          /\ UNCHANGED <<exMaster, exAof, exReplica, exLink, exTracked, exRead, exRewritten, exMenu, exBudget>>

\* The keys whose time only the master still knows, after command c took effect or not.
RewrittenAfter(c, s) ==
    LET effect == s.out # <<>> /\ Last(s.out) = c
        lost == IF c.op = "incrbyfloat" THEN exRewritten \cup {c.k}
                ELSE IF ~effect \/ c.op = "incr" THEN exRewritten
                ELSE IF c.op = "rename" THEN (exRewritten \ {c.k, c.n}) \cup {x \in {c.n} : c.k \in exRewritten}
                ELSE exRewritten \ {c.k}
    IN  {k \in lost : s.db[k].t # 0}

\* A client's command on the master.
ExClient == exBudget.master > 0 /\ Len(exLink) < ExLinkMax /\ \E c \in ExCmds(ExKeys) :
    LET s == ExCall(ExAt(exMaster, exNow, "master"), c)
    IN  /\ c.op \in exMenu /\ s.db[c.k].v <= ExMaxVal
        /\ ExCommit(s)
        /\ exRewritten' = RewrittenAfter(c, s)
        /\ exRead' = [how |-> IF c.op = "get" THEN "master" ELSE "none", v |-> IF c.op = "get" THEN s.db[c.k].v ELSE 0, due |-> Due(exMaster[c.k], exNow)]
        /\ exBudget' = [exBudget EXCEPT !.master = @ - 1]
        /\ UNCHANGED <<exNow, exReplica, exTracked, exMenu>>

activeExpireCycleTryExpire(s, k) == IF Due(s.db[k], s.now) THEN dbDelete(propagateExpire(s, k), k) ELSE s
\* Some of the keys with a time are drawn.
activeExpireCycle == \E ks \in SUBSET {k \in ExKeys : Due(exMaster[k], exNow)} :
    /\ ks # {} /\ "active" \in exMenu /\ Len(exLink) < ExLinkMax
    /\ ExCommit(FoldLeft(activeExpireCycleTryExpire, ExAt(exMaster, exNow, "master"), SetToSeq(ks)))
    /\ UNCHANGED <<exNow, exReplica, exTracked, exRead, exRewritten, exMenu, exBudget>>

\* The replica executes the next command of its master.
ExReplicate == /\ exLink # <<>>
    /\ exReplica' = ExCall(ExAt(exReplica, exNow, "replica"), Head(exLink)).db
    /\ exLink' = Tail(exLink)
    /\ UNCHANGED <<exNow, exMaster, exAof, exTracked, exRead, exRewritten, exMenu, exBudget>>

\* A client of a writable replica; setExpire remembers its keys with a time.
rememberSlaveKeyWithExpire(c, s) ==
    LET k == IF c.op = "rename" THEN c.n ELSE c.k IN IF s.out # <<>> /\ s.db[k].t # 0 /\ c.op \in {"set", "setnx", "expire", "rename"} THEN {k} ELSE {}
ExReplicaClient == exBudget.replica > 0 /\ \E c \in ExCmds(ExOwn) :
    LET s == ExCall(ExAt(exReplica, exNow, "replica"), c)
    IN  /\ c.op \in exMenu \ {"incrbyfloat", "get"} /\ s.db[c.k].v <= ExMaxVal
        /\ exReplica' = s.db /\ exTracked' = exTracked \cup rememberSlaveKeyWithExpire(c, s)
        /\ exBudget' = [exBudget EXCEPT !.replica = @ - 1]
        /\ UNCHANGED <<exNow, exMaster, exAof, exLink, exRead, exRewritten, exMenu>>

Forgotten(k, db) == IF db[k].t = 0 \/ Due(db[k], exNow) THEN {k} ELSE {}
\* Keys are drawn until four of them cannot be expired, time is up or none is left.
expireSlaveKeys == \E ks \in SUBSET exTracked :
    /\ exReplica' = [k \in DOMAIN exReplica |-> IF k \in ks /\ Due(exReplica[k], exNow) THEN NoKey ELSE exReplica[k]]
    /\ exTracked' = exTracked \ UNION {Forgotten(k, exReplica) : k \in ks}
    /\ <<exReplica, exTracked>>' # <<exReplica, exTracked>>
    /\ UNCHANGED <<exNow, exMaster, exAof, exLink, exRead, exRewritten, exMenu, exBudget>>

\* Reads on the replica: by a command that only reads, by EXISTS, and by a script,
\* whose command is EVAL and so not marked as one that only reads.
lookupKeyRead(db, k, how) == IF how = "get" /\ Due(db[k], exNow) THEN 0 ELSE db[k].v
ExReplicaRead == \E k \in ExKeys, how \in {"get", "exists", "eval"} :
    /\ "read" \in exMenu
    /\ exRead' = [how |-> how, v |-> lookupKeyRead(exReplica, k, how), due |-> Due(exReplica[k], exNow)]
    /\ UNCHANGED <<exNow, exMaster, exAof, exReplica, exLink, exTracked, exRewritten, exMenu, exBudget>>

ExNext == \/ ExTick \/ ExClient \/ activeExpireCycle \/ ExReplicate \/ ExReplicaClient \/ expireSlaveKeys \/ ExReplicaRead

-----------------------------------------------------------------------------
\* Once it has executed what was sent, the replica has the values of its master and
\* times no earlier, however long commands were under way and whatever expired
\* on either side meanwhile; but for keys whose time a rewritten command lost
\* (expireIfNeeded, propagateExpire, expireGenericCommand).
ReplicaKeepsKeys == exLink = <<>> => \A k \in ExKeys :
    /\ exReplica[k].v = exMaster[k].v
    /\ k \notin exRewritten => /\ (exReplica[k].t = 0) = (exMaster[k].t = 0)
                               /\ exReplica[k].t >= exMaster[k].t

\* Loaded at any later time, the append only file gives the master's keys with the same
\* absolute times; but for those keys (feedAppendOnlyFile, catAppendOnlyExpireAtCommand).
AofKeepsTimes == \A k \in ExKeys : exAof[k].v = exMaster[k].v /\ (k \notin exRewritten => exAof[k].t = exMaster[k].t)

\* A read never gives a value past its time: on the master, or by a command that
\* only reads on a replica whose master is late to tell (lookupKeyReadWithFlags).
ExpiredNotRead == exRead.how \in {"master", "get"} /\ exRead.due => exRead.v = 0

\* A key with a time that a client gave it on a writable replica stays on the
\* list of those to expire, through renames and new times, until it is gone
\* (setExpire, rememberSlaveKeyWithExpire, expireSlaveKeys).
OwnKeysTracked == \A k \in ExOwn : exReplica[k].t # 0 => k \in exTracked

\* After INCRBYFLOAT, which is replicated as a SET "to make sure that differences in float
\* precision or formatting will not create differences in replicas or after an AOF restart"
\* (incrbyfloatCommand), a key has a time in the file if and only if it has one on the master.
FloatKeepsTime == \A k \in ExKeys : (exAof[k].t = 0) = (exMaster[k].t = 0)

\* "this function also returns NULL is the key is logically expired but still existing,
\* in case this is a slave" (lookupKeyReadWithFlags), whoever reads.
ReplicaHidesExpired == exRead.due => exRead.v = 0

=============================================================================
