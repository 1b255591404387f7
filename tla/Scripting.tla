----------------------------- MODULE Scripting -----------------------------
(***************************************************************************)
(* Scripts (scripting.c) and how they reach the replica and the append only file:*)
(* whole, as EVAL or by their hash where the other side knows them, or as the    *)
(* commands they made.  A script is a sequence of steps; at a "slow" one it may   *)
(* exceed lua-time-limit, and others may have it killed.                         *)
(***************************************************************************)
EXTENDS Integers, Sequences, FiniteSets, SequencesExt

CONSTANTS ScBodies,      \* name -> steps
          ScCacheSize,   \* repl_scriptcache_size
          ScLinkMax, ScMaxVal,
          ScStarts       \* [menu, budget]

VARIABLES scData, scReplica,                \* the keys 1 (counted up) and 2 (given a random value)
          scKnown, scRepKnown,              \* lua_scripts of the master, of the replica
          scAof,                            \* scripts a load of the file knows: [now, rewrite, on]
          scCache,                          \* the replication script cache, newest first
          scLink, scRepTx,                  \* commands under way; MULTI open on the replica: its queue
          scRun,                            \* the script in execution
          scLast,                           \* how the last one ended: [killed, wrote]
          scStates,                         \* datasets between commands
          scSeen,                           \* what went wrong or was special: flags
          scMenu, scBudget
scVars == <<scData, scReplica, scKnown, scRepKnown, scAof, scCache, scLink, scRepTx, scRun, scLast, scStates, scSeen, scMenu, scBudget>>

NotRunning == [on |-> FALSE, s |-> "", pc |-> 0, sha |-> FALSE, tx |-> FALSE, reg |-> 0, oom |-> FALSE, random |-> FALSE, write |-> FALSE, cmds |-> FALSE,
               repl |-> TRUE, multi |-> FALSE, timedout |-> FALSE, err |-> "", data |-> <<0, 0>>, out |-> <<>>]
ScCmd(op, v) == [op |-> op, s |-> "", v |-> v]
ScOf(op, s) == [op |-> op, s |-> s, v |-> 0]

\* Whether a write is refused: after a random command, or for want of memory if it is the
\* first.
WriteRefused(r, op, role) ==
    IF r.random /\ ~r.cmds THEN "random"
    ELSE IF role = "master" /\ r.oom /\ ~r.write THEN "oom" ELSE ""
EmitMulti(r) == IF r.cmds /\ ~r.multi /\ r.repl THEN [r EXCEPT !.multi = TRUE, !.out = Append(@, ScCmd("multi", 0))] ELSE r
luaRedisGenericCommand(r, op, role) ==
    LET refused == WriteRefused(r, op, role)
        w == EmitMulti([r EXCEPT !.write = TRUE])
        data == IF op = "write" THEN [w.data EXCEPT ![1] = @ + 1] ELSE [w.data EXCEPT ![2] = r.reg]
        cmd == IF op = "write" THEN ScCmd("incr", 0) ELSE ScCmd("set", r.reg)
    IN  IF op = "rand" THEN [r EXCEPT !.random = TRUE]
        ELSE IF refused # "" THEN [r EXCEPT !.err = refused]
        ELSE [w EXCEPT !.data = data, !.out = IF w.cmds /\ w.repl THEN Append(@, cmd) ELSE @]
luaRedisReplicateCommandsCommand(r) == IF r.write THEN r ELSE [r EXCEPT !.cmds = TRUE]
luaRedisSetReplCommand(r, on) == IF r.cmds THEN [r EXCEPT !.repl = on] ELSE [r EXCEPT !.err = "set_repl"]

\* Runs on until the script ends, fails, or is at a slow step (of a master).
RECURSIVE RunOn(_, _)
RunOn(r, role) ==
    LET body == ScBodies[r.s]
        op == body[r.pc]
        next == CASE op \in {"write", "writereg", "rand"} -> luaRedisGenericCommand(r, op, role)
                  [] op = "effects" -> luaRedisReplicateCommandsCommand(r)
                  [] op = "norepl" -> luaRedisSetReplCommand(r, FALSE)
                  [] op = "slow" -> r
    IN  IF r.pc > Len(body) \/ r.err # "" \/ (op = "slow" /\ role = "master") THEN r
        ELSE RunOn(IF next.err # "" THEN next ELSE [next EXCEPT !.pc = @ + 1], role)
Ended(r) == r.err # "" \/ r.pc > Len(ScBodies[r.s])

-----------------------------------------------------------------------------
replicationScriptCacheAdd(s) == SubSeq(<<s>> \o scCache, 1, IF Len(scCache) = ScCacheSize THEN ScCacheSize ELSE Len(scCache) + 1)
replicationScriptCacheFlush == scCache' = <<>>

\* What the file learns from the commands appended to it.
AofLearns(known, cs) == FoldLeft(LAMBDA k, c : IF c.op \in {"eval", "load"} THEN k \cup {c.s} ELSE IF c.op = "flush" THEN {} ELSE k, known, cs)
ScPropagate(cs) ==
    /\ scLink' = scLink \o cs
    /\ scAof' = [scAof EXCEPT !.now = AofLearns(@, cs), !.rewrite = AofLearns(@, cs)]
AofMisses(cs) == \E c \in ToSet(cs) : c.op = "evalsha" /\ (c.s \notin scAof.now \/ (scAof.on /\ c.s \notin scAof.rewrite))

\* The script of a client is over: what is propagated.
EvalPropagated(r) ==
    IF r.cmds THEN [cs |-> IF r.multi THEN <<ScCmd("exec", 0)>> ELSE <<>>, forced |-> FALSE]
    ELSE IF r.sha /\ r.s \notin ToSet(scCache) THEN [cs |-> <<ScOf("eval", r.s)>>, forced |-> TRUE]
    ELSE IF r.data = scData THEN [cs |-> <<>>, forced |-> FALSE]
    ELSE [cs |-> <<ScOf(IF r.sha THEN "evalsha" ELSE "eval", r.s)>>, forced |-> FALSE]
evalGenericCommandEnds(r) ==
    LET p == EvalPropagated(r)
        cs == r.out \o p.cs \o (IF r.tx THEN <<ScCmd("incr", 0), ScCmd("exec", 0)>> ELSE <<>>)
        data == IF r.tx THEN [r.data EXCEPT ![1] = @ + 1] ELSE r.data
    IN  /\ ScPropagate(cs)
        /\ scCache' = IF p.forced THEN replicationScriptCacheAdd(r.s) ELSE scCache
        /\ scData' = data /\ scStates' = scStates \cup {data}
        /\ scSeen' = scSeen \cup (IF p.forced /\ r.err \in {"killed", "oom"} THEN {"aborted"} ELSE {})
                            \cup (IF r.tx /\ r.multi THEN {"nested"} ELSE {}) \cup (IF AofMisses(cs) THEN {"aof"} ELSE {})
                            \cup (IF r.cmds /\ ~r.repl THEN {"norepl"} ELSE {})
        /\ scLast' = [killed |-> r.err = "killed", wrote |-> r.data # scData]
        /\ scRun' = NotRunning
ScContinue(r) ==
    IF Ended(r) THEN evalGenericCommandEnds(r)
    ELSE scRun' = r /\ UNCHANGED <<scData, scAof, scCache, scLink, scLast, scStates, scSeen>>

-----------------------------------------------------------------------------
ScInit == /\ scData = <<0, 0>> /\ scReplica = <<0, 0>> /\ scKnown = {} /\ scRepKnown = {} /\ scAof = [now |-> {}, rewrite |-> {}, on |-> FALSE]
          /\ scCache = <<>> /\ scLink = <<>> /\ scRepTx = <<>> /\ scRun = NotRunning /\ scLast = [killed |-> FALSE, wrote |-> FALSE]
          /\ scStates = {<<0, 0>>} /\ scSeen = {} /\ \E st \in ScStarts : scMenu = st.menu /\ scBudget = st.budget

Idle(op) == ~scRun.on /\ op \in scMenu /\ scBudget > 0 /\ Len(scLink) < ScLinkMax /\ scBudget' = scBudget - 1 /\ UNCHANGED scMenu

\* EVAL or EVALSHA, by itself or before a write in a MULTI.
evalGenericCommand == \E s \in DOMAIN ScBodies, sha, tx, oom \in BOOLEAN, reg \in {1, 2} :
    LET r == [NotRunning EXCEPT !.on = TRUE, !.s = s, !.pc = 1, !.sha = sha, !.tx = tx, !.reg = reg, !.oom = oom,
                                !.data = scData, !.out = IF tx THEN <<ScCmd("multi", 0)>> ELSE <<>>]
    IN  /\ Idle("eval") /\ s \in scMenu /\ (tx => "tx" \in scMenu) /\ (oom => "oom" \in scMenu) /\ scData[1] < ScMaxVal
        /\ (reg = 2 => "rand" \in ToSet(ScBodies[s])) /\ (sha => s \in scKnown)
        /\ scKnown' = scKnown \cup {s}
        /\ ScContinue(RunOn(r, "master"))
        /\ UNCHANGED <<scReplica, scRepKnown, scRepTx>>

\* The slow step ends; or it takes longer than the limit, once.
SlowStepEnds == /\ scRun.on
                /\ ScContinue(RunOn([scRun EXCEPT !.pc = @ + 1], "master"))
                /\ UNCHANGED <<scReplica, scKnown, scRepKnown, scRepTx, scMenu, scBudget>>
luaMaskCountHook == /\ scRun.on /\ ~scRun.timedout
                    /\ scRun' = [scRun EXCEPT !.timedout = TRUE]
                    /\ UNCHANGED <<scData, scReplica, scKnown, scRepKnown, scAof, scCache, scLink, scRepTx, scLast, scStates, scSeen, scMenu, scBudget>>
\* SCRIPT KILL: the hook raises the error when the events are processed.
Killable(r) == ~r.write
scriptKill == /\ scRun.timedout /\ Killable(scRun)
              /\ ScContinue([scRun EXCEPT !.err = "killed"])
              /\ UNCHANGED <<scReplica, scKnown, scRepKnown, scRepTx, scMenu, scBudget>>

scriptLoad == \E s \in DOMAIN ScBodies :
    /\ Idle("load") /\ s \in scMenu
    /\ scKnown' = scKnown \cup {s} /\ ScPropagate(<<ScOf("load", s)>>)
    /\ UNCHANGED <<scData, scReplica, scRepKnown, scCache, scRepTx, scRun, scLast, scStates, scSeen>>
scriptFlush == /\ Idle("flush") /\ scKnown' = {} /\ replicationScriptCacheFlush /\ ScPropagate(<<ScOf("flush", "")>>)
               /\ UNCHANGED <<scData, scReplica, scRepKnown, scRepTx, scRun, scLast, scStates, scSeen>>

-----------------------------------------------------------------------------
\* The replica executes the next command of the link.
RunWhole(s, data) == RunOn([NotRunning EXCEPT !.s = s, !.pc = 1, !.reg = 1, !.data = data], "replica").data
ReplicaDoes(st, c) ==
    CASE c.op = "eval" -> [st EXCEPT !.known = @ \cup {c.s}, !.data = RunWhole(c.s, @)]
      [] c.op = "evalsha" -> IF c.s \in st.known THEN [st EXCEPT !.data = RunWhole(c.s, @)] ELSE [st EXCEPT !.seen = @ \cup {"noscript"}]
      [] c.op = "load" -> [st EXCEPT !.known = @ \cup {c.s}]
      [] c.op = "flush" -> [st EXCEPT !.known = {}]
      [] c.op = "incr" -> [st EXCEPT !.data[1] = @ + 1]
      [] c.op = "set" -> [st EXCEPT !.data[2] = c.v]
      [] OTHER -> st
\* MULTI is not nested; what comes behind it is queued until EXEC.
ScReplicate == /\ scLink # <<>>
    /\ LET c == Head(scLink)
           st == [data |-> scReplica, known |-> scRepKnown, seen |-> scSeen]
           done == IF c.op = "exec" THEN FoldLeft(ReplicaDoes, st, scRepTx) ELSE ReplicaDoes(st, c)
           queue == scRepTx # <<>> /\ c.op # "exec"
           new == IF queue THEN st ELSE done
       IN  /\ scReplica' = new.data /\ scRepKnown' = new.known /\ scSeen' = new.seen
           /\ scRepTx' = IF c.op = "exec" THEN <<>> ELSE IF (queue /\ c.op # "multi") \/ (~queue /\ c.op = "multi") THEN Append(scRepTx, c) ELSE scRepTx
    /\ scLink' = Tail(scLink)
    /\ UNCHANGED <<scData, scKnown, scAof, scCache, scRun, scLast, scStates, scMenu, scBudget>>

\* A full resynchronization, and a restart of the replica that resynchronizes partially:
\* it has its dataset and offset from its file, and no scripts.
\* Mutant: the cache is kept.
CacheKept == UNCHANGED scCache
startBgsaveForReplication == replicationScriptCacheFlush
FullResync == /\ Idle("sync") /\ scReplica' = scData /\ scRepKnown' = {} /\ scLink' = <<>> /\ scRepTx' = <<>> /\ startBgsaveForReplication
              /\ UNCHANGED <<scData, scKnown, scAof, scRun, scLast, scStates, scSeen>>
ReplicaRestarts == /\ Idle("restart") /\ scRepTx = <<>> /\ scRepKnown' = {} /\ scSeen' = scSeen \cup {"restart"}
                   /\ UNCHANGED <<scData, scReplica, scKnown, scAof, scCache, scLink, scRepTx, scRun, scLast, scStates>>

\* The file is rewritten by a child; what is appended meanwhile goes to both.
ScRewriteStarts == /\ Idle("rewrite") /\ ~scAof.on
    /\ scAof' = [scAof EXCEPT !.on = TRUE, !.rewrite = {}] /\ replicationScriptCacheFlush
    /\ UNCHANGED <<scData, scReplica, scKnown, scRepKnown, scLink, scRepTx, scRun, scLast, scStates, scSeen>>
ScRewriteEnds == \E ok \in BOOLEAN :
    /\ scAof.on /\ ~scRun.on
    /\ scAof' = [scAof EXCEPT !.on = FALSE, !.now = IF ok THEN scAof.rewrite ELSE @, !.rewrite = {}]
    /\ UNCHANGED <<scData, scReplica, scKnown, scRepKnown, scCache, scLink, scRepTx, scRun, scLast, scStates, scSeen, scMenu, scBudget>>

ScNext == \/ evalGenericCommand \/ SlowStepEnds \/ luaMaskCountHook \/ scriptKill \/ scriptLoad \/ scriptFlush
          \/ ScReplicate \/ FullResync \/ ReplicaRestarts \/ ScRewriteStarts \/ ScRewriteEnds

-----------------------------------------------------------------------------
\* A hash is sent, and appended, only where its script is known: to the replica since its
\* last full resynchronization, to a load of the file and of the one being written
\* (the replication script cache and its flushes).
HashesKnown == "aof" \notin scSeen /\ ("restart" \notin scSeen => "noscript" \notin scSeen)

\* With nothing under way the replica has the dataset of the master, whether scripts
\* went whole or as commands, failed half way or called random commands; but for a
\* script aborted on the master only, or made not to be replicated (evalGenericCommand).
ScriptsAgree == scLink = <<>> /\ ~scRun.on /\ scSeen \cap {"aborted", "norepl", "noscript"} = {} => scReplica = scData

\* The replica never shows a part of what a script, or a MULTI around it, did
\* (execCommandPropagateMulti in luaRedisGenericCommand).
ReplicaAtBoundaries == scSeen \cap {"aborted", "norepl", "noscript", "nested"} = {} => scReplica \in scStates

\* A script that was killed had written nothing (scriptCommand, luaMaskCountHook).
KilledWroteNothing == scLast.killed => ~scLast.wrote

\* SCRIPT KILL is "to stop a script that did not yet called write commands" (redis.conf): what
\* it would have written later is not written on the replica either.
KilledEverywhere == scLink = <<>> /\ ~scRun.on => scReplica = scData

\* EXEC sees to it that "both the AOF and the replication link will have the same consistency
\* and atomicity guarantees" (execCommand), for scripts that replicate commands too.
ReplicaIsAtomic == scReplica \in scStates

\* "PSYNC does not require flushing" (replicationScriptCacheFlush).
PsyncKeepsScripts == "noscript" \notin scSeen

\* EVALSHA is sent and appended only where its script is known, the replica ends
\* with the dataset of its master and shows no part of a script, and SCRIPT KILL
\* stops only a script that wrote nothing, each on the condition stated above.
ScriptsReplicate ==
    /\ HashesKnown
    /\ ScriptsAgree
    /\ ReplicaAtBoundaries
    /\ KilledWroteNothing
=============================================================================
