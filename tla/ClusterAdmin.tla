---------------------------- MODULE ClusterAdmin ----------------------------
(***************************************************************************)
(* One hash slot moves from node "a" to node "b" while a client uses its    *)
(* keys (src/src/cluster.c): CLUSTER ADDSLOTS, DELSLOTS and SETSLOT,        *)
(* MIGRATE with lost replies, timeouts and the retry, the RESTORE on the    *)
(* target, the ASK and MOVED redirections of getNodeByQuery, the redirection *)
(* of a blocked client, and the check of the data at restart.               *)
(*                                                                         *)
(* MIGRATE blocks the source, not the target.  What it wrote to a           *)
(* connection it then gave up may still be executed by the target, until    *)
(* the source connects again.  All keys hash to the slot; the cluster state  *)
(* is ok.  A value is the number of the write that made it; 0 is no key.     *)
(***************************************************************************)
EXTENDS Integers, Sequences, FiniteSets

CONSTANTS SlotKeys,     \* keys of the slot
          MaxWrites,    \* writes of the client
          SlotStarts    \* initial values of slotBudget

VARIABLES slotCfg,    \* slotCfg[n]: node n's owner of the slot, migrating and importing state
          slotData,   \* slotData[n]: node n's keys
          migrate,    \* the MIGRATE command that node "a" is executing, or phase "none"
          restores,   \* RESTORE commands on the connection, and on one given up
          user,       \* the client: its command and the node it is sent to
          acked,      \* acked[k]: the last write of k that was acknowledged
          writes,     \* number of writes so far
          slotBudget  \* faults, deletions and manual repairs left; whether the client writes
                      \* several keys at once; history: nodes restarted, slots repaired

slotVars == <<slotCfg, slotData, migrate, restores, user, acked, writes, slotBudget>>

SlotNodes == {"a", "b"}
Peer(n) == IF n = "a" THEN "b" ELSE "a"
Busy(n) == n = "a" /\ migrate.phase # "none"
CountKeysInSlot(n) == Cardinality({k \in SlotKeys : slotData[n][k] # 0})
NoMigrate == [phase |-> "none", keys |-> <<>>, done |-> 0, error |-> FALSE, mayRetry |-> TRUE, replace |-> FALSE]
NoUser == [op |-> "none", keys |-> {}, at |-> "a", asking |-> FALSE]

-----------------------------------------------------------------------------
\* getNodeByQuery: the node to serve the command, and the kind of redirection.
getNodeByQuery(n, keys, asking) ==
    LET cfg == slotCfg[n]
        migrating == cfg.owner = n /\ cfg.migrating
        importing == ~ migrating /\ cfg.importing
        missing == \E k \in keys : slotData[n][k] = 0
    IN  CASE cfg.owner = "none" -> [node |-> "none", code |-> "DOWN_UNBOUND"]
          [] migrating /\ missing -> [node |-> Peer(n), code |-> "ASK"]
          [] importing /\ asking /\ missing /\ Cardinality(keys) > 1 -> [node |-> "none", code |-> "UNSTABLE"]
          [] importing /\ asking -> [node |-> n, code |-> "NONE"]
          [] OTHER -> [node |-> cfg.owner, code |-> IF cfg.owner = n THEN "NONE" ELSE "MOVED"]

\* The client issues a command, first to any node.
UserStarts ==
    /\ user.op = "none"
    /\ \E n \in SlotNodes, op \in {"GET", "SET", "DEL", "BLPOP"}, keys \in SUBSET SlotKeys \ {{}} :
           /\ Cardinality(keys) = 1 \/ (op = "SET" /\ slotBudget.multi)
           /\ op = "SET" => writes < MaxWrites
           /\ op = "DEL" => slotBudget.dels > 0
           /\ user' = [op |-> op, keys |-> keys, at |-> n, asking |-> FALSE]
    /\ UNCHANGED <<slotCfg, slotData, migrate, restores, acked, writes, slotBudget>>

\* The command is executed; a BLPOP that finds no key blocks the client.
Execute(n) ==
    CASE user.op = "SET" ->
           /\ slotData' = [slotData EXCEPT ![n] = [k \in SlotKeys |-> IF k \in user.keys THEN writes + 1 ELSE @[k]]]
           /\ acked' = [k \in SlotKeys |-> IF k \in user.keys THEN writes + 1 ELSE acked[k]]
           /\ writes' = writes + 1 /\ user' = NoUser /\ UNCHANGED slotBudget
      [] user.op = "DEL" ->
           /\ slotData' = [slotData EXCEPT ![n] = [k \in SlotKeys |-> IF k \in user.keys THEN 0 ELSE @[k]]]
           /\ acked' = [k \in SlotKeys |-> IF k \in user.keys THEN 0 ELSE acked[k]]
           /\ user' = NoUser /\ slotBudget' = [slotBudget EXCEPT !.dels = @ - 1] /\ UNCHANGED writes
      [] user.op = "BLPOP" /\ (\A k \in user.keys : slotData[n][k] = 0) ->
           user' = [user EXCEPT !.op = "blocked"] /\ UNCHANGED <<slotData, acked, writes, slotBudget>>
      [] OTHER -> user' = NoUser /\ UNCHANGED <<slotData, acked, writes, slotBudget>>

\* processCommand on the node the client sends to, and clusterRedirectClient:
\* the client follows ASK with ASKING, and gives up on an error.
UserCommand ==
    LET n == user.at
        r == getNodeByQuery(n, user.keys, user.asking)
    IN  /\ user.op \notin {"none", "blocked"} /\ ~ Busy(n)
        /\ IF r.code = "NONE" THEN Execute(n)
           ELSE /\ user' = IF r.node = "none" THEN NoUser
                           ELSE [user EXCEPT !.at = r.node, !.asking = (r.code = "ASK")]
                /\ UNCHANGED <<slotData, acked, writes, slotBudget>>
        /\ UNCHANGED <<slotCfg, migrate, restores>>

\* clusterRedirectBlockedClientIfNeeded, called by clientsCron.
RedirectBlocked ==
    LET cfg == slotCfg[user.at]
    IN  /\ user.op = "blocked" /\ ~ Busy(user.at)
        /\ cfg.owner # user.at /\ ~ cfg.importing
        /\ user' = IF cfg.owner = "none" THEN NoUser
                   ELSE [user EXCEPT !.op = "BLPOP", !.at = cfg.owner, !.asking = FALSE]
        /\ UNCHANGED <<slotCfg, slotData, migrate, restores, acked, writes, slotBudget>>

-----------------------------------------------------------------------------
\* MIGRATE on node "a": the keys that exist are sent as RESTORE commands.
MigrateStart ==
    /\ ~ Busy("a") /\ slotCfg["a"].owner = "a" /\ slotCfg["a"].migrating
    /\ \E replace \in BOOLEAN, keys \in SUBSET {k \in SlotKeys : slotData["a"][k] # 0} \ {{}} :
           \E order \in {s \in [1..Cardinality(keys) -> keys] : {s[j] : j \in DOMAIN s} = keys} :
               /\ migrate' = [NoMigrate EXCEPT !.phase = "reading", !.keys = order, !.replace = replace]
               /\ restores' = [conn |-> [j \in DOMAIN order |->
                                  [key |-> order[j], val |-> slotData["a"][order[j]], replace |-> replace]],
                               replies |-> <<>>, late |-> <<>>]
    /\ UNCHANGED <<slotCfg, slotData, user, acked, writes, slotBudget>>

\* restoreCommand on node "b".  RESTORE-ASKING passes getNodeByQuery while the
\* slot is being imported or already served.
RestoreResult(cmd) ==
    IF getNodeByQuery("b", {cmd.key}, TRUE).code # "NONE" \/ (~ cmd.replace /\ slotData["b"][cmd.key] # 0)
    THEN "error" ELSE "ok"

ApplyRestore(cmd) ==
    slotData' = IF RestoreResult(cmd) = "ok"
                THEN [slotData EXCEPT !["b"][cmd.key] = cmd.val] ELSE slotData

restoreCommand ==
    /\ restores.conn # <<>>
    /\ ApplyRestore(Head(restores.conn))
    /\ restores' = [restores EXCEPT !.conn = Tail(@), !.replies = Append(@, RestoreResult(Head(restores.conn)))]
    /\ UNCHANGED <<slotCfg, migrate, user, acked, writes, slotBudget>>

LateRestore ==
    /\ restores.late # <<>>
    /\ ApplyRestore(Head(restores.late))
    /\ restores' = [restores EXCEPT !.late = Tail(@)]
    /\ UNCHANGED <<slotCfg, migrate, user, acked, writes, slotBudget>>


\* The source reads a reply: the key is deleted if the target took it.
MigrateReply ==
    /\ migrate.phase = "reading" /\ restores.replies # <<>>
    /\ LET key == migrate.keys[migrate.done + 1]
           ok == Head(restores.replies) = "ok"
           last == migrate.done + 1 = Len(migrate.keys)
       IN  /\ slotData' = IF ok THEN [slotData EXCEPT !["a"][key] = 0] ELSE slotData
           /\ migrate' = IF last THEN NoMigrate
                         ELSE [migrate EXCEPT !.done = @ + 1, !.error = @ \/ ~ ok]
    /\ restores' = [restores EXCEPT !.replies = Tail(@)]
    /\ UNCHANGED <<slotCfg, user, acked, writes, slotBudget>>

\* A reply cannot be read.  The first one lost for another reason than a
\* timeout is retried once, on a new connection; otherwise the keys
\* acknowledged so far are gone and the others stay.
MigrateSocketError ==
    /\ migrate.phase = "reading" /\ slotBudget.faults > 0
    /\ \E timedout \in BOOLEAN :
           IF migrate.done = 0 /\ migrate.mayRetry /\ ~ timedout /\ ~ migrate.error
           THEN /\ migrate' = [migrate EXCEPT !.mayRetry = FALSE]
                /\ restores' = [conn |-> [j \in DOMAIN migrate.keys |->
                                   [key |-> migrate.keys[j], val |-> slotData["a"][migrate.keys[j]],
                                    replace |-> migrate.replace]],
                                replies |-> <<>>, late |-> <<>>]
           ELSE /\ migrate' = NoMigrate
                /\ restores' = [conn |-> <<>>, replies |-> <<>>, late |-> restores.conn]
    /\ slotBudget' = [slotBudget EXCEPT !.faults = @ - 1]
    /\ UNCHANGED <<slotCfg, slotData, user, acked, writes>>

-----------------------------------------------------------------------------
\* CLUSTER SETSLOT.  The operator opens the slot on the target before the
\* source, and assigns it once the source holds no key of it, unless the slot
\* was already reassigned by hand.
SetSlotImporting ==
    /\ slotCfg["b"].owner # "b" /\ ~ slotCfg["b"].importing
    /\ slotCfg' = [slotCfg EXCEPT !["b"].importing = TRUE]
    /\ UNCHANGED <<slotData, migrate, restores, user, acked, writes, slotBudget>>

SetSlotMigrating ==
    /\ ~ Busy("a") /\ slotCfg["a"].owner = "a" /\ ~ slotCfg["a"].migrating
    /\ slotCfg["b"].importing
    /\ slotCfg' = [slotCfg EXCEPT !["a"].migrating = TRUE]
    /\ UNCHANGED <<slotData, migrate, restores, user, acked, writes, slotBudget>>

\* SETSLOT NODE on node n, in favour of "b".
SetSlotNode(n) ==
    /\ ~ Busy(n)
    /\ \/ slotBudget.repaired
       \/ CountKeysInSlot("a") = 0 /\ (slotCfg["a"].migrating \/ slotCfg["a"].owner = "b")
    /\ slotCfg[n].owner = n => n = "b" \/ CountKeysInSlot(n) = 0
    /\ slotCfg' = [slotCfg EXCEPT
           ![n] = [owner |-> "b",
                   migrating |-> @.migrating /\ CountKeysInSlot(n) # 0,
                   importing |-> @.importing /\ n # "b",
                   bumped |-> @.bumped \/ (n = "b" /\ @.importing)]]
    /\ slotCfg' # slotCfg
    /\ UNCHANGED <<slotData, migrate, restores, user, acked, writes, slotBudget>>

\* "b" took a new configEpoch with the slot: its claim wins over that of "a",
\* which deletes the keys it still has (clusterUpdateSlotsConfigWith).
LearnClaim ==
    /\ slotCfg["b"].bumped /\ slotCfg["b"].owner = "b" /\ slotCfg["a"].owner # "b"
    /\ ~ Busy("a") /\ ~ slotCfg["a"].importing
    /\ slotCfg' = [slotCfg EXCEPT !["a"].owner = "b"]
    /\ slotData' = [slotData EXCEPT !["a"] = [k \in SlotKeys |-> 0]]
    /\ UNCHANGED <<migrate, restores, user, acked, writes, slotBudget>>

\* CLUSTER DELSLOTS and ADDSLOTS, as used to repair a cluster by hand.
Repair(n) ==
    /\ slotBudget.admin > 0 /\ ~ Busy(n)
    /\ \/ slotCfg[n].owner # "none" /\ slotCfg' = [slotCfg EXCEPT ![n].owner = "none", ![n].importing = FALSE]
       \/ slotCfg[n].owner = "none" /\ slotCfg' = [slotCfg EXCEPT ![n].owner = n, ![n].importing = FALSE]
    /\ slotBudget' = [slotBudget EXCEPT !.admin = @ - 1, !.repaired = TRUE, !.fresh = {}]
    /\ UNCHANGED <<slotData, migrate, restores, user, acked, writes>>

\* A restart from nodes.conf and the data file: verifyClusterConfigWithData.
VerifyConfig(cfg, n, keys) ==
    IF keys = 0 \/ cfg.owner = n \/ cfg.importing THEN cfg
    ELSE IF cfg.owner = "none" THEN [cfg EXCEPT !.owner = n]
    ELSE [cfg EXCEPT !.importing = TRUE]

RestartNode(n) ==
    /\ slotBudget.admin > 0 /\ ~ Busy(n)
    /\ slotCfg' = [slotCfg EXCEPT ![n] = VerifyConfig(@, n, CountKeysInSlot(n))]
    /\ slotBudget' = [slotBudget EXCEPT !.admin = @ - 1, !.fresh = @ \cup {n}]
    /\ user' = IF user.at = n THEN NoUser ELSE user
    /\ UNCHANGED <<slotData, migrate, restores, acked, writes>>

-----------------------------------------------------------------------------
SlotInit ==
    /\ slotCfg = [n \in SlotNodes |-> [owner |-> "a", migrating |-> FALSE, importing |-> FALSE, bumped |-> FALSE]]
    /\ slotData = [n \in SlotNodes |-> [k \in SlotKeys |-> IF n = "a" THEN 1 ELSE 0]]
    /\ migrate = NoMigrate
    /\ restores = [conn |-> <<>>, replies |-> <<>>, late |-> <<>>]
    /\ user = NoUser
    /\ acked = [k \in SlotKeys |-> 1] /\ writes = 1
    /\ slotBudget \in SlotStarts

SlotNext ==
    \/ UserStarts \/ UserCommand \/ RedirectBlocked
    \/ MigrateStart \/ restoreCommand \/ LateRestore \/ MigrateReply \/ MigrateSocketError
    \/ SetSlotImporting \/ SetSlotMigrating \/ LearnClaim
    \/ \E n \in SlotNodes : SetSlotNode(n) \/ Repair(n) \/ RestartNode(n)

-----------------------------------------------------------------------------
\* The value a client gets for k if it starts at node n and is not cut off by
\* a further step; 0 also if no node serves it.
ServedFrom(n, k) ==
    LET r == getNodeByQuery(n, {k}, FALSE)
        s == getNodeByQuery(r.node, {k}, r.code = "ASK")
    IN  IF r.code = "NONE" THEN slotData[n][k]
        ELSE IF s.code = "NONE" THEN slotData[r.node][k] ELSE -1

\* Whatever happens to MIGRATE, and whoever is asked first, the client is
\* served the last write that was acknowledged, or is not served, unless the
\* slot was reassigned by hand (getNodeByQuery, migrateCommand).
LastWriteIsServed ==
    \A n \in SlotNodes, k \in SlotKeys :
        migrate.phase = "none" /\ ~ slotBudget.repaired => ServedFrom(n, k) \in {acked[k], -1}

\* After a restart a node that holds keys of the slot serves or imports it
\* (verifyClusterConfigWithData: "data loaded from disk is in agreement with
\* the cluster configuration").
DataIsConfigured ==
    \A n \in slotBudget.fresh : CountKeysInSlot(n) # 0 =>
        slotCfg[n].owner = n \/ slotCfg[n].importing
\* A client that is blocked on a node that no longer serves the slot is not
\* left there (clusterRedirectBlockedClientIfNeeded), under the fairness of
\* clientsCron.
BlockedIsRedirected ==
    \A n \in SlotNodes : []<>~(/\ user.op = "blocked" /\ user.at = n /\ ~ Busy(n)
                               /\ slotCfg[n].owner # n /\ ~ slotCfg[n].importing)

-----------------------------------------------------------------------------
(***************************************************************************)
(* The manual failover of src/src/cluster.c: CLUSTER FAILOVER on a replica,  *)
(* the MFSTART packet that pauses the clients of its master, the PINGs that  *)
(* carry the offset of the paused master, the replica that catches up and    *)
(* asks for votes, and the deadlines of both sides.                          *)
(*                                                                         *)
(* The votes are one packet here (ClusterEpoch has the election).  The        *)
(* replica set its deadline before the master did, so it passes first.       *)
(* MfPrompt: packets and clusterCron are faster than the deadlines.  The       *)
(* replica notices its deadline before the one of the master passes, the PONG *)
(* of the new master arrives before that, an MFSTART under way arrives before *)
(* the master's clusterCron looks, and no packet outlives its attempt.        *)
(***************************************************************************)
CONSTANTS MfPrompt, MaxMfWrites, MaxMfAttempts

VARIABLES mfMaster,  \* master: offset, paused clients, mf_end set, its deadline passed
          mfSlave,   \* replica: offset, mf state, mf_master_offset, deadline passed, promoted
          mfNet,     \* packets under way
          mfLeft     \* writes and attempts left

mfVars == <<mfMaster, mfSlave, mfNet, mfLeft>>

\* resetManualFailover: on a master it also lets the clients go on.
resetMaster(m) == [m EXCEPT !.paused = @ /\ ~ m.mf, !.mf = FALSE, !.due = FALSE]
resetSlave(s) == [s EXCEPT !.mf = "none", !.masterOffset = 0, !.due = FALSE]

\* CLUSTER FAILOVER on the replica.
ClusterFailover ==
    /\ mfLeft.attempts > 0 /\ ~ mfSlave.promoted
    /\ mfSlave' = [resetSlave(mfSlave) EXCEPT !.mf = "started"]
    /\ mfNet' = (IF MfPrompt THEN {} ELSE mfNet) \cup {[type |-> "MFSTART", offset |-> 0]}
    /\ mfLeft' = [mfLeft EXCEPT !.attempts = @ - 1]
    /\ UNCHANGED mfMaster

ReceiveMFStart ==
    \E p \in mfNet :
        /\ p.type = "MFSTART" /\ ~ mfMaster.demoted
        /\ mfMaster' = [resetMaster(mfMaster) EXCEPT !.mf = TRUE, !.paused = TRUE]
        /\ mfNet' = mfNet \ {p}
        /\ UNCHANGED <<mfSlave, mfLeft>>

\* clusterCron of the master: PING the replica, with CLUSTERMSG_FLAG0_PAUSED.
PingPaused ==
    LET p == [type |-> "PAUSED", offset |-> mfMaster.offset]
    IN  /\ mfMaster.mf /\ mfMaster.paused /\ p \notin mfNet
        /\ mfNet' = mfNet \cup {p}
        /\ UNCHANGED <<mfMaster, mfSlave, mfLeft>>

\* clusterProcessPacket: only the first offset of an attempt is taken, and an
\* offset of zero counts as none.
ReceivePaused ==
    \E p \in mfNet :
        /\ p.type = "PAUSED"
        /\ mfSlave' = IF mfSlave.mf # "none" /\ mfSlave.masterOffset = 0
                      THEN [mfSlave EXCEPT !.masterOffset = p.offset] ELSE mfSlave
        /\ mfNet' = mfNet \ {p}
        /\ UNCHANGED <<mfMaster, mfLeft>>

\* clusterCron of the replica: manualFailoverCheckTimeout, then
\* clusterHandleManualFailover, then clusterHandleSlaveFailover, which asks
\* for the votes.
MfSlaveCron ==
    /\ ~ mfSlave.promoted /\ mfSlave.mf # "none"
    /\ IF mfSlave.due THEN mfSlave' = resetSlave(mfSlave) /\ UNCHANGED mfNet
       ELSE /\ mfSlave.mf = "started"
            /\ mfSlave.masterOffset # 0 /\ mfSlave.masterOffset = mfSlave.offset
            /\ mfSlave' = [mfSlave EXCEPT !.mf = "canStart"]
            /\ mfNet' = mfNet \cup {[type |-> "VOTES", offset |-> 0]}
    /\ UNCHANGED <<mfMaster, mfLeft>>

\* The quorum is reached: clusterBeforeSleep, which looks at mf_end and
\* mf_can_start but not at the clock, runs clusterHandleSlaveFailover.
ReceiveVotes ==
    \E p \in mfNet :
        /\ p.type = "VOTES"
        /\ mfSlave' = IF mfSlave.mf = "canStart"
                      THEN [resetSlave(mfSlave) EXCEPT !.promoted = TRUE] ELSE mfSlave
        /\ mfNet' = mfNet \ {p}
        /\ UNCHANGED <<mfMaster, mfLeft>>

\* The old master learns of it, by a PONG: clusterSetMaster.
OldMasterDemoted ==
    /\ mfSlave.promoted /\ ~ mfMaster.demoted
    /\ mfMaster' = [resetMaster(mfMaster) EXCEPT !.demoted = TRUE]
    /\ UNCHANGED <<mfSlave, mfNet, mfLeft>>

\* Mutant: the attempt ends and the clients stay paused.
CronLeavesPaused ==
    /\ mfMaster.mf /\ mfMaster.due
    /\ mfMaster' = [mfMaster EXCEPT !.mf = FALSE, !.due = FALSE]
    /\ UNCHANGED <<mfSlave, mfNet, mfLeft>>

MfMasterCron ==
    /\ mfMaster.mf /\ mfMaster.due
    /\ MfPrompt => \A p \in mfNet : p.type # "MFSTART"
    /\ mfMaster' = resetMaster(mfMaster)
    /\ UNCHANGED <<mfSlave, mfNet, mfLeft>>

\* mf_end passes: first the one of the replica.
MfDeadline ==
    \/ /\ mfSlave.mf # "none" /\ ~ mfSlave.due
       /\ mfSlave' = [mfSlave EXCEPT !.due = TRUE]
       /\ UNCHANGED <<mfMaster, mfNet, mfLeft>>
    \/ /\ mfMaster.mf /\ ~ mfMaster.due
       /\ mfSlave.due \/ mfSlave.mf = "none"
       /\ MfPrompt => mfSlave.mf = "none" /\ ~ mfSlave.promoted
       /\ mfMaster' = [mfMaster EXCEPT !.due = TRUE]
       /\ UNCHANGED <<mfSlave, mfNet, mfLeft>>

\* A client's write, which is not executed while clients are paused.
MfWrite ==
    /\ mfLeft.writes > 0 /\ ~ mfMaster.paused /\ ~ mfMaster.demoted
    /\ mfMaster' = [mfMaster EXCEPT !.offset = @ + 1]
    /\ mfLeft' = [mfLeft EXCEPT !.writes = @ - 1]
    /\ UNCHANGED <<mfSlave, mfNet>>

MfReplicate ==
    /\ ~ mfSlave.promoted /\ mfSlave.offset < mfMaster.offset
    /\ mfSlave' = [mfSlave EXCEPT !.offset = @ + 1]
    /\ UNCHANGED <<mfMaster, mfNet, mfLeft>>

MfInit ==
    /\ mfMaster = [offset |-> 1, paused |-> FALSE, mf |-> FALSE, due |-> FALSE, demoted |-> FALSE]
    /\ mfSlave = [offset |-> 0, mf |-> "none", masterOffset |-> 0, due |-> FALSE, promoted |-> FALSE]
    /\ mfNet = {}
    /\ mfLeft = [writes |-> MaxMfWrites, attempts |-> MaxMfAttempts]

MfNext ==
    \/ ClusterFailover \/ ReceiveMFStart \/ PingPaused \/ ReceivePaused
    \/ MfSlaveCron \/ ReceiveVotes \/ OldMasterDemoted \/ MfMasterCron \/ MfDeadline
    \/ MfWrite \/ MfReplicate

-----------------------------------------------------------------------------
\* The replica that takes over has every write the master executed: "the goal
\* of the manual failover is to perform a fast failover without data loss".
NoWriteLost == mfSlave.promoted => mfSlave.offset = mfMaster.offset

\* The clients of the master are not left paused: an attempt that failed ends
\* on both sides.
PauseEnds == []<>~(mfMaster.paused /\ ~ mfMaster.demoted)

\* A client blocked on a slot that moved is redirected
\* (clusterRedirectBlockedClientIfNeeded), and the pause of a manual failover
\* that failed ends (manualFailoverCheckTimeout).
ClusterProceeds ==
    /\ BlockedIsRedirected
    /\ PauseEnds

=============================================================================
