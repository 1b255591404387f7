------------------------------ MODULE Modules ------------------------------
(***************************************************************************)
(* Module commands (module.c): clients blocked on behalf of a module, the  *)
(* threads of the module that answer them, the main thread that serves     *)
(* what the threads hand over before it sleeps, the lock (GIL) that keeps  *)
(* the threads out of the dataset while the main thread is awake, and what *)
(* commands and callbacks replicate.                                       *)
(*                                                                         *)
(* The dataset is one counter.  A replica executes what is propagated at   *)
(* once; also is server.also_propagate as it stands outside of call().     *)
(***************************************************************************)
EXTENDS Integers, Sequences, FiniteSets, FiniteSetsExt, SequencesExt

CONSTANTS MoClients, MoPipe, \* the clients; the bytes that fit the pipe
          MoStarts           \* set of starts, see MoInit

VARIABLES mo, moMenu
moVars == <<mo, moMenu>>

NoOne == [c |-> "none", gen |-> 0]
NewConn(gen) == [gen |-> gen, blocked |-> FALSE, handle |-> 0, cmd |-> "none", aborted |-> FALSE, replies |-> 0, closing |-> FALSE]

----------------------------------------------------------------------------
\* Replication.  The replica's connection queues after MULTI.

Applied(r, op) ==
    CASE op = "multi" -> [r EXCEPT !.multi = TRUE]
      [] op = "exec"  -> IF r.multi THEN [data |-> r.data + r.queued, multi |-> FALSE, queued |-> 0] ELSE r
      [] op = "incr"  -> IF r.multi THEN [r EXCEPT !.queued = @ + 1] ELSE [r EXCEPT !.data = @ + 1]
modulePropagate(m, op) == [m EXCEPT !.rep = Applied(@, op)]

\* A context: the server, whether MULTI was emitted, the operations that
\* follow (alsoPropagate), and whether it is one of a thread.
Ctx(m, safe) == [m |-> m, multi |-> FALSE, also |-> <<>>, safe |-> safe]

moduleReplicateMultiIfNeeded(x) ==
    IF x.multi \/ x.safe THEN x ELSE [x EXCEPT !.m = modulePropagate(@, "multi"), !.multi = TRUE]

RM_Call(x, replicate) ==
    LET y == IF replicate THEN moduleReplicateMultiIfNeeded(x) ELSE x
        done == [y.m EXCEPT !.data = @ + 1]
    IN  [y EXCEPT !.m = IF replicate THEN modulePropagate(done, "incr") ELSE done]
RM_Replicate(x) == [moduleReplicateMultiIfNeeded(x) EXCEPT !.also = Append(@, "incr")]
RM_ReplicateVerbatim(x) == [x EXCEPT !.also = Append(@, "incr")]

Api(x, op) ==
    CASE op = "call"      -> RM_Call(x, FALSE)
      [] op = "call!"     -> RM_Call(x, TRUE)
      [] op = "replicate" -> RM_Replicate(x)
      [] op = "verbatim"  -> RM_ReplicateVerbatim(x)

moduleHandlePropagationAfterCommandCallback(x) == IF x.multi THEN [x EXCEPT !.also = Append(@, "exec")] ELSE x

Callback(m, body) == moduleHandlePropagationAfterCommandCallback(FoldLeft(Api, Ctx(m, FALSE), body))

\* A command of a module under call(), which propagates what is left over; a
\* callback outside of call() leaves it in the server's array.
RedisModuleCommandDispatcher(m, body) ==
    LET x == Callback(m, body) IN FoldLeft(modulePropagate, x.m, x.also)
ReplyCallback(m, body) ==
    LET x == Callback(m, body) IN [x.m EXCEPT !.also = @ \o x.also]

----------------------------------------------------------------------------
\* Blocked clients.

RM_BlockClient(m, c, how) ==
    LET bc == [client |-> [c |-> c, gen |-> m.cl[c].gen], cb |-> how.cb, body |-> how.body, acc |-> 0, script |-> how.script, freed |-> FALSE]
    IN  [m EXCEPT !.bcs = Append(@, bc),
                  !.cl[c].handle = Len(m.bcs) + 1, !.cl[c].blocked = TRUE, !.blocked = @ + 1]

unblockClientFromModule(m, c) == [m EXCEPT !.bcs[m.cl[c].handle].client = NoOne]

moduleUnblockClient(m, c) ==
    LET u == unblockClientFromModule(m, c)
    IN  [u EXCEPT !.cl[c].blocked = FALSE, !.cl[c].handle = 0, !.blocked = @ - 1]

Replied(m, c, n) == [m EXCEPT !.cl[c].replies = @ + n]

\* One turn of the loop of moduleHandleBlockedClients, for handle h.
ServeHandle(m, h) ==
    LET bc == m.bcs[h]
        c == bc.client.c
        answered == IF bc.cb THEN Replied(ReplyCallback(m, bc.body), c, 1) ELSE m
        glued == Replied(answered, c, bc.acc)
    IN  [(IF bc.client # NoOne THEN moduleUnblockClient(glued, c) ELSE m) EXCEPT !.bcs[h].freed = TRUE]

moduleFreeClient(m, c) ==
    [(IF m.cl[c].blocked THEN moduleUnblockClient(m, c) ELSE m) EXCEPT !.cl[c] = NewConn(@.gen + 1)]

----------------------------------------------------------------------------
MoInit ==
    \E s \in MoStarts :
        /\ moMenu = s
        /\ mo = [cl |-> [c \in MoClients |-> NewConn(0)], bcs |-> <<>>, list |-> <<>>, pipe |-> 0, blocked |-> 0,
                 gil |-> 0, phase |-> "run", loaded |-> FALSE, data |-> 0, also |-> <<>>,
                 rep |-> [data |-> 0, multi |-> FALSE, queued |-> 0]]

MoSpend(what) ==
    /\ moMenu.budget[what] > 0
    /\ moMenu' = [moMenu EXCEPT !.budget[what] = @ - 1]

Main == 0
Awake == mo.phase \in {"run", "tail"}
MoAtRest(c) == ~mo.cl[c].blocked /\ ~mo.cl[c].closing

MoLoad == mo.phase = "run" /\ ~mo.loaded /\ mo' = [mo EXCEPT !.loaded = TRUE]
MoUnload ==
    /\ mo.phase = "run" /\ mo.loaded
    /\ moMenu.busy \/ \A h \in DOMAIN mo.bcs : mo.bcs[h].freed
    /\ mo' = [mo EXCEPT !.loaded = FALSE]

\* A command of a client; BLOCK twice is a transaction of two of them.
MoCommand(c, body) ==
    /\ Awake /\ mo.loaded /\ MoAtRest(c)
    /\ mo' = [RedisModuleCommandDispatcher(mo, body) EXCEPT !.cl[c].cmd = "plain", !.cl[c].replies = 1]
MoBlock(c, hows) ==
    /\ Awake /\ mo.loaded /\ MoAtRest(c)
    /\ LET fresh == [mo EXCEPT !.cl[c].cmd = "block", !.cl[c].replies = 0, !.cl[c].aborted = FALSE]
       IN  mo' = FoldLeft(LAMBDA m, how : RM_BlockClient(m, c, how), fresh, hows)

\* replyToBlockedClientTimedOut, then moduleUnblockClient.
MoTimeout(c) ==
    /\ mo.phase = "run" /\ mo.cl[c].blocked
    /\ mo' = moduleUnblockClient(Replied(mo, c, 1), c)
MoDisconnect(c) == mo.phase = "run" /\ mo' = moduleFreeClient(mo, c)

moduleDisconnectBlocked ==
    /\ mo.phase = "run"
    /\ mo' = FoldSet(LAMBDA c, m : IF m.cl[c].blocked THEN [moduleUnblockClient(Replied(m, c, 1), c) EXCEPT !.cl[c].closing = TRUE] ELSE m,
                     mo, MoClients)

\* beforeSleep: the pipe is emptied, the handles are served one by one with
\* the mutex released in between, then come the unblocked clients, then the
\* lock is released.
MoBeforeSleep == mo.phase = "run" /\ mo' = [mo EXCEPT !.phase = "handle", !.pipe = 0]
MoServe ==
    /\ mo.phase = "handle" /\ mo.list # <<>>
    /\ mo' = [ServeHandle(mo, Head(mo.list)) EXCEPT !.list = Tail(@)]
MoServed == mo.phase = "handle" /\ mo.list = <<>> /\ mo' = [mo EXCEPT !.phase = "tail"]
MoSleep == mo.phase = "tail" /\ mo' = [mo EXCEPT !.phase = "sleep", !.gil = IF mo.loaded THEN -1 ELSE @]

afterSleep ==
    /\ mo.phase = "sleep"
    /\ mo.loaded => mo.gil = -1
    /\ mo' = [mo EXCEPT !.phase = "run", !.gil = IF mo.loaded THEN Main ELSE @]

\* A step of the thread that works for handle h.
RM_UnblockClient(m, h) ==
    [m EXCEPT !.list = Append(@, h), !.pipe = IF @ < MoPipe THEN @ + 1 ELSE @]
RM_AbortBlock(m, h) ==
    LET c == m.bcs[h].client.c
        noted == IF m.bcs[h].client = NoOne THEN m ELSE [m EXCEPT !.cl[c].aborted = TRUE]
    IN  RM_UnblockClient([noted EXCEPT !.bcs[h].cb = FALSE], h)

ThreadStep(h) ==
    LET bc == mo.bcs[h]
        op == Head(bc.script)
        gone == [mo EXCEPT !.bcs[h].script = Tail(@)]
    IN  /\ bc.script # <<>>
        /\ op = "lock" => mo.gil = -1
        /\ mo' = CASE op = "reply"   -> [gone EXCEPT !.bcs[h].acc = @ + 1]
                   [] op = "lock"    -> [gone EXCEPT !.gil = h]
                   [] op = "call!"   -> RM_Call(Ctx(gone, TRUE), TRUE).m
                   [] op = "unlock"  -> [gone EXCEPT !.gil = -1]
                   [] op = "unblock" -> RM_UnblockClient(gone, h)
                   [] op = "abort"   -> RM_AbortBlock(gone, h)

MoNext ==
    \/ MoSpend("load") /\ (MoLoad \/ MoUnload)
    \/ MoSpend("command") /\ \E c \in MoClients, b \in moMenu.bodies : MoCommand(c, b)
    \/ MoSpend("block") /\ \E c \in MoClients, hs \in moMenu.hows : MoBlock(c, hs)
    \/ MoSpend("timeout") /\ \E c \in MoClients : MoTimeout(c)
    \/ MoSpend("close") /\ \E c \in MoClients : MoDisconnect(c)
    \/ MoSpend("demote") /\ moduleDisconnectBlocked
    \/ UNCHANGED moMenu /\ (MoBeforeSleep \/ MoServe \/ MoServed \/ MoSleep \/ afterSleep \/ \E h \in DOMAIN mo.bcs : ThreadStep(h))

----------------------------------------------------------------------------
\* A handle that names a client names one that is still there and waits for
\* just this handle ("if the client is terminated while there is a pending
\* threaded operation involving the blocked client, we'll know that the client
\* no longer exists", unblockClientFromModule), and bpop_blocked_clients
\* counts those who wait.
ModuleHandlesLive ==
    /\ \A h \in DOMAIN mo.bcs : LET b == mo.bcs[h] IN
           b.client # NoOne => /\ mo.cl[b.client.c].gen = b.client.gen /\ mo.cl[b.client.c].handle = h
                               /\ mo.cl[b.client.c].blocked /\ ~b.freed
    /\ mo.blocked = Cardinality({c \in MoClients : mo.cl[c].blocked})

\* A blocking command gets one reply, from the callback, from the thread, from
\* the timeout or from moduleDisconnectBlocked, whichever comes first, and
\* none while it waits; only RM_AbortBlock leaves it without.
ModuleRepliesOnce ==
    \A c \in MoClients : LET k == mo.cl[c] IN
        k.cmd = "block" => IF k.blocked THEN k.replies = 0 ELSE k.replies = 1 \/ (k.aborted /\ k.replies = 0)

\* While the main thread is awake no thread holds the lock that
\* RM_ThreadSafeContextLock takes, whenever modules come and go.
ThreadsExcluded == mo.phase # "sleep" => mo.gil = Main

\* The main thread does not sleep on handles it was given: the pipe has a byte
\* for poll() to return at once, however the writes of the threads fall between
\* the reads of moduleHandleBlockedClients and its loop.
UnblockWakes == mo.phase = "sleep" /\ mo.list # <<>> => mo.pipe > 0

\* The replica has every change the module replicated, and no transaction is
\* left open in the stream once the command or the callback is over ("whatever
\* a command emits is always wrappered around MULTI/EXEC").
ModuleStreamClosed == ~mo.rep.multi /\ mo.rep.data = mo.data

\* The replica has every change the module replicated and no transaction is left
\* open, where no reply callback changes the dataset: commands that replicate in
\* any of the three ways, and threads that call under the lock.
ModuleCommandsReplicated == (\A h \in DOMAIN mo.bcs : mo.bcs[h].body = <<>>) => ModuleStreamClosed

=============================================================================
