------------------------------ MODULE ClientIO ------------------------------
(***************************************************************************)
(* The connections of clients (networking.c, blocked.c and their part of     *)
(* serverCron and beforeSleep): requests that arrive in pieces and pipelined, *)
(* replies in a static buffer and a list, sent as the socket takes them,      *)
(* CLIENT REPLY, PAUSE and KILL, blocking, output limits, asynchronous close, *)
(* and the link to the master whose stream is passed on to sub-replicas.      *)
(***************************************************************************)
EXTENDS Integers, Sequences, FiniteSets, SequencesExt

CONSTANTS IoClients, IoMaster,  \* IoMaster is the client of the master link
          BufCap, ChunkCap, HardLimit, SoftLimit, SoftSeconds,
          IoStarts              \* [net, budget]: what each peer sends

VARIABLES io, ioSent, ioBudget

ioVars == <<io, ioSent, ioBudget>>

IoSpend(op) == ioBudget[op] > 0 /\ ioBudget' = [ioBudget EXCEPT ![op] = @ - 1]
\* A piece of a request; the last one completes it.
Piece(id, op, last) == [id |-> id, op |-> op, last |-> last]
Units(id, n) == [j \in 1..n |-> <<id, j>>]

-----------------------------------------------------------------------------
\* Output.  A node of the reply list is a sequence of units.
PendingReplies(x) == x.static # <<>> \/ x.list # <<>>
ReplyBytes(x) == Len(FlattenSeq(x.list))
Unsent(x) ==
    IF x.static # <<>> THEN SubSeq(x.static, x.sent + 1, Len(x.static)) \o FlattenSeq(x.list)
    ELSE SubSeq(FlattenSeq(x.list), x.sent + 1, ReplyBytes(x))

Muted(c, x) == x.off \/ x.skip = "now" \/ c = IoMaster

prepareClientToWrite(s, c) ==
    IF PendingReplies(s.cl[c]) \/ s.cl[c].pw THEN s
    ELSE [s EXCEPT !.cl[c].pw = TRUE, !.pw = <<c>> \o @]

freeClientAsync(s, c) == IF s.cl[c].asap THEN s ELSE [s EXCEPT !.cl[c].asap = TRUE, !.close = Append(@, c)]

\* The soft limit closes once it was found reached more than SoftSeconds after
\* it was first found reached.
asyncCloseClientOnOutputBufferLimitReached(s, c) ==
    LET used == ReplyBytes(s.cl[c]) + Len(s.cl[c].list)
        since == s.cl[c].since
        late == since >= 0 /\ s.now - since > SoftSeconds
        t == [s EXCEPT !.cl[c].since = IF used < SoftLimit THEN -1 ELSE IF @ < 0 THEN s.now ELSE @]
    IN  CASE ReplyBytes(s.cl[c]) = 0 \/ s.cl[c].asap -> s
          [] used >= HardLimit \/ (used >= SoftLimit /\ late) -> freeClientAsync(t, c)
          [] OTHER -> t

\* The static buffer while the list is empty and there is room; then the last
\* node of the list while the chunk is small, or a new node.
AddUnits(x, us) ==
    CASE x.list = <<>> /\ Len(x.static) + Len(us) <= BufCap -> [x EXCEPT !.static = @ \o us]
      [] x.list # <<>> /\ Len(Last(x.list)) + Len(us) <= ChunkCap -> [x EXCEPT !.list = Append(Front(@), Last(@) \o us)]
      [] OTHER -> [x EXCEPT !.list = Append(@, us)]

addReply(s, c, us) ==
    IF Muted(c, s.cl[c]) THEN s
    ELSE LET p == prepareClientToWrite(s, c)
             t == [p EXCEPT !.cl[c] = AddUnits(@, us), !.cl[c].expect = @ \o us]
         IN  CASE p.cl[c].after -> p
               [] t.cl[c].list = s.cl[c].list -> t
               [] OTHER -> asyncCloseClientOnOutputBufferLimitReached(t, c)

\* A reply whose length comes after its elements: an empty node is added, the
\* elements follow it, then it is filled and glued to the next node.
DeferredReply(s, c, len, us) ==
    IF Muted(c, s.cl[c]) THEN s
    ELSE LET p == prepareClientToWrite(s, c)
             t == [p EXCEPT !.cl[c].list = Append(@, <<len>> \o us), !.cl[c].expect = @ \o <<len>> \o us]
         IN  asyncCloseClientOnOutputBufferLimitReached(t, c)

\* One unit leaves through the socket.
SendUnit(x) ==
    LET head == IF x.static # <<>> THEN x.static ELSE Head(x.list)
        whole == x.sent + 1 = Len(head)
        y == [x EXCEPT !.out = Append(@, head[x.sent + 1]), !.sent = IF whole THEN 0 ELSE @ + 1]
    IN  CASE ~whole -> y
          [] x.static # <<>> -> [y EXCEPT !.static = <<>>]
          [] OTHER -> [y EXCEPT !.list = Tail(@)]

-----------------------------------------------------------------------------
\* Blocked and freed clients.
RemoveOne(q, c) == LET i == SelectInSeq(q, LAMBDA x : x = c) IN IF i = 0 THEN q ELSE RemoveAt(q, i)

IoUnblock(s, c) ==
    LET t == [s EXCEPT !.cl[c].blocked = FALSE]
    IN  IF s.cl[c].ub THEN t ELSE [t EXCEPT !.cl[c].ub = TRUE, !.ub = Append(@, c)]

unlinkClient(s, c) ==
    [s EXCEPT !.pw = IF s.cl[c].pw THEN RemoveOne(@, c) ELSE @, !.ub = IF s.cl[c].ub THEN RemoveOne(@, c) ELSE @,
              !.cl[c].pw = FALSE, !.cl[c].ub = FALSE, !.cl[c].handler = FALSE]

freeClient(s, c) ==
    LET t == unlinkClient(IF s.cl[c].blocked THEN IoUnblock(s, c) ELSE s, c)
    IN  [t EXCEPT !.close = IF s.cl[c].asap THEN RemoveOne(@, c) ELSE @, !.cl[c].asap = FALSE, !.cl[c].freed = TRUE,
                  !.cl[c].static = <<>>, !.cl[c].list = <<>>, !.cl[c].qb = <<>>]

freeClientsInAsyncFreeQueue(s) ==
    FoldLeft(LAMBDA t, c : [freeClient([t EXCEPT !.cl[c].asap = FALSE], c) EXCEPT !.close = Tail(@)], s, s.close)

\* w units fit into the socket; -1 is an error.
writeToClient(s, c, w) ==
    LET n == IF w <= Len(Unsent(s.cl[c])) THEN w ELSE Len(Unsent(s.cl[c]))
        t == [s EXCEPT !.cl[c] = FoldLeft(LAMBDA x, i : SendUnit(x), @, [i \in 1..n |-> i])]
    IN  CASE w < 0 -> freeClient(s, c)
          [] PendingReplies(t.cl[c]) -> t
          [] OTHER -> IF t.cl[c].after THEN freeClient(t, c) ELSE [t EXCEPT !.cl[c].handler = FALSE]

handleClientsWithPendingWrites(s, w) ==
    LET Step(t, c) ==
            LET u == writeToClient([t EXCEPT !.cl[c].pw = FALSE, !.pw = Tail(@)], c, w[c])
            IN  IF ~u.cl[c].freed /\ PendingReplies(u.cl[c]) THEN [u EXCEPT !.cl[c].handler = TRUE] ELSE u
    IN  FoldLeft(Step, s, s.pw)

-----------------------------------------------------------------------------
\* Mutant: the requests that came during the pause are forgotten.
PauseEndsQuietly(s) == IF s.paused /\ s.over THEN [s EXCEPT !.paused = FALSE, !.over = FALSE] ELSE s

\* Input.
\* The end of a pause queues every client that is not blocked, also one that is
\* already queued.
clientsArePaused(s) ==
    IF s.paused /\ s.over
    THEN LET cs == SelectSeq(SetToSeq(IoClients), LAMBDA c : ~s.cl[c].freed /\ ~s.cl[c].blocked)
         IN  [s EXCEPT !.paused = FALSE, !.over = FALSE, !.ub = @ \o cs, !.twice = @ \/ \E c \in ToSet(cs) : s.cl[c].ub,
                       !.cl = [c \in IoClients |-> IF c \in ToSet(cs) THEN [s.cl[c] EXCEPT !.ub = TRUE] ELSE s.cl[c]]]
    ELSE s

pauseClients(s) == [s EXCEPT !.paused = TRUE, !.over = FALSE]

\* The flags of CLIENT REPLY SKIP after a command.
resetClient(s, c) == [s EXCEPT !.cl[c].skip = IF @ = "next" THEN "now" ELSE "no"]

\* clientCommand, QUIT, a command that blocks and others with their replies.
IoExecute(s, c, r) ==
    LET ok == addReply(s, c, Units(r.id, 1))
        k == IF r.op = "kill" THEN {x \in IoClients : x # c /\ ~s.cl[x].freed /\ x # IoMaster} ELSE {}
    IN  CASE r.op = "big" -> addReply(ok, c, [j \in 1..BufCap |-> <<r.id, j + 1>>])
          [] r.op = "list" -> DeferredReply(s, c, <<r.id, 1>>, <<<<r.id, 2>>>>)
          [] r.op = "off" -> [s EXCEPT !.cl[c].off = TRUE]
          [] r.op = "on" -> addReply([s EXCEPT !.cl[c].off = FALSE, !.cl[c].skip = "no"], c, Units(r.id, 1))
          [] r.op = "skip" -> IF s.cl[c].off THEN s ELSE [s EXCEPT !.cl[c].skip = "next"]
          [] r.op \in {"quit", "error"} -> [ok EXCEPT !.cl[c].after = TRUE, !.cl[c].mute = Muted(c, s.cl[c])]
          [] r.op = "block" -> [s EXCEPT !.cl[c].blocked = TRUE]
          [] r.op = "pause" -> addReply(pauseClients(s), c, Units(r.id, 1))
          [] r.op = "kill" -> addReply(FoldLeft(freeClient, s, SetToSeq(k)), c, Units(r.id, 1))
          [] OTHER -> ok

\* One round of the loop: the pieces up to the end of a request are consumed.
RECURSIVE processInputBuffer(_, _)
processInputBuffer(s0, c) ==
    LET s == IF s0.cl[c].qb = <<>> THEN s0 ELSE clientsArePaused(s0)
        x == s.cl[c]
        ends == {i \in DOMAIN x.qb : x.qb[i].last}
        n == CHOOSE i \in ends : \A j \in ends : i <= j
        r == x.qb[n]
        e == IoExecute([s EXCEPT !.cl[c].qb = SubSeq(@, n + 1, Len(@)), !.cl[c].done = Append(@, r.id)], c, r)
        f == IF c = IoMaster THEN [e EXCEPT !.cl[c].reploff = e.cl[c].readoff - Len(e.cl[c].qb)] ELSE e
    IN  CASE x.qb = <<>> \/ s.paused \/ x.blocked \/ x.after \/ x.asap -> s
          [] ends = {} -> s
          [] r.op \in {"quit", "error"} -> f
          [] OTHER -> processInputBuffer(resetClient(f, c), c)

\* A client that was freed while it was in the list is used.
RECURSIVE processUnblockedClients(_)
processUnblockedClients(s) ==
    IF s.ub = <<>> THEN s
    ELSE LET c == Head(s.ub)
             t == [s EXCEPT !.ub = Tail(@), !.cl[c].ub = FALSE]
         IN  IF s.cl[c].freed THEN processUnblockedClients([t EXCEPT !.dangling = TRUE])
             ELSE processUnblockedClients(IF t.cl[c].blocked THEN t ELSE processInputBuffer(t, c))

-----------------------------------------------------------------------------

\* The executed part of the stream goes to the sub-replicas.
FeedApplied(s, c, applied) ==
    [s EXCEPT !.fed = @ \o SubSeq(s.cl[c].pend, 1, applied), !.cl[c].pend = SubSeq(@, applied + 1, Len(@))]

readQueryFromClient(c) ==
    /\ ~io.cl[c].freed /\ io.cl[c].net # <<>>
    /\ \E n \in 1..Len(io.cl[c].net) :
          LET got == SubSeq(io.cl[c].net, 1, n)
              s == [io EXCEPT !.cl[c].net = SubSeq(@, n + 1, Len(@)), !.cl[c].qb = @ \o got]
              m == [s EXCEPT !.cl[c].pend = @ \o got, !.cl[c].readoff = @ + n]
              t == processInputBuffer(IF c = IoMaster THEN m ELSE s, c)
          IN  io' = IF c = IoMaster THEN FeedApplied(t, c, t.cl[c].reploff - m.cl[c].reploff) ELSE t
    /\ UNCHANGED <<ioSent, ioBudget>>

\* The peer closes its connection.
IoEof(c) ==
    /\ IoSpend("eof")
    /\ ~io.cl[c].freed
    /\ io' = freeClient(io, c)
    /\ UNCHANGED ioSent

sendReplyToClient(c) ==
    /\ io.cl[c].handler
    /\ \E w \in {1, 100} : io' = writeToClient(io, c, w)
    /\ UNCHANGED <<ioSent, ioBudget>>

IoBeforeSleep ==
    /\ io.ub # <<>> \/ io.pw # <<>>
    /\ \E w \in [IoClients -> {0, 1, 100} \cup (IF ioBudget.err > 0 THEN {-1} ELSE {})] :
          /\ \A c \in IoClients : w[c] # 100 => c \in Range(io.pw)
          /\ io' = handleClientsWithPendingWrites(processUnblockedClients(io), w)
          /\ ioBudget' = IF \E c \in IoClients : w[c] = -1 THEN [ioBudget EXCEPT !.err = @ - 1] ELSE ioBudget
    /\ UNCHANGED ioSent

\* serverCron: blocked clients of which the time is over, the clients to close,
\* the end of a pause.
IoCron ==
    /\ \E late \in SUBSET {c \in IoClients : io.cl[c].blocked}, over \in {io.over, io.paused} :
          LET s == FoldLeft(LAMBDA t, c : IoUnblock(addReply(t, c, <<<<0, 0>>>>), c), [io EXCEPT !.over = over], SetToSeq(late))
          IN  io' = clientsArePaused(freeClientsInAsyncFreeQueue(s))
    /\ io' # io
    /\ UNCHANGED <<ioSent, ioBudget>>

IoTick ==
    /\ IoSpend("tick")
    /\ io' = [io EXCEPT !.now = @ + 1]
    /\ UNCHANGED ioSent

IoInit ==
    \E st \in IoStarts :
        /\ ioSent = st.net
        /\ ioBudget = st.budget
        /\ io = [cl |-> [c \in IoClients |-> [net |-> st.net[c], qb |-> <<>>, done |-> <<>>, pend |-> <<>>, readoff |-> 0, reploff |-> 0,
                            blocked |-> FALSE, ub |-> FALSE, after |-> FALSE, mute |-> FALSE, asap |-> FALSE, freed |-> FALSE,
                            skip |-> "no", off |-> FALSE, static |-> <<>>, list |-> <<>>, sent |-> 0, pw |-> FALSE, handler |-> FALSE,
                            since |-> -1, out |-> <<>>, expect |-> <<>>]],
                 pw |-> <<>>, ub |-> <<>>, close |-> <<>>, paused |-> FALSE, over |-> FALSE, now |-> 0, fed |-> <<>>,
                 twice |-> FALSE, dangling |-> FALSE]

IoNext ==
    \/ \E c \in IoClients : readQueryFromClient(c) \/ IoEof(c) \/ sendReplyToClient(c)
    \/ IoBeforeSleep \/ IoCron \/ IoTick

-----------------------------------------------------------------------------
\* What was sent to a client followed by what is queued for it is the sequence
\* of its replies: nothing is lost, repeated or reordered between the static
\* buffer and the list (_addReplyToBuffer, writeToClient).
RepliesInOrder == \A c \in IoClients : ~io.cl[c].freed => io.cl[c].out \o Unsent(io.cl[c]) = io.cl[c].expect

\* A client with something to send is going to be written to: it is in the list
\* of pending writes or its handler is installed (prepareClientToWrite relies on it).
NoReplyStuck == \A c \in IoClients : (~io.cl[c].freed /\ PendingReplies(io.cl[c])) => io.cl[c].pw \/ io.cl[c].handler

\* A whole request of a client that may be served is not left in its buffer: the
\* client is queued (processUnblockedClients), at the end of a pause also.
NoRequestStuck ==
    \A c \in IoClients : LET x == io.cl[c] IN
        (~x.freed /\ ~x.blocked /\ ~x.after /\ ~x.asap /\ ~io.paused /\ \E i \in DOMAIN x.qb : x.qb[i].last) => c \in Range(io.ub)

\* No list of the server holds a client that was freed (unlinkClient, freeClient),
\* unless a client was queued twice at the end of a pause.
ListsHoldLiveClients ==
    \A c \in IoClients : io.cl[c].freed =>
        c \notin Range(io.pw) \cup Range(io.close) \cup (IF io.twice THEN {} ELSE Range(io.ub)) /\ (~io.twice => ~io.dangling)

\* "CLIENT_CLOSE_AFTER_REPLY closes the connection once the reply is written":
\* nothing is left to write and the client is still there only when it muted its
\* replies.
ClosedAfterReply == \A c \in IoClients : LET x == io.cl[c] IN (x.after /\ ~x.mute /\ ~PendingReplies(x)) => x.freed

\* "CLIENT_CLOSE_AFTER_REPLY closes the connection once the reply is written",
\* for a client that muted its replies as well (CLIENT REPLY OFF, QUIT).
ClosedAfterQuit == \A c \in IoClients : LET x == io.cl[c] IN (x.after /\ ~PendingReplies(x)) => x.freed

\* Sub-replicas are fed the executed part of the stream, in its order, as long as
\* the link to the master was not paused or queued (readQueryFromClient).
ProxiedIsExecuted ==
    \/ \E c \in IoClients : \E i \in DOMAIN ioSent[c] : ioSent[c][i].op \in {"pause", "block"}
    \/ io.fed = SubSeq(ioSent[IoMaster], 1, io.cl[IoMaster].reploff)

\* Sub-replicas are fed the executed part of the stream, pauses included: "its corresponding part of the replication stream, will
\* be propagated to the sub-slaves and to the replication backlog".
ProxiedIsAllExecuted == io.fed = SubSeq(ioSent[IoMaster], 1, io.cl[IoMaster].reploff)

\* A client is queued once ("don't add back it into the list multiple times").
UnblockedOnce == \A i, j \in DOMAIN io.ub : io.ub[i] = io.ub[j] => i = j

\* Replies leave in order and none is stuck, no request is left unread, the
\* lists of the server hold only live clients, a client to be closed is closed
\* once its reply is written, and sub-replicas are fed what was executed, each
\* on the condition stated above.
ConnectionsAreServed ==
    /\ RepliesInOrder
    /\ NoReplyStuck
    /\ NoRequestStuck
    /\ ListsHoldLiveClients
    /\ ClosedAfterReply
    /\ ProxiedIsExecuted
=============================================================================
