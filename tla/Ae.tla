--------------------------------- MODULE Ae ---------------------------------
(***************************************************************************)
(* The event loop (ae.c): timers, file events and one iteration of aeMain,   *)
(* with the handlers that change the loop while it walks its events.         *)
(*                                                                         *)
(* Time is counted in ticks, AeSec of them a second.  A timer keeps `key',   *)
(* the place it has in memory, when its id says that it is deleted.  `want'  *)
(* is what the callers of the loop registered and did not remove.            *)
(***************************************************************************)
EXTENDS Integers, Sequences, FiniteSets, SequencesExt, FiniteSetsExt

CONSTANTS AeSec,    \* ticks in a second
          AeStarts  \* set of starts, see AeInit

VARIABLES ae, aeLeft
aeVars == <<ae, aeLeft>>

DeletedId == -1
NoMore == -1

\* A handler: what it does to the loop, how long it takes, and for a timer
\* what it returns.
Idle == [op |-> "idle", fd |-> 0, dirs |-> {}, n |-> 0, takes |-> 0, ret |-> NoMore]
NoEvent == [mask |-> {}, r |-> Idle, w |-> Idle]
Alive(e) == {i \in DOMAIN e.timers : e.timers[i].id # DeletedId}

aeCreateFileEvent(e, fd, mask, proc) ==
    IF fd >= Len(e.ev) THEN e
    ELSE [e EXCEPT !.ev[fd + 1] = [mask |-> @.mask \cup mask, r |-> IF "r" \in mask THEN proc ELSE @.r,
                                   w |-> IF "w" \in mask THEN proc ELSE @.w],
                   !.maxfd = IF fd > @ THEN fd ELSE @,
                   !.want = @ \cup ({fd} \X mask)]

aeDeleteFileEvent(e, fd, mask) ==
    IF fd >= Len(e.ev) \/ e.ev[fd + 1].mask = {} THEN e
    ELSE LET ev == [e.ev EXCEPT ![fd + 1].mask = @ \ mask]
         IN  [e EXCEPT !.ev = ev, !.want = @ \ ({fd} \X mask),
                       !.maxfd = IF fd = @ /\ ev[fd + 1].mask = {}
                                 THEN Max({j \in 0 .. fd - 1 : ev[j + 1].mask # {}} \cup {-1}) ELSE @]

\* The arrays move: a pointer into the old one is stale from here on.
aeResizeSetSize(e, setsize) ==
    IF setsize = Len(e.ev) \/ e.maxfd >= setsize THEN e
    ELSE [e EXCEPT !.ev = SubSeq([i \in 1 .. setsize |-> IF i - 1 <= e.maxfd THEN e.ev[i] ELSE NoEvent], 1, setsize),
                   !.moved = TRUE]

aeCreateTimeEvent(e, ticks, proc) ==
    [e EXCEPT !.next = @ + 1,
              !.timers = <<[id |-> e.next, key |-> e.next, when |-> e.now + ticks, ticks |-> ticks, proc |-> proc]>> \o @]

aeDeleteTimeEvent(e, id) ==
    LET at == {i \in Alive(e) : e.timers[i].id = id}
    IN  IF at = {} THEN e ELSE [e EXCEPT !.timers[Min(at)].id = DeletedId]

\* Deleted timers that were not unlinked yet count too: the loop wakes early.
aeSearchNearestTimer(e) == IF e.timers = <<>> THEN {} ELSE {Min({e.timers[i].when : i \in DOMAIN e.timers})}

\* Mutant: the fired mask is trusted.
TrustFired(mask, fired) == fired.mask
\* An event counts if it fired and is registered still.
Valid(mask, fired) == mask \cap fired.mask

\* The poll writes the fired list from its beginning.
Polled(e, fired) == [e EXCEPT !.fired = fired \o SubSeq(@, Len(fired) + 1, Len(@))]

\* n entries of the fired list; nests: what the polls of loops that handlers
\* nest in this one (processEventsWhileBlocked) report, one a level.
RECURSIVE FileEvents(_, _, _, _)

\* What a handler does.
Do(e, p, nests) ==
    LET d == CASE p.op = "add" -> aeCreateFileEvent(e, p.fd, p.dirs, Idle)
               [] p.op = "del" -> aeDeleteFileEvent(e, p.fd, p.dirs)
               [] p.op = "size" -> aeResizeSetSize(e, p.n)
               [] p.op = "timer" -> aeCreateTimeEvent(e, p.n, Idle)
               [] p.op = "cancel" -> aeDeleteTimeEvent(e, p.n)
               [] p.op = "nest" /\ nests # <<>> /\ e.maxfd # -1 ->
                      FileEvents(Polled(e, Head(nests)), Len(Head(nests)), {}, Tail(nests))
               [] OTHER -> e
    IN  [d EXCEPT !.now = @ + p.takes]

\* The handler of a descriptor is called, wanted or not.
Handle(e, fd, dir, nests) ==
    Do([e EXCEPT !.unwanted = @ \/ <<fd, dir>> \notin e.want], e.ev[fd + 1][dir], nests)

\* One entry of the fired list.  What a read handler did to the event decides
\* whether its write handler is called; `entry' was looked up before, so when
\* the array moved meanwhile its mask is what the freed memory holds.
WriteEvent(e, fired, entry, rfired, garbage, nests) ==
    LET mask == IF e.moved THEN garbage ELSE e.ev[fired.fd + 1].mask
        e1 == [e EXCEPT !.wild = @ \/ e.moved]
    IN  IF "w" \in Valid(mask, fired) /\ (~rfired \/ entry.w # entry.r) THEN Handle(e1, fired.fd, "w", nests) ELSE e1
FileEvent(e, j, garbage, nests) ==
    LET fired == e.fired[j]
        entry == e.ev[fired.fd + 1]
        rfired == "r" \in Valid(entry.mask, fired)
        still == [e EXCEPT !.moved = FALSE]
    IN  WriteEvent(IF rfired THEN Handle(still, fired.fd, "r", nests) ELSE still, fired, entry, rfired, garbage, nests)
FileEvents(e, n, garbage, nests) == FoldLeftDomain(LAMBDA x, j : FileEvent(x, j, garbage, nests), e, [j \in 1..n |-> j])

Due(e, te) == e.now >= te.when

\* One timer of the pass.
TimeEvent(e, key) ==
    LET i == CHOOSE i \in DOMAIN e.timers : e.timers[i].key = key
        te == e.timers[i]
        d == [Do(e, te.proc, <<>>) EXCEPT !.pass.fired = Append(@, key)]
        at == CHOOSE k \in DOMAIN d.timers : d.timers[k].key = key
    IN  IF te.id = DeletedId THEN [e EXCEPT !.timers = RemoveAt(@, i)]
        ELSE IF ~Due(e, te) THEN e
        ELSE IF te.proc.ret = NoMore THEN [d EXCEPT !.timers[at].id = DeletedId]
        ELSE [d EXCEPT !.timers[at].when = d.now + te.proc.ret, !.timers[at].ticks = te.proc.ret]

\* Whole seconds tell that the clock was set back; then every timer is due.
Unskewed(e) ==
    IF e.now \div AeSec < e.last THEN SubSeq([i \in DOMAIN e.timers |-> [e.timers[i] EXCEPT !.when = @ % AeSec]], 1, Len(e.timers))
    ELSE e.timers

\* Timers that handlers make go before the head, where the walk has been.
processTimeEvents(e) ==
    LET timers == Unskewed(e)
        due == {timers[i].key : i \in {k \in Alive(e) : timers[k].when <= e.now}}
        s == [e EXCEPT !.last = e.now \div AeSec, !.timers = timers, !.pass = [due |-> due, fired |-> <<>>, at |-> e.now]]
    IN  FoldLeft(LAMBDA x, k : TimeEvent(x, k), s, [i \in DOMAIN s.timers |-> s.timers[i].key])

\* What poll may report: descriptors in any order, each with some of its mask.
Reports(e) ==
    LET fds == {fd \in 0 .. Len(e.ev) - 1 : e.ev[fd + 1].mask # {}}
        Entry1 == UNION {{[fd |-> fd, mask |-> m] : m \in SUBSET e.ev[fd + 1].mask \ {{}}} : fd \in fds}
    IN  {<<>>} \cup {<<x>> : x \in Entry1} \cup {<<x, y>> : x \in Entry1, y \in Entry1}
FiredReports(e) == {f \in Reports(e) : \A i, j \in DOMAIN f : f[i].fd = f[j].fd => i = j}

\* One iteration: sleep until an event or the nearest timer, then the file
\* events, then the timers.  The clock may be set while the loop sleeps.
aeProcessEvents ==
    \E fired \in FiredReports(ae), set \in aeLeft.jumps, garbage \in aeLeft.garbage :
        LET nearest == aeSearchNearestTimer(ae)
            until == IF nearest = {} THEN {} ELSE {Max(nearest \cup {ae.now})}
        IN  \E wake \in IF fired = <<>> THEN until ELSE {ae.now} \cup until :
                LET over == wake > ae.now /\ \E i \in Alive(ae) : ae.timers[i].when < wake
                    e0 == Polled([ae EXCEPT !.now = wake + set, !.over = @ \/ over], fired)
                    e1 == processTimeEvents(FileEvents(e0, Len(fired), garbage, <<aeLeft.nested>>))
                IN  /\ wake + set >= 0
                    /\ ae' = [e1 EXCEPT !.busy = Max({@, e1.now - e1.pass.at})]
                    /\ aeLeft' = [aeLeft EXCEPT !.rounds = @ - 1, !.jumps = IF set = 0 THEN @ ELSE {0}]

AeInit ==
    \E s \in AeStarts :
        LET e0 == [now |-> s.now, last |-> s.now \div AeSec, next |-> 0, timers |-> <<>>, ev |-> [i \in 1 .. s.size |-> NoEvent],
                   maxfd |-> -1, fired |-> [i \in 1..2 |-> [fd |-> 0, mask |-> {}]], want |-> {}, moved |-> FALSE, wild |-> FALSE,
                   unwanted |-> FALSE, over |-> FALSE, busy |-> 0, pass |-> [due |-> {}, fired |-> <<>>, at |-> s.now]]
            e1 == FoldLeft(LAMBDA x, t : aeCreateTimeEvent(x, t.ticks, t.proc), e0, s.timers)
        IN  /\ ae = FoldLeft(LAMBDA x, f : aeCreateFileEvent(x, f.fd, f.dirs, f.proc), e1, s.files)
            /\ aeLeft = [rounds |-> s.rounds, jumps |-> s.jumps, nested |-> s.nested, garbage |-> s.garbage]

AeNext == aeLeft.rounds > 0 /\ aeProcessEvents

\* What was registered stays registered until it is removed, whatever
\* descriptors were removed before the set was resized.
AeEventsKept == \A w \in ae.want : w[1] < Len(ae.ev) /\ w[2] \in ae.ev[w[1] + 1].mask

\* A handler is called only for an event that is registered at that moment,
\* although earlier handlers of the iteration remove descriptors and a nested
\* loop overwrites the fired list, as long as the events did not move under it.
AeCallsWanted == ~ae.wild => ~ae.unwanted

\* The sleep ends no later than the first timer is due.
AeNeverOversleeps == ~ae.over

\* A timer that was due when the pass began fired once in it, unless a handler
\* of the pass deleted it first.
AeTimersFire ==
    /\ \A i, j \in DOMAIN ae.pass.fired : ae.pass.fired[i] = ae.pass.fired[j] => i = j
    /\ \A i \in Alive(ae) : ae.timers[i].key \in ae.pass.due => ae.timers[i].key \in ToSet(ae.pass.fired)

\* A clock that is set back delays no timer for more than a second and the
\* time the handlers took: a larger step back makes every timer due.
AeBoundedWait == \A i \in Alive(ae) : ae.timers[i].when <= ae.now + ae.timers[i].ticks + AeSec - 1 + ae.busy

\* The event loop keeps the registered events through the handlers that change
\* them, calls what is wanted and nothing else, and sleeps no longer than its
\* timers and its clock allow.
AeServesEvents ==
    /\ AeEventsKept
    /\ AeCallsWanted
    /\ AeNeverOversleeps
    /\ AeTimersFire
    /\ AeBoundedWait
=============================================================================
