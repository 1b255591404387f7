------------------------------- MODULE Pubsub ------------------------------
(***************************************************************************)
(* Publish and subscribe (pubsub.c) and keyspace events (notify.c) on a    *)
(* master and its replica: the clients' own lists of channels and          *)
(* patterns, the two indexes of the server, connections that close and     *)
(* come back, PUBLISH propagated to the replica, events for the writes     *)
(* each server executes, the classes of events set, rewritten and read     *)
(* again at a restart.                                                     *)
(***************************************************************************)
EXTENDS Integers, Sequences, FiniteSets, SequencesExt, Functions

(***************************************************************************)
(* The glob patterns of stringmatchlen (util.c), case sensitive, as        *)
(* PSUBSCRIBE, KEYS and SCAN use them.  A pattern and a string are         *)
(* sequences of character codes; beyond the end C reads the terminator.    *)
(* The string is not empty and no class ends in an escape.                 *)
(***************************************************************************)
Star == 42
OneChar == 63
Open == 91
Esc == 92
Close == 93
Caret == 94
Dash == 45
Special == {Star, OneChar, Open, Esc, Close, Caret, Dash}

CharAt(s, i) == IF i <= Len(s) THEN s[i] ELSE 0
After(s, n) == SubSeq(s, n + 1, Len(s))

RECURSIVE SkipStars(_)
SkipStars(p) == IF CharAt(p, 1) = Star THEN SkipStars(Tail(p)) ELSE p

\* The loop over a class, after the bracket and the caret.
RECURSIVE ScanClass(_, _, _)
ScanClass(p, c, match) ==
    CASE CharAt(p, 1) = Esc                   -> ScanClass(After(p, 2), c, match \/ CharAt(p, 2) = c)
      [] CharAt(p, 1) = Close                 -> [match |-> match, rest |-> Tail(p)]
      [] p = <<>>                             -> [match |-> match, rest |-> <<>>]
      [] CharAt(p, 1) \notin {Esc, Close} /\ CharAt(p, 2) = Dash /\ Len(p) >= 3 ->
             ScanClass(After(p, 3), c, match \/ c \in p[1]..p[3] \/ c \in p[3]..p[1])
      [] OTHER                                -> ScanClass(Tail(p), c, match \/ p[1] = c)

RECURSIVE stringmatchlen(_, _)
\* One character is consumed on both sides.
Onwards(p, s) == IF s = <<>> THEN SkipStars(p) = <<>> ELSE stringmatchlen(p, s)

stringmatchlen(p, s) ==
    CASE p = <<>>              -> s = <<>>
      [] CharAt(p, 1) = Star   -> LET rest == SkipStars(p)
                                  IN  rest = <<>> \/ \E i \in 0..(Len(s) - 1) : stringmatchlen(rest, After(s, i))
      [] CharAt(p, 1) = OneChar    -> s # <<>> /\ Onwards(Tail(p), Tail(s))
      [] CharAt(p, 1) = Open   -> LET not == CharAt(p, 2) = Caret
                                      class == ScanClass(After(p, IF not THEN 2 ELSE 1), CharAt(s, 1), FALSE)
                                  IN  class.match # not /\ Onwards(class.rest, Tail(s))
      [] OTHER                 -> LET q == IF CharAt(p, 1) = Esc /\ Len(p) >= 2 THEN Tail(p) ELSE p
                                  IN  CharAt(q, 1) = CharAt(s, 1) /\ Onwards(Tail(q), Tail(s))

----------------------------------------------------------------------------
\* What a pattern means, as a sequence of tokens, and how it is written.

StarTok == [t |-> "star", not |-> FALSE, ranges |-> <<>>]
AnyTok == [t |-> "any", not |-> FALSE, ranges |-> <<>>]
Lit(c) == [t |-> "lit", not |-> FALSE, ranges |-> <<(<<c, c>>)>>]
Class(not, ranges) == [t |-> "class", not |-> not, ranges |-> ranges]

Accepts(tok, c) == tok.t = "any" \/ tok.not # (\E i \in DOMAIN tok.ranges : c \in tok.ranges[i][1]..tok.ranges[i][2])

\* The positions a prefix of the pattern can reach, token by token.
Matches(toks, s) ==
    LET Reach(P, tok) == IF tok.t = "star" THEN {j \in 0..Len(s) : \E i \in P : i <= j}
                         ELSE {j \in 1..Len(s) : j - 1 \in P /\ Accepts(tok, s[j])}
    IN  Len(s) \in FoldLeft(Reach, {0}, toks)

WriteRange(r) == IF r[1] # r[2] THEN <<r[1], Dash, r[2]>> ELSE IF r[1] \in Special THEN <<Esc, r[1]>> ELSE <<r[1]>>
WriteTok(tok) ==
    LET body == FlattenSeq([i \in DOMAIN tok.ranges |-> WriteRange(tok.ranges[i])])
    IN  CASE tok.t = "star"  -> <<Star>>
          [] tok.t = "any"   -> <<OneChar>>
          [] tok.t = "lit"   -> body
          [] tok.t = "class" -> <<Open>> \o (IF tok.not THEN <<Caret>> ELSE <<>>) \o body \o <<Close>>
WritePattern(toks) == FlattenSeq([i \in DOMAIN toks |-> WriteTok(toks[i])])

-----------------------------------------------------------------------------

CONSTANTS
    PsHome,      \* client -> "master" or "replica"
    PsStarts     \* sequence of starts, see PsInit

VARIABLES
    psClients,   \* client -> [channels, patterns, pubsub]: its own lists, CLIENT_PUBSUB
    psServers,   \* server -> [channels, patterns, flags]: pubsub_channels, pubsub_patterns, notify_keyspace_events
    psGot,       \* client -> what was written to it since it connected
    psLink,      \* commands on their way to the replica
    psMine,      \* client -> [chans, pats]: what it asked for since it connected
    psAsked,     \* server -> the classes of events asked for, a sequence of letters
    psWant,      \* client -> what it should have been sent
    psCount,     \* messages so far
    psMenu
psVars == <<psClients, psServers, psGot, psLink, psMine, psAsked, psWant, psCount, psMenu>>

Without(s, x) == SelectSeq(s, LAMBDA y : y # x)

----------------------------------------------------------------------------
\* One subscription: w is [c, s], the client's lists and the server's.

pubsubSubscribeChannel(w, id, ch) ==
    IF ch \in w.c.channels THEN w
    ELSE [w EXCEPT !.c.channels = @ \cup {ch},
                   !.s.channels = IF ch \in DOMAIN @ THEN [@ EXCEPT ![ch] = Append(@, id)]
                                  ELSE [x \in DOMAIN @ \cup {ch} |-> IF x = ch THEN <<id>> ELSE w.s.channels[x]]]

pubsubUnsubscribeChannel(w, id, ch) ==
    IF ch \notin w.c.channels THEN w
    ELSE LET left == Without(w.s.channels[ch], id)
         IN  [w EXCEPT !.c.channels = @ \ {ch},
                       !.s.channels = IF left = <<>> THEN Restrict(@, DOMAIN @ \ {ch}) ELSE [@ EXCEPT ![ch] = left]]

pubsubSubscribePattern(w, id, p) ==
    IF Contains(w.c.patterns, p) THEN w
    ELSE [w EXCEPT !.c.patterns = Append(@, p), !.s.patterns = Append(@, [client |-> id, pattern |-> p])]

pubsubUnsubscribePattern(w, id, p) ==
    IF ~Contains(w.c.patterns, p) THEN w
    ELSE [w EXCEPT !.c.patterns = Without(@, p), !.s.patterns = Without(@, [client |-> id, pattern |-> p])]

clientSubscriptionsCount(c) == Cardinality(c.channels) + Len(c.patterns)

pubsubUnsubscribeAllChannels(w, id) ==
    FoldLeft(LAMBDA v, ch : pubsubUnsubscribeChannel(v, id, ch), w, SetToSeq(w.c.channels))
pubsubUnsubscribeAllPatterns(w, id) ==
    FoldLeft(LAMBDA v, p : pubsubUnsubscribePattern(v, id, p), w, w.c.patterns)

\* The commands.  No argument means all.
subscribeCommand(w, id, args) ==
    [FoldLeft(LAMBDA v, ch : pubsubSubscribeChannel(v, id, ch), w, args) EXCEPT !.c.pubsub = TRUE]
psubscribeCommand(w, id, args) ==
    [FoldLeft(LAMBDA v, p : pubsubSubscribePattern(v, id, p), w, args) EXCEPT !.c.pubsub = TRUE]
ClearIfNone(w) == IF clientSubscriptionsCount(w.c) = 0 THEN [w EXCEPT !.c.pubsub = FALSE] ELSE w
unsubscribeCommand(w, id, args) ==
    ClearIfNone(IF args = <<>> THEN pubsubUnsubscribeAllChannels(w, id)
                ELSE FoldLeft(LAMBDA v, ch : pubsubUnsubscribeChannel(v, id, ch), w, args))
punsubscribeCommand(w, id, args) ==
    ClearIfNone(IF args = <<>> THEN pubsubUnsubscribeAllPatterns(w, id)
                ELSE FoldLeft(LAMBDA v, p : pubsubUnsubscribePattern(v, id, p), w, args))

----------------------------------------------------------------------------
\* A message goes to the clients of the channel, then to every pattern of the
\* server's list that matches.

PsPush(out, id, m) == [out EXCEPT ![id] = Append(@, m)]

pubsubPublishMessage(s, out, ch, msg) ==
    LET direct == IF ch \in DOMAIN s.channels THEN s.channels[ch] ELSE <<>>
        byChannel == FoldLeft(LAMBDA o, id : PsPush(o, id, [pattern |-> <<>>, ch |-> ch, msg |-> msg]), out, direct)
    IN  FoldLeft(LAMBDA o, pat : IF stringmatchlen(pat.pattern, ch)
                                 THEN PsPush(o, pat.client, [pattern |-> pat.pattern, ch |-> ch, msg |-> msg]) ELSE o,
                 byChannel, s.patterns)

NotifyAll == {"g", "$", "l", "s", "h", "z", "x", "e"}
keyspaceEventsStringToFlags(classes) ==
    UNION {IF classes[i] = "A" THEN NotifyAll ELSE {classes[i]} : i \in DOMAIN classes}
keyspaceEventsFlagsToString(flags) ==
    LET Named(f) == IF f \in flags THEN <<f>> ELSE <<>>
    IN  (IF NotifyAll \subseteq flags THEN <<"A">>
         ELSE Named("g") \o Named("$") \o Named("l") \o Named("s") \o Named("h") \o Named("z") \o Named("x") \o Named("e"))
        \o Named("K") \o Named("E")

\* "__keyspace@<db>__:" and "__keyevent@<db>__:" are one character each here.
KeyspaceOf(key) == <<201>> \o key
KeyeventOf(event) == <<202>> \o event

notifyKeyspaceEvent(s, out, type, event, key) ==
    LET first == IF "K" \in s.flags THEN pubsubPublishMessage(s, out, KeyspaceOf(key), event) ELSE out
    IN  IF type \notin s.flags THEN out
        ELSE IF "E" \in s.flags THEN pubsubPublishMessage(s, first, KeyeventOf(event), key) ELSE first

----------------------------------------------------------------------------
NewClient == [channels |-> {}, patterns |-> <<>>, pubsub |-> FALSE]
NewServer(flags) == [channels |-> <<>>, patterns |-> <<>>, flags |-> flags]
NoSubscription == [chans |-> {}, pats |-> <<>>]

PsInit ==
    \E i \in DOMAIN PsStarts :
        /\ psMenu = PsStarts[i]
        /\ psClients = [c \in DOMAIN PsHome |-> NewClient]
        /\ psServers = [s \in {"master", "replica"} |-> NewServer({})]
        /\ psGot = [c \in DOMAIN PsHome |-> <<>>]
        /\ psWant = [c \in DOMAIN PsHome |-> <<>>]
        /\ psMine = [c \in DOMAIN PsHome |-> NoSubscription]
        /\ psAsked = [s \in {"master", "replica"} |-> <<>>]
        /\ psLink = <<>>
        /\ psCount = 0

PsSpend(what) ==
    /\ psMenu.budget[what] > 0
    /\ psMenu' = [psMenu EXCEPT !.budget[what] = @ - 1]

\* A subscription command of client id, and what it asks for from then on.
Subscribed(id, w, mine) ==
    /\ psClients' = [psClients EXCEPT ![id] = w.c]
    /\ psServers' = [psServers EXCEPT ![PsHome[id]] = w.s]
    /\ psMine' = [psMine EXCEPT ![id] = mine]
    /\ UNCHANGED <<psGot, psLink, psAsked, psWant, psCount>>
World(id) == [c |-> psClients[id], s |-> psServers[PsHome[id]]]
Written(toks) == [i \in DOMAIN toks |-> WritePattern(toks[i])]

Subscribe(id, chs) ==
    Subscribed(id, subscribeCommand(World(id), id, chs), [psMine[id] EXCEPT !.chans = @ \cup ToSet(chs)])
Unsubscribe(id, chs) ==
    Subscribed(id, unsubscribeCommand(World(id), id, chs), [psMine[id] EXCEPT !.chans = IF chs = <<>> THEN {} ELSE @ \ ToSet(chs)])
PSubscribe(id, toks) ==
    Subscribed(id, psubscribeCommand(World(id), id, Written(toks)),
               [psMine[id] EXCEPT !.pats = @ \o SelectSeq(toks, LAMBDA t : ~Contains(psMine[id].pats, t))])
PUnsubscribe(id, toks) ==
    Subscribed(id, punsubscribeCommand(World(id), id, Written(toks)),
               [psMine[id] EXCEPT !.pats = IF toks = <<>> THEN <<>> ELSE SelectSeq(@, LAMBDA t : ~Contains(toks, t))])

\* freeClient; the client connects again at once.
PsReconnect(id) ==
    LET w == pubsubUnsubscribeAllPatterns(pubsubUnsubscribeAllChannels(World(id), id), id)
    IN  /\ psServers' = [psServers EXCEPT ![PsHome[id]] = w.s]
        /\ psClients' = [psClients EXCEPT ![id] = NewClient]
        /\ psMine' = [psMine EXCEPT ![id] = NoSubscription]
        /\ psGot' = [psGot EXCEPT ![id] = <<>>]
        /\ psWant' = [psWant EXCEPT ![id] = <<>>]
        /\ UNCHANGED <<psLink, psAsked, psCount>>

\* What the clients of server s should be sent for a message on ch.
Wanted(want, s, ch, msg) ==
    LET Direct(id) == IF ch \in psMine[id].chans THEN <<[pattern |-> <<>>, ch |-> ch, msg |-> msg]>> ELSE <<>>
        Hits(id) == SelectSeq(psMine[id].pats, LAMBDA t : Matches(t, ch))
    IN  [id \in DOMAIN want |->
            IF PsHome[id] # s THEN want[id]
            ELSE want[id] \o Direct(id) \o [i \in 1..Len(Hits(id)) |-> [pattern |-> WritePattern(Hits(id)[i]), ch |-> ch, msg |-> msg]]]
IsAsked(s, class) == Contains(psAsked[s], class) \/ (class \in NotifyAll /\ Contains(psAsked[s], "A"))
WantedEvents(s, type, event, key) ==
    LET first == IF IsAsked(s, "K") THEN Wanted(psWant, s, KeyspaceOf(key), event) ELSE psWant
    IN  IF ~IsAsked(s, type) THEN psWant
        ELSE IF IsAsked(s, "E") THEN Wanted(first, s, KeyeventOf(event), key) ELSE first

\* A command executed by server s, by a client or from the link.
PsExecute(s, cmd) ==
    IF cmd.op = "publish"
    THEN /\ psGot' = pubsubPublishMessage(psServers[s], psGot, cmd.ch, cmd.msg)
         /\ psWant' = Wanted(psWant, s, cmd.ch, cmd.msg)
    ELSE /\ psGot' = notifyKeyspaceEvent(psServers[s], psGot, cmd.type, cmd.event, cmd.key)
         /\ psWant' = WantedEvents(s, cmd.type, cmd.event, cmd.key)

PublishCmd(ch, msg) == [op |-> "publish", ch |-> ch, msg |-> msg, type |-> "", event |-> <<>>, key |-> <<>>]
WriteCmd(w) == [op |-> "write", ch |-> <<>>, msg |-> <<>>, type |-> w.type, event |-> w.event, key |-> w.key]

\* A client in Pub/Sub mode may only change its subscriptions.
PsCall(id, cmd) ==
    /\ ~psClients[id].pubsub
    /\ PsExecute(PsHome[id], cmd)
    /\ psLink' = IF PsHome[id] = "master" THEN Append(psLink, cmd) ELSE psLink
    /\ psCount' = psCount + 1
    /\ UNCHANGED <<psClients, psServers, psMine, psAsked>>

publishCommand(id, ch) == PsCall(id, PublishCmd(ch, <<psCount>>))
PsWrite(id, w) == PsHome[id] = "master" /\ PsCall(id, WriteCmd(w))

PsReplicate ==
    /\ psLink # <<>>
    /\ PsExecute("replica", Head(psLink))
    /\ psLink' = Tail(psLink)
    /\ UNCHANGED <<psClients, psServers, psMine, psAsked, psCount, psMenu>>

PsConfigSet(s, classes) ==
    /\ psServers' = [psServers EXCEPT ![s].flags = keyspaceEventsStringToFlags(classes)]
    /\ psAsked' = [psAsked EXCEPT ![s] = classes]
    /\ UNCHANGED <<psClients, psGot, psLink, psMine, psWant, psCount>>

\* CONFIG REWRITE, a restart that reads the file, and clients that reconnect.
PsRestart(s) ==
    LET file == keyspaceEventsFlagsToString(psServers[s].flags)
        Reset(f, new) == [c \in DOMAIN PsHome |-> IF PsHome[c] = s THEN new ELSE f[c]]
    IN  /\ psLink = <<>>
        /\ psServers' = [psServers EXCEPT ![s] = NewServer(keyspaceEventsStringToFlags(file))]
        /\ psClients' = Reset(psClients, NewClient)
        /\ psMine' = Reset(psMine, NoSubscription)
        /\ psGot' = Reset(psGot, <<>>)
        /\ psWant' = Reset(psWant, <<>>)
        /\ UNCHANGED <<psLink, psAsked, psCount>>

PsNext ==
    \/ PsSpend("sub") /\ \E id \in DOMAIN PsHome, chs \in psMenu.chans : (chs # <<>> /\ Subscribe(id, chs)) \/ Unsubscribe(id, chs)
    \/ PsSpend("psub") /\ \E id \in DOMAIN PsHome, ps \in psMenu.pats : (ps # <<>> /\ PSubscribe(id, ps)) \/ PUnsubscribe(id, ps)
    \/ PsSpend("close") /\ \E id \in DOMAIN PsHome : PsReconnect(id)
    \/ PsSpend("publish") /\ \E id \in DOMAIN PsHome, ch \in psMenu.publish : publishCommand(id, ch)
    \/ PsSpend("write") /\ \E id \in DOMAIN PsHome, w \in psMenu.writes : PsWrite(id, w)
    \/ PsReplicate
    \/ PsSpend("config") /\ \E s \in DOMAIN psServers, cl \in psMenu.classes : PsConfigSet(s, cl)
    \/ PsSpend("restart") /\ \E s \in DOMAIN psServers : PsRestart(s)

----------------------------------------------------------------------------
\* Every client has been sent exactly the messages and the keyspace events
\* that match what it asked for since it connected (a message once per
\* subscription it matches, the channel before the patterns and these in the
\* order of its own subscriptions), whatever other clients subscribe, leave
\* or close in between, on the master and on the replica, and for the classes
\* of events asked for, through a rewrite and a restart.
PubsubDelivers == psGot = psWant

\* The server's indexes are exactly what the clients' own lists say: no entry
\* of a client that left, no empty list of a channel, no entry twice, and a
\* client is in Pub/Sub mode just when it has a subscription.
PubsubIndexed ==
    \A s \in DOMAIN psServers :
        LET srv == psServers[s]
            here == {c \in DOMAIN PsHome : PsHome[c] = s}
        IN  /\ DOMAIN srv.channels = UNION {psClients[c].channels : c \in here}
            /\ \A ch \in DOMAIN srv.channels :
                   /\ ToSet(srv.channels[ch]) = {c \in here : ch \in psClients[c].channels}
                   /\ Cardinality(ToSet(srv.channels[ch])) = Len(srv.channels[ch])
            /\ \A c \in here :
                   LET mine == SelectSeq(srv.patterns, LAMBDA p : p.client = c)
                   IN  [i \in DOMAIN mine |-> mine[i].pattern] = psClients[c].patterns
            /\ \A c \in here : psClients[c].pubsub = (clientSubscriptionsCount(psClients[c]) > 0)
=============================================================================
