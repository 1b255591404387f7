------------------------------ MODULE MCServer ------------------------------
(***************************************************************************)
(* Parts of one instance.  serverPart says which one moves in a behaviour.   *)
(***************************************************************************)
EXTENDS Persistence, Commands, ClientIO, Scripting, Pubsub, Modules, Config, TLC

VARIABLE serverPart
serverVars == <<serverPart, pstVars, cmVars, ioVars, scVars, psVars, moVars, cfVars>>

\* Rewrites, write errors, crashes, power failures and saves, under the three
\* policies.
NoPst == [write |-> 0, multi |-> 0, flushall |-> 0, err |-> 0, fail |-> 0, rewrite |-> 0, bgsave |-> 0, save |-> 0, start |-> 0,
          stop |-> 0, kill |-> 0, power |-> 0, shutdown |-> 0]
On(p, b) == [policy |-> p, aof |-> "ON", budget |-> b @@ NoPst]
Off(b) == [policy |-> "no", aof |-> "OFF", budget |-> b @@ NoPst]
PstIdle == Off([write |-> 1, start |-> 1, stop |-> 1, rewrite |-> 1])
PstScenarios ==
    {PstIdle,
     Off([write |-> 2, start |-> 1, bgsave |-> 1, fail |-> 1]),
     Off([write |-> 2, bgsave |-> 2, save |-> 1, flushall |-> 1, fail |-> 1]),
     On("always", [write |-> 2, rewrite |-> 1, power |-> 1]),
     On("always", [write |-> 1, multi |-> 1, err |-> 1, power |-> 1]),
     On("everysec", [write |-> 2, rewrite |-> 1, err |-> 1]),
     On("everysec", [write |-> 2, err |-> 1, kill |-> 1]),
     On("everysec", [write |-> 2, err |-> 1, shutdown |-> 1]),
     On("everysec", [write |-> 1, multi |-> 1, power |-> 1]),
     On("no", [write |-> 1, multi |-> 1, flushall |-> 1, err |-> 1, kill |-> 1])}
Shutdowns == {On("everysec", [write |-> 2, shutdown |-> 1])}

\* Clients and their commands.
NoCm == [cmd |-> 0, disconnect |-> 0, timeout |-> 0, tick |-> 0, ack |-> 0, slaveof |-> 0]
CmEmpty == [n \in {0,1} |-> [k \in {"a", "b"} |-> NoVal]]
NoMenu == [c \in {"c1","c2","c3"} |-> {}]
CmSt(m, d, b) == [menu |-> m @@ NoMenu, data |-> d, budget |-> b @@ NoCm]
Blpop(ks) == Cmd("blpop", ks, NoKey, 1)
Move(k, to) == Cmd("brpoplpush", <<k>>, to, 0)
Push(k, v) == Cmd("lpush", <<k>>, NoKey, v)
On1(op, k) == Cmd(op, <<k>>, NoKey, 3)
Select(n) == Cmd("select", <<>>, NoKey, n)
Txn == {Plain("multi"), Plain("exec")}
Sort(k, to) == Cmd("sort", <<k>>, to, 0)
Wait(n) == Cmd("wait", <<>>, NoKey, n)
WithList == [CmEmpty EXCEPT ![0]["a"] = ListVal(<<1, 2>>), ![1]["b"] = ListVal(<<3>>)]
WithTtl == [WithList EXCEPT ![0]["a"].e = "set"]
CmIdle == CmSt(NoMenu, CmEmpty, NoCm)
CmScenarios == {
  CmIdle,
  \* WATCH
  CmSt("c1" :> (Txn \cup {On1("watch", "a"), Select(1), Push("b", 5), Plain("discard"), Plain("unwatch")}) @@
     "c2" :> {On1("set", "a"), Plain("flushdb"), On1("lpop", "a")}, WithList, [cmd |-> 5]),
  CmSt("c1" :> (Txn \cup {On1("watch", "a"), On1("get", "a"), On1("del", "a")}) @@
     "c2" :> {On1("expire", "a"), On1("get", "a")}, WithTtl, [cmd |-> 5, tick |-> 1]),
  CmSt("c1" :> (Txn \cup {Plain("bad"), Push("a", 5)}), CmEmpty, [cmd |-> 5, slaveof |-> 1]),
  \* blocking
  CmSt("c1" :> {Blpop(<<"a", "b">>)} @@ "c2" :> {Move("a", "b"), Blpop(<<"b">>)} @@
     "c3" :> (Txn \cup {Push("a", 5), Push("b", 6), On1("lpop", "a"), On1("set", "b")}), CmEmpty,
     [cmd |-> 5, disconnect |-> 1, timeout |-> 1]),
  CmSt("c1" :> {Move("a", "b"), Move("b", "a")} @@ "c2" :> {Blpop(<<"b">>), Move("a", "a"), Blpop(<<"a">>)} @@
     "c3" :> {Push("a", 5), Plain("swapdb"), Sort("a", "b"), On1("del", "a"), On1("expire", "a")}, [CmEmpty EXCEPT ![1]["a"] = ListVal(<<1,2>>)],
     [cmd |-> 4, tick |-> 1, slaveof |-> 1]),
  CmSt("c1" :> {Push("a", 5), Wait(1), Wait(2)} @@ "c2" :> {Blpop(<<"a">>), On1("set", "b"), Wait(2), Wait(1)}, CmEmpty, [cmd |-> 4, ack |-> 2, timeout |-> 1])
  }
ServedThenWait == {CmSt("c1" :> {Blpop(<<"a">>), Wait(1)} @@ "c2" :> {Push("a", 5)}, CmEmpty, [cmd |-> 3, ack |-> 1])}
WatchAndSwap == {CmSt("c1" :> (Txn \cup {On1("watch", "a"), On1("set", "a")}) @@ "c2" :> {Plain("swapdb")}, WithList, [cmd |-> 5])}
RefusedOnReplica == {CmSt("c1" :> (Txn \cup {On1("get", "a"), On1("set", "a")}), WithList, [cmd |-> 4, slaveof |-> 1])}
SortOverString == {CmSt("c1" :> {Blpop(<<"a">>)} @@ "c2" :> {On1("set", "a"), Push("b", 5), Sort("b", "a")}, CmEmpty, [cmd |-> 4])}

\* Connections: requests by the ids 1, 2, ...
NoIo == [eof |-> 0, err |-> 0, tick |-> 0]
IoSt(n, b) == [net |-> n @@ ("c1" :> <<>> @@ "c2" :> <<>> @@ "master" :> <<>>), budget |-> b @@ NoIo]
Req(ops) == [i \in DOMAIN ops |-> Piece(i, ops[i], TRUE)]
Long(id, op) == <<Piece(id, op, FALSE), Piece(id, op, TRUE)>>
IoIdle == IoSt("c1" :> <<>>, NoIo)
IoScenarios == {
    IoIdle,
    IoSt("c1" :> Req(<<"ping", "big", "list", "ping">>), NoIo),
    IoSt("c1" :> Req(<<"big", "list", "big", "quit">>), [eof |-> 1, err |-> 1, tick |-> 2]),
    IoSt("c1" :> Req(<<"off", "ping", "skip", "on", "ping">>) @@ "c2" :> Long(1, "ping"), [eof |-> 1]),
    IoSt("c1" :> Req(<<"skip", "quit">>) @@ "c2" :> Req(<<"block", "kill", "error">>), [eof |-> 1]),
    IoSt("c1" :> Req(<<"pause", "ping">>) @@ "c2" :> Req(<<"block", "ping", "kill">>) , [eof |-> 1]),
    IoSt("master" :> Long(1, "ping") \o Long(2, "ping") @@ "c1" :> Req(<<"big", "ping">>), NoIo)}
PausedLink == {IoSt("master" :> Req(<<"ping", "ping">>) @@ "c1" :> Req(<<"pause">>), NoIo)}
PausedPop == {IoSt("c2" :> Req(<<"block", "ping">>) @@ "c1" :> Req(<<"pause">>), NoIo)}
MutedQuit == {IoSt("c1" :> Req(<<"off", "quit">>), NoIo)}

\* Scripts that are slow before, between and behind writes, and random ones.
ScripBodies == [early |-> <<"slow", "write">>, late |-> <<"write", "slow", "write">>, random |-> <<"rand", "writereg">>,
                effects |-> <<"effects", "rand", "writereg", "slow", "write">>, mute |-> <<"effects", "norepl", "write">>, wrong |-> <<"write", "norepl">>]
ScIdle == [menu |-> {}, budget |-> 0]
ScScenarios ==
    {ScIdle,
     [menu |-> {"eval", "load", "flush", "sync", "rewrite", "early", "random"}, budget |-> 4],
     [menu |-> {"eval", "effects", "late", "oom", "sync"}, budget |-> 3],
     [menu |-> {"eval", "tx", "late", "early", "effects"}, budget |-> 2],
     [menu |-> {"eval", "mute", "wrong", "early", "restart"}, budget |-> 3]}
KilledOnMaster == {ScIdle, [menu |-> {"eval", "load", "early"}, budget |-> 2]}
EffectsInMulti == {ScIdle, [menu |-> {"eval", "tx", "effects"}, budget |-> 1]}
RestartedReplica == {ScIdle, [menu |-> {"eval", "early", "restart"}, budget |-> 4]}

\* Two clients of the master and one of its replica; then every pattern of
\* the menu against every channel.
PsClientHome == "c1" :> "master" @@ "c2" :> "master" @@ "c3" :> "replica"
NoPs == [sub |-> 0, psub |-> 0, close |-> 0, publish |-> 0, write |-> 0, config |-> 0, restart |-> 0]
PsSt(b) == [budget |-> b @@ NoPs, chans |-> {}, pats |-> {}, publish |-> {}, writes |-> {}, classes |-> {}]
PsIdle == PsSt(NoPs)
PsA == <<97>>
PsAll == <<StarTok>>
GlobToks == {StarTok, AnyTok, Lit(97), Lit(Star), Class(FALSE, <<(<<97, 98>>), <<Close, Close>>>>), Class(TRUE, <<(<<97, 97>>)>>)}
GlobStrings == UNION {[1..n -> {97, 98, Close}] : n \in 1..3} \cup {<<97, Star>>, <<Star>>}
PsScenarios == <<
    PsIdle,
    [PsSt([sub |-> 3, psub |-> 2, close |-> 1, publish |-> 1]) EXCEPT !.chans = {<<>>, <<PsA>>}, !.pats = {<<>>, <<PsAll>>}, !.publish = {PsA}],
    [PsSt([sub |-> 1, psub |-> 1, publish |-> 2]) EXCEPT !.chans = {<<PsA, <<98>>>>}, !.pats = {<<(<<AnyTok>>), PsAll>>}, !.publish = {PsA, <<98>>}],
    [PsSt([psub |-> 1, config |-> 1, write |-> 1, restart |-> 1]) EXCEPT !.pats = {<<PsAll>>},
        !.writes = {[type |-> t, event |-> <<101>>, key |-> PsA] : t \in {"$", "e"}},
        !.classes = {<<"A", "K", "E">>, <<"K", "$">>, <<"E", "g", "$", "l", "s", "h", "z", "x">>, <<"g", "e">>}],
    [PsSt([psub |-> 1, publish |-> 1]) EXCEPT !.pats = {<<ts>> : ts \in UNION {[1..n -> GlobToks] : n \in 1..3}}, !.publish = GlobStrings]>>

\* Clients blocked on threads that answer, use the dataset or give up, while
\* modules come and go; commands that replicate in the three ways.
MoHow(s, cb) == [script |-> s, cb |-> cb, body |-> <<>>]
MoIdle == [budget |-> [load |-> 0, command |-> 0, block |-> 0, timeout |-> 0, close |-> 0, demote |-> 0], bodies |-> {}, hows |-> {}, busy |-> FALSE]
MoSt(b, hs) == [MoIdle EXCEPT !.budget = b @@ MoIdle.budget, !.hows = hs]
MoBodies == {<<"call!", "call!">>, <<"call", "call!", "replicate">>, <<"call", "verbatim">>}
MoScenarios ==
    {MoIdle,
     MoSt([load |-> 1, block |-> 2, timeout |-> 1, close |-> 1, demote |-> 1],
          {<<MoHow(<<"unblock">>, TRUE)>>, <<MoHow(<<"reply", "unblock">>, FALSE)>>, <<MoHow(<<"abort">>, TRUE)>>}),
     [MoSt([load |-> 3, block |-> 2, command |-> 1], {<<MoHow(<<"lock", "call!", "unlock", "unblock">>, TRUE)>>}) EXCEPT !.bodies = MoBodies]}
CallbackWrites == {MoIdle, MoSt([load |-> 1, block |-> 1], {<<[MoHow(<<"unblock">>, TRUE) EXCEPT !.body = <<"call!">>]>>})}
BlockedInMulti == {MoIdle, MoSt([load |-> 1, block |-> 1], {<<MoHow(<<"unblock">>, TRUE), MoHow(<<"unblock">>, TRUE)>>})}

\* Files with duplicated options, save points, limits of one class, an include
\* at the top, comments and options that are not understood.
CfFile1 == <<Remark, CfLine("timeout", Num(1)), CfLine("save", Num(1)), CfLine("save", Num(2)), CfLine("timeout", Num(2)),
             CfLine("rename-command", Name("config")), CfLine("client-output-buffer-limit", Tok(1, "kb", "slave"))>>
CfFile2 == <<CfLine("include", Name("base")), Blank, CfLine("maxmemory", Tok(1, "kb", "")), Remark, CfLine("requirepass", Name("p")),
             CfLine("slaveof", Name("m1")), CfLine("lfu-log-factor", Num(2)), Signature, CfLine("appendfsync", Name("always"))>>
CfSetOf(o, toks) == [opt |-> o, toks |-> toks]
CfSets == {CfSetOf("timeout", <<Num(n)>>) : n \in {0, 3}} \cup {CfSetOf("maxmemory", <<t>>) : t \in {Num(0), Num(3), Num(2), Tok(2, "kb", "")}}
    \cup {CfSetOf("repl-backlog-ttl", <<Num(1)>>), CfSetOf("cluster-node-timeout", <<Num(2)>>), CfSetOf("slave-read-only", <<Name("no")>>),
          CfSetOf("appendfsync", <<Name("everysec")>>), CfSetOf("appendfsync", <<Name("never")>>), CfSetOf("requirepass", <<Name("")>>), CfSetOf("requirepass", <<Name("q")>>),
          CfSetOf("save", <<>>), CfSetOf("save", <<Num(3)>>), CfSetOf("save", <<Num(1), Num(2), Num(3)>>),
          CfSetOf("client-output-buffer-limit", <<Tok(0, "", "slave")>>), CfSetOf("client-output-buffer-limit", <<Tok(4, "", "pubsub")>>)}
CfIdle == [file |-> <<>>, included |-> <<>>, sets |-> {}, edits |-> {}, budget |-> [set |-> 0, slaveof |-> 0, rewrite |-> 0, edit |-> 0, restart |-> 0]]
CfSt(f, inc, sets, budget) == [file |-> f, included |-> inc, sets |-> sets, edits |-> {CfLine("unbalanced", Num(0)), CfLine("save", Num(3)), Remark}, budget |-> budget @@ CfIdle.budget]
CfScenarios ==
    {CfIdle,
     CfSt(CfFile1, <<>>, CfSets, [set |-> 2, rewrite |-> 2]),
     CfSt(CfFile2, <<CfLine("cluster-node-timeout", Num(1))>>, CfSets, [set |-> 1, slaveof |-> 1, rewrite |-> 2]),
     CfSt(CfFile1, <<>>, {CfSetOf("timeout", <<Num(0)>>)}, [set |-> 1, slaveof |-> 1, rewrite |-> 2, edit |-> 1, restart |-> 2])}
CfOnly(f, inc, sets) == {CfIdle, CfSt(f, inc, sets, [set |-> 1, rewrite |-> 1])}
TtlInKb == CfOnly(<<>>, <<>>, {CfSetOf("repl-backlog-ttl", <<Num(2)>>)})
ZeroTimeout == CfOnly(<<>>, <<>>, {CfSetOf("cluster-node-timeout", <<Num(0)>>)})

Init ==
    /\ serverPart \in {"persistence", "commands", "connections", "scripting", "pubsub", "modules", "config"}
    /\ PstInit /\ (serverPart # "persistence" => pstBudget = PstIdle.budget)
    /\ CmInit /\ (serverPart # "commands" => cmMenu = NoMenu)
    /\ IoInit /\ (serverPart # "connections" => ioSent = IoIdle.net)
    /\ ScInit /\ (serverPart # "scripting" => scMenu = {})
    /\ PsInit /\ (serverPart # "pubsub" => psMenu = PsIdle)
    /\ MoInit /\ (serverPart # "modules" => moMenu = MoIdle)
    /\ CfInit /\ (serverPart # "config" => cfMenu = CfIdle)

Next ==
    /\ UNCHANGED serverPart
    /\ \/ serverPart = "persistence" /\ PstNext /\ UNCHANGED <<cmVars, ioVars, scVars, psVars, moVars, cfVars>>
       \/ serverPart = "commands" /\ CmNext /\ UNCHANGED <<pstVars, ioVars, scVars, psVars, moVars, cfVars>>
       \/ serverPart = "connections" /\ IoNext /\ UNCHANGED <<pstVars, cmVars, scVars, psVars, moVars, cfVars>>
       \/ serverPart = "scripting" /\ ScNext /\ UNCHANGED <<pstVars, cmVars, ioVars, psVars, moVars, cfVars>>
       \/ serverPart = "pubsub" /\ PsNext /\ UNCHANGED <<pstVars, cmVars, ioVars, scVars, moVars, cfVars>>
       \/ serverPart = "modules" /\ MoNext /\ UNCHANGED <<pstVars, cmVars, ioVars, scVars, psVars, cfVars>>
       \/ serverPart = "config" /\ CfNext /\ UNCHANGED <<pstVars, cmVars, ioVars, scVars, psVars, moVars>>

Spec == Init /\ [][Next]_serverVars
SpecPersistence == serverPart = "persistence" /\ Init /\ [][Next]_serverVars
SpecCommands == serverPart = "commands" /\ Init /\ [][Next]_serverVars
SpecConnections == serverPart = "connections" /\ Init /\ [][Next]_serverVars
SpecScripting == serverPart = "scripting" /\ Init /\ [][Next]_serverVars
SpecModules == serverPart = "modules" /\ Init /\ [][Next]_serverVars
SpecConfig == serverPart = "config" /\ Init /\ [][Next]_serverVars

=============================================================================
