---------------------------- MODULE MCStructures ----------------------------
(***************************************************************************)
(* Data structures.  structPart says which one moves in a behaviour.         *)
(***************************************************************************)
EXTENDS CircularQueue, Dict, Quicklist, Rax, Rdb, Bits, Ae, TLC

CONSTANTS entry1, entry2
VARIABLE structPart
structVars == <<structPart, vars, dictVars, zlVars, qlVars, raxVars, lzfVars, rdbVars, bitVars, aeVars>>

MCEntries == {entry1, entry2}

\* A table that grows, one that shrinks, one under an iterator.
NoDict == [add |-> 0, del |-> 0, iter |-> 0, scan |-> 0, resize |-> 0, threads |-> FALSE, keys |-> {}]
Tab(n, S) == [size |-> n, table |-> [i \in 0 .. n-1 |-> SetToSeq({k \in S : k % n = i})]]
DictSt(b, n, S) == [budget |-> b @@ NoDict, ht |-> <<Tab(n, S), NoTable>>, idx |-> -1]
DictIdle == DictSt(NoDict, 2, {})
DictScenarios ==
    {DictIdle,
     DictSt([add |-> 3, del |-> 2, scan |-> 1, keys |-> {0, 1, 2, 3, 5}], 2, {0, 1}),
     DictSt([add |-> 1, del |-> 3, iter |-> 1, resize |-> 1, keys |-> {0, 2, 3, 4, 7}], 8, {0, 3, 4, 7}),
     DictSt([add |-> 3, del |-> 1, iter |-> 1, keys |-> {0, 1, 2, 3, 5}], 2, {0, 3})}
TwoThreads == {DictIdle, [budget |-> [iter |-> 1, threads |-> TRUE] @@ NoDict, ht |-> <<Tab(2, {0, 1, 3}), Tab(4, {})>>, idx |-> 0]}

\* Elements around the lengths and the values where an encoding changes.
IntEl(n) == [k |-> "int", n |-> n]
StrEl(n) == [k |-> "str", n |-> n]
ZlEls == {StrEl(0), StrEl(250), StrEl(251), StrEl(300), IntEl(12), IntEl(128), IntEl(-32769)}
NoZl == [insert |-> 0, delete |-> 0, aside |-> 0, merge |-> 0]
ZlScenarios == {NoZl, [insert |-> 4, delete |-> 1] @@ NoZl, [insert |-> 4, aside |-> 1, merge |-> 1] @@ NoZl}

\* Lists of four nodes, and lists made from nothing.
AllQl == {"push", "pop", "rotate", "insert", "index", "range", "set", "trim", "rem"}
Seven == <<"a", "b", "a", "b", "a", "a", "b">>
QlIdle == [rpush |-> <<>>, menu |-> {}, budget |-> 0]
QlScenarios == {QlIdle, [rpush |-> Seven, menu |-> AllQl, budget |-> 3], [rpush |-> <<>>, menu |-> {"push", "pop", "insert"}, budget |-> 5]}
IndexThenPop == {QlIdle, [rpush |-> SubSeq(Seven, 1, 5), menu |-> {"index", "pop", "set"}, budget |-> 4]}

\* Keys of three slots that share beginnings and end inside of each other.
Words == {<<1, 1>>, <<1, 1, 2, 2>>, <<1, 1, 2, 2, 1, 1>>, <<1, 1, 2, 2, 1, 2>>, <<1, 1, 3>>, <<1, 2, 2>>, <<2, 1, 1, 1>>}
Probes == Words \cup {<<1, 1, 1>>, <<1, 1, 2>>, <<1, 1, 2, 3>>, <<1, 2>>, <<2, 2>>, <<1, 1, 2, 2, 1>>}
RaxIdle == [words |-> <<>>, menu |-> {}]
RaxScenarios == {RaxIdle, [words |-> <<>>, menu |-> {"add", "del", "delslot"}]}

\* Short inputs over two bytes, long runs of both kinds, a repeat at the far
\* end of the window; the room is that of a string and of a list node.
Count(n) == [i \in 1..n |-> i % 251]
Bits(n) == [1..n -> {0, 1}]
LzfIdle == [in |-> <<>>, room |-> 0, shared |-> FALSE]
LzfShort == UNION {Bits(n) : n \in 6..7} \cup {[i \in 1..n |-> 7] : n \in {19, 21, 22}}
LzfLong == {[i \in 1..n |-> 7] : n \in {35, 268, 269, 300}} \cup {Count(n) : n \in {31, 32, 33, 34, 65}}
               \cup {Count(30) \o Count(n) : n \in {9, 10, 12}}
LzfScenarios == {LzfIdle} \cup {[in |-> s, room |-> Len(s) + d, shared |-> s \in LzfShort] : s \in LzfShort \cup LzfLong, d \in {-4, 0, 3}}

\* One dataset for every type and encoding, and one of two databases; servers
\* with the same limits, with tighter ones, with and without checksums.
S0 == <<>>
SNum(n) == ll2string(n)
SLong(n) == [i \in 1..n |-> 97]
SameButShort == <<97, 98>>
Entry(db, k, ex, o) == [db |-> db, k |-> k, ex |-> ex, o |-> o]
OneObject(o) == <<Entry(0, SameButShort, NoExpire, o)>>
Node(items) == [zl |-> items, compressed |-> FALSE]
RdbNumberSeq == <<-2147483647, -32769, -32768, -129, -128, -1, 0, 2, 3, 7, 127, 128, 255, 300, 32767, 32768, 2147483647>>
RdbNumbers == ToSet(RdbNumberSeq)
RdbStrings == <<S0, <<45, 48>>, <<48, 48, 55>>, <<49, 50, 0>>, SLong(21), SLong(45), SLong(63), SLong(64), SLong(65), SLong(300), SLong(16383), SLong(16384)>>
RdbObjects ==
    [i \in 1..Len(RdbNumberSeq) |-> Obj("string", "int", RdbNumberSeq[i])]
    \o [i \in 1..Len(RdbStrings) |-> Obj("string", "raw", RdbStrings[i])]
    \o <<Obj("list", "quicklist", <<Node(<<SNum(2), S0>>), [zl |-> <<SLong(3), SLong(4)>>, compressed |-> TRUE], Node(<<SNum(300)>>)>>),
         Obj("set", "intset", <<-129, 7, 300>>), Obj("set", "ht", <<SNum(7), SLong(2), SNum(-1)>>),
         Obj("set", "ht", <<SNum(7), SNum(300), SNum(2)>>), Obj("set", "ht", <<SNum(7), SNum(300)>>),
         Obj("zset", "ziplist", <<[e |-> SLong(1), s |-> 2], [e |-> SLong(2), s |-> 2], [e |-> SNum(7), s |-> 300]>>),
         Obj("zset", "skiplist", <<[e |-> SLong(1), s |-> -1], [e |-> SNum(7), s |-> 2]>>),
         Obj("zset", "skiplist", <<[e |-> SNum(7), s |-> 2], [e |-> SLong(30), s |-> 2], [e |-> SLong(31), s |-> PosInf]>>),
         Obj("hash", "ziplist", <<[f |-> SLong(1), v |-> S0], [f |-> SLong(2), v |-> SNum(7)], [f |-> SLong(3), v |-> SNum(7)]>>),
         Obj("hash", "ht", <<[f |-> SLong(1), v |-> SNum(300)], [f |-> SLong(64), v |-> SNum(7)]>>),
         Obj("hash", "ht", <<[f |-> SLong(1), v |-> SNum(300)], [f |-> SNum(3), v |-> S0]>>)>>
RdbOldObjects ==
    <<Obj("list", "linked", <<SNum(2), S0, SLong(64)>>), Obj("list", "ziplist", <<SNum(2), S0, SLong(64)>>),
      Obj("zset", "skiplist", <<[e |-> SNum(7), s |-> NegInf], [e |-> SLong(1), s |-> 300], [e |-> SLong(2), s |-> PosInf]>>),
      Obj("hash", "zipmap", <<[f |-> SLong(1), v |-> S0], [f |-> SLong(64), v |-> SNum(7)]>>)>>
RdbTwoDbs == <<Entry(0, SNum(7), -5, Obj("string", "int", 7)), Entry(0, SLong(64), 3, Obj("string", "int", 300)),
               Entry(1, SNum(7), NoExpire, Obj("set", "ht", <<SLong(1)>>)), Entry(1, S0, 9, Obj("string", "raw", SLong(21)))>>
Env == [compression |-> TRUE, packs |-> FALSE, checksum |-> TRUE, old |-> FALSE, entries |-> 3, value |-> 25, intset |-> 3,
        fill |-> 2, traps |-> FALSE, master |-> TRUE, stream |-> 0]
RdbLoaders == {Env, [Env EXCEPT !.entries = 2, !.intset = 2, !.checksum = FALSE], [Env EXCEPT !.traps = TRUE, !.master = FALSE]}
Each(objs) == [i \in 1..Len(objs) |-> OneObject(objs[i])]
RdbIdle == [datas |-> <<(<<>>)>>, saves |-> {Env}, loads |-> {Env}]
RdbScenarios ==
    <<RdbIdle,
      [datas |-> Each(RdbObjects), saves |-> {[Env EXCEPT !.packs = c] : c \in BOOLEAN}, loads |-> RdbLoaders],
      [datas |-> Each(RdbOldObjects), saves |-> {[Env EXCEPT !.old = TRUE]}, loads |-> RdbLoaders],
      [datas |-> <<RdbTwoDbs>>, saves |-> {[Env EXCEPT !.stream = d, !.checksum = c] : d \in {-1, 0, 3}, c \in BOOLEAN}, loads |-> RdbLoaders]>>

\* Machine words of four bits in two bytes: every string and every number.
BitStrs(n) == [1..n -> {0, 1}]
NoBits == [offsets |-> {}, indexes |-> {}, bitops |-> {}, fields |-> {}, again |-> {}]
FieldOp(c, sg, b, o, v, w) == [code |-> c, sign |-> sg, bits |-> b, offset |-> o, v |-> v, ow |-> w]
OneField == {<<FieldOp(c, sg, b, o, v, w)>> : c \in {"set", "incrby"}, sg \in {TRUE}, b \in 1..4, o \in {0, 1, 3}, v \in {-8, -7, -3, -1, 0, 1, 2, 7}, w \in {"wrap", "sat", "fail"}}
            \cup {<<FieldOp(c, FALSE, b, o, v, w)>> : c \in {"set", "incrby"}, b \in 1..3, o \in {0, 1, 3}, v \in {-8, -7, -3, -1, 0, 1, 2, 7}, w \in {"wrap", "sat", "fail"}}
            \cup {<<FieldOp("get", sg, b, o, 0, "wrap")>> : sg \in BOOLEAN, b \in 1..3, o \in {0, 1, 3, 5}}
            \cup {<<FieldOp("get", TRUE, 4, o, 0, "wrap")>> : o \in {0, 1, 3, 5}}
TwoFields == {<<FieldOp("set", TRUE, 3, 2, v, w), FieldOp("incrby", FALSE, 2, 3, 3, w), FieldOp("get", TRUE, 3, 2, 0, w)>> : v \in {-8, -1, 3}, w \in {"wrap", "sat", "fail"}}
BitIdle == [keys |-> <<Missing, Missing>>, menu |-> NoBits, shifts |-> {0}]
BitSt(a, b, m) == [keys |-> <<a, b>>, menu |-> m, shifts |-> {0}]
SomeKeys == {Missing} \cup {Str(x) : x \in UNION {BitStrs(n) : n \in {0, 2, 4}}}
BitScenarios ==
    {BitIdle}
    \cup {[keys |-> <<k, Missing>>, menu |-> [NoBits EXCEPT !.fields = OneField], shifts |-> {0, 15}] : k \in {Missing} \cup {Str(x) : x \in BitStrs(4)}}
    \cup {BitSt(k, Missing, [NoBits EXCEPT !.indexes = {-3, -1, 0, 1, 2}]) : k \in SomeKeys \cup {Str(x) : x \in BitStrs(6)} \cup {Str([i \in 1..12 |-> IF i = j THEN 1 - b ELSE b]) : j \in 0..12, b \in {0, 1}}}
    \cup {BitSt(k, l, [NoBits EXCEPT !.bitops = {"and", "or", "xor", "not"}]) : k \in SomeKeys, l \in SomeKeys \cup {Str(<<1, 1, 0, 0, 1, 0, 1, 0>>)}}
    \cup {BitSt(k, Missing, [NoBits EXCEPT !.offsets = {0, 3, 5}, !.fields = TwoFields, !.again = {"setbit", "getbit"}]) : k \in SomeKeys}

\* The event loop: handlers that remove, add and nest; timers that cancel and
\* make each other; a clock that is set forth and back.
P(op, fd, dirs, n, takes, ret) == [op |-> op, fd |-> fd, dirs |-> dirs, n |-> n, takes |-> takes, ret |-> ret]
File(fd, dirs, proc) == [fd |-> fd, dirs |-> dirs, proc |-> proc]
Timer(ticks, proc) == [ticks |-> ticks, proc |-> proc]
AeSt(size, timers, files, jumps) ==
    [now |-> 8, size |-> size, timers |-> timers, files |-> files, jumps |-> jumps, rounds |-> 3, garbage |-> {{}, {"r", "w"}},
     nested |-> <<[fd |-> 1, mask |-> {"r"}], [fd |-> 0, mask |-> {"w"}]>>]
Both == {"r", "w"}
AeIdle == [AeSt(1, <<>>, <<>>, {0}) EXCEPT !.rounds = 0]
AeScenarios ==
    {AeIdle,
     AeSt(4, <<Timer(2, P("idle", 0, {}, 0, 0, 2))>>,
          <<File(0, {"r"}, P("del", 1, Both, 0, 0, 0)), File(0, {"w"}, P("nest", 0, {}, 0, 0, 0)), File(1, {"r"}, P("del", 0, {"w"}, 0, 0, 0)),
            File(1, {"w"}, P("add", 1, {"r"}, 0, 1, 0)), File(2, {"r"}, P("size", 0, {}, 3, 0, 0))>>, {0}),
     AeSt(2, <<Timer(3, P("cancel", 0, {}, 2, 0, 1)), Timer(1, P("timer", 0, {}, 0, 1, 2)), Timer(5, P("idle", 0, {}, 0, 1, 3))>>,
          <<File(0, {"r"}, P("timer", 0, {}, 1, 0, 0)), File(1, {"r"}, P("cancel", 0, {}, 0, 0, 0))>>, {0, -1, -3, 4})}

StInit ==
    /\ structPart \in {"queue", "dict", "ziplist", "lists", "rax", "lzf", "rdb", "bits", "ae"}
    /\ Init
    /\ DictInit /\ (structPart # "dict" => dictBudget = NoDict)
    /\ ZlInit /\ (structPart # "ziplist" => zlBudget = NoZl)
    /\ QlInit /\ (structPart # "lists" => qlMenu = {})
    /\ RaxInit /\ (structPart # "rax" => raxMenu = {})
    /\ LzfInit /\ (structPart # "lzf" => lzfIn = <<>>)
    /\ RdbInit /\ (structPart # "rdb" => rdbDbs = <<>>)
    /\ BitInit /\ (structPart # "bits" => bitMenu = NoBits)
    /\ AeInit /\ (structPart # "ae" => aeLeft.rounds = 0)

StNext ==
    /\ UNCHANGED structPart
    /\ \/ structPart = "queue" /\ Next /\ UNCHANGED <<dictVars, zlVars, qlVars, raxVars, lzfVars, rdbVars, bitVars, aeVars>>
       \/ structPart = "dict" /\ DictNext /\ UNCHANGED <<vars, zlVars, qlVars, raxVars, lzfVars, rdbVars, bitVars, aeVars>>
       \/ structPart = "ziplist" /\ ZlNext /\ UNCHANGED <<vars, dictVars, qlVars, raxVars, lzfVars, rdbVars, bitVars, aeVars>>
       \/ structPart = "lists" /\ QlNext /\ UNCHANGED <<vars, dictVars, zlVars, raxVars, lzfVars, rdbVars, bitVars, aeVars>>
       \/ structPart = "rax" /\ RaxNext /\ UNCHANGED <<vars, dictVars, zlVars, qlVars, lzfVars, rdbVars, bitVars, aeVars>>
       \/ structPart = "lzf" /\ LzfNext /\ UNCHANGED <<vars, dictVars, zlVars, qlVars, raxVars, rdbVars, bitVars, aeVars>>
       \/ structPart = "rdb" /\ RdbNext /\ UNCHANGED <<vars, dictVars, zlVars, qlVars, raxVars, lzfVars, bitVars, aeVars>>
       \/ structPart = "bits" /\ BitNext /\ UNCHANGED <<vars, dictVars, zlVars, qlVars, raxVars, lzfVars, rdbVars, aeVars>>
       \/ structPart = "ae" /\ AeNext /\ UNCHANGED <<vars, dictVars, zlVars, qlVars, raxVars, lzfVars, rdbVars, bitVars>>

StSpec == StInit /\ [][StNext]_structVars
SpecQueue == structPart = "queue" /\ StInit /\ [][StNext]_structVars
SpecDict == structPart = "dict" /\ StInit /\ [][StNext]_structVars
SpecLists == structPart = "lists" /\ StInit /\ [][StNext]_structVars
SpecRax == structPart = "rax" /\ StInit /\ [][StNext]_structVars
SpecRdb == structPart = "rdb" /\ StInit /\ [][StNext]_structVars
SpecBits == structPart = "bits" /\ StInit /\ [][StNext]_structVars

\* Hash table, lists, radix tree and bit operations against the values they
\* stand for.
StructuresHold ==
    /\ DictKeepsEntries
    /\ ListsAreExact
    /\ RaxIsExact
    /\ BitsAreExact
=============================================================================
