------------------------------ MODULE MCTypes -------------------------------
(***************************************************************************)
(* Values of the keyspace: the types of Redis, and the relations of ADDB with *)
(* the commands that remove them, their columns and the partition filter.     *)
(* typePart says which part moves in a behaviour.                            *)
(***************************************************************************)
EXTENDS SortedSet, SetsAndHashes, Expiry, Hll, Sort, AddbKeyspace, AddbColumns, TLC

VARIABLE typePart
typeVars == <<typePart, zsVars, setVars, hashVars, exVars, hllVars, soVars, ksVars, colVars, fltVars>>

\* Adds and removals; removals by range; stores.
ZsF(S) == [e \in S |-> e % 2]
ZsIdle == [other |-> ZsNone, set |-> {}, menu |-> {}]
ZsScenarios ==
    {ZsIdle, [other |-> ZsNone, set |-> {}, menu |-> {"add", "rem"}],
     [other |-> ZsF({1, 3, 5}), set |-> {3}, menu |-> {"addtwo", "remrange", "store"}]}

\* Commands on two sets, the stores with fewer of the others.
FourInts == {-25, -5, 5, 15}
SetScenarios == {{}, {"sadd", "srem", "smove"}, {"sadd", "spop", "store"}}

\* A hash with values that are field names too.
HashScenarios == {{}, {"hset", "hdel"}, {"hset", "hincrby"}}

\* Keys that expire on a master with a replica behind, and on a writable replica.
ExIdle == [menu |-> {}, budget |-> [master |-> 0, replica |-> 0]]
ExScenarios ==
    {ExIdle,
     [menu |-> {"set", "setnx", "incr", "incrbyfloat", "expire", "persist", "rename", "del", "get", "active"}, budget |-> [master |-> 3, replica |-> 0]],
     [menu |-> {"set", "expire", "active", "read"}, budget |-> [master |-> 2, replica |-> 0]],
     [menu |-> {"set", "expire", "persist", "rename", "del"}, budget |-> [master |-> 0, replica |-> 5]]}

\* Eight registers, counts of one to three of which a sparse value holds one
\* and two: every order of additions, and merges of both encodings.
HllHash(i, c) == i + 8 * (IF c = 3 THEN 4 ELSE 2^(c - 1))
HllIdle == [keys |-> <<NoValue, NoValue>>, menu |-> [add |-> 0, count |-> 0, merge |-> 0, debug |-> 0, hashes |-> {}]]
Singles == {<<HllHash(i, c)>> : i \in Regs, c \in 1..2}
HllScenarios ==
    {HllIdle,
     [keys |-> <<NoValue>>, menu |-> [add |-> 5, count |-> 0, merge |-> 0, debug |-> 0, hashes |-> Singles]],
     [keys |-> <<NoValue, NoValue, PlainString>>, menu |-> [add |-> 3, count |-> 2, merge |-> 1, debug |-> 1,
         hashes |-> {<<>>, <<HllHash(0, 1), HllHash(1, 1)>>, <<HllHash(1, 2), HllHash(7, 3)>>, <<HllHash(5, 2), 7 + 8 * 0>>}]]}

\* Lists with duplicates, sets and sorted sets walked in two orders, weights
\* that tie, are missing or are no numbers.
SoNumbers == <<2, 1, 1, NotNumber>>
SoQ(desc, alpha, by, lim, get, store) ==
    [desc |-> desc, alpha |-> alpha, by |-> by, start |-> lim[1], count |-> lim[2], get |-> get, store |-> store, lua |-> FALSE]
SoLimits == {<<0, -1>>, <<-1, 2>>, <<1, 1>>, <<2, 3>>, <<3, 1>>, <<0, 0>>}
SoQueries == {SoQ(d, a, b, l, <<>>, st) : d \in BOOLEAN, a \in BOOLEAN, b \in {"none", "const", "pattern"}, l \in SoLimits, st \in BOOLEAN}
    \cup {SoQ(FALSE, TRUE, b, l, g, TRUE) : b \in {"const", "pattern"}, l \in {<<0, -1>>, <<1, 1>>}, g \in {<<"#", "w">>, <<"w">>}}
    \cup {[SoQ(TRUE, FALSE, "const", <<0, 2>>, <<>>, FALSE) EXCEPT !.lua = TRUE]}
SoStart(k, s, a, b, w) == [val |-> [kind |-> k, seq |-> s], walk |-> <<a, b>>, w |-> w, queries |-> SoQueries]
SoWeights == {<<0, 1, 2, 3>>, <<1, 1, 1, 1>>, <<3, 2, 0, 0>>, <<4, 1, 2, 1>>, <<2, 3, 2, 1>>}
SoScenarios ==
    {SoStart("list", <<>>, <<>>, <<>>, <<1, 1, 1, 1>>)}
    \cup {SoStart("list", s, s, s, w) : s \in {<<2, 1, 2>>, <<3, 1, 2>>, <<4, 1>>}, w \in SoWeights}
    \cup {SoStart(k, <<2, 1, 3>>, a, b, w) : k \in {"set", "zset"}, a \in {<<1, 2, 3>>, <<3, 1, 2>>}, b \in {<<2, 1, 3>>, <<3, 2, 1>>}, w \in SoWeights}
SoIdle == SoStart("list", <<>>, <<>>, <<>>, <<1, 1, 1, 1>>)
LongLimit == {[SoIdle EXCEPT !.val.seq = <<1, 2, 3>>, !.walk = <<<<1, 2, 3>>, <<1, 2, 3>>>>, !.queries = {SoQ(FALSE, TRUE, "none", <<2, 7>>, <<>>, FALSE)}], SoIdle}

\* Flushes and a restart; an asynchronous flush; a deletion and an asynchronous flush.
NoKs == [del |-> 0, flush |-> 0, async |-> 0, other |-> 0, restart |-> 0, total |-> 0,
         pulled |-> FALSE, partial |-> FALSE]
Removals == {[NoKs EXCEPT !.flush = 1, !.other = 1, !.restart = 1],
             [NoKs EXCEPT !.flush = 1, !.async = 1],
             [NoKs EXCEPT !.del = 1, !.async = 1]}
KsIdle == [NoKs EXCEPT !.flush = 1, !.async = 1]
AsyncFlush == {KsIdle, [NoKs EXCEPT !.async = 1]}
OneDelete == {KsIdle, [NoKs EXCEPT !.del = 1]}

\* Values with a leading blank and with the separators of the serialised form.
Values == {<<"a">>, <<" ", "b">>, <<"b", ":">>, <<"]">>, <<"null">>}

\* Three columns, of which the key of a partition has the first two.
Lg(n) == [type |-> "LONG", v |-> n]
Sd(x) == [type |-> "SDS", v |-> x]
Columns == <<{Lg(0), Lg(1)}, {Sd("a"), Sd("ab")}, {Lg(0), Lg(1)}>>
Like == {<<"CONTAINS", "a", "a">>, <<"CONTAINS", "a", "ab">>, <<"STARTS_WITH", "a", "a">>,
         <<"STARTS_WITH", "a", "ab">>, <<"ENDS_WITH", "a", "a">>}
Partitions == {1 :> a @@ 2 :> b : a \in Columns[1], b \in Columns[2]}
Leaf(op, col, v) == [op |-> op, operands |-> <<v, Lg(col)>>]
Operator(op) == [op |-> op, operands |-> <<>>]
Tokens == {Leaf("EQ", 1, Lg(0)), Leaf("LT", 1, Lg(1)), Leaf("GTE", 3, Lg(1)), Leaf("ENDS_WITH", 2, Sd("a")),
           Leaf("EQ", 2, Sd("ab")), Operator("AND"), Operator("OR"), Operator("NOT"),
           [op |-> "IS_NOT_NULL", operands |-> <<Lg(2)>>]}

TyInit ==
    /\ typePart \in {"zset", "sets", "hashes", "expiry", "hll", "sort", "keyspace", "columns", "filter"}
    /\ ZsInit /\ (typePart # "zset" => zsMenu = {})
    /\ SetInit /\ (typePart # "sets" => setMenu = {})
    /\ HashInit /\ (typePart # "hashes" => hashMenu = {})
    /\ ExInit /\ (typePart # "expiry" => exMenu = {})
    /\ HllInit /\ (typePart # "hll" => hllMenu.add = 0)
    /\ SoInit /\ (typePart # "sort" => so = SoIdle)
    /\ KsInit /\ (typePart # "keyspace" => ksBudget = KsIdle)
    /\ ColInit
    /\ FltInit

TyNext ==
    /\ UNCHANGED typePart
    /\ \/ typePart = "zset" /\ ZsNext /\ UNCHANGED <<setVars, hashVars, exVars, hllVars, soVars, ksVars, colVars, fltVars>>
       \/ typePart = "sets" /\ SetNext /\ UNCHANGED <<zsVars, hashVars, exVars, hllVars, soVars, ksVars, colVars, fltVars>>
       \/ typePart = "hashes" /\ HashNext /\ UNCHANGED <<zsVars, setVars, exVars, hllVars, soVars, ksVars, colVars, fltVars>>
       \/ typePart = "expiry" /\ ExNext /\ UNCHANGED <<zsVars, setVars, hashVars, hllVars, soVars, ksVars, colVars, fltVars>>
       \/ typePart = "hll" /\ HllNext /\ UNCHANGED <<zsVars, setVars, hashVars, exVars, soVars, ksVars, colVars, fltVars>>
       \/ typePart = "sort" /\ SoNext /\ UNCHANGED <<zsVars, setVars, hashVars, exVars, hllVars, ksVars, colVars, fltVars>>
       \/ typePart = "keyspace" /\ KsNext /\ UNCHANGED <<zsVars, setVars, hashVars, exVars, hllVars, soVars, colVars, fltVars>>
       \/ typePart = "columns" /\ ColNext /\ UNCHANGED <<zsVars, setVars, hashVars, exVars, hllVars, soVars, ksVars, fltVars>>
       \/ typePart = "filter" /\ FltNext /\ UNCHANGED <<zsVars, setVars, hashVars, exVars, hllVars, soVars, ksVars, colVars>>

TySpec == TyInit /\ [][TyNext]_typeVars
SpecExpiry == typePart = "expiry" /\ TyInit /\ [][TyNext]_typeVars
SpecSort == typePart = "sort" /\ TyInit /\ [][TyNext]_typeVars
SpecKeyspace == typePart = "keyspace" /\ TyInit /\ [][TyNext]_typeVars
SpecColumns == typePart = "columns" /\ TyInit /\ [][TyNext]_typeVars

\* Sorted sets, sets, hashes, HyperLogLogs and SORT against the values they stand
\* for.
ValuesHold ==
    /\ SortedSetIsExact
    /\ SetsAndHashesAreExact
    /\ HllIsExact
    /\ SortIsRight
    /\ SortReplicatesUntied
=============================================================================
