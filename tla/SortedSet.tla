----------------------------- MODULE SortedSet ------------------------------
(***************************************************************************)
(* A sorted set (t_zset.c) in its two encodings: a ziplist of pairs in order, *)
(* and a skiplist with spans beside a dictionary from elements to scores.     *)
(* Elements and scores are numbers, elements compared as sdscmp compares       *)
(* strings.  Scores are finite.                                                *)
(***************************************************************************)
EXTENDS Integers, Sequences, FiniteSets, SequencesExt, FiniteSetsExt, Functions

CONSTANTS ZsElements, ZsLong,       \* elements; those longer than zset-max-ziplist-value
          ZsScores,                 \* scores of ZADD
          ZsMaxScore,               \* bound on the scores that increments and aggregates make
          ZsEntries, ZsMaxLevel,    \* zset-max-ziplist-entries, ZSKIPLIST_MAXLEVEL
          ZsStarts                  \* [other, set, menu]: a second sorted set, a set, the commands

VARIABLES zset, zsRef,              \* the object, and the scores it should hold
          zsOther, zsSet, zsMenu

zsVars == <<zset, zsRef, zsOther, zsSet, zsMenu>>

Header == 0
Nil == -1
Unlimited == 99

\* The reference: pairs in order, by score and then by element.
ZsBefore(s1, e1, s2, e2) == s1 < s2 \/ (s1 = s2 /\ e1 < e2)
ZsSorted(f) ==
    [k \in 1..Cardinality(DOMAIN f) |->
        LET e == CHOOSE x \in DOMAIN f : Cardinality({y \in DOMAIN f : ZsBefore(f[y], y, f[x], x)}) = k - 1 IN [e |-> e, s |-> f[e]]]
ZsNone == [e \in {} |-> 0]

-----------------------------------------------------------------------------
\* Skiplist: n maps Header and the elements to nodes [s, lv, b]; lv holds the
\* forward pointers and spans.
NoLink == [f |-> Nil, span |-> 0]
zslCreate == [level |-> 1, length |-> 0, tail |-> Nil, n |-> [x \in {Header} |-> [s |-> 0, lv |-> [i \in 1..ZsMaxLevel |-> NoLink], b |-> Nil]]]
ZslNodes(z) == DOMAIN z.n \ {Header}
ZslFirst(z) == z.n[Header].lv[1].f

\* Along a level while the next node is in before and the rank does not pass the
\* limit; then a level down, from where it stopped.
RECURSIVE ZslRun(_, _, _, _, _, _)
ZslRun(z, x, i, r, before, limit) ==
    LET l == z.n[x].lv[i]
    IN  IF l.f # Nil /\ l.f \in before /\ r + l.span <= limit THEN ZslRun(z, l.f, i, r + l.span, before, limit) ELSE [x |-> x, r |-> r]
RECURSIVE ZslDown(_, _, _, _, _, _)
ZslDown(z, x, i, r, before, limit) ==
    LET s == ZslRun(z, x, i, r, before, limit) IN IF i = 1 THEN <<s>> ELSE Append(ZslDown(z, s.x, i - 1, s.r, before, limit), s)
ZslUpdate(z, before, limit) == ZslDown(z, Header, z.level, 0, before, limit)

\* Mutant: the levels above the new node's are not told of it.
InsertBelowOnly(z, score, e, level) ==
    LET before == {x \in ZslNodes(z) : ZsBefore(z.n[x].s, x, score, e)}
        u == ZslUpdate(z, before, Unlimited)
        at(i) == IF i <= z.level THEN u[i] ELSE [x |-> Header, r |-> 0]
        span(i) == IF i <= z.level THEN z.n[u[i].x].lv[i].span ELSE z.length
        fwd(i) == z.n[at(i).x].lv[i].f
        link(x, i) == IF i <= level /\ at(i).x = x THEN [f |-> e, span |-> u[1].r - at(i).r + 1] ELSE z.n[x].lv[i]
        new == [s |-> score, lv |-> [i \in 1..level |-> [f |-> fwd(i), span |-> span(i) - (u[1].r - at(i).r)]],
                b |-> IF u[1].x = Header THEN Nil ELSE u[1].x]
        old(x) == [s |-> z.n[x].s, lv |-> [i \in DOMAIN z.n[x].lv |-> link(x, i)], b |-> IF x = fwd(1) THEN e ELSE z.n[x].b]
    IN  [level |-> IF level > z.level THEN level ELSE z.level, length |-> z.length + 1,
         tail |-> IF fwd(1) = Nil THEN e ELSE z.tail,
         n |-> [x \in DOMAIN z.n \cup {e} |-> IF x = e THEN new ELSE old(x)]]

zslInsert(z, score, e, level) ==
    LET before == {x \in ZslNodes(z) : ZsBefore(z.n[x].s, x, score, e)}
        u == ZslUpdate(z, before, Unlimited)
        at(i) == IF i <= z.level THEN u[i] ELSE [x |-> Header, r |-> 0]
        span(i) == IF i <= z.level THEN z.n[u[i].x].lv[i].span ELSE z.length
        fwd(i) == z.n[at(i).x].lv[i].f
        link(x, i) == CASE i <= level /\ at(i).x = x -> [f |-> e, span |-> u[1].r - at(i).r + 1]
                        [] i > level /\ i <= z.level /\ at(i).x = x -> [f |-> z.n[x].lv[i].f, span |-> z.n[x].lv[i].span + 1]
                        [] OTHER -> z.n[x].lv[i]
        new == [s |-> score, lv |-> [i \in 1..level |-> [f |-> fwd(i), span |-> span(i) - (u[1].r - at(i).r)]],
                b |-> IF u[1].x = Header THEN Nil ELSE u[1].x]
        old(x) == [s |-> z.n[x].s, lv |-> [i \in DOMAIN z.n[x].lv |-> link(x, i)], b |-> IF x = fwd(1) THEN e ELSE z.n[x].b]
    IN  [level |-> IF level > z.level THEN level ELSE z.level, length |-> z.length + 1,
         tail |-> IF fwd(1) = Nil THEN e ELSE z.tail,
         n |-> [x \in DOMAIN z.n \cup {e} |-> IF x = e THEN new ELSE old(x)]]

zslDeleteNode(z, e, u) ==
    LET gone == z.n[e]
        link(x, i) == IF i > z.level \/ u[i].x # x THEN z.n[x].lv[i]
                      ELSE IF z.n[x].lv[i].f = e THEN [f |-> gone.lv[i].f, span |-> z.n[x].lv[i].span + gone.lv[i].span - 1]
                      ELSE [f |-> z.n[x].lv[i].f, span |-> z.n[x].lv[i].span - 1]
        n == [x \in DOMAIN z.n \ {e} |-> [s |-> z.n[x].s, lv |-> [i \in DOMAIN z.n[x].lv |-> link(x, i)],
                                          b |-> IF x = gone.lv[1].f THEN gone.b ELSE z.n[x].b]]
    IN  [level |-> Max({1} \cup {i \in 1..z.level : n[Header].lv[i].f # Nil}), length |-> z.length - 1,
         tail |-> IF gone.lv[1].f = Nil THEN gone.b ELSE z.tail, n |-> n]

zslDelete(z, score, e) ==
    LET u == ZslUpdate(z, {x \in ZslNodes(z) : ZsBefore(z.n[x].s, x, score, e)}, Unlimited)
        x == z.n[u[1].x].lv[1].f
    IN  IF x = e /\ z.n[x].s = score THEN zslDeleteNode(z, e, u) ELSE z

\* The nodes behind the ones in u, as long as they are in the range, at most num.
RECURSIVE ZslDeleteWhile(_, _, _, _)
ZslDeleteWhile(z, u, in, num) ==
    LET x == z.n[u[1].x].lv[1].f IN IF x = Nil \/ x \notin in \/ num = 0 THEN z ELSE ZslDeleteWhile(zslDeleteNode(z, x, u), u, in, num - 1)

zslValueGteMin(v, r) == IF r.minex THEN v > r.min ELSE v >= r.min
zslValueLteMax(v, r) == IF r.maxex THEN v < r.max ELSE v <= r.max

zslDeleteRangeByScore(z, r) ==
    ZslDeleteWhile(z, ZslUpdate(z, {x \in ZslNodes(z) : ~zslValueGteMin(z.n[x].s, r)}, Unlimited),
                   {x \in ZslNodes(z) : zslValueLteMax(z.n[x].s, r)}, z.length)
zslDeleteRangeByLex(z, r) ==
    ZslDeleteWhile(z, ZslUpdate(z, {x \in ZslNodes(z) : ~zslValueGteMin(x, r)}, Unlimited),
                   {x \in ZslNodes(z) : zslValueLteMax(x, r)}, z.length)
zslDeleteRangeByRank(z, start, end) == ZslDeleteWhile(z, ZslUpdate(z, ZslNodes(z), start - 1), ZslNodes(z), end - start + 1)

\* Rank from 1; 0 if there is none.
zslGetRank(z, score, e) ==
    LET u == ZslUpdate(z, {x \in ZslNodes(z) : ZsBefore(z.n[x].s, x, score, e) \/ (z.n[x].s = score /\ x = e)}, Unlimited)
        found == {i \in DOMAIN u : u[i].x = e}
    IN  IF found = {} THEN 0 ELSE u[Max(found)].r
zslGetElementByRank(z, rank) ==
    LET u == ZslUpdate(z, ZslNodes(z), rank)
        found == {i \in DOMAIN u : u[i].r = rank}
    IN  IF found = {} THEN Nil ELSE u[Max(found)].x

\* Ranges by score, and by element (Val picks what is compared).
ZslVal(z, x, lex) == IF lex THEN x ELSE z.n[x].s
EmptyRange(r) == r.min > r.max \/ (r.min = r.max /\ (r.minex \/ r.maxex))
LexEmptyRange(r) == r.min = r.max /\ (r.minex \/ r.maxex)
zslIsInRange(z, r, lex) ==
    /\ IF lex THEN ~LexEmptyRange(r) ELSE ~EmptyRange(r)
    /\ z.tail # Nil /\ zslValueGteMin(ZslVal(z, z.tail, lex), r)
    /\ ZslFirst(z) # Nil /\ zslValueLteMax(ZslVal(z, ZslFirst(z), lex), r)
zslFirstInRange(z, r, lex) ==
    LET u == ZslUpdate(z, {x \in ZslNodes(z) : ~zslValueGteMin(ZslVal(z, x, lex), r)}, Unlimited)
        x == z.n[u[1].x].lv[1].f
    IN  IF zslIsInRange(z, r, lex) /\ zslValueLteMax(ZslVal(z, x, lex), r) THEN x ELSE Nil
zslLastInRange(z, r, lex) ==
    LET u == ZslUpdate(z, {x \in ZslNodes(z) : zslValueLteMax(ZslVal(z, x, lex), r)}, Unlimited)
        x == u[1].x
    IN  IF zslIsInRange(z, r, lex) /\ zslValueGteMin(ZslVal(z, x, lex), r) THEN x ELSE Nil

-----------------------------------------------------------------------------
\* Ziplist: the pairs, from the lowest.
zzlFind(zl, e) == LET p == {k \in DOMAIN zl : zl[k].e = e} IN IF p = {} THEN 0 ELSE Min(p)
zzlInsert(zl, e, score) ==
    LET p == {k \in DOMAIN zl : zl[k].s > score \/ (zl[k].s = score /\ zl[k].e > e)}
    IN  InsertAt(zl, IF p = {} THEN Len(zl) + 1 ELSE Min(p), [e |-> e, s |-> score])
ZzlVal(p, lex) == IF lex THEN p.e ELSE p.s
zzlIsInRange(zl, r, lex) ==
    /\ IF lex THEN ~LexEmptyRange(r) ELSE ~EmptyRange(r)
    /\ zl # <<>> /\ zslValueGteMin(ZzlVal(zl[Len(zl)], lex), r) /\ zslValueLteMax(ZzlVal(zl[1], lex), r)
zzlFirstInRange(zl, r, lex) ==
    LET k == Min({j \in DOMAIN zl : zslValueGteMin(ZzlVal(zl[j], lex), r)})
    IN  IF zzlIsInRange(zl, r, lex) /\ zslValueLteMax(ZzlVal(zl[k], lex), r) THEN k ELSE 0
zzlLastInRange(zl, r, lex) ==
    LET k == Max({j \in DOMAIN zl : zslValueLteMax(ZzlVal(zl[j], lex), r)})
    IN  IF zzlIsInRange(zl, r, lex) /\ zslValueGteMin(ZzlVal(zl[k], lex), r) THEN k ELSE 0
zzlDeleteRangeByScore(zl, r, lex) ==
    LET k == zzlFirstInRange(zl, r, lex)
        stop == {j \in DOMAIN zl : j > k /\ ~zslValueLteMax(ZzlVal(zl[j], lex), r)}
    IN  IF k = 0 THEN zl ELSE SubSeq(zl, 1, k - 1) \o SubSeq(zl, IF stop = {} THEN Len(zl) + 1 ELSE Min(stop), Len(zl))
zzlDeleteRangeByRank(zl, start, end) == SubSeq(zl, 1, start - 1) \o SubSeq(zl, end + 1, Len(zl))

-----------------------------------------------------------------------------
\* The object, which frees what the encoding in use does not need.
ZsAbsent == [enc |-> "none", zl |-> <<>>, z |-> zslCreate, d |-> ZsNone]
ZsZiplist(zl) == [enc |-> "ziplist", zl |-> zl, z |-> zslCreate, d |-> ZsNone]
ZsSkiplist(z, d) == [enc |-> "skiplist", zl |-> <<>>, z |-> z, d |-> d]

zsetLength(o) == IF o.enc = "skiplist" THEN o.z.length ELSE Len(o.zl)

\* lv gives zslRandomLevel's draws.
RECURSIVE ZslFill(_, _, _)
ZslFill(z, pairs, lv) == IF pairs = <<>> THEN z ELSE ZslFill(zslInsert(z, Head(pairs).s, Head(pairs).e, lv[Head(pairs).e]), Tail(pairs), lv)
RECURSIVE ZslWalk(_, _)
ZslWalk(z, x) == IF x = Nil THEN <<>> ELSE <<[e |-> x, s |-> z.n[x].s]>> \o ZslWalk(z, z.n[x].lv[1].f)
ZsPairs(o) == IF o.enc = "skiplist" THEN ZslWalk(o.z, ZslFirst(o.z)) ELSE o.zl
zsetConvert(o, enc, lv) ==
    IF o.enc = enc THEN o
    ELSE IF enc = "skiplist" THEN ZsSkiplist(ZslFill(zslCreate, o.zl, lv), [e \in {o.zl[k].e : k \in DOMAIN o.zl} |-> o.zl[zzlFind(o.zl, e)].s])
    ELSE ZsZiplist(ZsPairs(o))

zsetScore(o, e) == IF o.enc = "skiplist" THEN IF e \in DOMAIN o.d THEN {o.d[e]} ELSE {}
                   ELSE {o.zl[k].s : k \in {zzlFind(o.zl, e)} \ {0}}

\* Flags nx, xx, incr; an unchanged score changes nothing.  Only an element that
\* is added can convert the ziplist.
zsetAdd(o, score, e, f, lv) ==
    LET cur == zsetScore(o, e)
        old == CHOOSE s \in cur : TRUE
        new == IF f.incr /\ cur # {} THEN old + score ELSE score
        zl == IF cur = {} THEN o.zl ELSE RemoveAt(o.zl, zzlFind(o.zl, e))
        grown == ZsZiplist(zzlInsert(zl, e, new))
    IN  IF (cur # {} /\ f.nx) \/ (cur = {} /\ f.xx) \/ cur = {new} THEN o
        ELSE IF o.enc # "skiplist" THEN IF cur = {} /\ (Len(grown.zl) > ZsEntries \/ e \in ZsLong) THEN zsetConvert(grown, "skiplist", lv) ELSE grown
        ELSE ZsSkiplist(zslInsert(IF cur = {} THEN o.z ELSE zslDelete(o.z, old, e), new, e, lv[e]), [e2 \in {e} |-> new] @@ o.d)

zsetDel(o, e) ==
    IF zsetScore(o, e) = {} THEN o
    ELSE IF o.enc = "ziplist" THEN ZsZiplist(RemoveAt(o.zl, zzlFind(o.zl, e)))
    ELSE ZsSkiplist(zslDelete(o.z, o.d[e], e), Restrict(o.d, DOMAIN o.d \ {e}))

\* Rank from 0, from the other end if reverse; -1 if there is none.
zsetRank(o, e, reverse) ==
    LET k == IF o.enc = "ziplist" THEN zzlFind(o.zl, e)
             ELSE IF e \in DOMAIN o.d THEN zslGetRank(o.z, o.d[e], e) ELSE 0
    IN  IF k = 0 THEN -1 ELSE IF reverse THEN zsetLength(o) - k ELSE k - 1

\* Indexes of ZRANGE and ZREMRANGEBYRANK: negative ones from the end.
ZsIndexes(len, start, end) ==
    LET s == IF start < 0 THEN start + len ELSE start
        e == IF end < 0 THEN end + len ELSE end
        s0 == IF s < 0 THEN 0 ELSE s
    IN  IF s0 > e \/ s0 >= len THEN {} ELSE {[s |-> s0, e |-> IF e >= len THEN len - 1 ELSE e]}

-----------------------------------------------------------------------------
\* Commands that read.
RECURSIVE ZslTake(_, _, _, _)
ZslTake(z, x, k, reverse) == IF k = 0 THEN <<>> ELSE <<x>> \o ZslTake(z, IF reverse THEN z.n[x].b ELSE z.n[x].lv[1].f, k - 1, reverse)
zrangeGenericCommand(o, start, end, reverse) ==
    LET len == zsetLength(o)
        ix == ZsIndexes(len, start, end)
        r == CHOOSE i \in ix : TRUE
        from == IF reverse THEN IF r.s > 0 THEN zslGetElementByRank(o.z, len - r.s) ELSE o.z.tail
                ELSE IF r.s > 0 THEN zslGetElementByRank(o.z, r.s + 1) ELSE ZslFirst(o.z)
    IN  IF ix = {} THEN <<>>
        ELSE IF o.enc = "ziplist" THEN [k \in 1..(r.e - r.s + 1) |-> o.zl[IF reverse THEN len - r.s - k + 1 ELSE r.s + k].e]
        ELSE ZslTake(o.z, from, r.e - r.s + 1, reverse)

\* LIMIT: a negative offset skips everything, a negative limit takes everything.
RECURSIVE ZslRange(_, _, _, _, _, _, _)
ZslRange(z, x, r, lex, reverse, offset, limit) ==
    LET next == IF reverse THEN z.n[x].b ELSE z.n[x].lv[1].f
    IN  IF x = Nil THEN <<>>
        ELSE IF offset # 0 THEN ZslRange(z, next, r, lex, reverse, offset - 1, limit)
        ELSE IF limit = 0 \/ (IF reverse THEN ~zslValueGteMin(ZslVal(z, x, lex), r) ELSE ~zslValueLteMax(ZslVal(z, x, lex), r)) THEN <<>>
        ELSE <<x>> \o ZslRange(z, next, r, lex, reverse, 0, limit - 1)
RECURSIVE ZzlRange(_, _, _, _, _, _, _)
ZzlRange(zl, k, r, lex, reverse, offset, limit) ==
    LET next == IF reverse THEN k - 1 ELSE k + 1
    IN  IF k \notin DOMAIN zl THEN <<>>
        ELSE IF offset # 0 THEN ZzlRange(zl, next, r, lex, reverse, offset - 1, limit)
        ELSE IF limit = 0 \/ (IF reverse THEN ~zslValueGteMin(ZzlVal(zl[k], lex), r) ELSE ~zslValueLteMax(ZzlVal(zl[k], lex), r)) THEN <<>>
        ELSE <<zl[k].e>> \o ZzlRange(zl, next, r, lex, reverse, 0, limit - 1)
genericZrangebyscoreCommand(o, r, reverse, offset, limit) ==
    IF o.enc = "skiplist" THEN ZslRange(o.z, IF reverse THEN zslLastInRange(o.z, r, FALSE) ELSE zslFirstInRange(o.z, r, FALSE), r, FALSE, reverse, offset, limit)
    ELSE ZzlRange(o.zl, IF reverse THEN zzlLastInRange(o.zl, r, FALSE) ELSE zzlFirstInRange(o.zl, r, FALSE), r, FALSE, reverse, offset, limit)
genericZrangebylexCommand(o, r, reverse, offset, limit) ==
    IF o.enc = "skiplist" THEN ZslRange(o.z, IF reverse THEN zslLastInRange(o.z, r, TRUE) ELSE zslFirstInRange(o.z, r, TRUE), r, TRUE, reverse, offset, limit)
    ELSE ZzlRange(o.zl, IF reverse THEN zzlLastInRange(o.zl, r, TRUE) ELSE zzlFirstInRange(o.zl, r, TRUE), r, TRUE, reverse, offset, limit)

\* In a skiplist, by the ranks of the two ends.
ZsCount(o, r, lex) ==
    LET first == zslFirstInRange(o.z, r, lex)
        last == zslLastInRange(o.z, r, lex)
        rank(x) == zslGetRank(o.z, o.z.n[x].s, x)
    IN  IF o.enc = "skiplist"
        THEN IF first = Nil THEN 0
             ELSE o.z.length - (rank(first) - 1) - (IF last = Nil THEN 0 ELSE o.z.length - rank(last))
        ELSE Len(ZzlRange(o.zl, zzlFirstInRange(o.zl, r, lex), r, lex, FALSE, 0, -1))
zcountCommand(o, r) == ZsCount(o, r, FALSE)
zlexcountCommand(o, r) == ZsCount(o, r, TRUE)

-----------------------------------------------------------------------------
\* Commands that write.  The key goes when its last element goes.
ZsKey(o) == IF zsetLength(o) = 0 THEN ZsAbsent ELSE o

\* Pairs are parsed before the first of them is applied.
RECURSIVE ZsAddAll(_, _, _, _)
ZsAddAll(o, pairs, f, lv) == IF pairs = <<>> THEN o ELSE ZsAddAll(zsetAdd(o, Head(pairs).s, Head(pairs).e, f, lv), Tail(pairs), f, lv)
zaddGenericCommand(o, pairs, f, lv) ==
    IF o.enc # "none" THEN ZsAddAll(o, pairs, f, lv)
    ELSE IF f.xx THEN o
    ELSE ZsAddAll(IF ZsEntries = 0 \/ pairs[1].e \in ZsLong THEN ZsSkiplist(zslCreate, ZsNone) ELSE ZsZiplist(<<>>), pairs, f, lv)
zremCommand(o, e) == IF o.enc = "none" THEN o ELSE ZsKey(zsetDel(o, e))

ZsDictOf(o, z) == Restrict(o.d, ZslNodes(z))
zremrangeGenericCommand(o, type, r) ==
    LET ix == ZsIndexes(zsetLength(o), r.min, r.max)
        i == CHOOSE x \in ix : TRUE
        zl == CASE type = "rank" -> zzlDeleteRangeByRank(o.zl, i.s + 1, i.e + 1)
                [] type = "score" -> zzlDeleteRangeByScore(o.zl, r, FALSE)
                [] type = "lex" -> zzlDeleteRangeByScore(o.zl, r, TRUE)
        z == CASE type = "rank" -> zslDeleteRangeByRank(o.z, i.s + 1, i.e + 1)
               [] type = "score" -> zslDeleteRangeByScore(o.z, r)
               [] type = "lex" -> zslDeleteRangeByLex(o.z, r)
    IN  IF o.enc = "none" \/ (type = "rank" /\ ix = {}) THEN o
        ELSE ZsKey(IF o.enc = "ziplist" THEN ZsZiplist(zl) ELSE ZsSkiplist(z, ZsDictOf(o, z)))

zunionInterAggregate(target, val, aggr) ==
    CASE aggr = "sum" -> target + val
      [] aggr = "min" -> IF val < target THEN val ELSE target
      [] aggr = "max" -> IF val > target THEN val ELSE target
\* A source is what zuiInitIterator, zuiNext and zuiFind give of it: pairs, in
\* which an element of a plain set has score 1.
ZuiPairs(o) == [e \in {p.e : p \in Range(ZsPairs(o))} |-> CHOOSE s \in zsetScore(o, e) : TRUE]
ZuiSet(S) == [e \in S |-> 1]
zuiCompareByCardinality(a, b) == Cardinality(DOMAIN a.src) <= Cardinality(DOMAIN b.src)

\* Two sources, the smaller first; elements of the smaller are looked up in the
\* larger, or both are added to an accumulator.
ZuiCombine(srcs, op, aggr) ==
    LET sorted == IF zuiCompareByCardinality(srcs[1], srcs[2]) THEN srcs ELSE Reverse(srcs)
        val(j, e) == sorted[j].w * sorted[j].src[e]
        both == DOMAIN srcs[1].src \cap DOMAIN srcs[2].src
    IN  IF op = "inter" THEN [e \in both |-> zunionInterAggregate(val(1, e), val(2, e), aggr)]
        ELSE [e \in DOMAIN srcs[1].src \cup DOMAIN srcs[2].src |->
                 IF e \in both THEN zunionInterAggregate(val(1, e), val(2, e), aggr)
                 ELSE IF e \in DOMAIN sorted[1].src THEN val(1, e) ELSE val(2, e)]
zsetConvertToZiplistIfNeeded(o, lv) ==
    IF o.z.length <= ZsEntries /\ ZslNodes(o.z) \cap ZsLong = {} THEN zsetConvert(o, "ziplist", lv) ELSE o
\* The result takes the place of the key, order the order of insertion.
zunionInterGenericCommand(result, order, lv) ==
    IF DOMAIN result = {} THEN ZsAbsent
    ELSE zsetConvertToZiplistIfNeeded(ZsSkiplist(ZslFill(zslCreate, order, lv), result), lv)

-----------------------------------------------------------------------------
ZsInit == \E st \in ZsStarts :
    /\ zset = ZsAbsent /\ zsRef = ZsNone /\ zsOther = st.other /\ zsSet = st.set /\ zsMenu = st.menu

ZsFlags == {[nx |-> FALSE, xx |-> FALSE, incr |-> FALSE], [nx |-> TRUE, xx |-> FALSE, incr |-> FALSE],
            [nx |-> FALSE, xx |-> TRUE, incr |-> FALSE], [nx |-> FALSE, xx |-> FALSE, incr |-> TRUE]}
\* Levels: one draw, or a draw for each element where several are inserted.
ZsDraws(many) == IF many THEN [ZsElements -> 1..ZsMaxLevel] ELSE {[e \in ZsElements |-> l] : l \in 1..ZsMaxLevel}
ZsRanges(ends) == [min : ends, max : ends, minex : BOOLEAN, maxex : BOOLEAN]
ZsScoreRanges == ZsRanges(0..ZsMaxScore)
ZsLexRanges == ZsRanges({0, Max(ZsElements) + 1} \cup (ZsElements \ {Min(ZsElements), Max(ZsElements)}))
ZsSameScore(f) == Cardinality(Range(f)) <= 1

ZsRefAdd(ref, p, f) ==
    LET has == p.e \in DOMAIN ref
    IN  IF (has /\ f.nx) \/ (~has /\ f.xx) THEN ref
        ELSE [e \in {p.e} |-> IF has /\ f.incr THEN ref[p.e] + p.s ELSE p.s] @@ ref
ZsAdd == \E e \in ZsElements, s \in ZsScores, f \in ZsFlags :
    LET p == [e |-> e, s |-> s]
        ref == ZsRefAdd(zsRef, p, f)
    IN  /\ "add" \in zsMenu /\ ref # zsRef
        /\ \A x \in DOMAIN ref : ref[x] <= ZsMaxScore
        /\ zsRef' = ref
        /\ \E lv \in ZsDraws(zset.enc = "ziplist" /\ Len(zset.zl) = ZsEntries) : zset' = zaddGenericCommand(zset, <<p>>, f, lv)
        /\ UNCHANGED <<zsOther, zsSet, zsMenu>>
\* Two pairs, possibly of one element: the second counts.  Elements of the other keys.
ZsAddTwo == \E e1, e2 \in DOMAIN zsOther \cup zsSet, s1, s2 \in ZsScores, lv \in ZsDraws(FALSE) :
    LET ps == <<[e |-> e1, s |-> s1], [e |-> e2, s |-> s2]>>
        f == [nx |-> FALSE, xx |-> FALSE, incr |-> FALSE]
    IN  /\ "addtwo" \in zsMenu /\ e2 <= e1
        /\ zsRef' = ZsRefAdd(ZsRefAdd(zsRef, ps[1], f), ps[2], f)
        /\ zset' = zaddGenericCommand(zset, ps, f, lv)
        /\ UNCHANGED <<zsOther, zsSet, zsMenu>>
ZsRem == \E e \in ZsElements :
    /\ "rem" \in zsMenu
    /\ zset' = zremCommand(zset, e) /\ zsRef' = Restrict(zsRef, DOMAIN zsRef \ {e})
    /\ UNCHANGED <<zsOther, zsSet, zsMenu>>

ZsIn(v, r) == (v > r.min \/ (v = r.min /\ ~r.minex)) /\ (v < r.max \/ (v = r.max /\ ~r.maxex))
ZsRemRange ==
    /\ "remrange" \in zsMenu
    /\ \/ \E r \in ZsScoreRanges :
              /\ zset' = zremrangeGenericCommand(zset, "score", r)
              /\ zsRef' = Restrict(zsRef, {e \in DOMAIN zsRef : ~ZsIn(zsRef[e], r)})
       \/ \E r \in ZsLexRanges :
              /\ ZsSameScore(zsRef)
              /\ zset' = zremrangeGenericCommand(zset, "lex", r)
              /\ zsRef' = Restrict(zsRef, {e \in DOMAIN zsRef : ~ZsIn(e, r)})
       \/ \E a, b \in -2..2 :
              LET q == ZsSorted(zsRef)
                  at(i) == IF i < 0 THEN Len(q) + i ELSE i
              IN  /\ zset' = zremrangeGenericCommand(zset, "rank", [min |-> a, max |-> b])
                  /\ zsRef' = Restrict(zsRef, {q[k].e : k \in {j \in DOMAIN q : ~(j - 1 >= at(a) /\ j - 1 <= at(b))}})
    /\ UNCHANGED <<zsOther, zsSet, zsMenu>>

\* What the aggregate of the values of the sources an element is in should be.
ZsAggregate(srcs, e, aggr) ==
    LET in == {j \in DOMAIN srcs : e \in DOMAIN srcs[j].src}
        vals == {srcs[j].w * srcs[j].src[e] : j \in in}
    IN  CASE aggr = "sum" -> MapThenSumSet(LAMBDA j : srcs[j].w * srcs[j].src[e], in) [] aggr = "min" -> Min(vals) [] aggr = "max" -> Max(vals)
ZsStore == \E w2 \in {1, 2}, op \in {"union", "inter"}, aggr \in {"sum", "min", "max"}, with \in {"other", "set", "self"} :
    LET second == CASE with = "other" -> zsOther [] with = "set" -> ZuiSet(zsSet) [] with = "self" -> ZuiPairs(zset)
        srcs == <<[src |-> ZuiPairs(zset), w |-> 1], [src |-> second, w |-> w2]>>
        result == ZuiCombine(srcs, op, aggr)
        refs == <<[src |-> zsRef, w |-> 1], [src |-> IF with = "self" THEN zsRef ELSE second, w |-> w2]>>
        dom == IF op = "union" THEN DOMAIN zsRef \cup DOMAIN refs[2].src ELSE DOMAIN zsRef \cap DOMAIN refs[2].src
    IN  /\ "store" \in zsMenu
        /\ \A e \in DOMAIN result : result[e] <= ZsMaxScore
        /\ zsRef' = [e \in dom |-> ZsAggregate(refs, e, aggr)]
        /\ \E lv \in ZsDraws(FALSE) : zset' = zunionInterGenericCommand(result, Reverse(ZsSorted(result)), lv)
        /\ UNCHANGED <<zsOther, zsSet, zsMenu>>

ZsNext == ZsAdd \/ ZsAddTwo \/ ZsRem \/ ZsRemRange \/ ZsStore

-----------------------------------------------------------------------------
\* Whatever was added, removed by range or stored, both encodings hold what they
\* should, in order, and the dictionary beside a skiplist has the scores of its
\* nodes (zsetAdd, zsetDel, zremrangeGenericCommand, zunionInterGenericCommand).
SortedSetHolds ==
    /\ ZsPairs(zset) = ZsSorted(zsRef) /\ (zset.enc = "none") = (zsRef = ZsNone)
    /\ zset.enc = "skiplist" => zset.d = zsRef /\ zset.z.length = Cardinality(DOMAIN zsRef)
    /\ zset.enc = "ziplist" => Len(zset.zl) <= ZsEntries /\ DOMAIN zsRef \cap ZsLong = {}

\* At every level of the skiplist a span is the distance in ranks to the next
\* node (of the last one, to the end), the links are those of the nodes tall
\* enough, and backward links and tail are the first level reversed (zslInsert, zslDeleteNode).
SkiplistIsExact ==
    LET z == zset.z
        q == [k \in 1..(Cardinality(DOMAIN zsRef) + 1) |-> IF k = 1 THEN Header ELSE ZsSorted(zsRef)[k - 1].e]
        pos(x) == CHOOSE k \in DOMAIN q : q[k] = x
    IN  zset.enc = "skiplist" =>
        /\ DOMAIN z.n = Range(q) /\ z.tail = q[Len(q)]
        /\ z.level = Max({Len(z.n[x].lv) : x \in ZslNodes(z)})
        /\ \A x \in DOMAIN z.n : \A i \in 1..z.level : i \in DOMAIN z.n[x].lv =>
               LET later == {k \in DOMAIN q : k > pos(x) /\ i \in DOMAIN z.n[q[k]].lv}
               IN  z.n[x].lv[i] = IF later = {} THEN [f |-> Nil, span |-> Len(q) - pos(x)] ELSE [f |-> q[Min(later)], span |-> Min(later) - pos(x)]
        /\ \A k \in 2..Len(q) : z.n[q[k]].b = IF k = 2 THEN Nil ELSE q[k - 1]

\* Every query is answered as from the sorted pairs: rank from both ends, range
\* by rank, by score and by element with LIMIT, and counts, which a skiplist computes from the
\* ranks of the two ends (zsetRank, zrangeGenericCommand,
\* genericZrangebyscoreCommand, genericZrangebylexCommand, zcountCommand).
SortedSetAnswers ==
    LET q == ZsSorted(zsRef)
        n == Len(q)
        es(p) == [k \in DOMAIN p |-> p[k].e]
        by(r, lex) == es(SelectSeq(q, LAMBDA p : ZsIn(IF lex THEN p.e ELSE p.s, r)))
        cut(p, o, l) == IF o < 0 THEN <<>> ELSE SubSeq(p, o + 1, IF l < 0 THEN Len(p) ELSE IF o + l > Len(p) THEN Len(p) ELSE o + l)
    IN  zset.enc # "none" =>
        /\ \A k \in 1..n : zsetRank(zset, q[k].e, FALSE) = k - 1 /\ zsetRank(zset, q[k].e, TRUE) = n - k
        /\ \A a, b \in -(n + 1)..(n + 1) :
               LET x == IF a < 0 THEN IF a + n < 0 THEN 0 ELSE a + n ELSE a
                   y == IF b < 0 THEN b + n ELSE IF b >= n THEN n - 1 ELSE b
               IN  /\ zrangeGenericCommand(zset, a, b, FALSE) = SubSeq(es(q), x + 1, y + 1)
                   /\ zrangeGenericCommand(zset, a, b, TRUE) = SubSeq(Reverse(es(q)), x + 1, y + 1)
        /\ \A r \in ZsScoreRanges :
               /\ zcountCommand(zset, r) = Len(by(r, FALSE))
               /\ \A l \in {<<0, -1>>, <<1, 1>>, <<-1, 1>>} :
                      /\ genericZrangebyscoreCommand(zset, r, FALSE, l[1], l[2]) = cut(by(r, FALSE), l[1], l[2])
                      /\ genericZrangebyscoreCommand(zset, r, TRUE, l[1], l[2]) = cut(Reverse(by(r, FALSE)), l[1], l[2])
        /\ ZsSameScore(zsRef) => \A r \in ZsLexRanges :
               /\ zlexcountCommand(zset, r) = Len(by(r, TRUE))
               /\ genericZrangebylexCommand(zset, r, FALSE, 0, -1) = by(r, TRUE)
               /\ genericZrangebylexCommand(zset, r, TRUE, 0, -1) = Reverse(by(r, TRUE))

\* A sorted set in either encoding is the map from elements to scores that the
\* commands made, and answers as such.
SortedSetIsExact ==
    /\ SortedSetHolds
    /\ SkiplistIsExact
    /\ SortedSetAnswers
=============================================================================
