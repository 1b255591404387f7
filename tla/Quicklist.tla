------------------------------ MODULE Quicklist -----------------------------
(***************************************************************************)
(* A list object: nodes of up to QlFill elements, where the nodes further      *)
(* than QlDepth from both ends are kept compressed (quicklist.c), under the    *)
(* list commands that do not block (t_list.c).  A node is                      *)
(* [es, enc, re]: its elements, "raw" or "lzf", and the recompress mark of a   *)
(* node that was decompressed to be used.                                      *)
(***************************************************************************)
EXTENDS Integers, Sequences, SequencesExt

CONSTANTS QlValues,
          QlFill, QlDepth,    \* list-max-ziplist-size, list-compress-depth
          QlMinCompress,      \* a node of fewer elements is under MIN_COMPRESS_BYTES
          QlStarts            \* [rpush |-> the list to begin with, menu, budget]

VARIABLES ql,                 \* [nodes, count, corrupt, left]
          qlRef,              \* the list the commands should have made
          qlMenu, qlBudget

qlVars == <<ql, qlRef, qlMenu, qlBudget>>

\* corrupt: a compressed block was used as a ziplist; left: a node outlived the
\* command that decompressed it.
EmptyQl == [nodes |-> <<>>, count |-> 0, corrupt |-> FALSE, left |-> FALSE]
QlNode(es) == [es |-> es, enc |-> "raw", re |-> FALSE]

-----------------------------------------------------------------------------
\* Compression.
quicklistCompressNode(n) == IF n.enc = "raw" /\ Len(n.es) >= QlMinCompress THEN [n EXCEPT !.enc = "lzf", !.re = FALSE] ELSE n
quicklistDecompressNode(n) == [n EXCEPT !.enc = "raw"]
DecompressForUse(n) == IF n.enc = "lzf" THEN [n EXCEPT !.enc = "raw", !.re = TRUE] ELSE n
ForUse(q, i) == [q EXCEPT !.nodes[i] = DecompressForUse(@)]

\* The nodes within the depth are decompressed, node i and the nodes one beyond
\* the depth are compressed; len is the field, which an insertion has not
\* counted up yet, and a deletion not down.
CompressToDepth(q, len, i) ==
    LET n == Len(q.nodes)
        inside == {j \in 1..n : j <= QlDepth \/ j > n - QlDepth}
        raw(j) == IF j \in inside THEN quicklistDecompressNode(q.nodes[j]) ELSE q.nodes[j]
        more == ({i} \ (inside \cup {0})) \cup (IF QlDepth >= 2 THEN {QlDepth + 1, n - QlDepth} ELSE {})
        met == n = 2 * QlDepth - 1
    IN  IF QlDepth = 0 \/ len < 2 * QlDepth THEN q
        ELSE [q EXCEPT !.nodes = SubSeq([j \in 1..n |-> IF j \in more /\ ~met THEN quicklistCompressNode(raw(j)) ELSE raw(j)], 1, n)]

quicklistCompress(q, len, i) ==
    IF q.nodes[i].re THEN [q EXCEPT !.nodes[i] = quicklistCompressNode(@)] ELSE CompressToDepth(q, len, i)
RecompressOnly(q, i) == IF q.nodes[i].re THEN [q EXCEPT !.nodes[i] = quicklistCompressNode(@)] ELSE q

-----------------------------------------------------------------------------
\* Nodes.
InsertNode(q, i, node, after) ==
    LET y == [q EXCEPT !.nodes = InsertAt(@, IF after \/ i = 0 THEN i + 1 ELSE i, node)]
    IN  IF i = 0 THEN y ELSE quicklistCompress(y, Len(q.nodes), IF after THEN i ELSE i + 1)

quicklistDelNode(q, i) ==
    [CompressToDepth([q EXCEPT !.nodes = RemoveAt(@, i)], Len(q.nodes), 0) EXCEPT !.count = @ - Len(q.nodes[i].es)]

\* Element o of node i; the node goes with its last element.
quicklistDelIndex(q, i, o) ==
    LET y == [q EXCEPT !.nodes[i].es = RemoveAt(@, o), !.corrupt = @ \/ q.nodes[i].enc = "lzf"]
        z == IF y.nodes[i].es = <<>> THEN quicklistDelNode(y, i) ELSE y
    IN  [z EXCEPT !.count = @ - 1]

AllowInsert(q, i) == i \in DOMAIN q.nodes /\ Len(q.nodes[i].es) < QlFill
AllowMerge(q, i) == i \in DOMAIN q.nodes /\ i + 1 \in DOMAIN q.nodes /\ Len(q.nodes[i].es) + Len(q.nodes[i + 1].es) <= QlFill

QlPut(q, i, o, v) == [q EXCEPT !.nodes[i].es = InsertAt(@, o, v), !.corrupt = @ \/ q.nodes[i].enc = "lzf"]

quicklistPush(q, where, v) ==
    LET i == IF where = "head" \/ q.nodes = <<>> THEN 1 ELSE Len(q.nodes)
        y == CASE AllowInsert(q, i) -> QlPut(q, i, IF where = "head" THEN 1 ELSE Len(q.nodes[i].es) + 1, v)
               [] OTHER -> InsertNode(q, IF q.nodes = <<>> THEN 0 ELSE i, QlNode(<<v>>), where = "tail")
    IN  [y EXCEPT !.count = @ + 1]

quicklistPop(q, where) ==
    LET i == IF where = "head" THEN 1 ELSE Len(q.nodes) IN quicklistDelIndex(q, i, IF where = "head" THEN 1 ELSE Len(q.nodes[i].es))

\* Node i + 1 is merged into node i; the one that is dropped is empty by then.
ZiplistMerge(q, i) ==
    LET y == [q EXCEPT !.nodes[i] = [quicklistDecompressNode(@) EXCEPT !.es = @ \o q.nodes[i + 1].es],
                       !.nodes[i + 1] = [quicklistDecompressNode(@) EXCEPT !.es = <<>>]]
        z == quicklistDelNode(y, i + 1)
    IN  quicklistCompress(z, Len(z.nodes), i)

\* (prev prev, prev), (next, next next), (prev, center), (target, next).
MergeAt(m, i, c) == IF AllowMerge(m.q, i) THEN [q |-> ZiplistMerge(m.q, i), c |-> c] ELSE m
MergeNexts(m) == MergeAt(m, m.c + 1, m.c)
MergeWithPrev(m) == MergeAt(m, m.c - 1, m.c - 1)
MergeWithNext(m) == MergeAt(m, m.c, m.c).q
MergeNodes(q, c) == MergeWithNext(MergeWithPrev(MergeNexts(MergeAt([q |-> q, c |-> c], c - 2, c - 1))))

-----------------------------------------------------------------------------

\* The node is split at element o, and the new one takes the value.
SplitAndInsert(q, i, o, v, after) ==
    LET es == q.nodes[i].es
        y == ForUse(q, i)
        new == IF after THEN <<v>> \o SubSeq(es, o + 1, Len(es)) ELSE SubSeq(es, 1, o - 1) \o <<v>>
        old == IF after THEN SubSeq(es, 1, o) ELSE SubSeq(es, o, Len(es))
        z == InsertNode([y EXCEPT !.nodes[i].es = old], i, QlNode(new), after)
    IN  MergeNodes(z, IF after THEN i ELSE i + 1)

\* Before or after element o of node i.  An insertion after never finds itself
\* at the tail of the node: the offset is compared with the count.
quicklistInsert(q, i, o, v, after) ==
    LET full == ~AllowInsert(q, i)
        at_head == ~after /\ o = 1
        y == CASE ~full -> RecompressOnly(QlPut(ForUse(q, i), i, IF after THEN o + 1 ELSE o, v), i)
               [] full /\ at_head /\ i > 1 /\ AllowInsert(q, i - 1) ->
                     RecompressOnly(QlPut(ForUse(q, i - 1), i - 1, Len(q.nodes[i - 1].es) + 1, v), i - 1)
               [] full /\ at_head /\ i > 1 /\ ~AllowInsert(q, i - 1) -> InsertNode(q, i, QlNode(<<v>>), FALSE)
               [] OTHER -> SplitAndInsert(q, i, o, v, after)
    IN  [y EXCEPT !.count = @ + 1]

\* From element o of node i on, as given by a start of zero or, from the tail,
\* by a negative one.
RECURSIVE DelFrom(_, _, _, _, _)
DelFrom(q, i, o, extent, negative) ==
    LET n == Len(q.nodes[i].es)
        del == CASE negative -> (IF n - o + 1 > extent THEN extent ELSE n - o + 1)
                 [] extent >= n -> n - o + 1
                 [] OTHER -> extent
        cut == [ForUse(q, i) EXCEPT !.nodes[i].es = SubSeq(@, 1, o - 1) \o SubSeq(@, o + del, n), !.count = @ - del]
        gone == cut.nodes[i].es = <<>>
        y == CASE ~negative /\ o = 1 /\ extent >= n -> quicklistDelNode(q, i)
               [] gone -> quicklistDelNode(cut, i)
               [] OTHER -> RecompressOnly(cut, i)
    IN  IF extent = 0 THEN q ELSE DelFrom(y, IF gone THEN i ELSE i + 1, 1, extent - del, FALSE)

\* The node and the offset of the k-th element.
Place(q, k) ==
    LET before(i) == FoldLeft(LAMBDA a, n : a + Len(n.es), 0, SubSeq(q.nodes, 1, i - 1))
        i == CHOOSE j \in DOMAIN q.nodes : before(j) < k /\ k <= before(j) + Len(q.nodes[j].es)
    IN  [i |-> i, o |-> k - before(i)]

quicklistDelRange(q, start, count) ==
    LET at == Place(q, IF start < 0 THEN q.count + start + 1 ELSE start + 1)
    IN  IF count = 0 THEN q ELSE DelFrom(ForUse(q, at.i), at.i, at.o, count, start < 0)

\* An iterator decompresses the node it is on, and compresses the one it leaves;
\* the iterators of the list type are freed where they are.
WalkOver(q, i) == quicklistCompress(ForUse(q, i), Len(q.nodes), i)
RECURSIVE Walk(_, _, _)
Walk(q, i, j) == IF i = j THEN ForUse(q, i) ELSE Walk(WalkOver(q, i), i + 1, j)

\* LREM: every match, or num of them (0: all), from element o of node i on.
RECURSIVE RemoveFrom(_, _, _, _, _, _)
RemoveFrom(q, i, o, v, num, step) ==
    IF i \notin DOMAIN q.nodes THEN q
    ELSE LET y == ForUse(q, i)
             n == Len(y.nodes[i].es)
             z == quicklistDelIndex(y, i, o)
             gone == n = 1
             nexti == i + step
             first(r, j) == IF step = 1 \/ j \notin DOMAIN r.nodes THEN 1 ELSE Len(r.nodes[j].es)
         IN  CASE o \notin 1..n -> LET w == quicklistCompress(y, Len(y.nodes), i) IN RemoveFrom(w, nexti, first(w, nexti), v, num, step)
               [] y.nodes[i].es[o] # v -> RemoveFrom(y, i, o + step, v, num, step)
               [] num = 1 -> z
               [] gone -> LET j == IF step = 1 THEN i ELSE i - 1 IN RemoveFrom(z, j, first(z, j), v, IF num = 0 THEN 0 ELSE num - 1, step)
               [] OTHER -> RemoveFrom(z, i, IF step = 1 THEN o ELSE o - 1, v, IF num = 0 THEN 0 ELSE num - 1, step)

-----------------------------------------------------------------------------
\* Commands.  An empty list is deleted with its key, and the next push begins a
\* new object.
Done(q) == LET l == q.left \/ \E i \in DOMAIN q.nodes : q.nodes[i].re IN IF q.count = 0 THEN [EmptyQl EXCEPT !.left = l, !.corrupt = q.corrupt] ELSE [q EXCEPT !.left = l]

QlCommand(name, q, ref) ==
    /\ qlBudget > 0 /\ name \in qlMenu /\ ~ql.corrupt
    /\ ql' = Done(q) /\ qlRef' = ref
    /\ qlBudget' = qlBudget - 1
    /\ UNCHANGED qlMenu

pushGenericCommand ==
    \E v \in QlValues, where \in {"head", "tail"} :
        QlCommand("push", quicklistPush(ql, where, v), IF where = "head" THEN <<v>> \o qlRef ELSE Append(qlRef, v))

popGenericCommand ==
    /\ ql.count > 0
    /\ \E where \in {"head", "tail"} :
          QlCommand("pop", quicklistPop(ql, where), IF where = "head" THEN Tail(qlRef) ELSE Front(qlRef))

rpoplpushCommand ==
    /\ ql.count > 0
    /\ QlCommand("rotate", quicklistPush(quicklistPop(ql, "tail"), "head", Last(qlRef)), <<Last(qlRef)>> \o Front(qlRef))

linsertCommand ==
    \E pivot, v \in QlValues, after \in BOOLEAN :
        /\ \E k \in DOMAIN qlRef : qlRef[k] = pivot
        /\ LET k == SelectInSeq(qlRef, LAMBDA e : e = pivot)
               at == Place(ql, k)
           IN  QlCommand("insert", quicklistInsert(Walk(ql, 1, at.i), at.i, at.o, v, after), InsertAt(qlRef, IF after THEN k + 1 ELSE k, v))

lindexCommand == \E k \in DOMAIN qlRef : QlCommand("index", ForUse(ql, Place(ql, k).i), qlRef)

lrangeCommand == \E k \in DOMAIN qlRef : \E j \in k..Len(qlRef) : QlCommand("range", Walk(ql, Place(ql, k).i, Place(ql, j).i), qlRef)

lsetCommand ==
    \E k \in DOMAIN qlRef, v \in QlValues :
        LET at == Place(ql, k)
            y == [ForUse(ql, at.i) EXCEPT !.nodes[at.i].es[at.o] = v]
        IN  QlCommand("set", quicklistCompress(y, Len(y.nodes), at.i), [qlRef EXCEPT ![k] = v])

ltrimCommand ==
    /\ ql.count > 0
    /\ \E ltrim, rtrim \in 0..Len(qlRef) :
          /\ ltrim + rtrim <= Len(qlRef)
          /\ QlCommand("trim", quicklistDelRange(quicklistDelRange(ql, 0, ltrim), -rtrim, rtrim),
                       SubSeq(qlRef, ltrim + 1, Len(qlRef) - rtrim))

Matches(s, v) == {k \in DOMAIN s : s[k] = v}
\* The num first matches, or last ones.
MatchesCut(s, v, num, step) ==
    {k \in Matches(s, v) : num = 0 \/ Len(SelectSeq([j \in DOMAIN s |-> [at |-> j, e |-> s[j]]],
                                                     LAMBDA x : x.e = v /\ (IF step = 1 THEN x.at <= k ELSE x.at >= k))) <= num}
QlWithout(s, cut) == LET keep == SelectSeq([j \in DOMAIN s |-> [at |-> j, e |-> s[j]]], LAMBDA x : x.at \notin cut) IN [j \in DOMAIN keep |-> keep[j].e]

lremCommand ==
    /\ ql.count > 0
    /\ \E v \in QlValues, num \in 0..2, step \in {1, -1} :
          LET i == IF step = 1 THEN 1 ELSE Len(ql.nodes)
              o == IF step = 1 THEN 1 ELSE Len(ql.nodes[i].es)
          IN  QlCommand("rem", RemoveFrom(ql, i, o, v, num, step), QlWithout(qlRef, MatchesCut(qlRef, v, num, step)))

QlInit ==
    \E s \in QlStarts :
        /\ ql = FoldLeft(LAMBDA q, v : quicklistPush(q, "tail", v), EmptyQl, s.rpush)
        /\ qlRef = s.rpush
        /\ qlMenu = s.menu /\ qlBudget = s.budget

QlNext ==
    \/ pushGenericCommand \/ popGenericCommand \/ rpoplpushCommand \/ linsertCommand \/ lindexCommand
    \/ lrangeCommand \/ lsetCommand \/ ltrimCommand \/ lremCommand

-----------------------------------------------------------------------------
\* The nodes hold the list the commands made, none of them empty, and the count
\* is right, through splits, merges, trims and deletions by an iterator.
ListHolds ==
    ~ql.corrupt =>
        /\ FlattenSeq([i \in DOMAIN ql.nodes |-> ql.nodes[i].es]) = qlRef
        /\ ql.count = Len(qlRef)
        /\ \A i \in DOMAIN ql.nodes : ql.nodes[i].es # <<>> /\ Len(ql.nodes[i].es) <= QlFill

\* The first and the last node are never compressed, whatever went before.
EndsRaw == ~ql.corrupt /\ (ql.nodes # <<>> => ql.nodes[1].enc = "raw" /\ Last(ql.nodes).enc = "raw")

\* The first and the last node are never compressed, so that a push or a pop
\* works on a ziplist, as long as no command left a node decompressed.
EndsRawUnlessLeft == ql.left \/ EndsRaw

-----------------------------------------------------------------------------
(***************************************************************************)
(* The ziplist (ziplist.c): entries in one block of memory, each with the    *)
(* length of the one before it in one byte or in five, under a header with   *)
(* the size, the offset of the last entry and a count that saturates.  An     *)
(* element is [k |-> "int", n |-> value] or [k |-> "str", n |-> length].       *)
(***************************************************************************)
CONSTANTS ZlElements, ZlLenMax,   \* the elements; UINT16_MAX
          ZlStarts                \* numbers of operations

VARIABLES zl, zl2,   \* two ziplists
          zlRef,     \* what the calls made of two sequences
          zlBudget

zlVars == <<zl, zl2, zlRef, zlBudget>>

BigPrevlen == 254
ZlHeader == 10

-----------------------------------------------------------------------------
\* Encodings.
Between(n, w) == -(2 ^ (w - 1)) <= n /\ n < 2 ^ (w - 1)

zipTryEncoding(e) ==
    CASE e.k = "str" -> "str"
      [] e.n \in 0..12 -> "imm"
      [] Between(e.n, 8) -> "8"
      [] Between(e.n, 16) -> "16"
      [] Between(e.n, 24) -> "24"
      [] OTHER -> "32"

zipIntSize(enc) == CASE enc = "imm" -> 0 [] enc = "8" -> 1 [] enc = "16" -> 2 [] enc = "24" -> 3 [] OTHER -> 4

\* The bytes of an integer, and what is read from them.
zipSaveInteger(n, enc) == CASE enc = "8" -> n % (2 ^ 8) [] enc = "16" -> n % (2 ^ 16) [] enc = "24" -> n % (2 ^ 24) [] OTHER -> n
Signed(b, w) == IF b >= 2 ^ (w - 1) THEN b - 2 ^ w ELSE b
zipLoadInteger(b, enc) == CASE enc = "8" -> Signed(b, 8) [] enc = "16" -> Signed(b, 16) [] enc = "24" -> Signed(b, 24) [] OTHER -> b

zipStoreEntryEncoding(enc, n) == IF enc = "str" THEN (IF n <= 63 THEN 1 ELSE IF n <= 16383 THEN 2 ELSE 5) ELSE 1
PrevSize(len) == IF len < BigPrevlen THEN 1 ELSE 5

\* An entry: the previous length and the bytes it takes, the encoding, its bytes.
NewEntry(e, prevlen) ==
    LET enc == zipTryEncoding(e)
    IN  [pl |-> prevlen, ps |-> PrevSize(prevlen), enc |-> enc, b |-> IF enc = "str" THEN e.n ELSE zipSaveInteger(e.n, enc)]
zipRawEntryLength(x) == x.ps + zipStoreEntryEncoding(x.enc, x.b) + (IF x.enc = "str" THEN x.b ELSE zipIntSize(x.enc))
ziplistGet(x) == IF x.enc = "str" THEN [k |-> "str", n |-> x.b] ELSE [k |-> "int", n |-> zipLoadInteger(x.b, x.enc)]

Span(es, i, j) == FoldLeft(LAMBDA a, x : a + zipRawEntryLength(x), 0, SubSeq(es, i, j))
OffsetOf(es, i) == ZlHeader + Span(es, 1, i - 1)

ziplistNew == [es |-> <<>>, bytes |-> ZlHeader + 1, tail |-> ZlHeader, len |-> 0]
IncrLength(z, n) == [z EXCEPT !.len = IF @ < ZlLenMax THEN @ + n ELSE @]

-----------------------------------------------------------------------------

\* From entry i on, the next entry is told the length of the one before it, as
\* long as this makes the next entry grow; it never shrinks.
RECURSIVE ziplistCascadeUpdate(_, _)
ziplistCascadeUpdate(z, i) ==
    IF i >= Len(z.es) \/ z.es[i + 1].pl = zipRawEntryLength(z.es[i]) THEN z
    ELSE LET raw == zipRawEntryLength(z.es[i])
             more == PrevSize(raw) - z.es[i + 1].ps
             y == [z EXCEPT !.es[i + 1].pl = raw]
         IN  IF more <= 0 THEN y
             ELSE ziplistCascadeUpdate([y EXCEPT !.es[i + 1].ps = 5, !.bytes = @ + more,
                                                 !.tail = IF @ # OffsetOf(z.es, i + 1) THEN @ + more ELSE @], i + 1)

\* Before entry i, or at the end.
ziplistInsert(z, i, e) ==
    LET n == Len(z.es)
        prevlen == CASE i <= n -> z.es[i].pl [] n > 0 -> zipRawEntryLength(z.es[n]) [] OTHER -> 0
        new == NewEntry(e, prevlen)
        req == zipRawEntryLength(new)
        diff == IF i <= n THEN PrevSize(req) - z.es[i].ps ELSE 0
        forcelarge == diff = -4 /\ req < 4
        nextdiff == IF forcelarge THEN 0 ELSE diff
        next == IF i <= n THEN <<[z.es[i] EXCEPT !.pl = req, !.ps = @ + nextdiff]>> ELSE <<>>
        es == SubSeq(z.es, 1, i - 1) \o <<new>> \o next \o SubSeq(z.es, i + 1, n)
        tail == IF i <= n THEN z.tail + req + (IF i < n THEN nextdiff ELSE 0) ELSE OffsetOf(z.es, i)
        y == IncrLength([z EXCEPT !.es = es, !.bytes = @ + req + nextdiff, !.tail = tail], 1)
    IN  IF nextdiff # 0 THEN ziplistCascadeUpdate(y, i + 1) ELSE y

\* num entries from entry i on.
ziplistDelete(z, i, num) ==
    LET n == Len(z.es)
        j == IF i + num <= n THEN i + num ELSE n + 1
        first == z.es[i]
        totlen == Span(z.es, i, j - 1)
        nextdiff == IF j <= n THEN PrevSize(first.pl) - z.es[j].ps ELSE 0
        next == IF j <= n THEN <<[z.es[j] EXCEPT !.pl = first.pl, !.ps = @ + nextdiff]>> ELSE <<>>
        tail == IF j <= n THEN z.tail - totlen + (IF j < n THEN nextdiff ELSE 0) ELSE OffsetOf(z.es, i) - first.pl
        y == IncrLength([z EXCEPT !.es = SubSeq(z.es, 1, i - 1) \o next \o SubSeq(z.es, j + 1, n),
                                  !.bytes = @ - totlen + nextdiff, !.tail = tail], -(j - i))
    IN  IF nextdiff # 0 THEN ziplistCascadeUpdate(y, i) ELSE y

\* b behind a: the seam is mended from the last entry of a on.
ziplistMerge(a, b) ==
    LET y == [es |-> a.es \o b.es, bytes |-> a.bytes + b.bytes - ZlHeader - 1, tail |-> (a.bytes - 1) + (b.tail - ZlHeader),
              len |-> IF a.len + b.len < ZlLenMax THEN a.len + b.len ELSE ZlLenMax]
    IN  ziplistCascadeUpdate(y, Len(a.es))

\* A saturated count is taken by a scan, and stored again when it fits.
ziplistLen(z) ==
    LET n == IF z.len < ZlLenMax THEN z.len ELSE Len(z.es)
    IN  [n |-> n, z |-> IF n < ZlLenMax THEN [z EXCEPT !.len = n] ELSE z]

-----------------------------------------------------------------------------
\* The walk to the next entry, and back by the previous lengths from the tail
\* offset on: the offsets visited.
Forward(z) == [i \in DOMAIN z.es |-> OffsetOf(z.es, i)]
EntryAt(z, o) == LET at == {i \in DOMAIN z.es : OffsetOf(z.es, i) = o} IN IF at = {} THEN 0 ELSE CHOOSE i \in at : TRUE
RECURSIVE Backward(_, _, _)
Backward(z, o, n) ==
    LET i == EntryAt(z, o)
    IN  IF i = 0 \/ n = 0 THEN <<>> ELSE <<o>> \o (IF z.es[i].pl = 0 THEN <<>> ELSE Backward(z, o - z.es[i].pl, n - 1))

ZlSpend(op) == zlBudget[op] > 0 /\ zlBudget' = [zlBudget EXCEPT ![op] = @ - 1]

ZlPush ==
    /\ ZlSpend("insert")
    /\ \E e \in ZlElements, i \in 1..Len(zl.es) + 1 :
          /\ zl' = ziplistInsert(zl, i, e)
          /\ zlRef' = [zlRef EXCEPT !.a = InsertAt(@, i, e)]
    /\ UNCHANGED zl2

ZlDelete ==
    /\ ZlSpend("delete")
    /\ \E i \in DOMAIN zl.es, num \in 1..2 :
          /\ zl' = ziplistDelete(zl, i, num)
          /\ zlRef' = [zlRef EXCEPT !.a = SubSeq(@, 1, i - 1) \o SubSeq(@, i + num, Len(@))]
    /\ UNCHANGED zl2

\* The second ziplist is started over while the first waits to be merged with it.
ZlSetAside ==
    /\ ZlSpend("aside")
    /\ zl2' = zl /\ zl' = ziplistNew
    /\ zlRef' = [a |-> <<>>, b |-> zlRef.a]

\* quicklist.c merges nodes, and a node is never empty.
ZlMerge ==
    /\ zl.es # <<>> /\ zl2.es # <<>>
    /\ ZlSpend("merge")
    /\ zl' = ziplistMerge(zl, zl2)
    /\ zl2' = ziplistNew
    /\ zlRef' = [a |-> zlRef.a \o zlRef.b, b |-> <<>>]

ZlCount ==
    /\ ziplistLen(zl).z # zl
    /\ zl' = ziplistLen(zl).z
    /\ UNCHANGED <<zl2, zlRef, zlBudget>>

ZlInit ==
    /\ zl = ziplistNew /\ zl2 = ziplistNew
    /\ zlRef = [a |-> <<>>, b |-> <<>>]
    /\ zlBudget \in ZlStarts

ZlNext == ZlPush \/ ZlDelete \/ ZlSetAside \/ ZlMerge \/ ZlCount

-----------------------------------------------------------------------------
\* The elements read back are the ones that were put in, integers by their
\* encoding too (ziplistGet after __ziplistInsert, __ziplistDelete, ziplistMerge).
ZiplistHolds == [i \in DOMAIN zl.es |-> ziplistGet(zl.es[i])] = zlRef.a

\* The walk back from the tail offset over the previous lengths visits the
\* entries of the walk forward (__ziplistCascadeUpdate leaves no length stale).
WalksAgree == Backward(zl, zl.tail, Len(zl.es)) = Reverse(Forward(zl))

\* The header tells the size of the block, and ziplistLen the number of entries.
ZiplistHeader == zl.bytes = ZlHeader + Span(zl.es, 1, Len(zl.es)) + 1 /\ ziplistLen(zl).n = Len(zl.es)

\* Ziplist and quicklist have the elements that were put in, in order, their
\* headers and links agree with them, and the ends of a list stay uncompressed.
ListsAreExact ==
    /\ ZiplistHolds
    /\ WalksAgree
    /\ ZiplistHeader
    /\ ListHolds
    /\ EndsRawUnlessLeft
=============================================================================
