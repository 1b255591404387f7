-------------------------------- MODULE Rdb --------------------------------
(***************************************************************************)
(* The RDB format (rdb.c): what rdbSaveRio writes for a dataset, and what  *)
(* rdbLoadRio makes of it at the next start, on a master or a replica,     *)
(* perhaps with other encoding limits, perhaps of a file that was cut.     *)
(*                                                                         *)
(* A file is a sequence of cells: a cell is one byte, or the content of a  *)
(* string (a sequence of bytes, or the items of a ziplist or intset) with  *)
(* the number of bytes it takes.  Headers, lengths and integers are        *)
(* modelled byte by byte.  The compressor that long strings go through is  *)
(* the second part of the module.                                          *)
(***************************************************************************)
EXTENDS Integers, Sequences, FiniteSets, FiniteSetsExt, SequencesExt

CONSTANTS
    RdbInts,     \* the integers whose decimal forms occur
    RdbStarts    \* sequence of starts, see RdbInit

VARIABLES rdbDbs, rdbFile, rdbCut, rdbNow, rdbLoaded, rdbEnv
rdbVars == <<rdbDbs, rdbFile, rdbCut, rdbNow, rdbLoaded, rdbEnv>>

NoExpire == -1
PosInf == 1000000
NegInf == -1000000

----------------------------------------------------------------------------
\* Cells and numbers.

Byte(n) == [n |-> n, size |-> 1, d |-> <<>>]
StringCell(d, size) == [n |-> -1, size |-> size, d |-> d]
Packed(d, size, csize) == [n |-> -2, size |-> csize, d |-> d]
Bytes(s) == [i \in 1..Len(s) |-> Byte(s[i])]

RECURSIVE Digits(_)
Digits(n) == IF n < 10 THEN <<48 + n>> ELSE Append(Digits(n \div 10), 48 + (n % 10))
ll2string(v) == IF v < 0 THEN <<45>> \o Digits(-v) ELSE Digits(v)

\* string2ll, strtoll followed by ll2string and a comparison: only the
\* canonical decimal form is a number.
IsNumber(s) == \E v \in RdbInts : ll2string(v) = s
NumberOf(s) == CHOOSE v \in RdbInts : ll2string(v) = s

BigEndian(len) == Bytes(<<(len \div 16777216) % 256, (len \div 65536) % 256, (len \div 256) % 256, len % 256>>)

rdbSaveLen(len) ==
    CASE len < 64       -> Bytes(<<len>>)
      [] len < 16384    -> Bytes(<<64 + len \div 256, len % 256>>)
      [] OTHER          -> Bytes(<<128>>) \o BigEndian(len)

\* What a read gives: at is where the next one starts, 0 after a short read.
Short == [at |-> 0, enc |-> FALSE, v |-> 0]

rdbLoadLen(f, p) ==
    IF p = 0 \/ p > Len(f) THEN Short
    ELSE LET b == f[p].n
             Take(n, v) == IF p + n > Len(f) THEN Short ELSE [at |-> p + n + 1, enc |-> FALSE, v |-> v]
         IN  CASE b >= 192             -> [at |-> p + 1, enc |-> TRUE, v |-> b % 64]
               [] b < 64               -> Take(0, b)
               [] b >= 64 /\ b < 128   -> IF p + 1 > Len(f) THEN Short ELSE Take(1, (b % 64) * 256 + f[p + 1].n)
               [] OTHER                -> IF p + 4 > Len(f) THEN Short
                                          ELSE Take(4, ((f[p + 1].n * 256 + f[p + 2].n) * 256 + f[p + 3].n) * 256 + f[p + 4].n)

rdbEncodeInteger(v) ==
    CASE v >= -128 /\ v <= 127     -> Bytes(<<192, v % 256>>)
      [] v >= -32768 /\ v <= 32767 -> Bytes(<<193, v % 256, (v \div 256) % 256>>)
      [] OTHER -> Bytes(<<194, v % 256, (v \div 256) % 256, (v \div 65536) % 256, (v \div 16777216) % 256>>)

\* The string of an integer of 1, 2 or 4 bytes, least significant first.
rdbLoadIntegerObject(f, p, enctype) ==
    LET n == CASE enctype = 0 -> 1 [] enctype = 1 -> 2 [] OTHER -> 4
        top == f[p + n - 1].n
        sign == IF top >= 128 THEN top - 256 ELSE top
        v == CASE n = 1 -> sign
               [] n = 2 -> sign * 256 + f[p].n
               [] OTHER -> ((sign * 256 + f[p + 2].n) * 256 + f[p + 1].n) * 256 + f[p].n
    IN  IF p + n - 1 > Len(f) THEN [at |-> 0, v |-> <<>>] ELSE [at |-> p + n, v |-> ll2string(v)]

----------------------------------------------------------------------------
\* Strings.  env.packs says whether lzf_compress finds something to shorten.

rdbSaveLzfStringObject(d, size) ==
    Bytes(<<195>>) \o rdbSaveLen(size - 5) \o rdbSaveLen(size) \o <<Packed(d, size, size - 5)>>

SavePlain(env, d, size) ==
    IF env.compression /\ size > 20 /\ env.packs THEN rdbSaveLzfStringObject(d, size)
    ELSE rdbSaveLen(size) \o (IF size > 0 THEN <<StringCell(d, size)>> ELSE <<>>)

rdbSaveRawString(env, s) ==
    IF Len(s) <= 11 /\ IsNumber(s) THEN rdbEncodeInteger(NumberOf(s)) ELSE SavePlain(env, s, Len(s))

\* A ziplist or an intset: its first bytes are never those of a number.
SaveBlob(env, d) == SavePlain(env, d, 10 + 2 * Len(d))

Unread == [at |-> 0, v |-> <<>>]
CellAt(f, p) == IF p = 0 \/ p > Len(f) THEN Unread ELSE [at |-> p + 1, v |-> f[p].d]

\* A string whose length was read as l; a compressed one has two more lengths.
StringAfter(f, l) ==
    CASE l.at = 0          -> Unread
      [] l.enc /\ l.v <= 2 -> rdbLoadIntegerObject(f, l.at, l.v)
      [] l.enc /\ l.v = 3  -> CellAt(f, rdbLoadLen(f, rdbLoadLen(f, l.at).at).at)
      [] l.enc /\ l.v > 3  -> Unread
      [] OTHER -> IF l.v = 0 THEN [at |-> l.at, v |-> <<>>] ELSE CellAt(f, l.at)
rdbGenericLoadStringObject(f, p) == StringAfter(f, rdbLoadLen(f, p))

\* A value read before the sequence r; one short read spoils the whole.
Together(s, r) == IF s.at = 0 \/ r.at = 0 THEN Unread ELSE [at |-> r.at, v |-> <<s.v>> \o r.v]

\* n strings in a row
RECURSIVE LoadStrings(_, _, _)
LoadStrings(f, p, n) ==
    IF n = 0 THEN [at |-> p, v |-> <<>>]
    ELSE LET s == rdbGenericLoadStringObject(f, p) IN Together(s, LoadStrings(f, s.at, n - 1))

\* The strings of an object whose length was read as l, per strings an element
LoadCounted(f, l, per) == LoadStrings(f, l.at, per * l.v)

\* Scores: version 2 has the eight bytes of the double, the older version a
\* length byte and the decimal form, 254 and 255 for the infinities.
rdbSaveBinaryDoubleValue(x) == <<StringCell(<<x>>, 8)>>
rdbSaveDoubleValue(x) ==
    CASE x = PosInf -> Bytes(<<254>>)
      [] x = NegInf -> Bytes(<<255>>)
      [] OTHER      -> Bytes(<<Len(ll2string(x))>>) \o <<StringCell(ll2string(x), Len(ll2string(x)))>>
rdbLoadDoubleValue(f, p) ==
    CASE p > Len(f)     -> [at |-> 0, v |-> 0]
      [] f[p].n = 255   -> [at |-> p + 1, v |-> NegInf]
      [] f[p].n = 254   -> [at |-> p + 1, v |-> PosInf]
      [] OTHER          -> IF p + 1 > Len(f) THEN [at |-> 0, v |-> 0] ELSE [at |-> p + 2, v |-> NumberOf(f[p + 1].d)]

LoadScore(f, p, binary) ==
    CASE p = 0        -> [at |-> 0, v |-> 0]
      [] p # 0 /\ ~binary -> rdbLoadDoubleValue(f, p)
      [] OTHER        -> IF p > Len(f) THEN [at |-> 0, v |-> 0] ELSE [at |-> p + 1, v |-> f[p].d[1]]
WithScore(s, x) == [at |-> x.at, v |-> [e |-> s.v, s |-> x.v]]
ScoreAfter(f, s, binary) == WithScore(s, LoadScore(f, s.at, binary))

RECURSIVE LoadScored(_, _, _, _)
LoadScored(f, p, n, binary) ==
    IF n = 0 THEN [at |-> p, v |-> <<>>]
    ELSE LET x == ScoreAfter(f, rdbGenericLoadStringObject(f, p), binary)
         IN  Together(x, LoadScored(f, x.at, n - 1, binary))

----------------------------------------------------------------------------
\* Objects: [t |-> type, e |-> encoding, v |-> content].  Lists are sequences
\* of nodes [zl, compressed], sets sequences of strings or integers, sorted
\* sets sequences of [e, s] in order, hashes sequences of [f, v].

rdbSaveObjectType(o) ==
    CASE o.t = "string" -> 0
      [] o.t = "list"   -> 14
      [] o.t = "set"    -> IF o.e = "intset" THEN 11 ELSE 2
      [] o.t = "zset"   -> IF o.e = "ziplist" THEN 12 ELSE 5
      [] o.t = "hash"   -> IF o.e = "ziplist" THEN 13 ELSE 4

SaveNode(env, node) ==
    IF node.compressed THEN rdbSaveLzfStringObject(node.zl, 10 + 2 * Len(node.zl)) ELSE SaveBlob(env, node.zl)
SavePair(env, p) == rdbSaveRawString(env, p.f) \o rdbSaveRawString(env, p.v)
SaveScored(env, p) == rdbSaveRawString(env, p.e) \o rdbSaveBinaryDoubleValue(p.s)
SaveAll(seq) == FlattenSeq(seq)

rdbSaveObject(env, o) ==
    CASE o.t = "string" /\ o.e = "int" -> rdbEncodeInteger(o.v)
      [] o.t = "string" /\ o.e # "int" -> rdbSaveRawString(env, o.v)
      [] o.t = "list" -> rdbSaveLen(Len(o.v)) \o SaveAll([i \in 1..Len(o.v) |-> SaveNode(env, o.v[i])])
      [] o.t = "set" /\ o.e = "ht" -> rdbSaveLen(Len(o.v)) \o SaveAll([i \in 1..Len(o.v) |-> rdbSaveRawString(env, o.v[i])])
      [] o.t = "zset" /\ o.e = "skiplist" ->
            rdbSaveLen(Len(o.v)) \o SaveAll([i \in 1..Len(o.v) |-> SaveScored(env, o.v[Len(o.v) + 1 - i])])
      [] o.t = "hash" /\ o.e = "ht" -> rdbSaveLen(Len(o.v)) \o SaveAll([i \in 1..Len(o.v) |-> SavePair(env, o.v[i])])
      [] OTHER -> SaveBlob(env, o.v)

\* The formats of earlier versions that are still read (no code writes them).
OldType(o) == CASE o.t = "list" /\ o.e = "linked" -> 1 [] o.t = "list" -> 10 [] o.t = "zset" -> 3 [] o.t = "hash" -> 9
OldObject(env, o) ==
    CASE o.t = "list" /\ o.e = "linked" -> rdbSaveLen(Len(o.v)) \o SaveAll([i \in 1..Len(o.v) |-> rdbSaveRawString(env, o.v[i])])
      [] o.t = "zset" -> rdbSaveLen(Len(o.v)) \o SaveAll([i \in 1..Len(o.v) |->
                             rdbSaveRawString(env, o.v[i].e) \o rdbSaveDoubleValue(o.v[i].s)])
      [] OTHER -> SaveBlob(env, o.v)

Obj(t, e, v) == [t |-> t, e |-> e, v |-> v]
Loaded(at, o) == [at |-> at, obj |-> o, trap |-> FALSE]
NotLoaded == [at |-> 0, obj |-> Obj("string", "raw", <<>>), trap |-> FALSE]

tryObjectEncoding(s) ==
    IF Len(s) <= 20 /\ IsNumber(s) THEN Obj("string", "int", NumberOf(s))
    ELSE Obj("string", IF Len(s) <= 44 THEN "embstr" ELSE "raw", s)

\* quicklistPushTail with the fill of env
RECURSIVE PushAll(_, _, _)
PushAll(env, nodes, items) ==
    IF items = <<>> THEN nodes
    ELSE LET full == nodes = <<>> \/ Len(Last(nodes).zl) >= env.fill
         IN  PushAll(env, IF full THEN Append(nodes, [zl |-> <<Head(items)>>, compressed |-> FALSE])
                          ELSE [nodes EXCEPT ![Len(nodes)].zl = Append(@, Head(items))], Tail(items))

\* zslInsert keeps elements in order of score, then of the element
Before(a, b) == a.s < b.s \/ (a.s = b.s /\ a.e # b.e /\ (IsPrefix(a.e, b.e) \/
                  \E i \in 1..Min({Len(a.e), Len(b.e)}) : SubSeq(a.e, 1, i - 1) = SubSeq(b.e, 1, i - 1) /\ a.e[i] < b.e[i]))
RECURSIVE InOrder(_)
InOrder(s) ==
    IF s = <<>> THEN <<>>
    ELSE LET r == InOrder(Tail(s))
             n == Cardinality({i \in 1..Len(r) : Before(r[i], Head(s))})
         IN  SubSeq(r, 1, n) \o <<Head(s)>> \o SubSeq(r, n + 1, Len(r))

\* Objects made of the elements r that were read
SetOf(env, r) ==
    IF Len(r.v) > env.intset \/ \E i \in 1..Len(r.v) : ~IsNumber(r.v[i])
    THEN Obj("set", "ht", r.v) ELSE Obj("set", "intset", [i \in 1..Len(r.v) |-> NumberOf(r.v[i])])
ZsetOf(env, r) ==
    Obj("zset", IF Len(r.v) <= env.entries /\ \A i \in 1..Len(r.v) : Len(r.v[i].e) <= env.value
                THEN "ziplist" ELSE "skiplist", InOrder(r.v))
HashOf(env, r) ==
    Obj("hash", IF Len(r.v) \div 2 <= env.entries /\ \A i \in 1..Len(r.v) : Len(r.v[i]) <= env.value
                THEN "ziplist" ELSE "ht",
        [i \in 1..Len(r.v) \div 2 |-> [f |-> r.v[2 * i - 1], v |-> r.v[2 * i]]])
QuicklistOf(r) == Obj("list", "quicklist", [i \in 1..Len(r.v) |-> [zl |-> r.v[i], compressed |-> FALSE]])

LoadZset(f, l, binary) == LoadScored(f, l.at, l.v, binary)

\* The types stored as one encoded string: converted when there are too many
\* elements (of a zipmap, also when one is too long).
EncodedOf(env, type, v) ==
    LET n == Len(v)
        long == \E i \in 1..n : Len(v[i].f) > env.value \/ Len(v[i].v) > env.value
    IN  CASE type = 9  -> Obj("hash", IF n > env.entries \/ long THEN "ht" ELSE "ziplist", v)
          [] type = 10 -> Obj("list", "quicklist", PushAll(env, <<>>, v))
          [] type = 11 -> IF n > env.intset THEN Obj("set", "ht", [i \in 1..n |-> ll2string(v[i])])
                                            ELSE Obj("set", "intset", v)
          [] type = 12 -> Obj("zset", IF n > env.entries THEN "skiplist" ELSE "ziplist", v)
          [] type = 13 -> Obj("hash", IF n > env.entries THEN "ht" ELSE "ziplist", v)

\* The object that the elements r make; what was read short makes none.
ObjectOf(env, type, r) ==
    IF r.at = 0 THEN NotLoaded
    ELSE Loaded(r.at, CASE type = 0 -> tryObjectEncoding(r.v)
                        [] type = 1 -> Obj("list", "quicklist", PushAll(env, <<>>, r.v))
                        [] type = 2 -> SetOf(env, r)
                        [] type \in {3, 5} -> ZsetOf(env, r)
                        [] type = 4 -> HashOf(env, r)
                        [] type = 14 -> QuicklistOf(r)
                        [] OTHER -> EncodedOf(env, type, r.v))

\* The test for OBJ_ENCODING_REL reads o->encoding while o is still NULL, for
\* every type the branches before it do not take: env.traps is what gcc makes
\* of it, otherwise the comparison is false and the next branches are tried.
rdbLoadObject(env, type, f, p) ==
    IF type > 5 /\ env.traps THEN [NotLoaded EXCEPT !.trap = TRUE]
    ELSE ObjectOf(env, type,
             CASE type \in {1, 2, 14} -> LoadCounted(f, rdbLoadLen(f, p), 1)
               [] type \in {3, 5}     -> LoadZset(f, rdbLoadLen(f, p), type = 5)
               [] type = 4            -> LoadCounted(f, rdbLoadLen(f, p), 2)
               [] OTHER               -> rdbGenericLoadStringObject(f, p))

----------------------------------------------------------------------------
\* Files.  A dataset is a sequence of entries [db, k, ex, o]; only cuts of a
\* file are modelled, so its number of cells stands for its CRC64.

SaveTime(t) == <<StringCell(<<t>>, 8)>>
AuxStreamDb == <<115, 100, 98>>
AuxVersion == <<118, 101, 114>>

rdbSaveKeyValuePair(env, x, now) ==
    IF x.ex # NoExpire /\ x.ex < now THEN <<>>
    ELSE (IF x.ex # NoExpire THEN <<Byte(252)>> \o SaveTime(x.ex) ELSE <<>>)
            \o <<Byte(IF env.old THEN OldType(x.o) ELSE rdbSaveObjectType(x.o))>>
            \o rdbSaveRawString(env, x.k)
            \o (IF env.old THEN OldObject(env, x.o) ELSE rdbSaveObject(env, x.o))

rdbSaveAuxField(env, k, v) == <<Byte(250)>> \o rdbSaveRawString(env, k) \o rdbSaveRawString(env, v)

\* repl-stream-db is left out when it is 0.
rdbSaveInfoAuxFields(env) ==
    rdbSaveAuxField(env, AuxVersion, <<52>>)
        \o (IF env.stream # 0 THEN rdbSaveAuxField(env, AuxStreamDb, ll2string(env.stream)) ELSE <<>>)

SaveEntries(env, own, j, now) ==
    IF own = <<>> THEN <<>>
    ELSE <<Byte(254)>> \o rdbSaveLen(j)
            \o <<Byte(251)>> \o rdbSaveLen(Len(own)) \o rdbSaveLen(Len(SelectSeq(own, LAMBDA x : x.ex # NoExpire)))
            \o SaveAll([i \in 1..Len(own) |-> rdbSaveKeyValuePair(env, own[i], now)])
SaveDb(env, data, j, now) == SaveEntries(env, SelectSeq(data, LAMBDA x : x.db = j), j, now)

WithChecksum(env, body) == Append(body, StringCell(<<IF env.checksum THEN Len(body) ELSE 0>>, 8))
rdbSaveRio(env, data, now) ==
    WithChecksum(env, <<StringCell(<<8>>, 9)>> \o rdbSaveInfoAuxFields(env)
                          \o SaveAll([j \in 1..2 |-> SaveDb(env, data, j - 1, now)]) \o <<Byte(255)>>)

Result(st, data, stream) == [st |-> st, data |-> data, stream |-> stream]

\* eoferr: rdbExitReportCorruptRDB
eoferr(data, stream) == Result("exit", <<>>, stream)

\* The end of the dataset: the checksum is read only if this server checks it.
LoadEnd(env, f, p, data, stream) ==
    CASE ~env.checksum -> Result("ok", data, stream)
      [] env.checksum /\ p > Len(f) -> eoferr(data, stream)
      [] OTHER -> IF f[p].d[1] \in {0, p - 1} THEN Result("ok", data, stream) ELSE eoferr(data, stream)

\* One key: its time, if it has one, its type, its name and its value.
PairOf(k, ex, v) == [at |-> v.at, trap |-> v.trap, x |-> [k |-> k.v, ex |-> ex, o |-> v.obj]]
LoadValue(env, type, f, k, ex) ==
    IF k.at = 0 THEN [at |-> 0, trap |-> FALSE, x |-> <<>>] ELSE PairOf(k, ex, rdbLoadObject(env, type, f, k.at))
LoadPair(env, f, p) ==
    LET timed == f[p].n = 252
        q == IF timed THEN p + 2 ELSE p
    IN  LoadValue(env, f[q].n, f, rdbGenericLoadStringObject(f, q + 1), IF timed THEN f[p + 1].d[1] ELSE NoExpire)

\* On a master a key whose time has passed is not added.
AddEntry(env, db, data, x, now) ==
    IF env.master /\ x.ex # NoExpire /\ x.ex < now THEN data
    ELSE Append(data, [db |-> db, k |-> x.k, ex |-> x.ex, o |-> x.o])

RECURSIVE LoadLoop(_, _, _, _, _, _, _), LoadAfter(_, _, _, _, _, _, _)
LoadLoop(env, f, p, db, data, stream, now) ==
    IF p = 0 \/ p > Len(f) THEN eoferr(data, stream)
    ELSE CASE f[p].n = 255 -> LoadEnd(env, f, p + 1, data, stream)
           [] f[p].n = 254 -> LET l == rdbLoadLen(f, p + 1) IN LoadLoop(env, f, l.at, l.v, data, stream, now)
           [] f[p].n = 251 -> LoadLoop(env, f, rdbLoadLen(f, rdbLoadLen(f, p + 1).at).at, db, data, stream, now)
           [] f[p].n = 250 ->
                LET r == LoadStrings(f, p + 1, 2)
                    known == r.at # 0 /\ r.v[1] = AuxStreamDb
                IN  LoadLoop(env, f, r.at, db, data, IF known THEN NumberOf(r.v[2]) ELSE stream, now)
           [] OTHER -> LoadAfter(env, f, LoadPair(env, f, p), db, data, stream, now)
LoadAfter(env, f, x, db, data, stream, now) ==
    CASE x.trap -> Result("crash", <<>>, stream)
      [] ~x.trap /\ x.at = 0 -> eoferr(data, stream)
      [] OTHER -> LoadLoop(env, f, x.at, db, AddEntry(env, db, data, x.x, now), stream, now)

rdbLoadRio(env, f, now) == LoadLoop(env, f, 2, 0, <<>>, -1, now)

----------------------------------------------------------------------------
NotYet == Result("none", <<>>, -1)

\* A start: some datasets, environments of the saving and the loading server.
RdbInit ==
    \E i \in DOMAIN RdbStarts : \E j \in DOMAIN RdbStarts[i].datas :
    \E save \in RdbStarts[i].saves, load \in RdbStarts[i].loads :
        /\ rdbDbs = RdbStarts[i].datas[j] /\ rdbEnv = [save |-> save, load |-> load]
        /\ rdbFile = <<>> /\ rdbCut = FALSE /\ rdbNow = 0 /\ rdbLoaded = NotYet

SaveFile ==
    /\ rdbFile = <<>> /\ rdbDbs # <<>>
    /\ rdbFile' = rdbSaveRio(rdbEnv.save, rdbDbs, rdbNow)
    /\ UNCHANGED <<rdbDbs, rdbCut, rdbNow, rdbLoaded, rdbEnv>>

\* The copy of the file ends early (a disk, a network, an operator).
CutFile ==
    /\ rdbFile # <<>> /\ ~rdbCut /\ rdbLoaded.st = "none"
    /\ \E n \in 1..Len(rdbFile) - 1 : rdbFile' = SubSeq(rdbFile, 1, n)
    /\ rdbCut' = TRUE
    /\ UNCHANGED <<rdbDbs, rdbNow, rdbLoaded, rdbEnv>>

LoadFile ==
    /\ rdbFile # <<>> /\ rdbLoaded.st = "none"
    /\ \E t \in {0, 5} : rdbNow' = t /\ rdbLoaded' = rdbLoadRio(rdbEnv.load, rdbFile, t)
    /\ UNCHANGED <<rdbDbs, rdbFile, rdbCut, rdbEnv>>

RdbNext == SaveFile \/ CutFile \/ LoadFile

----------------------------------------------------------------------------
\* What a client reads of an object, whatever its encoding.
ValueOf(o) ==
    CASE o.t = "string" -> IF o.e = "int" THEN ll2string(o.v) ELSE o.v
      [] o.t = "list" -> IF o.e = "quicklist" THEN FlattenSeq([i \in 1..Len(o.v) |-> o.v[i].zl]) ELSE o.v
      [] o.t = "set" -> IF o.e = "intset" THEN {ll2string(o.v[i]) : i \in 1..Len(o.v)} ELSE {o.v[i] : i \in 1..Len(o.v)}
      [] o.t = "zset" -> o.v
      [] o.t = "hash" -> {<<o.v[i].f, o.v[i].v>> : i \in 1..Len(o.v)}

SameEntry(x, y) == x.db = y.db /\ x.k = y.k /\ x.ex = y.ex /\ x.o.t = y.o.t /\ ValueOf(x.o) = ValueOf(y.o)

\* The entries that must be there: those not expired when saving and, on a
\* master, not expired when loading.
Kept(x) == x.ex = NoExpire \/ (x.ex >= 0 /\ (rdbEnv.load.master => x.ex >= rdbNow))

\* A dataset that is loaded is the dataset that was saved: the same keys in the
\* same databases with the same values and times, less those whose time passed;
\* the database the replication stream was in is that of the saving server.
SavedIsLoaded ==
    rdbLoaded.st = "ok" /\ ~rdbCut =>
        LET want == SelectSeq(rdbDbs, Kept) IN
        /\ \A i \in 1..Len(want) : \E j \in 1..Len(rdbLoaded.data) : SameEntry(want[i], rdbLoaded.data[j])
        /\ Len(rdbLoaded.data) = Len(want)
        /\ Max({rdbLoaded.stream, 0}) = Max({rdbEnv.save.stream, 0})

\* A file that was cut short is refused, never loaded as a smaller dataset,
\* unless only the checksum is missing and this server does not look at it.
CutIsRefused ==
    rdbCut /\ rdbLoaded.st # "none" =>
        rdbLoaded.st \in {"exit", "crash"} \/ (~rdbEnv.load.checksum /\ Last(rdbFile).n = 255)

\* Small encodings of what was stored element by element obey the limits of the
\* server that loads, in number and in length of the elements.
LoadedFits ==
    \A i \in 1..Len(rdbLoaded.data) :
        LET o == rdbLoaded.data[i].o
            e == rdbEnv.load
        IN  /\ o.e = "ziplist" => Len(o.v) <= e.entries
            /\ o.e = "intset" => Len(o.v) <= e.intset
            /\ o.t = "zset" /\ o.e = "ziplist" /\ ~(\E x \in ToSet(rdbDbs) : x.o.e = "ziplist") =>
                  \A j \in 1..Len(o.v) : Len(o.v[j].e) <= e.value

\* Every file rdbSave writes can be loaded again.
LoadNeverCrashes == rdbLoaded.st # "crash"

-----------------------------------------------------------------------------
(***************************************************************************)
(* The LZF compressor and decompressor (lzf_c.c, lzf_d.c) that RDB strings *)
(* and quicklist nodes go through.  Bytes are numbers, buffers sequences.  *)
(*                                                                         *)
(* The build leaves INIT_HTAB at 0: the hash table of earlier positions is *)
(* an uninitialised array on the stack, and two contexts may share a slot: *)
(* the position read from a slot is any number at all.  Turn therefore     *)
(* takes an arbitrary ref; what protects the output is only the test the   *)
(* code makes on it.  For the long inputs no slot is shared.               *)
(***************************************************************************)
CONSTANT LzfStarts   \* set of [in |-> bytes, room |-> out_len, shared |-> BOOLEAN]

VARIABLES lzfIn, lzfRoom, lzfShared, lzf

lzfVars == <<lzfIn, lzfRoom, lzfShared, lzf>>

MAX_LIT == 32
MAX_OFF == 8192
MAX_REF == 264

\* c.ip is the index of the next input byte (from 0); c.out is everything up
\* to op, its last c.lit bytes being the open literal run and the byte before
\* them the place its header will go to.
LzfBegin(room) ==
    IF room = 0 THEN [ip |-> 0, out |-> <<>>, lit |-> 0, res |-> "fail"]
                ELSE [ip |-> 0, out |-> <<0>>, lit |-> 0, res |-> "run"]

\* op[-lit-1] = lit-1; then op -= !lit
StopRun(c) ==
    IF c.lit = 0 THEN SubSeq(c.out, 1, Len(c.out) - 1)
                 ELSE [c.out EXCEPT ![Len(c.out) - c.lit] = c.lit - 1]

PutLiteral(in, c) ==
    LET d == [c EXCEPT !.ip = @ + 1, !.out = Append(@, in[c.ip + 1]), !.lit = @ + 1]
    IN  IF d.lit = MAX_LIT
        THEN [d EXCEPT !.out = Append(StopRun(d), 0), !.lit = 0]
        ELSE d

IsMatch(in, ip, ref) ==
    /\ ref < ip /\ ip - ref - 1 < MAX_OFF
    /\ ref > 0
    /\ \A i \in 1..3 : in[ref + i] = in[ip + i]

\* How far the match extends: with more than 16 bytes to go the unrolled part
\* looks only at the bytes for the first sixteen of them.
MatchLength(in, ip, ref) ==
    LET max == Min({MAX_REF, Len(in) - ip - 2})
        Differs(l) == in[ref + l + 1] # in[ip + l + 1]
    IN  Min({l \in 3..Max({19, max}) :
                IF max > 16 /\ l <= 18 THEN Differs(l) ELSE l >= max \/ Differs(l)})

BackReference(off, len) ==
    IF len < 7 THEN <<off \div 256 + len * 32, off % 256>>
               ELSE <<off \div 256 + 7 * 32, len - 7, off % 256>>


PutMatch(in, room, c, ref) ==
    LET l == MatchLength(in, c.ip, ref)
    IN  IF Len(c.out) - (IF c.lit = 0 THEN 1 ELSE 0) + 4 >= room
        THEN [c EXCEPT !.res = "fail"]
        ELSE [c EXCEPT !.ip = @ + l, !.lit = 0,
                       !.out = StopRun(c) \o BackReference(c.ip - ref - 1, l - 2) \o <<0>>]

\* One turn of the main loop, the slot having given the position ref.
LzfTurn(in, room, c, ref) ==
    IF IsMatch(in, c.ip, ref) THEN PutMatch(in, room, c, ref)
    ELSE IF Len(c.out) >= room THEN [c EXCEPT !.res = "fail"]
    ELSE PutLiteral(in, c)

CloseRun(c) == [c EXCEPT !.out = StopRun(c), !.res = "done"]

\* After the main loop: the last bytes are literals, the open run is closed.
LzfFinish(in, room, c) ==
    IF Len(c.out) + 3 > room THEN [c EXCEPT !.res = "fail"]
    ELSE CloseRun(FoldLeft(LAMBDA d, i : PutLiteral(in, d), c, [i \in 1..Len(in) - c.ip |-> i]))

InLoop(in, c) == c.ip < Len(in) - 2

\* lzf_decompress: the bytes in, 0 (here <<>>) when they do not fit or do not
\* make sense.  An overlapping reference repeats what it has just copied.
RECURSIVE LzfExpand(_, _, _, _)
LzfExpand(c, ip, out, room) ==
    IF ip >= Len(c) THEN out
    ELSE LET ctrl == c[ip + 1] IN
    IF ctrl < 32
    THEN IF Len(out) + ctrl + 1 > room \/ ip + ctrl + 2 > Len(c) THEN <<>>
         ELSE LzfExpand(c, ip + ctrl + 2, out \o SubSeq(c, ip + 2, ip + ctrl + 2), room)
    ELSE LET long == ctrl \div 32 = 7
             end  == ip + (IF long THEN 3 ELSE 2)
         IN  IF end > Len(c) THEN <<>>
             ELSE LET len == ctrl \div 32 + (IF long THEN c[ip + 2] ELSE 0) + 2
                      ref == Len(out) - (ctrl % 32) * 256 - 1 - c[end]
                  IN  IF Len(out) + len > room \/ ref < 0 THEN <<>>
                      ELSE LzfExpand(c, end,
                               out \o [i \in 1..len |-> out[ref + ((i - 1) % (Len(out) - ref)) + 1]],
                               room)

lzf_decompress(c, room) == LzfExpand(c, 0, <<>>, room)

----------------------------------------------------------------------------
LzfInit ==
    \E s \in LzfStarts :
        /\ lzfIn = s.in /\ lzfRoom = s.room /\ lzfShared = s.shared
        /\ lzf = LzfBegin(s.room)

\* The latest position with the same three bytes, or what was on the stack.
SlotContent ==
    LET same == {p \in 1..lzf.ip - 1 : \A i \in 1..3 : lzfIn[p + i] = lzfIn[lzf.ip + i]}
    IN  IF lzfShared THEN 0..lzf.ip ELSE {Max(same \cup {0})}

Turn ==
    /\ lzf.res = "run" /\ InLoop(lzfIn, lzf)
    /\ \E ref \in SlotContent : lzf' = LzfTurn(lzfIn, lzfRoom, lzf, ref)
    /\ UNCHANGED <<lzfIn, lzfRoom, lzfShared>>

Finish ==
    /\ lzf.res = "run" /\ ~InLoop(lzfIn, lzf)
    /\ lzf' = LzfFinish(lzfIn, lzfRoom, lzf)
    /\ UNCHANGED <<lzfIn, lzfRoom, lzfShared>>

LzfNext == Turn \/ Finish

----------------------------------------------------------------------------
\* What lzf_compress returns is expanded by lzf_decompress, given the length of
\* the input as room, to exactly that input, whatever the uninitialised hash
\* table held when the back references were chosen.
LzfRestores ==
    lzf.res = "done" => lzf_decompress(lzf.out, Len(lzfIn)) = lzfIn

\* No byte is written past out_len: the header of an empty run is only a place
\* (rdbSaveLzfStringObject and quicklist allocate no more than that).
LzfInBounds ==
    lzf.res # "fail" => Len(lzf.out) - (IF lzf.lit = 0 /\ lzf.res = "run" THEN 1 ELSE 0) <= lzfRoom

=============================================================================
