--------------------------- MODULE SetsAndHashes ----------------------------
(***************************************************************************)
(* Sets (t_set.c) as an intset (intset.c), bytes of integers in order at the  *)
(* width of the widest, or as a table; the commands that change them, and what *)
(* they propagate.  Numbers in SetWords stand for elements that are no integers. *)
(***************************************************************************)
EXTENDS Integers, Sequences, FiniteSets, SequencesExt, FiniteSetsExt, Functions

CONSTANTS SetInts, SetWords,
          Int16Max, Int32Max,      \* the limits of two and of four bytes
          SetMaxIntset,            \* set-max-intset-entries
          SpopMoveMul,             \* SPOP_MOVE_STRATEGY_MUL
          SetStarts                \* menus of commands

VARIABLES sets, setRef, setReplica, setMenu
setVars == <<sets, setRef, setReplica, setMenu>>

SetKeys == {1, 2}
SetElements == SetInts \cup SetWords

-----------------------------------------------------------------------------
\* Intset: a byte is the i-th of an integer v; bytes that are not those of one
\* integer read as Garbage.
Garbage == 999
intsetNew == [w |-> 2, len |-> 0, mem |-> <<>>]
intsetValueEncoding(v) == IF v < -Int32Max - 1 \/ v > Int32Max THEN 8 ELSE IF v < -Int16Max - 1 \/ v > Int16Max THEN 4 ELSE 2
intsetGetEncoded(is, pos, w) ==
    LET b == is.mem[pos * w + 1]
    IN  IF \A i \in 1..w : is.mem[pos * w + i] = [v |-> b.v, i |-> i] THEN b.v ELSE Garbage
intsetGet(is, pos) == intsetGetEncoded(is, pos, is.w)
intsetSet(is, pos, v) ==
    [is EXCEPT !.mem = SubSeq([k \in DOMAIN is.mem |-> IF (k - 1) \div is.w = pos THEN [v |-> v, i |-> ((k - 1) % is.w) + 1] ELSE is.mem[k]], 1, Len(is.mem))]
intsetResize(is, len) ==
    [is EXCEPT !.mem = SubSeq([k \in 1..(len * is.w) |-> IF k <= Len(is.mem) THEN is.mem[k] ELSE [v |-> Garbage, i |-> 0]], 1, len * is.w)]
intsetMoveTail(is, from, to) ==
    LET n == (is.len - from) * is.w
    IN  [is EXCEPT !.mem = SubSeq([k \in DOMAIN is.mem |-> IF k > to * is.w /\ k <= to * is.w + n THEN is.mem[k - to * is.w + from * is.w] ELSE is.mem[k]], 1, Len(is.mem))]

RECURSIVE BinarySearch(_, _, _, _)
BinarySearch(is, v, min, max) ==
    LET mid == (min + max) \div 2
        cur == intsetGet(is, mid)
    IN  IF max < min THEN [found |-> FALSE, pos |-> min]
        ELSE IF v > cur THEN BinarySearch(is, v, mid + 1, max)
        ELSE IF v < cur THEN BinarySearch(is, v, min, mid - 1)
        ELSE [found |-> TRUE, pos |-> mid]
intsetSearch(is, v) ==
    IF is.len = 0 THEN [found |-> FALSE, pos |-> 0]
    ELSE IF v > intsetGet(is, is.len - 1) THEN [found |-> FALSE, pos |-> is.len]
    ELSE IF v < intsetGet(is, 0) THEN [found |-> FALSE, pos |-> 0]
    ELSE BinarySearch(is, v, 0, is.len - 1)

\* In place, from the last one down, one place further if the new value, which
\* is beyond all others, comes first.
intsetUpgradeAndAdd(is, v) ==
    LET prepend == IF v < 0 THEN 1 ELSE 0
        wide == intsetResize([is EXCEPT !.w = intsetValueEncoding(v)], is.len + 1)
        moved == FoldLeft(LAMBDA a, k : intsetSet(a, k + prepend, intsetGetEncoded(a, k, is.w)), wide, [k \in 1..is.len |-> is.len - k])
    IN  [intsetSet(moved, IF prepend = 1 THEN 0 ELSE is.len, v) EXCEPT !.len = is.len + 1]
intsetAdd(is, v) ==
    LET s == intsetSearch(is, v)
        big == intsetResize(is, is.len + 1)
    IN  IF intsetValueEncoding(v) > is.w THEN intsetUpgradeAndAdd(is, v)
        ELSE IF s.found THEN is
        ELSE [intsetSet(IF s.pos < is.len THEN intsetMoveTail(big, s.pos, s.pos + 1) ELSE big, s.pos, v) EXCEPT !.len = is.len + 1]
intsetFind(is, v) == intsetValueEncoding(v) <= is.w /\ intsetSearch(is, v).found
intsetRemove(is, v) ==
    LET s == intsetSearch(is, v)
    IN  IF ~intsetFind(is, v) THEN is
        ELSE [intsetResize(IF s.pos < is.len - 1 THEN intsetMoveTail(is, s.pos + 1, s.pos) ELSE is, is.len - 1) EXCEPT !.len = is.len - 1]

-----------------------------------------------------------------------------
\* Objects.  NoSet: no such key.
NoSet == [enc |-> "none", is |-> intsetNew, ht |-> {}]
IntsetObj(is) == [enc |-> "intset", is |-> is, ht |-> {}]
TableObj(ht) == [enc |-> "table", is |-> intsetNew, ht |-> ht]
setTypeCreate(e) == IF e \in SetInts THEN IntsetObj(intsetNew) ELSE TableObj({})
setTypeSize(o) == IF o.enc = "table" THEN Cardinality(o.ht) ELSE o.is.len
setTypeMembers(o) == IF o.enc = "table" THEN o.ht ELSE {intsetGet(o.is, k) : k \in 0..(o.is.len - 1)}
setTypeConvert(o) == TableObj(setTypeMembers(o))
setTypeIsMember(o, e) == IF o.enc = "table" THEN e \in o.ht ELSE e \in SetInts /\ intsetFind(o.is, e)
setTypeAdd(o, e) ==
    LET is == intsetAdd(o.is, e)
    IN  IF o.enc = "table" THEN TableObj(o.ht \cup {e})
        ELSE IF e \notin SetInts THEN TableObj(setTypeMembers(o) \cup {e})
        ELSE IF is.len > o.is.len /\ is.len > SetMaxIntset THEN setTypeConvert(IntsetObj(is))
        ELSE IntsetObj(is)
setTypeRemove(o, e) ==
    IF o.enc = "table" THEN TableObj(o.ht \ {e})
    ELSE IF e \in SetInts THEN IntsetObj(intsetRemove(o.is, e)) ELSE o
AddAllTo(o, S) == FoldLeft(setTypeAdd, o, SetToSeq(S))
RemoveAllFrom(o, S) == FoldLeft(setTypeRemove, o, SetToSeq(S))
SetKeyOf(o) == IF setTypeSize(o) = 0 THEN NoSet ELSE o

-----------------------------------------------------------------------------
\* What goes to replicas: commands as the client gave them, or as rewritten.
Prop(op, k, S) == [op |-> op, k |-> k, s |-> S]
Applied(r, p) == [r EXCEPT ![p.k] = CASE p.op = "sadd" -> @ \cup p.s [] p.op = "srem" -> @ \ p.s [] p.op = "del" -> {} [] p.op = "store" -> p.s]
Propagate(ps) == setReplica' = FoldLeft(Applied, setReplica, ps)

SetInit == /\ sets = [k \in SetKeys |-> NoSet] /\ setRef = [k \in SetKeys |-> {}] /\ setReplica = [k \in SetKeys |-> {}]
           /\ setMenu \in SetStarts

saddCommand(o, e) == setTypeAdd(IF o.enc = "none" THEN setTypeCreate(e) ELSE o, e)
SAdd == \E k \in SetKeys, e \in SetElements :
    /\ "sadd" \in setMenu /\ e \notin setRef[k]
    /\ sets' = [sets EXCEPT ![k] = saddCommand(@, e)]
    /\ setRef' = [setRef EXCEPT ![k] = @ \cup {e}]
    /\ Propagate(<<Prop("sadd", k, {e})>>) /\ UNCHANGED setMenu

sremCommand(o, e) == IF o.enc = "none" THEN o ELSE SetKeyOf(setTypeRemove(o, e))
SRem == \E k \in SetKeys, e \in SetElements :
    /\ "srem" \in setMenu /\ e \in setRef[k]
    /\ sets' = [sets EXCEPT ![k] = sremCommand(@, e)]
    /\ setRef' = [setRef EXCEPT ![k] = @ \ {e}]
    /\ Propagate(<<Prop("srem", k, {e})>>) /\ UNCHANGED setMenu

\* Nothing is done if the source has not the element, or is the destination.
smoveCommand(s, src, dst, e) ==
    IF s[src].enc = "none" \/ src = dst \/ ~setTypeIsMember(s[src], e) THEN s
    ELSE [s EXCEPT ![src] = SetKeyOf(setTypeRemove(@, e)), ![dst] = setTypeAdd(IF @.enc = "none" THEN setTypeCreate(e) ELSE @, e)]
SMove == \E src, dst \in SetKeys, e \in SetElements :
    /\ "smove" \in setMenu
    /\ sets' = smoveCommand(sets, src, dst, e)
    /\ setRef' = IF src # dst /\ e \in setRef[src] THEN [setRef EXCEPT ![src] = @ \ {e}, ![dst] = @ \cup {e}] ELSE setRef
    /\ Propagate(IF sets' = sets THEN <<>> ELSE <<Prop("srem", src, {e}), Prop("sadd", dst, {e})>>)
    /\ UNCHANGED setMenu

\* All, some taken out, or the few that stay put into a new set.
spopWithCountCommand(o, k, popped) ==
    LET size == setTypeSize(o)
        count == Cardinality(popped)
        kept == setTypeMembers(o) \ popped
        first == CHOOSE e \in kept : TRUE
    IN  IF count >= size THEN [o |-> NoSet, props |-> <<Prop("del", k, {})>>]
        ELSE IF (size - count) * SpopMoveMul > count THEN [o |-> RemoveAllFrom(o, popped), props |-> <<Prop("srem", k, popped)>>]
        ELSE [o |-> AddAllTo(setTypeCreate(first), kept), props |-> <<Prop("srem", k, setTypeMembers(RemoveAllFrom(o, kept)))>>]
SPopCount == \E k \in SetKeys : \E popped \in SUBSET setTypeMembers(sets[k]) \ {{}} :
    LET r == spopWithCountCommand(sets[k], k, popped)
    IN  /\ "spop" \in setMenu
        /\ sets' = [sets EXCEPT ![k] = r.o] /\ setRef' = [setRef EXCEPT ![k] = @ \ popped]
        /\ Propagate(r.props) /\ UNCHANGED setMenu

\* Every element of the smallest source is looked up in the others.
sinterGenericCommand(srcs) ==
    LET small == CHOOSE j \in DOMAIN srcs : \A i \in DOMAIN srcs : setTypeSize(srcs[j]) <= setTypeSize(srcs[i])
    IN  IF \E j \in DOMAIN srcs : srcs[j].enc = "none" THEN NoSet
        ELSE SetKeyOf(AddAllTo(IntsetObj(intsetNew), {e \in setTypeMembers(srcs[small]) : \A j \in DOMAIN srcs \ {small} : setTypeIsMember(srcs[j], e)}))
\* Difference by looking up, or by removing, whichever is less work.
DiffAlgo(srcs) ==
    LET there == {j \in DOMAIN srcs : srcs[j].enc # "none"}
    IN  IF (Cardinality(there) * setTypeSize(srcs[1])) \div 2 <= MapThenSumSet(LAMBDA j : setTypeSize(srcs[j]), there) THEN 1 ELSE 2
DiffOf(srcs) ==
    LET first == AddAllTo(IntsetObj(intsetNew), setTypeMembers(srcs[1]))
    IN  IF srcs[1].enc = "none" THEN IntsetObj(intsetNew)
        ELSE IF DiffAlgo(srcs) = 1 THEN AddAllTo(IntsetObj(intsetNew), {e \in setTypeMembers(srcs[1]) : \A j \in 2..Len(srcs) : ~setTypeIsMember(srcs[j], e)})
        ELSE FoldLeft(LAMBDA o, src : RemoveAllFrom(o, setTypeMembers(src)), first, Tail(srcs))
sunionDiffGenericCommand(srcs, op) ==
    SetKeyOf(IF op = "union" THEN FoldLeft(LAMBDA o, src : AddAllTo(o, setTypeMembers(src)), IntsetObj(intsetNew), srcs) ELSE DiffOf(srcs))
\* The result takes the place of the destination, which may be a source.
SStore == \E dst, a, b \in SetKeys, op \in {"inter", "union", "diff"}, four \in BOOLEAN :
    LET srcs == [j \in 1..(IF four THEN 4 ELSE 2) |-> sets[IF j = 1 THEN a ELSE b]]
        of(f) == CASE op = "inter" -> f[a] \cap f[b] [] op = "union" -> f[a] \cup f[b] [] op = "diff" -> f[a] \ f[b]
    IN  /\ "store" \in setMenu
        /\ sets' = [sets EXCEPT ![dst] = IF op = "inter" THEN sinterGenericCommand(srcs) ELSE sunionDiffGenericCommand(srcs, op)]
        /\ setRef' = [setRef EXCEPT ![dst] = of(setRef)]
        /\ Propagate(<<Prop("store", dst, of(setReplica))>>)
        /\ UNCHANGED setMenu

SetNext == SAdd \/ SRem \/ SMove \/ SPopCount \/ SStore

-----------------------------------------------------------------------------
\* Whatever the encodings of the sources and the algorithm chosen, a key holds the
\* set that the commands say, and is gone when that is empty (setTypeAdd,
\* setTypeRemove, sinterGenericCommand, sunionDiffGenericCommand).
SetsHold == \A k \in SetKeys :
    /\ setTypeMembers(sets[k]) = setRef[k] /\ setTypeSize(sets[k]) = Cardinality(setRef[k])
    /\ (sets[k].enc = "none") = (setRef[k] = {})

\* The bytes of an intset are those of its integers in increasing order, at a
\* width that fits all of them, after any number of upgrades, insertions and
\* removals in place (intsetUpgradeAndAdd, intsetMoveTail).
IntsetIsExact == \A k \in SetKeys : sets[k].enc = "intset" =>
    LET is == sets[k].is
    IN  /\ Len(is.mem) = is.len * is.w
        /\ \A p \in 0..(is.len - 1) :
               /\ intsetGet(is, p) \in SetInts /\ intsetValueEncoding(intsetGet(is, p)) <= is.w
               /\ p > 0 => intsetGet(is, p - 1) < intsetGet(is, p)

\* A replica that applies what is propagated has the same sets, although the
\* elements that SPOP takes are drawn at random (spopWithCountCommand).
SetsReplicated == \A k \in SetKeys : setReplica[k] = setTypeMembers(sets[k])

-----------------------------------------------------------------------------
(***************************************************************************)
(* A hash (t_hash.c): fields and values one after the other in a ziplist, or a *)
(* table.  Fields and values are numbers, so that a value may look like a      *)
(* field; HashLong stands for strings over hash-max-ziplist-value.             *)
(***************************************************************************)
CONSTANTS HashFields, HashLong,
          HashIntMax,               \* LLONG_MAX; LLONG_MIN is one below its negative
          HashEntries,              \* hash-max-ziplist-entries
          HashStarts                \* menus of commands

VARIABLES hash, hashRef, hashMenu
hashVars == <<hash, hashRef, hashMenu>>

HashIntMin == -HashIntMax - 1
NoHash == [enc |-> "none", zl |-> <<>>, ht |-> [f \in {} |-> 0]]
NewHash == [NoHash EXCEPT !.enc = "ziplist"]

\* The place of a field: every other element is skipped.
ziplistFind(zl, f) == LET p == {k \in DOMAIN zl : k % 2 = 1 /\ zl[k] = f} IN IF p = {} THEN 0 ELSE Min(p)

hashTypeLength(o) == IF o.enc = "table" THEN Cardinality(DOMAIN o.ht) ELSE Len(o.zl) \div 2
ZiplistFields(zl) == [f \in {zl[2*i - 1] : i \in 1..(Len(zl) \div 2)} |-> zl[2 * (CHOOSE i \in 1..(Len(zl) \div 2) : zl[2*i - 1] = f)]]
hashTypeConvert(o) == IF o.enc = "ziplist" THEN [NoHash EXCEPT !.enc = "table", !.ht = ZiplistFields(o.zl)] ELSE o
hashTypeTryConversion(o, args) == IF o.enc = "ziplist" /\ args \cap HashLong # {} THEN hashTypeConvert(o) ELSE o

hashTypeGetFromZiplist(zl, f) == LET p == ziplistFind(zl, f) IN IF p = 0 THEN {} ELSE {zl[p + 1]}
hashTypeGetValue(o, f) == IF o.enc = "table" THEN {o.ht[x] : x \in {f} \cap DOMAIN o.ht} ELSE hashTypeGetFromZiplist(o.zl, f)
hashTypeExists(o, f) == hashTypeGetValue(o, f) # {}

hashTypeSet(o, f, v) ==
    LET p == ziplistFind(o.zl, f)
        zl == IF p = 0 THEN o.zl \o <<f, v>> ELSE SubSeq(o.zl, 1, p) \o <<v>> \o SubSeq(o.zl, p + 2, Len(o.zl))
        grown == [o EXCEPT !.zl = zl]
    IN  IF o.enc = "table" THEN [o EXCEPT !.ht = [x \in {f} |-> v] @@ o.ht]
        ELSE IF hashTypeLength(grown) > HashEntries THEN hashTypeConvert(grown) ELSE grown
hashTypeDelete(o, f) ==
    LET p == ziplistFind(o.zl, f)
    IN  IF o.enc = "table" THEN [o EXCEPT !.ht = Restrict(o.ht, DOMAIN o.ht \ {f})]
        ELSE IF p = 0 THEN o ELSE [o EXCEPT !.zl = SubSeq(o.zl, 1, p - 1) \o SubSeq(o.zl, p + 2, Len(o.zl))]

-----------------------------------------------------------------------------
hashTypeLookupWriteOrCreate(o) == IF o.enc = "none" THEN NewHash ELSE o
hsetCommand(o, f, v) == hashTypeSet(hashTypeTryConversion(hashTypeLookupWriteOrCreate(o), {f, v}), f, v)
\* A long argument converts even if the field is there.
hsetnxCommand(o, f, v) ==
    LET c == hashTypeTryConversion(hashTypeLookupWriteOrCreate(o), {f, v}) IN IF hashTypeExists(c, f) THEN c ELSE hashTypeSet(c, f, v)
hdelCommand(o, f) == LET d == hashTypeDelete(o, f) IN IF o.enc = "none" \/ hashTypeLength(d) = 0 THEN NoHash ELSE d

\* Two's complement.
HashWrap(n) == IF n > HashIntMax THEN n - 2 * (HashIntMax + 1) ELSE IF n < HashIntMin THEN n + 2 * (HashIntMax + 1) ELSE n
Overflows(old, incr) == (incr < 0 /\ old < 0 /\ incr < HashIntMin - old) \/ (incr > 0 /\ old > 0 /\ incr > HashIntMax - old)
\* A value that is no integer, or an overflow, is an error after the key was looked up or created.
hincrbyCommand(o, f, incr) ==
    LET h == hashTypeLookupWriteOrCreate(o)
        v == hashTypeGetValue(h, f)
        old == IF v = {} THEN 0 ELSE CHOOSE x \in v : TRUE
    IN  IF v \cap HashLong # {} \/ Overflows(old, incr) THEN h ELSE hashTypeSet(h, f, HashWrap(old + incr))

-----------------------------------------------------------------------------
HashInit == hash = NoHash /\ hashRef = [f \in {} |-> 0] /\ hashMenu \in HashStarts
HashPut(f, v) == [x \in {f} |-> v] @@ hashRef

HSet == \E f \in HashFields \cup HashLong, v \in HashFields \cup HashLong :
    /\ "hset" \in hashMenu
    /\ hash' = hsetCommand(hash, f, v) /\ hashRef' = HashPut(f, v) /\ UNCHANGED hashMenu
HSetNX == \E f \in HashFields, v \in HashFields \cup HashLong :
    /\ "hset" \in hashMenu
    /\ hash' = hsetnxCommand(hash, f, v) /\ hashRef' = (IF f \in DOMAIN hashRef THEN hashRef ELSE HashPut(f, v)) /\ UNCHANGED hashMenu
HDel == \E f \in HashFields \cup HashLong :
    /\ "hdel" \in hashMenu
    /\ hash' = hdelCommand(hash, f) /\ hashRef' = Restrict(hashRef, DOMAIN hashRef \ {f}) /\ UNCHANGED hashMenu
HIncrBy == \E f \in HashFields, incr \in HashIntMin..HashIntMax :
    LET sum == (IF f \in DOMAIN hashRef THEN hashRef[f] ELSE 0) + incr
    IN  /\ "hincrby" \in hashMenu
        /\ hash' = hincrbyCommand(hash, f, incr)
        /\ hashRef' = IF (f \in DOMAIN hashRef /\ hashRef[f] \in HashLong) \/ sum \notin HashIntMin..HashIntMax THEN hashRef ELSE HashPut(f, sum)
        /\ UNCHANGED hashMenu

HashNext == HSet \/ HSetNX \/ HDel \/ HIncrBy

-----------------------------------------------------------------------------
\* A field has the value that was last set or counted up to, in both encodings
\* and across conversion, even where values look like fields; an increment is exact or
\* refused; a hash is gone with its last field (hashTypeSet, hashTypeDelete, hincrbyCommand).
HashHolds ==
    /\ (IF hash.enc = "table" THEN hash.ht ELSE ZiplistFields(hash.zl)) = hashRef
    /\ hashTypeLength(hash) = Cardinality(DOMAIN hashRef) /\ (hash.enc = "none") = (DOMAIN hashRef = {})
    /\ hash.enc = "ziplist" => HashLong \cap (DOMAIN hashRef \cup Range(hashRef)) = {}
    /\ \A f \in HashFields : hashTypeGetValue(hash, f) = {hashRef[x] : x \in {f} \cap DOMAIN hashRef}

\* Sets and hashes in every encoding hold what was put in, and what a replica is
\* sent makes the same set.
SetsAndHashesAreExact ==
    /\ IntsetIsExact
    /\ SetsHold
    /\ SetsReplicated
    /\ HashHolds
=============================================================================
