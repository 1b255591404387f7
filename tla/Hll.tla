-------------------------------- MODULE Hll --------------------------------
(***************************************************************************)
(* HyperLogLog values (hyperloglog.c): the sparse representation, a run    *)
(* length code edited in place, its promotion to the dense array of        *)
(* registers, the cardinality cached in the header, and the commands that  *)
(* add, count and merge, on a master and on a replica that executes what   *)
(* the master propagates.                                                  *)
(*                                                                         *)
(* An element is its 64 bit hash.  The estimate is a function of the sum   *)
(* of 2^-register and of the number of empty registers, and is kept as     *)
(* that pair.  Values that no PF command wrote (a SET of other bytes with  *)
(* the same header) are not modelled, nor are the error paths they take.   *)
(***************************************************************************)
EXTENDS Integers, Sequences, FiniteSets, FiniteSetsExt, SequencesExt

CONSTANTS
    HllP,                \* HLL_P, the bits of the register number
    HllQ,                \* the other bits of a hash
    HllZeroMaxLen, HllValMaxLen, HllValMaxValue,  \* what fits one opcode byte
    HllHdrSize,          \* HLL_HDR_SIZE
    HllSparseMaxBytes,   \* server.hll_sparse_max_bytes
    HllStarts            \* set of starts, see HllInit

VARIABLES hllKeys, hllReplica, hllRef, hllReply, hllMenu
hllVars == <<hllKeys, hllReplica, hllRef, hllReply, hllMenu>>

HllRegisters == 2^HllP
Regs == 0..(HllRegisters - 1)

----------------------------------------------------------------------------
\* The pattern: the low bits name a register, the count is the position of
\* the first one among the others, the last of which is always set.

hllPatLen(hash) ==
    LET rest == hash \div HllRegisters
    IN  [index |-> hash % HllRegisters,
         count |-> Min({b \in 1..HllQ : b = HllQ \/ (rest \div 2^(b - 1)) % 2 = 1})]

\* A value: not there, a plain string, a sparse or a dense representation.
NoValue == [k |-> "none", ops |-> <<>>, regs |-> <<>>, card |-> <<>>, valid |-> FALSE]
PlainString == [NoValue EXCEPT !.k = "str"]

Zero(n) == [op |-> IF n > HllZeroMaxLen THEN "xzero" ELSE "zero", len |-> n, val |-> 0]
XZero(n) == [op |-> "xzero", len |-> n, val |-> 0]
Val(v, n) == [op |-> "val", len |-> n, val |-> v]
OpBytes(o) == IF o.op = "xzero" THEN 2 ELSE 1

SumOf(s) == FoldLeft(LAMBDA a, b : a + b, 0, s)
Covered(ops, i) == SumOf([j \in 1..i |-> ops[j].len])
SparseLen(ops) == HllHdrSize + SumOf([j \in 1..Len(ops) |-> OpBytes(ops[j])])

\* The registers of a sparse representation, read from its runs.
Expand(ops) ==
    [r \in Regs |-> LET i == Min({j \in 1..Len(ops) : r < Covered(ops, j)}) IN ops[i].val]

hllSparseToDense(o) ==
    IF o.k = "dense" THEN o ELSE [o EXCEPT !.k = "dense", !.regs = Expand(o.ops), !.ops = <<>>]

hllDenseAdd(o, hash) ==
    LET p == hllPatLen(hash)
    IN  IF p.count > o.regs[p.index]
        THEN [o |-> [o EXCEPT !.regs[p.index] = p.count], ret |-> 1]
        ELSE [o |-> o, ret |-> 0]

Promote(o, hash) == hllDenseAdd(hllSparseToDense(o), hash)

Joins(a, b) == a.op = "val" /\ b.op = "val" /\ a.val = b.val /\ a.len + b.len <= HllValMaxLen

RECURSIVE MergeValues(_, _, _)
MergeValues(ops, p, scanlen) ==
    IF p > Len(ops) \/ scanlen = 0 THEN ops
    ELSE IF p < Len(ops) /\ Joins(ops[p], ops[p + 1])
    THEN MergeValues(SubSeq(ops, 1, p - 1) \o <<Val(ops[p].val, ops[p].len + ops[p + 1].len)>> \o SubSeq(ops, p + 2, Len(ops)), p, scanlen - 1)
    ELSE MergeValues(ops, p + 1, scanlen - 1)

\* The opcodes that take the place of opcode op, which covers first onwards.
HllSplit(op, first, index, count) ==
    LET Run(n) == IF n = 0 THEN <<>> ELSE IF op.op = "val" THEN <<Val(op.val, n)>> ELSE <<Zero(n)>>
    IN  Run(index - first) \o <<Val(count, 1)>> \o Run(first + op.len - 1 - index)

\* The opcodes seq take the place of the one at position at, or the value is
\* promoted when it would grow past the limit.
PutOps(o, hash, at, seq) ==
    LET delta == SumOf([j \in 1..Len(seq) |-> OpBytes(seq[j])]) - OpBytes(o.ops[at])
        ops == SubSeq(o.ops, 1, at - 1) \o seq \o SubSeq(o.ops, at + 1, Len(o.ops))
    IN  IF delta > 0 /\ SparseLen(o.ops) + delta > HllSparseMaxBytes THEN Promote(o, hash)
        ELSE [o |-> [o EXCEPT !.ops = MergeValues(ops, IF at = 1 THEN 1 ELSE at - 1, 5), !.valid = FALSE], ret |-> 1]

AddAt(o, hash, p, at) ==
    LET op == o.ops[at]
        alone == op.op # "xzero" /\ op.len = 1
    IN  IF op.op = "val" /\ op.val >= p.count THEN [o |-> o, ret |-> 0]
        ELSE PutOps(o, hash, at, IF alone THEN <<Val(p.count, 1)>>
                                 ELSE HllSplit(op, Covered(o.ops, at - 1), p.index, p.count))

SparseAdd(o, hash, p) ==
    IF p.count > HllValMaxValue THEN Promote(o, hash)
    ELSE AddAt(o, hash, p, Min({j \in 1..Len(o.ops) : p.index < Covered(o.ops, j)}))
hllSparseAdd(o, hash) == SparseAdd(o, hash, hllPatLen(hash))

hllAdd(o, hash) == IF o.k = "dense" THEN hllDenseAdd(o, hash) ELSE hllSparseAdd(o, hash)

----------------------------------------------------------------------------
\* The estimate.

Sum(regs) == [e |-> SumOf([j \in 1..HllRegisters |-> 2^(HllQ - regs[j - 1])]), ez |-> Cardinality({r \in Regs : regs[r] = 0})]
hllDenseSum(regs) == Sum(regs)
hllRawSum(regs) == Sum(regs)
hllSparseSum(ops) ==
    LET zeros == SelectSeq(ops, LAMBDA o : o.op # "val")
        vals == SelectSeq(ops, LAMBDA o : o.op = "val")
        ez == SumOf([j \in 1..Len(zeros) |-> zeros[j].len])
    IN  [e |-> ez * 2^HllQ + SumOf([j \in 1..Len(vals) |-> vals[j].len * 2^(HllQ - vals[j].val)]), ez |-> ez]
hllCount(o) == IF o.k = "dense" THEN hllDenseSum(o.regs) ELSE hllSparseSum(o.ops)

Empty == [e |-> HllRegisters * 2^HllQ, ez |-> HllRegisters]
createHLLObject == [k |-> "sparse", ops |-> <<XZero(HllRegisters)>>, regs |-> <<>>, card |-> Empty, valid |-> TRUE]

\* hllMerge of several keys, each skipped when it is not there.
RegsOf(o) == IF o.k = "dense" THEN o.regs ELSE IF o.k = "sparse" THEN Expand(o.ops) ELSE [r \in Regs |-> 0]
hllMerge(keys, ks) == [r \in Regs |-> Max({RegsOf(keys[k])[r] : k \in ks})]

isHLLObjectOrReply(o) == o.k # "str"

----------------------------------------------------------------------------
\* The commands: the keys after it, whether it counts as a change, the reply.

AddTo(r, hash) == LET a == hllAdd(r.o, hash) IN [o |-> a.o, updated |-> r.updated + a.ret]
AddAll(o, hashes, updated) == FoldLeft(AddTo, [o |-> o, updated |-> updated], hashes)

Refused(keys) == [keys |-> keys, dirty |-> FALSE, err |-> TRUE, reply |-> 0]

Added(keys, k, r) ==
    LET changed == r.updated > 0
    IN  [keys |-> [keys EXCEPT ![k] = IF changed THEN [r.o EXCEPT !.valid = FALSE] ELSE r.o],
         dirty |-> changed, err |-> FALSE, reply |-> IF changed THEN 1 ELSE 0]
pfaddCommand(keys, k, hashes) ==
    LET new == keys[k].k = "none"
    IN  IF ~isHLLObjectOrReply(keys[k]) THEN Refused(keys)
        ELSE Added(keys, k, AddAll(IF new THEN createHLLObject ELSE keys[k], hashes, IF new THEN 1 ELSE 0))

\* PFCOUNT of one key, which may write the cache.
CountOne(keys, k) ==
    LET o == keys[k]
    IN  IF o.k = "none" THEN [keys |-> keys, dirty |-> FALSE, err |-> FALSE, reply |-> Empty]
        ELSE IF ~isHLLObjectOrReply(o) THEN Refused(keys)
        ELSE IF o.valid THEN [keys |-> keys, dirty |-> FALSE, err |-> FALSE, reply |-> o.card]
        ELSE [keys |-> [keys EXCEPT ![k].card = hllCount(o), ![k].valid = TRUE], dirty |-> TRUE, err |-> FALSE, reply |-> hllCount(o)]

pfcountCommand(keys, ks) ==
    IF Cardinality(ks) = 1 THEN CountOne(keys, CHOOSE k \in ks : TRUE)
    ELSE IF \E k \in ks : ~isHLLObjectOrReply(keys[k]) THEN Refused(keys)
    ELSE [keys |-> keys, dirty |-> FALSE, err |-> FALSE, reply |-> hllRawSum(hllMerge(keys, ks))]

pfmergeCommand(keys, dst, srcs) ==
    LET ks == srcs \cup {dst}
        o == hllSparseToDense(IF keys[dst].k = "none" THEN createHLLObject ELSE keys[dst])
    IN  IF \E k \in ks : ~isHLLObjectOrReply(keys[k]) THEN Refused(keys)
        ELSE [keys |-> [keys EXCEPT ![dst] = [o EXCEPT !.regs = hllMerge(keys, ks), !.valid = FALSE]], dirty |-> TRUE, err |-> FALSE, reply |-> 0]

\* PFDEBUG GETREG and TODENSE.
pfdebugCommand(keys, k) ==
    IF keys[k].k = "none" \/ ~isHLLObjectOrReply(keys[k]) THEN Refused(keys)
    ELSE [keys |-> [keys EXCEPT ![k] = hllSparseToDense(@)], dirty |-> keys[k].k = "sparse", err |-> FALSE, reply |-> 0]

----------------------------------------------------------------------------
HllInit ==
    \E s \in HllStarts :
        /\ hllKeys = s.keys
        /\ hllReplica = s.keys
        /\ hllRef = [k \in DOMAIN s.keys |-> {}]
        /\ hllReply = [ks |-> {}, reply |-> Empty]
        /\ hllMenu = s.menu

HllSpend(what) ==
    /\ hllMenu[what] > 0
    /\ hllMenu' = [hllMenu EXCEPT ![what] = @ - 1]

\* What the command returned, and the replica executing it if it is propagated.
HllDone(r, replica) ==
    /\ hllKeys' = r.keys
    /\ hllReplica' = IF r.dirty THEN replica.keys ELSE hllReplica

HllNoCount == hllReply' = [ks |-> {}, reply |-> Empty]

PfAdd(k, hashes) ==
    \E r \in {pfaddCommand(hllKeys, k, hashes)} :
        /\ HllDone(r, pfaddCommand(hllReplica, k, hashes))
        /\ hllRef' = IF r.err THEN hllRef ELSE [hllRef EXCEPT ![k] = @ \cup ToSet(hashes)]
        /\ HllNoCount

PfCount(ks) ==
    \E r \in {pfcountCommand(hllKeys, ks)} :
        /\ HllDone(r, pfcountCommand(hllReplica, ks))
        /\ hllReply' = IF r.err THEN [ks |-> {}, reply |-> Empty] ELSE [ks |-> ks, reply |-> r.reply]
        /\ UNCHANGED hllRef

PfMerge(dst, srcs) ==
    \E r \in {pfmergeCommand(hllKeys, dst, srcs)} :
        /\ HllDone(r, pfmergeCommand(hllReplica, dst, srcs))
        /\ hllRef' = IF r.err THEN hllRef ELSE [hllRef EXCEPT ![dst] = @ \cup UNION {hllRef[k] : k \in srcs}]
        /\ HllNoCount

PfDebug(k) ==
    /\ HllDone(pfdebugCommand(hllKeys, k), pfdebugCommand(hllReplica, k))
    /\ HllNoCount
    /\ UNCHANGED hllRef

HllNext ==
    \/ HllSpend("add") /\ \E k \in DOMAIN hllKeys, hs \in hllMenu.hashes : PfAdd(k, hs)
    \/ HllSpend("count") /\ \E ks \in SUBSET DOMAIN hllKeys \ {{}} : PfCount(ks)
    \/ HllSpend("merge") /\ \E d \in DOMAIN hllKeys, ks \in SUBSET DOMAIN hllKeys \ {{}} : PfMerge(d, ks)
    \/ HllSpend("debug") /\ \E k \in DOMAIN hllKeys : PfDebug(k)

----------------------------------------------------------------------------
\* The registers an element set gives: the longest pattern of each.
RegistersOf(S) ==
    [r \in Regs |-> Max({0} \cup {p.count : p \in {q \in {hllPatLen(h) : h \in S} : q.index = r}})]

\* Whatever the encodings of the keys, the order of the additions, the
\* promotions and the merges between them, and whether the answer comes from
\* the cached cardinality (HLL_VALID_CACHE), PFCOUNT answers the estimate of
\* the union of all that was added to the keys, and no value loses a register.
HllCountsUnion ==
    /\ hllReply.ks # {} => hllReply.reply = Sum(RegistersOf(UNION {hllRef[k] : k \in hllReply.ks}))
    /\ \A k \in DOMAIN hllKeys : hllKeys[k].k \in {"sparse", "dense"} => RegsOf(hllKeys[k]) = RegistersOf(hllRef[k])

\* A replica that executes only the propagated commands holds the same bytes:
\* the encoding and the cached cardinality included ("if there is a sparse ->
\* dense convertion, it will be performed in all the slaves as well").
HllReplicaSame == hllReplica = hllKeys

\* A sparse value stays within hll_sparse_max_bytes, covers exactly the
\* registers, and has no two neighbours the merge of hllSparseAdd, which
\* looks at five opcodes only, should have joined.
HllSparseIsTight ==
    \A k \in DOMAIN hllKeys : hllKeys[k].k = "sparse" =>
        LET ops == hllKeys[k].ops
        IN  /\ SparseLen(ops) <= Max({HllSparseMaxBytes, HllHdrSize + 2})
            /\ Covered(ops, Len(ops)) = HllRegisters
            /\ \A i \in 1..(Len(ops) - 1) :
                   ~(ops[i].op = "val" /\ ops[i + 1].op = "val" /\ ops[i].val = ops[i + 1].val /\ ops[i].len + ops[i + 1].len <= HllValMaxLen)

\* A HyperLogLog counts the union it was given, also on the replica, and a sparse
\* one wastes no opcode.
HllIsExact ==
    /\ HllCountsUnion
    /\ HllReplicaSame
    /\ HllSparseIsTight
=============================================================================
