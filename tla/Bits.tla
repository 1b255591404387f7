-------------------------------- MODULE Bits --------------------------------
(***************************************************************************)
(* Bit operations on strings (bitops.c): SETBIT, GETBIT, BITOP, BITCOUNT,  *)
(* BITPOS and BITFIELD.  A string is the sequence of its bits.  The width  *)
(* of a byte and of a machine word are parameters (8 and 64 in the build), *)
(* so that every boundary of the 64 bit arithmetic is met by TLC; numbers  *)
(* are kept modulo 2^WordBits as uint64_t, int64_t and casts keep them.    *)
(***************************************************************************)
EXTENDS Integers, Sequences, FiniteSets, FiniteSetsExt, SequencesExt

CONSTANTS
    ByteBits, WordBits,  \* 8 and 64
    BitopWords,          \* words the fast path of BITOP takes at a time (4)
    BitStarts            \* set of [keys |-> two strings, menu |-> commands, shifts |-> see HighBits]

ASSUME BitsAssumption == ByteBits \in Nat \ {0} /\ WordBits % ByteBits = 0

VARIABLES bitKeys, bitOld, bitDone, bitMenu, bitShift
bitVars == <<bitKeys, bitOld, bitDone, bitMenu, bitShift>>

WordBytes == WordBits \div ByteBits
Missing == [ex |-> FALSE, s |-> <<>>]
Str(s) == [ex |-> TRUE, s |-> s]
Zeros(n) == [i \in 1..n |-> 0]
StrLen(k) == Len(k.s) \div ByteBits
Unsigned(v) == v % 2^WordBits
SignedField(u) == IF u >= 2^(WordBits - 1) THEN u - 2^WordBits ELSE u

\* (uint64_t)-1 << bits.  A shift by the whole width is undefined: x86 shifts
\* by nothing at all, a compiler may also make it 0.
HighBits(bits) == IF bits < WordBits THEN 2^WordBits - 2^bits ELSE bitShift

----------------------------------------------------------------------------
\* Strings of bits

GrowZero(k, maxbit) ==
    LET bytes == maxbit \div ByteBits + 1
    IN  Str(k.s \o Zeros(Max({0, bytes * ByteBits - Len(k.s)})))

lookupStringForBitCommand(k, maxbit) == GrowZero(k, maxbit)

PutBit(s, offset, v) == [s EXCEPT ![offset + 1] = v]
BitAt(s, offset) == IF offset < Len(s) THEN s[offset + 1] ELSE 0

\* Words are skipped while they hold nothing of interest, then the next one,
\* filled up with zeros, is scanned bit by bit.  lead is the number of bytes
\* before the first aligned word.
redisBitpos(s, bit, lead) ==
    LET n == Len(s) \div ByteBits
        Same(b, c) == \A i \in 1..c * ByteBits : s[b * ByteBits + i] # bit
        head == Min({j \in 0..Min({lead, n}) : j = Min({lead, n}) \/ ~Same(j, 1)})
        found == head < Min({lead, n})
        words == IF found THEN 0
                 ELSE Min({w \in 0..n : n - head - w * WordBytes < WordBytes \/ ~Same(head + w * WordBytes, WordBytes)})
        at == (head + words * WordBytes) * ByteBits
        word == [i \in 1..WordBits |-> BitAt(s, at + i - 1)]
    IN  IF bit = 1 /\ \A i \in 1..WordBits : word[i] = 0 THEN -1
        ELSE at + Min({i \in 1..WordBits : word[i] = bit}) - 1

redisPopcount(s) == Cardinality({i \in 1..Len(s) : s[i] = 1})

\* Indexes of bytes, negative ones from the end.
Index(i, n) == Max({0, IF i < 0 THEN n + i ELSE i})
Slice(s, first, last) == SubSeq(s, first * ByteBits + 1, (last + 1) * ByteBits)

bitcountCommand(k, start, end) ==
    LET n == StrLen(k)
        first == Index(start, n)
        last == Min({Index(end, n), n - 1})
    IN  IF ~k.ex \/ (start < 0 /\ end < 0 /\ start > end) \/ first > last THEN 0
        ELSE redisPopcount(Slice(k.s, first, last))

bitposCommand(k, bit, start, end, given, lead) ==
    LET n == StrLen(k)
        first == Index(start, n)
        last == Min({IF given THEN Index(end, n) ELSE n - 1, n - 1})
        pos == redisBitpos(Slice(k.s, first, last), bit, lead)
    IN  CASE ~k.ex -> IF bit = 1 THEN -1 ELSE 0
          [] k.ex /\ first > last -> -1
          [] OTHER -> IF pos = -1 \/ (given /\ bit = 0 /\ pos = (last - first + 1) * ByteBits) THEN -1
                      ELSE pos + first * ByteBits

Combine(op, a, b) ==
    CASE op = "and" -> a * b
      [] op = "or"  -> Max({a, b})
      [] op = "xor" -> (a + b) % 2

\* The length all of the strings have, 0 as soon as a key is missing.
minlen(op, ks) == Min({StrLen(ks[i]) : i \in 1..Len(ks)})

\* The fast path covers whole groups of words that all of the strings have: it
\* reads every string there.  The rest is done byte by byte, short strings
\* being continued with zeros.
bitopCommand(op, ks) ==
    LET max == Max({StrLen(ks[i]) : i \in 1..Len(ks)})
        group == BitopWords * WordBytes
        fast == (minlen(op, ks) \div group) * group * ByteBits
        Bit(k, j) == IF j < fast THEN ks[k].s[j + 1] ELSE BitAt(ks[k].s, j)
        Out(j) == IF op = "not" THEN 1 - Bit(1, j)
                  ELSE FoldLeft(LAMBDA a, k : Combine(op, a, Bit(k, j)), Bit(1, j), [k \in 1..Len(ks) - 1 |-> k + 1])
    IN  IF max = 0 THEN Missing ELSE Str([j \in 1..max * ByteBits |-> Out(j - 1)])

----------------------------------------------------------------------------
\* Integers of some bits at some offset

setUnsignedBitfield(s, offset, bits, value) ==
    [i \in 1..Len(s) |-> IF i - 1 \in offset..offset + bits - 1
                         THEN (value \div 2^(bits - (i - offset))) % 2 ELSE s[i]]

getUnsignedBitfield(s, offset, bits) ==
    FoldLeft(LAMBDA v, j : (2 * v + BitAt(s, offset + j - 1)) % 2^WordBits, 0, [j \in 1..bits |-> j])

\* value | (-1 << bits), when the top bit is set
getSignedBitfield(s, offset, bits) ==
    LET u == getUnsignedBitfield(s, offset, bits)
    IN  SignedField(IF u < 2^(bits - 1) THEN u
               ELSE IF bits < WordBits THEN u + HighBits(bits) ELSE Max({u, HighBits(bits)}))

Verdict(code, limit) == [code |-> code, limit |-> limit]

checkUnsignedBitfieldOverflow(value, incr, bits, ow) ==
    LET max == 2^bits - 1
        maxincr == SignedField(Unsigned(max - value))
        minincr == SignedField(Unsigned(-value))
        Wrap == (value + incr) % 2^bits
    IN  CASE value > max \/ (incr > 0 /\ incr > maxincr) ->
                 Verdict(1, IF ow = "wrap" THEN Wrap ELSE max)
          [] ~(value > max \/ (incr > 0 /\ incr > maxincr)) /\ incr < 0 /\ incr < minincr ->
                 IF ow = "wrap" THEN Verdict(1, Wrap) ELSE Verdict(-1, 0)
          [] OTHER -> Verdict(0, 0)

SignedWrap(value, incr, bits) ==
    LET c == Unsigned(value + incr)
        low == c % 2^bits
        msb == (c \div 2^(bits - 1)) % 2 = 1
        full == IF HighBits(bits) = 0 THEN c ELSE IF msb THEN HighBits(bits) ELSE 0
    IN  SignedField(IF bits = WordBits THEN full ELSE IF msb THEN low + HighBits(bits) ELSE low)

checkSignedBitfieldOverflow(value, incr, bits, ow) ==
    LET max == 2^(bits - 1) - 1
        min == -max - 1
        maxincr == SignedField(Unsigned(max - value))
        minincr == SignedField(Unsigned(min - value))
        over == value > max \/ (bits # WordBits /\ incr > maxincr) \/ (value >= 0 /\ incr > 0 /\ incr > maxincr)
        under == value < min \/ (bits # WordBits /\ incr < minincr) \/ (value < 0 /\ incr < 0 /\ incr < minincr)
    IN  CASE over -> Verdict(1, IF ow = "wrap" THEN SignedWrap(value, incr, bits) ELSE max)
          [] ~over /\ under -> IF ow = "wrap" THEN Verdict(1, SignedWrap(value, incr, bits)) ELSE Verdict(-1, min)
          [] OTHER -> Verdict(0, 0)

\* SET and INCRBY: the old value, the new one, and whether it is stored.  A
\* value in excess is replaced by the limit; with FAIL nothing is written.
WriteField(s, o) ==
    LET old == IF o.sign THEN getSignedBitfield(s, o.offset, o.bits) ELSE getUnsignedBitfield(s, o.offset, o.bits)
        base == IF o.code = "incrby" THEN old ELSE IF o.sign THEN o.v ELSE Unsigned(o.v)
        incr == IF o.code = "incrby" THEN o.v ELSE 0
        c == IF o.sign THEN checkSignedBitfieldOverflow(base, incr, o.bits, o.ow)
                       ELSE checkUnsignedBitfieldOverflow(base, incr, o.bits, o.ow)
        new == IF c.code # 0 THEN c.limit ELSE base + incr
    IN  IF c.code # 0 /\ o.ow = "fail" THEN [s |-> s, reply |-> <<>>]
        ELSE [s |-> setUnsignedBitfield(s, o.offset, o.bits, Unsigned(new)), reply |-> <<IF o.code = "incrby" THEN new ELSE old>>]

\* GET reads from a copy of one word and a byte, zero padded.
ReadField(s, o) ==
    LET byte == o.offset \div ByteBits
        buf == [i \in 1..(WordBytes + 1) * ByteBits |-> BitAt(s, byte * ByteBits + i - 1)]
        at == o.offset - byte * ByteBits
    IN  <<IF o.sign THEN getSignedBitfield(buf, at, o.bits) ELSE getUnsignedBitfield(buf, at, o.bits)>>

\* The string is made long enough for every write before the first of them.
bitfieldCommand(k, ops) ==
    LET writes == {i \in 1..Len(ops) : ops[i].code # "get"}
        grown == IF writes = {} THEN k
                 ELSE lookupStringForBitCommand(k, Max({ops[i].offset + ops[i].bits - 1 : i \in writes}))
        Step(acc, o) ==
            IF o.code = "get" THEN [acc EXCEPT !.replies = Append(@, ReadField(acc.k.s, o))]
            ELSE LET w == WriteField(acc.k.s, o)
                 IN  [k |-> Str(w.s), replies |-> Append(acc.replies, w.reply)]
    IN  FoldLeft(Step, [k |-> grown, replies |-> <<>>], ops)

----------------------------------------------------------------------------
\* A start has a key a and perhaps a key b; one or two commands are executed.
\* bitDone is the last of them, with its reply; bitOld the keys before it.

NoCommand == [name |-> "none"]

BitInit ==
    \E s \in BitStarts :
        /\ bitKeys = s.keys /\ bitMenu = s.menu /\ bitShift \in s.shifts
        /\ bitOld = s.keys /\ bitDone = NoCommand

Run(cmd, keys) ==
    /\ bitDone' = cmd /\ bitKeys' = keys /\ bitOld' = bitKeys
    /\ UNCHANGED <<bitMenu, bitShift>>

SetBit ==
    \E off \in bitMenu.offsets, on \in {0, 1} :
        LET k == lookupStringForBitCommand(bitKeys[1], off)
        IN  Run([name |-> "setbit", off |-> off, on |-> on, reply |-> BitAt(k.s, off)],
                [bitKeys EXCEPT ![1] = Str(PutBit(k.s, off, on))])

GetBit ==
    \E off \in bitMenu.offsets :
        Run([name |-> "getbit", off |-> off, reply |-> BitAt(bitKeys[1].s, off)], bitKeys)

BitCount ==
    \E start \in bitMenu.indexes, end \in bitMenu.indexes :
        Run([name |-> "bitcount", start |-> start, end |-> end, reply |-> bitcountCommand(bitKeys[1], start, end)], bitKeys)

BitPos ==
    \E bit \in {0, 1}, start \in bitMenu.indexes, end \in bitMenu.indexes, given \in BOOLEAN, lead \in 0..WordBytes - 1 :
        Run([name |-> "bitpos", bit |-> bit, start |-> start, end |-> end, given |-> given,
             reply |-> bitposCommand(bitKeys[1], bit, start, end, given, lead)], bitKeys)

BitOp ==
    \E op \in bitMenu.bitops :
        LET ks == IF op = "not" THEN <<bitKeys[1]>> ELSE bitKeys
            r == bitopCommand(op, ks)
        IN  Run([name |-> "bitop", op |-> op, srcs |-> ks], [bitKeys EXCEPT ![1] = r])

BitField ==
    \E ops \in bitMenu.fields :
        LET r == bitfieldCommand(bitKeys[1], ops)
        IN  Run([name |-> "bitfield", ops |-> ops, reply |-> r.replies], [bitKeys EXCEPT ![1] = r.k])

BitNext == bitDone.name \in {"none"} \cup bitMenu.again /\ (SetBit \/ GetBit \/ BitCount \/ BitPos \/ BitOp \/ BitField)

----------------------------------------------------------------------------
\* What the commands promise, in terms of numbers and of positions.

FieldMax(o) == IF o.sign THEN 2^(o.bits - 1) - 1 ELSE 2^o.bits - 1
FieldMin(o) == IF o.sign THEN -(2^(o.bits - 1)) ELSE 0
FieldOf(s, o) ==
    LET u == FoldLeft(LAMBDA v, j : 2 * v + BitAt(s, o.offset + j - 1), 0, [j \in 1..o.bits |-> j])
    IN  IF o.sign /\ u > FieldMax(o) THEN u - 2^o.bits ELSE u

\* The number that should be in the field after the operation.
Intended(s, o) ==
    LET old == FieldOf(s, o)
        x == IF o.code = "incrby" THEN old + o.v ELSE o.v
        wrapped == FieldMin(o) + ((x - FieldMin(o)) % 2^o.bits)
    IN  CASE x \in FieldMin(o)..FieldMax(o) -> x
          [] o.ow = "wrap" -> wrapped
          [] o.ow = "fail" -> old
          [] OTHER -> IF x > FieldMax(o) \/ (~o.sign /\ o.code = "set") THEN FieldMax(o) ELSE FieldMin(o)

\* No shift by the whole word, and max - value is a number of the word: the
\* code subtracts before it has looked at value < min.
Defined(o) ==
    /\ bitShift = 0 \/ o.bits < WordBits
    /\ o.sign /\ o.code = "set" => FieldMax(o) - o.v < 2^(WordBits - 1)

\* BITFIELD with one operation is arithmetic on the number in the field: INCRBY
\* and SET store the sum or the value, wrapped, saturated or left alone as
\* OVERFLOW says, reply with the new or the old number, change no bit outside
\* of the field, and GET reads the number; where the code's arithmetic is defined.
FieldsAreNumbers ==
    bitDone.name = "bitfield" /\ Len(bitDone.ops) = 1 /\ Defined(bitDone.ops[1]) =>
        LET o == bitDone.ops[1]
            s == bitOld[1].s
            t == bitKeys[1].s
        IN  IF o.code = "get" THEN t = s /\ bitDone.reply = <<(<<FieldOf(s, o)>>)>>
            ELSE /\ FieldOf(t, o) = Intended(s, o)
                 /\ \A i \in 0..Len(t) - 1 : i \notin o.offset..o.offset + o.bits - 1 => BitAt(t, i) = BitAt(s, i)
                 /\ bitDone.reply[1] = <<>> \/ bitDone.reply[1] = <<IF o.code = "incrby" THEN FieldOf(t, o) ELSE FieldOf(s, o)>>

\* BITFIELD GET reads the number in a field as wide as a machine word too.
FullWidthFields ==
    bitDone.name = "bitfield" /\ Len(bitDone.ops) = 1 /\ bitDone.ops[1].code = "get" =>
        bitDone.reply = <<(<<FieldOf(bitOld[1].s, bitDone.ops[1])>>)>>

\* BITPOS finds the first such bit of the bytes in the range, whatever the
\* alignment of the string; without an end the string goes on with zeros.
BitposIsFirst ==
    bitDone.name = "bitpos" /\ bitKeys[1].ex =>
        LET n == StrLen(bitKeys[1])
            first == Index(bitDone.start, n)
            last == IF bitDone.given THEN Min({Index(bitDone.end, n), n - 1}) ELSE n - 1
            hits == {i \in first * ByteBits..(last + 1) * ByteBits - 1 : BitAt(bitKeys[1].s, i) = bitDone.bit}
        IN  bitDone.reply = IF hits # {} THEN Min(hits)
                            ELSE IF bitDone.bit = 0 /\ ~bitDone.given /\ first <= last THEN (last + 1) * ByteBits ELSE -1

\* BITOP works position by position on strings continued with zeros, on the fast
\* path and off it, and its result is as long as the longest of them.
BitopIsPointwise ==
    bitDone.name = "bitop" =>
        LET n == Max({Len(k.s) : k \in ToSet(bitDone.srcs)})
            A(i) == BitAt(bitDone.srcs[1].s, i)
            B(i) == BitAt(bitDone.srcs[Len(bitDone.srcs)].s, i)
            Want(i) == CASE bitDone.op = "and" -> IF A(i) = 1 /\ B(i) = 1 THEN 1 ELSE 0
                         [] bitDone.op = "or"  -> IF A(i) = 1 \/ B(i) = 1 THEN 1 ELSE 0
                         [] bitDone.op = "xor" -> IF A(i) # B(i) THEN 1 ELSE 0
                         [] bitDone.op = "not" -> IF A(i) = 1 THEN 0 ELSE 1
        IN  Len(bitKeys[1].s) = n /\ \A i \in 0..n - 1 : BitAt(bitKeys[1].s, i) = Want(i)

\* BITFIELD, BITPOS and BITOP return what the bits of their strings say.
BitsAreExact ==
    /\ FieldsAreNumbers
    /\ BitposIsFirst
    /\ BitopIsPointwise
=============================================================================
