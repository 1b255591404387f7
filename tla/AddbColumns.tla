---------------------------- MODULE AddbColumns ----------------------------
(***************************************************************************)
(* The columns of one row group: FPWRITE splits rows into column vectors     *)
(* (addb_table.c, insertKVpairToRelational), the tiering serialises each     *)
(* vector into one string (vectorSerialize), and FPSCAN puts the rows        *)
(* together again, from the vectors in memory (_cachedScan) or with the      *)
(* iterators over the strings (_cachedScanOnRocksDB_iterator, stl.c).        *)
(*                                                                         *)
(* A value is a sequence of characters, because the separators of the        *)
(* serialised form may occur in it.  "null" is one character.                *)
(***************************************************************************)
EXTENDS Integers, Sequences, SequencesExt, FiniteSets

CONSTANTS ColValues,        \* values a client sends
          ColumnNumber,     \* columns of the table
          ColumnVectorSize, \* server.columnvector_size
          ColMaxRows        \* bound: rows of the group

VARIABLES colRelation,  \* the relation: field <<column vector, column>> -> its values
          colRocks,     \* RocksDB: field -> serialised vector, or NoVector
          colCount,     \* rows of the group according to the Metadict
          colRows,      \* history: the rows as they were sent
          nullRefs      \* refcount of shared.nullValue, 0 once it is freed

colVars == <<colRelation, colRocks, colCount, colRows, nullRefs>>

Cols == 1 .. ColumnNumber
ColFields == (1 .. ColMaxRows) \X Cols
NoVector == [count |-> 0, data |-> <<>>]

ColumnVectorId(rowId) == (rowId - 1) \div ColumnVectorSize + 1
ColumnVectorIndex(rowId) == ((rowId - 1) % ColumnVectorSize) + 1

-----------------------------------------------------------------------------
\* fpWriteCommand: "null" becomes shared.nullValue, and a value that is empty
\* or starts with a blank becomes shared.emptyString.
StoredValue(v) == IF v = <<>> \/ Head(v) = " " THEN <<>> ELSE v

\* The values of a command go row by row to the vector of their column; each
\* use of shared.nullValue is followed by decrRefCount.
ColWrite(rows) ==
    LET nulls == Len(SelectSeq(FlattenSeq(rows), LAMBDA v : v = <<"null">>))
        rowOf(cv) == {r \in 1 .. Len(rows) : ColumnVectorId(colCount + r) = cv}
        added(f) == [k \in 1 .. Len(rows) |-> IF k \in rowOf(f[1]) THEN <<StoredValue(rows[k][f[2]])>> ELSE <<>>]
    IN  /\ colCount + Len(rows) <= ColMaxRows
        /\ nulls <= nullRefs
        /\ colRelation' = [f \in ColFields |-> colRelation[f] \o FlattenSeq(added(f))]
        /\ colCount' = colCount + Len(rows)
        /\ colRows' = colRows \o rows
        /\ nullRefs' = nullRefs - nulls
        /\ UNCHANGED colRocks

-----------------------------------------------------------------------------

\* vectorSerialize: the values separated by ":" and closed by "]".
vectorSerialize(v) ==
    [count |-> Len(v),
     data |-> FlattenSeq([i \in DOMAIN v |-> IF i < Len(v) THEN Append(v[i], ":") ELSE v[i]]) \o <<"]">>]

\* prepareBatchWriteToRocksDB: every vector of the relation.
ColPersist ==
    /\ colCount > 0 /\ \A f \in ColFields : colRocks[f] = NoVector
    /\ colRocks' = [f \in ColFields |->
                      IF colRelation[f] = <<>> THEN NoVector ELSE vectorSerialize(colRelation[f])]
    /\ UNCHANGED <<colRelation, colCount, colRows, nullRefs>>

-----------------------------------------------------------------------------
\* _getTargetToken: the position of the next end point from pos on, 0 if none.
getTargetToken(data, pos, end) == SelectInSubSeq(data, pos, Len(data), LAMBDA c : c = end)

\* makeColumnVectorIter.
makeColumnVectorIter(col_v) == [col_v |-> col_v, i |-> 1, pos |-> 1]

columnVectorIterNext(it) ==
    IF it.i = it.col_v.count THEN it
    ELSE [it EXCEPT !.i = @ + 1, !.pos = getTargetToken(it.col_v.data, @, ":") + 1]

\* columnVectorIterGetNoCopy.
columnVectorIterEnd(it) ==
    getTargetToken(it.col_v.data, it.pos, IF it.i = it.col_v.count THEN "]" ELSE ":")
columnVectorIterGet(it) == SubSeq(it.col_v.data, it.pos, columnVectorIterEnd(it) - 1)

\* The iterator after n calls of columnVectorIterNext.
IterAt(col_v, n) == FoldLeft(LAMBDA it, k : columnVectorIterNext(it), makeColumnVectorIter(col_v),
                             [k \in 1 .. n |-> k])

-----------------------------------------------------------------------------
\* FPSCAN of the columns cols: row after row, from memory and from RocksDB.
_cachedScan(cols) ==
    [r \in 1 .. colCount |-> [k \in DOMAIN cols |->
        colRelation[<<ColumnVectorId(r), cols[k]>>][ColumnVectorIndex(r)]]]

_cachedScanOnRocksDB_iterator(cols) ==
    [r \in 1 .. colCount |-> [k \in DOMAIN cols |->
        columnVectorIterGet(IterAt(colRocks[<<ColumnVectorId(r), cols[k]>>], ColumnVectorIndex(r) - 1))]]

-----------------------------------------------------------------------------
ColInit ==
    /\ colRelation = [f \in ColFields |-> <<>>]
    /\ colRocks = [f \in ColFields |-> NoVector]
    /\ colCount = 0 /\ colRows = <<>> /\ nullRefs = 1

ColRow == [Cols -> ColValues]

\* A group that is in RocksDB takes no more rows.
ColNext ==
    \/ /\ \A f \in ColFields : colRocks[f] = NoVector
       /\ \E r \in ColRow : ColWrite(<<r>>) \/ \E q \in ColRow : ColWrite(<<r, q>>)
    \/ ColPersist

-----------------------------------------------------------------------------
ColPersisted == \E f \in ColFields : colRocks[f] # NoVector
ColColumnLists == {<<c>> : c \in Cols} \cup {<<ColumnNumber, 1>>}
ColExpected(cols) == [r \in 1 .. colCount |-> [k \in DOMAIN cols |-> StoredValue(colRows[r][cols[k]])]]
ColClean(v) == \A i \in DOMAIN v : v[i] \notin {":", "]"}

\* Whatever columns are asked for, the scan in memory returns the values of
\* each row, however the rows were grouped into commands and vectors.
ColMemoryScan == \A cols \in ColColumnLists : _cachedScan(cols) = ColExpected(cols)

\* The scan over the serialised vectors returns the same, empty values
\* included, if no value holds a separator: none is escaped (vectorSerialize).
ColRocksScan ==
    ColPersisted /\ (\A r \in DOMAIN colRows : \A c \in Cols : ColClean(colRows[r][c])) =>
        \A cols \in ColColumnLists : _cachedScanOnRocksDB_iterator(cols) = ColExpected(cols)

\* With separators in the values the scan returns other values, but as many,
\* and columnVectorIterGetNoCopy, which has no bound, stays in the string.
ColScanStaysInside ==
    \A f \in ColFields : \A n \in 0 .. colRocks[f].count - 1 :
        LET it == IterAt(colRocks[f], n)
        IN  it.pos \in 1 .. Len(colRocks[f].data) /\ columnVectorIterEnd(it) >= it.pos

\* "addb shared object" (server.c): the object for null outlives its uses.
NullStaysShared == nullRefs > 0

-----------------------------------------------------------------------------
(***************************************************************************)
(* METAKEYS (addb_table.c, addb_relational.c): the partitions of a table are *)
(* filtered by statements, each a sequence of conditions in postfix form.    *)
(* parseStatement builds a tree with a stack; evaluateCondition decides from *)
(* the values in the key of a partition whether it is kept.                  *)
(*                                                                         *)
(* A query reads the rows of the partitions that are kept, so none that has  *)
(* a row of the result may be dropped.  A row has a value for every column;  *)
(* the rows of a partition agree on the columns of its key.                  *)
(***************************************************************************)
CONSTANTS FltColumns,   \* column id -> its values, all of one type
          FltLike,      \* <<op, pattern, string>>: the string matches
          FltTokens,    \* the conditions of a statement: [op, operands]
          FltPartitions, \* keys in the Metadict: functions from columns to values
          FltMaxTokens, \* bound: conditions of a statement
          FltMaxStatements \* bound: statements of a command

VARIABLES fltStack,  \* the stack of parseStatement
          fltLen,    \* conditions read so far
          fltKept,   \* the partitions kept so far
          fltDone    \* history: the trees of the statements evaluated

fltVars == <<fltStack, fltLen, fltKept, fltDone>>

IsLong(v) == v.type = "LONG"
UnaryOps == {"NOT", "IS_NULL", "IS_NOT_NULL"}
StringOps == {"CONTAINS", "STARTS_WITH", "ENDS_WITH"}
OperandCount(op) == IF op \in UnaryOps THEN 1 ELSE 2

-----------------------------------------------------------------------------
\* stackPop; popping an empty stack wraps its count around.
Underflow == [op |-> "underflow", leaf |-> TRUE]
Pop(s) == IF s = <<>> THEN <<Underflow>> ELSE SubSeq(s, 1, Len(s) - 1)
Top(s, k) == IF Len(s) < k THEN Underflow ELSE s[Len(s) - k + 1]

\* createCondition accepts condition t: a leaf has the operands its operator
\* takes, the last one a column id, and another one finds them on the stack.
ConditionOk(s, t) ==
    IF t.operands # <<>>
    THEN Len(t.operands) = OperandCount(t.op) /\ IsLong(t.operands[Len(t.operands)])
    ELSE OperandCount(t.op) <= Len(s)

\* The stack after condition t: createCondition and stackPush.
createCondition(s, t) ==
    LET n == OperandCount(t.op)
    IN  IF t.operands # <<>>
        THEN Append(s, [op |-> t.op, leaf |-> TRUE, first |-> t.operands[n], second |-> t.operands[1]])
        ELSE Append(IF n = 1 THEN Pop(s) ELSE Pop(Pop(s)),
                    [op |-> t.op, leaf |-> FALSE, first |-> Top(s, 1), second |-> Top(s, n)])

\* One condition of the statement; an error ends the command.
ParseCondition(t) ==
    /\ fltLen < FltMaxTokens /\ Len(fltDone) < FltMaxStatements
    /\ ConditionOk(fltStack, t)
    /\ fltStack' = createCondition(fltStack, t)
    /\ fltLen' = fltLen + 1
    /\ UNCHANGED <<fltKept, fltDone>>

-----------------------------------------------------------------------------
\* Comparison of two values of one type, as a row is compared.
Compare(op, a, b) ==
    CASE op = "EQ" -> a.v = b.v
      [] op = "LT" -> a.v < b.v
      [] op = "LTE" -> a.v <= b.v
      [] op = "GT" -> a.v > b.v
      [] op = "GTE" -> a.v >= b.v
      [] op \in StringOps -> <<op, b.v, a.v>> \in FltLike
      [] op = "IS_NULL" -> FALSE
      [] op = "IS_NOT_NULL" -> TRUE


\* _evaluateLeafOperator: a column that the key does not have, or has with a
\* value of the other type, matches; strings have no order.
_evaluateLeafOperator(c, p) ==
    IF c.op \in {"AND", "OR", "NOT"} THEN FALSE
    ELSE IF c.first.v \notin DOMAIN p THEN TRUE
    ELSE IF c.op = "IS_NULL" THEN FALSE
    ELSE IF c.op = "IS_NOT_NULL" THEN TRUE
    ELSE IF IsLong(c.second) # IsLong(p[c.first.v]) THEN TRUE
    ELSE IF c.op = "EQ" THEN c.second.v = p[c.first.v].v
    ELSE IF c.op \in StringOps THEN ~ IsLong(c.second) /\ Compare(c.op, p[c.first.v], c.second)
    ELSE IsLong(c.second) /\ Compare(c.op, p[c.first.v], c.second)

RECURSIVE _evaluateCondition(_, _)
_evaluateCondition(c, p) ==
    IF c.leaf THEN _evaluateLeafOperator(c, p)
    ELSE CASE c.op = "OR" -> _evaluateCondition(c.first, p) \/ _evaluateCondition(c.second, p)
           [] c.op = "AND" -> _evaluateCondition(c.first, p) /\ _evaluateCondition(c.second, p)
           [] c.op = "NOT" -> ~ _evaluateCondition(c.first, p)
           [] OTHER -> FALSE

\* The end of a statement, which must leave one tree: the partitions that do
\* not match are dropped.
EvaluateStatement ==
    /\ Len(fltStack) = 1
    /\ fltKept' = {p \in fltKept : _evaluateCondition(fltStack[1], p)}
    /\ fltDone' = Append(fltDone, fltStack[1])
    /\ fltStack' = <<>> /\ fltLen' = 0

FltInit == fltStack = <<>> /\ fltLen = 0 /\ fltKept = FltPartitions /\ fltDone = <<>>
FltNext == (\E t \in FltTokens : ParseCondition(t)) \/ EvaluateStatement

-----------------------------------------------------------------------------
\* What the statements ask of a row.
RECURSIVE RowMatches(_, _)
RowMatches(c, row) ==
    IF c.leaf THEN Compare(c.op, row[c.first.v], c.second)
    ELSE CASE c.op = "OR" -> RowMatches(c.first, row) \/ RowMatches(c.second, row)
           [] c.op = "AND" -> RowMatches(c.first, row) /\ RowMatches(c.second, row)
           [] c.op = "NOT" -> ~ RowMatches(c.first, row)

RECURSIVE Leaves(_)
Leaves(c) == IF c.leaf THEN {c} ELSE Leaves(c.first) \cup (IF c.op = "NOT" THEN {} ELSE Leaves(c.second))
RECURSIVE NegatedLeaves(_)
NegatedLeaves(c) ==
    IF c.leaf THEN {} ELSE IF c.op = "NOT" THEN Leaves(c.first)
    ELSE NegatedLeaves(c.first) \cup NegatedLeaves(c.second)
RECURSIVE WellFormed(_)
WellFormed(c) ==
    IF c.leaf THEN c.op \notin {"AND", "OR", "NOT"}
    ELSE /\ c.op \in {"AND", "OR", "NOT"} /\ WellFormed(c.first)
         /\ c.op # "NOT" => WellFormed(c.second)

\* Comparisons the filter supports: of a column with a value of its type, by
\* order for numbers and by pattern for strings.
Supported(c) ==
    WellFormed(c) /\ \A l \in Leaves(c) :
        /\ l.op \in {"EQ"} \cup StringOps \cup {"LT", "LTE", "GT", "GTE"} =>
               \A v \in FltColumns[l.first.v] : IsLong(v) = IsLong(l.second)
        /\ l.op \in {"LT", "LTE", "GT", "GTE"} => IsLong(l.second)
        /\ l.op \in StringOps => ~ IsLong(l.second)
        /\ l.op \in {"IS_NULL", "IS_NOT_NULL"} => l.op = "IS_NOT_NULL"

RowsOf(p) == {r \in [DOMAIN FltColumns -> UNION {FltColumns[c] : c \in DOMAIN FltColumns}] :
                 (\A c \in DOMAIN r : r[c] \in FltColumns[c]) /\ \A c \in DOMAIN p : r[c] = p[c]}
MatchesAll(row) == \A i \in DOMAIN fltDone : RowMatches(fltDone[i], row)

\* No partition is dropped that has a row which the statements select, if the
\* comparisons are supported and only columns of the key are negated
\* (_evaluateLeafOperator answers yes for the others, which Not turns round).
FltDropsNoMatch ==
    (\A i \in DOMAIN fltDone : Supported(fltDone[i])
        /\ \A l \in NegatedLeaves(fltDone[i]), p \in FltPartitions : l.first.v \in DOMAIN p) =>
    \A p \in FltPartitions \ fltKept : \A r \in RowsOf(p) : ~ MatchesAll(r)

\* If every column is one of the key, only partitions whose rows the statements
\* select are kept: the filter is exact (_evaluateCondition).
FltIsExact ==
    (\A i \in DOMAIN fltDone : Supported(fltDone[i])
        /\ \A l \in Leaves(fltDone[i]), p \in FltPartitions : l.first.v \in DOMAIN p) =>
    \A i \in DOMAIN fltDone : \A p \in fltKept : \A r \in RowsOf(p) : RowMatches(fltDone[i], r)

\* No statement makes the parser pop more than there is on the stack
\* (createCondition compares opCount with stackCount).
FltNoUnderflow == \A i \in DOMAIN fltStack : \A l \in Leaves(fltStack[i]) : l.op # "underflow"

=============================================================================
